------------------------- MODULE ModelVerification -------------------------
(***************************************************************************)
(* Verification of a channel's model bindings and the evidence it gives.   *)
(*                                                                         *)
(* An administrator asks for a batch of models to be verified: one run     *)
(* with one item per model, frozen at the channel's and the Provider's     *)
(* revisions.  A worker claims the run, probes item after item with a real *)
(* upstream call, accounts every probe with the Provider's ledger, and     *)
(* finishes the run as succeeded, failed or stale.  A binding is enabled,  *)
(* or given another upstream model, on the evidence of a succeeded item    *)
(* whose run is finished at the current revisions.                         *)
(*                                                                         *)
(* One channel is modelled: a unique index allows it one active run.  The  *)
(* three revisions are only ever compared for equality together and are    *)
(* one number; archiving a channel advances it as well.                    *)
(***************************************************************************)
EXTENDS Naturals, Sequences, FiniteSets

CONSTANTS
    Models,      \* ids of the models bound to the channel: 1..n
    Upstreams,   \* upstream model names
    Workers,     \* worker servers
    Admins,      \* concurrent administrator requests
    MaxRuns,     \* bound on verification runs
    MaxRev,      \* bound on the revisions
    MaxWrites,   \* bound on updates and deletions of bindings
    MaxFaults    \* bound on crashes and store errors

VerificationAssumption ==
    /\ Models \subseteq Nat /\ Upstreams # {}
    /\ {MaxRuns, MaxRev, MaxWrites, MaxFaults} \subseteq Nat /\ MaxRev > 0

VARIABLES
    rev,       \* the current revisions
    row,       \* the channel_models rows
    runs,      \* the verification runs with their items, oldest first
    worker,    \* the verification workers
    admin,     \* requests that update a binding
    verified,  \* history: pairs a probe found usable and the ledger accounted
    writes, faults

vars == <<rev, row, runs, worker, admin, verified, writes, faults>>

AnUpstream == CHOOSE u \in Upstreams : TRUE
Active == {"queued", "running"}

Items == [upstream : Upstreams, status : {"queued", "succeeded", "failed", "skipped"},
          used : 0..MaxRev]
IdleWorker == [pc |-> "idle", run |-> 0, used |-> 0, outcome |-> "ok"]
IdleAdmin == [pc |-> "idle", model |-> 0, upstream |-> AnUpstream, status |-> "disabled",
              run |-> 0, needed |-> FALSE]

(* Bindings are created disabled.                                          *)
Init ==
    /\ rev = 1
    /\ row = [m \in Models |-> [status |-> "disabled", upstream |-> AnUpstream]]
    /\ runs = <<>>
    /\ worker = [w \in Workers |-> IdleWorker]
    /\ admin = [a \in Admins |-> IdleAdmin]
    /\ verified = {}
    /\ writes = 0 /\ faults = 0

-----------------------------------------------------------------------------
(* Runs.                                                                   *)

(* CreateVerification: run and items in one transaction; the unique index  *)
(* of active runs refuses a second one, a model without a binding all.     *)
CreateVerification(targets, u) ==
    /\ Len(runs) < MaxRuns
    /\ \A r \in DOMAIN runs : runs[r].status \notin Active
    /\ \A m \in targets : row[m].status # "absent"
    /\ runs' = Append(runs,
         [status |-> "queued", rev |-> rev,
          items |-> [m \in targets |->
             [upstream |-> u[m], status |-> "queued", used |-> 0]]])
    /\ UNCHANGED <<rev, row, worker, admin, verified, writes, faults>>

(* ClaimNextChannelModelVerificationRun: queued to running, without lease. *)
ClaimRun(w) ==
    /\ worker[w].pc = "idle"
    /\ \E r \in DOMAIN runs :
         /\ runs[r].status = "queued"
         /\ runs' = [runs EXCEPT ![r].status = "running"]
         /\ worker' = [worker EXCEPT ![w] = [IdleWorker EXCEPT !.pc = "claimed", !.run = r]]
    /\ UNCHANGED <<rev, row, admin, verified, writes, faults>>

Remaining(r) == {m \in DOMAIN runs[r].items : runs[r].items[m].status = "queued"}

SkippedAsStale(r) ==
    [m \in DOMAIN runs[r].items |->
        IF m \in Remaining(r) THEN [runs[r].items[m] EXCEPT !.status = "stale"]
        ELSE runs[r].items[m]]

Skipped(r) ==
    [m \in DOMAIN runs[r].items |->
        IF m \in Remaining(r) THEN [runs[r].items[m] EXCEPT !.status = "skipped"]
        ELSE runs[r].items[m]]

(* The items left are skipped; the error of that statement is dropped.     *)
SkipRemaining(r) ==
    \/ runs' = [runs EXCEPT ![r].items = Skipped(r)] /\ UNCHANGED faults
    \/ faults < MaxFaults /\ faults' = faults + 1 /\ UNCHANGED runs

(* The execution snapshot: the configuration every probe of the run uses.  *)
LoadSnapshot(w) ==
    LET r == worker[w].run IN
    /\ worker[w].pc = "claimed"
    /\ IF runs[r].rev # rev
       THEN /\ SkipRemaining(r)
            /\ worker' = [worker EXCEPT ![w].pc = "finish"]
       ELSE /\ worker' = [worker EXCEPT ![w].pc = "probe", ![w].used = rev]
            /\ UNCHANGED <<runs, faults>>
    /\ UNCHANGED <<rev, row, admin, verified, writes>>

(* A probe ends well, fails for the model, or fails for the channel        *)
(* (verificationFailureStopsBatch).                                        *)
ProbeItem(w, outcome) ==
    /\ worker[w].pc = "probe"
    /\ worker' = [worker EXCEPT ![w].outcome = outcome, ![w].pc = "probed"]
    /\ UNCHANGED <<rev, row, runs, admin, verified, writes, faults>>

NextItem(r) == CHOOSE m \in Remaining(r) : \A n \in Remaining(r) : m <= n

CompletedIgnoringAccounting(w, accounted) == worker[w].outcome = "ok"

(* What the item becomes: a probe the ledger could not account is failed.  *)
Completed(w, accounted) == worker[w].outcome = "ok" /\ accounted

(* AccountProbe and CompleteChannelModelVerificationItem; a failure of     *)
(* accounting or of the channel ends the batch.                            *)
CompleteItem(w) ==
    LET r == worker[w].run
        m == NextItem(r)
    IN
    /\ worker[w].pc = "probed"
    /\ \E accounted \in BOOLEAN :
         /\ accounted \/ faults < MaxFaults
         /\ faults' = IF accounted THEN faults ELSE faults + 1
         /\ runs' = [runs EXCEPT ![r].items[m] =
              [upstream |-> runs[r].items[m].upstream, used |-> worker[w].used,
               status |-> IF Completed(w, accounted) THEN "succeeded" ELSE "failed"]]
         /\ worker' = [worker EXCEPT ![w].pc =
              IF ~accounted \/ worker[w].outcome = "channel" THEN "stop"
              ELSE IF Remaining(r) = {m} THEN "finish" ELSE "probe"]
         /\ verified' = IF worker[w].outcome = "ok" /\ accounted
                        THEN verified \cup {<<m, runs[r].items[m].upstream>>} ELSE verified
    /\ UNCHANGED <<rev, row, admin, writes>>

StopWithoutFinish(w) ==
    /\ worker[w].pc = "stop"
    /\ SkipRemaining(worker[w].run)
    /\ worker' = [worker EXCEPT ![w] = IdleWorker]
    /\ UNCHANGED <<rev, row, admin, verified, writes>>

StopBatch(w) ==
    /\ worker[w].pc = "stop"
    /\ SkipRemaining(worker[w].run)
    /\ worker' = [worker EXCEPT ![w].pc = "finish"]
    /\ UNCHANGED <<rev, row, admin, verified, writes>>

FinishIgnoringFailures(r) == IF runs[r].rev # rev THEN "stale" ELSE "succeeded"

(* FinishChannelModelVerificationRun.                                      *)
Finished(r) ==
    IF runs[r].rev # rev THEN "stale"
    ELSE IF \E m \in DOMAIN runs[r].items : runs[r].items[m].status \in {"failed", "skipped"}
    THEN "failed" ELSE "succeeded"

FinishRun(w) ==
    LET r == worker[w].run IN
    /\ worker[w].pc = "finish"
    /\ runs' = [runs EXCEPT ![r].status = Finished(r)]
    /\ worker' = [worker EXCEPT ![w] = IdleWorker]
    /\ UNCHANGED <<rev, row, admin, verified, writes, faults>>

(* The worker dies, or a statement of the run fails: the run stays as it   *)
(* is, and nothing claims a running run again.                             *)
WorkerLost(w) ==
    /\ worker[w].pc # "idle"
    /\ faults < MaxFaults
    /\ faults' = faults + 1
    /\ worker' = [worker EXCEPT ![w] = IdleWorker]
    /\ UNCHANGED <<rev, row, runs, admin, verified, writes>>

-----------------------------------------------------------------------------
(* Bindings.                                                               *)

NeedsOnlyWhenEnabling(m, u, s) == row[m].status = "disabled" /\ s = "enabled"

(* requiresVerification, on the row as it was read.                        *)
RequiresVerification(m, u, s) ==
    row[m].upstream # u \/ (row[m].status = "disabled" /\ s = "enabled")

ReadBinding(a, m, u, s, r) ==
    /\ admin[a].pc = "idle"
    /\ writes < MaxWrites
    /\ row[m].status # "absent"
    /\ admin' = [admin EXCEPT ![a] = [pc |-> "read", model |-> m, upstream |-> u,
                    status |-> s, run |-> r, needed |-> RequiresVerification(m, u, s)]]
    /\ UNCHANGED <<rev, row, runs, worker, verified, writes, faults>>

(* GetCurrentChannelModelVerificationEvidence for the item of m in run r.  *)
Evidence(r, m, u) ==
    /\ runs[r].status \in {"succeeded", "failed"}
    /\ runs[r].rev = rev
    /\ m \in DOMAIN runs[r].items
    /\ runs[r].items[m].upstream = u
    /\ runs[r].items[m].status = "succeeded"

(* The evidence is checked, or the request refused.                        *)
CheckEvidence(a) ==
    LET in == admin[a] IN
    /\ in.pc = "read"
    /\ admin' = [admin EXCEPT ![a] =
         IF in.needed /\ ~(in.run \in DOMAIN runs /\ Evidence(in.run, in.model, in.upstream))
         THEN IdleAdmin ELSE [in EXCEPT !.pc = "write"]]
    /\ UNCHANGED <<rev, row, runs, worker, verified, writes, faults>>

(* UpdateChannelModel writes whatever the row has become meanwhile.        *)
WriteBinding(a) ==
    LET in == admin[a] IN
    /\ in.pc = "write"
    /\ writes < MaxWrites
    /\ row' = IF row[in.model].status = "absent" THEN row
              ELSE [row EXCEPT ![in.model] = [status |-> in.status, upstream |-> in.upstream]]
    /\ admin' = [admin EXCEPT ![a] = IdleAdmin]
    /\ writes' = writes + 1
    /\ UNCHANGED <<rev, runs, worker, verified, faults>>

DeleteBinding(m) ==
    /\ writes < MaxWrites
    /\ row[m].status # "absent"
    /\ row' = [row EXCEPT ![m].status = "absent"]
    /\ writes' = writes + 1
    /\ UNCHANGED <<rev, runs, worker, admin, verified, faults>>

(* A new binding starts disabled, whatever status was asked for.           *)
CreateBinding(m, u) ==
    /\ row[m].status = "absent"
    /\ row' = [row EXCEPT ![m] = [status |-> "disabled", upstream |-> u]]
    /\ UNCHANGED <<rev, runs, worker, admin, verified, writes, faults>>

(* Credential, status, timeouts or the Provider's origin change.           *)
Configure ==
    /\ rev < MaxRev
    /\ rev' = rev + 1
    /\ UNCHANGED <<row, runs, worker, admin, verified, writes, faults>>

-----------------------------------------------------------------------------
AdminStep ==
    \/ \E targets \in (SUBSET Models) \ {{}} : \E u \in [targets -> Upstreams] :
          CreateVerification(targets, u)
    \/ \E a \in Admins, m \in Models, u \in Upstreams, s \in {"enabled", "disabled"},
          r \in 0..MaxRuns : ReadBinding(a, m, u, s, r)
    \/ \E a \in Admins : CheckEvidence(a) \/ WriteBinding(a)
    \/ \E m \in Models : DeleteBinding(m) \/ \E u \in Upstreams : CreateBinding(m, u)
    \/ Configure

RunStep(w) ==
    \/ ClaimRun(w) \/ LoadSnapshot(w)
    \/ \E outcome \in {"ok", "model", "channel"} : ProbeItem(w, outcome)
    \/ CompleteItem(w) \/ StopBatch(w) \/ FinishRun(w)

Next ==
    \/ AdminStep
    \/ \E w \in Workers : RunStep(w) \/ WorkerLost(w)

Spec == Init /\ [][Next]_vars

(* The worker loop polls for ever and every probe ends by its timeout.     *)
Fairness == \A w \in Workers : WF_vars(RunStep(w))

LiveSpec == Spec /\ Fairness

-----------------------------------------------------------------------------
(* Properties.                                                             *)

TypeOK ==
    /\ rev \in 1..MaxRev
    /\ row \in [Models -> [status : {"absent", "disabled", "enabled"}, upstream : Upstreams]]
    /\ Len(runs) <= MaxRuns
    /\ \A r \in DOMAIN runs :
         /\ runs[r].status \in {"queued", "running", "succeeded", "failed", "stale"}
         /\ runs[r].rev \in 1..MaxRev
         /\ DOMAIN runs[r].items \subseteq Models
         /\ \A m \in DOMAIN runs[r].items : runs[r].items[m] \in Items
    /\ worker \in [Workers -> [pc : {"idle", "claimed", "probe", "probed", "stop", "finish"},
                               run : 0..MaxRuns, used : 0..MaxRev,
                               outcome : {"ok", "model", "channel"}]]
    /\ admin \in [Admins -> [pc : {"idle", "read", "write"}, model : Models \cup {0},
                             upstream : Upstreams, status : {"enabled", "disabled"},
                             run : 0..MaxRuns, needed : BOOLEAN]]
    /\ verified \subseteq Models \X Upstreams
    /\ writes \in 0..MaxWrites /\ faults \in 0..MaxFaults

(* Evidence that would be accepted now was probed with the configuration   *)
(* of now, and its probe is in the Provider's ledger: neither a change     *)
(* under a running batch, nor a batch that stopped half way, nor a probe   *)
(* that could not be accounted leaves usable evidence behind.              *)
UsableEvidenceIsFresh ==
    \A r \in DOMAIN runs : \A m \in DOMAIN runs[r].items :
        Evidence(r, m, runs[r].items[m].upstream) =>
            /\ runs[r].items[m].used = rev
            /\ <<m, runs[r].items[m].upstream>> \in verified

(* A run is called succeeded only when every one of its items is, also     *)
(* when skipping the rest of a stopped batch failed.                       *)
SucceededRunIsWhole ==
    \A r \in DOMAIN runs : runs[r].status = "succeeded" =>
        \A m \in DOMAIN runs[r].items : runs[r].items[m].status = "succeeded"

(* An enabled binding points to an upstream model that a probe once found  *)
(* usable for it, whatever updates, deletions and re-creations raced.      *)
EnabledWasVerified ==
    \A m \in Models : row[m].status = "enabled" => <<m, row[m].upstream>> \in verified

(* Every run that is asked for is finished, workers that die apart.        *)
RunsEnd ==
    \A r \in 1..MaxRuns : []<>(r \in DOMAIN runs => runs[r].status \notin Active)

(* A binding is enabled, or its upstream model replaced, only while        *)
(* evidence for it is current: "the current successful verification that   *)
(* must be submitted when a binding is enabled or remapped".               *)
ChangedOnCurrentEvidence ==
    [][\A m \in Models :
          /\ row[m].status # "absent" /\ row'[m].status = "enabled"
          /\ row[m].status = "disabled" \/ row[m].upstream # row'[m].upstream
          => \E r \in DOMAIN runs : Evidence(r, m, row'[m].upstream)]_vars
=============================================================================
