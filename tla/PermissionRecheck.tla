------------------------- MODULE PermissionRecheck -------------------------
(***************************************************************************)
(* The 403 pause of a Channel-Model binding and its background recheck.    *)
(*                                                                         *)
(* A gateway attempt answered with 403 pauses the one binding it used: a   *)
(* Redis hash per (channel, model) that freezes the revisions the attempt  *)
(* was made under, and one member of a sorted set whose score is the time  *)
(* of the next recheck.  The admission script refuses a candidate whose    *)
(* revisions are those of a record that is not cleared.  Worker servers    *)
(* claim a due member under a lease, probe the binding with a real         *)
(* upstream call, read the revisions and the binding again, and complete   *)
(* the recheck by compare and swap on claim token and revisions.           *)
(*                                                                         *)
(* One channel is modelled with some of its bindings.  The Provider's      *)
(* origin and status revisions are treated alike by every script and are   *)
(* one component here.  Time is relative: the queue holds the ticks that   *)
(* are left, so the order among members that are all overdue is left open. *)
(***************************************************************************)
EXTENDS Naturals, FiniteSets

CONSTANTS
    Bindings,        \* the models bound to the channel
    Upstreams,       \* upstream model names a binding may carry
    Attempts,        \* concurrent gateway attempts
    Workers,         \* worker servers that run the recheck worker
    Lease,           \* ticks of a claim's lease
    InitialBackoff,  \* permissionRecheckInitialBackoff, in ticks
    MaximumBackoff,  \* permissionRecheckMaximumBackoff, in ticks
    MaxRev,          \* bound on each revision
    MaxEdits,        \* bound on the administrator's changes of a binding
    MaxToggles,      \* bound on the upstream's changes of permission
    MaxFaults,       \* bound on crashes, lost calls and store errors
    Prompt           \* TRUE: a live worker ends its recheck within its lease

RecheckAssumption ==
    /\ {Lease, InitialBackoff, MaximumBackoff, MaxRev} \subseteq Nat \ {0}
    /\ {MaxEdits, MaxToggles, MaxFaults} \subseteq Nat
    /\ InitialBackoff <= MaximumBackoff
    /\ Upstreams # {}
    /\ Prompt \in BOOLEAN

VARIABLES
    rev,        \* the channel's current revisions in PostgreSQL
    row,        \* the channel_models rows
    granted,    \* upstream models the upstream currently answers without 403
    record,     \* the permission hashes in Redis
    queue,      \* the recheck queue: ticks until a member is due
    attempt,    \* gateway attempts
    worker,     \* recheck workers
    outdated,   \* history: the worker's claim was taken over or its pause replaced
    edits, toggles, faults

vars == <<rev, row, granted, record, queue, attempt, worker, outdated,
          edits, toggles, faults>>

Revisions == [config : 1..MaxRev, provider : 1..MaxRev]
NoBinding == "none"

(* No member in the queue; no delay is that long.                          *)
NotQueued == Lease + MaximumBackoff + 1

(* Attempts beyond the one that reaches the maximal backoff behave alike.  *)
AttemptCap == MaximumBackoff + 1

States == {"absent", "queued", "checking", "retry_wait", "cleared", "stale"}
Records == [state : States, rev : Revisions, attempts : 0..AttemptCap,
            token : Workers \cup {NoBinding}]
Rows == [status : {"absent", "disabled", "enabled"}, upstream : Upstreams]

First == [config |-> 1, provider |-> 1]
IdleAttempt(u) == [pc |-> "idle", b |-> NoBinding, rev |-> First, upstream |-> u]
IdleWorker(u) == [pc |-> "idle", b |-> NoBinding, rev |-> First, attempts |-> 0,
                  upstream |-> u, verdict |-> "failed"]

AnUpstream == CHOOSE u \in Upstreams : TRUE

Init ==
    /\ rev = First
    /\ row \in [Bindings -> [status : {"enabled"}, upstream : {AnUpstream}]]
    /\ granted \in SUBSET Upstreams
    /\ record = [b \in Bindings |-> [state |-> "absent", rev |-> First,
                                     attempts |-> 0, token |-> NoBinding]]
    /\ queue = [b \in Bindings |-> NotQueued]
    /\ attempt = [a \in Attempts |-> IdleAttempt(AnUpstream)]
    /\ worker = [w \in Workers |-> IdleWorker(AnUpstream)]
    /\ outdated = [w \in Workers |-> FALSE]
    /\ edits = 0 /\ toggles = 0 /\ faults = 0

-----------------------------------------------------------------------------
(* The pause record.                                                       *)

Settled == {"cleared", "stale"}
Pending == {"queued", "checking", "retry_wait"}

(* The gate of gate_and_acquire.lua: a record that is not cleared refuses  *)
(* exactly the candidates with its own revisions.                          *)
Refuses(b, r) == record[b].state \notin {"absent", "cleared"} /\ record[b].rev = r

Behind(r, s) == r.config < s.config \/ r.provider < s.provider

(* Workers whose recheck of b a new record or a new claim overtakes.       *)
Overtaken(b) ==
    [w \in Workers |-> outdated[w] \/ (worker[w].pc # "idle" /\ worker[w].b = b)]

PauseOverwritesNewer(b, r) ==
    IF record[b].state \in Pending /\ record[b].rev = r
    THEN /\ queue' = [queue EXCEPT ![b] = IF @ = NotQueued THEN 0 ELSE @]
         /\ UNCHANGED <<record, outdated>>
    ELSE /\ record' = [record EXCEPT ![b] = [state |-> "queued", rev |-> r,
                                             attempts |-> 0, token |-> NoBinding]]
         /\ queue' = [queue EXCEPT ![b] = 0]
         /\ outdated' = Overtaken(b)

PauseChannelModelPermission(b, r) ==
    CASE record[b].state # "absent" /\ Behind(r, record[b].rev) ->
           UNCHANGED <<record, queue, outdated>>
      [] record[b].state \in Pending /\ record[b].rev = r ->
           /\ queue' = [queue EXCEPT ![b] = IF @ = NotQueued THEN 0 ELSE @]
           /\ UNCHANGED <<record, outdated>>
      [] OTHER ->
           /\ record' = [record EXCEPT ![b] = [state |-> "queued", rev |-> r,
                                               attempts |-> 0, token |-> NoBinding]]
           /\ queue' = [queue EXCEPT ![b] = 0]
           /\ outdated' = Overtaken(b)

-----------------------------------------------------------------------------
(* Gateway attempts.                                                       *)

(* Candidate building reads the binding and the revisions the permit will  *)
(* freeze.                                                                 *)
SelectCandidate(a, b) ==
    /\ attempt[a].pc = "idle"
    /\ row[b].status = "enabled"
    /\ attempt' = [attempt EXCEPT ![a] =
                     [pc |-> "candidate", b |-> b, rev |-> rev,
                      upstream |-> row[b].upstream]]
    /\ UNCHANGED <<rev, row, granted, record, queue, worker, outdated,
                   edits, toggles, faults>>

(* Admission: refused by the pause, or by the Provider control when the    *)
(* candidate's Provider revision is behind; admitted otherwise.            *)
Admit(a) ==
    /\ attempt[a].pc = "candidate"
    /\ attempt' = [attempt EXCEPT ![a] =
         IF Refuses(attempt[a].b, attempt[a].rev)
              \/ attempt[a].rev.provider # rev.provider
         THEN IdleAttempt(AnUpstream) ELSE [@ EXCEPT !.pc = "calling"]]
    /\ UNCHANGED <<rev, row, granted, record, queue, worker, outdated,
                   edits, toggles, faults>>

(* The upstream answers; a 403 becomes runtime feedback.                   *)
Answer(a) ==
    /\ attempt[a].pc = "calling"
    /\ attempt' = [attempt EXCEPT ![a] =
         IF attempt[a].upstream \in granted
         THEN IdleAttempt(AnUpstream) ELSE [@ EXCEPT !.pc = "feedback"]]
    /\ UNCHANGED <<rev, row, granted, record, queue, worker, outdated,
                   edits, toggles, faults>>

(* recordRuntimeFeedback with the revisions the permit froze.               *)
ApplyFeedback(a) ==
    /\ attempt[a].pc = "feedback"
    /\ PauseChannelModelPermission(attempt[a].b, attempt[a].rev)
    /\ attempt' = [attempt EXCEPT ![a] = IdleAttempt(AnUpstream)]
    /\ UNCHANGED <<rev, row, granted, worker, edits, toggles, faults>>

(* The feedback fails: the runner ends the request, nothing is paused.     *)
FeedbackLost(a) ==
    /\ attempt[a].pc = "feedback"
    /\ faults < MaxFaults
    /\ faults' = faults + 1
    /\ attempt' = [attempt EXCEPT ![a] = IdleAttempt(AnUpstream)]
    /\ UNCHANGED <<rev, row, granted, record, queue, worker, outdated, edits, toggles>>

-----------------------------------------------------------------------------
(* The recheck worker.                                                     *)

Due(b) == queue[b] = 0

Dead(b) == record[b].state \in Settled \cup {"absent"}

(* permission_recheck_claim.lua: the head that is due and alive is leased; *)
(* dead members met on the way leave the queue.                            *)
ClaimWithoutLease(w, b) ==
    /\ worker[w].pc = "idle"
    /\ Due(b) /\ ~Dead(b)
    /\ record' = [record EXCEPT ![b].state = "checking", ![b].token = w,
                                ![b].attempts = IF @ < AttemptCap THEN @ + 1 ELSE @]
    /\ queue' = [queue EXCEPT ![b] = NotQueued]
    /\ worker' = [worker EXCEPT ![w] = [pc |-> "claimed", b |-> b, rev |-> record[b].rev,
                     attempts |-> record'[b].attempts,
                     upstream |-> AnUpstream, verdict |-> "failed"]]
    /\ outdated' = [Overtaken(b) EXCEPT ![w] = FALSE]
    /\ UNCHANGED <<rev, row, granted, attempt, edits, toggles, faults>>

ClaimPermissionRecheck(w, b) ==
    /\ worker[w].pc = "idle"
    /\ Due(b) /\ ~Dead(b)
    /\ record' = [record EXCEPT ![b].state = "checking", ![b].token = w,
                                ![b].attempts = IF @ < AttemptCap THEN @ + 1 ELSE @]
    /\ \E passed \in SUBSET {c \in Bindings : Due(c) /\ Dead(c)} :
         queue' = [c \in Bindings |-> CASE c = b -> Lease
                                        [] c \in passed -> NotQueued
                                        [] OTHER -> queue[c]]
    /\ worker' = [worker EXCEPT ![w] = [pc |-> "claimed", b |-> b, rev |-> record[b].rev,
                     attempts |-> record'[b].attempts,
                     upstream |-> AnUpstream, verdict |-> "failed"]]
    /\ outdated' = [Overtaken(b) EXCEPT ![w] = FALSE]
    /\ UNCHANGED <<rev, row, granted, attempt, edits, toggles, faults>>

(* permissionRecheckSnapshot.                                              *)
Stale(task) == rev # task.rev \/ row[task.b].status # "enabled"

(* The first snapshot: a recheck that is stale already makes no call.      *)
BeginRecheck(w) ==
    /\ worker[w].pc = "claimed"
    /\ worker' = [worker EXCEPT ![w] =
         IF Stale(@) THEN [@ EXCEPT !.pc = "complete", !.verdict = "stale"]
         ELSE [@ EXCEPT !.pc = "probing", !.upstream = row[worker[w].b].upstream]]
    /\ UNCHANGED <<rev, row, granted, record, queue, attempt, outdated,
                   edits, toggles, faults>>

(* The probe's answer.                                                     *)
Probe(w) ==
    /\ worker[w].pc = "probing"
    /\ worker' = [worker EXCEPT ![w] =
         [@ EXCEPT !.pc = "probed",
                   !.verdict = IF worker[w].upstream \in granted THEN "succeeded" ELSE "failed"]]
    /\ UNCHANGED <<rev, row, granted, record, queue, attempt, outdated,
                   edits, toggles, faults>>

TrustTheProbe(w) ==
    /\ worker[w].pc = "probed"
    /\ worker' = [worker EXCEPT ![w].pc = "complete"]
    /\ UNCHANGED <<rev, row, granted, record, queue, attempt, outdated,
                   edits, toggles, faults>>

(* The second snapshot and the audit row: a probe that crossed a change of *)
(* revision, of status or of the upstream model is stale.                  *)
JudgeProbe(w) ==
    /\ worker[w].pc = "probed"
    /\ worker' = [worker EXCEPT ![w] =
         [@ EXCEPT !.pc = "complete",
                   !.verdict = IF Stale(worker[w]) \/ row[worker[w].b].upstream # worker[w].upstream
                               THEN "stale" ELSE worker[w].verdict]]
    /\ UNCHANGED <<rev, row, granted, record, queue, attempt, outdated,
                   edits, toggles, faults>>

(* A store or accounting error anywhere in RecheckPermission: the outcome  *)
(* stays failed.                                                           *)
RecheckErrs(w) ==
    /\ worker[w].pc \in {"claimed", "probing", "probed"}
    /\ faults < MaxFaults
    /\ faults' = faults + 1
    /\ worker' = [worker EXCEPT ![w] = [@ EXCEPT !.pc = "complete", !.verdict = "failed"]]
    /\ UNCHANGED <<rev, row, granted, record, queue, attempt, outdated, edits, toggles>>

BackoffWithoutCeiling(n) == InitialBackoff * 2^n

(* permissionRecheckBackoff: doubled from the initial to the maximal one.  *)
Backoff(n) ==
    LET doubled == InitialBackoff * 2^(IF n > 1 THEN n - 1 ELSE 0)
    IN  IF doubled \in 0 .. MaximumBackoff THEN doubled ELSE MaximumBackoff

AnyClaimOfItsState(w) == record[worker[w].b].state = "checking"

SameClaim(w) ==
    LET r == record[worker[w].b]
    IN  r.state = "checking" /\ r.token = w /\ r.rev = worker[w].rev

(* permission_recheck_complete.lua.                                        *)
CompletePermissionRecheck(w) ==
    LET task == worker[w] IN
    /\ task.pc = "complete"
    /\ worker' = [worker EXCEPT ![w] = IdleWorker(AnUpstream)]
    /\ outdated' = [outdated EXCEPT ![w] = FALSE]
    /\ IF SameClaim(w)
       THEN /\ record' = [record EXCEPT
                 ![task.b].token = NoBinding,
                 ![task.b].state = CASE task.verdict = "succeeded" -> "cleared"
                                     [] task.verdict = "stale" -> "stale"
                                     [] OTHER -> "retry_wait"]
            /\ queue' = [queue EXCEPT ![task.b] =
                 IF task.verdict = "failed" THEN Backoff(task.attempts) ELSE NotQueued]
       ELSE UNCHANGED <<record, queue>>
    /\ UNCHANGED <<rev, row, granted, attempt, edits, toggles, faults>>

(* The worker dies, or its completion never reaches Redis.                 *)
WorkerLost(w) ==
    /\ worker[w].pc # "idle"
    /\ faults < MaxFaults
    /\ faults' = faults + 1
    /\ worker' = [worker EXCEPT ![w] = IdleWorker(AnUpstream)]
    /\ outdated' = [outdated EXCEPT ![w] = FALSE]
    /\ UNCHANGED <<rev, row, granted, record, queue, attempt, edits, toggles>>

-----------------------------------------------------------------------------
(* The environment: administrators, the upstream and time.                 *)

(* A change that advances one of the revisions.                            *)
Configure ==
    /\ \/ rev.config < MaxRev /\ rev' = [rev EXCEPT !.config = @ + 1]
       \/ rev.provider < MaxRev /\ rev' = [rev EXCEPT !.provider = @ + 1]
    /\ UNCHANGED <<row, granted, record, queue, attempt, worker, outdated,
                   edits, toggles, faults>>

(* UpdateChannelModel: status and upstream model; no revision moves.       *)
UpdateChannelModel(b, u, s) ==
    /\ edits < MaxEdits
    /\ row[b].status # "absent"
    /\ row[b] # [status |-> s, upstream |-> u]
    /\ edits' = edits + 1
    /\ row' = [row EXCEPT ![b] = [status |-> s, upstream |-> u]]
    /\ UNCHANGED <<rev, granted, record, queue, attempt, worker, outdated, toggles, faults>>

(* DeleteChannelModel.                                                     *)
DeleteChannelModel(b) ==
    /\ edits < MaxEdits
    /\ row[b].status # "absent"
    /\ edits' = edits + 1
    /\ row' = [row EXCEPT ![b].status = "absent"]
    /\ UNCHANGED <<rev, granted, record, queue, attempt, worker, outdated, toggles, faults>>

(* CreateChannelModel: a new binding is always disabled.                   *)
CreateChannelModel(b, u) ==
    /\ edits < MaxEdits
    /\ row[b].status = "absent"
    /\ edits' = edits + 1
    /\ row' = [row EXCEPT ![b] = [status |-> "disabled", upstream |-> u]]
    /\ UNCHANGED <<rev, granted, record, queue, attempt, worker, outdated, toggles, faults>>

(* The upstream grants or withdraws the permission.                        *)
Toggle(u) ==
    /\ toggles < MaxToggles
    /\ toggles' = toggles + 1
    /\ granted' = IF u \in granted THEN granted \ {u} ELSE granted \cup {u}
    /\ UNCHANGED <<rev, row, record, queue, attempt, worker, outdated, edits, faults>>

(* Some live worker still works under a lease that is about to end.        *)
LeaseAboutToEnd ==
    \E w \in Workers : /\ worker[w].pc # "idle"
                       /\ SameClaim(w)
                       /\ queue[worker[w].b] = 1

Tick ==
    /\ \E b \in Bindings : queue[b] # NotQueued /\ queue[b] > 0
    /\ Prompt => ~LeaseAboutToEnd
    /\ queue' = [b \in Bindings |-> IF queue[b] # NotQueued /\ queue[b] > 0
                                    THEN queue[b] - 1 ELSE queue[b]]
    /\ UNCHANGED <<rev, row, granted, record, attempt, worker, outdated,
                   edits, toggles, faults>>

-----------------------------------------------------------------------------
Environment ==
    \/ Configure
    \/ \E b \in Bindings :
          \/ DeleteChannelModel(b)
          \/ \E u \in Upstreams : CreateChannelModel(b, u)
          \/ \E u \in Upstreams, s \in {"enabled", "disabled"} : UpdateChannelModel(b, u, s)
    \/ \E u \in Upstreams : Toggle(u)

GatewayStep(a) ==
    \/ \E b \in Bindings : SelectCandidate(a, b)
    \/ Admit(a) \/ Answer(a) \/ ApplyFeedback(a) \/ FeedbackLost(a)

WorkerStep(w) ==
    \/ \E b \in Bindings : ClaimPermissionRecheck(w, b)
    \/ BeginRecheck(w) \/ Probe(w) \/ JudgeProbe(w) \/ CompletePermissionRecheck(w)
    \/ RecheckErrs(w) \/ WorkerLost(w)

Next ==
    \/ Environment
    \/ Tick
    \/ \E a \in Attempts : GatewayStep(a)
    \/ \E w \in Workers : WorkerStep(w)

Spec == Init /\ [][Next]_vars

(* The runner polls for ever, Redis time passes, and calls end by their    *)
(* timeouts.  New requests are not promised.                               *)
Fairness ==
    /\ WF_vars(Tick)
    /\ \A w \in Workers :
          WF_vars(\/ \E b \in Bindings : ClaimPermissionRecheck(w, b)
                  \/ BeginRecheck(w) \/ Probe(w) \/ JudgeProbe(w)
                  \/ CompletePermissionRecheck(w))
    /\ \A a \in Attempts : WF_vars(Admit(a) \/ Answer(a) \/ ApplyFeedback(a))

LiveSpec == Spec /\ Fairness

-----------------------------------------------------------------------------
(* Properties.                                                             *)

TypeOK ==
    /\ rev \in Revisions
    /\ row \in [Bindings -> Rows]
    /\ granted \subseteq Upstreams
    /\ record \in [Bindings -> Records]
    /\ queue \in [Bindings -> 0..NotQueued]
    /\ attempt \in [Attempts ->
          [pc : {"idle", "candidate", "calling", "feedback"},
           b : Bindings \cup {NoBinding}, rev : Revisions, upstream : Upstreams]]
    /\ worker \in [Workers ->
          [pc : {"idle", "claimed", "probing", "probed", "complete"},
           b : Bindings \cup {NoBinding}, rev : Revisions, attempts : 0..AttemptCap,
           upstream : Upstreams, verdict : {"failed", "succeeded", "stale"}]]
    /\ outdated \in [Workers -> BOOLEAN]
    /\ edits \in 0..MaxEdits /\ toggles \in 0..MaxToggles /\ faults \in 0..MaxFaults

(* No pause is forgotten: a record that still waits for a verdict has its  *)
(* member in the queue, whoever crashed between claim and completion, and  *)
(* a record with a verdict has none.                                       *)
PendingIsQueued ==
    \A b \in Bindings : (record[b].state \in Pending) <=> (queue[b] # NotQueued)

(* A verdict that was overtaken, by the claim of another worker after the  *)
(* lease ran out or by a newer 403 that replaced the pause, changes        *)
(* nothing when it is completed at last.                                   *)
IgnoresTheOvertaken ==
    \A w \in Workers :
        outdated[w] /\ CompletePermissionRecheck(w) => UNCHANGED <<record, queue>>

OvertakenVerdictIsIgnored == [][IgnoresTheOvertaken]_vars

(* A pause is lifted only on the word of a probe made against the binding  *)
(* as it is: at the moment the worker asks Redis to clear, the revisions   *)
(* and the upstream model it probed were those read again after the probe, *)
(* so nothing older than that second look can lift it.  Here: when the     *)
(* second look is taken, a verdict of success means the probed upstream    *)
(* model is the bound one, of an enabled binding, at the record's revision. *)
JudgesTheBinding ==
    \A w \in Workers :
        (worker[w].pc # "complete" /\ worker'[w].pc = "complete"
           /\ worker'[w].verdict = "succeeded")
        => /\ row[worker[w].b] = [status |-> "enabled", upstream |-> worker[w].upstream]
           /\ rev = worker[w].rev

SuccessSpeaksOfTheBinding == [][JudgesTheBinding]_vars

(* Late feedback of an older revision never replaces a newer pause.        *)
PauseNeverGoesBack ==
    [][\A b \in Bindings : record[b].state # "absent" =>
          ~Behind(record'[b].rev, record[b].rev)]_vars

Held(b) == row[b].status = "enabled" /\ Refuses(b, rev)

(* Once the upstream grants every model for good, no enabled binding stays *)
(* paused: crashes, lost completions and re-pauses only delay its recheck. *)
EveryPauseEnds ==
    <>[](granted = Upstreams) => \A b \in Bindings : []<>~Held(b)
=============================================================================
