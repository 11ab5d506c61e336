--------------------------- MODULE ModelDiscovery ---------------------------
(***************************************************************************)
(* Discovery of the models an upstream offers to a channel.                *)
(*                                                                         *)
(* A discovery run is asked for by an administrator or by the schedule,    *)
(* frozen at the current revisions.  A worker claims it, lists the         *)
(* upstream's models and commits items and verdict in one transaction:     *)
(* succeeded if the revisions still are those of the run, stale otherwise. *)
(* Transient failures put the run back with a backoff, three attempts at   *)
(* most.  After a commit the worker removes old runs but keeps the newest  *)
(* successful one, which the inventory is read from.                       *)
(*                                                                         *)
(* One channel is modelled; a unique index allows it one active run.       *)
(***************************************************************************)
EXTENDS Naturals, FiniteSets

CONSTANTS
    Workers,      \* worker servers
    MaxAttempts,  \* maxDiscoveryAttempts
    Keep,         \* finished runs that retention keeps per channel
    MaxRuns,      \* bound on runs ever created
    MaxRev,       \* bound on the revisions
    MaxFaults     \* bound on workers that die and on statements that fail

DiscoveryAssumption ==
    /\ {MaxAttempts, Keep, MaxRuns, MaxRev} \subseteq Nat \ {0}
    /\ MaxFaults \in Nat

VARIABLES
    rev,      \* the current revisions
    runs,     \* the runs kept; ids are given in the order of creation
    created,  \* runs ever created: ids are never given twice
    worker,   \* discovery workers
    faults

vars == <<rev, runs, created, worker, faults>>

Active == {"queued", "waiting", "running"}
Ended == {"succeeded", "failed", "stale"}

(* "waiting" is queued with next_attempt_at in the future; "listed" is the *)
(* revision whose configuration the upstream was asked with.               *)
RunOf == [id : 1..MaxRuns, status : Active \cup Ended, rev : 1..MaxRev,
          attempts : 0..MaxAttempts, listed : 0..MaxRev]

IdleWorker == [pc |-> "idle", id |-> 0, used |-> 0]

Init ==
    /\ rev = 1
    /\ runs = {}
    /\ created = 0
    /\ worker = [w \in Workers |-> IdleWorker]
    /\ faults = 0

Run(id) == CHOOSE r \in runs : r.id = id

Change(r, new) == (runs \ {r}) \cup {new}

-----------------------------------------------------------------------------
(* Asked for by hand, by setup, or enqueued by the schedule: the insert is *)
(* refused while the channel has an active run.                            *)
CreateDiscovery ==
    /\ created < MaxRuns
    /\ \A r \in runs : r.status \notin Active
    /\ created' = created + 1
    /\ runs' = runs \cup {[id |-> created', status |-> "queued", rev |-> rev,
                       attempts |-> 0, listed |-> 0]}
    /\ UNCHANGED <<rev, worker, faults>>

Claim(w) ==
    /\ worker[w].pc = "idle"
    /\ \E r \in runs :
         /\ r.status = "queued"
         /\ runs' = Change(r, [r EXCEPT !.status = "running", !.attempts = r.attempts + 1])
         /\ worker' = [worker EXCEPT ![w] = [pc |-> "claimed", id |-> r.id, used |-> 0]]
    /\ UNCHANGED <<rev, created, faults>>

FinishBlindly(r) == [r EXCEPT !.status = "succeeded"]

FinishIfCurrent(r) == IF r.rev = rev THEN [r EXCEPT !.status = "succeeded"] ELSE r

(* FinishChannelModelDiscoveryRun.                                         *)
Finish(r) == [r EXCEPT !.status = IF r.rev = rev THEN "succeeded" ELSE "stale"]

(* The execution snapshot: a run that is stale already is finished, any    *)
(* other lists the models with the configuration just read.                *)
LoadSnapshot(w) ==
    LET r == Run(worker[w].id) IN
    /\ worker[w].pc = "claimed"
    /\ IF r.rev # rev
       THEN /\ runs' = Change(r, Finish(r))
            /\ worker' = [worker EXCEPT ![w] = IdleWorker]
       ELSE /\ worker' = [worker EXCEPT ![w].pc = "listing", ![w].used = rev]
            /\ UNCHANGED runs
    /\ UNCHANGED <<rev, created, faults>>

(* The models arrive: items and verdict in one transaction.                *)
CommitItems(w) ==
    LET r == Run(worker[w].id) IN
    /\ worker[w].pc = "listing"
    /\ runs' = Change(r, Finish([r EXCEPT !.listed = worker[w].used]))
    /\ worker' = [worker EXCEPT ![w].pc = "sweep"]
    /\ UNCHANGED <<rev, created, faults>>

RetriesForEver(r) == TRUE

MayRetry(r) == r.attempts < MaxAttempts

(* finishDiscoveryError: a transient failure with attempts left waits for  *)
(* its backoff, any other ends the run.                                    *)
ListingFails(w) ==
    LET r == Run(worker[w].id) IN
    /\ worker[w].pc = "listing"
    /\ \E transient \in BOOLEAN :
         runs' = Change(r, [r EXCEPT !.status =
                    IF transient /\ MayRetry(r) THEN "waiting" ELSE "failed"])
    /\ worker' = [worker EXCEPT ![w] = IdleWorker]
    /\ UNCHANGED <<rev, created, faults>>

(* next_attempt_at passes.                                                 *)
BackoffPasses ==
    /\ \E r \in runs :
         r.status = "waiting" /\ runs' = Change(r, [r EXCEPT !.status = "queued"])
    /\ UNCHANGED <<rev, created, worker, faults>>

-----------------------------------------------------------------------------
EndedRuns == {r \in runs : r.status \in Ended}

(* Ids of the newest Keep ended runs.                                      *)
Recent ==
    {r.id : r \in {e \in EndedRuns : Cardinality({n \in EndedRuns : n.id > e.id}) < Keep}}

SucceededIds == {r.id : r \in {s \in runs : s.status = "succeeded"}}

(* GetLatestSuccessfulChannelModelDiscoveryRun; 0 if there is none.        *)
Latest == IF SucceededIds = {} THEN 0
          ELSE CHOOSE i \in SucceededIds : \A j \in SucceededIds : j <= i

KeptByAge(r) == r.status \in Active \/ r.id \in Recent

KeptOfTheEnded(r) == r.id \in Recent \cup {Latest}

KeptByRetention(r) == r.status \in Active \/ r.id \in Recent \cup {Latest}

(* DeleteOldChannelModelDiscoveryRuns; its error is dropped.               *)
DeleteOld(w) ==
    /\ worker[w].pc = "sweep"
    /\ \/ runs' = {r \in runs : KeptByRetention(r)} /\ UNCHANGED faults
       \/ faults < MaxFaults /\ faults' = faults + 1 /\ UNCHANGED runs
    /\ worker' = [worker EXCEPT ![w] = IdleWorker]
    /\ UNCHANGED <<rev, created>>

(* The worker dies or a statement of the run fails: the run stays running, *)
(* and nothing claims a running run again.                                 *)
WorkerLost(w) ==
    /\ worker[w].pc # "idle"
    /\ faults < MaxFaults
    /\ faults' = faults + 1
    /\ worker' = [worker EXCEPT ![w] = IdleWorker]
    /\ UNCHANGED <<rev, runs, created>>

Configure ==
    /\ rev < MaxRev
    /\ rev' = rev + 1
    /\ UNCHANGED <<runs, created, worker, faults>>

-----------------------------------------------------------------------------
RunStep(w) ==
    Claim(w) \/ LoadSnapshot(w) \/ CommitItems(w) \/ ListingFails(w) \/ DeleteOld(w)

Next ==
    \/ CreateDiscovery \/ BackoffPasses \/ Configure
    \/ \E w \in Workers : RunStep(w) \/ WorkerLost(w)

Spec == Init /\ [][Next]_vars

(* The worker loop polls for ever, listing is bounded by its timeout and   *)
(* a backoff passes.                                                       *)
Fairness ==
    /\ WF_vars(BackoffPasses)
    /\ \A w \in Workers : WF_vars(RunStep(w))

LiveSpec == Spec /\ Fairness

-----------------------------------------------------------------------------
(* Properties.                                                             *)

TypeOK ==
    /\ rev \in 1..MaxRev
    /\ created \in 0..MaxRuns
    /\ runs \subseteq RunOf
    /\ worker \in [Workers -> [pc : {"idle", "claimed", "listing", "sweep"},
                               id : 0..MaxRuns, used : 0..MaxRev]]
    /\ faults \in 0..MaxFaults

(* The inventory of a succeeded run was listed with one configuration, the *)
(* one the run froze, although snapshot, listing and commit are apart and  *)
(* the configuration may change between any two of them.                   *)
SucceededIsOfItsRevision ==
    \A r \in runs : r.status = "succeeded" => r.listed = r.rev

(* The inventory that is shown never goes back to an older run and never   *)
(* vanishes: retention keeps the newest success, however many failures     *)
(* came after it and however late the sweep of another worker runs.        *)
LatestNeverGoesBack == [][Latest' >= Latest]_vars

(* A worker that works on a run finds the run there, and running: nothing  *)
(* removes or finishes it underneath.                                      *)
WorkedOnIsRunning ==
    \A w \in Workers : worker[w].pc \in {"claimed", "listing"} =>
        \E r \in runs : r.id = worker[w].id /\ r.status = "running"

(* Every run ends, workers that die apart: retries are counted.            *)
RunsEnd == []<>(\A r \in runs : r.status \in Ended)
=============================================================================
