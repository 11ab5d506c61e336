--------------------------- MODULE RuntimeControl ---------------------------
(***************************************************************************)
(* Publishing one critical setting, or the capacity of one Channel, from   *)
(* PostgreSQL to its control in Redis: Publisher.Publish, one action per   *)
(* call it makes, against Reconciler.ReconcileWithPayload and the restore  *)
(* of stable controls that follows it in the same pass.                    *)
(***************************************************************************)
EXTENDS Naturals

CONSTANTS
    Ops,         \* operation tokens (random: one per call of Publish)
    NoOp,        \* no operation; the payload before the first one
    Reconcilers, \* processes that reconcile
    StartUps,    \* those of them whose pass is the one of their start-up
    MaxFaults,   \* bound: calls that fail or go unanswered, passes cut short
    MaxLosses    \* bound: losses of what Redis holds

RuntimeControlAssumption ==
    NoOp \notin Ops /\ StartUps \subseteq Reconcilers /\ MaxFaults \in Nat /\ MaxLosses \in Nat

Payloads == Ops \cup {NoOp}   \* each operation publishes a payload of its own

VARIABLES
    row,      \* the setting or Channel row: revision and payload
    op,       \* runtime_control_operations
    control,  \* the control hash in Redis
    mark,     \* the operation hash in Redis
    pub,      \* the next call of each publisher
    rec,      \* the next call of each reconciler and what it has read
    faults, losses

vars == <<row, op, control, mark, pub, rec, faults, losses>>

PublisherCalls == {"idle", "create", "prepare", "mark", "business", "commit", "close",
                   "abort", "closeAborted", "done"}
ReconcilerCalls == {"idle", "payload", "snapshot", "recover", "close", "list", "restore"}
OpStates == {"none", "preparing", "prepared", "db_committed", "committed", "aborted"}
Open == {"preparing", "prepared", "db_committed"}
Marks == {"none", "prepared", "committed", "aborted"}
Outcomes == {"answered", "lost", "failed"}

Idle == [pc |-> "idle", op |-> NoOp, state |-> "none", rev |-> 1, payload |-> NoOp]

Init ==
    /\ row = [rev |-> 1, payload |-> NoOp]
    /\ op = [t \in Ops |-> [state |-> "none", current |-> 1]]
    /\ control = [present |-> TRUE, rev |-> 1, payload |-> NoOp, pending |-> NoOp]
    /\ mark = [t \in Ops |-> "none"]
    /\ pub = [t \in Ops |-> "idle"]
    /\ rec = [r \in Reconcilers |-> Idle]
    /\ faults = 0 /\ losses = 0
-----------------------------------------------------------------------------
(* The control scripts                                                     *)

NextRevision(t) == op[t].current + 1

\* control_prepare.lua
PrepareReply(t) ==
    IF mark[t] # "none" THEN mark[t]
    ELSE IF ~(control.present /\ control.rev = op[t].current) THEN "stale"
    ELSE IF control.pending # NoOp THEN "conflict_pending" ELSE "prepared"

DoPrepare(t) ==
    IF mark[t] = "none" /\ PrepareReply(t) = "prepared"
    THEN control' = [control EXCEPT !.pending = t] /\ mark' = [mark EXCEPT ![t] = "prepared"]
    ELSE UNCHANGED <<control, mark>>

\* control_commit.lua
CommitReply(t) ==
    CASE mark[t] = "none"      -> "unknown_op"
      [] mark[t] = "committed" -> "committed"
      [] mark[t] = "aborted"   -> "aborted_conflict"
      [] mark[t] = "prepared"  -> IF control.pending = t THEN "committed" ELSE "conflict"

DoCommit(t) ==
    IF mark[t] = "prepared" /\ control.pending = t
    THEN /\ control' = [control EXCEPT !.rev = NextRevision(t), !.payload = t, !.pending = NoOp]
         /\ mark' = [mark EXCEPT ![t] = "committed"]
    ELSE UNCHANGED <<control, mark>>

\* control_abort.lua: the operation is aborted even where its fence is gone.
DoAbort(t) ==
    IF mark[t] = "prepared"
    THEN /\ control' = [control EXCEPT !.pending = IF @ = t THEN NoOp ELSE @]
         /\ mark' = [mark EXCEPT ![t] = "aborted"]
    ELSE UNCHANGED <<control, mark>>

Active(rev, payload) == [present |-> TRUE, rev |-> rev, payload |-> payload, pending |-> NoOp]

ForeignPending(t) == control.present /\ control.pending \notin {NoOp, t}

\* control_recover_committed.lua
CanRecoverCommitted(t) ==
    /\ mark[t] # "aborted"
    /\ control.present => \/ control.rev = op[t].current
                          \/ control.rev = NextRevision(t) /\ control.payload = t
    /\ ~ForeignPending(t)

\* control_recover_aborted.lua
CanRecoverAborted(t, payload) ==
    /\ mark[t] # "committed"
    /\ control.present => control.rev = op[t].current /\ control.payload = payload
    /\ ~ForeignPending(t)

\* control_restore_missing.lua
RestoreAlways(rev, payload) == Active(rev, payload)
RestoreMissing(rev, payload) == IF control.present THEN control ELSE Active(rev, payload)

\* control_reconcile.lua: rewritten as a whole unless already exactly so.
ReconcileKeepingFence(rev, payload) == [control EXCEPT !.rev = rev, !.payload = payload]
ReconcileControl(rev, payload) == Active(rev, payload)
-----------------------------------------------------------------------------
(* Publisher.Publish                                                       *)

Goto(t, pc) == pub' = [pub EXCEPT ![t] = pc]

Fault == faults < MaxFaults /\ faults' = faults + 1
Charge(outcome) == IF outcome = "answered" THEN UNCHANGED faults ELSE Fault

\* The caller has read the row: CurrentRevision is what it saw.
RequestPrevious(t) ==
    /\ pub[t] = "idle"
    /\ op' = [op EXCEPT ![t].current = row.rev - 1]
    /\ Goto(t, "create")
    /\ UNCHANGED <<row, control, mark, rec, faults, losses>>

Request(t) ==
    /\ pub[t] = "idle"
    /\ op' = [op EXCEPT ![t].current = row.rev]
    /\ Goto(t, "create")
    /\ UNCHANGED <<row, control, mark, rec, faults, losses>>

\* One open operation per setting and per Channel.
NoneOpen == \A u \in Ops : op[u].state \notin Open

Create(t) ==
    /\ pub[t] = "create"
    /\ IF NoneOpen
       THEN op' = [op EXCEPT ![t].state = "preparing"] /\ Goto(t, "prepare")
       ELSE UNCHANGED op /\ Goto(t, "done")
    /\ UNCHANGED <<row, control, mark, rec, faults, losses>>

Prepare(t, outcome) ==
    /\ pub[t] = "prepare"
    /\ IF outcome = "failed" THEN UNCHANGED <<control, mark>> ELSE DoPrepare(t)
    /\ Goto(t, IF outcome # "answered" THEN "abort"
               ELSE CASE PrepareReply(t) = "prepared"  -> "mark"
                      [] PrepareReply(t) = "committed" -> "done"
                      [] OTHER                         -> "abort")
    /\ Charge(outcome)
    /\ UNCHANGED <<row, op, rec, losses>>

\* The row count is not looked at: business goes on even if nothing was marked.
MarkPrepared(t) ==
    /\ pub[t] = "mark"
    /\ op' = IF op[t].state = "preparing" THEN [op EXCEPT ![t].state = "prepared"] ELSE op
    /\ Goto(t, "business")
    /\ UNCHANGED <<row, control, mark, rec, faults, losses>>

\* commitBusiness: both updates are conditional, and the acknowledgement may be lost.
CommitBusinessIgnoringError(t, outcome) ==
    /\ pub[t] = "business"
    /\ IF outcome # "failed" /\ row.rev = op[t].current /\ op[t].state = "prepared"
       THEN /\ row' = [rev |-> NextRevision(t), payload |-> t]
            /\ op' = [op EXCEPT ![t].state = "db_committed"]
       ELSE UNCHANGED <<row, op>>
    /\ Goto(t, "commit")
    /\ Charge(outcome)
    /\ UNCHANGED <<control, mark, rec, losses>>

CommitBusiness(t, outcome) ==
    /\ pub[t] = "business"
    /\ IF outcome # "failed" /\ row.rev = op[t].current /\ op[t].state = "prepared"
       THEN /\ row' = [rev |-> NextRevision(t), payload |-> t]
            /\ op' = [op EXCEPT ![t].state = "db_committed"]
            /\ Goto(t, IF outcome = "answered" THEN "commit" ELSE "abort")
       ELSE Goto(t, "abort") /\ UNCHANGED <<row, op>>
    /\ Charge(outcome)
    /\ UNCHANGED <<control, mark, rec, losses>>

CommitControl(t, outcome) ==
    /\ pub[t] = "commit"
    /\ IF outcome = "failed" THEN UNCHANGED <<control, mark>> ELSE DoCommit(t)
    /\ Goto(t, IF outcome = "answered" /\ CommitReply(t) = "committed" THEN "close" ELSE "done")
    /\ Charge(outcome)
    /\ UNCHANGED <<row, op, rec, losses>>

MarkCommittedRow(t) ==
    op' = IF op[t].state = "db_committed" THEN [op EXCEPT ![t].state = "committed"] ELSE op

MarkAbortedRow(t) ==
    op' = IF op[t].state \in {"preparing", "prepared"}
          THEN [op EXCEPT ![t].state = "aborted"] ELSE op

Close(t) ==
    /\ pub[t] = "close"
    /\ MarkCommittedRow(t)
    /\ Goto(t, "done")
    /\ UNCHANGED <<row, control, mark, rec, faults, losses>>

\* abort: the row is aborted whatever Redis answered.
Abort(t, outcome) ==
    /\ pub[t] = "abort"
    /\ IF outcome = "failed" THEN UNCHANGED <<control, mark>> ELSE DoAbort(t)
    /\ Goto(t, "closeAborted")
    /\ Charge(outcome)
    /\ UNCHANGED <<row, op, rec, losses>>

CloseAborted(t) ==
    /\ pub[t] = "closeAborted"
    /\ MarkAbortedRow(t)
    /\ Goto(t, "done")
    /\ UNCHANGED <<row, control, mark, rec, faults, losses>>

Die(t) ==
    /\ pub[t] \notin {"idle", "done"}
    /\ Goto(t, "done")
    /\ UNCHANGED <<row, op, control, mark, rec, faults, losses>>
-----------------------------------------------------------------------------
(* Reconciler.ReconcileWithPayload, then the restore of stable controls.   *)
(* Every refusal is an error, and an error ends the whole pass.            *)

RecGoto(r, pc) == rec' = [rec EXCEPT ![r].pc = pc]
RecEnds(r) == rec' = [rec EXCEPT ![r] = Idle]
RecStables(r) == rec' = [rec EXCEPT ![r] = [Idle EXCEPT !.pc = "list"]]

RecListPrepared(r) ==
    /\ rec[r].pc = "idle"
    /\ IF \A t \in Ops : op[t].state \notin {"prepared", "db_committed"} THEN RecStables(r)
       ELSE \E t \in Ops :
              /\ op[t].state \in {"prepared", "db_committed"}
              /\ rec' = [rec EXCEPT ![r].op = t, ![r].state = op[t].state, ![r].pc = "payload"]
    /\ UNCHANGED <<row, op, control, mark, pub, faults, losses>>

RecList(r) ==
    /\ rec[r].pc = "idle"
    /\ IF NoneOpen THEN RecStables(r)
       ELSE \E t \in Ops :
              /\ op[t].state \in Open
              /\ rec' = [rec EXCEPT ![r].op = t, ![r].state = op[t].state, ![r].pc = "payload"]
    /\ UNCHANGED <<row, op, control, mark, pub, faults, losses>>

\* resolvePayload: the row must be at the revision the state of the operation implies.
RecPayload(r) ==
    LET t == rec[r].op
        expected == IF rec[r].state = "db_committed" THEN NextRevision(t) ELSE op[t].current IN
    /\ rec[r].pc = "payload"
    /\ IF row.rev = expected /\ (rec[r].state = "db_committed" => row.payload = t)
       THEN rec' = [rec EXCEPT ![r].payload = row.payload, ![r].pc = "snapshot"]
       ELSE RecEnds(r)
    /\ UNCHANGED <<row, op, control, mark, pub, faults, losses>>

\* ReadControl
RecSnapshot(r) ==
    /\ rec[r].pc = "snapshot"
    /\ IF ForeignPending(rec[r].op) THEN RecEnds(r) ELSE RecGoto(r, "recover")
    /\ UNCHANGED <<row, op, control, mark, pub, faults, losses>>

Recovers(r) ==
    IF rec[r].state = "db_committed" THEN CanRecoverCommitted(rec[r].op)
                                     ELSE CanRecoverAborted(rec[r].op, rec[r].payload)

RecRecoverAnyway(r, outcome) ==
    LET t == rec[r].op
        committed == rec[r].state = "db_committed" IN
    /\ rec[r].pc = "recover"
    /\ IF outcome # "failed" /\ Recovers(r)
       THEN /\ control' = IF committed THEN Active(NextRevision(t), t)
                                       ELSE Active(op[t].current, rec[r].payload)
            /\ mark' = [mark EXCEPT ![t] = IF committed THEN "committed" ELSE "aborted"]
       ELSE UNCHANGED <<control, mark>>
    /\ RecGoto(r, "close")
    /\ Charge(outcome)
    /\ UNCHANGED <<row, op, pub, losses>>

RecRecover(r, outcome) ==
    LET t == rec[r].op
        committed == rec[r].state = "db_committed" IN
    /\ rec[r].pc = "recover"
    /\ IF outcome # "failed" /\ Recovers(r)
       THEN /\ control' = IF committed THEN Active(NextRevision(t), t)
                                       ELSE Active(op[t].current, rec[r].payload)
            /\ mark' = [mark EXCEPT ![t] = IF committed THEN "committed" ELSE "aborted"]
       ELSE UNCHANGED <<control, mark>>
    /\ IF outcome = "answered" /\ Recovers(r) THEN RecGoto(r, "close") ELSE RecEnds(r)
    /\ Charge(outcome)
    /\ UNCHANGED <<row, op, pub, losses>>

\* markOperationTerminal: a row that went another way is an error.
RecClose(r) ==
    LET t == rec[r].op
        committed == rec[r].state = "db_committed" IN
    /\ rec[r].pc = "close"
    /\ IF committed THEN MarkCommittedRow(t) ELSE MarkAbortedRow(t)
    /\ IF op'[t].state = (IF committed THEN "committed" ELSE "aborted")
       THEN RecStables(r) ELSE RecEnds(r)
    /\ UNCHANGED <<row, control, mark, pub, faults, losses>>

\* restoreChannelCapacityControls, restoreCriticalRuntimeControlsObserved
RecReadStable(r) ==
    /\ rec[r].pc = "list"
    /\ rec' = [rec EXCEPT ![r].rev = row.rev, ![r].payload = row.payload, ![r].pc = "restore"]
    /\ UNCHANGED <<row, op, control, mark, pub, faults, losses>>

RecRestoreStable(r) ==
    /\ rec[r].pc = "restore"
    /\ control' = IF r \in StartUps THEN ReconcileControl(rec[r].rev, rec[r].payload)
                                    ELSE RestoreMissing(rec[r].rev, rec[r].payload)
    /\ RecEnds(r)
    /\ UNCHANGED <<row, op, mark, pub, faults, losses>>

RecFail(r) ==
    /\ rec[r].pc # "idle"
    /\ Fault
    /\ RecEnds(r)
    /\ UNCHANGED <<row, op, control, mark, pub, losses>>
-----------------------------------------------------------------------------
LoseControl(all) ==
    /\ losses < MaxLosses
    /\ losses' = losses + 1
    /\ control' = [control EXCEPT !.present = FALSE, !.pending = NoOp]
    /\ mark' = IF all THEN [t \in Ops |-> "none"] ELSE mark
    /\ UNCHANGED <<row, op, pub, rec, faults>>

(* controlOpTTLMs: a terminal operation hash lives for 24 hours, longer    *)
(* than any call of Publish and any pass of a reconciler.                  *)
MarkExpires(t) ==
    /\ mark[t] \in {"committed", "aborted"}
    /\ pub[t] = "done"
    /\ \A r \in Reconcilers : rec[r].op # t
    /\ mark' = [mark EXCEPT ![t] = "none"]
    /\ UNCHANGED <<row, op, control, pub, rec, faults, losses>>

Publishing(t) ==
    \/ Create(t) \/ MarkPrepared(t) \/ Close(t) \/ CloseAborted(t) \/ Die(t)
    \/ \E outcome \in Outcomes :
          \/ Prepare(t, outcome) \/ CommitBusiness(t, outcome)
          \/ CommitControl(t, outcome) \/ Abort(t, outcome)

RecWork(r) ==
    \/ RecList(r) \/ RecPayload(r) \/ RecSnapshot(r) \/ RecClose(r)
    \/ RecReadStable(r) \/ RecRestoreStable(r)
    \/ \E outcome \in Outcomes : RecRecover(r, outcome)

Next ==
    \/ \E t \in Ops : Request(t) \/ Publishing(t) \/ MarkExpires(t)
    \/ \E r \in Reconcilers : RecWork(r) \/ RecFail(r)
    \/ \E all \in BOOLEAN : LoseControl(all)

Spec == Init /\ [][Next]_vars

(* A publisher runs on or dies, the ticker of a reconciler never stops,    *)
(* calls do not fail for ever (MaxFaults), and time passes.  A tombstone   *)
(* expires between two passes of a reconciler, which is why it needs       *)
(* strong fairness.                                                        *)
Fairness ==
    /\ \A t \in Ops : WF_vars(Publishing(t)) /\ SF_vars(MarkExpires(t))
    /\ \A r \in Reconcilers : WF_vars(RecWork(r))

LiveSpec == Spec /\ Fairness
-----------------------------------------------------------------------------
TypeOK ==
    /\ row \in [rev: Nat \ {0}, payload: Payloads]
    /\ op \in [Ops -> [state: OpStates, current: Nat \ {0}]]
    /\ control \in [present: BOOLEAN, rev: Nat \ {0}, payload: Payloads, pending: Payloads]
    /\ mark \in [Ops -> Marks]
    /\ pub \in [Ops -> PublisherCalls]
    /\ rec \in [Reconcilers -> [pc: ReconcilerCalls, op: Payloads, state: OpStates,
                                rev: Nat \ {0}, payload: Payloads]]
    /\ faults \in 0 .. MaxFaults /\ losses \in 0 .. MaxLosses

(* What Redis enforces was committed in PostgreSQL, revision and payload:  *)
(* two operations that publish different payloads under the same next      *)
(* revision never leave one in Redis and the other in PostgreSQL.          *)
NeverAheadOfDatabase ==
    control.present =>
        control.rev < row.rev \/ (control.rev = row.rev /\ control.payload = row.payload)

(* Unlike the routing fence, an operation is closed as committed only after *)
(* Redis activated its revision, whichever of publisher and reconciler got  *)
(* there (while Redis loses nothing and no start-up rewrites the control).  *)
CommittedIsActive ==
    \A t \in Ops : op[t].state = "committed" => control.rev >= NextRevision(t)

(* Without start-ups the revision in Redis follows the one in PostgreSQL.  *)
Setting == INSTANCE FollowedRevision WITH
    durable <- row.rev, active <- control.rev, present <- control.present
FollowsDatabase == Setting!FollowSpec

(* An operation that was opened on the current revision is closed, whatever *)
(* became of its publisher, and even when the publisher's commit crossed    *)
(* the reconciler's abort: then once the tombstone of the abort is gone.    *)
OnCurrent(t) == op[t].state \in Open /\ row.rev = (IF op[t].state = "db_committed" THEN NextRevision(t) ELSE op[t].current)
CurrentOperationsEnd == \A t \in Ops : OnCurrent(t) ~> op[t].state \notin Open

(* The reconcile of a start-up leaves Redis with exactly what PostgreSQL    *)
(* holds, and no fence, unless an operation stays open for ever.            *)
Settled ==
    control = [present |-> TRUE, rev |-> row.rev, payload |-> row.payload, pending |-> NoOp]
StartUpSettles == <>[]NoneOpen => <>[]Settled

(* Stated by runtime_control_recovery.go: errors are retried until a later  *)
(* pass succeeds, so every operation is closed in the end.                  *)
EveryOperationEnds == \A t \in Ops : op[t].state \in Open ~> op[t].state \notin Open

(* Stated by runtimecontrol.go: AbortControl takes back a fence only while  *)
(* the business revision is not committed.                                  *)
AbortsOnlyUncommitted ==
    \A t \in Ops : mark[t] = "aborted" => op[t].state \notin {"db_committed", "committed"}
=============================================================================
