-------------------------- MODULE ProviderControl --------------------------
(***************************************************************************)
(* Publishing the routing facts of one Provider (its address and its       *)
(* status, each with a revision) from PostgreSQL to the control in Redis   *)
(* that admission obeys: ProviderFencePublisher.Publish, one action per    *)
(* call it makes, against ProviderRoutingReconciler.Reconcile, which runs  *)
(* periodically in every process and once, with authority, at start-up.    *)
(* A publisher may die after any call, and a reply may be lost.            *)
(***************************************************************************)
EXTENDS Naturals

CONSTANTS
    Ops,         \* operation tokens (random: one per call of Publish)
    NoOp,        \* no pending fence
    Reconcilers, \* processes that reconcile
    StartUps,    \* those of them whose pass is the one of their start-up
    MaxFaults    \* bound: calls that fail or go unanswered, passes cut short, faults in Redis

ControlAssumption ==
    NoOp \notin Ops /\ StartUps \subseteq Reconcilers /\ MaxFaults \in Nat

Kinds == {"origin", "status"}

VARIABLES
    rev,      \* providers.origin_revision and status_revision
    serving,  \* providers.status = 'enabled'
    op,       \* provider_routing_operations
    control,  \* the Provider's control hash in Redis
    mark,     \* provider-routing:v1:op:<token> in Redis
    pub,      \* the next call of each publisher
    rec,      \* the next call of each reconciler and what it has read
    faults    \* those so far

vars == <<rev, serving, op, control, mark, pub, rec, faults>>

PublisherCalls == {"idle", "create", "prepare", "mark", "business", "commit", "close",
               "abort", "closeAborted", "done"}
OpStates == {"none", "preparing", "prepared", "db_committed", "committed", "aborted"}
Open == {"preparing", "prepared", "db_committed"}
Marks == {"none", "prepared", "committed", "aborted"}

ReconcilerCalls == {"idle", "abort", "closeAborted", "row", "commit", "restore",
                    "closeCommitted", "list", "restoreStable"}

Idle == [pc |-> "idle", op |-> NoOp, rev |-> [k \in Kinds |-> 1], serving |-> TRUE]

\* What becomes of a call: it is made and answered, made but not answered, or not made.
Outcomes == {"answered", "lost", "failed"}

Fault == faults < MaxFaults /\ faults' = faults + 1

Init ==
    /\ rev = [k \in Kinds |-> 1]
    /\ serving = TRUE
    /\ op = [t \in Ops |-> [state |-> "none", kind |-> "origin", current |-> 1, serving |-> TRUE]]
    /\ control = [present |-> TRUE, rev |-> [k \in Kinds |-> 1], serving |-> TRUE, pending |-> NoOp]
    /\ mark = [t \in Ops |-> "none"]
    /\ pub = [t \in Ops |-> "idle"]
    /\ rec = [r \in Reconcilers |-> Idle]
    /\ faults = 0
-----------------------------------------------------------------------------
(* The scripts of the routing fence: what Redis holds after each, and the  *)
(* code it answers.                                                        *)

Stable == control.pending = NoOp

\* prepare_origin.lua, prepare_origin_status.lua.
PrepareReply(t) ==
    CASE mark[t] \in {"committed", "aborted"} -> mark[t]
      [] mark[t] = "prepared" -> IF control.pending = t THEN "prepared" ELSE "conflict"
      [] mark[t] = "none" ->
            IF ~control.present THEN "absent"
            ELSE IF ~Stable THEN "conflict"
            ELSE IF control.rev[op[t].kind] # op[t].current THEN "stale" ELSE "prepared"

DoPrepare(t) ==
    IF PrepareReply(t) = "prepared" /\ mark[t] = "none"
    THEN /\ control' = [control EXCEPT !.pending = t]
         /\ mark' = [mark EXCEPT ![t] = "prepared"]
    ELSE UNCHANGED <<control, mark>>

Holds(t) == control.present /\ control.pending = t

\* commit_origin.lua, commit_origin_status.lua.
CommitReply(t) ==
    IF mark[t] = "committed" \/ (mark[t] \in {"none", "prepared"} /\ Holds(t))
    THEN "committed" ELSE "conflict"

DoCommit(t) ==
    LET k == op[t].kind IN
    IF CommitReply(t) = "committed" /\ mark[t] # "committed"
    THEN /\ control' = [control EXCEPT !.pending = NoOp, !.rev[k] = op[t].current + 1,
                          !.serving = IF k = "status" THEN op[t].serving ELSE @]
         /\ mark' = [mark EXCEPT ![t] = "committed"]
    ELSE UNCHANGED <<control, mark>>

\* abort_origin.lua, abort_origin_status.lua.
AbortReply(t) ==
    IF mark[t] = "aborted" \/ (mark[t] \in {"none", "prepared"} /\ Holds(t))
    THEN "aborted" ELSE "conflict"

DoAbort(t) ==
    IF AbortReply(t) = "aborted" /\ mark[t] # "aborted"
    THEN /\ control' = [control EXCEPT !.pending = NoOp]
         /\ mark' = [mark EXCEPT ![t] = "aborted"]
    ELSE UNCHANGED <<control, mark>>

Restored(revs, on) ==
    [present |-> TRUE, rev |-> revs, serving |-> on, pending |-> NoOp]

RestoreAlways(revs, on) == Restored(revs, on)

\* restore_missing_provider_control.lua: only a missing control is written.
RestoreMissing(revs, on) == IF control.present THEN control ELSE Restored(revs, on)

OverwriteKeepsFence(revs, on) ==
    IF ~control.present THEN Restored(revs, on)
    ELSE [control EXCEPT !.rev = revs, !.serving = on]

\* reconcile_provider_control.lua: overwritten unless already exactly so.
Overwrite(revs, on) ==
    IF ~control.present THEN Restored(revs, on)
    ELSE IF Stable /\ control.rev = revs /\ control.serving = on THEN control
    ELSE [control EXCEPT !.rev = revs, !.serving = on, !.pending = NoOp]
-----------------------------------------------------------------------------
(* ProviderFencePublisher.Publish                                          *)

Goto(t, pc) == pub' = [pub EXCEPT ![t] = pc]

Made(outcome, Effect) ==
    /\ IF outcome = "failed" THEN UNCHANGED <<control, mark>> ELSE Effect
    /\ IF outcome = "answered" THEN UNCHANGED faults ELSE Fault

RequestPrevious(t, kind) ==
    /\ pub[t] = "idle"
    /\ op' = [op EXCEPT ![t] = [state |-> "none", kind |-> kind, current |-> rev[kind] - 1,
                                serving |-> serving]]
    /\ Goto(t, "create")
    /\ UNCHANGED <<rev, serving, control, mark, rec, faults>>

\* The admin handler has read the Provider; the envelope fixes the revisions.
Request(t, kind) ==
    /\ pub[t] = "idle"
    /\ op' = [op EXCEPT ![t] = [state |-> "none", kind |-> kind, current |-> rev[kind],
                                serving |-> IF kind = "status" THEN ~serving ELSE serving]]
    /\ Goto(t, "create")
    /\ UNCHANGED <<rev, serving, control, mark, rec, faults>>

\* One open operation per Provider: uq_provider_routing_operations_active_provider.
NoneOpen == \A u \in Ops : op[u].state \notin Open

Create(t) ==
    /\ pub[t] = "create"
    /\ IF NoneOpen
       THEN op' = [op EXCEPT ![t].state = "preparing"] /\ Goto(t, "prepare")
       ELSE UNCHANGED op /\ Goto(t, "done")
    /\ UNCHANGED <<rev, serving, control, mark, rec, faults>>

Prepare(t, outcome) ==
    /\ pub[t] = "prepare"
    /\ Made(outcome, DoPrepare(t))
    /\ Goto(t, IF outcome # "answered" THEN "abort"
               ELSE CASE PrepareReply(t) = "prepared"  -> "mark"
                      [] PrepareReply(t) = "aborted"   -> "closeAborted"
                      [] PrepareReply(t) = "committed" -> "done"
                      [] OTHER -> "abort")
    /\ UNCHANGED <<rev, serving, op, rec>>

MarkPrepared(t) ==
    /\ pub[t] = "mark"
    /\ IF op[t].state = "preparing"
       THEN op' = [op EXCEPT ![t].state = "prepared"] /\ Goto(t, "business")
       ELSE UNCHANGED op /\ Goto(t, "abort")
    /\ UNCHANGED <<rev, serving, control, mark, rec, faults>>

CommitBusinessIgnoringError(t, outcome) ==
    /\ pub[t] = "business"
    /\ IF outcome # "failed" /\ op[t].state = "prepared"
       THEN /\ rev' = [rev EXCEPT ![op[t].kind] = @ + 1]
            /\ op' = [op EXCEPT ![t].state = "db_committed"]
       ELSE UNCHANGED <<rev, op>>
    /\ Goto(t, "commit")
    /\ IF outcome = "answered" THEN UNCHANGED faults ELSE Fault
    /\ UNCHANGED <<serving, control, mark, rec>>

(* commitBusiness: the operation is locked and must still be prepared, the *)
(* Provider's revision must still be the one the envelope names.  The      *)
(* acknowledgement of the commit itself may be lost.                       *)
CommitBusiness(t, outcome) ==
    LET k == op[t].kind IN
    /\ pub[t] = "business"
    /\ IF outcome # "failed" /\ op[t].state = "prepared" /\ rev[k] = op[t].current
       THEN /\ rev' = [rev EXCEPT ![k] = @ + 1]
            /\ serving' = IF k = "status" THEN op[t].serving ELSE serving
            /\ op' = [op EXCEPT ![t].state = "db_committed"]
            /\ Goto(t, IF outcome = "answered" THEN "commit" ELSE "abort")
       ELSE Goto(t, "abort") /\ UNCHANGED <<rev, serving, op>>
    /\ IF outcome = "answered" THEN UNCHANGED faults ELSE Fault
    /\ UNCHANGED <<control, mark, rec>>

\* finishRedisCommit; anything but "committed" leaves runtime_sync_pending to the reconciler.
CommitControl(t, outcome) ==
    /\ pub[t] = "commit"
    /\ Made(outcome, DoCommit(t))
    /\ Goto(t, IF outcome = "answered" /\ CommitReply(t) = "committed" THEN "close" ELSE "done")
    /\ UNCHANGED <<rev, serving, op, rec>>

MarkCommittedRow(t) ==
    op' = IF op[t].state = "db_committed" THEN [op EXCEPT ![t].state = "committed"] ELSE op

MarkAbortedAnyRow(t) == op' = [op EXCEPT ![t].state = "aborted"]

MarkAbortedRow(t) ==
    op' = IF op[t].state \in {"preparing", "prepared"}
          THEN [op EXCEPT ![t].state = "aborted"] ELSE op

Close(t) ==
    /\ pub[t] = "close"
    /\ MarkCommittedRow(t)
    /\ Goto(t, "done")
    /\ UNCHANGED <<rev, serving, control, mark, rec, faults>>

\* abortUncommitted: without the answer "aborted" the row is left to the reconciler.
AbortUncommitted(t, outcome) ==
    /\ pub[t] = "abort"
    /\ Made(outcome, DoAbort(t))
    /\ Goto(t, IF outcome = "answered" /\ AbortReply(t) = "aborted" THEN "closeAborted" ELSE "done")
    /\ UNCHANGED <<rev, serving, op, rec>>

CloseAborted(t) ==
    /\ pub[t] = "closeAborted"
    /\ MarkAbortedRow(t)
    /\ Goto(t, "done")
    /\ UNCHANGED <<rev, serving, control, mark, rec, faults>>

\* The publishing process dies between two calls.
Die(t) ==
    /\ pub[t] \notin {"idle", "done"}
    /\ Goto(t, "done")
    /\ UNCHANGED <<rev, serving, op, control, mark, rec, faults>>
-----------------------------------------------------------------------------
(* ProviderRoutingReconciler.Reconcile: the open operation as the list     *)
(* returned it, then the stable controls as a later query returned them.   *)

RecGoto(r, pc) == rec' = [rec EXCEPT ![r].pc = pc]

RecForgets(r, pc) == rec' = [rec EXCEPT ![r] = [Idle EXCEPT !.pc = pc]]

RecListPrepared(r) ==
    /\ rec[r].pc = "idle"
    /\ \/ /\ \A t \in Ops : op[t].state \notin {"prepared", "db_committed"}
          /\ RecGoto(r, "list")
       \/ \E t \in Ops :
            /\ op[t].state \in {"prepared", "db_committed"}
            /\ rec' = [rec EXCEPT ![r].op = t,
                         ![r].pc = IF op[t].state = "prepared" THEN "abort" ELSE "row"]
    /\ UNCHANGED <<rev, serving, op, control, mark, pub, faults>>

RecList(r) ==
    /\ rec[r].pc = "idle"
    /\ \/ /\ NoneOpen
          /\ RecGoto(r, "list")
       \/ \E t \in Ops :
            /\ op[t].state \in Open
            /\ rec' = [rec EXCEPT ![r].op = t,
                         ![r].pc = CASE op[t].state = "preparing"    -> "closeAborted"
                                     [] op[t].state = "prepared"     -> "abort"
                                     [] op[t].state = "db_committed" -> "row"]
    /\ UNCHANGED <<rev, serving, op, control, mark, pub, faults>>

\* "aborted" and "conflict" both close the operation; without an answer the pass ends.
RecAbort(r, outcome) ==
    /\ rec[r].pc = "abort"
    /\ Made(outcome, DoAbort(rec[r].op))
    /\ IF outcome = "answered" THEN RecGoto(r, "closeAborted") ELSE RecForgets(r, "idle")
    /\ UNCHANGED <<rev, serving, op, pub>>

RecCloseAborted(r) ==
    /\ rec[r].pc = "closeAborted"
    /\ MarkAbortedRow(rec[r].op)
    /\ RecForgets(r, "list")
    /\ UNCHANGED <<rev, serving, control, mark, pub, faults>>

Reads(r, pc) == rec' = [rec EXCEPT ![r].rev = rev, ![r].serving = serving, ![r].pc = pc]

\* The Provider must be as the operation left it, or the pass ends.
RecRow(r) ==
    LET t == rec[r].op IN
    /\ rec[r].pc = "row"
    /\ IF rev[op[t].kind] = op[t].current + 1 THEN Reads(r, "commit") ELSE RecForgets(r, "idle")
    /\ UNCHANGED <<rev, serving, op, control, mark, pub, faults>>

RecCommit(r, outcome) ==
    LET t == rec[r].op IN
    /\ rec[r].pc = "commit"
    /\ Made(outcome, DoCommit(t))
    /\ RecGoto(r, IF outcome = "answered" /\ CommitReply(t) = "committed"
                  THEN "closeCommitted" ELSE "restore")
    /\ UNCHANGED <<rev, serving, op, pub>>

\* Not committed: a missing control is restored, and the operation closed either way.
RecRestore(r) ==
    /\ rec[r].pc = "restore"
    /\ control' = RestoreMissing(rec[r].rev, rec[r].serving)
    /\ RecGoto(r, "closeCommitted")
    /\ UNCHANGED <<rev, serving, op, mark, pub, faults>>

RecCloseCommitted(r) ==
    /\ rec[r].pc = "closeCommitted"
    /\ MarkCommittedRow(rec[r].op)
    /\ RecForgets(r, "list")
    /\ UNCHANGED <<rev, serving, control, mark, pub, faults>>

\* restoreStableControls: the query, and the call for the row it returned.
RecReadStable(r) ==
    /\ rec[r].pc = "list"
    /\ Reads(r, "restoreStable")
    /\ UNCHANGED <<rev, serving, op, control, mark, pub, faults>>

RecRestoreStable(r) ==
    /\ rec[r].pc = "restoreStable"
    /\ control' = IF r \in StartUps THEN Overwrite(rec[r].rev, rec[r].serving)
                                     ELSE RestoreMissing(rec[r].rev, rec[r].serving)
    /\ RecForgets(r, "idle")
    /\ UNCHANGED <<rev, serving, op, mark, pub, faults>>

\* A call that fails, or the process that dies, ends the pass.
RecFail(r) ==
    /\ rec[r].pc # "idle"
    /\ Fault
    /\ RecForgets(r, "idle")
    /\ UNCHANGED <<rev, serving, op, control, mark, pub>>

\* Redis loses the control alone, or everything.
LoseControl(all) ==
    /\ Fault
    /\ control' = [control EXCEPT !.present = FALSE, !.pending = NoOp]
    /\ mark' = IF all THEN [t \in Ops |-> "none"] ELSE mark
    /\ UNCHANGED <<rev, serving, op, pub, rec>>
-----------------------------------------------------------------------------
Publishing(t) ==
    \/ Create(t) \/ MarkPrepared(t) \/ Close(t) \/ CloseAborted(t) \/ Die(t)
    \/ \E outcome \in Outcomes :
          \/ Prepare(t, outcome) \/ CommitBusiness(t, outcome)
          \/ CommitControl(t, outcome) \/ AbortUncommitted(t, outcome)

RecWork(r) ==
    \/ RecList(r) \/ RecCloseAborted(r) \/ RecRow(r) \/ RecRestore(r) \/ RecCloseCommitted(r)
    \/ RecReadStable(r) \/ RecRestoreStable(r)
    \/ \E outcome \in Outcomes : RecAbort(r, outcome) \/ RecCommit(r, outcome)

Next ==
    \/ \E t \in Ops : (\E kind \in Kinds : Request(t, kind)) \/ Publishing(t)
    \/ \E r \in Reconcilers : RecWork(r) \/ RecFail(r)
    \/ \E all \in BOOLEAN : LoseControl(all)

Spec == Init /\ [][Next]_vars

(* A publisher runs on or dies; the reconciler's ticker never stops, and   *)
(* calls do not fail for ever (MaxFaults).                                 *)
Fairness ==
    /\ \A t \in Ops : WF_vars(Publishing(t))
    /\ \A r \in Reconcilers : WF_vars(RecWork(r))

LiveSpec == Spec /\ Fairness
-----------------------------------------------------------------------------
Revisions == [Kinds -> Nat \ {0}]
Operations == [state: OpStates, kind: Kinds, current: Nat \ {0}, serving: BOOLEAN]
Controls == [present: BOOLEAN, rev: Revisions, serving: BOOLEAN, pending: Ops \cup {NoOp}]
Passes == [pc: ReconcilerCalls, op: Ops \cup {NoOp}, rev: Revisions, serving: BOOLEAN]

TypeOK ==
    /\ rev \in Revisions
    /\ serving \in BOOLEAN
    /\ op \in [Ops -> Operations]
    /\ control \in Controls
    /\ mark \in [Ops -> Marks]
    /\ pub \in [Ops -> PublisherCalls]
    /\ rec \in [Reconcilers -> Passes]
    /\ faults \in 0 .. MaxFaults

(* Redis never serves a Provider's address or status that PostgreSQL has   *)
(* not committed: not after a lost reply, an abort that crosses the commit *)
(* of the transaction, or the restore of a control that was lost.          *)
NeverAheadOfDatabase ==
    control.present =>
        /\ \A k \in Kinds : control.rev[k] <= rev[k]
        /\ control.rev["status"] = rev["status"] => control.serving = serving

(* What Redis has committed PostgreSQL had committed before: the record of  *)
(* an operation in Redis never says more than its row, even when replies    *)
(* were lost and a reconciler's abort crossed the publisher's commit.       *)
CommittedIsDurable ==
    \A t \in Ops : mark[t] = "committed" => op[t].state \in {"db_committed", "committed"}

(* Every operation that was opened is closed, whatever became of the        *)
(* process that opened it; until then no other operation of the Provider    *)
(* can be opened.                                                           *)
EveryOperationEnds == \A t \in Ops : []<>(op[t].state \notin Open)

(* The reconcile of a start-up brings Redis to what PostgreSQL holds, out   *)
(* of every state the publishers, the periodic reconcilers and the losses   *)
(* leave behind: no fence stays pending and no revision stays behind.       *)
Settled == control.present /\ Stable /\ control.rev = rev /\ control.serving = serving

StartUpSettles == <>[]Settled

(* Without start-ups the address Redis serves is a follower of the one in   *)
(* PostgreSQL: it never goes back while the control is there.               *)
Origin == INSTANCE FollowedRevision WITH
    durable <- rev["origin"], active <- control.rev["origin"], present <- control.present
Status == INSTANCE FollowedRevision WITH
    durable <- rev["status"], active <- control.rev["status"], present <- control.present
FollowsDatabase == Origin!FollowSpec /\ Status!FollowSpec

(* Stated by runtime_control_recovery.go: the affected control stays absent *)
(* or pending until it is repaired, so that admission fails closed.         *)
FailsClosedUntilRepaired == control.present /\ Stable => control.rev = rev

(* Stated by runtime_control_recovery.go: operations whose responses were   *)
(* lost are repaired by a later successful pass.                            *)
FencesAreReleased ==
    \A t \in Ops : control.pending = t ~> control.pending # t
=============================================================================
