--------------------------- MODULE ControlProofs ---------------------------
(***************************************************************************)
(* Proofs about what reaches PostgreSQL, Redis and every process: the      *)
(* Provider's routing control and, as instances on variables of their own  *)
(* as in MCControl, the fault latch, the state epoch, the cached settings, *)
(* the DEBUG session and the runtime controls, each for every number of    *)
(* processes, operations, losses and faults.                               *)
(*                                                                         *)
(* Of the Provider, Redis is never ahead of PostgreSQL because whoever     *)
(* writes a revision into the control either commits an operation whose    *)
(* row is committed (Committers), or restores what it read earlier, and    *)
(* PostgreSQL only moves forward (ReadersAreBehind).  A pending fence pins *)
(* the revision it was prepared against (PendingIsPinned), so the commit   *)
(* of an operation moves the control forward by one: that is what the      *)
(* refinement needs.  Each other part says what it rests on at its head.   *)
(***************************************************************************)
EXTENDS ProviderControl, FiniteSetTheorems, TLAPS

DurableStates == {"db_committed", "committed"}

\* The revision revs, served as on, is not ahead of PostgreSQL.
NotAhead(revs, on) ==
    /\ \A k \in Kinds : revs[k] <= rev[k]
    /\ revs["status"] = rev["status"] => on = serving

\* The revision an operation whose transaction has committed leads to.
DurableOperations ==
    \A t \in Ops : op[t].state \in DurableStates =>
        /\ op[t].current + 1 <= rev[op[t].kind]
        /\ (op[t].kind = "status" /\ op[t].current + 1 = rev["status"])
              => op[t].serving = serving

\* Nothing commits in Redis an operation that is not durable, and an
\* operation that was not requested has no row.
Committers ==
    /\ \A t \in Ops :
         /\ pub[t] \in {"idle", "create"} => op[t].state = "none"
         /\ pub[t] = "commit" => op[t].state \in DurableStates
    /\ \A r \in Reconcilers :
         /\ rec[r].pc \in {"abort", "closeAborted"} => rec[r].op \in Ops
         /\ rec[r].pc \in {"row", "commit", "restore", "closeCommitted"} =>
              rec[r].op \in Ops /\ op[rec[r].op].state \in DurableStates

\* What a reconciler has read and may write is not ahead of PostgreSQL.
ReadersAreBehind ==
    \A r \in Reconcilers :
        rec[r].pc \in {"commit", "restore", "restoreStable"} =>
            NotAhead(rec[r].rev, rec[r].serving)

\* A pending fence is that of a requested operation, and the control still
\* has the revision the operation starts from.
PendingIsPinned ==
    \A t \in Ops : control.pending = t =>
        /\ control.present /\ pub[t] # "idle"
        /\ control.rev[op[t].kind] = op[t].current

Story ==
    /\ NeverAheadOfDatabase /\ CommittedIsDurable /\ DurableOperations
    /\ Committers /\ ReadersAreBehind /\ PendingIsPinned

IInv == TypeOK /\ Story

-----------------------------------------------------------------------------
(* What the scripts of the fence do to the control and to the record of    *)
(* the operation.                                                          *)

LEMMA PrepareEffect ==
    ASSUME TypeOK, NEW t \in Ops, DoPrepare(t)
    PROVE  /\ control' \in Controls /\ mark' \in [Ops -> Marks]
           /\ \/ UNCHANGED <<control, mark>>
              \/ /\ control.present /\ control.rev[op[t].kind] = op[t].current
                 /\ control'.present /\ control'.pending = t
                 /\ control'.rev = control.rev /\ control'.serving = control.serving
                 /\ mark' = [mark EXCEPT ![t] = "prepared"]
  BY DEF DoPrepare, PrepareReply, TypeOK, Controls, Marks

LEMMA AbortEffect ==
    ASSUME TypeOK, NEW t \in Ops, DoAbort(t)
    PROVE  /\ control' \in Controls /\ mark' \in [Ops -> Marks]
           /\ \/ UNCHANGED <<control, mark>>
              \/ /\ control'.present = control.present /\ control'.pending = NoOp
                 /\ control'.rev = control.rev /\ control'.serving = control.serving
                 /\ mark' = [mark EXCEPT ![t] = "aborted"]
  BY DEF DoAbort, TypeOK, Controls, Marks

\* A commit moves the revision of the operation's kind and nothing else.
LEMMA CommitEffect ==
    ASSUME TypeOK, NEW t \in Ops, DoCommit(t)
    PROVE  /\ control' \in Controls /\ mark' \in [Ops -> Marks]
           /\ \/ UNCHANGED <<control, mark>>
              \/ /\ control.present /\ control.pending = t
                 /\ control'.present /\ control'.pending = NoOp
                 /\ control'.rev[op[t].kind] = op[t].current + 1
                 /\ \A k \in Kinds \ {op[t].kind} : control'.rev[k] = control.rev[k]
                 /\ control'.serving = IF op[t].kind = "status" THEN op[t].serving
                                                                ELSE control.serving
                 /\ mark' = [mark EXCEPT ![t] = "committed"]
<1>1. CASE CommitReply(t) = "committed" /\ mark[t] # "committed"
  <2>1. Holds(t)
    BY <1>1 DEF CommitReply
  <2>2. op[t].kind \in Kinds /\ op[t].current + 1 \in Nat \ {0} /\ op[t].serving \in BOOLEAN
    BY DEF TypeOK, Operations
  <2>3. /\ control' = [control EXCEPT !.pending = NoOp, !.rev[op[t].kind] = op[t].current + 1,
                          !.serving = IF op[t].kind = "status" THEN op[t].serving ELSE @]
        /\ mark' = [mark EXCEPT ![t] = "committed"]
    BY <1>1 DEF DoCommit
  <2>4. [control.rev EXCEPT ![op[t].kind] = op[t].current + 1] \in Revisions
    BY <2>2 DEF TypeOK, Controls, Revisions
  <2>5. /\ control'.present = control.present /\ control'.pending = NoOp
        /\ control'.rev = [control.rev EXCEPT ![op[t].kind] = op[t].current + 1]
        /\ control'.serving = IF op[t].kind = "status" THEN op[t].serving ELSE control.serving
        /\ control' \in Controls
    BY <2>2, <2>3, <2>4 DEF TypeOK, Controls
  <2>6. mark' \in [Ops -> Marks]
    BY <2>3 DEF TypeOK, Marks
  <2> QED
    BY <2>1, <2>2, <2>3, <2>5, <2>6 DEF Holds, Controls, Revisions
<1>2. CASE ~(CommitReply(t) = "committed" /\ mark[t] # "committed")
  BY <1>2 DEF DoCommit, TypeOK
<1> QED
  BY <1>1, <1>2

\* The control a restore or an overwrite leaves: the old one, or exactly what
\* was read, without a fence.
LEMMA RestoreEffect ==
    ASSUME TypeOK, NEW revs \in Revisions, NEW on \in BOOLEAN,
           control' \in {RestoreMissing(revs, on), Overwrite(revs, on)}
    PROVE  /\ control' \in Controls
           /\ \/ control' = control
              \/ /\ control'.present /\ control'.pending = NoOp
                 /\ control'.rev = revs /\ control'.serving = on
<1>1. /\ Restored(revs, on) \in Controls /\ Restored(revs, on).present
      /\ Restored(revs, on).pending = NoOp
      /\ Restored(revs, on).rev = revs /\ Restored(revs, on).serving = on
  BY DEF Restored, Controls
<1>2. CASE control' = RestoreMissing(revs, on)
  BY <1>1, <1>2 DEF RestoreMissing, TypeOK
<1>3. CASE control' = [control EXCEPT !.rev = revs, !.serving = on, !.pending = NoOp] /\ control.present
  BY <1>3 DEF TypeOK, Controls
<1>4. CASE control' \in {control, Restored(revs, on)}
  BY <1>1, <1>4 DEF TypeOK
<1> QED
  BY <1>2, <1>3, <1>4 DEF Overwrite

\* Only a missing control is restored.
LEMMA RestoreMissingEffect ==
    ASSUME NEW revs, NEW on, control' = RestoreMissing(revs, on), control.present
    PROVE  control' = control
  BY DEF RestoreMissing

(* The rows and the passes stay well typed under the updates made to them. *)

LEMMA RowTypes ==
    ASSUME TypeOK, NEW t, NEW s \in OpStates
    PROVE  [op EXCEPT ![t].state = s] \in [Ops -> Operations]
  BY DEF TypeOK, Operations

LEMMA ClosedRowTypes ==
    ASSUME TypeOK, NEW t, MarkCommittedRow(t) \/ MarkAbortedRow(t)
    PROVE  op' \in [Ops -> Operations]
<1>1. "committed" \in OpStates /\ "aborted" \in OpStates
  BY DEF OpStates
<1> QED
  BY <1>1, RowTypes DEF MarkCommittedRow, MarkAbortedRow, TypeOK

LEMMA PassTypes ==
    ASSUME TypeOK, NEW r \in Reconcilers, NEW next \in ReconcilerCalls,
           \/ RecGoto(r, next) \/ RecForgets(r, next) \/ Reads(r, next)
           \/ \E t \in Ops : rec' = [rec EXCEPT ![r].op = t, ![r].pc = next]
    PROVE  rec' \in [Reconcilers -> Passes]
<1>1. CASE RecGoto(r, next)
  BY <1>1 DEF RecGoto, TypeOK, Passes
<1>2. CASE RecForgets(r, next)
  <2>1. Idle \in Passes
    BY DEF Idle, Passes, Revisions, ReconcilerCalls
  <2>2. [Idle EXCEPT !.pc = next] \in Passes
    BY <2>1 DEF Passes
  <2> QED
    BY <1>2, <2>2 DEF RecForgets, TypeOK
<1>3. CASE Reads(r, next)
  <2> DEFINE one == [rec EXCEPT ![r].rev = rev]
             two == [one EXCEPT ![r].serving = serving]
  <2>1. rec' = [two EXCEPT ![r].pc = next]
    BY <1>3 DEF Reads
  <2>2. one \in [Reconcilers -> Passes]
    BY DEF TypeOK, Passes
  <2>3. two \in [Reconcilers -> Passes]
    <3> HIDE DEF one
    <3> QED
      BY <2>2 DEF TypeOK, Passes
  <2> HIDE DEF two
  <2> QED
    BY <2>1, <2>3 DEF Passes
<1>4. ASSUME NEW t \in Ops, rec' = [rec EXCEPT ![r].op = t, ![r].pc = next]
      PROVE  rec' \in [Reconcilers -> Passes]
  <2> DEFINE one == [rec EXCEPT ![r].op = t]
  <2>1. rec' = [one EXCEPT ![r].pc = next]
    BY <1>4
  <2>2. one \in [Reconcilers -> Passes]
    BY DEF TypeOK, Passes
  <2> HIDE DEF one
  <2> QED
    BY <2>1, <2>2 DEF Passes
<1> QED
  BY <1>1, <1>2, <1>3, <1>4

LEMMA ListTypes ==
    ASSUME TypeOK, NEW r \in Reconcilers, RecList(r)
    PROVE  rec' \in [Reconcilers -> Passes]
<1> DEFINE next(t) == CASE op[t].state = "preparing"    -> "closeAborted"
                        [] op[t].state = "prepared"     -> "abort"
                        [] op[t].state = "db_committed" -> "row"
<1>1. "list" \in ReconcilerCalls
  BY DEF ReconcilerCalls
<1>2. ASSUME NEW t \in Ops, op[t].state \in Open PROVE next(t) \in ReconcilerCalls
  BY <1>2 DEF Open, ReconcilerCalls
<1>3. \/ RecGoto(r, "list")
      \/ \E t \in Ops : /\ op[t].state \in Open
                        /\ rec' = [rec EXCEPT ![r].op = t, ![r].pc = next(t)]
  BY DEF RecList
<1> HIDE DEF next
<1> QED
  BY <1>1, <1>2, <1>3, PassTypes

(* What these updates leave of the rows and of the passes.                  *)

LEMMA RowEffect ==
    ASSUME TypeOK, NEW t \in Ops, NEW s, op' = [op EXCEPT ![t].state = s]
    PROVE  /\ op'[t].state = s
           /\ \A u \in Ops : /\ op'[u].kind = op[u].kind /\ op'[u].current = op[u].current
                             /\ op'[u].serving = op[u].serving
                             /\ u # t => op'[u] = op[u]
  BY DEF TypeOK

LEMMA GotoEffect ==
    ASSUME TypeOK, NEW r \in Reconcilers, NEW next, RecGoto(r, next)
    PROVE  /\ rec'[r].pc = next /\ rec'[r].op = rec[r].op
           /\ rec'[r].rev = rec[r].rev /\ rec'[r].serving = rec[r].serving
           /\ \A s \in Reconcilers \ {r} : rec'[s] = rec[s]
  BY DEF RecGoto, TypeOK

LEMMA ForgetEffect ==
    ASSUME TypeOK, NEW r \in Reconcilers, NEW next, RecForgets(r, next)
    PROVE  /\ rec'[r].pc = next
           /\ \A s \in Reconcilers \ {r} : rec'[s] = rec[s]
  BY DEF RecForgets, TypeOK

LEMMA ReadEffect ==
    ASSUME TypeOK, NEW r \in Reconcilers, NEW next, Reads(r, next)
    PROVE  /\ rec'[r].pc = next /\ rec'[r].op = rec[r].op
           /\ rec'[r].rev = rev /\ rec'[r].serving = serving
           /\ \A s \in Reconcilers \ {r} : rec'[s] = rec[s]
<1> DEFINE one == [rec EXCEPT ![r].rev = rev]
           two == [one EXCEPT ![r].serving = serving]
<1>1. rec' = [two EXCEPT ![r].pc = next]
  BY DEF Reads
<1>2. one \in [Reconcilers -> Passes] /\ one[r].op = rec[r].op /\ one[r].rev = rev
  BY DEF TypeOK, Passes
<1>3. \A s \in Reconcilers \ {r} : one[s] = rec[s]
  OBVIOUS
<1> HIDE DEF one
<1>4. /\ two \in [Reconcilers -> Passes] /\ two[r].op = rec[r].op /\ two[r].rev = rev
      /\ two[r].serving = serving
  BY <1>2 DEF TypeOK, Passes
<1>5. \A s \in Reconcilers \ {r} : two[s] = rec[s]
  BY <1>2, <1>3
<1> HIDE DEF two
<1> QED
  BY <1>1, <1>4, <1>5

LEMMA ListEffect ==
    ASSUME TypeOK, NEW r \in Reconcilers, RecList(r)
    PROVE  /\ \A s \in Reconcilers \ {r} : rec'[s] = rec[s]
           /\ rec'[r].pc \in {"list", "closeAborted", "abort", "row"}
           /\ rec'[r].pc # "list" => rec'[r].op \in Ops
           /\ rec'[r].pc = "row" => op[rec'[r].op].state = "db_committed"
<1>1. CASE RecGoto(r, "list")
  BY <1>1, GotoEffect
<1>2. ASSUME NEW t \in Ops, NEW next \in ReconcilerCalls,
             rec' = [rec EXCEPT ![r].op = t, ![r].pc = next],
             next \in {"closeAborted", "abort", "row"},
             next = "row" => op[t].state = "db_committed"
      PROVE  /\ \A s \in Reconcilers \ {r} : rec'[s] = rec[s]
             /\ rec'[r].pc = next /\ rec'[r].op = t
  <2> DEFINE one == [rec EXCEPT ![r].op = t]
  <2>1. one \in [Reconcilers -> Passes] /\ one[r].op = t
        /\ \A s \in Reconcilers \ {r} : one[s] = rec[s]
    BY DEF TypeOK, Passes
  <2>2. rec' = [one EXCEPT ![r].pc = next]
    BY <1>2
  <2> HIDE DEF one
  <2> QED
    BY <2>1, <2>2
<1> DEFINE next(t) == CASE op[t].state = "preparing"    -> "closeAborted"
                        [] op[t].state = "prepared"     -> "abort"
                        [] op[t].state = "db_committed" -> "row"
<1>3. ASSUME NEW t \in Ops, op[t].state \in Open
      PROVE  /\ next(t) \in ReconcilerCalls /\ next(t) \in {"closeAborted", "abort", "row"}
             /\ next(t) = "row" => op[t].state = "db_committed"
  BY <1>3 DEF Open, ReconcilerCalls
<1>4. \/ RecGoto(r, "list")
      \/ \E t \in Ops : /\ op[t].state \in Open
                        /\ rec' = [rec EXCEPT ![r].op = t, ![r].pc = next(t)]
  BY DEF RecList
<1> HIDE DEF next
<1> QED
  BY <1>1, <1>2, <1>3, <1>4

LEMMA TypeStep == ControlAssumption /\ IInv /\ [Next]_vars => TypeOK'
<1> SUFFICES ASSUME ControlAssumption, IInv, [Next]_vars PROVE TypeOK'
  OBVIOUS
<1>0. TypeOK
  BY DEF IInv
<1> USE DEF PublisherCalls, OpStates, Marks, ReconcilerCalls
<1>1. ASSUME NEW t \in Ops, NEW kind \in Kinds, Request(t, kind) PROVE TypeOK'
  <2>1. op' \in [Ops -> Operations]
    BY <1>0, <1>1 DEF Request, TypeOK, Operations, Revisions
  <2>2. pub' \in [Ops -> PublisherCalls]
    BY <1>0, <1>1 DEF Request, Goto, TypeOK
  <2> QED
    BY <1>0, <1>1, <2>1, <2>2 DEF Request, TypeOK
<1>2. ASSUME NEW t \in Ops, Create(t) PROVE TypeOK'
  <2>1. op' \in [Ops -> Operations]
    BY <1>0, <1>2 DEF Create, TypeOK, Operations, Kinds
  <2>2. pub' \in [Ops -> PublisherCalls]
    BY <1>0, <1>2 DEF Create, Goto, TypeOK
  <2> QED
    BY <1>0, <1>2, <2>1, <2>2 DEF Create, TypeOK
<1>3. ASSUME NEW t \in Ops, NEW outcome \in Outcomes, Prepare(t, outcome) PROVE TypeOK'
  <2>1. control' \in Controls /\ mark' \in [Ops -> Marks]
    BY <1>0, <1>3, PrepareEffect DEF Prepare, Made, TypeOK
  <2>2. pub' \in [Ops -> PublisherCalls]
    BY <1>0, <1>3 DEF Prepare, Goto, TypeOK
  <2>3. faults' \in 0..MaxFaults
    BY <1>0, <1>3 DEF Prepare, Made, Fault, TypeOK, ControlAssumption
  <2> QED
    BY <1>0, <1>3, <2>1, <2>2, <2>3 DEF Prepare, TypeOK
<1>4. ASSUME NEW t \in Ops, MarkPrepared(t) PROVE TypeOK'
  <2>1. [op EXCEPT ![t].state = "prepared"] \in [Ops -> Operations]
    BY <1>0, RowTypes
  <2>2. op' \in [Ops -> Operations]
    BY <1>0, <1>4, <2>1 DEF MarkPrepared, TypeOK
  <2>3. pub' \in [Ops -> PublisherCalls]
    BY <1>0, <1>4 DEF MarkPrepared, Goto, TypeOK
  <2> QED
    BY <1>0, <1>4, <2>1, <2>2, <2>3 DEF MarkPrepared, TypeOK
<1>5. ASSUME NEW t \in Ops, NEW outcome \in Outcomes, CommitBusiness(t, outcome) PROVE TypeOK'
  <2>1. op' \in [Ops -> Operations]
    BY <1>0, <1>5 DEF CommitBusiness, TypeOK, Operations
  <2>2. pub' \in [Ops -> PublisherCalls]
    BY <1>0, <1>5 DEF CommitBusiness, Goto, TypeOK
  <2>3. faults' \in 0..MaxFaults
    BY <1>0, <1>5 DEF CommitBusiness, Fault, TypeOK, ControlAssumption
  <2>4. rev' \in Revisions
    BY <1>0, <1>5 DEF CommitBusiness, TypeOK, Revisions
  <2> QED
    BY <1>0, <1>5, <2>1, <2>2, <2>3, <2>4 DEF CommitBusiness, TypeOK, Operations
<1>6. ASSUME NEW t \in Ops, NEW outcome \in Outcomes, CommitControl(t, outcome) PROVE TypeOK'
  <2>1. control' \in Controls /\ mark' \in [Ops -> Marks]
    BY <1>0, <1>6, CommitEffect DEF CommitControl, Made, TypeOK
  <2>2. pub' \in [Ops -> PublisherCalls]
    BY <1>0, <1>6 DEF CommitControl, Goto, TypeOK
  <2>3. faults' \in 0..MaxFaults
    BY <1>0, <1>6 DEF CommitControl, Made, Fault, TypeOK, ControlAssumption
  <2> QED
    BY <1>0, <1>6, <2>1, <2>2, <2>3 DEF CommitControl, TypeOK
<1>7. ASSUME NEW t \in Ops, Close(t) PROVE TypeOK'
  <2>1. op' \in [Ops -> Operations]
    BY <1>0, <1>7, ClosedRowTypes DEF Close
  <2>2. pub' \in [Ops -> PublisherCalls]
    BY <1>0, <1>7 DEF Close, Goto, TypeOK
  <2> QED
    BY <1>0, <1>7, <2>1, <2>2 DEF Close, TypeOK
<1>8. ASSUME NEW t \in Ops, NEW outcome \in Outcomes, AbortUncommitted(t, outcome) PROVE TypeOK'
  <2>1. control' \in Controls /\ mark' \in [Ops -> Marks]
    BY <1>0, <1>8, AbortEffect DEF AbortUncommitted, Made, TypeOK
  <2>2. pub' \in [Ops -> PublisherCalls]
    BY <1>0, <1>8 DEF AbortUncommitted, Goto, TypeOK
  <2>3. faults' \in 0..MaxFaults
    BY <1>0, <1>8 DEF AbortUncommitted, Made, Fault, TypeOK, ControlAssumption
  <2> QED
    BY <1>0, <1>8, <2>1, <2>2, <2>3 DEF AbortUncommitted, TypeOK
<1>9. ASSUME NEW t \in Ops, CloseAborted(t) PROVE TypeOK'
  <2>1. op' \in [Ops -> Operations]
    BY <1>0, <1>9, ClosedRowTypes DEF CloseAborted
  <2>2. pub' \in [Ops -> PublisherCalls]
    BY <1>0, <1>9 DEF CloseAborted, Goto, TypeOK
  <2> QED
    BY <1>0, <1>9, <2>1, <2>2 DEF CloseAborted, TypeOK
<1>10. ASSUME NEW t \in Ops, Die(t) PROVE TypeOK'
  <2>1. pub' \in [Ops -> PublisherCalls]
    BY <1>0, <1>10 DEF Die, Goto, TypeOK
  <2> QED
    BY <1>0, <1>10, <2>1 DEF Die, TypeOK
<1>11. ASSUME NEW r \in Reconcilers, RecList(r) PROVE TypeOK'
  <2>1. rec' \in [Reconcilers -> Passes]
    BY <1>0, <1>11, ListTypes
  <2> QED
    BY <1>0, <1>11, <2>1 DEF RecList, TypeOK
<1>12. ASSUME NEW r \in Reconcilers, NEW outcome \in Outcomes, RecAbort(r, outcome) PROVE TypeOK'
  <2>1. rec[r].op \in Ops
    BY <1>12 DEF RecAbort, IInv, Story, Committers
  <2>2. control' \in Controls /\ mark' \in [Ops -> Marks]
    BY <1>0, <1>12, <2>1, AbortEffect DEF RecAbort, Made, TypeOK
  <2>3. rec' \in [Reconcilers -> Passes]
    BY <1>0, <1>12, PassTypes DEF RecAbort
  <2>4. faults' \in 0..MaxFaults
    BY <1>0, <1>12 DEF RecAbort, Made, Fault, TypeOK, ControlAssumption
  <2> QED
    BY <1>0, <1>12, <2>1, <2>2, <2>3, <2>4 DEF RecAbort, TypeOK
<1>13. ASSUME NEW r \in Reconcilers, RecCloseAborted(r) PROVE TypeOK'
  <2>1. op' \in [Ops -> Operations]
    BY <1>0, <1>13, ClosedRowTypes DEF RecCloseAborted
  <2>2. rec' \in [Reconcilers -> Passes]
    BY <1>0, <1>13, PassTypes DEF RecCloseAborted
  <2> QED
    BY <1>0, <1>13, <2>1, <2>2 DEF RecCloseAborted, TypeOK
<1>14. ASSUME NEW r \in Reconcilers, RecRow(r) PROVE TypeOK'
  <2>1. rec' \in [Reconcilers -> Passes]
    BY <1>0, <1>14, PassTypes DEF RecRow
  <2> QED
    BY <1>0, <1>14, <2>1 DEF RecRow, TypeOK
<1>15. ASSUME NEW r \in Reconcilers, NEW outcome \in Outcomes, RecCommit(r, outcome) PROVE TypeOK'
  <2>1. rec[r].op \in Ops
    BY <1>15 DEF RecCommit, IInv, Story, Committers
  <2>2. control' \in Controls /\ mark' \in [Ops -> Marks]
    BY <1>0, <1>15, <2>1, CommitEffect DEF RecCommit, Made, TypeOK
  <2>3. rec' \in [Reconcilers -> Passes]
    BY <1>0, <1>15, PassTypes DEF RecCommit
  <2>4. faults' \in 0..MaxFaults
    BY <1>0, <1>15 DEF RecCommit, Made, Fault, TypeOK, ControlAssumption
  <2> QED
    BY <1>0, <1>15, <2>1, <2>2, <2>3, <2>4 DEF RecCommit, TypeOK
<1>16. ASSUME NEW r \in Reconcilers, RecRestore(r) PROVE TypeOK'
  <2>1. rec[r].rev \in Revisions /\ rec[r].serving \in BOOLEAN
    BY <1>0 DEF TypeOK, Passes
  <2>2. control' \in Controls /\ mark' \in [Ops -> Marks]
    BY <1>0, <1>16, <2>1, RestoreEffect DEF RecRestore, TypeOK
  <2>3. rec' \in [Reconcilers -> Passes]
    BY <1>0, <1>16, PassTypes DEF RecRestore
  <2> QED
    BY <1>0, <1>16, <2>1, <2>2, <2>3 DEF RecRestore, TypeOK
<1>17. ASSUME NEW r \in Reconcilers, RecCloseCommitted(r) PROVE TypeOK'
  <2>1. op' \in [Ops -> Operations]
    BY <1>0, <1>17, ClosedRowTypes DEF RecCloseCommitted
  <2>2. rec' \in [Reconcilers -> Passes]
    BY <1>0, <1>17, PassTypes DEF RecCloseCommitted
  <2> QED
    BY <1>0, <1>17, <2>1, <2>2 DEF RecCloseCommitted, TypeOK
<1>18. ASSUME NEW r \in Reconcilers, RecReadStable(r) PROVE TypeOK'
  <2>1. rec' \in [Reconcilers -> Passes]
    BY <1>0, <1>18, PassTypes DEF RecReadStable
  <2> QED
    BY <1>0, <1>18, <2>1 DEF RecReadStable, TypeOK
<1>19. ASSUME NEW r \in Reconcilers, RecRestoreStable(r) PROVE TypeOK'
  <2>1. rec[r].rev \in Revisions /\ rec[r].serving \in BOOLEAN
    BY <1>0 DEF TypeOK, Passes
  <2>2. control' \in Controls /\ mark' \in [Ops -> Marks]
    BY <1>0, <1>19, <2>1, RestoreEffect DEF RecRestoreStable, TypeOK
  <2>3. rec' \in [Reconcilers -> Passes]
    BY <1>0, <1>19, PassTypes DEF RecRestoreStable
  <2> QED
    BY <1>0, <1>19, <2>1, <2>2, <2>3 DEF RecRestoreStable, TypeOK
<1>20. ASSUME NEW r \in Reconcilers, RecFail(r) PROVE TypeOK'
  <2>1. rec' \in [Reconcilers -> Passes]
    BY <1>0, <1>20, PassTypes DEF RecFail
  <2>2. faults' \in 0..MaxFaults
    BY <1>0, <1>20 DEF RecFail, Fault, TypeOK, ControlAssumption
  <2> QED
    BY <1>0, <1>20, <2>1, <2>2 DEF RecFail, TypeOK
<1>21. ASSUME NEW all \in BOOLEAN, LoseControl(all) PROVE TypeOK'
  <2>1. control' \in Controls /\ mark' \in [Ops -> Marks]
    BY <1>0, <1>21 DEF LoseControl, TypeOK, Controls
  <2>2. faults' \in 0..MaxFaults
    BY <1>0, <1>21 DEF LoseControl, Fault, TypeOK, ControlAssumption
  <2> QED
    BY <1>0, <1>21, <2>1, <2>2 DEF LoseControl, TypeOK
<1>22. CASE UNCHANGED vars
  BY <1>0, <1>22 DEF vars, TypeOK
<1> QED
  BY <1>1, <1>2, <1>3, <1>4, <1>5, <1>6, <1>7, <1>8, <1>9, <1>10, <1>11,
     <1>12, <1>13, <1>14, <1>15, <1>16, <1>17, <1>18, <1>19, <1>20, <1>21,
     <1>22 DEF Next, Publishing, RecWork

LEMMA StoryStep == ControlAssumption /\ IInv /\ [Next]_vars => Story'
<1> SUFFICES ASSUME ControlAssumption, IInv, [Next]_vars PROVE Story'
  OBVIOUS
<1>0. TypeOK /\ TypeOK'
  BY TypeStep DEF IInv
<1> USE DEF IInv, Story, NeverAheadOfDatabase, CommittedIsDurable, DurableOperations, Committers, ReadersAreBehind, PendingIsPinned, NotAhead, DurableStates
<1>1. ASSUME NEW t \in Ops, NEW kind \in Kinds, Request(t, kind) PROVE Story'
  BY <1>1, <1>0 DEF Request, Goto
<1>2. ASSUME NEW t \in Ops, Create(t) PROVE Story'
  <2>1. CASE ~(NoneOpen)
    BY <1>0, <1>2, <2>1 DEF Create, Goto, TypeOK
  <2>2. CASE NoneOpen
    <3>1. op' = [op EXCEPT ![t].state = "preparing"] /\ pub' = [pub EXCEPT ![t] = "prepare"]
      BY <1>2, <2>2 DEF Create, Goto
    <3>2. /\ op'[t].state = "preparing"
          /\ \A u \in Ops : /\ op'[u].kind = op[u].kind /\ op'[u].current = op[u].current
                            /\ op'[u].serving = op[u].serving
                            /\ u # t => op'[u] = op[u]
      BY <1>0, <3>1, RowEffect
    <3>3. /\ op[t].state = "none" /\ pub'[t] = "prepare"
          /\ \A u \in Ops \ {t} : pub'[u] = pub[u]
      BY <1>0, <1>2, <2>2, <3>1 DEF Create, TypeOK
    <3>4. UNCHANGED <<rev, serving, control, mark, rec>>
      BY <1>2 DEF Create
    <3> QED
      BY <3>2, <3>3, <3>4
  <2> QED
    BY <2>1, <2>2
<1>3. ASSUME NEW t \in Ops, NEW outcome \in Outcomes, Prepare(t, outcome) PROVE Story'
  <2>1. \/ UNCHANGED <<control, mark>>
      \/ /\ control.present /\ control.rev[op[t].kind] = op[t].current
         /\ control'.present /\ control'.pending = t
         /\ control'.rev = control.rev /\ control'.serving = control.serving
         /\ mark' = [mark EXCEPT ![t] = "prepared"]
    BY <1>3, <1>0, PrepareEffect DEF Prepare, Made
  <2> QED
    BY <1>3, <1>0, <2>1 DEF Prepare, Goto, TypeOK
<1>4. ASSUME NEW t \in Ops, MarkPrepared(t) PROVE Story'
  <2>1. CASE ~(op[t].state = "preparing")
    BY <1>0, <1>4, <2>1 DEF MarkPrepared, Goto, TypeOK
  <2>2. CASE op[t].state = "preparing"
    <3>1. op' = [op EXCEPT ![t].state = "prepared"] /\ pub' = [pub EXCEPT ![t] = "business"]
      BY <1>4, <2>2 DEF MarkPrepared, Goto
    <3>2. /\ op'[t].state = "prepared"
          /\ \A u \in Ops : /\ op'[u].kind = op[u].kind /\ op'[u].current = op[u].current
                            /\ op'[u].serving = op[u].serving
                            /\ u # t => op'[u] = op[u]
      BY <1>0, <3>1, RowEffect
    <3>3. /\ op[t].state = "preparing" /\ pub'[t] = "business"
          /\ \A u \in Ops \ {t} : pub'[u] = pub[u]
      BY <1>0, <1>4, <2>2, <3>1 DEF TypeOK
    <3>4. UNCHANGED <<rev, serving, control, mark, rec>>
      BY <1>4 DEF MarkPrepared
    <3> QED
      BY <3>2, <3>3, <3>4
  <2> QED
    BY <2>1, <2>2
<1>5. ASSUME NEW t \in Ops, NEW outcome \in Outcomes, CommitBusiness(t, outcome) PROVE Story'
  <2>1. CASE UNCHANGED <<rev, serving, op>> /\ pub'[t] = "abort"
    <3>1. UNCHANGED <<control, mark, rec>> /\ \A u \in Ops \ {t} : pub'[u] = pub[u]
      BY <1>0, <1>5 DEF CommitBusiness, Goto, TypeOK
    <3>2. pub[t] = "business"
      BY <1>5 DEF CommitBusiness
    <3> QED
      BY <2>1, <3>1, <3>2
  <2>2. CASE rev[op[t].kind] = op[t].current /\ op[t].state = "prepared"
             /\ rev' = [rev EXCEPT ![op[t].kind] = @ + 1]
             /\ serving' = (IF op[t].kind = "status" THEN op[t].serving ELSE serving)
             /\ op' = [op EXCEPT ![t].state = "db_committed"]
             /\ pub'[t] \in {"commit", "abort"}
    <3>1. /\ op'[t].state = "db_committed"
          /\ \A u \in Ops : /\ op'[u].kind = op[u].kind /\ op'[u].current = op[u].current
                            /\ op'[u].serving = op[u].serving
                            /\ u # t => op'[u] = op[u]
      BY <1>0, <2>2, RowEffect
    <3>2. /\ \A k \in Kinds : rev[k] \in Nat /\ rev'[k] \in Nat /\ rev[k] <= rev'[k]
          /\ rev'[op[t].kind] = op[t].current + 1 /\ op[t].kind \in Kinds
          /\ op[t].kind # "status" => rev'["status"] = rev["status"] /\ serving' = serving
          /\ op[t].kind = "status" => rev'["status"] = rev["status"] + 1
                                      /\ serving' = op[t].serving
      BY <1>0, <2>2 DEF TypeOK, Revisions
    <3>3. /\ UNCHANGED <<control, mark, rec>> /\ pub[t] = "business"
          /\ \A u \in Ops \ {t} : pub'[u] = pub[u]
      BY <1>0, <1>5 DEF CommitBusiness, Goto, TypeOK
    <3>4. NeverAheadOfDatabase'
      BY <1>0, <3>2, <3>3 DEF TypeOK, Controls, Revisions
    <3>5. CommittedIsDurable'
      BY <2>2, <3>1, <3>3
    <3>6. DurableOperations'
      <4> SUFFICES ASSUME NEW u \in Ops, op'[u].state \in DurableStates
                   PROVE  /\ op[u].current + 1 <= rev'[op[u].kind]
                          /\ (op[u].kind = "status" /\ op[u].current + 1 = rev'["status"])
                                => op[u].serving = serving'
        BY <3>1
      <4>1. op[u].current \in Nat /\ op[u].kind \in Kinds /\ "status" \in Kinds
        BY <1>0 DEF TypeOK, Operations, Kinds
      <4>2. CASE u = t
        BY <4>2, <4>1, <3>2
      <4>3. CASE u # t
        <5>1. /\ op[u].current + 1 <= rev[op[u].kind]
              /\ (op[u].kind = "status" /\ op[u].current + 1 = rev["status"])
                    => op[u].serving = serving
          BY <3>1, <4>3
        <5> QED
          BY <5>1, <4>1, <3>2
      <4> QED
        BY <4>2, <4>3
    <3>7. Committers'
      BY <2>2, <3>1, <3>3
    <3>8. ReadersAreBehind'
      <4> SUFFICES ASSUME NEW r \in Reconcilers, NotAhead(rec[r].rev, rec[r].serving)
                   PROVE  NotAhead(rec[r].rev, rec[r].serving)'
        BY <3>3
      <4>1. \A k \in Kinds : rec[r].rev[k] \in Nat
        BY <1>0 DEF TypeOK, Passes, Revisions
      <4> QED
        BY <3>2, <3>3, <4>1
    <3>9. PendingIsPinned'
      BY <2>2, <3>1, <3>3
    <3> QED
      BY <3>4, <3>5, <3>6, <3>7, <3>8, <3>9
  <2> QED
    BY <1>0, <1>5, <2>1, <2>2 DEF CommitBusiness, Goto, TypeOK
<1>6. ASSUME NEW t \in Ops, NEW outcome \in Outcomes, CommitControl(t, outcome) PROVE Story'
  <2>1. \/ UNCHANGED <<control, mark>>
      \/ /\ control.present /\ control.pending = t
         /\ control'.present /\ control'.pending = NoOp
         /\ control'.rev[op[t].kind] = op[t].current + 1
         /\ \A k \in Kinds \ {op[t].kind} : control'.rev[k] = control.rev[k]
         /\ control'.serving = IF op[t].kind = "status" THEN op[t].serving
                                                        ELSE control.serving
         /\ mark' = [mark EXCEPT ![t] = "committed"]
    BY <1>6, <1>0, CommitEffect DEF CommitControl, Made
  <2> QED
    BY <1>6, <1>0, <2>1 DEF CommitControl, Goto, TypeOK, Kinds,
       ControlAssumption
<1>7. ASSUME NEW t \in Ops, Close(t) PROVE Story'
  BY <1>7, <1>0 DEF Close, MarkCommittedRow, Goto
<1>8. ASSUME NEW t \in Ops, NEW outcome \in Outcomes, AbortUncommitted(t, outcome) PROVE Story'
  <2>1. \/ UNCHANGED <<control, mark>>
      \/ /\ control'.present = control.present /\ control'.pending = NoOp
         /\ control'.rev = control.rev /\ control'.serving = control.serving
         /\ mark' = [mark EXCEPT ![t] = "aborted"]
    BY <1>8, <1>0, AbortEffect DEF AbortUncommitted, Made
  <2> QED
    BY <1>8, <1>0, <2>1 DEF AbortUncommitted, Goto, TypeOK, ControlAssumption
<1>9. ASSUME NEW t \in Ops, CloseAborted(t) PROVE Story'
  BY <1>9, <1>0 DEF CloseAborted, MarkAbortedRow, Goto
<1>10. ASSUME NEW t \in Ops, Die(t) PROVE Story'
  BY <1>10, <1>0 DEF Die, Goto
<1>11. ASSUME NEW r \in Reconcilers, RecList(r) PROVE Story'
  <2>1. /\ \A s \in Reconcilers \ {r} : rec'[s] = rec[s]
        /\ rec'[r].pc \in {"list", "closeAborted", "abort", "row"}
        /\ rec'[r].pc # "list" => rec'[r].op \in Ops
        /\ rec'[r].pc = "row" => op[rec'[r].op].state = "db_committed"
    BY <1>0, <1>11, ListEffect
  <2>2. UNCHANGED <<rev, serving, op, control, mark, pub>>
    BY <1>11 DEF RecList
  <2> QED
    BY <2>1, <2>2
<1>12. ASSUME NEW r \in Reconcilers, NEW outcome \in Outcomes, RecAbort(r, outcome) PROVE Story'
  <2>1. rec[r].op \in Ops
    BY <1>12 DEF RecAbort
  <2>2. \/ UNCHANGED <<control, mark>>
        \/ /\ control'.present = control.present /\ control'.pending = NoOp
           /\ control'.rev = control.rev /\ control'.serving = control.serving
           /\ mark' = [mark EXCEPT ![rec[r].op] = "aborted"]
    BY <1>0, <1>12, <2>1, AbortEffect DEF RecAbort, Made
  <2>3. /\ rec'[r].pc \in {"closeAborted", "idle"}
        /\ rec'[r].pc = "closeAborted" => rec'[r].op = rec[r].op
        /\ \A s \in Reconcilers \ {r} : rec'[s] = rec[s]
    BY <1>0, <1>12, GotoEffect, ForgetEffect DEF RecAbort
  <2>4. UNCHANGED <<rev, serving, op, pub>>
    BY <1>12 DEF RecAbort
  <2>5. Committers' /\ ReadersAreBehind' /\ DurableOperations'
    BY <2>1, <2>3, <2>4
  <2>6. NeverAheadOfDatabase' /\ CommittedIsDurable' /\ PendingIsPinned'
    BY <1>0, <2>2, <2>4 DEF TypeOK, ControlAssumption
  <2> QED
    BY <2>5, <2>6
<1>13. ASSUME NEW r \in Reconcilers, RecCloseAborted(r) PROVE Story'
  <2>1. /\ rec'[r].pc = "list"
        /\ \A s \in Reconcilers \ {r} : rec'[s] = rec[s]
    BY <1>0, <1>13, ForgetEffect DEF RecCloseAborted
  <2>2. \A u \in Ops : /\ op'[u].kind = op[u].kind /\ op'[u].current = op[u].current
                       /\ op'[u].serving = op[u].serving
                       /\ op'[u].state \in DurableStates <=> op[u].state \in DurableStates
                       /\ op[u].state = "none" => op'[u].state = "none"
    BY <1>0, <1>13, RowEffect DEF RecCloseAborted, MarkAbortedRow
  <2>3. UNCHANGED <<rev, serving, control, mark, pub>>
    BY <1>13 DEF RecCloseAborted
  <2> QED
    BY <2>1, <2>2, <2>3
<1>14. ASSUME NEW r \in Reconcilers, RecRow(r) PROVE Story'
  <2>1. /\ rec'[r].pc \in {"commit", "idle"}
        /\ rec'[r].pc = "commit" => /\ rec'[r].op = rec[r].op /\ rec'[r].rev = rev
                                    /\ rec'[r].serving = serving
        /\ \A s \in Reconcilers \ {r} : rec'[s] = rec[s]
    BY <1>0, <1>14, ReadEffect, ForgetEffect DEF RecRow
  <2>2. UNCHANGED <<rev, serving, op, control, mark, pub>> /\ rec[r].pc = "row"
    BY <1>14 DEF RecRow
  <2>3. \A k \in Kinds : rev[k] <= rev[k]
    BY <1>0 DEF TypeOK, Revisions
  <2> QED
    BY <2>1, <2>2, <2>3
<1>15. ASSUME NEW r \in Reconcilers, NEW outcome \in Outcomes, RecCommit(r, outcome) PROVE Story'
  <2>1. rec[r].op \in Ops /\ op[rec[r].op].state \in DurableStates
    BY <1>15 DEF RecCommit
  <2>2. \/ UNCHANGED <<control, mark>>
        \/ /\ control.present /\ control.pending = rec[r].op
           /\ control'.present /\ control'.pending = NoOp
           /\ control'.rev[op[rec[r].op].kind] = op[rec[r].op].current + 1
           /\ \A k \in Kinds \ {op[rec[r].op].kind} : control'.rev[k] = control.rev[k]
           /\ control'.serving = IF op[rec[r].op].kind = "status" THEN op[rec[r].op].serving
                                                                  ELSE control.serving
           /\ mark' = [mark EXCEPT ![rec[r].op] = "committed"]
    BY <1>0, <1>15, <2>1, CommitEffect DEF RecCommit, Made
  <2>3. /\ rec'[r].pc \in {"closeCommitted", "restore"} /\ rec'[r].op = rec[r].op
        /\ rec'[r].rev = rec[r].rev /\ rec'[r].serving = rec[r].serving
        /\ \A s \in Reconcilers \ {r} : rec'[s] = rec[s]
    BY <1>0, <1>15, GotoEffect DEF RecCommit
  <2>4. UNCHANGED <<rev, serving, op, pub>> /\ rec[r].pc = "commit"
    BY <1>15 DEF RecCommit
  <2>5. Committers' /\ ReadersAreBehind' /\ DurableOperations'
    BY <2>1, <2>3, <2>4
  <2>6. NeverAheadOfDatabase' /\ CommittedIsDurable' /\ PendingIsPinned'
    BY <1>0, <2>1, <2>2, <2>4 DEF TypeOK, ControlAssumption, Kinds
  <2> QED
    BY <2>5, <2>6
<1>16. ASSUME NEW r \in Reconcilers, RecRestore(r) PROVE Story'
  <2>1. rec[r].rev \in Revisions /\ rec[r].serving \in BOOLEAN
    BY <1>16, <1>0 DEF TypeOK, Passes
  <2>2. \/ control' = control
      \/ /\ control'.present /\ control'.pending = NoOp
         /\ control'.rev = rec[r].rev /\ control'.serving = rec[r].serving
    BY <1>16, <1>0, RestoreEffect, <2>1 DEF RecRestore
  <2> QED
    BY <1>16, <1>0, <2>1, <2>2 DEF RecRestore, RecGoto, ControlAssumption
<1>17. ASSUME NEW r \in Reconcilers, RecCloseCommitted(r) PROVE Story'
  <2>1. /\ rec'[r].pc = "list"
        /\ \A s \in Reconcilers \ {r} : rec'[s] = rec[s]
    BY <1>0, <1>17, ForgetEffect DEF RecCloseCommitted
  <2>2. \A u \in Ops : /\ op'[u].kind = op[u].kind /\ op'[u].current = op[u].current
                       /\ op'[u].serving = op[u].serving
                       /\ op'[u].state \in DurableStates <=> op[u].state \in DurableStates
                       /\ op[u].state = "none" => op'[u].state = "none"
    BY <1>0, <1>17, RowEffect DEF RecCloseCommitted, MarkCommittedRow
  <2>3. UNCHANGED <<rev, serving, control, mark, pub>>
    BY <1>17 DEF RecCloseCommitted
  <2> QED
    BY <2>1, <2>2, <2>3
<1>18. ASSUME NEW r \in Reconcilers, RecReadStable(r) PROVE Story'
  BY <1>18, <1>0 DEF RecReadStable, Reads, TypeOK, Passes
<1>19. ASSUME NEW r \in Reconcilers, RecRestoreStable(r) PROVE Story'
  <2>1. rec[r].rev \in Revisions /\ rec[r].serving \in BOOLEAN
    BY <1>0 DEF TypeOK, Passes
  <2>2. \/ control' = control
        \/ /\ control'.present /\ control'.pending = NoOp
           /\ control'.rev = rec[r].rev /\ control'.serving = rec[r].serving
    BY <1>0, <1>19, <2>1, RestoreEffect DEF RecRestoreStable
  <2>3. rec'[r].pc = "idle" /\ \A s \in Reconcilers \ {r} : rec'[s] = rec[s]
    BY <1>0, <1>19, ForgetEffect DEF RecRestoreStable
  <2>4. UNCHANGED <<rev, serving, op, mark, pub>> /\ rec[r].pc = "restoreStable"
    BY <1>19 DEF RecRestoreStable
  <2> QED
    BY <2>2, <2>3, <2>4 DEF ControlAssumption
<1>20. ASSUME NEW r \in Reconcilers, RecFail(r) PROVE Story'
  BY <1>20, <1>0 DEF RecFail, RecForgets, Kinds, TypeOK, Operations, Controls,
     Passes, Revisions, Kinds, ControlAssumption
<1>21. ASSUME NEW all \in BOOLEAN, LoseControl(all) PROVE Story'
  BY <1>21, <1>0 DEF LoseControl, ControlAssumption
<1>22. CASE UNCHANGED vars
  BY <1>0, <1>22 DEF vars
<1> QED
  BY <1>1, <1>2, <1>3, <1>4, <1>5, <1>6, <1>7, <1>8, <1>9, <1>10, <1>11,
     <1>12, <1>13, <1>14, <1>15, <1>16, <1>17, <1>18, <1>19, <1>20, <1>21,
     <1>22 DEF Next, Publishing, RecWork

-----------------------------------------------------------------------------
\* The inductive invariant: Init establishes it and every step keeps it.
THEOREM InvariantHolds == ASSUME ControlAssumption PROVE Spec => []IInv
<1>1. Init => IInv
  <2> SUFFICES ASSUME Init PROVE IInv
    OBVIOUS
  <2>1. TypeOK
    BY DEF Init, ControlAssumption, TypeOK, Revisions, Operations, Controls,
       Passes, Marks, PublisherCalls, OpStates, ReconcilerCalls, Idle, Kinds
  <2>2. NeverAheadOfDatabase
    <3>1. control.rev = rev /\ control.serving = serving /\ \A k \in Kinds : rev[k] = 1
      BY DEF Init
    <3> QED
      BY <3>1 DEF NeverAheadOfDatabase
  <2>3. CommittedIsDurable /\ DurableOperations
    BY DEF Init, CommittedIsDurable, DurableOperations, DurableStates
  <2>4. Committers /\ ReadersAreBehind
    BY DEF Init, Committers, ReadersAreBehind, Idle
  <2>5. PendingIsPinned
    BY DEF Init, ControlAssumption, PendingIsPinned
  <2> QED
    BY <2>1, <2>2, <2>3, <2>4, <2>5 DEF IInv, Story
<1>2. IInv /\ [Next]_vars => IInv'
  BY TypeStep, StoryStep DEF IInv
<1> QED
  BY <1>1, <1>2, PTL DEF Spec

\* Type correctness of the rows, the control hash and the passes.
THEOREM TypeCorrect == ASSUME ControlAssumption PROVE Spec => []TypeOK
  BY InvariantHolds, PTL DEF IInv

\* Redis never serves a Provider's address or status that PostgreSQL has not
\* committed, whatever publishers, reconcilers, start-ups and losses do.
THEOREM NeverAheadTheorem == ASSUME ControlAssumption PROVE Spec => []NeverAheadOfDatabase
  BY InvariantHolds, PTL DEF IInv, Story

\* The record of an operation in Redis never says more than its row.
THEOREM CommittedIsDurableTheorem == ASSUME ControlAssumption PROVE Spec => []CommittedIsDurable
  BY InvariantHolds, PTL DEF IInv, Story

-----------------------------------------------------------------------------
(* The refinement.  Seen from one of its revisions, every step of the      *)
(* publishers, the reconcilers and Redis is a decision, a move towards     *)
(* PostgreSQL, a loss, or nothing.                                         *)

Stays(k) ==
    rev'[k] = rev[k] /\ control'.rev[k] = control.rev[k] /\ control'.present = control.present
Decides(k) ==
    /\ rev'[k] = rev[k] + 1
    /\ control'.rev[k] = control.rev[k] /\ control'.present = control.present
Moves(k) ==
    /\ rev'[k] = rev[k] /\ control'.present = TRUE
    /\ control'.rev[k] \in (IF control.present THEN control.rev[k] ELSE 1) .. rev[k]
Loses(k) ==
    rev'[k] = rev[k] /\ control'.rev[k] = control.rev[k] /\ control'.present = FALSE

FollowStep(k) == Stays(k) \/ Decides(k) \/ Moves(k) \/ Loses(k)

\* The commit of a durable operation moves its revision forward by one.
LEMMA CommitFollows ==
    ASSUME IInv, NEW t \in Ops, op[t].state \in DurableStates,
           DoCommit(t) \/ UNCHANGED <<control, mark>>, UNCHANGED rev, NEW k \in Kinds
    PROVE  FollowStep(k)
<1>1. TypeOK
  BY DEF IInv
<1>2. CASE UNCHANGED control
  BY <1>2 DEF FollowStep, Stays
<1>3. CASE /\ control.present /\ control.pending = t /\ control'.present
           /\ control'.rev[op[t].kind] = op[t].current + 1
           /\ \A j \in Kinds \ {op[t].kind} : control'.rev[j] = control.rev[j]
  <2>1. CASE k # op[t].kind
    BY <1>1, <1>3, <2>1 DEF FollowStep, Stays
  <2>2. CASE k = op[t].kind
    <3>1. control.rev[k] = op[t].current /\ op[t].current + 1 <= rev[k]
      BY <1>3, <2>2 DEF IInv, Story, PendingIsPinned, DurableOperations
    <3>2. control.rev[k] \in Nat /\ rev[k] \in Nat
      BY <1>1 DEF TypeOK, Controls, Revisions
    <3>3. control'.present = TRUE
      BY <1>1, <1>3, CommitEffect
    <3>4. control'.rev[k] \in control.rev[k] .. rev[k]
      BY <1>3, <2>2, <3>1, <3>2
    <3> QED
      BY <1>3, <3>3, <3>4 DEF FollowStep, Moves
  <2> QED
    BY <2>1, <2>2
<1> QED
  BY <1>1, <1>2, <1>3, CommitEffect

\* Only a missing control is restored, from what PostgreSQL had.
LEMMA RestoreFollows ==
    ASSUME IInv, NEW r \in Reconcilers, rec[r].pc \in {"restore", "restoreStable"},
           control' = RestoreMissing(rec[r].rev, rec[r].serving), UNCHANGED rev,
           NEW k \in Kinds
    PROVE  FollowStep(k)
<1>1. TypeOK
  BY DEF IInv
<1>2. CASE control.present
  BY <1>2, RestoreMissingEffect DEF FollowStep, Stays
<1>3. CASE ~control.present
  <2>1. control' = Restored(rec[r].rev, rec[r].serving)
    BY <1>3 DEF RestoreMissing
  <2>2. control'.present = TRUE /\ control'.rev[k] = rec[r].rev[k]
    BY <2>1 DEF Restored
  <2>3. rec[r].rev[k] \in Nat \ {0} /\ rev[k] \in Nat
    BY <1>1 DEF TypeOK, Passes, Revisions
  <2>4. rec[r].rev[k] <= rev[k]
    BY DEF IInv, Story, ReadersAreBehind, NotAhead
  <2>5. control'.rev[k] \in 1 .. rev[k]
    BY <2>2, <2>3, <2>4
  <2> QED
    BY <1>3, <2>2, <2>5 DEF FollowStep, Moves
<1> QED
  BY <1>2, <1>3

\* Preparing and aborting a fence leave the revisions alone.
LEMMA FenceFollows ==
    ASSUME TypeOK, NEW t \in Ops, UNCHANGED rev, NEW k \in Kinds,
           DoPrepare(t) \/ DoAbort(t) \/ UNCHANGED <<control, mark>>
    PROVE  FollowStep(k)
<1>1. CASE DoPrepare(t)
  <2>1. control'.rev = control.rev /\ control'.present = control.present
    BY <1>1, PrepareEffect DEF Controls
  <2> QED
    BY <2>1 DEF FollowStep, Stays
<1>2. CASE DoAbort(t)
  BY <1>2, AbortEffect DEF FollowStep, Stays
<1> QED
  BY <1>1, <1>2 DEF FollowStep, Stays

LEMMA EveryStepFollows ==
    ASSUME ControlAssumption, StartUps = {}, IInv, [Next]_vars, NEW k \in Kinds
    PROVE  FollowStep(k)
<1>0. TypeOK
  BY DEF IInv
<1>1. CASE UNCHANGED <<rev, control>>
  BY <1>1 DEF FollowStep, Stays
<1>2. ASSUME NEW t \in Ops, NEW outcome \in Outcomes,
             Prepare(t, outcome) \/ AbortUncommitted(t, outcome)
      PROVE  FollowStep(k)
  BY <1>0, <1>2, FenceFollows DEF Prepare, AbortUncommitted, Made
<1>3. ASSUME NEW t \in Ops, NEW outcome \in Outcomes, CommitBusiness(t, outcome)
      PROVE  FollowStep(k)
  <2>1. UNCHANGED control
    BY <1>3 DEF CommitBusiness
  <2>2. rev' = rev \/ rev' = [rev EXCEPT ![op[t].kind] = @ + 1]
    BY <1>3 DEF CommitBusiness
  <2>3. rev'[k] \in {rev[k], rev[k] + 1}
    BY <1>0, <2>2 DEF TypeOK, Revisions
  <2> QED
    BY <2>1, <2>3 DEF FollowStep, Stays, Decides
<1>4. ASSUME NEW t \in Ops, NEW outcome \in Outcomes, CommitControl(t, outcome)
      PROVE  FollowStep(k)
  BY <1>4, CommitFollows DEF CommitControl, Made, IInv, Story, Committers
<1>5. ASSUME NEW r \in Reconcilers, NEW outcome \in Outcomes, RecAbort(r, outcome)
      PROVE  FollowStep(k)
  <2>1. rec[r].op \in Ops
    BY <1>5 DEF RecAbort, IInv, Story, Committers
  <2> QED
    BY <1>0, <1>5, <2>1, FenceFollows DEF RecAbort, Made
<1>6. ASSUME NEW r \in Reconcilers, NEW outcome \in Outcomes, RecCommit(r, outcome)
      PROVE  FollowStep(k)
  <2>1. rec[r].op \in Ops /\ op[rec[r].op].state \in DurableStates
    BY <1>6 DEF RecCommit, IInv, Story, Committers
  <2> QED
    BY <1>6, <2>1, CommitFollows DEF RecCommit, Made
<1>7. ASSUME NEW r \in Reconcilers, RecRestore(r) \/ RecRestoreStable(r)
      PROVE  FollowStep(k)
  BY <1>7, RestoreFollows DEF RecRestore, RecRestoreStable
<1>8. ASSUME NEW all \in BOOLEAN, LoseControl(all) PROVE FollowStep(k)
  <2>1. control'.present = FALSE /\ control'.rev = control.rev /\ rev' = rev
    BY <1>0, <1>8 DEF LoseControl
  <2> QED
    BY <2>1 DEF FollowStep, Loses
<1> QED
  BY <1>1, <1>2, <1>3, <1>4, <1>5, <1>6, <1>7, <1>8 DEF Next, vars, Publishing,
     RecWork, Request, Create, MarkPrepared, Close, CloseAborted, Die, RecList,
     RecCloseAborted, RecRow, RecCloseCommitted, RecReadStable, RecFail

\* Without start-ups, each revision Redis serves follows the one PostgreSQL
\* holds: never ahead of it, and never back while the control is there.
THEOREM FollowsDatabaseTheorem ==
    ASSUME ControlAssumption, StartUps = {} PROVE Spec => FollowsDatabase
<1>1. Init => Origin!FollowInit /\ Status!FollowInit
  BY DEF Init, Origin!FollowInit, Status!FollowInit, Kinds
<1>2. IInv /\ [Next]_vars => /\ [Origin!FollowNext]_(Origin!followVars)
                             /\ [Status!FollowNext]_(Status!followVars)
  <2> SUFFICES ASSUME IInv, [Next]_vars
               PROVE  /\ [Origin!FollowNext]_(Origin!followVars)
                      /\ [Status!FollowNext]_(Status!followVars)
    OBVIOUS
  <2>1. FollowStep("origin") /\ FollowStep("status")
    BY EveryStepFollows DEF Kinds
  <2> QED
    BY <2>1 DEF FollowStep, Stays, Decides, Moves, Loses, Origin!FollowNext,
       Origin!Decide, Origin!Follow, Origin!Lose, Origin!followVars,
       Status!FollowNext, Status!Decide, Status!Follow, Status!Lose,
       Status!followVars
<1> QED
  BY <1>1, <1>2, InvariantHolds, PTL DEF Spec, FollowsDatabase,
     Origin!FollowSpec, Status!FollowSpec
-----------------------------------------------------------------------------
(***************************************************************************)
(* The fault latch.                                                        *)
(***************************************************************************)
CONSTANTS Gateways, NoToken, MaxLosses, MaxGen
VARIABLES l_run, l_latch, l_proof, l_sound, l_fault, l_pass, l_serving,
          l_inflight, l_faults, l_unseen

Latch == INSTANCE FaultLatch WITH
    run <- l_run, latch <- l_latch, proof <- l_proof, sound <- l_sound,
    fault <- l_fault, pass <- l_pass, serving <- l_serving,
    inflight <- l_inflight, faults <- l_faults, unseen <- l_unseen

LatchPasses == [pc : {"idle", "local", "begun", "passed", "verified"}, gen : 0 .. MaxGen,
                token : Latch!Tokens \cup {NoToken}, run : 0 .. MaxLosses + 1]

\* A gateway that is latched has a fault to name.
LatchedHasFault == \A g \in Gateways : l_fault[g].latched => l_fault[g].gen > 0

\* No proof is of an instance that is still to come.
ProofIsOfAnInstanceSeen == l_proof <= l_run

\* A pass froze the generation its gateway had; if a call has failed since the
\* pass began, the generation has moved on.
PassesAreOlder ==
    \A g \in Gateways : l_pass[g].pc # "idle" =>
        /\ l_pass[g].gen <= l_fault[g].gen
        /\ ~l_unseen[g] => l_pass[g].gen < l_fault[g].gen

LatchInv ==
    /\ Latch!TypeOK /\ LatchedHasFault /\ ProofIsOfAnInstanceSeen
    /\ Latch!ProvedIsSound /\ PassesAreOlder

\* What a publication leaves of the shared state.
Published ==
    /\ l_latch' \in Latch!Tokens \cup {NoToken}
    /\ l_inflight' \subseteq [kind : {"set", "setnx"}, token : Latch!Tokens]
    /\ l_faults' \in 0 .. MaxFaults

LEMMA PublishTypes ==
    ASSUME Latch!LatchAssumption, Latch!TypeOK, NEW kind \in {"set", "setnx"},
           NEW tok \in Latch!Tokens, Latch!Publish(kind, tok)
    PROVE  Published
<1> USE DEF Latch!LatchAssumption, Latch!TypeOK, Published, Latch!Put
<1>1. CASE Latch!Put(kind, tok) /\ UNCHANGED <<l_inflight, l_faults>>
  BY <1>1
<1>2. CASE ~(Latch!Put(kind, tok) /\ UNCHANGED <<l_inflight, l_faults>>)
  <2>1. l_latch' = l_latch /\ l_faults < MaxFaults /\ l_faults' = l_faults + 1
    BY <1>2 DEF Latch!Publish
  <2>2. l_inflight' \in {l_inflight, l_inflight \cup {[kind |-> kind, token |-> tok]}}
    BY <1>2 DEF Latch!Publish
  <2> QED
    BY <2>1, <2>2
<1> QED
  BY <1>1, <1>2

\* What the gateway's own latch becomes.
FaultIsOf(g) ==
    /\ l_fault' \in [Gateways -> [gen : 0 .. MaxGen, latched : BOOLEAN]]
    /\ LatchedHasFault'
    /\ \A h \in Gateways : l_fault'[h].gen >= l_fault[h].gen

LEMMA LatchedTypes ==
    ASSUME Latch!LatchAssumption, Latch!TypeOK, LatchedHasFault,
           NEW g \in Gateways, l_fault[g].gen < MaxGen, l_fault' = Latch!Latched(g)
    PROVE  /\ FaultIsOf(g) /\ l_fault'[g].gen = l_fault[g].gen + 1
           /\ l_fault'[g].latched = l_serving[g]
           /\ \A h \in Gateways \ {g} : l_fault'[h] = l_fault[h]
           /\ [by |-> g, gen |-> l_fault[g].gen + 1] \in Latch!Tokens
<1> USE DEF Latch!LatchAssumption, Latch!TypeOK
<1>1. /\ l_fault' \in [Gateways -> [gen : 0 .. MaxGen, latched : BOOLEAN]]
      /\ l_fault'[g].gen = l_fault[g].gen + 1
      /\ l_fault'[g].latched = l_serving[g]
      /\ \A h \in Gateways \ {g} : l_fault'[h] = l_fault[h]
  BY DEF Latch!Latched
<1>2. [by |-> g, gen |-> l_fault[g].gen + 1] \in Latch!Tokens
  BY DEF Latch!Tokens
<1>3. ASSUME NEW h \in Gateways
      PROVE  /\ l_fault'[h].gen >= l_fault[h].gen
             /\ l_fault'[h].latched => l_fault'[h].gen > 0
  <2>1. CASE h = g
    BY <1>1, <2>1
  <2>2. CASE h # g
    BY <1>1, <2>2 DEF LatchedHasFault
  <2> QED
    BY <2>1, <2>2
<1> QED
  BY <1>1, <1>2, <1>3 DEF FaultIsOf, LatchedHasFault

LEMMA LatchFaultTypes ==
    ASSUME Latch!LatchAssumption, Latch!TypeOK, LatchedHasFault,
           NEW g \in Gateways, NEW left \in SUBSET (Latch!Tokens \cup {NoToken}),
           Latch!LatchFault(g, left)
    PROVE  /\ l_latch' \in Latch!Tokens \cup {NoToken}
           /\ l_inflight' \subseteq [kind : {"set", "setnx"}, token : Latch!Tokens]
           /\ FaultIsOf(g) /\ l_fault'[g].gen = l_fault[g].gen + 1
           /\ l_fault'[g].latched = l_serving[g]
           /\ \A h \in Gateways \ {g} : l_fault'[h] = l_fault[h]
           /\ l_unseen' = [l_unseen EXCEPT ![g] = FALSE]
<1> DEFINE tok == [by |-> g, gen |-> l_fault[g].gen + 1]
<1>1. l_fault[g].gen < MaxGen /\ l_fault' = Latch!Latched(g)
      /\ l_unseen' = [l_unseen EXCEPT ![g] = FALSE]
  BY DEF Latch!LatchFault
<1>2. tok \in Latch!Tokens
  BY <1>1, LatchedTypes
<1>3. \/ l_latch' = tok /\ l_inflight' = l_inflight
      \/ /\ l_inflight' \in {l_inflight, l_inflight \cup {[kind |-> "set", token |-> tok]}}
         /\ l_latch' \in left
  BY DEF Latch!LatchFault, Latch!Put
<1> QED
  BY <1>1, <1>2, <1>3, LatchedTypes DEF Latch!TypeOK

LEMMA EnsureFaultTypes ==
    ASSUME Latch!LatchAssumption, Latch!TypeOK, LatchedHasFault,
           NEW g \in Gateways, Latch!EnsureFault(g)
    PROVE  /\ Published /\ FaultIsOf(g)
           /\ l_fault[g].latched /\ l_serving[g] => l_fault'[g].latched
           /\ \A h \in Gateways \ {g} : l_fault'[h] = l_fault[h]
<1>1. CASE l_fault[g].latched
  <2>1. Latch!Publish("setnx", Latch!Token(g)) /\ l_fault' = l_fault
    BY <1>1 DEF Latch!EnsureFault
  <2>2. Latch!Token(g) \in Latch!Tokens
    BY <1>1 DEF Latch!Token, Latch!Tokens, Latch!TypeOK, LatchedHasFault,
       Latch!LatchAssumption
  <2> QED
    BY <2>1, <2>2, PublishTypes DEF FaultIsOf, LatchedHasFault, Latch!TypeOK
<1>2. CASE ~l_fault[g].latched
  <2>1. /\ l_fault[g].gen < MaxGen /\ l_fault' = Latch!Latched(g)
        /\ Latch!Publish("set", [by |-> g, gen |-> l_fault[g].gen + 1])
    BY <1>2 DEF Latch!EnsureFault
  <2> QED
    BY <1>2, <2>1, LatchedTypes, PublishTypes
<1> QED
  BY <1>1, <1>2

\* No step of one gateway's pass takes another's generation back.
LEMMA PassesStayOlder ==
    ASSUME Latch!TypeOK, PassesAreOlder, NEW g \in Gateways, FaultIsOf(g),
           \A h \in Gateways \ {g} : l_pass'[h] = l_pass[h] /\ l_unseen'[h] = l_unseen[h],
           l_pass'[g].pc # "idle" =>
               /\ l_pass'[g].gen <= l_fault'[g].gen
               /\ ~l_unseen'[g] => l_pass'[g].gen < l_fault'[g].gen
    PROVE  PassesAreOlder'
<1> SUFFICES ASSUME NEW h \in Gateways, l_pass'[h].pc # "idle"
             PROVE  /\ l_pass'[h].gen <= l_fault'[h].gen
                    /\ ~l_unseen'[h] => l_pass'[h].gen < l_fault'[h].gen
  BY DEF PassesAreOlder
<1>1. CASE h = g
  BY <1>1
<1>2. CASE h # g
  <2>1. l_pass'[h] = l_pass[h] /\ l_unseen'[h] = l_unseen[h]
    BY <1>2
  <2>2. l_fault'[h].gen >= l_fault[h].gen /\ l_fault'[h].gen \in Nat
        /\ l_fault[h].gen \in Nat /\ l_pass[h].gen \in Nat
    BY DEF FaultIsOf, Latch!TypeOK
  <2> QED
    BY <2>1, <2>2 DEF PassesAreOlder
<1> QED
  BY <1>1, <1>2

LEMMA LatchStep ==
    ASSUME Latch!LatchAssumption, LatchInv, [Latch!Next]_(Latch!vars)
    PROVE  LatchInv'
<1> USE DEF LatchInv
<1>0. /\ l_run \in 1 .. MaxLosses + 1 /\ l_proof \in 0 .. MaxLosses + 1
      /\ l_proof <= l_run /\ (l_proof = l_run => l_sound)
      /\ MaxLosses \in Nat /\ MaxFaults \in Nat /\ MaxGen \in Nat
  BY DEF Latch!TypeOK, Latch!LatchAssumption, ProofIsOfAnInstanceSeen,
     Latch!ProvedIsSound
<1>g. ASSUME NEW g \in Gateways PROVE FaultIsOf(g) \/ l_fault' # l_fault
  BY DEF FaultIsOf, LatchedHasFault, Latch!TypeOK, Latch!LatchAssumption
<1>1. ASSUME NEW g \in Gateways, Latch!BeginLocal(g) PROVE LatchInv'
  <2>1. Published
    <3>1. CASE l_fault[g].latched
      <4>1. Latch!Token(g) \in Latch!Tokens
        BY <3>1 DEF Latch!Token, Latch!Tokens, Latch!TypeOK, LatchedHasFault,
           Latch!LatchAssumption
      <4> QED
        BY <1>1, <3>1, <4>1, PublishTypes DEF Latch!BeginLocal
    <3>2. CASE ~l_fault[g].latched
      BY <1>1, <3>2 DEF Latch!BeginLocal, Published, Latch!TypeOK
    <3> QED
      BY <3>1, <3>2
  <2>2. /\ l_pass' = [l_pass EXCEPT ![g].pc = "local", ![g].gen = l_fault[g].gen]
        /\ l_unseen' = [l_unseen EXCEPT ![g] = TRUE]
        /\ UNCHANGED <<l_run, l_proof, l_sound, l_fault, l_serving>>
    BY <1>1 DEF Latch!BeginLocal
  <2>3. Latch!TypeOK'
    <3>1. l_pass' \in [Gateways -> LatchPasses]
      BY <2>2 DEF Latch!TypeOK, LatchPasses
    <3> QED
      BY <2>1, <2>2, <3>1 DEF Latch!TypeOK, Published, LatchPasses
  <2>4. PassesAreOlder'
    <3>1. l_pass'[g].gen = l_fault[g].gen /\ l_unseen'[g] = TRUE /\ l_fault[g].gen \in Nat
      BY <2>2 DEF Latch!TypeOK
    <3>2. \A h \in Gateways \ {g} : l_pass'[h] = l_pass[h] /\ l_unseen'[h] = l_unseen[h]
      BY <2>2 DEF Latch!TypeOK
    <3>3. FaultIsOf(g) /\ l_fault'[g].gen = l_fault[g].gen
      BY <1>g, <2>2
    <3> QED
      BY <3>1, <3>2, <3>3, PassesStayOlder
  <2> QED
    BY <2>2, <2>3, <2>4 DEF LatchedHasFault, ProofIsOfAnInstanceSeen,
       Latch!ProvedIsSound
<1>2. ASSUME NEW g \in Gateways, Latch!BeginRead(g) PROVE LatchInv'
  <2>1. /\ l_pass[g].pc = "local"
        /\ l_pass' = [l_pass EXCEPT ![g].pc = "begun", ![g].run = l_run, ![g].token = l_latch]
        /\ UNCHANGED <<l_run, l_latch, l_proof, l_sound, l_fault, l_serving,
                       l_inflight, l_faults, l_unseen>>
    BY <1>2 DEF Latch!BeginRead, Latch!shared
  <2>2. Latch!TypeOK'
    <3>0. /\ l_run \in 0 .. MaxLosses + 1 /\ l_latch \in Latch!Tokens \cup {NoToken}
          /\ l_pass \in [Gateways -> LatchPasses]
      BY <1>0 DEF Latch!TypeOK, LatchPasses
    <3> DEFINE p == [l_pass[g] EXCEPT !.pc = "begun", !.run = l_run, !.token = l_latch]
    <3>2. l_pass[g] \in LatchPasses /\ l_pass' = [l_pass EXCEPT ![g] = p]
      BY <2>1, <3>0
    <3>3. p \in LatchPasses
      BY <3>0, <3>2 DEF LatchPasses
    <3>1. l_pass' \in [Gateways -> LatchPasses]
      BY <3>0, <3>2, <3>3
    <3> QED
      BY <2>1, <3>1 DEF Latch!TypeOK, LatchPasses
  <2>3. PassesAreOlder'
    <3>1. /\ l_pass'[g].gen = l_pass[g].gen
          /\ \A h \in Gateways \ {g} : l_pass'[h] = l_pass[h]
      BY <2>1 DEF Latch!TypeOK
    <3> QED
      BY <1>g, <2>1, <3>1, PassesStayOlder DEF PassesAreOlder
  <2> QED
    BY <2>1, <2>2, <2>3 DEF LatchedHasFault, ProofIsOfAnInstanceSeen,
       Latch!ProvedIsSound
<1>3. ASSUME NEW g \in Gateways, Latch!Reconcile(g) PROVE LatchInv'
  <2>1. /\ l_pass[g].pc = "begun" /\ l_sound' = TRUE
        /\ l_pass' = [l_pass EXCEPT ![g].pc = "passed"]
        /\ UNCHANGED <<l_run, l_latch, l_proof, l_fault, l_serving, l_inflight,
                       l_faults, l_unseen>>
    BY <1>3 DEF Latch!Reconcile, Latch!GoTo
  <2>2. Latch!TypeOK'
    BY <2>1 DEF Latch!TypeOK
  <2>3. PassesAreOlder'
    <3>1. /\ l_pass'[g].gen = l_pass[g].gen
          /\ \A h \in Gateways \ {g} : l_pass'[h] = l_pass[h]
      BY <2>1 DEF Latch!TypeOK
    <3> QED
      BY <1>g, <2>1, <3>1, PassesStayOlder DEF PassesAreOlder
  <2> QED
    BY <2>1, <2>2, <2>3 DEF LatchedHasFault, ProofIsOfAnInstanceSeen,
       Latch!ProvedIsSound
<1>4. ASSUME NEW g \in Gateways, Latch!Commit(g) PROVE LatchInv'
  <2>0. l_pass[g].pc = "passed" /\ UNCHANGED <<l_run, l_sound, l_serving, l_unseen>>
    BY <1>4 DEF Latch!Commit
  <2>1. CASE Latch!Verifies(g)
    <3>1. /\ l_proof' = l_run /\ l_sound
          /\ l_pass' = [l_pass EXCEPT ![g].pc = "verified"]
          /\ UNCHANGED <<l_latch, l_fault, l_inflight, l_faults>>
      BY <1>4, <2>1 DEF Latch!Commit, Latch!Verifies, Latch!GoTo
    <3>2. Latch!TypeOK'
      BY <1>0, <2>0, <3>1 DEF Latch!TypeOK
    <3>3. PassesAreOlder'
      <4>1. /\ l_pass'[g].gen = l_pass[g].gen
            /\ \A h \in Gateways \ {g} : l_pass'[h] = l_pass[h]
        BY <3>1 DEF Latch!TypeOK
      <4> QED
        BY <1>g, <2>0, <3>1, <4>1, PassesStayOlder DEF PassesAreOlder
    <3> QED
      BY <1>0, <2>0, <3>1, <3>2, <3>3 DEF LatchedHasFault, ProofIsOfAnInstanceSeen,
         Latch!ProvedIsSound
  <2>2. CASE ~Latch!Verifies(g)
    <3>1. /\ l_proof' = l_proof /\ l_pass' = [l_pass EXCEPT ![g] = Latch!Idle]
          /\ \/ Latch!EnsureFault(g)
             \/ UNCHANGED <<l_fault, l_latch, l_inflight, l_faults>>
      BY <1>4, <2>2 DEF Latch!Commit, Latch!GiveUp
    <3>2. Published /\ FaultIsOf(g)
      BY <1>g, <3>1, EnsureFaultTypes DEF Published, Latch!TypeOK
    <3>3. Latch!TypeOK'
      <4>1. l_pass' \in [Gateways -> LatchPasses]
        BY <1>0, <3>1 DEF Latch!TypeOK, Latch!Idle, LatchPasses
      <4> QED
        BY <2>0, <3>1, <3>2, <4>1 DEF Latch!TypeOK, Published, FaultIsOf, LatchPasses
    <3>4. PassesAreOlder'
      <4>1. /\ l_pass'[g].pc = "idle"
            /\ \A h \in Gateways \ {g} : l_pass'[h] = l_pass[h]
        BY <3>1 DEF Latch!TypeOK, Latch!Idle
      <4> QED
        BY <2>0, <3>2, <4>1, PassesStayOlder
    <3> QED
      BY <2>0, <3>1, <3>2, <3>3, <3>4 DEF FaultIsOf, ProofIsOfAnInstanceSeen,
         Latch!ProvedIsSound
  <2> QED
    BY <2>1, <2>2
<1>5. ASSUME NEW g \in Gateways, Latch!Delete(g) PROVE LatchInv'
  <2>0. l_pass[g].pc = "verified" /\ UNCHANGED <<l_run, l_proof, l_sound, l_unseen>>
    BY <1>5 DEF Latch!Delete
  <2>1. l_pass' = [l_pass EXCEPT ![g] = Latch!Idle]
    BY <1>5 DEF Latch!Delete, Latch!GiveUp
  <2>2. Published /\ FaultIsOf(g) /\ l_serving' \in [Gateways -> BOOLEAN]
    <3>1. CASE ~Latch!LocalFaultChanged(g) /\ Latch!Deletable(g)
      <4>1. /\ l_latch' = NoToken /\ l_fault' = [l_fault EXCEPT ![g].latched = FALSE]
            /\ l_serving' = [l_serving EXCEPT ![g] = TRUE]
            /\ UNCHANGED <<l_inflight, l_faults>>
        BY <1>5, <3>1 DEF Latch!Delete
      <4>2. Published /\ l_serving' \in [Gateways -> BOOLEAN]
        BY <4>1 DEF Published, Latch!TypeOK
      <4>3. l_fault' \in [Gateways -> [gen : 0 .. MaxGen, latched : BOOLEAN]]
        BY <4>1 DEF Latch!TypeOK
      <4>4. \A h \in Gateways : /\ l_fault'[h].gen = l_fault[h].gen
                                /\ l_fault'[h].latched => l_fault[h].latched
        BY <4>1 DEF Latch!TypeOK
      <4>5. \A h \in Gateways : l_fault[h].gen \in Nat
        BY DEF Latch!TypeOK
      <4> QED
        BY <4>2, <4>3, <4>4, <4>5 DEF FaultIsOf, LatchedHasFault
    <3>2. CASE ~(~Latch!LocalFaultChanged(g) /\ Latch!Deletable(g))
      <4>1. /\ l_serving' = l_serving
            /\ \/ Latch!EnsureFault(g)
               \/ l_fault[g].latched /\ Latch!Publish("setnx", Latch!Token(g)) /\ UNCHANGED l_fault
               \/ UNCHANGED <<l_latch, l_inflight, l_faults, l_fault>>
        BY <1>5, <3>2 DEF Latch!Delete
      <4>2. CASE Latch!EnsureFault(g)
        BY <4>1, <4>2, EnsureFaultTypes DEF Latch!TypeOK
      <4>3. CASE l_fault[g].latched /\ Latch!Publish("setnx", Latch!Token(g)) /\ UNCHANGED l_fault
        <5>1. Latch!Token(g) \in Latch!Tokens
          BY <4>3 DEF Latch!Token, Latch!Tokens, Latch!TypeOK, LatchedHasFault,
             Latch!LatchAssumption
        <5> QED
          BY <1>g, <4>1, <4>3, <5>1, PublishTypes DEF Latch!TypeOK
      <4>4. CASE UNCHANGED <<l_latch, l_inflight, l_faults, l_fault>>
        BY <1>g, <4>1, <4>4 DEF Published, Latch!TypeOK
      <4> QED
        BY <4>1, <4>2, <4>3, <4>4
    <3> QED
      BY <3>1, <3>2
  <2>3. Latch!TypeOK'
    <3>1. l_pass' \in [Gateways -> LatchPasses]
      BY <1>0, <2>1 DEF Latch!TypeOK, Latch!Idle, LatchPasses
    <3> QED
      BY <2>0, <2>2, <3>1 DEF Latch!TypeOK, Published, FaultIsOf, LatchPasses
  <2>4. PassesAreOlder'
    <3>1. /\ l_pass'[g].pc = "idle"
          /\ \A h \in Gateways \ {g} : l_pass'[h] = l_pass[h]
      BY <2>1 DEF Latch!TypeOK, Latch!Idle
    <3> QED
      BY <2>0, <2>2, <3>1, PassesStayOlder
  <2> QED
    BY <2>0, <2>2, <2>3, <2>4 DEF FaultIsOf, ProofIsOfAnInstanceSeen,
       Latch!ProvedIsSound
<1>6. ASSUME NEW g \in Gateways, Latch!PassFault(g) PROVE LatchInv'
  <2>1. /\ l_pass[g].pc # "idle" /\ l_faults < MaxFaults /\ l_faults' = l_faults + 1
        /\ l_pass' = [l_pass EXCEPT ![g] = Latch!Idle]
        /\ UNCHANGED <<l_run, l_sound, l_serving>>
    BY <1>6 DEF Latch!PassFault, Latch!GiveUp
  <2>2. \/ l_proof' = l_proof
        \/ l_proof' = l_run /\ l_sound
    BY <1>6 DEF Latch!PassFault, Latch!Verifies
  <2>3. PICK left \in SUBSET (Latch!Tokens \cup {NoToken}) : Latch!LatchFault(g, left)
    BY <1>6 DEF Latch!PassFault, Latch!TypeOK
  <2>4. Latch!TypeOK'
    <3>1. l_pass' \in [Gateways -> LatchPasses]
      BY <1>0, <2>1 DEF Latch!TypeOK, Latch!Idle, LatchPasses
    <3>2. l_unseen' \in [Gateways -> BOOLEAN]
      BY <2>3, LatchFaultTypes DEF Latch!TypeOK
    <3>3. l_faults' \in 0 .. MaxFaults
      BY <1>0, <2>1 DEF Latch!TypeOK
    <3> QED
      BY <1>0, <2>1, <2>2, <2>3, <3>1, <3>2, <3>3, LatchFaultTypes
      DEF Latch!TypeOK, FaultIsOf, LatchPasses
  <2>5. PassesAreOlder'
    <3>1. /\ l_pass'[g].pc = "idle"
          /\ \A h \in Gateways \ {g} : l_pass'[h] = l_pass[h] /\ l_unseen'[h] = l_unseen[h]
      BY <2>1, <2>3, LatchFaultTypes DEF Latch!TypeOK, Latch!Idle
    <3>2. FaultIsOf(g)
      BY <2>3, LatchFaultTypes
    <3> QED
      BY <3>1, <3>2, PassesStayOlder
  <2> QED
    BY <1>0, <2>1, <2>2, <2>3, <2>4, <2>5, LatchFaultTypes
    DEF FaultIsOf, ProofIsOfAnInstanceSeen, Latch!ProvedIsSound
<1>7. ASSUME NEW g \in Gateways, Latch!PassFails(g) PROVE LatchInv'
  <2>1. /\ l_faults < MaxFaults /\ l_faults' = l_faults + 1
        /\ l_pass' = [l_pass EXCEPT ![g] = Latch!Idle]
        /\ UNCHANGED <<l_run, l_latch, l_proof, l_sound, l_fault, l_serving,
                       l_inflight, l_unseen>>
    BY <1>7 DEF Latch!PassFails, Latch!GiveUp, Latch!shared
  <2>2. Latch!TypeOK'
    <3>1. l_pass' \in [Gateways -> LatchPasses]
      BY <1>0, <2>1 DEF Latch!TypeOK, Latch!Idle, LatchPasses
    <3> QED
      BY <1>0, <2>1, <3>1 DEF Latch!TypeOK, LatchPasses
  <2>3. PassesAreOlder'
    <3>1. /\ l_pass'[g].pc = "idle"
          /\ \A h \in Gateways \ {g} : l_pass'[h] = l_pass[h] /\ l_unseen'[h] = l_unseen[h]
      BY <2>1 DEF Latch!TypeOK, Latch!Idle
    <3> QED
      BY <1>g, <2>1, <3>1, PassesStayOlder
  <2> QED
    BY <2>1, <2>2, <2>3 DEF LatchedHasFault, ProofIsOfAnInstanceSeen,
       Latch!ProvedIsSound
<1>8. ASSUME NEW g \in Gateways, Latch!Crash(g) PROVE LatchInv'
  <2>1. /\ l_faults < MaxFaults /\ l_faults' = l_faults + 1
        /\ l_serving' = [l_serving EXCEPT ![g] = FALSE]
        /\ l_pass' = [l_pass EXCEPT ![g] = Latch!Idle]
        /\ l_fault' = [l_fault EXCEPT ![g].latched = FALSE]
        /\ UNCHANGED <<l_run, l_latch, l_proof, l_sound, l_inflight, l_unseen>>
    BY <1>8 DEF Latch!Crash, Latch!shared
  <2>2. FaultIsOf(g)
    <3>1. l_fault' \in [Gateways -> [gen : 0 .. MaxGen, latched : BOOLEAN]]
      BY <2>1 DEF Latch!TypeOK
    <3>2. \A h \in Gateways : /\ l_fault'[h].gen = l_fault[h].gen
                              /\ l_fault'[h].latched => l_fault[h].latched
      BY <2>1 DEF Latch!TypeOK
    <3>3. \A h \in Gateways : l_fault[h].gen \in Nat
      BY DEF Latch!TypeOK
    <3> QED
      BY <3>1, <3>2, <3>3 DEF FaultIsOf, LatchedHasFault
  <2>3. Latch!TypeOK'
    <3>1. l_pass' \in [Gateways -> LatchPasses]
      BY <1>0, <2>1 DEF Latch!TypeOK, Latch!Idle, LatchPasses
    <3> QED
      BY <1>0, <2>1, <2>2, <3>1 DEF Latch!TypeOK, FaultIsOf, LatchPasses
  <2>4. PassesAreOlder'
    <3>1. /\ l_pass'[g].pc = "idle"
          /\ \A h \in Gateways \ {g} : l_pass'[h] = l_pass[h] /\ l_unseen'[h] = l_unseen[h]
      BY <2>1 DEF Latch!TypeOK, Latch!Idle
    <3> QED
      BY <2>2, <3>1, PassesStayOlder
  <2> QED
    BY <2>1, <2>2, <2>3, <2>4 DEF FaultIsOf, ProofIsOfAnInstanceSeen,
       Latch!ProvedIsSound
<1>9. ASSUME NEW g \in Gateways, Latch!RequestFault(g) PROVE LatchInv'
  <2>1. /\ l_faults < MaxFaults /\ l_faults' = l_faults + 1
        /\ Latch!LatchFault(g, {l_latch})
        /\ UNCHANGED <<l_run, l_proof, l_sound, l_pass, l_serving>>
    BY <1>9 DEF Latch!RequestFault
  <2>2. {l_latch} \in SUBSET (Latch!Tokens \cup {NoToken})
    BY DEF Latch!TypeOK
  <2>3. Latch!TypeOK'
    <3>1. l_unseen' \in [Gateways -> BOOLEAN]
      BY <2>1, <2>2, LatchFaultTypes DEF Latch!TypeOK
    <3>2. l_faults' \in 0 .. MaxFaults
      BY <1>0, <2>1 DEF Latch!TypeOK
    <3> QED
      BY <2>1, <2>2, <3>1, <3>2, LatchFaultTypes DEF Latch!TypeOK, FaultIsOf
  <2>4. PassesAreOlder'
    <3>1. /\ FaultIsOf(g) /\ l_fault'[g].gen = l_fault[g].gen + 1
          /\ \A h \in Gateways \ {g} : l_pass'[h] = l_pass[h] /\ l_unseen'[h] = l_unseen[h]
      BY <2>1, <2>2, LatchFaultTypes DEF Latch!TypeOK
    <3>2. l_fault[g].gen \in Nat /\ l_pass[g].gen \in Nat
      BY DEF Latch!TypeOK
    <3>3. l_pass'[g].pc # "idle" => l_pass'[g].gen < l_fault'[g].gen
      BY <2>1, <3>1, <3>2 DEF PassesAreOlder
    <3>4. l_pass'[g].pc # "idle" => l_pass'[g].gen <= l_fault'[g].gen
      BY <2>1, <3>1, <3>2, <3>3
    <3> QED
      BY <3>1, <3>3, <3>4, PassesStayOlder
  <2> QED
    BY <2>1, <2>2, <2>3, <2>4, LatchFaultTypes
    DEF FaultIsOf, ProofIsOfAnInstanceSeen, Latch!ProvedIsSound
<1>10. ASSUME NEW g \in Gateways, Latch!Request(g) PROVE LatchInv'
  <2>1. UNCHANGED <<l_run, l_proof, l_sound, l_pass, l_serving, l_unseen>>
    BY <1>10 DEF Latch!Request
  <2>2. Published /\ FaultIsOf(g)
    <3>1. CASE l_fault[g].latched
      <4>1. Latch!Token(g) \in Latch!Tokens
        BY <3>1 DEF Latch!Token, Latch!Tokens, Latch!TypeOK, LatchedHasFault,
           Latch!LatchAssumption
      <4> QED
        BY <1>g, <1>10, <3>1, <4>1, PublishTypes DEF Latch!Request
    <3>2. CASE ~l_fault[g].latched
      BY <1>10, <3>2, EnsureFaultTypes DEF Latch!Request
    <3> QED
      BY <3>1, <3>2
  <2>3. Latch!TypeOK'
    BY <2>1, <2>2 DEF Latch!TypeOK, Published, FaultIsOf
  <2>4. PassesAreOlder'
    <3>1. /\ l_fault'[g].gen >= l_fault[g].gen /\ l_fault'[g].gen \in Nat
          /\ l_fault[g].gen \in Nat /\ l_pass[g].gen \in Nat
      BY <2>2 DEF FaultIsOf, Latch!TypeOK
    <3> QED
      BY <2>1, <2>2, <3>1, PassesStayOlder DEF PassesAreOlder
  <2> QED
    BY <2>1, <2>2, <2>3, <2>4 DEF FaultIsOf, ProofIsOfAnInstanceSeen,
       Latch!ProvedIsSound
<1>11. CASE Latch!RunInflight
  <2>1. /\ l_latch' \in Latch!Tokens \cup {NoToken} /\ l_inflight' \subseteq l_inflight
        /\ UNCHANGED <<l_run, l_proof, l_sound, l_fault, l_pass, l_serving,
                       l_faults, l_unseen>>
    BY <1>11 DEF Latch!RunInflight, Latch!Put, Latch!TypeOK
  <2>2. Latch!TypeOK'
    BY <2>1 DEF Latch!TypeOK
  <2> QED
    BY <2>1, <2>2 DEF LatchedHasFault, ProofIsOfAnInstanceSeen, Latch!ProvedIsSound,
       PassesAreOlder
<1>12. CASE Latch!Restart
  <2>1. /\ l_run <= MaxLosses /\ l_run' = l_run + 1 /\ l_proof' \in {l_proof, 0}
        /\ l_latch' \in {l_latch, NoToken} /\ l_sound' \in {l_sound, FALSE}
        /\ UNCHANGED <<l_fault, l_pass, l_serving, l_inflight, l_faults, l_unseen>>
    BY <1>12 DEF Latch!Restart
  <2>2. /\ l_run' \in 1 .. MaxLosses + 1 /\ l_proof' \in 0 .. MaxLosses + 1
        /\ l_latch' \in Latch!Tokens \cup {NoToken}
    BY <1>0, <2>1 DEF Latch!TypeOK
  <2>4. l_sound' \in BOOLEAN
    BY <2>1, Zenon DEF Latch!TypeOK
  <2>3. Latch!TypeOK'
    BY <2>1, <2>2, <2>4 DEF Latch!TypeOK
  <2> QED
    BY <1>0, <2>1, <2>3 DEF LatchedHasFault, ProofIsOfAnInstanceSeen,
       Latch!ProvedIsSound, PassesAreOlder
<1>13. CASE Latch!Flush
  <2>1. /\ l_faults < MaxFaults /\ l_faults' = l_faults + 1
        /\ l_latch' = NoToken /\ l_proof' = 0 /\ l_sound' = FALSE
        /\ UNCHANGED <<l_run, l_fault, l_pass, l_serving, l_inflight, l_unseen>>
    BY <1>13 DEF Latch!Flush
  <2>2. /\ l_proof' \in 0 .. MaxLosses + 1 /\ l_faults' \in 0 .. MaxFaults
        /\ l_latch' \in Latch!Tokens \cup {NoToken}
    BY <1>0, <2>1 DEF Latch!TypeOK
  <2>4. l_sound' \in BOOLEAN
    BY <2>1, Zenon DEF Latch!TypeOK
  <2>3. Latch!TypeOK'
    BY <2>1, <2>2, <2>4 DEF Latch!TypeOK
  <2> QED
    BY <1>0, <2>1, <2>3 DEF LatchedHasFault, ProofIsOfAnInstanceSeen,
       Latch!ProvedIsSound, PassesAreOlder
<1>14. CASE UNCHANGED Latch!vars
  BY <1>14 DEF Latch!vars, Latch!shared, Latch!TypeOK, LatchedHasFault,
     ProofIsOfAnInstanceSeen, Latch!ProvedIsSound, PassesAreOlder
<1> QED
  BY <1>1, <1>2, <1>3, <1>4, <1>5, <1>6, <1>7, <1>8, <1>9, <1>10, <1>11, <1>12, <1>13,
     <1>14 DEF Latch!Next, Latch!Pass

LEMMA LatchInvHolds ==
    ASSUME Latch!LatchAssumption PROVE Latch!Spec => []LatchInv
<1>1. ASSUME Latch!Init PROVE LatchInv
  <2>1. /\ l_run = 1 /\ l_latch = NoToken /\ l_proof = 0 /\ l_sound = FALSE
        /\ l_fault = [g \in Gateways |-> [gen |-> 0, latched |-> FALSE]]
        /\ l_pass = [g \in Gateways |-> Latch!Idle] /\ l_serving = [g \in Gateways |-> FALSE]
        /\ l_inflight = {} /\ l_faults = 0 /\ l_unseen = [g \in Gateways |-> TRUE]
    BY <1>1 DEF Latch!Init
  <2>2. 1 \in 1 .. MaxLosses + 1 /\ 0 \in 0 .. MaxLosses + 1 /\ 0 \in 0 .. MaxFaults
        /\ 0 \in 0 .. MaxGen
    BY DEF Latch!LatchAssumption
  <2>3. Latch!Idle \in LatchPasses
    BY <2>2 DEF Latch!Idle, LatchPasses
  <2>4. Latch!TypeOK
    BY <2>1, <2>2, <2>3 DEF Latch!TypeOK, LatchPasses
  <2>5. \A g \in Gateways : l_pass[g].pc = "idle" /\ l_fault[g].latched = FALSE
    BY <2>1 DEF Latch!Idle
  <2> QED
    BY <2>1, <2>4, <2>5 DEF LatchInv, LatchedHasFault, ProofIsOfAnInstanceSeen,
       Latch!ProvedIsSound, PassesAreOlder
<1> QED
  BY <1>1, LatchStep, PTL DEF Latch!Spec

\* Redis says "proved" of an instance only while it holds the marker and every
\* control of PostgreSQL, whatever was lost, restarted, cleared or answered late
\* (runtime_fault_clear_commit.lua).
THEOREM ProvedIsSoundTheorem ==
    ASSUME Latch!LatchAssumption
    PROVE  Latch!Spec => [](Latch!TypeOK /\ Latch!ProvedIsSound)
BY LatchInvHolds, PTL DEF LatchInv

\* A gateway that found a fault stays shut until a pass that began after the
\* fault has succeeded (deleteRuntimeInfrastructureFaultIfLocalGeneration).
THEOREM FaultOutlivesOlderPassTheorem ==
    ASSUME Latch!LatchAssumption
    PROVE  Latch!Spec => Latch!FaultOutlivesOlderPass
<1>1. ASSUME LatchInv, [Latch!Next]_(Latch!vars), NEW g \in Gateways,
             l_serving[g], l_serving'[g], l_fault[g].latched, ~l_fault'[g].latched
      PROVE  l_unseen[g]
  <2> USE <1>1 DEF LatchInv
  <2>1. \E h \in Gateways :
            \/ Latch!Pass(h) \/ Latch!PassFault(h) \/ Latch!PassFails(h)
            \/ Latch!Crash(h) \/ Latch!RequestFault(h) \/ Latch!Request(h)
    BY DEF Latch!Next, Latch!RunInflight, Latch!Restart, Latch!Flush, Latch!vars
  <2>2. PICK h \in Gateways :
            \/ Latch!Commit(h) \/ Latch!Delete(h) \/ Latch!PassFault(h)
            \/ Latch!Crash(h) \/ Latch!RequestFault(h) \/ Latch!Request(h)
    BY <2>1 DEF Latch!Pass, Latch!PassFails, Latch!BeginLocal, Latch!BeginRead,
       Latch!Reconcile
  <2>3. ASSUME Latch!EnsureFault(h) PROVE FALSE
    <3>1. CASE h = g
      BY <2>3, <3>1, EnsureFaultTypes
    <3>2. CASE h # g
      BY <2>3, <3>2, EnsureFaultTypes
    <3> QED
      BY <3>1, <3>2
  <2>4. ASSUME NEW left \in SUBSET (Latch!Tokens \cup {NoToken}), Latch!LatchFault(h, left)
        PROVE  FALSE
    <3>1. CASE h = g
      BY <2>4, <3>1, LatchFaultTypes
    <3>2. CASE h # g
      BY <2>4, <3>2, LatchFaultTypes
    <3> QED
      BY <3>1, <3>2
  <2>5. ~Latch!Request(h)
    BY <2>3 DEF Latch!Request
  <2>6. ~Latch!RequestFault(h)
    BY <2>4 DEF Latch!RequestFault, Latch!TypeOK
  <2>7. ~Latch!PassFault(h)
    BY <2>4 DEF Latch!PassFault, Latch!TypeOK
  <2>8. ~Latch!Commit(h)
    BY <2>3 DEF Latch!Commit
  <2>9. ~Latch!Crash(h)
    BY DEF Latch!Crash, Latch!TypeOK
  <2>10. Latch!Delete(h)
    BY <2>2, <2>5, <2>6, <2>7, <2>8, <2>9
  <2>11. /\ ~Latch!LocalFaultChanged(h) /\ l_pass[h].pc = "verified"
         /\ l_fault' = [l_fault EXCEPT ![h].latched = FALSE]
    BY <2>3, <2>10 DEF Latch!Delete
  <2>12. h = g
    BY <2>11 DEF Latch!TypeOK
  <2> QED
    BY <2>11, <2>12 DEF Latch!LocalFaultChanged, PassesAreOlder, Latch!TypeOK
<1>2. LatchInv /\ [Latch!Next]_(Latch!vars) =>
        [\A g \in Gateways :
            l_serving[g] /\ l_serving'[g] /\ l_fault[g].latched /\ ~l_fault'[g].latched
              => l_unseen[g]]_(Latch!vars)
  BY <1>1
<1> QED
  BY <1>2, LatchInvHolds, PTL DEF Latch!Spec, Latch!FaultOutlivesOlderPass

-----------------------------------------------------------------------------
(***************************************************************************)
(* The state epoch.                                                        *)
(***************************************************************************)
CONSTANTS Nobody, Foreign
VARIABLES e_row, e_op, e_marker, e_opKey, e_pc, e_seen, e_state, e_faults,
          e_losses

Epoch == INSTANCE StateEpoch WITH
    row <- e_row, op <- e_op, marker <- e_marker, opKey <- e_opKey, pc <- e_pc,
    seen <- e_seen, state <- e_state, faults <- e_faults, losses <- e_losses

\* A start-up in one of these steps acts on its copy of the operation.
CopySteps ==
    {"marker", "expect", "reload_expected", "prepare", "reload_ready", "prepared",
     "reload_prepared", "advance", "reload", "commit", "finalize"}

\* The row and its operation are of one transition, and end together.
RowAndOperation ==
    /\ e_row.state = "none" => e_row = Epoch!NoRow /\ e_op = Epoch!NoTransition
    /\ e_row.state # "none" =>
         e_op.by \in Gateways /\ e_row.epoch = e_op.by /\ e_op.state # "none"
    /\ e_row.state = "ready" <=> e_op.state = "committed"

\* The marker is ready, and of the epoch of the row.
Backed == e_marker.state = "ready" /\ e_marker.epoch = e_row.epoch

\* What each start-up may rely on where it is.
StartUpKnows(g) ==
    /\ e_pc[g] # "idle" => e_row.state # "none"
    /\ e_pc[g] \in {"reconcile", "integrity", "ready"} => e_op.state = "committed"
    /\ e_pc[g] = "row" => e_seen[g] = Epoch!NoTransition \/ e_seen[g].by = e_op.by
    /\ e_pc[g] \in CopySteps => e_seen[g].by = e_op.by
    /\ e_pc[g] \in {"commit", "finalize"} => e_op.state \in {"db_committed", "committed"}
    /\ e_pc[g] \in {"reload_ready", "finalize"} /\ e_losses = 0 => Backed

EpochInv ==
    /\ Epoch!TypeOK /\ RowAndOperation
    /\ Epoch!MarkerSpeaksForTheRow /\ Epoch!ReadyRowIsBacked
    /\ \A g \in Gateways : StartUpKnows(g)

\* What a step leaves standing of what the start-ups rely on.
GoesForward ==
    /\ e_row.state # "none" =>
         /\ e_row'.state # "none" /\ e_op'.by = e_op.by
         /\ e_op.state = "committed" => e_op'.state = "committed"
         /\ e_op.state = "db_committed" => e_op'.state \in {"db_committed", "committed"}
    /\ e_losses' = 0 => e_losses = 0 /\ (e_row.state # "none" /\ Backed => Backed')

\* The step of one start-up: the others rely on no more than they did.
LEMMA EpochStepOf ==
    ASSUME EpochInv, NEW g \in Gateways, Epoch!TypeOK', RowAndOperation',
           Epoch!MarkerSpeaksForTheRow', Epoch!ReadyRowIsBacked', GoesForward,
           StartUpKnows(g)',
           \A h \in Gateways \ {g} : e_pc'[h] = e_pc[h] /\ e_seen'[h] = e_seen[h]
    PROVE  EpochInv'
<1> SUFFICES ASSUME NEW h \in Gateways, h # g PROVE StartUpKnows(h)'
  BY DEF EpochInv
<1>1. e_pc'[h] = e_pc[h] /\ e_seen'[h] = e_seen[h] /\ StartUpKnows(h)
  BY DEF EpochInv
<1> QED
  BY <1>1 DEF StartUpKnows, GoesForward, CopySteps

\* A step that changes neither the row, the operation nor the marker.
LEMMA EpochReads ==
    ASSUME EpochInv, NEW g \in Gateways, Epoch!TypeOK', StartUpKnows(g)',
           UNCHANGED <<e_row, e_op, e_marker, e_losses>>,
           \A h \in Gateways \ {g} : e_pc'[h] = e_pc[h] /\ e_seen'[h] = e_seen[h]
    PROVE  EpochInv'
<1>1. RowAndOperation' /\ Epoch!MarkerSpeaksForTheRow' /\ Epoch!ReadyRowIsBacked'
  BY DEF EpochInv, RowAndOperation, Epoch!MarkerSpeaksForTheRow,
     Epoch!ReadyRowIsBacked, Epoch!NoRow, Epoch!NoTransition
<1>2. GoesForward
  BY DEF GoesForward, Backed
<1> QED
  BY <1>1, <1>2, EpochStepOf

LEMMA EpochStep ==
    ASSUME Epoch!EpochAssumption, EpochInv, [Epoch!Next]_(Epoch!vars)
    PROVE  EpochInv'
<1> USE DEF Epoch!Goto, Epoch!Hold, Epoch!durable, Epoch!redis, Epoch!locals, Epoch!bounds,
       Epoch!Steps, Epoch!Transitions, Epoch!OpStates, Epoch!Owners
<1>0. /\ Epoch!TypeOK /\ RowAndOperation /\ Epoch!MarkerSpeaksForTheRow
      /\ Epoch!ReadyRowIsBacked
      /\ Nobody \notin Gateways /\ Foreign \notin Gateways /\ Nobody # Foreign
      /\ MaxFaults \in Nat /\ MaxLosses \in Nat
  BY DEF EpochInv, Epoch!EpochAssumption
<1>1. ASSUME NEW g \in Gateways, Epoch!Create(g) PROVE EpochInv'
  <2>0. StartUpKnows(g)
    BY DEF EpochInv
  <2>1. /\ e_pc[g] = "idle" /\ e_pc' = [e_pc EXCEPT ![g] = "row"]
        /\ \/ /\ e_row = Epoch!NoRow
              /\ e_row' = [state |-> "recovering", epoch |-> g]
              /\ e_op' = [by |-> g, state |-> "preparing", expected |-> "null"]
              /\ e_seen' = [e_seen EXCEPT ![g] = e_op']
           \/ /\ e_row # Epoch!NoRow /\ UNCHANGED <<e_row, e_op>>
              /\ e_seen' = [e_seen EXCEPT ![g] = Epoch!NoTransition]
        /\ UNCHANGED <<e_marker, e_opKey, e_state, e_faults, e_losses>>
    BY <1>1 DEF Epoch!Create, Epoch!Inserts
  <2>2. Epoch!TypeOK'
    BY <1>0, <2>0, <2>1 DEF Epoch!TypeOK, RowAndOperation, StartUpKnows, CopySteps,
       Epoch!NoTransition
  <2>3. RowAndOperation' /\ GoesForward
    BY <1>0, <2>0, <2>1 DEF RowAndOperation, GoesForward, Backed, StartUpKnows,
       CopySteps, Epoch!TypeOK, Epoch!NoRow, Epoch!NoTransition
  <2>4. Epoch!MarkerSpeaksForTheRow' /\ Epoch!ReadyRowIsBacked'
    BY <1>0, <2>0, <2>1 DEF RowAndOperation, Epoch!MarkerSpeaksForTheRow,
       Epoch!ReadyRowIsBacked, Backed, StartUpKnows, CopySteps, Epoch!TypeOK,
       Epoch!NoRow, Epoch!NoTransition
  <2>5. StartUpKnows(g)'
    BY <1>0, <2>0, <2>1 DEF StartUpKnows, Epoch!TypeOK, CopySteps, RowAndOperation,
       Backed, Epoch!NoTransition
  <2>6. \A h \in Gateways \ {g} : e_pc'[h] = e_pc[h] /\ e_seen'[h] = e_seen[h]
    BY <1>0, <2>1 DEF Epoch!TypeOK
  <2> QED
    BY <2>2, <2>3, <2>4, <2>5, <2>6, EpochStepOf
<1>2. ASSUME NEW g \in Gateways, Epoch!ReadRow(g) PROVE EpochInv'
  <2>0. StartUpKnows(g)
    BY DEF EpochInv
  <2>1. /\ e_pc[g] = "row"
        /\ e_pc' = [e_pc EXCEPT ![g] = IF e_seen[g] = Epoch!NoTransition
                                       THEN "op" ELSE "marker"]
        /\ e_state' = [e_state EXCEPT ![g] = e_row.state]
        /\ UNCHANGED <<e_row, e_op, e_marker, e_opKey, e_seen, e_faults, e_losses>>
    BY <1>2 DEF Epoch!ReadRow
  <2>2. Epoch!TypeOK'
    BY <1>0, <2>0, <2>1 DEF Epoch!TypeOK, RowAndOperation, StartUpKnows, CopySteps,
       Epoch!NoTransition
  <2>3. StartUpKnows(g)'
    BY <1>0, <2>0, <2>1 DEF StartUpKnows, Epoch!TypeOK, CopySteps, RowAndOperation,
       Backed, Epoch!NoTransition
  <2>4. \A h \in Gateways \ {g} : e_pc'[h] = e_pc[h] /\ e_seen'[h] = e_seen[h]
    BY <1>0, <2>1 DEF Epoch!TypeOK
  <2> QED
    BY <2>1, <2>2, <2>3, <2>4, EpochReads
<1>3. ASSUME NEW g \in Gateways, Epoch!ReadOperation(g) PROVE EpochInv'
  <2>0. StartUpKnows(g)
    BY DEF EpochInv
  <2>1. /\ e_pc[g] = "op"
        /\ \/ /\ e_op.state = "committed" /\ e_seen' = e_seen
              /\ e_pc' = [e_pc EXCEPT ![g] = IF e_state[g] = "ready" THEN "reconcile" ELSE "failed"]
           \/ /\ e_op.state # "committed" /\ e_seen' = [e_seen EXCEPT ![g] = e_op]
              /\ e_pc' = [e_pc EXCEPT ![g] = "marker"]
        /\ UNCHANGED <<e_row, e_op, e_marker, e_opKey, e_state, e_faults, e_losses>>
    BY <1>3 DEF Epoch!ReadOperation
  <2>2. Epoch!TypeOK'
    BY <1>0, <2>0, <2>1 DEF Epoch!TypeOK, RowAndOperation, StartUpKnows, CopySteps,
       Epoch!NoTransition
  <2>3. StartUpKnows(g)'
    BY <1>0, <2>0, <2>1 DEF StartUpKnows, Epoch!TypeOK, CopySteps, RowAndOperation,
       Backed, Epoch!NoTransition
  <2>4. \A h \in Gateways \ {g} : e_pc'[h] = e_pc[h] /\ e_seen'[h] = e_seen[h]
    BY <1>0, <2>1 DEF Epoch!TypeOK
  <2> QED
    BY <2>1, <2>2, <2>3, <2>4, EpochReads
<1>4. ASSUME NEW g \in Gateways, Epoch!SetExpected(g) PROVE EpochInv'
  <2>0. StartUpKnows(g)
    BY DEF EpochInv
  <2>1. /\ e_pc[g] = "expect"
        /\ \/ /\ e_op' = [e_op EXCEPT !.expected = "absent"] /\ e_op.state # "committed"
              /\ e_seen' = [e_seen EXCEPT ![g].expected = "absent"]
              /\ e_pc' = [e_pc EXCEPT ![g] = "prepare"]
           \/ /\ e_pc' = [e_pc EXCEPT ![g] = "reload_expected"] /\ UNCHANGED <<e_op, e_seen>>
        /\ UNCHANGED <<e_row, e_marker, e_opKey, e_state, e_faults, e_losses>>
    BY <1>4 DEF Epoch!SetExpected
  <2>2. Epoch!TypeOK'
    BY <1>0, <2>0, <2>1 DEF Epoch!TypeOK, RowAndOperation, StartUpKnows, CopySteps
  <2>3. RowAndOperation' /\ GoesForward
    BY <1>0, <2>0, <2>1 DEF RowAndOperation, GoesForward, Backed, StartUpKnows,
       CopySteps, Epoch!TypeOK, Epoch!NoRow, Epoch!NoTransition
  <2>4. Epoch!MarkerSpeaksForTheRow' /\ Epoch!ReadyRowIsBacked'
    BY <1>0, <2>0, <2>1 DEF RowAndOperation, Epoch!MarkerSpeaksForTheRow,
       Epoch!ReadyRowIsBacked, Backed, StartUpKnows, CopySteps, Epoch!TypeOK,
       Epoch!NoRow
  <2>5. StartUpKnows(g)'
    BY <1>0, <2>0, <2>1 DEF StartUpKnows, Epoch!TypeOK, CopySteps, RowAndOperation,
       Backed
  <2>6. \A h \in Gateways \ {g} : e_pc'[h] = e_pc[h] /\ e_seen'[h] = e_seen[h]
    BY <1>0, <2>1 DEF Epoch!TypeOK
  <2> QED
    BY <2>2, <2>3, <2>4, <2>5, <2>6, EpochStepOf
<1>5. ASSUME NEW g \in Gateways, Epoch!ReloadExpected(g) PROVE EpochInv'
  <2>0. StartUpKnows(g)
    BY DEF EpochInv
  <2>1. /\ e_pc[g] = "reload_expected"
        /\ \/ e_seen' = [e_seen EXCEPT ![g] = e_op] /\ e_pc' = [e_pc EXCEPT ![g] = "prepare"]
           \/ e_pc' = [e_pc EXCEPT ![g] = "failed"] /\ e_seen' = e_seen
        /\ UNCHANGED <<e_row, e_op, e_marker, e_opKey, e_state, e_faults, e_losses>>
    BY <1>5 DEF Epoch!ReloadExpected
  <2>2. Epoch!TypeOK'
    BY <1>0, <2>0, <2>1 DEF Epoch!TypeOK, RowAndOperation, StartUpKnows, CopySteps
  <2>3. StartUpKnows(g)'
    BY <1>0, <2>0, <2>1 DEF StartUpKnows, Epoch!TypeOK, CopySteps, RowAndOperation,
       Backed
  <2>4. \A h \in Gateways \ {g} : e_pc'[h] = e_pc[h] /\ e_seen'[h] = e_seen[h]
    BY <1>0, <2>1 DEF Epoch!TypeOK
  <2> QED
    BY <2>1, <2>2, <2>3, <2>4, EpochReads
<1>6. ASSUME NEW g \in Gateways, Epoch!ReadMarker(g) PROVE EpochInv'
  <2>0. StartUpKnows(g)
    BY DEF EpochInv
  <2>1. /\ e_pc[g] = "marker"
        /\ e_pc' \in {[e_pc EXCEPT ![g] = to] : to \in {"prepare", "expect", "failed"}}
        /\ UNCHANGED <<e_row, e_op, e_marker, e_opKey, e_seen, e_state, e_faults, e_losses>>
    BY <1>6 DEF Epoch!ReadMarker, Epoch!Classified
  <2>2. Epoch!TypeOK'
    BY <1>0, <2>0, <2>1 DEF Epoch!TypeOK, RowAndOperation, StartUpKnows, CopySteps
  <2>3. StartUpKnows(g)'
    BY <1>0, <2>0, <2>1 DEF StartUpKnows, Epoch!TypeOK, CopySteps, RowAndOperation,
       Backed
  <2>4. \A h \in Gateways \ {g} : e_pc'[h] = e_pc[h] /\ e_seen'[h] = e_seen[h]
    BY <1>0, <2>1 DEF Epoch!TypeOK
  <2> QED
    BY <2>1, <2>2, <2>3, <2>4, EpochReads
<1>7. ASSUME NEW g \in Gateways, Epoch!Reload(g) PROVE EpochInv'
  <2>0. StartUpKnows(g)
    BY DEF EpochInv
  <2>1. /\ e_pc[g] = "reload" /\ e_seen' = [e_seen EXCEPT ![g] = e_op]
        /\ e_pc' = [e_pc EXCEPT ![g] = CASE e_op.state = "committed" -> "ready"
                                         [] e_op.state = "db_committed" -> "commit"
                                         [] OTHER -> "failed"]
        /\ UNCHANGED <<e_row, e_op, e_marker, e_opKey, e_state, e_faults, e_losses>>
    BY <1>7 DEF Epoch!Reload
  <2>2. Epoch!TypeOK'
    BY <1>0, <2>0, <2>1 DEF Epoch!TypeOK, RowAndOperation, StartUpKnows, CopySteps
  <2>3. StartUpKnows(g)'
    BY <1>0, <2>0, <2>1 DEF StartUpKnows, Epoch!TypeOK, CopySteps, RowAndOperation,
       Backed
  <2>4. \A h \in Gateways \ {g} : e_pc'[h] = e_pc[h] /\ e_seen'[h] = e_seen[h]
    BY <1>0, <2>1 DEF Epoch!TypeOK
  <2> QED
    BY <2>1, <2>2, <2>3, <2>4, EpochReads
<1>8. ASSUME NEW g \in Gateways, Epoch!ReloadReady(g) PROVE EpochInv'
  <2>0. StartUpKnows(g)
    BY DEF EpochInv
  <2>1. /\ e_pc[g] = "reload_ready" /\ e_seen' = [e_seen EXCEPT ![g] = e_op]
        /\ e_pc' = [e_pc EXCEPT ![g] = IF e_op.state \in {"db_committed", "committed"}
                                       THEN "finalize" ELSE "failed"]
        /\ UNCHANGED <<e_row, e_op, e_marker, e_opKey, e_state, e_faults, e_losses>>
    BY <1>8 DEF Epoch!ReloadReady
  <2>2. Epoch!TypeOK'
    BY <1>0, <2>0, <2>1 DEF Epoch!TypeOK, RowAndOperation, StartUpKnows, CopySteps
  <2>3. StartUpKnows(g)'
    BY <1>0, <2>0, <2>1 DEF StartUpKnows, Epoch!TypeOK, CopySteps, RowAndOperation,
       Backed
  <2>4. \A h \in Gateways \ {g} : e_pc'[h] = e_pc[h] /\ e_seen'[h] = e_seen[h]
    BY <1>0, <2>1 DEF Epoch!TypeOK
  <2> QED
    BY <2>1, <2>2, <2>3, <2>4, EpochReads
<1>9. ASSUME NEW g \in Gateways, Epoch!ReloadPrepared(g) PROVE EpochInv'
  <2>0. StartUpKnows(g)
    BY DEF EpochInv
  <2>1. /\ e_pc[g] = "reload_prepared" /\ e_seen' = [e_seen EXCEPT ![g] = e_op]
        /\ e_pc' \in {[e_pc EXCEPT ![g] = to] : to \in {"advance", "reload", "failed"}}
        /\ UNCHANGED <<e_row, e_op, e_marker, e_opKey, e_state, e_faults, e_losses>>
    BY <1>9 DEF Epoch!ReloadPrepared
  <2>2. Epoch!TypeOK'
    BY <1>0, <2>0, <2>1 DEF Epoch!TypeOK, RowAndOperation, StartUpKnows, CopySteps
  <2>3. StartUpKnows(g)'
    BY <1>0, <2>0, <2>1 DEF StartUpKnows, Epoch!TypeOK, CopySteps, RowAndOperation,
       Backed
  <2>4. \A h \in Gateways \ {g} : e_pc'[h] = e_pc[h] /\ e_seen'[h] = e_seen[h]
    BY <1>0, <2>1 DEF Epoch!TypeOK
  <2> QED
    BY <2>1, <2>2, <2>3, <2>4, EpochReads
<1>10. ASSUME NEW g \in Gateways, Epoch!MarkPrepared(g) PROVE EpochInv'
  <2>0. StartUpKnows(g)
    BY DEF EpochInv
  <2>1. /\ e_pc[g] = "prepared"
        /\ \/ /\ e_op.state = "preparing" /\ e_op' = [e_op EXCEPT !.state = "prepared"]
              /\ e_seen' = [e_seen EXCEPT ![g].state = "prepared"]
              /\ e_pc' = [e_pc EXCEPT ![g] = "advance"]
           \/ /\ e_pc' = [e_pc EXCEPT ![g] = "reload_prepared"] /\ UNCHANGED <<e_op, e_seen>>
        /\ UNCHANGED <<e_row, e_marker, e_opKey, e_state, e_faults, e_losses>>
    BY <1>10 DEF Epoch!MarkPrepared
  <2>2. Epoch!TypeOK'
    BY <1>0, <2>0, <2>1 DEF Epoch!TypeOK, RowAndOperation, StartUpKnows, CopySteps
  <2>3. RowAndOperation' /\ GoesForward
    BY <1>0, <2>0, <2>1 DEF RowAndOperation, GoesForward, Backed, StartUpKnows,
       CopySteps, Epoch!TypeOK, Epoch!NoRow, Epoch!NoTransition
  <2>4. Epoch!MarkerSpeaksForTheRow' /\ Epoch!ReadyRowIsBacked'
    BY <1>0, <2>0, <2>1 DEF RowAndOperation, Epoch!MarkerSpeaksForTheRow,
       Epoch!ReadyRowIsBacked, Backed, StartUpKnows, CopySteps, Epoch!TypeOK,
       Epoch!NoRow
  <2>5. StartUpKnows(g)'
    BY <1>0, <2>0, <2>1 DEF StartUpKnows, Epoch!TypeOK, CopySteps, RowAndOperation,
       Backed
  <2>6. \A h \in Gateways \ {g} : e_pc'[h] = e_pc[h] /\ e_seen'[h] = e_seen[h]
    BY <1>0, <2>1 DEF Epoch!TypeOK
  <2> QED
    BY <2>2, <2>3, <2>4, <2>5, <2>6, EpochStepOf
<1>11. ASSUME NEW g \in Gateways, Epoch!Advance(g) PROVE EpochInv'
  <2>0. StartUpKnows(g)
    BY DEF EpochInv
  <2>1. /\ e_pc[g] = "advance"
        /\ \/ /\ e_op.state = "prepared" /\ e_op' = [e_op EXCEPT !.state = "db_committed"]
              /\ e_pc' = [e_pc EXCEPT ![g] = "reload"]
           \/ /\ e_pc' \in {[e_pc EXCEPT ![g] = to] : to \in {"reload", "failed"}}
              /\ e_op' = e_op
        /\ UNCHANGED <<e_row, e_marker, e_opKey, e_seen, e_state, e_faults, e_losses>>
    BY <1>11 DEF Epoch!Advance
  <2>2. Epoch!TypeOK'
    BY <1>0, <2>0, <2>1 DEF Epoch!TypeOK, RowAndOperation, StartUpKnows, CopySteps
  <2>3. RowAndOperation' /\ GoesForward
    BY <1>0, <2>0, <2>1 DEF RowAndOperation, GoesForward, Backed, StartUpKnows,
       CopySteps, Epoch!TypeOK, Epoch!NoRow, Epoch!NoTransition
  <2>4. Epoch!MarkerSpeaksForTheRow' /\ Epoch!ReadyRowIsBacked'
    BY <1>0, <2>0, <2>1 DEF RowAndOperation, Epoch!MarkerSpeaksForTheRow,
       Epoch!ReadyRowIsBacked, Backed, StartUpKnows, CopySteps, Epoch!TypeOK,
       Epoch!NoRow
  <2>5. StartUpKnows(g)'
    BY <1>0, <2>0, <2>1 DEF StartUpKnows, Epoch!TypeOK, CopySteps, RowAndOperation,
       Backed
  <2>6. \A h \in Gateways \ {g} : e_pc'[h] = e_pc[h] /\ e_seen'[h] = e_seen[h]
    BY <1>0, <2>1 DEF Epoch!TypeOK
  <2> QED
    BY <2>2, <2>3, <2>4, <2>5, <2>6, EpochStepOf
<1>12. ASSUME NEW g \in Gateways, Epoch!Finalize(g) PROVE EpochInv'
  <2>0. StartUpKnows(g)
    BY DEF EpochInv
  <2>1. /\ e_pc[g] = "finalize"
        /\ \/ /\ e_op.state = "committed" /\ e_pc' = [e_pc EXCEPT ![g] = "ready"]
              /\ UNCHANGED <<e_row, e_op>>
           \/ /\ e_op.state = "db_committed" /\ e_row.state = "recovering"
              /\ e_row' = [e_row EXCEPT !.state = "ready"]
              /\ e_op' = [e_op EXCEPT !.state = "committed"]
              /\ e_pc' = [e_pc EXCEPT ![g] = "ready"]
           \/ /\ e_pc' = [e_pc EXCEPT ![g] = "failed"] /\ UNCHANGED <<e_row, e_op>>
        /\ UNCHANGED <<e_marker, e_opKey, e_seen, e_state, e_faults, e_losses>>
    BY <1>12 DEF Epoch!Finalize
  <2>2. Epoch!TypeOK'
    BY <1>0, <2>0, <2>1 DEF Epoch!TypeOK, RowAndOperation, StartUpKnows, CopySteps
  <2>3. RowAndOperation' /\ GoesForward
    BY <1>0, <2>0, <2>1 DEF RowAndOperation, GoesForward, Backed, StartUpKnows,
       CopySteps, Epoch!TypeOK, Epoch!NoRow, Epoch!NoTransition
  <2>4. Epoch!MarkerSpeaksForTheRow' /\ Epoch!ReadyRowIsBacked'
    BY <1>0, <2>0, <2>1 DEF RowAndOperation, Epoch!MarkerSpeaksForTheRow,
       Epoch!ReadyRowIsBacked, Backed, StartUpKnows, CopySteps, Epoch!TypeOK,
       Epoch!NoRow
  <2>5. StartUpKnows(g)'
    BY <1>0, <2>0, <2>1 DEF StartUpKnows, Epoch!TypeOK, CopySteps, RowAndOperation,
       Backed
  <2>6. \A h \in Gateways \ {g} : e_pc'[h] = e_pc[h] /\ e_seen'[h] = e_seen[h]
    BY <1>0, <2>1 DEF Epoch!TypeOK
  <2> QED
    BY <2>2, <2>3, <2>4, <2>5, <2>6, EpochStepOf
<1>13. ASSUME NEW g \in Gateways, Epoch!Prepare(g) PROVE EpochInv'
  <2>0. StartUpKnows(g)
    BY DEF EpochInv
  <2>1. /\ e_pc[g] = "prepare"
        /\ \/ /\ e_marker \in {Epoch!NoMarker, Epoch!Pending(e_seen[g])}
              /\ e_marker' = Epoch!Pending(e_seen[g]) /\ e_opKey' = "pending"
              /\ e_pc' \in {[e_pc EXCEPT ![g] = to] : to \in {"prepared", "advance", "reload"}}
           \/ /\ e_marker = Epoch!ReadyBy(e_seen[g]) /\ e_marker' = e_marker
              /\ e_opKey' = "committed" /\ e_pc' = [e_pc EXCEPT ![g] = "reload_ready"]
           \/ /\ e_pc' = [e_pc EXCEPT ![g] = "failed"] /\ UNCHANGED <<e_marker, e_opKey>>
        /\ UNCHANGED <<e_row, e_op, e_seen, e_state, e_faults, e_losses>>
    BY <1>13 DEF Epoch!Prepare, Epoch!Prepares, Epoch!FindsReady
  <2>2. Epoch!TypeOK'
    BY <1>0, <2>0, <2>1 DEF Epoch!TypeOK, RowAndOperation, StartUpKnows, CopySteps,
       Epoch!Pending, Epoch!ReadyBy, Epoch!NoMarker
  <2>3. RowAndOperation' /\ GoesForward
    BY <1>0, <2>0, <2>1 DEF RowAndOperation, GoesForward, Backed, StartUpKnows,
       CopySteps, Epoch!TypeOK, Epoch!NoRow, Epoch!NoTransition, Epoch!Pending,
       Epoch!ReadyBy, Epoch!NoMarker
  <2>4. Epoch!MarkerSpeaksForTheRow' /\ Epoch!ReadyRowIsBacked'
    BY <1>0, <2>0, <2>1 DEF RowAndOperation, Epoch!MarkerSpeaksForTheRow,
       Epoch!ReadyRowIsBacked, Backed, StartUpKnows, CopySteps, Epoch!TypeOK,
       Epoch!NoRow, Epoch!Pending, Epoch!ReadyBy, Epoch!NoMarker
  <2>5. StartUpKnows(g)'
    BY <1>0, <2>0, <2>1 DEF StartUpKnows, Epoch!TypeOK, CopySteps, RowAndOperation,
       Backed, Epoch!Pending, Epoch!ReadyBy, Epoch!NoMarker
  <2>6. \A h \in Gateways \ {g} : e_pc'[h] = e_pc[h] /\ e_seen'[h] = e_seen[h]
    BY <1>0, <2>1 DEF Epoch!TypeOK
  <2> QED
    BY <2>2, <2>3, <2>4, <2>5, <2>6, EpochStepOf
<1>14. ASSUME NEW g \in Gateways, Epoch!Commit(g) PROVE EpochInv'
  <2>0. StartUpKnows(g)
    BY DEF EpochInv
  <2>1. /\ e_pc[g] = "commit"
        /\ \/ /\ e_marker = Epoch!Pending(e_seen[g]) /\ e_marker' = Epoch!ReadyBy(e_seen[g])
              /\ e_opKey' = "committed" /\ e_pc' = [e_pc EXCEPT ![g] = "finalize"]
           \/ /\ e_marker = Epoch!ReadyBy(e_seen[g]) /\ e_pc' = [e_pc EXCEPT ![g] = "finalize"]
              /\ UNCHANGED <<e_marker, e_opKey>>
           \/ /\ e_pc' = [e_pc EXCEPT ![g] = "failed"] /\ UNCHANGED <<e_marker, e_opKey>>
        /\ UNCHANGED <<e_row, e_op, e_seen, e_state, e_faults, e_losses>>
    BY <1>14 DEF Epoch!Commit
  <2>2. Epoch!TypeOK'
    BY <1>0, <2>0, <2>1 DEF Epoch!TypeOK, RowAndOperation, StartUpKnows, CopySteps,
       Epoch!Pending, Epoch!ReadyBy, Epoch!NoMarker
  <2>3. RowAndOperation' /\ GoesForward
    BY <1>0, <2>0, <2>1 DEF RowAndOperation, GoesForward, Backed, StartUpKnows,
       CopySteps, Epoch!TypeOK, Epoch!NoRow, Epoch!NoTransition, Epoch!Pending,
       Epoch!ReadyBy, Epoch!NoMarker
  <2>4. Epoch!MarkerSpeaksForTheRow' /\ Epoch!ReadyRowIsBacked'
    BY <1>0, <2>0, <2>1 DEF RowAndOperation, Epoch!MarkerSpeaksForTheRow,
       Epoch!ReadyRowIsBacked, Backed, StartUpKnows, CopySteps, Epoch!TypeOK,
       Epoch!NoRow, Epoch!Pending, Epoch!ReadyBy, Epoch!NoMarker
  <2>5. StartUpKnows(g)'
    BY <1>0, <2>0, <2>1 DEF StartUpKnows, Epoch!TypeOK, CopySteps, RowAndOperation,
       Backed, Epoch!Pending, Epoch!ReadyBy, Epoch!NoMarker
  <2>6. \A h \in Gateways \ {g} : e_pc'[h] = e_pc[h] /\ e_seen'[h] = e_seen[h]
    BY <1>0, <2>1 DEF Epoch!TypeOK
  <2> QED
    BY <2>2, <2>3, <2>4, <2>5, <2>6, EpochStepOf
<1>15. ASSUME NEW g \in Gateways, Epoch!ReconcileReady(g) PROVE EpochInv'
  <2>0. StartUpKnows(g)
    BY DEF EpochInv
  <2>1. /\ e_pc[g] = "reconcile" /\ e_pc' = [e_pc EXCEPT ![g] = "integrity"]
        /\ \/ Backed /\ e_marker' = e_marker
           \/ e_marker' = [state |-> "ready", epoch |-> e_row.epoch, by |-> Nobody]
        /\ UNCHANGED <<e_row, e_op, e_opKey, e_seen, e_state, e_faults, e_losses>>
    BY <1>15 DEF Epoch!ReconcileReady, Backed
  <2>2. Epoch!TypeOK'
    BY <1>0, <2>0, <2>1 DEF Epoch!TypeOK, RowAndOperation, StartUpKnows, CopySteps
  <2>3. RowAndOperation' /\ GoesForward
    BY <1>0, <2>0, <2>1 DEF RowAndOperation, GoesForward, Backed, StartUpKnows,
       CopySteps, Epoch!TypeOK, Epoch!NoRow, Epoch!NoTransition
  <2>4. Epoch!MarkerSpeaksForTheRow' /\ Epoch!ReadyRowIsBacked'
    BY <1>0, <2>0, <2>1 DEF RowAndOperation, Epoch!MarkerSpeaksForTheRow,
       Epoch!ReadyRowIsBacked, Backed, StartUpKnows, CopySteps, Epoch!TypeOK,
       Epoch!NoRow
  <2>5. StartUpKnows(g)'
    BY <1>0, <2>0, <2>1 DEF StartUpKnows, Epoch!TypeOK, CopySteps, RowAndOperation,
       Backed
  <2>6. \A h \in Gateways \ {g} : e_pc'[h] = e_pc[h] /\ e_seen'[h] = e_seen[h]
    BY <1>0, <2>1 DEF Epoch!TypeOK
  <2> QED
    BY <2>2, <2>3, <2>4, <2>5, <2>6, EpochStepOf
<1>16. ASSUME NEW g \in Gateways, Epoch!StateIntegrity(g) PROVE EpochInv'
  <2>0. StartUpKnows(g)
    BY DEF EpochInv
  <2>1. /\ e_pc[g] = "integrity"
        /\ e_pc' \in {[e_pc EXCEPT ![g] = to] : to \in {"ready", "not_ready"}}
        /\ UNCHANGED <<e_row, e_op, e_marker, e_opKey, e_seen, e_state, e_faults, e_losses>>
    BY <1>16 DEF Epoch!StateIntegrity
  <2>2. Epoch!TypeOK'
    BY <1>0, <2>0, <2>1 DEF Epoch!TypeOK, RowAndOperation, StartUpKnows, CopySteps
  <2>3. StartUpKnows(g)'
    BY <1>0, <2>0, <2>1 DEF StartUpKnows, Epoch!TypeOK, CopySteps, RowAndOperation,
       Backed
  <2>4. \A h \in Gateways \ {g} : e_pc'[h] = e_pc[h] /\ e_seen'[h] = e_seen[h]
    BY <1>0, <2>1 DEF Epoch!TypeOK
  <2> QED
    BY <2>1, <2>2, <2>3, <2>4, EpochReads
<1>17. ASSUME NEW g \in Gateways, Epoch!StartFails(g) PROVE EpochInv'
  <2>0. StartUpKnows(g)
    BY DEF EpochInv
  <2>1. /\ e_faults < MaxFaults /\ e_faults' = e_faults + 1
        /\ e_pc[g] \in Epoch!Steps /\ e_pc' = [e_pc EXCEPT ![g] = "failed"]
        /\ UNCHANGED <<e_row, e_op, e_marker, e_opKey, e_seen, e_state, e_losses>>
    BY <1>17 DEF Epoch!StartFails
  <2>2. Epoch!TypeOK'
    BY <1>0, <2>0, <2>1 DEF Epoch!TypeOK, RowAndOperation, StartUpKnows, CopySteps,
       Epoch!Steps
  <2>3. StartUpKnows(g)'
    BY <1>0, <2>0, <2>1 DEF StartUpKnows, Epoch!TypeOK, CopySteps, RowAndOperation,
       Backed, Epoch!Steps
  <2>4. \A h \in Gateways \ {g} : e_pc'[h] = e_pc[h] /\ e_seen'[h] = e_seen[h]
    BY <1>0, <2>1 DEF Epoch!TypeOK
  <2> QED
    BY <2>1, <2>2, <2>3, <2>4, EpochReads
<1>18. ASSUME NEW g \in Gateways, Epoch!Restart(g) PROVE EpochInv'
  <2>0. StartUpKnows(g)
    BY DEF EpochInv
  <2>1. /\ e_pc' = [e_pc EXCEPT ![g] = "idle"]
        /\ e_seen' = [e_seen EXCEPT ![g] = Epoch!NoTransition]
        /\ e_state' = [e_state EXCEPT ![g] = "none"]
        /\ UNCHANGED <<e_row, e_op, e_marker, e_opKey, e_faults, e_losses>>
    BY <1>18 DEF Epoch!Restart
  <2>2. Epoch!TypeOK'
    BY <1>0, <2>0, <2>1 DEF Epoch!TypeOK, RowAndOperation, StartUpKnows, CopySteps,
       Epoch!NoTransition
  <2>3. StartUpKnows(g)'
    BY <1>0, <2>0, <2>1 DEF StartUpKnows, Epoch!TypeOK, CopySteps, RowAndOperation,
       Backed, Epoch!NoTransition
  <2>4. \A h \in Gateways \ {g} : e_pc'[h] = e_pc[h] /\ e_seen'[h] = e_seen[h]
    BY <1>0, <2>1 DEF Epoch!TypeOK
  <2> QED
    BY <2>1, <2>2, <2>3, <2>4, EpochReads
<1>19. CASE Epoch!RedisLost
  <2>1. /\ e_losses < MaxLosses /\ e_losses' = e_losses + 1 /\ e_opKey' = "absent"
        /\ e_marker' \in {Epoch!NoMarker, [state |-> "ready", epoch |-> Foreign, by |-> Foreign]}
        /\ UNCHANGED <<e_row, e_op, e_pc, e_seen, e_state, e_faults>>
    BY <1>19 DEF Epoch!RedisLost
  <2>2. Epoch!TypeOK' /\ e_losses' # 0
    BY <1>0, <2>1 DEF Epoch!TypeOK, Epoch!Owners, Epoch!NoMarker
  <2>3. RowAndOperation' /\ Epoch!MarkerSpeaksForTheRow' /\ Epoch!ReadyRowIsBacked'
    BY <1>0, <2>1, <2>2 DEF RowAndOperation, Epoch!MarkerSpeaksForTheRow,
       Epoch!ReadyRowIsBacked, Epoch!NoMarker, Epoch!NoRow, Epoch!NoTransition
  <2>4. ASSUME NEW g \in Gateways PROVE StartUpKnows(g)'
    <3>1. StartUpKnows(g)
      BY DEF EpochInv
    <3> QED
      BY <2>1, <2>2, <3>1 DEF StartUpKnows, Epoch!NoTransition
  <2> QED
    BY <2>2, <2>3, <2>4 DEF EpochInv
<1>20. CASE Epoch!OpKeyExpires \/ UNCHANGED Epoch!vars
  <2>1. /\ UNCHANGED <<e_row, e_op, e_marker, e_pc, e_seen, e_state, e_faults, e_losses>>
        /\ e_opKey' \in {e_opKey, "absent"}
    BY <1>20 DEF Epoch!OpKeyExpires, Epoch!vars
  <2>2. Epoch!TypeOK'
    BY <1>0, <2>1 DEF Epoch!TypeOK, Epoch!NoTransition
  <2>3. RowAndOperation' /\ Epoch!MarkerSpeaksForTheRow' /\ Epoch!ReadyRowIsBacked'
    BY <1>0, <2>1 DEF RowAndOperation, Epoch!MarkerSpeaksForTheRow,
       Epoch!ReadyRowIsBacked, Epoch!NoRow, Epoch!NoTransition
  <2>4. ASSUME NEW g \in Gateways PROVE StartUpKnows(g)'
    <3>1. StartUpKnows(g)
      BY DEF EpochInv
    <3> QED
      BY <2>1, <3>1 DEF StartUpKnows, Backed, Epoch!NoTransition
  <2> QED
    BY <2>2, <2>3, <2>4 DEF EpochInv
<1> QED
  BY <1>1, <1>2, <1>3, <1>4, <1>5, <1>6, <1>7, <1>8, <1>9, <1>10, <1>11, <1>12, <1>13,
     <1>14, <1>15, <1>16, <1>17, <1>18, <1>19, <1>20 DEF Epoch!Next, Epoch!Step

LEMMA EpochInvHolds ==
    ASSUME Epoch!EpochAssumption PROVE Epoch!Spec => []EpochInv
<1>1. ASSUME Epoch!Init PROVE EpochInv
  <2>1. /\ e_row = Epoch!NoRow /\ e_op = Epoch!NoTransition /\ e_opKey = "absent"
        /\ e_marker \in {Epoch!NoMarker, [state |-> "ready", epoch |-> Foreign, by |-> Foreign]}
        /\ e_pc = [g \in Gateways |-> "idle"]
        /\ e_seen = [g \in Gateways |-> Epoch!NoTransition]
        /\ e_state = [g \in Gateways |-> "none"] /\ e_faults = 0 /\ e_losses = 0
    BY <1>1 DEF Epoch!Init
  <2>2. Epoch!TypeOK
    BY <2>1 DEF Epoch!TypeOK, Epoch!EpochAssumption, Epoch!NoRow, Epoch!NoTransition,
       Epoch!NoMarker, Epoch!Transitions, Epoch!OpStates, Epoch!Owners
  <2>3. \A g \in Gateways : StartUpKnows(g)
    BY <2>1 DEF StartUpKnows, CopySteps
  <2>4. RowAndOperation /\ Epoch!MarkerSpeaksForTheRow /\ Epoch!ReadyRowIsBacked
    BY <2>1 DEF RowAndOperation, Epoch!MarkerSpeaksForTheRow, Epoch!ReadyRowIsBacked,
       Epoch!EpochAssumption, Epoch!NoRow, Epoch!NoTransition, Epoch!NoMarker
  <2> QED
    BY <2>2, <2>3, <2>4 DEF EpochInv
<1> QED
  BY <1>1, EpochStep, PTL DEF Epoch!Spec

\* There is one epoch, however many gateways proposed theirs at once: a marker
\* of theirs speaks for the row, a ready row has its ready marker as long as
\* Redis lost nothing, and a start-up that reports ready has the durable row
\* behind it (StateEpochCoordinator, epoch_prepare.lua, epoch_commit.lua).
THEOREM OneEpochTheorem ==
    ASSUME Epoch!EpochAssumption
    PROVE  Epoch!Spec => [](/\ Epoch!TypeOK /\ Epoch!MarkerSpeaksForTheRow
                            /\ Epoch!ReadyRowIsBacked /\ Epoch!ReadyIsDurable)
<1>1. EpochInv => Epoch!ReadyIsDurable
  BY DEF EpochInv, Epoch!ReadyIsDurable, StartUpKnows, RowAndOperation
<1> QED
  BY <1>1, EpochInvHolds, PTL DEF EpochInv

\* A marker this database did not write is never overwritten before the row is
\* ready (epoch_prepare.lua: any other marker is a conflict).
THEOREM ForeignMarkerIsKeptTheorem ==
    ASSUME Epoch!EpochAssumption
    PROVE  Epoch!Spec => Epoch!ForeignMarkerIsKept
<1>1. ASSUME EpochInv, [Epoch!Next]_(Epoch!vars), e_marker.epoch = Foreign,
             e_row.state # "ready", e_losses' = e_losses
      PROVE  e_marker' = e_marker
  <2>1. ~Epoch!RedisLost
    BY <1>1 DEF Epoch!RedisLost, EpochInv, Epoch!TypeOK
  <2>2. ASSUME NEW g \in Gateways, Epoch!Prepare(g) \/ Epoch!Commit(g)
        PROVE  e_marker' = e_marker
    <3>1. e_seen[g].by \in Gateways
      BY <1>1, <2>2 DEF Epoch!Prepare, Epoch!Commit, EpochInv, StartUpKnows,
         CopySteps, RowAndOperation
    <3>2. Epoch!Pending(e_seen[g]).epoch # Foreign /\ Epoch!NoMarker.epoch # Foreign
      BY <3>1 DEF Epoch!Pending, Epoch!NoMarker, Epoch!EpochAssumption
    <3>3. e_marker \notin {Epoch!NoMarker, Epoch!Pending(e_seen[g])}
      BY <1>1, <3>2
    <3> QED
      BY <2>2, <3>3 DEF Epoch!Prepare, Epoch!Commit, Epoch!Prepares, Epoch!redis
  <2>3. ASSUME NEW g \in Gateways PROVE ~Epoch!ReconcileReady(g)
    BY <1>1 DEF Epoch!ReconcileReady, EpochInv, StartUpKnows, RowAndOperation
  <2> QED
    BY <1>1, <2>1, <2>2, <2>3 DEF Epoch!Next, Epoch!Step, Epoch!vars, Epoch!redis,
       Epoch!durable, Epoch!Create, Epoch!ReadRow, Epoch!ReadOperation,
       Epoch!SetExpected, Epoch!ReloadExpected, Epoch!ReadMarker, Epoch!MarkPrepared,
       Epoch!ReloadPrepared, Epoch!Advance, Epoch!Reload, Epoch!ReloadReady,
       Epoch!Finalize, Epoch!StateIntegrity, Epoch!StartFails, Epoch!Restart,
       Epoch!OpKeyExpires
<1>2. EpochInv /\ [Epoch!Next]_(Epoch!vars) =>
        [e_marker.epoch = Foreign /\ e_row.state # "ready" /\ e_losses' = e_losses
           => e_marker' = e_marker]_(Epoch!vars)
  BY <1>1
<1> QED
  BY <1>2, EpochInvHolds, PTL DEF Epoch!Spec, Epoch!ForeignMarkerIsKept

-----------------------------------------------------------------------------
(***************************************************************************)
(* The cached settings.                                                    *)
(***************************************************************************)
CONSTANTS Processes, Admin, Writers, Values, Default, NoValue, NoEntry, LocalTTL
VARIABLES s_row, s_mirror, s_local, s_reader, s_writer, s_faults, s_failed,
          s_overlapped

Settings == INSTANCE SettingsCache WITH
    row <- s_row, mirror <- s_mirror, local <- s_local, reader <- s_reader,
    writer <- s_writer, faults <- s_faults, failed <- s_failed,
    overlapped <- s_overlapped

\* While no call failed and no commit met another call, whoever is about to
\* write the mirror writes the row, and one that nobody is about to write has it.
WritersHoldTheRow ==
    ~s_failed /\ ~s_overlapped =>
        /\ \A p \in Processes : s_reader[p].pc = "loaded" => s_reader[p].value = s_row
        /\ \A w \in Writers : s_writer[w].pc = "committed" => s_writer[w].value = s_row
        /\ (\A w \in Writers : s_writer[w].pc # "committed") => s_mirror \in {NoValue, s_row}

SettingsInv == Settings!TypeOK /\ WritersHoldTheRow

LEMMA SettingsStep ==
    ASSUME Settings!CacheAssumption, SettingsInv, [Settings!Next]_(Settings!vars)
    PROVE  SettingsInv'
<1> USE DEF SettingsInv, Settings!Fault
<1>0. /\ Admin \in Processes /\ Default \in Values /\ LocalTTL \in Nat \ {0} /\ MaxFaults \in Nat
      /\ s_row \in Values /\ s_mirror \in Values \cup {NoValue} /\ s_faults \in 0 .. MaxFaults
      /\ s_local \in [Processes -> [value : Values, left : 1 .. LocalTTL] \cup {NoEntry}]
      /\ s_reader \in [Processes -> [pc : {"idle", "missed", "loaded"}, value : Values]]
      /\ s_writer \in [Writers -> [pc : {"idle", "committed", "done"}, value : Values]]
  BY DEF Settings!TypeOK, Settings!CacheAssumption
<1>b. s_failed \in BOOLEAN /\ s_overlapped \in BOOLEAN
  BY DEF Settings!TypeOK
<1>e. \A v \in Values : Settings!Entry(v) \in [value : Values, left : 1 .. LocalTTL]
  BY <1>0 DEF Settings!Entry
<1>f. s_faults < MaxFaults => s_faults + 1 \in 0 .. MaxFaults
  BY <1>0
<1>1. ASSUME NEW p \in Processes, Settings!Ask(p) PROVE SettingsInv'
  <2>1. /\ UNCHANGED <<s_row, s_mirror, s_writer, s_failed, s_overlapped>>
        /\ \/ /\ s_mirror # NoValue /\ s_local' = [s_local EXCEPT ![p] = Settings!Entry(s_mirror)]
              /\ UNCHANGED <<s_reader, s_faults>>
           \/ /\ s_reader' = [s_reader EXCEPT ![p].pc = "missed"] /\ s_local' = s_local
              /\ s_faults' = s_faults \/ (s_faults < MaxFaults /\ s_faults' = s_faults + 1)
    BY <1>1 DEF Settings!Ask
  <2>2. Settings!TypeOK'
    BY <1>0, <1>b, <1>e, <1>f, <2>1 DEF Settings!TypeOK
  <2>3. \A q \in Processes : s_reader'[q].pc = "loaded" => s_reader'[q] = s_reader[q]
    BY <1>0, <2>1
  <2> QED
    BY <2>1, <2>2, <2>3 DEF WritersHoldTheRow
<1>2. ASSUME NEW p \in Processes, Settings!LoadRow(p) PROVE SettingsInv'
  <2>1. UNCHANGED <<s_row, s_mirror, s_local, s_writer, s_overlapped>>
    BY <1>2 DEF Settings!LoadRow
  <2>2. CASE /\ s_reader' = [s_reader EXCEPT ![p] = [pc |-> "loaded", value |-> s_row]]
             /\ UNCHANGED <<s_faults, s_failed>>
    <3>1. Settings!TypeOK'
      BY <1>0, <1>b, <2>1, <2>2 DEF Settings!TypeOK
    <3>2. \A q \in Processes : s_reader'[q] = s_reader[q] \/ s_reader'[q].value = s_row
      BY <1>0, <2>2
    <3> QED
      BY <2>1, <2>2, <3>1, <3>2 DEF WritersHoldTheRow
  <2>3. CASE /\ s_faults < MaxFaults /\ s_faults' = s_faults + 1 /\ s_failed' = TRUE
             /\ s_reader' = [s_reader EXCEPT ![p] = [pc |-> "loaded", value |-> Default]]
    BY <1>0, <1>b, <1>f, <2>1, <2>3 DEF Settings!TypeOK, WritersHoldTheRow
  <2> QED
    BY <1>2, <2>2, <2>3 DEF Settings!LoadRow
<1>3. ASSUME NEW p \in Processes, Settings!Fill(p) PROVE SettingsInv'
  <2>1. /\ s_reader[p].pc = "loaded" /\ s_reader' = [s_reader EXCEPT ![p].pc = "idle"]
        /\ s_local' = [s_local EXCEPT ![p] = Settings!Entry(s_reader[p].value)]
        /\ \/ s_mirror' = s_reader[p].value /\ s_faults' = s_faults
           \/ s_mirror' = s_mirror /\ s_faults < MaxFaults /\ s_faults' = s_faults + 1
        /\ UNCHANGED <<s_row, s_writer, s_failed, s_overlapped>>
    BY <1>3 DEF Settings!Fill
  <2>2. Settings!TypeOK'
    BY <1>0, <1>b, <1>e, <1>f, <2>1 DEF Settings!TypeOK
  <2>3. \A q \in Processes : s_reader'[q].pc = "loaded" => s_reader'[q] = s_reader[q]
    BY <1>0, <2>1
  <2> QED
    BY <2>1, <2>2, <2>3 DEF WritersHoldTheRow
<1>4. ASSUME NEW w \in Writers, NEW v \in Values, Settings!Commit(w, v) PROVE SettingsInv'
  <2>1. /\ s_writer[w].pc = "idle" /\ s_row' = v
        /\ s_writer' = [s_writer EXCEPT ![w] = [pc |-> "committed", value |-> v]]
        /\ UNCHANGED <<s_mirror, s_local, s_reader, s_faults, s_failed>>
    BY <1>4 DEF Settings!Commit
  <2>2. s_overlapped' = (\/ s_overlapped \/ (\E o \in Writers : s_writer[o].pc = "committed")
                         \/ \E p \in Processes : s_reader[p].pc = "loaded")
    BY <1>4, Zenon DEF Settings!Commit
  <2>3. s_overlapped' \in BOOLEAN
    BY <2>2, Zenon
  <2>4. Settings!TypeOK'
    BY <1>0, <1>b, <2>1, <2>3 DEF Settings!TypeOK
  <2>5. CASE s_overlapped'
    BY <2>4, <2>5 DEF WritersHoldTheRow
  <2>6. CASE ~s_overlapped'
    <3>1. /\ \A o \in Writers : s_writer[o].pc # "committed"
          /\ \A p \in Processes : s_reader[p].pc # "loaded"
      BY <2>2, <2>6, Zenon
    <3>2. \A o \in Writers : s_writer'[o].pc = "committed" => s_writer'[o].value = v
      BY <1>0, <2>1, <3>1
    <3>3. s_writer'[w].pc = "committed"
      BY <1>0, <2>1
    <3> QED
      BY <2>1, <2>4, <3>1, <3>2, <3>3 DEF WritersHoldTheRow
  <2> QED
    BY <2>5, <2>6
<1>5. ASSUME NEW w \in Writers, Settings!Publish(w) PROVE SettingsInv'
  <2>1. /\ s_writer[w].pc = "committed" /\ s_writer' = [s_writer EXCEPT ![w].pc = "done"]
        /\ s_local' = [s_local EXCEPT ![Admin] = Settings!Entry(s_writer[w].value)]
        /\ UNCHANGED <<s_row, s_reader, s_overlapped>>
    BY <1>5 DEF Settings!Publish
  <2>2. \A o \in Writers : s_writer'[o].pc = "committed" => s_writer'[o] = s_writer[o]
    BY <1>0, <2>1
  <2>3. CASE s_mirror' = s_writer[w].value /\ UNCHANGED <<s_faults, s_failed>>
    <3>1. Settings!TypeOK'
      BY <1>0, <1>b, <1>e, <2>1, <2>3 DEF Settings!TypeOK
    <3> QED
      BY <2>1, <2>2, <2>3, <3>1 DEF WritersHoldTheRow
  <2>4. CASE /\ s_faults < MaxFaults /\ s_faults' = s_faults + 1 /\ s_failed' = TRUE
             /\ s_mirror' = s_mirror
    BY <1>0, <1>b, <1>e, <1>f, <2>1, <2>4 DEF Settings!TypeOK, WritersHoldTheRow
  <2> QED
    BY <1>5, <2>3, <2>4 DEF Settings!Publish, Settings!Mirrored
<1>6. ASSUME NEW w \in Writers, Settings!WriterDies(w) PROVE SettingsInv'
  <2>1. /\ s_writer' = [s_writer EXCEPT ![w].pc = "done"] /\ s_failed' = TRUE
        /\ s_faults < MaxFaults /\ s_faults' = s_faults + 1
        /\ UNCHANGED <<s_row, s_mirror, s_local, s_reader, s_overlapped>>
    BY <1>6 DEF Settings!WriterDies
  <2> QED
    BY <1>0, <1>b, <1>f, <2>1 DEF Settings!TypeOK, WritersHoldTheRow
<1>7. CASE Settings!RedisRestarts
  <2>1. /\ s_mirror' = NoValue /\ s_faults < MaxFaults /\ s_faults' = s_faults + 1
        /\ UNCHANGED <<s_row, s_local, s_reader, s_writer, s_failed, s_overlapped>>
    BY <1>7 DEF Settings!RedisRestarts
  <2> QED
    BY <1>0, <1>b, <1>f, <2>1 DEF Settings!TypeOK, WritersHoldTheRow
<1>8. CASE Settings!Tick
  <2>1. /\ s_local' = [p \in Processes |-> Settings!Aged(s_local[p])]
        /\ UNCHANGED <<s_row, s_mirror, s_reader, s_writer, s_faults, s_failed, s_overlapped>>
    BY <1>8 DEF Settings!Tick
  <2>2. ASSUME NEW p \in Processes
        PROVE  Settings!Aged(s_local[p]) \in [value : Values, left : 1 .. LocalTTL] \cup {NoEntry}
    BY <1>0 DEF Settings!Aged
  <2>3. Settings!TypeOK'
    BY <1>0, <1>b, <2>1, <2>2 DEF Settings!TypeOK
  <2> QED
    BY <2>1, <2>3 DEF WritersHoldTheRow
<1>9. CASE UNCHANGED Settings!vars
  BY <1>0, <1>b, <1>9 DEF Settings!vars, Settings!TypeOK, WritersHoldTheRow
<1> QED
  BY <1>1, <1>2, <1>3, <1>4, <1>5, <1>6, <1>7, <1>8, <1>9 DEF Settings!Next, Settings!Read

\* When nothing is under way and no call failed, the mirror is the row, unless a
\* commit overlapped another write or a fill (SettingsStore.Set, Raw).
THEOREM MirrorsUnlessOverlappedTheorem ==
    ASSUME Settings!CacheAssumption
    PROVE  Settings!Spec => [](Settings!TypeOK /\ Settings!MirrorsUnlessOverlapped)
<1>1. ASSUME Settings!Init PROVE SettingsInv
  <2>1. /\ s_row = Default /\ s_mirror = NoValue
        /\ s_local = [p \in Processes |-> NoEntry]
        /\ s_reader = [p \in Processes |-> [pc |-> "idle", value |-> Default]]
        /\ s_writer = [w \in Writers |-> [pc |-> "idle", value |-> Default]]
        /\ s_faults = 0 /\ s_failed = FALSE /\ s_overlapped = FALSE
    BY <1>1 DEF Settings!Init
  <2>3. s_failed \in BOOLEAN /\ s_overlapped \in BOOLEAN
    BY <2>1
  <2>2. Settings!TypeOK
    BY <2>1, <2>3 DEF Settings!TypeOK, Settings!CacheAssumption
  <2> QED
    BY <2>1, <2>2 DEF SettingsInv, WritersHoldTheRow
<1>2. SettingsInv => Settings!TypeOK /\ Settings!MirrorsUnlessOverlapped
  BY DEF SettingsInv, WritersHoldTheRow, Settings!MirrorsUnlessOverlapped, Settings!Quiet
<1> QED
  BY <1>1, <1>2, SettingsStep, PTL DEF Settings!Spec

-----------------------------------------------------------------------------
(***************************************************************************)
(* The DEBUG session.                                                      *)
(***************************************************************************)
CONSTANTS Operators, Duration, NoSession, MaxTime, MaxTries
VARIABLES d_now, d_row, d_revision, d_mirror, d_operator, d_reader, d_applied,
          d_active, d_timer, d_faults

Debug == INSTANCE DebugLogging WITH
    now <- d_now, row <- d_row, revision <- d_revision, mirror <- d_mirror,
    operator <- d_operator, reader <- d_reader, applied <- d_applied,
    active <- d_active, timer <- d_timer, faults <- d_faults

\* A copy of the setting: older than the row, or the row.
IsCopy(v) == v.rev <= d_row.rev /\ (v.rev = d_row.rev => v = d_row)

\* Whatever is passed on of the setting is a copy of it.
CopiesOnly ==
    /\ d_mirror # NoValue => IsCopy(d_mirror)
    /\ \A o \in Operators : IsCopy(d_operator[o].value)
    /\ \A g \in Gateways :
         /\ IsCopy(d_reader[g].value)
         /\ d_active[g] # NoSession => IsCopy(d_active[g]) /\ d_active[g].rev = d_applied[g]

\* The revision of the row counts its updates; a value has the revision it was
\* written at, the first none.
RowHasItsRevision == d_row.rev <= d_revision /\ (d_row.rev = 0 => d_row = Debug!Default)

\* A call read the row at the revision it compares with, at a time that is past.
CallsReadTheRow ==
    \A o \in Operators :
        /\ d_operator[o].now <= d_now /\ d_operator[o].revision <= d_revision
        /\ d_operator[o].pc = "read" /\ d_operator[o].revision = d_revision
             => d_operator[o].value = d_row
        /\ d_operator[o].pc \in {"idle", "called"} => d_operator[o].tries < MaxTries

\* Each update is one call's.
Ended == {o \in Operators : d_operator[o].pc \in {"stored", "done"}}
UpdatesAreCalls == d_revision <= Cardinality(Ended) + 1

DebugInv ==
    /\ Debug!TypeOK /\ CopiesOnly /\ RowHasItsRevision /\ CallsReadTheRow
    /\ UpdatesAreCalls

LEMMA DebugFinite == ASSUME NEW S PROVE Debug!IsFiniteSet(S) <=> IsFiniteSet(S)
BY DEF Debug!IsFiniteSet, IsFiniteSet

LEMMA DebugCardinality == ASSUME NEW S PROVE Debug!Cardinality(S) = Cardinality(S)
BY DEF Debug!Cardinality, Cardinality, Debug!IsFiniteSet, IsFiniteSet

\* The types, one by one.
DebugOperators ==
    [pc : {"idle", "called", "read", "stored", "done"}, kind : {"start", "stop"},
     now : 0 .. MaxTime, tries : 0 .. MaxTries, value : Debug!Settings, revision : Nat]
DebugReaders == [pc : {"idle", "missed", "loaded", "apply"}, value : Debug!Settings]

LEMMA DebugTypes ==
    ASSUME Debug!DebugAssumption, Debug!TypeOK
    PROVE  /\ d_row \in Debug!Settings /\ d_mirror \in Debug!Settings \cup {NoValue}
           /\ d_operator \in [Operators -> DebugOperators]
           /\ d_reader \in [Gateways -> DebugReaders]
           /\ d_applied \in [Gateways -> 0 .. Cardinality(Operators) + 1]
           /\ d_active \in [Gateways -> Debug!Settings \cup {NoSession}]
           /\ d_timer \in [Gateways -> Debug!Settings \cup {NoSession}]
           /\ d_now \in Nat /\ d_revision \in Nat \ {0} /\ d_faults \in 0 .. MaxFaults
           /\ Duration \in Nat \ {0} /\ MaxTries \in Nat \ {0} /\ MaxTime \in Nat
           /\ MaxFaults \in Nat /\ IsFiniteSet(Operators) /\ Cardinality(Operators) \in Nat
           /\ Debug!Cardinality(Operators) = Cardinality(Operators)
           /\ Debug!End \in Nat
           /\ \A v \in Debug!Settings : v.rev \in Nat /\ v.expires \in Nat
           /\ Debug!Default \in Debug!Settings
<1>1. Cardinality(Operators) \in Nat
  BY FS_CardinalityType, DebugFinite DEF Debug!DebugAssumption
<1>2. Duration \in Nat \ {0} /\ MaxTries \in Nat \ {0} /\ MaxTime \in Nat /\ MaxFaults \in Nat
  BY DEF Debug!DebugAssumption
<1>5. Debug!Cardinality(Operators) = Cardinality(Operators) /\ IsFiniteSet(Operators)
  BY DebugCardinality, DebugFinite DEF Debug!DebugAssumption
<1>3. \A v \in Debug!Settings : v.rev \in Nat /\ v.expires \in Nat
  BY <1>1, <1>2, <1>5 DEF Debug!Settings
<1>4. Debug!Default \in Debug!Settings
  BY <1>1, <1>2, <1>5 DEF Debug!Settings, Debug!Default
<1> QED
  BY <1>1, <1>2, <1>3, <1>4, <1>5 DEF Debug!TypeOK, DebugOperators,
     DebugReaders, Debug!End

\* A step of the gateways or of Redis: the row and the calls stay, and copies
\* are made of copies.
LEMMA CopiesAreCopied ==
    ASSUME Debug!DebugAssumption, DebugInv, Debug!TypeOK',
           UNCHANGED <<d_now, d_row, d_revision, d_operator>>,
           d_mirror' # NoValue => IsCopy(d_mirror)',
           \A g \in Gateways :
               /\ IsCopy(d_reader[g].value)'
               /\ d_active'[g] # NoSession =>
                    IsCopy(d_active[g])' /\ d_active'[g].rev = d_applied'[g]
    PROVE  DebugInv'
<1>1. CopiesOnly'
  BY DEF DebugInv, CopiesOnly, IsCopy
<1>2. RowHasItsRevision' /\ CallsReadTheRow'
  BY DEF DebugInv, RowHasItsRevision, CallsReadTheRow, Debug!Default
<1>3. UpdatesAreCalls'
  BY DEF DebugInv, UpdatesAreCalls, Ended
<1> QED
  BY <1>1, <1>2, <1>3 DEF DebugInv

\* A step of one call.
LEMMA CallsGoOn ==
    ASSUME Debug!DebugAssumption, DebugInv, NEW o \in Operators,
           d_operator' \in [Operators -> DebugOperators],
           \A p \in Operators \ {o} : d_operator'[p] = d_operator[p],
           UNCHANGED <<d_now, d_row, d_revision, d_reader, d_applied, d_active, d_timer>>,
           d_mirror' \in Debug!Settings \cup {NoValue}, d_faults' \in 0 .. MaxFaults,
           d_mirror' # NoValue => IsCopy(d_mirror'), IsCopy(d_operator'[o].value),
           d_operator[o].pc \in {"stored", "done"} => d_operator'[o].pc \in {"stored", "done"},
           /\ d_operator'[o].now <= d_now /\ d_operator'[o].revision <= d_revision
           /\ d_operator'[o].pc = "read" /\ d_operator'[o].revision = d_revision
                => d_operator'[o].value = d_row
           /\ d_operator'[o].pc \in {"idle", "called"} => d_operator'[o].tries < MaxTries
    PROVE  DebugInv'
<1>1. Debug!TypeOK'
  BY DEF DebugInv, Debug!TypeOK, DebugOperators, Debug!Settings, Debug!End
<1>2. CopiesOnly'
  <2>1. ASSUME NEW p \in Operators PROVE IsCopy(d_operator[p].value)'
    <3>1. CASE p = o
      BY <3>1 DEF IsCopy
    <3>2. CASE p # o
      BY <3>2 DEF IsCopy, DebugInv, CopiesOnly
    <3> QED
      BY <3>1, <3>2
  <2> QED
    BY <2>1 DEF DebugInv, CopiesOnly, IsCopy
<1>3. RowHasItsRevision'
  BY DEF DebugInv, RowHasItsRevision, Debug!Default
<1>4. CallsReadTheRow'
  <2> SUFFICES ASSUME NEW p \in Operators
               PROVE  /\ d_operator'[p].now <= d_now /\ d_operator'[p].revision <= d_revision
                      /\ d_operator'[p].pc = "read" /\ d_operator'[p].revision = d_revision
                           => d_operator'[p].value = d_row
                      /\ d_operator'[p].pc \in {"idle", "called"} => d_operator'[p].tries < MaxTries
    BY DEF CallsReadTheRow
  <2>1. CASE p = o
    BY <2>1
  <2>2. CASE p # o
    BY <2>2 DEF DebugInv, CallsReadTheRow
  <2> QED
    BY <2>1, <2>2
<1>5. UpdatesAreCalls'
  <2>1. Ended \subseteq Ended' /\ Ended' \subseteq Operators
    BY DEF Ended
  <2>2. IsFiniteSet(Ended') /\ IsFiniteSet(Ended)
    BY <2>1, FS_Subset, DebugFinite DEF Debug!DebugAssumption
  <2>3. Cardinality(Ended) <= Cardinality(Ended')
    BY <2>1, <2>2, FS_Subset
  <2>4. Cardinality(Ended) \in Nat /\ Cardinality(Ended') \in Nat /\ d_revision \in Nat
    BY <2>2, FS_CardinalityType DEF DebugInv, Debug!TypeOK
  <2> QED
    BY <2>3, <2>4 DEF DebugInv, UpdatesAreCalls
<1> QED
  BY <1>1, <1>2, <1>3, <1>4, <1>5 DEF DebugInv

\* An update writes a value newer than every copy of the row.
LEMMA UpdateIsNew ==
    ASSUME Debug!DebugAssumption, DebugInv, NEW o \in Operators,
           d_operator[o].pc = "read", Debug!IsCurrent(o),
           d_row' = Debug!Built(o), d_revision' = d_operator[o].revision + 1,
           d_operator' = [d_operator EXCEPT ![o].pc = "stored", ![o].value = Debug!Built(o)],
           UNCHANGED <<d_now, d_mirror, d_reader, d_applied, d_active, d_timer, d_faults>>
    PROVE  DebugInv'
<1> USE DebugTypes DEF DebugInv
<1>0. Debug!TypeOK
  OBVIOUS
<1>1. d_operator[o] \in DebugOperators /\ d_operator[o].value = d_row
      /\ d_operator[o].revision = d_revision
  BY <1>0 DEF Debug!IsCurrent, CallsReadTheRow
<1>2. UpdatesAreCalls' /\ d_revision' <= Cardinality(Operators) + 1
  <2>1. Ended' = Ended \cup {o} /\ o \notin Ended /\ Ended' \subseteq Operators
    BY <1>0 DEF Ended, DebugOperators
  <2>2. IsFiniteSet(Ended) /\ IsFiniteSet(Ended')
    BY <1>0, <2>1, FS_Subset
  <2>3. Cardinality(Ended') = Cardinality(Ended) + 1
    BY <2>1, <2>2, FS_AddElement
  <2>4. Cardinality(Ended') <= Cardinality(Operators)
    BY <1>0, <2>1, FS_Subset
  <2>5. Cardinality(Ended) \in Nat
    BY <2>2, FS_CardinalityType
  <2> QED
    BY <1>0, <1>1, <2>3, <2>4, <2>5 DEF UpdatesAreCalls
<1>3. /\ d_row' = [rev |-> d_revision + 1, id |-> d_row'.id, expires |-> d_row'.expires]
      /\ d_row'.expires \in 0 .. MaxTime + Duration /\ d_row'.id \in Operators \cup {NoSession}
  BY <1>0, <1>1 DEF Debug!Built, DebugOperators, Debug!Settings
<1>4. d_row' \in Debug!Settings /\ d_row'.rev = d_revision + 1
  BY <1>0, <1>1, <1>2, <1>3, DebugCardinality DEF Debug!Settings
<1>5. /\ d_operator' \in [Operators -> DebugOperators] /\ d_operator'[o].value = d_row'
      /\ d_operator'[o].pc = "stored" /\ d_operator'[o].now = d_operator[o].now
      /\ d_operator'[o].revision = d_operator[o].revision
      /\ \A p \in Operators \ {o} : d_operator'[p] = d_operator[p]
  BY <1>0, <1>4 DEF DebugOperators
<1>6. Debug!TypeOK'
  BY <1>0, <1>1, <1>2, <1>4, <1>5 DEF Debug!TypeOK, DebugOperators, Debug!Settings, Debug!End
<1>7. ASSUME NEW v \in Debug!Settings, IsCopy(v) PROVE v.rev <= d_row'.rev /\ v.rev # d_row'.rev
  BY <1>0, <1>4, <1>7 DEF IsCopy, RowHasItsRevision
<1>8. CopiesOnly'
  <2>1. d_mirror' # NoValue => IsCopy(d_mirror)'
    BY <1>0, <1>7 DEF CopiesOnly, IsCopy
  <2>2. ASSUME NEW p \in Operators PROVE IsCopy(d_operator[p].value)'
    <3>1. CASE p = o
      BY <1>0, <1>4, <1>5, <3>1 DEF IsCopy
    <3>2. CASE p # o
      <4>1. d_operator[p].value \in Debug!Settings
        BY <1>0 DEF DebugOperators
      <4> QED
        BY <1>5, <1>7, <3>2, <4>1 DEF CopiesOnly, IsCopy
    <3> QED
      BY <3>1, <3>2
  <2>3. ASSUME NEW g \in Gateways
        PROVE  /\ IsCopy(d_reader[g].value)'
               /\ d_active'[g] # NoSession =>
                    IsCopy(d_active[g])' /\ d_active'[g].rev = d_applied'[g]
    <3>1. d_reader[g].value \in Debug!Settings
      BY <1>0 DEF DebugReaders
    <3>2. d_active[g] # NoSession => d_active[g] \in Debug!Settings
      BY <1>0
    <3> QED
      BY <1>7, <3>1, <3>2 DEF CopiesOnly, IsCopy
  <2> QED
    BY <2>1, <2>2, <2>3 DEF CopiesOnly
<1>9. RowHasItsRevision'
  BY <1>0, <1>1, <1>4 DEF RowHasItsRevision
<1>10. CallsReadTheRow'
  <2> SUFFICES ASSUME NEW p \in Operators
               PROVE  /\ d_operator'[p].now <= d_now /\ d_operator'[p].revision <= d_revision'
                      /\ d_operator'[p].pc = "read" /\ d_operator'[p].revision = d_revision'
                           => d_operator'[p].value = d_row'
                      /\ d_operator'[p].pc \in {"idle", "called"} => d_operator'[p].tries < MaxTries
    BY DEF CallsReadTheRow
  <2>1. d_operator[p].revision \in Nat /\ d_revision' = d_revision + 1
    BY <1>0, <1>1 DEF DebugOperators
  <2>2. CASE p = o
    BY <1>0, <1>5, <2>1, <2>2 DEF CallsReadTheRow
  <2>3. CASE p # o
    BY <1>0, <1>5, <2>1, <2>3 DEF CallsReadTheRow
  <2> QED
    BY <2>2, <2>3
<1> QED
  BY <1>2, <1>6, <1>8, <1>9, <1>10

LEMMA OperateStep ==
    ASSUME Debug!DebugAssumption, DebugInv, NEW o \in Operators, Debug!Operate(o)
    PROVE  DebugInv'
<1> USE DEF Debug!gateway
<1>0. Debug!TypeOK /\ CopiesOnly /\ RowHasItsRevision /\ CallsReadTheRow /\ UpdatesAreCalls
  BY DEF DebugInv
<1>a. d_operator[o] \in DebugOperators /\ d_faults \in 0 .. MaxFaults /\ MaxFaults \in Nat
  BY <1>0, DebugTypes
<1>1. ASSUME NEW kind \in {"start", "stop"}, Debug!Call(o, kind) PROVE DebugInv'
  <2>1. /\ d_operator[o].pc = "idle" /\ d_now <= MaxTime
        /\ UNCHANGED <<d_now, d_row, d_revision, d_mirror, d_reader, d_applied, d_active,
                       d_timer, d_faults>>
    BY <1>1 DEF Debug!Call
  <2>2. PICK to \in {"done", "called"} :
          d_operator' = [d_operator EXCEPT ![o].pc = to, ![o].kind = kind, ![o].now = d_now]
    BY <1>1 DEF Debug!Call
  <2>3. /\ d_operator'[o] = [d_operator[o] EXCEPT !.pc = to, !.kind = kind, !.now = d_now]
        /\ \A p \in Operators \ {o} : d_operator'[p] = d_operator[p]
    BY <1>0, <2>2, DebugTypes
  <2>6. d_now \in 0 .. MaxTime
    BY <1>0, <2>1, DebugTypes
  <2>7. /\ d_operator'[o].pc = to /\ d_operator'[o].now = d_now
        /\ d_operator'[o].tries = d_operator[o].tries
        /\ d_operator'[o].value = d_operator[o].value
        /\ d_operator'[o].revision = d_operator[o].revision
    BY <1>a, <2>3 DEF DebugOperators
  <2>4. d_operator'[o] \in DebugOperators
    BY <1>a, <2>3, <2>6 DEF DebugOperators
  <2>5. d_operator' \in [Operators -> DebugOperators]
    BY <1>0, <2>2, <2>3, <2>4, DebugTypes
  <2> QED
    <3>1. /\ d_operator'[o].now <= d_now /\ d_operator'[o].revision <= d_revision
          /\ d_operator'[o].pc # "read" /\ d_operator'[o].tries < MaxTries
      BY <1>0, <2>1, <2>6, <2>7 DEF CallsReadTheRow
    <3>2. IsCopy(d_operator'[o].value) /\ (d_mirror' # NoValue => IsCopy(d_mirror'))
      BY <1>0, <2>1, <2>7 DEF CopiesOnly
    <3>3. d_operator[o].pc \notin {"stored", "done"}
      BY <2>1
    <3> QED
      BY <1>0, <1>a, <2>1, <2>3, <2>5, <3>1, <3>2, <3>3, CallsGoOn, DebugTypes
<1>2. CASE Debug!ReadRecord(o)
  <2>1. /\ d_operator[o].pc = "called"
        /\ d_operator' = [d_operator EXCEPT ![o].pc = "read", ![o].tries = @ + 1,
                                            ![o].value = d_row, ![o].revision = d_revision]
        /\ UNCHANGED <<d_now, d_row, d_revision, d_mirror, d_reader, d_applied, d_active,
                       d_timer, d_faults>>
    BY <1>2 DEF Debug!ReadRecord
  <2>2. /\ d_operator'[o] = [d_operator[o] EXCEPT !.pc = "read", !.tries = @ + 1,
                                                 !.value = d_row, !.revision = d_revision]
        /\ \A p \in Operators \ {o} : d_operator'[p] = d_operator[p]
    BY <1>0, <2>1, DebugTypes
  <2>3. d_operator[o].tries + 1 \in 0 .. MaxTries
    BY <1>0, <1>a, <2>1, DebugTypes DEF DebugOperators, CallsReadTheRow
  <2>4. d_operator'[o] \in DebugOperators
    BY <1>0, <1>a, <2>2, <2>3, DebugTypes DEF DebugOperators
  <2>5. d_operator' \in [Operators -> DebugOperators]
    BY <1>0, <2>1, <2>2, <2>4, DebugTypes
  <2> QED
    BY <1>0, <1>a, <2>1, <2>2, <2>5, CallsGoOn, DebugTypes DEF CopiesOnly, CallsReadTheRow,
       IsCopy, DebugOperators
<1>3. CASE Debug!UpdateAtRevision(o)
  <2>1. CASE Debug!IsCurrent(o)
    BY <1>3, <2>1, UpdateIsNew DEF Debug!UpdateAtRevision
  <2>2. CASE ~Debug!IsCurrent(o)
    <3>1. /\ d_operator[o].pc = "read"
          /\ UNCHANGED <<d_now, d_row, d_revision, d_mirror, d_reader, d_applied, d_active,
                         d_timer, d_faults>>
      BY <1>3, <2>2 DEF Debug!UpdateAtRevision
    <3>2. PICK to \in {"called", "done"} :
            /\ d_operator' = [d_operator EXCEPT ![o].pc = to]
            /\ to = "called" => d_operator[o].tries < MaxTries
      BY <1>3, <2>2 DEF Debug!UpdateAtRevision, Debug!TriesAgain
    <3>3. /\ d_operator'[o] = [d_operator[o] EXCEPT !.pc = to]
          /\ \A p \in Operators \ {o} : d_operator'[p] = d_operator[p]
          /\ d_operator' \in [Operators -> DebugOperators]
      BY <1>0, <3>2, DebugTypes DEF DebugOperators
    <3> QED
      BY <1>0, <1>a, <3>1, <3>2, <3>3, CallsGoOn, DebugTypes DEF CopiesOnly,
         CallsReadTheRow, IsCopy, DebugOperators
  <2> QED
    BY <2>1, <2>2
<1>4. CASE Debug!PublishCache(o)
  <2>1. /\ d_operator[o].pc = "stored" /\ d_operator' = [d_operator EXCEPT ![o].pc = "done"]
        /\ \/ d_mirror' = d_operator[o].value /\ d_faults' = d_faults
           \/ d_faults < MaxFaults /\ d_faults' = d_faults + 1 /\ d_mirror' = d_mirror
        /\ UNCHANGED <<d_now, d_row, d_revision, d_reader, d_applied, d_active, d_timer>>
    BY <1>4 DEF Debug!PublishCache, Debug!Fault
  <2>2. /\ d_operator'[o] = [d_operator[o] EXCEPT !.pc = "done"]
        /\ \A p \in Operators \ {o} : d_operator'[p] = d_operator[p]
        /\ d_operator' \in [Operators -> DebugOperators]
    BY <1>0, <2>1, DebugTypes DEF DebugOperators
  <2>3. d_mirror' \in Debug!Settings \cup {NoValue} /\ d_faults' \in 0 .. MaxFaults
    BY <1>0, <1>a, <2>1, DebugTypes DEF DebugOperators
  <2> QED
    BY <1>0, <1>a, <2>1, <2>2, <2>3, CallsGoOn, DebugTypes DEF CopiesOnly,
       CallsReadTheRow, IsCopy, DebugOperators
<1> QED
  BY <1>1, <1>2, <1>3, <1>4 DEF Debug!Operate

LEMMA GatewayStep ==
    ASSUME Debug!DebugAssumption, DebugInv, NEW g \in Gateways, Debug!Gateway(g)
    PROVE  DebugInv'
<1> USE DEF Debug!gateway, Debug!Fault
<1>0. Debug!TypeOK /\ CopiesOnly /\ RowHasItsRevision
  BY DEF DebugInv
<1>a. /\ d_faults \in 0 .. MaxFaults /\ MaxFaults \in Nat
      /\ (d_faults < MaxFaults => d_faults + 1 \in 0 .. MaxFaults)
      /\ d_reader \in [Gateways -> DebugReaders]
      /\ Debug!Default \in Debug!Settings /\ d_row \in Debug!Settings
      /\ d_applied \in [Gateways -> 0 .. Cardinality(Operators) + 1]
      /\ \A v \in Debug!Settings : v.rev \in 0 .. Cardinality(Operators) + 1 /\ v.rev \in Nat
  BY <1>0, DebugTypes, DebugCardinality DEF Debug!Settings
<1>d. IsCopy(Debug!Default)
  <2>1. d_row.rev \in Nat /\ Debug!Default.rev = 0
    BY <1>a DEF Debug!Default
  <2> QED
    BY <1>0, <2>1 DEF IsCopy, RowHasItsRevision
<1>1. CASE Debug!Ask(g)
  <2>1. /\ UNCHANGED <<d_now, d_row, d_revision, d_mirror, d_operator, d_applied, d_active, d_timer>>
        /\ \/ /\ d_mirror # NoValue /\ d_faults' = d_faults
              /\ d_reader' = [d_reader EXCEPT ![g] = [pc |-> "apply", value |-> d_mirror]]
           \/ /\ d_faults' = d_faults \/ (d_faults < MaxFaults /\ d_faults' = d_faults + 1)
              /\ d_reader' = [d_reader EXCEPT ![g].pc = "missed"]
    BY <1>1 DEF Debug!Ask
  <2>2. d_reader' \in [Gateways -> DebugReaders]
    BY <1>0, <1>a, <2>1, DebugTypes DEF DebugReaders
  <2>3. Debug!TypeOK'
    BY <1>0, <1>a, <2>1, <2>2 DEF Debug!TypeOK, DebugReaders, Debug!Settings, Debug!End
  <2>4. \A h \in Gateways : IsCopy(d_reader[h].value)'
    BY <1>0, <1>a, <2>1 DEF CopiesOnly, IsCopy, DebugReaders
  <2> QED
    BY <1>0, <2>1, <2>3, <2>4, CopiesAreCopied DEF CopiesOnly, IsCopy
<1>2. CASE Debug!LoadRow(g)
  <2>1. /\ UNCHANGED <<d_now, d_row, d_revision, d_mirror, d_operator, d_applied, d_active, d_timer>>
        /\ \/ /\ d_reader' = [d_reader EXCEPT ![g] = [pc |-> "loaded", value |-> d_row]]
              /\ d_faults' = d_faults
           \/ /\ d_reader' = [d_reader EXCEPT ![g] = [pc |-> "loaded", value |-> Debug!Default]]
              /\ d_faults < MaxFaults /\ d_faults' = d_faults + 1
    BY <1>2 DEF Debug!LoadRow
  <2>2. d_reader' \in [Gateways -> DebugReaders]
    BY <1>0, <1>a, <2>1 DEF DebugReaders
  <2>3. Debug!TypeOK'
    BY <1>0, <1>a, <2>1, <2>2 DEF Debug!TypeOK, DebugReaders, Debug!Settings, Debug!End
  <2>4. \A h \in Gateways : IsCopy(d_reader[h].value)'
    BY <1>0, <1>a, <1>d, <2>1 DEF CopiesOnly, IsCopy, DebugReaders
  <2> QED
    BY <1>0, <2>1, <2>3, <2>4, CopiesAreCopied DEF CopiesOnly, IsCopy
<1>3. CASE Debug!Fill(g)
  <2>1. /\ UNCHANGED <<d_now, d_row, d_revision, d_operator, d_applied, d_active, d_timer>>
        /\ d_reader' = [d_reader EXCEPT ![g].pc = "apply"]
        /\ \/ d_mirror' = d_reader[g].value /\ d_faults' = d_faults
           \/ d_faults < MaxFaults /\ d_faults' = d_faults + 1 /\ d_mirror' = d_mirror
    BY <1>3 DEF Debug!Fill
  <2>2. d_reader' \in [Gateways -> DebugReaders] /\ d_reader[g].value \in Debug!Settings
        /\ \A h \in Gateways : d_reader'[h].value = d_reader[h].value
    BY <1>a, <2>1 DEF DebugReaders
  <2>3. Debug!TypeOK'
    BY <1>0, <1>a, <2>1, <2>2 DEF Debug!TypeOK, DebugReaders, Debug!Settings, Debug!End
  <2> QED
    BY <1>0, <2>1, <2>2, <2>3, CopiesAreCopied DEF CopiesOnly, IsCopy
<1>4. CASE Debug!Apply(g)
  <2> DEFINE v == d_reader[g].value
  <2>1. /\ UNCHANGED <<d_now, d_row, d_revision, d_mirror, d_operator, d_faults>>
        /\ d_reader' = [d_reader EXCEPT ![g].pc = "idle"]
        /\ \/ /\ d_active' = [d_active EXCEPT ![g] = v]
              /\ d_applied' = [d_applied EXCEPT ![g] = v.rev]
              /\ d_timer' = [d_timer EXCEPT ![g] = v]
           \/ UNCHANGED <<d_active, d_applied, d_timer>>
           \/ /\ d_active' = [d_active EXCEPT ![g] = NoSession]
              /\ d_applied' = [d_applied EXCEPT ![g] = v.rev]
              /\ d_timer' = [d_timer EXCEPT ![g] = NoSession]
    BY <1>4 DEF Debug!Apply, Debug!ApplyDebugSession, Debug!ClearDebugSession, Debug!TimerOf
  <2>2. d_reader' \in [Gateways -> DebugReaders] /\ v \in Debug!Settings
        /\ \A h \in Gateways : d_reader'[h].value = d_reader[h].value
    BY <1>a, <2>1 DEF DebugReaders
  <2>3. /\ d_active' \in [Gateways -> Debug!Settings \cup {NoSession}]
        /\ d_timer' \in [Gateways -> Debug!Settings \cup {NoSession}]
        /\ d_applied' \in [Gateways -> 0 .. Cardinality(Operators) + 1]
    BY <1>0, <1>a, <2>1, <2>2, DebugTypes
  <2>4. Debug!TypeOK'
    BY <1>0, <2>1, <2>2, <2>3, DebugCardinality
    DEF Debug!TypeOK, DebugReaders, Debug!Settings, Debug!End
  <2>5. ASSUME NEW h \in Gateways, d_active'[h] # NoSession
        PROVE  IsCopy(d_active[h])' /\ d_active'[h].rev = d_applied'[h]
    <3>1. CASE d_active'[h] = d_active[h] /\ d_applied'[h] = d_applied[h]
      BY <1>0, <2>1, <2>5, <3>1 DEF CopiesOnly, IsCopy
    <3>2. CASE d_active'[h] = v /\ d_applied'[h] = v.rev
      BY <1>0, <2>1, <3>2 DEF CopiesOnly, IsCopy
    <3> QED
      BY <1>0, <1>a, <2>1, <2>5, <3>1, <3>2, DebugTypes
  <2> QED
    BY <1>0, <2>1, <2>2, <2>4, <2>5, CopiesAreCopied DEF CopiesOnly, IsCopy
<1>5. CASE Debug!Expire(g)
  <2>1. /\ UNCHANGED <<d_now, d_row, d_revision, d_mirror, d_operator, d_reader, d_applied, d_faults>>
        /\ d_timer' = [d_timer EXCEPT ![g] = NoSession]
        /\ d_active' = d_active \/ d_active' = [d_active EXCEPT ![g] = NoSession]
    BY <1>0, <1>5, DebugTypes DEF Debug!Expire
  <2>2. Debug!TypeOK'
    BY <1>0, <2>1 DEF Debug!TypeOK, Debug!Settings, Debug!End
  <2>3. \A h \in Gateways : d_active'[h] # NoSession => d_active'[h] = d_active[h]
    BY <1>0, <2>1, DebugTypes
  <2> QED
    BY <1>0, <2>1, <2>2, <2>3, CopiesAreCopied DEF CopiesOnly, IsCopy
<1>6. CASE Debug!Restart(g)
  <2>1. /\ UNCHANGED <<d_now, d_row, d_revision, d_mirror, d_operator>>
        /\ d_faults < MaxFaults /\ d_faults' = d_faults + 1
        /\ d_reader' = [d_reader EXCEPT ![g] = [pc |-> "idle", value |-> Debug!Default]]
        /\ d_applied' = [d_applied EXCEPT ![g] = 0]
        /\ d_active' = [d_active EXCEPT ![g] = NoSession]
        /\ d_timer' = [d_timer EXCEPT ![g] = NoSession]
    BY <1>6 DEF Debug!Restart
  <2>2. d_reader' \in [Gateways -> DebugReaders]
    BY <1>a, <2>1 DEF DebugReaders
  <2>3. /\ d_active' \in [Gateways -> Debug!Settings \cup {NoSession}]
        /\ d_timer' \in [Gateways -> Debug!Settings \cup {NoSession}]
        /\ d_applied' \in [Gateways -> 0 .. Cardinality(Operators) + 1]
    BY <1>0, <1>a, <2>1, DebugTypes
  <2>4. Debug!TypeOK'
    BY <1>0, <1>a, <2>1, <2>2, <2>3, DebugCardinality
    DEF Debug!TypeOK, DebugReaders, Debug!Settings, Debug!End
  <2>5. /\ \A h \in Gateways : IsCopy(d_reader[h].value)'
        /\ \A h \in Gateways : d_active'[h] # NoSession =>
               d_active'[h] = d_active[h] /\ d_applied'[h] = d_applied[h]
    BY <1>0, <1>a, <1>d, <2>1, DebugTypes DEF CopiesOnly, IsCopy
  <2> QED
    BY <1>0, <2>1, <2>4, <2>5, CopiesAreCopied DEF CopiesOnly, IsCopy
<1> QED
  BY <1>1, <1>2, <1>3, <1>4, <1>5, <1>6 DEF Debug!Gateway

LEMMA DebugStep ==
    ASSUME Debug!DebugAssumption, DebugInv, [Debug!Next]_(Debug!vars)
    PROVE  DebugInv'
<1> USE DEF Debug!gateway
<1>0. Debug!TypeOK /\ CopiesOnly /\ RowHasItsRevision /\ CallsReadTheRow /\ UpdatesAreCalls
  BY DEF DebugInv
<1>1. CASE Debug!Tick
  <2>1. /\ d_now < Debug!End /\ d_now' = d_now + 1
        /\ UNCHANGED <<d_row, d_revision, d_mirror, d_operator, d_reader, d_applied,
                       d_active, d_timer, d_faults>>
    BY <1>1 DEF Debug!Tick
  <2>2. Debug!TypeOK'
    <3>1. d_now \in Nat /\ Debug!End \in Nat
      BY <1>0, DebugTypes
    <3>2. d_now' \in 0 .. Debug!End
      BY <2>1, <3>1
    <3> QED
      BY <1>0, <2>1, <3>2 DEF Debug!TypeOK, Debug!Settings, Debug!End
  <2>3. CallsReadTheRow'
    <3>1. \A o \in Operators : d_operator[o].now \in Nat /\ d_now \in Nat
      BY <1>0, DebugTypes DEF DebugOperators
    <3> QED
      BY <1>0, <2>1, <3>1 DEF CallsReadTheRow
  <2> QED
    BY <1>0, <2>1, <2>2, <2>3 DEF DebugInv, CopiesOnly, IsCopy, RowHasItsRevision,
       UpdatesAreCalls, Ended, Debug!Default
<1>2. CASE Debug!RedisRestarts
  <2>1. /\ d_mirror' = NoValue /\ d_faults < MaxFaults /\ d_faults' = d_faults + 1
        /\ UNCHANGED <<d_now, d_row, d_revision, d_operator, d_reader, d_applied, d_active, d_timer>>
    BY <1>2 DEF Debug!RedisRestarts, Debug!Fault
  <2>2. Debug!TypeOK'
    <3>1. d_faults' \in 0 .. MaxFaults
      BY <1>0, <2>1, DebugTypes
    <3> QED
      BY <1>0, <2>1, <3>1 DEF Debug!TypeOK, Debug!Settings, Debug!End
  <2> QED
    BY <1>0, <2>1, <2>2, CopiesAreCopied DEF CopiesOnly, IsCopy
<1>3. CASE UNCHANGED Debug!vars
  BY <1>0, <1>3 DEF Debug!vars, DebugInv, CopiesOnly, IsCopy, RowHasItsRevision,
     CallsReadTheRow, UpdatesAreCalls, Ended, Debug!Default, Debug!TypeOK, Debug!Settings,
     Debug!End
<1> QED
  BY <1>1, <1>2, <1>3, OperateStep, GatewayStep DEF Debug!Next

LEMMA DebugInvHolds ==
    ASSUME Debug!DebugAssumption PROVE Debug!Spec => []DebugInv
<1>1. ASSUME Debug!Init PROVE DebugInv
  <2>1. /\ d_now = 0 /\ d_row = Debug!Default /\ d_revision = 1 /\ d_mirror = NoValue
        /\ d_faults = 0
        /\ d_operator = [o \in Operators |-> [pc |-> "idle", kind |-> "start", now |-> 0,
              tries |-> 0, value |-> Debug!Default, revision |-> 1]]
        /\ d_reader = [g \in Gateways |-> [pc |-> "idle", value |-> Debug!Default]]
        /\ d_applied = [g \in Gateways |-> 0]
        /\ d_active = [g \in Gateways |-> NoSession] /\ d_timer = [g \in Gateways |-> NoSession]
    BY <1>1 DEF Debug!Init
  <2>2. /\ Cardinality(Operators) \in Nat /\ MaxTime \in Nat /\ Duration \in Nat \ {0}
        /\ MaxTries \in Nat \ {0} /\ MaxFaults \in Nat
    BY FS_CardinalityType, DebugFinite DEF Debug!DebugAssumption
  <2>3. Debug!Default \in Debug!Settings
    BY <2>2, DebugCardinality DEF Debug!Default, Debug!Settings
  <2>4. d_operator \in [Operators -> DebugOperators]
    BY <2>1, <2>2, <2>3 DEF DebugOperators
  <2>5. d_reader \in [Gateways -> DebugReaders]
    BY <2>1, <2>3 DEF DebugReaders
  <2>6. Debug!TypeOK
    BY <2>1, <2>2, <2>3, <2>4, <2>5, DebugCardinality
    DEF Debug!TypeOK, DebugOperators, DebugReaders, Debug!End
  <2>7. CopiesOnly
    BY <2>1, <2>3 DEF CopiesOnly, IsCopy, Debug!Default
  <2>8. RowHasItsRevision
    BY <2>1 DEF RowHasItsRevision, Debug!Default
  <2>9. CallsReadTheRow
    BY <2>1, <2>2 DEF CallsReadTheRow
  <2>10. UpdatesAreCalls
    <3>1. Ended = {}
      BY <2>1 DEF Ended
    <3> QED
      BY <2>1, <3>1, FS_EmptySet DEF UpdatesAreCalls
  <2> QED
    BY <2>6, <2>7, <2>8, <2>9, <2>10 DEF DebugInv
<1> QED
  BY <1>1, DebugStep, PTL DEF Debug!Spec

\* A gateway that logs DEBUG does so for the session its operators started last,
\* or for an older one it has not been told the end of (applySession).
THEOREM ActiveWasStartedTheorem ==
    ASSUME Debug!DebugAssumption
    PROVE  Debug!Spec => [](Debug!TypeOK /\ Debug!ActiveWasStarted)
<1>1. DebugInv => Debug!TypeOK /\ Debug!ActiveWasStarted
  BY DEF DebugInv, CopiesOnly, IsCopy, Debug!ActiveWasStarted
<1> QED
  BY <1>1, DebugInvHolds, PTL

\* However far behind the mirror is, a gateway that runs on never goes back to
\* an older setting (appliedRevision).
THEOREM NeverGoesBackTheorem ==
    ASSUME Debug!DebugAssumption PROVE Debug!Spec => Debug!NeverGoesBack
<1>1. ASSUME DebugInv, [Debug!Next]_(Debug!vars), NEW g \in Gateways,
             d_applied'[g] < d_applied[g]
      PROVE  Debug!Restart(g)
  <2>0. Debug!TypeOK
    BY <1>1 DEF DebugInv
  <2>1. d_applied \in [Gateways -> 0 .. Cardinality(Operators) + 1] /\ d_applied[g] \in Nat
    BY <2>0, DebugTypes
  <2>2. d_applied' # d_applied
    BY <1>1, <2>1
  <2>3. PICK h \in Gateways : Debug!Apply(h) \/ Debug!Restart(h)
    BY <1>1, <2>2 DEF Debug!Next, Debug!vars, Debug!gateway, Debug!Tick, Debug!RedisRestarts,
       Debug!Operate, Debug!Call, Debug!ReadRecord, Debug!UpdateAtRevision,
       Debug!PublishCache, Debug!Gateway, Debug!Ask, Debug!LoadRow, Debug!Fill, Debug!Expire
  <2>4. CASE Debug!Apply(h)
    <3>1. d_reader[h].value \in Debug!Settings
      BY <2>0, DebugTypes DEF DebugReaders
    <3>2. d_reader[h].value.rev \in Nat
      BY <2>0, <3>1, DebugTypes
    <3>3. \/ d_applied' = d_applied
          \/ /\ d_applied' = [d_applied EXCEPT ![h] = d_reader[h].value.rev]
             /\ d_reader[h].value.rev >= d_applied[h]
      <4>1. d_applied[h] \in Nat
        BY <2>0, DebugTypes
      <4> QED
        BY <2>4, <3>2, <4>1 DEF Debug!Apply, Debug!ApplyDebugSession,
           Debug!ClearDebugSession, Debug!News, Debug!Clearable
    <3>4. \A k \in Gateways : d_applied'[k] >= d_applied[k]
      BY <2>0, <3>2, <3>3, DebugTypes
    <3> QED
      BY <1>1, <2>1, <3>2, <3>3, <3>4
  <2>5. CASE Debug!Restart(h)
    <3>1. d_applied' = [d_applied EXCEPT ![h] = 0]
      BY <2>5 DEF Debug!Restart
    <3>2. h = g
      BY <1>1, <2>1, <3>1
    <3> QED
      BY <2>5, <3>2
  <2> QED
    BY <2>3, <2>4, <2>5
<1>2. DebugInv /\ [Debug!Next]_(Debug!vars) =>
        [\A g \in Gateways : d_applied'[g] < d_applied[g] => Debug!Restart(g)]_(Debug!vars)
  BY <1>1
<1> QED
  BY <1>2, DebugInvHolds, PTL DEF Debug!Spec, Debug!NeverGoesBack

\* Two operators who start at once share one session: a new one begins only
\* where none was running (UpdateAppSettingAtRevision and its retry).
THEOREM OneSessionTheorem ==
    ASSUME Debug!DebugAssumption PROVE Debug!Spec => Debug!OneSession
<1>1. ASSUME DebugInv, [Debug!Next]_(Debug!vars), d_row'.id \notin {NoSession, d_row.id}
      PROVE  d_row.id = NoSession \/ d_row.expires <= d_now
  <2>0. Debug!TypeOK /\ CallsReadTheRow
    BY <1>1 DEF DebugInv
  <2>1. PICK o \in Operators : Debug!UpdateAtRevision(o)
    BY <1>1 DEF Debug!Next, Debug!vars, Debug!gateway, Debug!Tick, Debug!RedisRestarts,
       Debug!Operate, Debug!Call, Debug!ReadRecord, Debug!PublishCache, Debug!Gateway,
       Debug!Ask, Debug!LoadRow, Debug!Fill, Debug!Apply, Debug!Expire, Debug!Restart
  <2>2. d_operator[o].value = d_row /\ d_row' = Debug!Built(o)
    BY <1>1, <2>0, <2>1 DEF Debug!UpdateAtRevision, Debug!IsCurrent, CallsReadTheRow
  <2>3. d_row.id = NoSession \/ d_row.expires <= d_operator[o].now
    BY <1>1, <2>2 DEF Debug!Built
  <2>4. d_operator[o].now \in Nat /\ d_now \in Nat /\ d_row.expires \in Nat
        /\ d_operator[o].now <= d_now
    BY <2>0, DebugTypes DEF DebugOperators, CallsReadTheRow
  <2> QED
    BY <2>3, <2>4
<1>2. DebugInv /\ [Debug!Next]_(Debug!vars) =>
        [d_row'.id \notin {NoSession, d_row.id} =>
           d_row.id = NoSession \/ d_row.expires <= d_now]_(Debug!vars)
  BY <1>1
<1> QED
  BY <1>2, DebugInvHolds, PTL DEF Debug!Spec, Debug!OneSession

-----------------------------------------------------------------------------
(***************************************************************************)
(* The runtime controls of settings and Channels.                          *)
(***************************************************************************)
VARIABLES r_row, r_op, r_control, r_mark, r_pub, r_rec, r_faults, r_losses

Runtime == INSTANCE RuntimeControl WITH
    row <- r_row, op <- r_op, control <- r_control, mark <- r_mark,
    pub <- r_pub, rec <- r_rec, faults <- r_faults, losses <- r_losses

\* PostgreSQL has decided on this revision and payload, or has since gone on.
Decided(n, payload) == n < r_row.rev \/ (n = r_row.rev /\ payload = r_row.payload)

\* An operation that is durable is decided; one that was not requested yet has
\* left no trace; who commits in Redis commits a durable one.
OperationsAreDecided ==
    \A t \in Ops :
        /\ r_op[t].state \in DurableStates => Decided(r_op[t].current + 1, t)
        /\ r_op[t].state = "none" => r_mark[t] = "none" /\ r_control.pending # t
        /\ r_pub[t] \in {"idle", "create"} => r_op[t].state = "none"
        /\ r_pub[t] \notin {"idle", "create", "done"} => r_op[t].state # "none"
        /\ r_pub[t] \in {"commit", "close"} => r_op[t].state \in DurableStates

\* What a reconciler has in hand, it has read.
PassesAreDecided ==
    \A r \in Reconcilers :
        /\ r_rec[r].pc \in {"payload", "snapshot", "recover", "close"} =>
             /\ r_rec[r].op \in Ops /\ r_op[r_rec[r].op].state # "none"
             /\ r_rec[r].state = "db_committed" => r_op[r_rec[r].op].state \in DurableStates
        /\ r_rec[r].pc \in {"snapshot", "recover"} /\ r_rec[r].state # "db_committed" =>
             Decided(r_op[r_rec[r].op].current, r_rec[r].payload)
        /\ r_rec[r].pc = "restore" => Decided(r_rec[r].rev, r_rec[r].payload)

\* Redis holds what PostgreSQL decided, and a fence pins the revision it was
\* prepared against.
ControlIsDecided ==
    /\ Decided(r_control.rev, r_control.payload)
    /\ r_control.pending \in Ops =>
         r_control.present /\ r_control.rev = r_op[r_control.pending].current

\* As long as Redis loses nothing and no start-up rewrites the control: what
\* anyone calls committed is active in Redis.
CommitsAreActive ==
    r_losses = 0 /\ StartUps = {} =>
        /\ r_control.present
        /\ \A t \in Ops :
             r_mark[t] = "committed" \/ r_pub[t] = "close" \/ r_op[t].state = "committed" =>
                 r_control.rev >= r_op[t].current + 1
        /\ \A r \in Reconcilers :
             r_rec[r].pc = "close" /\ r_rec[r].state = "db_committed" =>
                 r_control.rev >= r_op[r_rec[r].op].current + 1

RuntimeInv ==
    /\ Runtime!TypeOK /\ OperationsAreDecided /\ PassesAreDecided
    /\ ControlIsDecided /\ CommitsAreActive

\* What a step leaves standing of what was decided.
DecisionsStand ==
    /\ r_row' = r_row \/ (r_row'.rev = r_row.rev + 1 /\ r_row'.payload \in Ops)
    /\ \A t \in Ops : r_op[t].state # "none" =>
         /\ r_op'[t].state # "none" /\ r_op'[t].current = r_op[t].current
         /\ r_op[t].state \in DurableStates => r_op'[t].state \in DurableStates

\* What one pass has read, and what it knows to be active.
PassIsDecided(r) ==
    /\ r_rec[r].pc \in {"payload", "snapshot", "recover", "close"} =>
         /\ r_rec[r].op \in Ops /\ r_op[r_rec[r].op].state # "none"
         /\ r_rec[r].state = "db_committed" => r_op[r_rec[r].op].state \in DurableStates
    /\ r_rec[r].pc \in {"snapshot", "recover"} /\ r_rec[r].state # "db_committed" =>
         Decided(r_op[r_rec[r].op].current, r_rec[r].payload)
    /\ r_rec[r].pc = "restore" => Decided(r_rec[r].rev, r_rec[r].payload)

RuntimePasses == [pc : Runtime!ReconcilerCalls, op : Runtime!Payloads,
                  state : Runtime!OpStates, rev : Nat \ {0}, payload : Runtime!Payloads]

LEMMA NextCall ==
    ASSUME NEW f \in [Reconcilers -> RuntimePasses], NEW r \in Reconcilers,
           NEW c \in Runtime!ReconcilerCalls
    PROVE  LET g == [f EXCEPT ![r].pc = c] IN
             /\ g \in [Reconcilers -> RuntimePasses] /\ g[r].pc = c
             /\ g[r].op = f[r].op /\ g[r].state = f[r].state
             /\ g[r].rev = f[r].rev /\ g[r].payload = f[r].payload
             /\ \A q \in Reconcilers \ {r} : g[q] = f[q]
BY DEF RuntimePasses

\* A pass with its next call and two, or one, of the things it has read.
LEMMA ListedPass ==
    ASSUME r_rec \in [Reconcilers -> RuntimePasses], NEW r \in Reconcilers,
           NEW a \in Ops, NEW b \in Runtime!OpStates, NEW c \in Runtime!ReconcilerCalls,
           r_rec' = [r_rec EXCEPT ![r].op = a, ![r].state = b, ![r].pc = c]
    PROVE  /\ r_rec' \in [Reconcilers -> RuntimePasses]
           /\ r_rec'[r].op = a /\ r_rec'[r].state = b /\ r_rec'[r].pc = c
           /\ \A q \in Reconcilers \ {r} : r_rec'[q] = r_rec[q]
<1> DEFINE one == [r_rec EXCEPT ![r].op = a]
           two == [one EXCEPT ![r].state = b]
<1>1. r_rec' = [two EXCEPT ![r].pc = c]
  OBVIOUS
<1>2. /\ one \in [Reconcilers -> RuntimePasses] /\ one[r].op = a
      /\ \A q \in Reconcilers \ {r} : one[q] = r_rec[q]
  BY DEF RuntimePasses, Runtime!Payloads
<1>3. /\ two \in [Reconcilers -> RuntimePasses] /\ two[r].op = a /\ two[r].state = b
      /\ \A q \in Reconcilers \ {r} : two[q] = r_rec[q]
  <2> HIDE DEF one
  <2> QED
    BY <1>2 DEF RuntimePasses
<1> HIDE DEF two
<1> DEFINE next == [two EXCEPT ![r].pc = c]
<1>4. /\ next \in [Reconcilers -> RuntimePasses] /\ next[r].pc = c
      /\ next[r].op = two[r].op /\ next[r].state = two[r].state
      /\ next[r].rev = two[r].rev /\ next[r].payload = two[r].payload
      /\ \A q \in Reconcilers \ {r} : next[q] = two[q]
  BY <1>3, NextCall
<1>5. r_rec' = next
  BY <1>1
<1> HIDE DEF next
<1> QED
  BY <1>3, <1>4, <1>5

LEMMA StablePass ==
    ASSUME r_rec \in [Reconcilers -> RuntimePasses], NEW r \in Reconcilers,
           NEW a \in Nat \ {0}, NEW b \in Runtime!Payloads, NEW c \in Runtime!ReconcilerCalls,
           r_rec' = [r_rec EXCEPT ![r].rev = a, ![r].payload = b, ![r].pc = c]
    PROVE  /\ r_rec' \in [Reconcilers -> RuntimePasses]
           /\ r_rec'[r].rev = a /\ r_rec'[r].payload = b /\ r_rec'[r].pc = c
           /\ \A q \in Reconcilers \ {r} : r_rec'[q] = r_rec[q]
<1> DEFINE one == [r_rec EXCEPT ![r].rev = a]
           two == [one EXCEPT ![r].payload = b]
<1>1. r_rec' = [two EXCEPT ![r].pc = c]
  OBVIOUS
<1>2. /\ one \in [Reconcilers -> RuntimePasses] /\ one[r].rev = a
      /\ \A q \in Reconcilers \ {r} : one[q] = r_rec[q]
  BY DEF RuntimePasses
<1>3. /\ two \in [Reconcilers -> RuntimePasses] /\ two[r].rev = a /\ two[r].payload = b
      /\ \A q \in Reconcilers \ {r} : two[q] = r_rec[q]
  <2> HIDE DEF one
  <2> QED
    BY <1>2 DEF RuntimePasses
<1> HIDE DEF two
<1> DEFINE next == [two EXCEPT ![r].pc = c]
<1>4. /\ next \in [Reconcilers -> RuntimePasses] /\ next[r].pc = c
      /\ next[r].op = two[r].op /\ next[r].state = two[r].state
      /\ next[r].rev = two[r].rev /\ next[r].payload = two[r].payload
      /\ \A q \in Reconcilers \ {r} : next[q] = two[q]
  BY <1>3, NextCall
<1>5. r_rec' = next
  BY <1>1
<1> HIDE DEF next
<1> QED
  BY <1>3, <1>4, <1>5

LEMMA PayloadPass ==
    ASSUME r_rec \in [Reconcilers -> RuntimePasses], NEW r \in Reconcilers,
           NEW b \in Runtime!Payloads, NEW c \in Runtime!ReconcilerCalls,
           r_rec' = [r_rec EXCEPT ![r].payload = b, ![r].pc = c]
    PROVE  /\ r_rec' \in [Reconcilers -> RuntimePasses]
           /\ r_rec'[r].payload = b /\ r_rec'[r].pc = c
           /\ r_rec'[r].op = r_rec[r].op /\ r_rec'[r].state = r_rec[r].state
           /\ \A q \in Reconcilers \ {r} : r_rec'[q] = r_rec[q]
<1> DEFINE one == [r_rec EXCEPT ![r].payload = b]
<1>1. r_rec' = [one EXCEPT ![r].pc = c]
  OBVIOUS
<1>2. /\ one \in [Reconcilers -> RuntimePasses] /\ one[r].payload = b
      /\ one[r].op = r_rec[r].op /\ one[r].state = r_rec[r].state
      /\ \A q \in Reconcilers \ {r} : one[q] = r_rec[q]
  BY DEF RuntimePasses
<1> HIDE DEF one
<1> DEFINE next == [one EXCEPT ![r].pc = c]
<1>3. /\ next \in [Reconcilers -> RuntimePasses] /\ next[r].pc = c
      /\ next[r].op = one[r].op /\ next[r].state = one[r].state
      /\ next[r].rev = one[r].rev /\ next[r].payload = one[r].payload
      /\ \A q \in Reconcilers \ {r} : next[q] = one[q]
  BY <1>2, NextCall
<1>4. r_rec' = next
  BY <1>1
<1> HIDE DEF next
<1> QED
  BY <1>2, <1>3, <1>4

\* A pass that is over, or goes on to the stable controls, has nothing in hand.
LEMMA ClearedPass ==
    ASSUME r_rec \in [Reconcilers -> RuntimePasses], NEW r \in Reconcilers,
           Runtime!RecEnds(r) \/ Runtime!RecStables(r)
    PROVE  /\ r_rec' \in [Reconcilers -> RuntimePasses]
           /\ r_rec'[r].pc \in {"idle", "list"}
           /\ \A q \in Reconcilers \ {r} : r_rec'[q] = r_rec[q]
<1>1. Runtime!Idle \in RuntimePasses /\ Runtime!Idle.pc = "idle"
  BY DEF Runtime!Idle, RuntimePasses, Runtime!Payloads, Runtime!OpStates,
     Runtime!ReconcilerCalls
<1>2. /\ [Runtime!Idle EXCEPT !.pc = "list"] \in RuntimePasses
      /\ [Runtime!Idle EXCEPT !.pc = "list"].pc = "list"
  BY <1>1 DEF RuntimePasses, Runtime!ReconcilerCalls
<1> QED
  BY <1>1, <1>2 DEF Runtime!RecEnds, Runtime!RecStables

LEMMA MovedPass ==
    ASSUME r_rec \in [Reconcilers -> RuntimePasses], NEW r \in Reconcilers,
           NEW c \in Runtime!ReconcilerCalls, Runtime!RecGoto(r, c)
    PROVE  /\ r_rec' \in [Reconcilers -> RuntimePasses]
           /\ r_rec'[r] = [r_rec[r] EXCEPT !.pc = c] /\ r_rec'[r].pc = c
           /\ r_rec'[r].op = r_rec[r].op /\ r_rec'[r].state = r_rec[r].state
           /\ r_rec'[r].payload = r_rec[r].payload
           /\ \A q \in Reconcilers \ {r} : r_rec'[q] = r_rec[q]
BY DEF Runtime!RecGoto, RuntimePasses

LEMMA RuntimeCharges ==
    ASSUME Runtime!RuntimeControlAssumption, r_faults \in 0 .. MaxFaults, NEW outcome,
           Runtime!Charge(outcome) \/ Runtime!Fault
    PROVE  r_faults' \in 0 .. MaxFaults
BY DEF Runtime!Charge, Runtime!Fault, Runtime!RuntimeControlAssumption

LEMMA OperationCloses ==
    ASSUME Runtime!TypeOK, NEW t \in Ops,
           Runtime!MarkCommittedRow(t) \/ Runtime!MarkAbortedRow(t)
    PROVE  /\ r_op' \in [Ops -> [state : Runtime!OpStates, current : Nat \ {0}]]
           /\ \A u \in Ops : r_op'[u].current = r_op[u].current
           /\ \A u \in Ops :
                \/ r_op'[u].state = r_op[u].state
                \/ /\ u = t /\ Runtime!MarkCommittedRow(t)
                   /\ r_op[u].state = "db_committed" /\ r_op'[u].state = "committed"
                \/ r_op[u].state \in {"preparing", "prepared"} /\ r_op'[u].state = "aborted"
<1>1. CASE Runtime!MarkCommittedRow(t)
  BY <1>1 DEF Runtime!TypeOK, Runtime!OpStates, Runtime!MarkCommittedRow
<1>2. CASE Runtime!MarkAbortedRow(t)
  BY <1>2 DEF Runtime!TypeOK, Runtime!OpStates, Runtime!MarkAbortedRow
<1> QED
  BY <1>1, <1>2

LEMMA OperationAborts ==
    ASSUME Runtime!TypeOK, NEW t \in Ops, Runtime!MarkAbortedRow(t)
    PROVE  \A u \in Ops :
                \/ r_op'[u].state = r_op[u].state
                \/ r_op[u].state \in {"preparing", "prepared"} /\ r_op'[u].state = "aborted"
BY DEF Runtime!TypeOK, Runtime!OpStates, Runtime!MarkAbortedRow

\* control_commit.lua activates the payload of the fence it finds, or changes nothing.
LEMMA RuntimeCommits ==
    ASSUME Runtime!TypeOK, NEW t \in Ops, Runtime!DoCommit(t) \/ UNCHANGED <<r_control, r_mark>>
    PROVE  /\ r_control' \in [present : BOOLEAN, rev : Nat \ {0}, payload : Runtime!Payloads,
                              pending : Runtime!Payloads]
           /\ r_mark' \in [Ops -> Runtime!Marks]
           /\ r_control'.present = r_control.present
           /\ \/ UNCHANGED <<r_control, r_mark>>
              \/ /\ r_mark[t] = "prepared" /\ r_control.pending = t
                 /\ r_control'.rev = r_op[t].current + 1 /\ r_control'.payload = t
                 /\ r_control'.pending = NoOp
                 /\ r_mark'[t] = "committed" /\ \A u \in Ops \ {t} : r_mark'[u] = r_mark[u]
<1>1. r_op[t].current + 1 \in Nat \ {0}
  BY DEF Runtime!TypeOK
<1>2. CASE UNCHANGED <<r_control, r_mark>>
  BY <1>2 DEF Runtime!TypeOK
<1>3. CASE /\ r_mark[t] = "prepared" /\ r_control.pending = t
           /\ r_control' = [r_control EXCEPT !.rev = r_op[t].current + 1, !.payload = t,
                                            !.pending = NoOp]
           /\ r_mark' = [r_mark EXCEPT ![t] = "committed"]
  BY <1>1, <1>3 DEF Runtime!TypeOK, Runtime!Payloads, Runtime!Marks
<1> QED
  BY <1>2, <1>3 DEF Runtime!DoCommit, Runtime!NextRevision

LEMMA RuntimeActivates ==
    ASSUME NEW n \in Nat \ {0}, NEW p \in Runtime!Payloads, r_control' = Runtime!Active(n, p)
    PROVE  /\ r_control' \in [present : BOOLEAN, rev : Nat \ {0}, payload : Runtime!Payloads,
                              pending : Runtime!Payloads]
           /\ r_control'.present /\ r_control'.rev = n /\ r_control'.payload = p
           /\ r_control'.pending = NoOp
BY DEF Runtime!Active, Runtime!Payloads

LEMMA PassesStand ==
    ASSUME RuntimeInv, DecisionsStand, UNCHANGED r_rec
    PROVE  PassesAreDecided'
BY DEF RuntimeInv, DecisionsStand, PassesAreDecided, Decided, Runtime!TypeOK

\* The step of one reconciler: what the others read still stands.
LEMMA PassStands ==
    ASSUME RuntimeInv, DecisionsStand, NEW r \in Reconcilers, PassIsDecided(r)',
           \A q \in Reconcilers \ {r} : r_rec'[q] = r_rec[q]
    PROVE  PassesAreDecided'
<1> SUFFICES ASSUME NEW q \in Reconcilers PROVE PassIsDecided(q)'
  BY DEF PassIsDecided, PassesAreDecided, Decided
<1>1. CASE q = r
  BY <1>1
<1>2. CASE q # r
  <2>1. r_rec'[q] = r_rec[q] /\ PassIsDecided(q)
    BY <1>2 DEF RuntimeInv, PassesAreDecided, PassIsDecided, Decided
  <2> QED
    BY <2>1 DEF RuntimeInv, DecisionsStand, PassIsDecided, Decided, Runtime!TypeOK
<1> QED
  BY <1>1, <1>2

LEMMA RuntimeStep ==
    ASSUME Runtime!RuntimeControlAssumption, RuntimeInv, [Runtime!Next]_(Runtime!vars)
    PROVE  RuntimeInv'
<1> USE DEF Runtime!Goto, Runtime!NextRevision, DurableStates
<1>0. /\ Runtime!RuntimeControlAssumption
      /\ Runtime!TypeOK /\ OperationsAreDecided /\ PassesAreDecided
      /\ ControlIsDecided /\ CommitsAreActive
      /\ NoOp \notin Ops /\ MaxFaults \in Nat /\ MaxLosses \in Nat
  BY DEF RuntimeInv, Runtime!RuntimeControlAssumption
<1>t. /\ r_row \in [rev : Nat \ {0}, payload : Runtime!Payloads]
      /\ r_op \in [Ops -> [state : Runtime!OpStates, current : Nat \ {0}]]
      /\ r_control \in [present : BOOLEAN, rev : Nat \ {0}, payload : Runtime!Payloads,
                        pending : Runtime!Payloads]
      /\ r_mark \in [Ops -> Runtime!Marks]
      /\ r_pub \in [Ops -> Runtime!PublisherCalls]
      /\ r_rec \in [Reconcilers -> RuntimePasses]
      /\ r_faults \in 0 .. MaxFaults /\ r_losses \in 0 .. MaxLosses
  BY <1>0 DEF Runtime!TypeOK, RuntimePasses
<1>1. ASSUME NEW t \in Ops, Runtime!Request(t) PROVE RuntimeInv'
  <2>1. /\ r_pub[t] = "idle" /\ r_pub' = [r_pub EXCEPT ![t] = "create"]
        /\ r_op' = [r_op EXCEPT ![t].current = r_row.rev]
        /\ UNCHANGED <<r_row, r_control, r_mark, r_rec, r_faults, r_losses>>
    <3>1. r_pub[t] = "idle" /\ r_pub' = [r_pub EXCEPT ![t] = "create"]
      BY <1>1, <1>t DEF Runtime!Request
    <3>2. r_op' = [r_op EXCEPT ![t].current = r_row.rev]
      BY <1>1, <1>t DEF Runtime!Request
    <3>3. UNCHANGED <<r_row, r_control, r_mark, r_rec, r_faults, r_losses>>
      BY <1>1, <1>t DEF Runtime!Request
    <3> QED
      BY <3>1, <3>2, <3>3
  <2>2. Runtime!TypeOK'
    <3>2. r_op' \in [Ops -> [state : Runtime!OpStates, current : Nat \ {0}]]
      BY <1>t, <1>0, <2>1 DEF Runtime!OpStates, OperationsAreDecided, PassesAreDecided
    <3>5. r_pub' \in [Ops -> Runtime!PublisherCalls]
      BY <1>t, <1>0, <2>1 DEF Runtime!PublisherCalls, OperationsAreDecided,
         PassesAreDecided
    <3> QED
      BY <1>t, <2>1, <3>2, <3>5 DEF Runtime!TypeOK, RuntimePasses
  <2>3. DecisionsStand
    BY <1>0, <1>t, <2>1 DEF DecisionsStand, OperationsAreDecided, PassesAreDecided
  <2>4. OperationsAreDecided'
    BY <1>0, <1>t, <2>1 DEF OperationsAreDecided, PassesAreDecided, ControlIsDecided,
       Decided, Runtime!Payloads, Runtime!OpStates, Runtime!Marks,
       Runtime!PublisherCalls, Runtime!ReconcilerCalls, RuntimePasses
  <2>5. PassesAreDecided'
    BY <2>1, <2>3, PassesStand
  <2>6. ControlIsDecided'
    BY <1>0, <1>t, <2>1 DEF ControlIsDecided, OperationsAreDecided, PassesAreDecided,
       Decided, Runtime!Payloads, Runtime!OpStates, Runtime!Marks,
       Runtime!PublisherCalls, Runtime!ReconcilerCalls, RuntimePasses
  <2>7. CommitsAreActive'
    <3> SUFFICES ASSUME r_losses' = 0, StartUps = {}
                 PROVE  CommitsAreActive'
      BY DEF CommitsAreActive
    <3>1. r_losses = 0 /\ r_control.present
      BY <1>0, <1>t, <2>1 DEF CommitsAreActive
    <3>2. r_control'.present /\ r_control'.rev >= r_control.rev
      BY <1>0, <1>t, <2>1, <3>1 DEF CommitsAreActive, PassesAreDecided
    <3>3. ASSUME NEW u \in Ops,
                 r_mark'[u] = "committed" \/ r_pub'[u] = "close" \/ r_op'[u].state = "committed"
          PROVE  r_control'.rev >= r_op'[u].current + 1
      BY <1>0, <1>t, <2>1, <3>1, <3>2, <3>3 DEF CommitsAreActive,
         OperationsAreDecided, PassesAreDecided
    <3>4. ASSUME NEW q \in Reconcilers,
                 r_rec'[q].pc = "close", r_rec'[q].state = "db_committed"
          PROVE  r_control'.rev >= r_op'[r_rec'[q].op].current + 1
      BY <1>0, <1>t, <2>1, <3>1, <3>2, <3>4 DEF CommitsAreActive, PassesAreDecided,
         OperationsAreDecided
    <3> QED
      BY <3>2, <3>3, <3>4 DEF CommitsAreActive
  <2> QED
    BY <2>2, <2>4, <2>5, <2>6, <2>7 DEF RuntimeInv
<1>2. ASSUME NEW t \in Ops, Runtime!Create(t) PROVE RuntimeInv'
  <2>1. /\ r_pub[t] = "create"
        /\ \/ /\ r_op' = [r_op EXCEPT ![t].state = "preparing"]
              /\ r_pub' = [r_pub EXCEPT ![t] = "prepare"]
           \/ UNCHANGED r_op /\ r_pub' = [r_pub EXCEPT ![t] = "done"]
        /\ UNCHANGED <<r_row, r_control, r_mark, r_rec, r_faults, r_losses>>
    <3>1. r_pub[t] = "create"
      BY <1>2, <1>t DEF Runtime!Create
    <3>2. \/ /\ r_op' = [r_op EXCEPT ![t].state = "preparing"]
             /\ r_pub' = [r_pub EXCEPT ![t] = "prepare"]
          \/ UNCHANGED r_op /\ r_pub' = [r_pub EXCEPT ![t] = "done"]
      BY <1>2 DEF Runtime!Create
    <3>3. UNCHANGED <<r_row, r_control, r_mark, r_rec, r_faults, r_losses>>
      BY <1>2, <1>t DEF Runtime!Create
    <3> QED
      BY <3>1, <3>2, <3>3
  <2>2. Runtime!TypeOK'
    <3>2. r_op' \in [Ops -> [state : Runtime!OpStates, current : Nat \ {0}]]
      BY <1>t, <1>0, <2>1 DEF Runtime!OpStates, OperationsAreDecided, PassesAreDecided
    <3>5. r_pub' \in [Ops -> Runtime!PublisherCalls]
      BY <1>t, <1>0, <2>1 DEF Runtime!PublisherCalls, OperationsAreDecided,
         PassesAreDecided
    <3> QED
      BY <1>t, <2>1, <3>2, <3>5 DEF Runtime!TypeOK, RuntimePasses
  <2>3. DecisionsStand
    BY <1>0, <1>t, <2>1 DEF DecisionsStand, OperationsAreDecided, PassesAreDecided
  <2>4. OperationsAreDecided'
    BY <1>0, <1>t, <2>1 DEF OperationsAreDecided, PassesAreDecided, ControlIsDecided,
       Decided, Runtime!Payloads, Runtime!OpStates, Runtime!Marks,
       Runtime!PublisherCalls, Runtime!ReconcilerCalls, RuntimePasses
  <2>5. PassesAreDecided'
    BY <2>1, <2>3, PassesStand
  <2>6. ControlIsDecided'
    BY <1>0, <1>t, <2>1 DEF ControlIsDecided, OperationsAreDecided, PassesAreDecided,
       Decided, Runtime!Payloads, Runtime!OpStates, Runtime!Marks,
       Runtime!PublisherCalls, Runtime!ReconcilerCalls, RuntimePasses
  <2>7. CommitsAreActive'
    <3> SUFFICES ASSUME r_losses' = 0, StartUps = {}
                 PROVE  CommitsAreActive'
      BY DEF CommitsAreActive
    <3>1. r_losses = 0 /\ r_control.present
      BY <1>0, <1>t, <2>1 DEF CommitsAreActive
    <3>2. r_control'.present /\ r_control'.rev >= r_control.rev
      BY <1>0, <1>t, <2>1, <3>1 DEF CommitsAreActive, PassesAreDecided
    <3>3. ASSUME NEW u \in Ops,
                 r_mark'[u] = "committed" \/ r_pub'[u] = "close" \/ r_op'[u].state = "committed"
          PROVE  r_control'.rev >= r_op'[u].current + 1
      BY <1>0, <1>t, <2>1, <3>1, <3>2, <3>3 DEF CommitsAreActive,
         OperationsAreDecided, PassesAreDecided
    <3>4. ASSUME NEW q \in Reconcilers,
                 r_rec'[q].pc = "close", r_rec'[q].state = "db_committed"
          PROVE  r_control'.rev >= r_op'[r_rec'[q].op].current + 1
      BY <1>0, <1>t, <2>1, <3>1, <3>2, <3>4 DEF CommitsAreActive, PassesAreDecided,
         OperationsAreDecided
    <3> QED
      BY <3>2, <3>3, <3>4 DEF CommitsAreActive
  <2> QED
    BY <2>2, <2>4, <2>5, <2>6, <2>7 DEF RuntimeInv
<1>3. ASSUME NEW t \in Ops, NEW outcome \in Runtime!Outcomes, Runtime!Prepare(t, outcome) PROVE RuntimeInv'
  <2>1. /\ r_pub[t] = "prepare"
        /\ \E to \in {"abort", "mark", "done"} : r_pub' = [r_pub EXCEPT ![t] = to]
        /\ \/ /\ r_mark[t] = "none" /\ r_control.present /\ r_control.rev = r_op[t].current
              /\ r_control' = [r_control EXCEPT !.pending = t]
              /\ r_mark' = [r_mark EXCEPT ![t] = "prepared"]
           \/ UNCHANGED <<r_control, r_mark>>
        /\ r_faults' \in 0 .. MaxFaults
        /\ UNCHANGED <<r_row, r_op, r_rec, r_losses>>
    <3>1. r_pub[t] = "prepare"
      BY <1>3, <1>t DEF Runtime!Prepare, Runtime!DoPrepare, Runtime!PrepareReply,
         Runtime!Charge, Runtime!Fault, Runtime!Outcomes
    <3>2. \E to \in {"abort", "mark", "done"} : r_pub' = [r_pub EXCEPT ![t] = to]
      <4>1. CASE outcome # "answered"
        BY <1>3, <4>1 DEF Runtime!Prepare
      <4>2. CASE outcome = "answered" /\ Runtime!PrepareReply(t) = "prepared"
        BY <1>3, <4>2 DEF Runtime!Prepare
      <4>3. CASE outcome = "answered" /\ Runtime!PrepareReply(t) = "committed"
        BY <1>3, <4>3 DEF Runtime!Prepare
      <4>4. CASE /\ outcome = "answered"
                 /\ Runtime!PrepareReply(t) \notin {"prepared", "committed"}
        BY <1>3, <4>4 DEF Runtime!Prepare
      <4> QED
        BY <4>1, <4>2, <4>3, <4>4
    <3>3. \/ /\ r_mark[t] = "none" /\ r_control.present /\ r_control.rev = r_op[t].current
             /\ r_control' = [r_control EXCEPT !.pending = t]
             /\ r_mark' = [r_mark EXCEPT ![t] = "prepared"]
          \/ UNCHANGED <<r_control, r_mark>>
      BY <1>3, <1>t DEF Runtime!Prepare, Runtime!DoPrepare, Runtime!PrepareReply,
         Runtime!Charge, Runtime!Fault, Runtime!Outcomes
    <3>c. Runtime!Charge(outcome)
      BY <1>3 DEF Runtime!Prepare
    <3>4. r_faults' \in 0 .. MaxFaults
      BY <1>0, <1>t, <3>c, RuntimeCharges
    <3>5. UNCHANGED <<r_row, r_op, r_rec, r_losses>>
      BY <1>3, <1>t DEF Runtime!Prepare, Runtime!DoPrepare, Runtime!PrepareReply,
         Runtime!Charge, Runtime!Fault, Runtime!Outcomes
    <3> QED
      BY <3>1, <3>2, <3>3, <3>4, <3>5
  <2>2. Runtime!TypeOK'
    <3>3. r_control' \in [present : BOOLEAN, rev : Nat \ {0}, payload : Runtime!Payloads,
                         pending : Runtime!Payloads]
      BY <1>t, <1>0, <2>1 DEF Runtime!Payloads, OperationsAreDecided, PassesAreDecided
    <3>4. r_mark' \in [Ops -> Runtime!Marks]
      BY <1>t, <1>0, <2>1 DEF Runtime!Marks, OperationsAreDecided, PassesAreDecided
    <3>5. r_pub' \in [Ops -> Runtime!PublisherCalls]
      BY <1>t, <1>0, <2>1 DEF Runtime!PublisherCalls, OperationsAreDecided,
         PassesAreDecided
    <3> QED
      BY <1>t, <2>1, <3>3, <3>4, <3>5 DEF Runtime!TypeOK, RuntimePasses
  <2>3. DecisionsStand
    BY <1>0, <1>t, <2>1 DEF DecisionsStand, OperationsAreDecided, PassesAreDecided
  <2>4. OperationsAreDecided'
    BY <1>0, <1>t, <2>1 DEF OperationsAreDecided, PassesAreDecided, ControlIsDecided,
       Decided, Runtime!Payloads, Runtime!OpStates, Runtime!Marks,
       Runtime!PublisherCalls, Runtime!ReconcilerCalls, RuntimePasses
  <2>5. PassesAreDecided'
    BY <2>1, <2>3, PassesStand
  <2>6. ControlIsDecided'
    BY <1>0, <1>t, <2>1 DEF ControlIsDecided, OperationsAreDecided, PassesAreDecided,
       Decided, Runtime!Payloads, Runtime!OpStates, Runtime!Marks,
       Runtime!PublisherCalls, Runtime!ReconcilerCalls, RuntimePasses
  <2>7. CommitsAreActive'
    <3> SUFFICES ASSUME r_losses' = 0, StartUps = {}
                 PROVE  CommitsAreActive'
      BY DEF CommitsAreActive
    <3>1. r_losses = 0 /\ r_control.present
      BY <1>0, <1>t, <2>1 DEF CommitsAreActive
    <3>2. r_control'.present /\ r_control'.rev >= r_control.rev
      BY <1>0, <1>t, <2>1, <3>1 DEF CommitsAreActive, PassesAreDecided
    <3>3. ASSUME NEW u \in Ops,
                 r_mark'[u] = "committed" \/ r_pub'[u] = "close" \/ r_op'[u].state = "committed"
          PROVE  r_control'.rev >= r_op'[u].current + 1
      BY <1>0, <1>t, <2>1, <3>1, <3>2, <3>3 DEF CommitsAreActive,
         OperationsAreDecided, PassesAreDecided
    <3>4. ASSUME NEW q \in Reconcilers,
                 r_rec'[q].pc = "close", r_rec'[q].state = "db_committed"
          PROVE  r_control'.rev >= r_op'[r_rec'[q].op].current + 1
      BY <1>0, <1>t, <2>1, <3>1, <3>2, <3>4 DEF CommitsAreActive, PassesAreDecided,
         OperationsAreDecided
    <3> QED
      BY <3>2, <3>3, <3>4 DEF CommitsAreActive
  <2> QED
    BY <2>2, <2>4, <2>5, <2>6, <2>7 DEF RuntimeInv
<1>4. ASSUME NEW t \in Ops, Runtime!MarkPrepared(t) PROVE RuntimeInv'
  <2>1. /\ r_pub[t] = "mark" /\ r_pub' = [r_pub EXCEPT ![t] = "business"]
        /\ r_op' = IF r_op[t].state = "preparing"
                   THEN [r_op EXCEPT ![t].state = "prepared"] ELSE r_op
        /\ UNCHANGED <<r_row, r_control, r_mark, r_rec, r_faults, r_losses>>
    <3>1. r_pub[t] = "mark" /\ r_pub' = [r_pub EXCEPT ![t] = "business"]
      BY <1>4, <1>t DEF Runtime!MarkPrepared
    <3>2. r_op' = IF r_op[t].state = "preparing"
                  THEN [r_op EXCEPT ![t].state = "prepared"] ELSE r_op
      BY <1>4, <1>t DEF Runtime!MarkPrepared
    <3>3. UNCHANGED <<r_row, r_control, r_mark, r_rec, r_faults, r_losses>>
      BY <1>4, <1>t DEF Runtime!MarkPrepared
    <3> QED
      BY <3>1, <3>2, <3>3
  <2>2. Runtime!TypeOK'
    <3>2. r_op' \in [Ops -> [state : Runtime!OpStates, current : Nat \ {0}]]
      BY <1>t, <1>0, <2>1 DEF Runtime!OpStates, OperationsAreDecided, PassesAreDecided
    <3>5. r_pub' \in [Ops -> Runtime!PublisherCalls]
      BY <1>t, <1>0, <2>1 DEF Runtime!PublisherCalls, OperationsAreDecided,
         PassesAreDecided
    <3> QED
      BY <1>t, <2>1, <3>2, <3>5 DEF Runtime!TypeOK, RuntimePasses
  <2>3. DecisionsStand
    BY <1>0, <1>t, <2>1 DEF DecisionsStand, OperationsAreDecided, PassesAreDecided
  <2>4. OperationsAreDecided'
    BY <1>0, <1>t, <2>1 DEF OperationsAreDecided, PassesAreDecided, ControlIsDecided,
       Decided, Runtime!Payloads, Runtime!OpStates, Runtime!Marks,
       Runtime!PublisherCalls, Runtime!ReconcilerCalls, RuntimePasses
  <2>5. PassesAreDecided'
    BY <2>1, <2>3, PassesStand
  <2>6. ControlIsDecided'
    BY <1>0, <1>t, <2>1 DEF ControlIsDecided, OperationsAreDecided, PassesAreDecided,
       Decided, Runtime!Payloads, Runtime!OpStates, Runtime!Marks,
       Runtime!PublisherCalls, Runtime!ReconcilerCalls, RuntimePasses
  <2>7. CommitsAreActive'
    <3> SUFFICES ASSUME r_losses' = 0, StartUps = {}
                 PROVE  CommitsAreActive'
      BY DEF CommitsAreActive
    <3>1. r_losses = 0 /\ r_control.present
      BY <1>0, <1>t, <2>1 DEF CommitsAreActive
    <3>2. r_control'.present /\ r_control'.rev >= r_control.rev
      BY <1>0, <1>t, <2>1, <3>1 DEF CommitsAreActive, PassesAreDecided
    <3>3. ASSUME NEW u \in Ops,
                 r_mark'[u] = "committed" \/ r_pub'[u] = "close" \/ r_op'[u].state = "committed"
          PROVE  r_control'.rev >= r_op'[u].current + 1
      BY <1>0, <1>t, <2>1, <3>1, <3>2, <3>3 DEF CommitsAreActive,
         OperationsAreDecided, PassesAreDecided
    <3>4. ASSUME NEW q \in Reconcilers,
                 r_rec'[q].pc = "close", r_rec'[q].state = "db_committed"
          PROVE  r_control'.rev >= r_op'[r_rec'[q].op].current + 1
      BY <1>0, <1>t, <2>1, <3>1, <3>2, <3>4 DEF CommitsAreActive, PassesAreDecided,
         OperationsAreDecided
    <3> QED
      BY <3>2, <3>3, <3>4 DEF CommitsAreActive
  <2> QED
    BY <2>2, <2>4, <2>5, <2>6, <2>7 DEF RuntimeInv
<1>5. ASSUME NEW t \in Ops, NEW outcome \in Runtime!Outcomes, Runtime!CommitBusiness(t, outcome) PROVE RuntimeInv'
  <2>1. /\ r_pub[t] = "business"
        /\ \/ /\ r_row.rev = r_op[t].current /\ r_op[t].state = "prepared"
              /\ r_row' = [rev |-> r_op[t].current + 1, payload |-> t]
              /\ r_op' = [r_op EXCEPT ![t].state = "db_committed"]
              /\ \E to \in {"commit", "abort"} : r_pub' = [r_pub EXCEPT ![t] = to]
           \/ /\ r_pub' = [r_pub EXCEPT ![t] = "abort"]
              /\ UNCHANGED <<r_row, r_op>>
        /\ r_faults' \in 0 .. MaxFaults
        /\ UNCHANGED <<r_control, r_mark, r_rec, r_losses>>
    <3>1. r_pub[t] = "business"
      BY <1>5, <1>t DEF Runtime!CommitBusiness, Runtime!Charge, Runtime!Fault,
         Runtime!Outcomes
    <3>2. \/ /\ r_row.rev = r_op[t].current /\ r_op[t].state = "prepared"
             /\ r_row' = [rev |-> r_op[t].current + 1, payload |-> t]
             /\ r_op' = [r_op EXCEPT ![t].state = "db_committed"]
             /\ \E to \in {"commit", "abort"} : r_pub' = [r_pub EXCEPT ![t] = to]
          \/ /\ r_pub' = [r_pub EXCEPT ![t] = "abort"]
             /\ UNCHANGED <<r_row, r_op>>
      BY <1>5, <1>t DEF Runtime!CommitBusiness, Runtime!Charge, Runtime!Fault,
         Runtime!Outcomes
    <3>c. Runtime!Charge(outcome)
      BY <1>5 DEF Runtime!CommitBusiness
    <3>3. r_faults' \in 0 .. MaxFaults
      BY <1>0, <1>t, <3>c, RuntimeCharges
    <3>4. UNCHANGED <<r_control, r_mark, r_rec, r_losses>>
      BY <1>5, <1>t DEF Runtime!CommitBusiness, Runtime!Charge, Runtime!Fault,
         Runtime!Outcomes
    <3> QED
      BY <3>1, <3>2, <3>3, <3>4
  <2>2. Runtime!TypeOK'
    <3>1. r_row' \in [rev : Nat \ {0}, payload : Runtime!Payloads]
      BY <1>t, <1>0, <2>1 DEF Runtime!Payloads, OperationsAreDecided, PassesAreDecided
    <3>2. r_op' \in [Ops -> [state : Runtime!OpStates, current : Nat \ {0}]]
      BY <1>t, <1>0, <2>1 DEF Runtime!OpStates, OperationsAreDecided, PassesAreDecided
    <3>5. r_pub' \in [Ops -> Runtime!PublisherCalls]
      BY <1>t, <1>0, <2>1 DEF Runtime!PublisherCalls, OperationsAreDecided,
         PassesAreDecided
    <3> QED
      BY <1>t, <2>1, <3>1, <3>2, <3>5 DEF Runtime!TypeOK, RuntimePasses
  <2>3. DecisionsStand
    BY <1>0, <1>t, <2>1 DEF DecisionsStand, OperationsAreDecided, PassesAreDecided
  <2>4. OperationsAreDecided'
    BY <1>0, <1>t, <2>1 DEF OperationsAreDecided, PassesAreDecided, ControlIsDecided,
       Decided, Runtime!Payloads, Runtime!OpStates, Runtime!Marks,
       Runtime!PublisherCalls, Runtime!ReconcilerCalls, RuntimePasses
  <2>5. PassesAreDecided'
    BY <2>1, <2>3, PassesStand
  <2>6. ControlIsDecided'
    BY <1>0, <1>t, <2>1 DEF ControlIsDecided, OperationsAreDecided, PassesAreDecided,
       Decided, Runtime!Payloads, Runtime!OpStates, Runtime!Marks,
       Runtime!PublisherCalls, Runtime!ReconcilerCalls, RuntimePasses
  <2>7. CommitsAreActive'
    <3> SUFFICES ASSUME r_losses' = 0, StartUps = {}
                 PROVE  CommitsAreActive'
      BY DEF CommitsAreActive
    <3>1. r_losses = 0 /\ r_control.present
      BY <1>0, <1>t, <2>1 DEF CommitsAreActive
    <3>2. r_control'.present /\ r_control'.rev >= r_control.rev
      BY <1>0, <1>t, <2>1, <3>1 DEF CommitsAreActive, PassesAreDecided
    <3>3. ASSUME NEW u \in Ops,
                 r_mark'[u] = "committed" \/ r_pub'[u] = "close" \/ r_op'[u].state = "committed"
          PROVE  r_control'.rev >= r_op'[u].current + 1
      BY <1>0, <1>t, <2>1, <3>1, <3>2, <3>3 DEF CommitsAreActive,
         OperationsAreDecided, PassesAreDecided
    <3>4. ASSUME NEW q \in Reconcilers,
                 r_rec'[q].pc = "close", r_rec'[q].state = "db_committed"
          PROVE  r_control'.rev >= r_op'[r_rec'[q].op].current + 1
      BY <1>0, <1>t, <2>1, <3>1, <3>2, <3>4 DEF CommitsAreActive, PassesAreDecided,
         OperationsAreDecided
    <3> QED
      BY <3>2, <3>3, <3>4 DEF CommitsAreActive
  <2> QED
    BY <2>2, <2>4, <2>5, <2>6, <2>7 DEF RuntimeInv
<1>6. ASSUME NEW t \in Ops, NEW outcome \in Runtime!Outcomes, Runtime!CommitControl(t, outcome) PROVE RuntimeInv'
  <2>a1. r_pub[t] = "commit" /\ UNCHANGED <<r_row, r_op, r_rec, r_losses>>
    BY <1>6 DEF Runtime!CommitControl
  <2>a2. r_faults' \in 0 .. MaxFaults
    <3>1. Runtime!Charge(outcome)
      BY <1>6 DEF Runtime!CommitControl
    <3> QED
      BY <1>0, <1>t, <3>1, RuntimeCharges
  <2>a3. Runtime!DoCommit(t) \/ UNCHANGED <<r_control, r_mark>>
    BY <1>6 DEF Runtime!CommitControl
  <2>a4. /\ r_control' \in [present : BOOLEAN, rev : Nat \ {0}, payload : Runtime!Payloads,
                             pending : Runtime!Payloads]
         /\ r_mark' \in [Ops -> Runtime!Marks]
         /\ r_control'.present = r_control.present
         /\ \/ UNCHANGED <<r_control, r_mark>>
            \/ /\ r_mark[t] = "prepared" /\ r_control.pending = t
               /\ r_control'.rev = r_op[t].current + 1 /\ r_control'.payload = t
               /\ r_control'.pending = NoOp
               /\ r_mark'[t] = "committed" /\ \A u \in Ops \ {t} : r_mark'[u] = r_mark[u]
    BY <1>0, <2>a3, RuntimeCommits
  <2>a5. /\ r_pub' \in [Ops -> Runtime!PublisherCalls] /\ r_pub'[t] \in {"done", "close"}
         /\ \A u \in Ops \ {t} : r_pub'[u] = r_pub[u]
    BY <1>6, <1>t DEF Runtime!CommitControl, Runtime!PublisherCalls
  <2>a6. r_pub'[t] = "close" => r_mark'[t] = "committed"
    <3> SUFFICES ASSUME r_pub'[t] = "close" PROVE r_mark'[t] = "committed"
      OBVIOUS
    <3>1. outcome = "answered" /\ Runtime!CommitReply(t) = "committed" /\ Runtime!DoCommit(t)
      BY <1>6, <1>t DEF Runtime!CommitControl
    <3>2. r_mark[t] \in Runtime!Marks
      BY <1>t
    <3>3. \/ r_mark[t] = "committed"
          \/ r_mark[t] = "prepared" /\ r_control.pending = t
      BY <3>1, <3>2 DEF Runtime!CommitReply, Runtime!Marks
    <3> QED
      BY <1>t, <3>1, <3>3 DEF Runtime!DoCommit
  <2>2. Runtime!TypeOK'
    BY <1>t, <2>a1, <2>a2, <2>a3, <2>a4, <2>a5, <2>a6 DEF Runtime!TypeOK,
       RuntimePasses, Runtime!PublisherCalls, Runtime!Payloads, Runtime!Marks
  <2>3. DecisionsStand
    BY <1>0, <1>t, <2>a1, <2>a2, <2>a3, <2>a4, <2>a5, <2>a6 DEF DecisionsStand,
       OperationsAreDecided, PassesAreDecided
  <2>4. OperationsAreDecided'
    BY <1>0, <1>t, <2>a1, <2>a2, <2>a3, <2>a4, <2>a5, <2>a6 DEF OperationsAreDecided,
       PassesAreDecided, ControlIsDecided, Decided
  <2>5. PassesAreDecided'
    BY <2>3, <2>a1, <2>a2, <2>a3, <2>a4, <2>a5, <2>a6, PassesStand
  <2>6. ControlIsDecided'
    BY <1>0, <1>t, <2>a1, <2>a2, <2>a3, <2>a4, <2>a5, <2>a6 DEF ControlIsDecided,
       OperationsAreDecided, PassesAreDecided, Decided, Runtime!Payloads
  <2>7. CommitsAreActive'
    <3> SUFFICES ASSUME r_losses' = 0, StartUps = {}
                 PROVE  CommitsAreActive'
      BY DEF CommitsAreActive
    <3>1. r_losses = 0 /\ r_control.present
      BY <1>0, <1>t, <2>a1, <2>a2, <2>a3, <2>a4, <2>a5, <2>a6 DEF CommitsAreActive
    <3>2. r_control'.present /\ r_control'.rev >= r_control.rev
      BY <1>0, <1>t, <2>a1, <2>a2, <2>a3, <2>a4, <2>a5, <2>a6, <3>1 DEF
         ControlIsDecided, PassesAreDecided, Runtime!Payloads
    <3>3. ASSUME NEW u \in Ops,
                 r_mark'[u] = "committed" \/ r_pub'[u] = "close" \/ r_op'[u].state = "committed"
          PROVE  r_control'.rev >= r_op'[u].current + 1
      BY <1>0, <1>t, <2>a1, <2>a2, <2>a3, <2>a4, <2>a5, <2>a6, <3>1, <3>2, <3>3 DEF
         CommitsAreActive, OperationsAreDecided, PassesAreDecided
    <3>4. ASSUME NEW q \in Reconcilers,
                 r_rec'[q].pc = "close", r_rec'[q].state = "db_committed"
          PROVE  r_control'.rev >= r_op'[r_rec'[q].op].current + 1
      BY <1>0, <1>t, <2>a1, <2>a2, <2>a3, <2>a4, <2>a5, <2>a6, <3>1, <3>2, <3>4 DEF
         CommitsAreActive, PassesAreDecided
    <3> QED
      BY <3>2, <3>3, <3>4 DEF CommitsAreActive
  <2> QED
    BY <2>2, <2>4, <2>5, <2>6, <2>7 DEF RuntimeInv
<1>7. ASSUME NEW t \in Ops, Runtime!Close(t) PROVE RuntimeInv'
  <2>1. /\ r_pub[t] = "close" /\ r_pub' = [r_pub EXCEPT ![t] = "done"]
        /\ r_op' = IF r_op[t].state = "db_committed"
                   THEN [r_op EXCEPT ![t].state = "committed"] ELSE r_op
        /\ UNCHANGED <<r_row, r_control, r_mark, r_rec, r_faults, r_losses>>
    <3>1. r_pub[t] = "close" /\ r_pub' = [r_pub EXCEPT ![t] = "done"]
      BY <1>7, <1>t DEF Runtime!Close, Runtime!MarkCommittedRow
    <3>2. r_op' = IF r_op[t].state = "db_committed"
                  THEN [r_op EXCEPT ![t].state = "committed"] ELSE r_op
      BY <1>7, <1>t DEF Runtime!Close, Runtime!MarkCommittedRow
    <3>3. UNCHANGED <<r_row, r_control, r_mark, r_rec, r_faults, r_losses>>
      BY <1>7, <1>t DEF Runtime!Close, Runtime!MarkCommittedRow
    <3> QED
      BY <3>1, <3>2, <3>3
  <2>2. Runtime!TypeOK'
    <3>2. r_op' \in [Ops -> [state : Runtime!OpStates, current : Nat \ {0}]]
      BY <1>t, <1>0, <2>1 DEF Runtime!OpStates, OperationsAreDecided, PassesAreDecided
    <3>5. r_pub' \in [Ops -> Runtime!PublisherCalls]
      BY <1>t, <1>0, <2>1 DEF Runtime!PublisherCalls, OperationsAreDecided,
         PassesAreDecided
    <3> QED
      BY <1>t, <2>1, <3>2, <3>5 DEF Runtime!TypeOK, RuntimePasses
  <2>3. DecisionsStand
    BY <1>0, <1>t, <2>1 DEF DecisionsStand, OperationsAreDecided, PassesAreDecided
  <2>4. OperationsAreDecided'
    BY <1>0, <1>t, <2>1 DEF OperationsAreDecided, PassesAreDecided, ControlIsDecided,
       Decided, Runtime!Payloads, Runtime!OpStates, Runtime!Marks,
       Runtime!PublisherCalls, Runtime!ReconcilerCalls, RuntimePasses
  <2>5. PassesAreDecided'
    BY <2>1, <2>3, PassesStand
  <2>6. ControlIsDecided'
    BY <1>0, <1>t, <2>1 DEF ControlIsDecided, OperationsAreDecided, PassesAreDecided,
       Decided, Runtime!Payloads, Runtime!OpStates, Runtime!Marks,
       Runtime!PublisherCalls, Runtime!ReconcilerCalls, RuntimePasses
  <2>7. CommitsAreActive'
    <3> SUFFICES ASSUME r_losses' = 0, StartUps = {}
                 PROVE  CommitsAreActive'
      BY DEF CommitsAreActive
    <3>1. r_losses = 0 /\ r_control.present
      BY <1>0, <1>t, <2>1 DEF CommitsAreActive
    <3>2. r_control'.present /\ r_control'.rev >= r_control.rev
      BY <1>0, <1>t, <2>1, <3>1 DEF CommitsAreActive, PassesAreDecided
    <3>3. ASSUME NEW u \in Ops,
                 r_mark'[u] = "committed" \/ r_pub'[u] = "close" \/ r_op'[u].state = "committed"
          PROVE  r_control'.rev >= r_op'[u].current + 1
      BY <1>0, <1>t, <2>1, <3>1, <3>2, <3>3 DEF CommitsAreActive,
         OperationsAreDecided, PassesAreDecided
    <3>4. ASSUME NEW q \in Reconcilers,
                 r_rec'[q].pc = "close", r_rec'[q].state = "db_committed"
          PROVE  r_control'.rev >= r_op'[r_rec'[q].op].current + 1
      BY <1>0, <1>t, <2>1, <3>1, <3>2, <3>4 DEF CommitsAreActive, PassesAreDecided,
         OperationsAreDecided
    <3> QED
      BY <3>2, <3>3, <3>4 DEF CommitsAreActive
  <2> QED
    BY <2>2, <2>4, <2>5, <2>6, <2>7 DEF RuntimeInv
<1>8. ASSUME NEW t \in Ops, NEW outcome \in Runtime!Outcomes, Runtime!Abort(t, outcome) PROVE RuntimeInv'
  <2>1. /\ r_pub[t] = "abort" /\ r_pub' = [r_pub EXCEPT ![t] = "closeAborted"]
        /\ \/ /\ r_control' \in {r_control, [r_control EXCEPT !.pending = NoOp]}
              /\ r_mark' = [r_mark EXCEPT ![t] = "aborted"]
           \/ UNCHANGED <<r_control, r_mark>>
        /\ r_faults' \in 0 .. MaxFaults
        /\ UNCHANGED <<r_row, r_op, r_rec, r_losses>>
    <3>1. r_pub[t] = "abort" /\ r_pub' = [r_pub EXCEPT ![t] = "closeAborted"]
      BY <1>8, <1>t DEF Runtime!Abort, Runtime!DoAbort, Runtime!Charge, Runtime!Fault,
         Runtime!Outcomes
    <3>2. \/ /\ r_control' \in {r_control, [r_control EXCEPT !.pending = NoOp]}
             /\ r_mark' = [r_mark EXCEPT ![t] = "aborted"]
          \/ UNCHANGED <<r_control, r_mark>>
      BY <1>8, <1>t DEF Runtime!Abort, Runtime!DoAbort, Runtime!Charge, Runtime!Fault,
         Runtime!Outcomes
    <3>c. Runtime!Charge(outcome)
      BY <1>8 DEF Runtime!Abort
    <3>3. r_faults' \in 0 .. MaxFaults
      BY <1>0, <1>t, <3>c, RuntimeCharges
    <3>4. UNCHANGED <<r_row, r_op, r_rec, r_losses>>
      BY <1>8, <1>t DEF Runtime!Abort, Runtime!DoAbort, Runtime!Charge, Runtime!Fault,
         Runtime!Outcomes
    <3> QED
      BY <3>1, <3>2, <3>3, <3>4
  <2>2. Runtime!TypeOK'
    <3>3. r_control' \in [present : BOOLEAN, rev : Nat \ {0}, payload : Runtime!Payloads,
                         pending : Runtime!Payloads]
      BY <1>t, <1>0, <2>1 DEF Runtime!Payloads, OperationsAreDecided, PassesAreDecided
    <3>4. r_mark' \in [Ops -> Runtime!Marks]
      BY <1>t, <1>0, <2>1 DEF Runtime!Marks, OperationsAreDecided, PassesAreDecided
    <3>5. r_pub' \in [Ops -> Runtime!PublisherCalls]
      BY <1>t, <1>0, <2>1 DEF Runtime!PublisherCalls, OperationsAreDecided,
         PassesAreDecided
    <3> QED
      BY <1>t, <2>1, <3>3, <3>4, <3>5 DEF Runtime!TypeOK, RuntimePasses
  <2>3. DecisionsStand
    BY <1>0, <1>t, <2>1 DEF DecisionsStand, OperationsAreDecided, PassesAreDecided
  <2>4. OperationsAreDecided'
    BY <1>0, <1>t, <2>1 DEF OperationsAreDecided, PassesAreDecided, ControlIsDecided,
       Decided, Runtime!Payloads, Runtime!OpStates, Runtime!Marks,
       Runtime!PublisherCalls, Runtime!ReconcilerCalls, RuntimePasses
  <2>5. PassesAreDecided'
    BY <2>1, <2>3, PassesStand
  <2>6. ControlIsDecided'
    BY <1>0, <1>t, <2>1 DEF ControlIsDecided, OperationsAreDecided, PassesAreDecided,
       Decided, Runtime!Payloads, Runtime!OpStates, Runtime!Marks,
       Runtime!PublisherCalls, Runtime!ReconcilerCalls, RuntimePasses
  <2>7. CommitsAreActive'
    <3> SUFFICES ASSUME r_losses' = 0, StartUps = {}
                 PROVE  CommitsAreActive'
      BY DEF CommitsAreActive
    <3>1. r_losses = 0 /\ r_control.present
      BY <1>0, <1>t, <2>1 DEF CommitsAreActive
    <3>2. r_control'.present /\ r_control'.rev >= r_control.rev
      BY <1>0, <1>t, <2>1, <3>1 DEF CommitsAreActive, PassesAreDecided
    <3>3. ASSUME NEW u \in Ops,
                 r_mark'[u] = "committed" \/ r_pub'[u] = "close" \/ r_op'[u].state = "committed"
          PROVE  r_control'.rev >= r_op'[u].current + 1
      BY <1>0, <1>t, <2>1, <3>1, <3>2, <3>3 DEF CommitsAreActive,
         OperationsAreDecided, PassesAreDecided
    <3>4. ASSUME NEW q \in Reconcilers,
                 r_rec'[q].pc = "close", r_rec'[q].state = "db_committed"
          PROVE  r_control'.rev >= r_op'[r_rec'[q].op].current + 1
      BY <1>0, <1>t, <2>1, <3>1, <3>2, <3>4 DEF CommitsAreActive, PassesAreDecided,
         OperationsAreDecided
    <3> QED
      BY <3>2, <3>3, <3>4 DEF CommitsAreActive
  <2> QED
    BY <2>2, <2>4, <2>5, <2>6, <2>7 DEF RuntimeInv
<1>9. ASSUME NEW t \in Ops, Runtime!CloseAborted(t) PROVE RuntimeInv'
  <2>1. /\ r_pub[t] = "closeAborted" /\ r_pub' = [r_pub EXCEPT ![t] = "done"]
        /\ r_op' = IF r_op[t].state \in {"preparing", "prepared"}
                   THEN [r_op EXCEPT ![t].state = "aborted"] ELSE r_op
        /\ UNCHANGED <<r_row, r_control, r_mark, r_rec, r_faults, r_losses>>
    <3>1. r_pub[t] = "closeAborted" /\ r_pub' = [r_pub EXCEPT ![t] = "done"]
      BY <1>9, <1>t DEF Runtime!CloseAborted, Runtime!MarkAbortedRow
    <3>2. r_op' = IF r_op[t].state \in {"preparing", "prepared"}
                  THEN [r_op EXCEPT ![t].state = "aborted"] ELSE r_op
      BY <1>9, <1>t DEF Runtime!CloseAborted, Runtime!MarkAbortedRow
    <3>3. UNCHANGED <<r_row, r_control, r_mark, r_rec, r_faults, r_losses>>
      BY <1>9, <1>t DEF Runtime!CloseAborted, Runtime!MarkAbortedRow
    <3> QED
      BY <3>1, <3>2, <3>3
  <2>2. Runtime!TypeOK'
    <3>2. r_op' \in [Ops -> [state : Runtime!OpStates, current : Nat \ {0}]]
      BY <1>t, <1>0, <2>1 DEF Runtime!OpStates, OperationsAreDecided, PassesAreDecided
    <3>5. r_pub' \in [Ops -> Runtime!PublisherCalls]
      BY <1>t, <1>0, <2>1 DEF Runtime!PublisherCalls, OperationsAreDecided,
         PassesAreDecided
    <3> QED
      BY <1>t, <2>1, <3>2, <3>5 DEF Runtime!TypeOK, RuntimePasses
  <2>3. DecisionsStand
    BY <1>0, <1>t, <2>1 DEF DecisionsStand, OperationsAreDecided, PassesAreDecided
  <2>4. OperationsAreDecided'
    BY <1>0, <1>t, <2>1 DEF OperationsAreDecided, PassesAreDecided, ControlIsDecided,
       Decided, Runtime!Payloads, Runtime!OpStates, Runtime!Marks,
       Runtime!PublisherCalls, Runtime!ReconcilerCalls, RuntimePasses
  <2>5. PassesAreDecided'
    BY <2>1, <2>3, PassesStand
  <2>6. ControlIsDecided'
    BY <1>0, <1>t, <2>1 DEF ControlIsDecided, OperationsAreDecided, PassesAreDecided,
       Decided, Runtime!Payloads, Runtime!OpStates, Runtime!Marks,
       Runtime!PublisherCalls, Runtime!ReconcilerCalls, RuntimePasses
  <2>7. CommitsAreActive'
    <3> SUFFICES ASSUME r_losses' = 0, StartUps = {}
                 PROVE  CommitsAreActive'
      BY DEF CommitsAreActive
    <3>1. r_losses = 0 /\ r_control.present
      BY <1>0, <1>t, <2>1 DEF CommitsAreActive
    <3>2. r_control'.present /\ r_control'.rev >= r_control.rev
      BY <1>0, <1>t, <2>1, <3>1 DEF CommitsAreActive, PassesAreDecided
    <3>3. ASSUME NEW u \in Ops,
                 r_mark'[u] = "committed" \/ r_pub'[u] = "close" \/ r_op'[u].state = "committed"
          PROVE  r_control'.rev >= r_op'[u].current + 1
      BY <1>0, <1>t, <2>1, <3>1, <3>2, <3>3 DEF CommitsAreActive,
         OperationsAreDecided, PassesAreDecided
    <3>4. ASSUME NEW q \in Reconcilers,
                 r_rec'[q].pc = "close", r_rec'[q].state = "db_committed"
          PROVE  r_control'.rev >= r_op'[r_rec'[q].op].current + 1
      BY <1>0, <1>t, <2>1, <3>1, <3>2, <3>4 DEF CommitsAreActive, PassesAreDecided,
         OperationsAreDecided
    <3> QED
      BY <3>2, <3>3, <3>4 DEF CommitsAreActive
  <2> QED
    BY <2>2, <2>4, <2>5, <2>6, <2>7 DEF RuntimeInv
<1>10. ASSUME NEW t \in Ops, Runtime!Die(t) PROVE RuntimeInv'
  <2>1. /\ r_pub' = [r_pub EXCEPT ![t] = "done"]
        /\ UNCHANGED <<r_row, r_op, r_control, r_mark, r_rec, r_faults, r_losses>>
    BY <1>10, <1>t DEF Runtime!Die
  <2>2. Runtime!TypeOK'
    <3>5. r_pub' \in [Ops -> Runtime!PublisherCalls]
      BY <1>t, <1>0, <2>1 DEF Runtime!PublisherCalls, OperationsAreDecided,
         PassesAreDecided
    <3> QED
      BY <1>t, <2>1, <3>5 DEF Runtime!TypeOK, RuntimePasses
  <2>3. DecisionsStand
    BY <1>0, <1>t, <2>1 DEF DecisionsStand, OperationsAreDecided, PassesAreDecided
  <2>4. OperationsAreDecided'
    BY <1>0, <1>t, <2>1 DEF OperationsAreDecided, PassesAreDecided, ControlIsDecided,
       Decided, Runtime!Payloads, Runtime!OpStates, Runtime!Marks,
       Runtime!PublisherCalls, Runtime!ReconcilerCalls, RuntimePasses
  <2>5. PassesAreDecided'
    BY <2>1, <2>3, PassesStand
  <2>6. ControlIsDecided'
    BY <1>0, <1>t, <2>1 DEF ControlIsDecided, OperationsAreDecided, PassesAreDecided,
       Decided, Runtime!Payloads, Runtime!OpStates, Runtime!Marks,
       Runtime!PublisherCalls, Runtime!ReconcilerCalls, RuntimePasses
  <2>7. CommitsAreActive'
    <3> SUFFICES ASSUME r_losses' = 0, StartUps = {}
                 PROVE  CommitsAreActive'
      BY DEF CommitsAreActive
    <3>1. r_losses = 0 /\ r_control.present
      BY <1>0, <1>t, <2>1 DEF CommitsAreActive
    <3>2. r_control'.present /\ r_control'.rev >= r_control.rev
      BY <1>0, <1>t, <2>1, <3>1 DEF CommitsAreActive, PassesAreDecided
    <3>3. ASSUME NEW u \in Ops,
                 r_mark'[u] = "committed" \/ r_pub'[u] = "close" \/ r_op'[u].state = "committed"
          PROVE  r_control'.rev >= r_op'[u].current + 1
      BY <1>0, <1>t, <2>1, <3>1, <3>2, <3>3 DEF CommitsAreActive,
         OperationsAreDecided, PassesAreDecided
    <3>4. ASSUME NEW q \in Reconcilers,
                 r_rec'[q].pc = "close", r_rec'[q].state = "db_committed"
          PROVE  r_control'.rev >= r_op'[r_rec'[q].op].current + 1
      BY <1>0, <1>t, <2>1, <3>1, <3>2, <3>4 DEF CommitsAreActive, PassesAreDecided,
         OperationsAreDecided
    <3> QED
      BY <3>2, <3>3, <3>4 DEF CommitsAreActive
  <2> QED
    BY <2>2, <2>4, <2>5, <2>6, <2>7 DEF RuntimeInv
<1>11. ASSUME NEW t \in Ops, Runtime!MarkExpires(t) PROVE RuntimeInv'
  <2>1. /\ r_mark' = [r_mark EXCEPT ![t] = "none"]
        /\ UNCHANGED <<r_row, r_op, r_control, r_pub, r_rec, r_faults, r_losses>>
    BY <1>11, <1>t DEF Runtime!MarkExpires
  <2>2. Runtime!TypeOK'
    <3>4. r_mark' \in [Ops -> Runtime!Marks]
      BY <1>t, <1>0, <2>1 DEF Runtime!Marks, OperationsAreDecided, PassesAreDecided
    <3> QED
      BY <1>t, <2>1, <3>4 DEF Runtime!TypeOK, RuntimePasses
  <2>3. DecisionsStand
    BY <1>0, <1>t, <2>1 DEF DecisionsStand, OperationsAreDecided, PassesAreDecided
  <2>4. OperationsAreDecided'
    BY <1>0, <1>t, <2>1 DEF OperationsAreDecided, PassesAreDecided, ControlIsDecided,
       Decided, Runtime!Payloads, Runtime!OpStates, Runtime!Marks,
       Runtime!PublisherCalls, Runtime!ReconcilerCalls, RuntimePasses
  <2>5. PassesAreDecided'
    BY <2>1, <2>3, PassesStand
  <2>6. ControlIsDecided'
    BY <1>0, <1>t, <2>1 DEF ControlIsDecided, OperationsAreDecided, PassesAreDecided,
       Decided, Runtime!Payloads, Runtime!OpStates, Runtime!Marks,
       Runtime!PublisherCalls, Runtime!ReconcilerCalls, RuntimePasses
  <2>7. CommitsAreActive'
    <3> SUFFICES ASSUME r_losses' = 0, StartUps = {}
                 PROVE  CommitsAreActive'
      BY DEF CommitsAreActive
    <3>1. r_losses = 0 /\ r_control.present
      BY <1>0, <1>t, <2>1 DEF CommitsAreActive
    <3>2. r_control'.present /\ r_control'.rev >= r_control.rev
      BY <1>0, <1>t, <2>1, <3>1 DEF CommitsAreActive, PassesAreDecided
    <3>3. ASSUME NEW u \in Ops,
                 r_mark'[u] = "committed" \/ r_pub'[u] = "close" \/ r_op'[u].state = "committed"
          PROVE  r_control'.rev >= r_op'[u].current + 1
      BY <1>0, <1>t, <2>1, <3>1, <3>2, <3>3 DEF CommitsAreActive,
         OperationsAreDecided, PassesAreDecided
    <3>4. ASSUME NEW q \in Reconcilers,
                 r_rec'[q].pc = "close", r_rec'[q].state = "db_committed"
          PROVE  r_control'.rev >= r_op'[r_rec'[q].op].current + 1
      BY <1>0, <1>t, <2>1, <3>1, <3>2, <3>4 DEF CommitsAreActive, PassesAreDecided,
         OperationsAreDecided
    <3> QED
      BY <3>2, <3>3, <3>4 DEF CommitsAreActive
  <2> QED
    BY <2>2, <2>4, <2>5, <2>6, <2>7 DEF RuntimeInv
<1>12. ASSUME NEW r \in Reconcilers, Runtime!RecList(r) PROVE RuntimeInv'
  <2>a1. UNCHANGED <<r_row, r_op, r_control, r_mark, r_pub, r_faults, r_losses>>
    BY <1>12 DEF Runtime!RecList
  <2>a2. /\ r_rec' \in [Reconcilers -> RuntimePasses]
         /\ \A q \in Reconcilers \ {r} : r_rec'[q] = r_rec[q]
         /\ \/ r_rec'[r].pc \in {"idle", "list"}
            \/ /\ r_rec'[r].pc = "payload" /\ r_rec'[r].op \in Ops
               /\ r_op[r_rec'[r].op].state \in Runtime!Open
               /\ r_rec'[r].state = r_op[r_rec'[r].op].state
    <3>1. CASE Runtime!RecStables(r)
      BY <1>t, <3>1, ClearedPass
    <3>2. ASSUME NEW u \in Ops, r_op[u].state \in Runtime!Open,
                 r_rec' = [r_rec EXCEPT ![r].op = u, ![r].state = r_op[u].state, ![r].pc = "payload"]
          PROVE  <2>a2!:
      <4>1. "payload" \in Runtime!ReconcilerCalls /\ r_op[u].state \in Runtime!OpStates
        BY <1>t DEF Runtime!ReconcilerCalls
      <4>2. /\ r_rec' \in [Reconcilers -> RuntimePasses]
            /\ r_rec'[r].op = u /\ r_rec'[r].state = r_op[u].state /\ r_rec'[r].pc = "payload"
            /\ \A q \in Reconcilers \ {r} : r_rec'[q] = r_rec[q]
        BY <1>t, <3>2, <4>1, ListedPass
      <4> QED
        BY <3>2, <4>2
    <3> QED
      BY <1>12, <3>1, <3>2 DEF Runtime!RecList
  <2>a3. \A u \in Ops : r_op[u].state \in Runtime!Open => r_op[u].state # "none"
    BY DEF Runtime!Open
  <2>2. Runtime!TypeOK'
    BY <1>t, <2>a1, <2>a2, <2>a3 DEF Runtime!TypeOK, RuntimePasses,
       Runtime!PublisherCalls, Runtime!Payloads, Runtime!Marks
  <2>3. DecisionsStand
    BY <1>0, <1>t, <2>a1, <2>a2, <2>a3 DEF DecisionsStand, OperationsAreDecided,
       PassesAreDecided
  <2>4. OperationsAreDecided'
    BY <1>0, <1>t, <2>a1, <2>a2, <2>a3 DEF OperationsAreDecided, PassesAreDecided,
       ControlIsDecided, Decided
  <2>5. PassesAreDecided'
    <3>1. PassIsDecided(r)'
      BY <1>0, <1>t, <2>a1, <2>a2, <2>a3 DEF PassIsDecided, PassesAreDecided,
         OperationsAreDecided, Decided
    <3> QED
      BY <2>3, <3>1, <2>a1, <2>a2, <2>a3, PassStands
  <2>6. ControlIsDecided'
    BY <1>0, <1>t, <2>a1, <2>a2, <2>a3 DEF ControlIsDecided, OperationsAreDecided,
       PassesAreDecided, Decided, Runtime!Payloads
  <2>7. CommitsAreActive'
    <3> SUFFICES ASSUME r_losses' = 0, StartUps = {}
                 PROVE  CommitsAreActive'
      BY DEF CommitsAreActive
    <3>1. r_losses = 0 /\ r_control.present
      BY <1>0, <1>t, <2>a1, <2>a2, <2>a3 DEF CommitsAreActive
    <3>2. r_control'.present /\ r_control'.rev >= r_control.rev
      BY <1>0, <1>t, <2>a1, <2>a2, <2>a3, <3>1 DEF ControlIsDecided, PassesAreDecided,
         Runtime!Payloads
    <3>3. ASSUME NEW u \in Ops,
                 r_mark'[u] = "committed" \/ r_pub'[u] = "close" \/ r_op'[u].state = "committed"
          PROVE  r_control'.rev >= r_op'[u].current + 1
      BY <1>0, <1>t, <2>a1, <2>a2, <2>a3, <3>1, <3>2, <3>3 DEF CommitsAreActive,
         OperationsAreDecided, PassesAreDecided
    <3>4. ASSUME NEW q \in Reconcilers,
                 r_rec'[q].pc = "close", r_rec'[q].state = "db_committed"
          PROVE  r_control'.rev >= r_op'[r_rec'[q].op].current + 1
      BY <1>0, <1>t, <2>a1, <2>a2, <2>a3, <3>1, <3>2, <3>4 DEF CommitsAreActive,
         PassesAreDecided
    <3> QED
      BY <3>2, <3>3, <3>4 DEF CommitsAreActive
  <2> QED
    BY <2>2, <2>4, <2>5, <2>6, <2>7 DEF RuntimeInv
<1>13. ASSUME NEW r \in Reconcilers, Runtime!RecPayload(r) PROVE RuntimeInv'
  <2>a1. /\ r_rec[r].pc = "payload"
         /\ UNCHANGED <<r_row, r_op, r_control, r_mark, r_pub, r_faults, r_losses>>
    BY <1>13 DEF Runtime!RecPayload
  <2>a2. /\ r_rec' \in [Reconcilers -> RuntimePasses]
         /\ \A q \in Reconcilers \ {r} : r_rec'[q] = r_rec[q]
         /\ \/ r_rec'[r].pc \in {"idle", "list"}
            \/ /\ r_rec'[r].pc = "snapshot" /\ r_rec'[r].op = r_rec[r].op
               /\ r_rec'[r].state = r_rec[r].state /\ r_rec'[r].payload = r_row.payload
               /\ r_rec[r].state # "db_committed" => r_row.rev = r_op[r_rec[r].op].current
    <3>1. CASE Runtime!RecEnds(r)
      BY <1>t, <3>1, ClearedPass
    <3>2. CASE r_rec' = [r_rec EXCEPT ![r].payload = r_row.payload, ![r].pc = "snapshot"]
      <4>1. "snapshot" \in Runtime!ReconcilerCalls /\ r_row.payload \in Runtime!Payloads
        BY <1>t DEF Runtime!ReconcilerCalls
      <4>2. /\ r_rec' \in [Reconcilers -> RuntimePasses]
            /\ r_rec'[r].payload = r_row.payload /\ r_rec'[r].pc = "snapshot"
            /\ r_rec'[r].op = r_rec[r].op /\ r_rec'[r].state = r_rec[r].state
            /\ \A q \in Reconcilers \ {r} : r_rec'[q] = r_rec[q]
        BY <1>t, <3>2, <4>1, PayloadPass
      <4>3. r_rec[r].state # "db_committed" /\ ~Runtime!RecEnds(r) =>
              r_row.rev = r_op[r_rec[r].op].current
        BY <1>13 DEF Runtime!RecPayload
      <4> QED
        BY <3>1, <4>2, <4>3
    <3> QED
      BY <1>13, <3>1, <3>2 DEF Runtime!RecPayload
  <2>2. Runtime!TypeOK'
    BY <1>t, <2>a1, <2>a2 DEF Runtime!TypeOK, RuntimePasses, Runtime!PublisherCalls,
       Runtime!Payloads, Runtime!Marks
  <2>3. DecisionsStand
    BY <1>0, <1>t, <2>a1, <2>a2 DEF DecisionsStand, OperationsAreDecided,
       PassesAreDecided
  <2>4. OperationsAreDecided'
    BY <1>0, <1>t, <2>a1, <2>a2 DEF OperationsAreDecided, PassesAreDecided,
       ControlIsDecided, Decided
  <2>5. PassesAreDecided'
    <3>1. PassIsDecided(r)'
      BY <1>0, <1>t, <2>a1, <2>a2 DEF PassIsDecided, PassesAreDecided,
         OperationsAreDecided, Decided
    <3> QED
      BY <2>3, <3>1, <2>a1, <2>a2, PassStands
  <2>6. ControlIsDecided'
    BY <1>0, <1>t, <2>a1, <2>a2 DEF ControlIsDecided, OperationsAreDecided,
       PassesAreDecided, Decided, Runtime!Payloads
  <2>7. CommitsAreActive'
    <3> SUFFICES ASSUME r_losses' = 0, StartUps = {}
                 PROVE  CommitsAreActive'
      BY DEF CommitsAreActive
    <3>1. r_losses = 0 /\ r_control.present
      BY <1>0, <1>t, <2>a1, <2>a2 DEF CommitsAreActive
    <3>2. r_control'.present /\ r_control'.rev >= r_control.rev
      BY <1>0, <1>t, <2>a1, <2>a2, <3>1 DEF ControlIsDecided, PassesAreDecided,
         Runtime!Payloads
    <3>3. ASSUME NEW u \in Ops,
                 r_mark'[u] = "committed" \/ r_pub'[u] = "close" \/ r_op'[u].state = "committed"
          PROVE  r_control'.rev >= r_op'[u].current + 1
      BY <1>0, <1>t, <2>a1, <2>a2, <3>1, <3>2, <3>3 DEF CommitsAreActive,
         OperationsAreDecided, PassesAreDecided
    <3>4. ASSUME NEW q \in Reconcilers,
                 r_rec'[q].pc = "close", r_rec'[q].state = "db_committed"
          PROVE  r_control'.rev >= r_op'[r_rec'[q].op].current + 1
      BY <1>0, <1>t, <2>a1, <2>a2, <3>1, <3>2, <3>4 DEF CommitsAreActive,
         PassesAreDecided
    <3> QED
      BY <3>2, <3>3, <3>4 DEF CommitsAreActive
  <2> QED
    BY <2>2, <2>4, <2>5, <2>6, <2>7 DEF RuntimeInv
<1>14. ASSUME NEW r \in Reconcilers, Runtime!RecSnapshot(r) PROVE RuntimeInv'
  <2>a1. /\ r_rec[r].pc = "snapshot"
         /\ UNCHANGED <<r_row, r_op, r_control, r_mark, r_pub, r_faults, r_losses>>
    BY <1>14 DEF Runtime!RecSnapshot
  <2>a2. /\ r_rec' \in [Reconcilers -> RuntimePasses]
         /\ \A q \in Reconcilers \ {r} : r_rec'[q] = r_rec[q]
         /\ \/ r_rec'[r].pc \in {"idle", "list"}
            \/ /\ r_rec'[r].pc = "recover" /\ r_rec'[r].op = r_rec[r].op
               /\ r_rec'[r].state = r_rec[r].state /\ r_rec'[r].payload = r_rec[r].payload
    <3>1. "recover" \in Runtime!ReconcilerCalls
      BY DEF Runtime!ReconcilerCalls
    <3>2. Runtime!RecEnds(r) \/ Runtime!RecGoto(r, "recover")
      BY <1>14 DEF Runtime!RecSnapshot
    <3> QED
      BY <1>t, <3>1, <3>2, ClearedPass, MovedPass
  <2>2. Runtime!TypeOK'
    BY <1>t, <2>a1, <2>a2 DEF Runtime!TypeOK, RuntimePasses, Runtime!PublisherCalls,
       Runtime!Payloads, Runtime!Marks
  <2>3. DecisionsStand
    BY <1>0, <1>t, <2>a1, <2>a2 DEF DecisionsStand, OperationsAreDecided,
       PassesAreDecided
  <2>4. OperationsAreDecided'
    BY <1>0, <1>t, <2>a1, <2>a2 DEF OperationsAreDecided, PassesAreDecided,
       ControlIsDecided, Decided
  <2>5. PassesAreDecided'
    <3>1. PassIsDecided(r)'
      BY <1>0, <1>t, <2>a1, <2>a2 DEF PassIsDecided, PassesAreDecided,
         OperationsAreDecided, Decided
    <3> QED
      BY <2>3, <3>1, <2>a1, <2>a2, PassStands
  <2>6. ControlIsDecided'
    BY <1>0, <1>t, <2>a1, <2>a2 DEF ControlIsDecided, OperationsAreDecided,
       PassesAreDecided, Decided, Runtime!Payloads
  <2>7. CommitsAreActive'
    <3> SUFFICES ASSUME r_losses' = 0, StartUps = {}
                 PROVE  CommitsAreActive'
      BY DEF CommitsAreActive
    <3>1. r_losses = 0 /\ r_control.present
      BY <1>0, <1>t, <2>a1, <2>a2 DEF CommitsAreActive
    <3>2. r_control'.present /\ r_control'.rev >= r_control.rev
      BY <1>0, <1>t, <2>a1, <2>a2, <3>1 DEF ControlIsDecided, PassesAreDecided,
         Runtime!Payloads
    <3>3. ASSUME NEW u \in Ops,
                 r_mark'[u] = "committed" \/ r_pub'[u] = "close" \/ r_op'[u].state = "committed"
          PROVE  r_control'.rev >= r_op'[u].current + 1
      BY <1>0, <1>t, <2>a1, <2>a2, <3>1, <3>2, <3>3 DEF CommitsAreActive,
         OperationsAreDecided, PassesAreDecided
    <3>4. ASSUME NEW q \in Reconcilers,
                 r_rec'[q].pc = "close", r_rec'[q].state = "db_committed"
          PROVE  r_control'.rev >= r_op'[r_rec'[q].op].current + 1
      BY <1>0, <1>t, <2>a1, <2>a2, <3>1, <3>2, <3>4 DEF CommitsAreActive,
         PassesAreDecided
    <3> QED
      BY <3>2, <3>3, <3>4 DEF CommitsAreActive
  <2> QED
    BY <2>2, <2>4, <2>5, <2>6, <2>7 DEF RuntimeInv
<1>15. ASSUME NEW r \in Reconcilers, NEW outcome \in Runtime!Outcomes, Runtime!RecRecover(r, outcome) PROVE RuntimeInv'
  <2>a1. /\ r_rec[r].pc = "recover" /\ r_rec[r].op \in Ops
         /\ UNCHANGED <<r_row, r_op, r_pub, r_losses>>
    BY <1>0, <1>15 DEF Runtime!RecRecover, PassesAreDecided
  <2>a2. r_faults' \in 0 .. MaxFaults
    <3>1. Runtime!Charge(outcome)
      BY <1>15 DEF Runtime!RecRecover
    <3> QED
      BY <1>0, <1>t, <3>1, RuntimeCharges
  <2>a3. /\ r_rec' \in [Reconcilers -> RuntimePasses]
         /\ \A q \in Reconcilers \ {r} : r_rec'[q] = r_rec[q]
         /\ \/ r_rec'[r].pc \in {"idle", "list"}
            \/ /\ r_rec'[r].pc = "close" /\ r_rec'[r].op = r_rec[r].op
               /\ r_rec'[r].state = r_rec[r].state
               /\ outcome = "answered" /\ Runtime!Recovers(r)
    <3>1. "close" \in Runtime!ReconcilerCalls
      BY DEF Runtime!ReconcilerCalls
    <3>2. \/ Runtime!RecEnds(r)
          \/ Runtime!RecGoto(r, "close") /\ outcome = "answered" /\ Runtime!Recovers(r)
      BY <1>15 DEF Runtime!RecRecover
    <3> QED
      BY <1>t, <3>1, <3>2, ClearedPass, MovedPass
  <2>a4. \/ ~(outcome = "answered" /\ Runtime!Recovers(r)) /\ UNCHANGED <<r_control, r_mark>>
         \/ /\ r_rec[r].state = "db_committed"
            /\ r_control.present => r_control.rev <= r_op[r_rec[r].op].current + 1
            /\ r_control' = Runtime!Active(r_op[r_rec[r].op].current + 1, r_rec[r].op)
            /\ r_mark' = [r_mark EXCEPT ![r_rec[r].op] = "committed"]
         \/ /\ r_rec[r].state # "db_committed"
            /\ r_control.present => r_control.rev = r_op[r_rec[r].op].current
            /\ r_control' = Runtime!Active(r_op[r_rec[r].op].current, r_rec[r].payload)
            /\ r_mark' = [r_mark EXCEPT ![r_rec[r].op] = "aborted"]
    <3>1. r_op[r_rec[r].op].current \in Nat
      BY <1>t, <2>a1
    <3>2. CASE outcome # "failed" /\ Runtime!Recovers(r) /\ r_rec[r].state = "db_committed"
      BY <1>15, <3>1, <3>2 DEF Runtime!RecRecover, Runtime!Recovers,
         Runtime!CanRecoverCommitted
    <3>3. CASE outcome # "failed" /\ Runtime!Recovers(r) /\ r_rec[r].state # "db_committed"
      BY <1>15, <3>3 DEF Runtime!RecRecover, Runtime!Recovers,
         Runtime!CanRecoverAborted
    <3>4. CASE ~(outcome # "failed" /\ Runtime!Recovers(r))
      BY <1>15, <3>4 DEF Runtime!RecRecover
    <3> QED
      BY <3>2, <3>3, <3>4
  <2>a5. \E n \in Nat \ {0}, p \in Runtime!Payloads, m \in {"committed", "aborted"} :
            \/ UNCHANGED <<r_control, r_mark>>
            \/ /\ r_control' = Runtime!Active(n, p)
               /\ r_mark' = [r_mark EXCEPT ![r_rec[r].op] = m]
    <3>1. /\ r_op[r_rec[r].op].current \in Nat \ {0} /\ r_op[r_rec[r].op].current + 1 \in Nat \ {0}
          /\ r_rec[r].op \in Runtime!Payloads /\ r_rec[r].payload \in Runtime!Payloads
          /\ NoOp \in Runtime!Payloads
      BY <1>t, <2>a1 DEF RuntimePasses, Runtime!Payloads
    <3> QED
      BY <2>a4, <3>1
  <2>a6. /\ r_control' \in [present : BOOLEAN, rev : Nat \ {0}, payload : Runtime!Payloads,
                             pending : Runtime!Payloads]
         /\ r_mark' \in [Ops -> Runtime!Marks]
         /\ \A u \in Ops : u # r_rec[r].op => r_mark'[u] = r_mark[u]
         /\ UNCHANGED r_control \/ (r_control'.present /\ r_control'.pending = NoOp)
    <3>1. CASE UNCHANGED <<r_control, r_mark>>
      BY <1>t, <3>1
    <3>2. ASSUME NEW n \in Nat \ {0}, NEW p \in Runtime!Payloads,
                 NEW m \in {"committed", "aborted"}, r_control' = Runtime!Active(n, p),
                 r_mark' = [r_mark EXCEPT ![r_rec[r].op] = m]
          PROVE  <2>a6!:
      <4>1. /\ r_control' \in [present : BOOLEAN, rev : Nat \ {0}, payload : Runtime!Payloads,
                               pending : Runtime!Payloads]
            /\ r_control'.present /\ r_control'.pending = NoOp
        BY <3>2, RuntimeActivates
      <4>2. m \in Runtime!Marks
        BY DEF Runtime!Marks
      <4> QED
        BY <1>t, <3>2, <4>1, <4>2
    <3> QED
      BY <2>a5, <3>1, <3>2
  <2>a7. \/ UNCHANGED r_control /\ UNCHANGED r_mark /\ r_rec'[r].pc # "close"
         \/ /\ r_rec[r].state = "db_committed"
            /\ r_control.present => r_control.rev <= r_op[r_rec[r].op].current + 1
            /\ r_control'.rev = r_op[r_rec[r].op].current + 1 /\ r_control'.payload = r_rec[r].op
         \/ /\ r_rec[r].state # "db_committed"
            /\ r_control.present => r_control.rev = r_op[r_rec[r].op].current
            /\ r_control'.rev = r_op[r_rec[r].op].current /\ r_control'.payload = r_rec[r].payload
            /\ r_mark'[r_rec[r].op] = "aborted"
    BY <1>t, <2>a1, <2>a3, <2>a4 DEF Runtime!Active
  <2>2. Runtime!TypeOK'
    BY <1>t, <2>a1, <2>a2, <2>a3, <2>a4, <2>a5, <2>a6, <2>a7 DEF Runtime!TypeOK,
       RuntimePasses, Runtime!PublisherCalls, Runtime!Payloads, Runtime!Marks
  <2>3. DecisionsStand
    BY <1>0, <1>t, <2>a1, <2>a2, <2>a3, <2>a4, <2>a5, <2>a6, <2>a7 DEF DecisionsStand,
       OperationsAreDecided, PassesAreDecided
  <2>4. OperationsAreDecided'
    BY <1>0, <1>t, <2>a1, <2>a2, <2>a3, <2>a4, <2>a5, <2>a6, <2>a7 DEF
       OperationsAreDecided, PassesAreDecided, ControlIsDecided, Decided
  <2>5. PassesAreDecided'
    <3>1. PassIsDecided(r)'
      BY <1>0, <1>t, <2>a1, <2>a2, <2>a3, <2>a4, <2>a5, <2>a6, <2>a7 DEF
         PassIsDecided, PassesAreDecided, OperationsAreDecided, Decided
    <3> QED
      BY <2>3, <3>1, <2>a1, <2>a2, <2>a3, <2>a4, <2>a5, <2>a6, <2>a7, PassStands
  <2>6. ControlIsDecided'
    BY <1>0, <1>t, <2>a1, <2>a2, <2>a3, <2>a4, <2>a5, <2>a6, <2>a7 DEF
       ControlIsDecided, OperationsAreDecided, PassesAreDecided, Decided,
       Runtime!Payloads
  <2>7. CommitsAreActive'
    <3> SUFFICES ASSUME r_losses' = 0, StartUps = {}
                 PROVE  CommitsAreActive'
      BY DEF CommitsAreActive
    <3>1. r_losses = 0 /\ r_control.present
      BY <1>0, <1>t, <2>a1, <2>a2, <2>a3, <2>a4, <2>a5, <2>a6, <2>a7 DEF
         CommitsAreActive
    <3>2. r_control'.present /\ r_control'.rev >= r_control.rev
      BY <1>0, <1>t, <2>a1, <2>a2, <2>a3, <2>a4, <2>a5, <2>a6, <2>a7, <3>1 DEF
         ControlIsDecided, PassesAreDecided, Runtime!Payloads
    <3>3. ASSUME NEW u \in Ops,
                 r_mark'[u] = "committed" \/ r_pub'[u] = "close" \/ r_op'[u].state = "committed"
          PROVE  r_control'.rev >= r_op'[u].current + 1
      BY <1>0, <1>t, <2>a1, <2>a2, <2>a3, <2>a4, <2>a5, <2>a6, <2>a7, <3>1, <3>2, <3>3
         DEF CommitsAreActive, OperationsAreDecided, PassesAreDecided
    <3>4. ASSUME NEW q \in Reconcilers,
                 r_rec'[q].pc = "close", r_rec'[q].state = "db_committed"
          PROVE  r_control'.rev >= r_op'[r_rec'[q].op].current + 1
      BY <1>0, <1>t, <2>a1, <2>a2, <2>a3, <2>a4, <2>a5, <2>a6, <2>a7, <3>1, <3>2, <3>4
         DEF CommitsAreActive, PassesAreDecided
    <3> QED
      BY <3>2, <3>3, <3>4 DEF CommitsAreActive
  <2> QED
    BY <2>2, <2>4, <2>5, <2>6, <2>7 DEF RuntimeInv
<1>16. ASSUME NEW r \in Reconcilers, Runtime!RecClose(r) PROVE RuntimeInv'
  <2>a1. /\ r_rec[r].pc = "close" /\ r_rec[r].op \in Ops
         /\ UNCHANGED <<r_row, r_control, r_mark, r_pub, r_faults, r_losses>>
    BY <1>0, <1>16 DEF Runtime!RecClose, PassesAreDecided
  <2>a2. /\ r_rec' \in [Reconcilers -> RuntimePasses]
         /\ \A q \in Reconcilers \ {r} : r_rec'[q] = r_rec[q]
         /\ r_rec'[r].pc \in {"idle", "list"}
    <3>1. Runtime!RecEnds(r) \/ Runtime!RecStables(r)
      BY <1>16 DEF Runtime!RecClose
    <3> QED
      BY <1>t, <3>1, ClearedPass
  <2>a3. /\ r_op' \in [Ops -> [state : Runtime!OpStates, current : Nat \ {0}]]
         /\ \A u \in Ops : r_op'[u].current = r_op[u].current
         /\ \A u \in Ops :
              \/ r_op'[u].state = r_op[u].state
              \/ /\ u = r_rec[r].op /\ r_rec[r].state = "db_committed"
                 /\ r_op[u].state = "db_committed" /\ r_op'[u].state = "committed"
              \/ r_op[u].state \in {"preparing", "prepared"} /\ r_op'[u].state = "aborted"
    <3>2. CASE r_rec[r].state = "db_committed"
      <4>1. Runtime!MarkCommittedRow(r_rec[r].op)
        BY <1>16, <3>2 DEF Runtime!RecClose
      <4> QED
        BY <1>0, <2>a1, <3>2, <4>1, OperationCloses
    <3>3. CASE r_rec[r].state # "db_committed"
      <4>1. Runtime!MarkAbortedRow(r_rec[r].op)
        BY <1>16, <3>3 DEF Runtime!RecClose
      <4> QED
        BY <1>0, <2>a1, <4>1, OperationCloses, OperationAborts
    <3> QED
      BY <3>2, <3>3
  <2>2. Runtime!TypeOK'
    BY <1>t, <2>a1, <2>a2, <2>a3 DEF Runtime!TypeOK, RuntimePasses,
       Runtime!PublisherCalls, Runtime!Payloads, Runtime!Marks
  <2>3. DecisionsStand
    BY <1>0, <1>t, <2>a1, <2>a2, <2>a3 DEF DecisionsStand, OperationsAreDecided,
       PassesAreDecided
  <2>4. OperationsAreDecided'
    BY <1>0, <1>t, <2>a1, <2>a2, <2>a3 DEF OperationsAreDecided, PassesAreDecided,
       ControlIsDecided, Decided
  <2>5. PassesAreDecided'
    <3>1. PassIsDecided(r)'
      BY <1>0, <1>t, <2>a1, <2>a2, <2>a3 DEF PassIsDecided, PassesAreDecided,
         OperationsAreDecided, Decided
    <3> QED
      BY <2>3, <3>1, <2>a1, <2>a2, <2>a3, PassStands
  <2>6. ControlIsDecided'
    BY <1>0, <1>t, <2>a1, <2>a2, <2>a3 DEF ControlIsDecided, OperationsAreDecided,
       PassesAreDecided, Decided, Runtime!Payloads
  <2>7. CommitsAreActive'
    <3> SUFFICES ASSUME r_losses' = 0, StartUps = {}
                 PROVE  CommitsAreActive'
      BY DEF CommitsAreActive
    <3>1. r_losses = 0 /\ r_control.present
      BY <1>0, <1>t, <2>a1, <2>a2, <2>a3 DEF CommitsAreActive
    <3>2. r_control'.present /\ r_control'.rev >= r_control.rev
      BY <1>0, <1>t, <2>a1, <2>a2, <2>a3, <3>1 DEF ControlIsDecided, PassesAreDecided,
         Runtime!Payloads
    <3>3. ASSUME NEW u \in Ops,
                 r_mark'[u] = "committed" \/ r_pub'[u] = "close" \/ r_op'[u].state = "committed"
          PROVE  r_control'.rev >= r_op'[u].current + 1
      BY <1>0, <1>t, <2>a1, <2>a2, <2>a3, <3>1, <3>2, <3>3 DEF CommitsAreActive,
         OperationsAreDecided, PassesAreDecided
    <3>4. ASSUME NEW q \in Reconcilers,
                 r_rec'[q].pc = "close", r_rec'[q].state = "db_committed"
          PROVE  r_control'.rev >= r_op'[r_rec'[q].op].current + 1
      BY <1>0, <1>t, <2>a1, <2>a2, <2>a3, <3>1, <3>2, <3>4 DEF CommitsAreActive,
         PassesAreDecided
    <3> QED
      BY <3>2, <3>3, <3>4 DEF CommitsAreActive
  <2> QED
    BY <2>2, <2>4, <2>5, <2>6, <2>7 DEF RuntimeInv
<1>17. ASSUME NEW r \in Reconcilers, Runtime!RecReadStable(r) PROVE RuntimeInv'
  <2>a1. UNCHANGED <<r_row, r_op, r_control, r_mark, r_pub, r_faults, r_losses>>
    BY <1>17 DEF Runtime!RecReadStable
  <2>a2. /\ r_rec' \in [Reconcilers -> RuntimePasses]
         /\ \A q \in Reconcilers \ {r} : r_rec'[q] = r_rec[q]
         /\ r_rec'[r].pc = "restore" /\ r_rec'[r].rev = r_row.rev
         /\ r_rec'[r].payload = r_row.payload
    <3>1. "restore" \in Runtime!ReconcilerCalls
      BY DEF Runtime!ReconcilerCalls
    <3>2. PICK a \in Nat \ {0}, b \in Runtime!Payloads : a = r_row.rev /\ b = r_row.payload
      BY <1>t
    <3>3. r_rec' = [r_rec EXCEPT ![r].rev = a, ![r].payload = b, ![r].pc = "restore"]
      BY <1>17, <3>2 DEF Runtime!RecReadStable
    <3>4. r_rec \in [Reconcilers -> RuntimePasses]
      BY <1>t
    <3>5. /\ r_rec' \in [Reconcilers -> RuntimePasses]
          /\ r_rec'[r].rev = a /\ r_rec'[r].payload = b /\ r_rec'[r].pc = "restore"
          /\ \A q \in Reconcilers \ {r} : r_rec'[q] = r_rec[q]
      BY <3>1, <3>3, <3>4, StablePass
    <3> QED
      BY <3>2, <3>5
  <2>2. Runtime!TypeOK'
    BY <1>t, <2>a1, <2>a2 DEF Runtime!TypeOK, RuntimePasses, Runtime!PublisherCalls,
       Runtime!Payloads, Runtime!Marks
  <2>3. DecisionsStand
    BY <1>0, <1>t, <2>a1, <2>a2 DEF DecisionsStand, OperationsAreDecided,
       PassesAreDecided
  <2>4. OperationsAreDecided'
    BY <1>0, <1>t, <2>a1, <2>a2 DEF OperationsAreDecided, PassesAreDecided,
       ControlIsDecided, Decided
  <2>5. PassesAreDecided'
    <3>1. PassIsDecided(r)'
      BY <1>0, <1>t, <2>a1, <2>a2 DEF PassIsDecided, PassesAreDecided,
         OperationsAreDecided, Decided
    <3> QED
      BY <2>3, <3>1, <2>a1, <2>a2, PassStands
  <2>6. ControlIsDecided'
    BY <1>0, <1>t, <2>a1, <2>a2 DEF ControlIsDecided, OperationsAreDecided,
       PassesAreDecided, Decided, Runtime!Payloads
  <2>7. CommitsAreActive'
    <3> SUFFICES ASSUME r_losses' = 0, StartUps = {}
                 PROVE  CommitsAreActive'
      BY DEF CommitsAreActive
    <3>1. r_losses = 0 /\ r_control.present
      BY <1>0, <1>t, <2>a1, <2>a2 DEF CommitsAreActive
    <3>2. r_control'.present /\ r_control'.rev >= r_control.rev
      BY <1>0, <1>t, <2>a1, <2>a2, <3>1 DEF ControlIsDecided, PassesAreDecided,
         Runtime!Payloads
    <3>3. ASSUME NEW u \in Ops,
                 r_mark'[u] = "committed" \/ r_pub'[u] = "close" \/ r_op'[u].state = "committed"
          PROVE  r_control'.rev >= r_op'[u].current + 1
      BY <1>0, <1>t, <2>a1, <2>a2, <3>1, <3>2, <3>3 DEF CommitsAreActive,
         OperationsAreDecided, PassesAreDecided
    <3>4. ASSUME NEW q \in Reconcilers,
                 r_rec'[q].pc = "close", r_rec'[q].state = "db_committed"
          PROVE  r_control'.rev >= r_op'[r_rec'[q].op].current + 1
      BY <1>0, <1>t, <2>a1, <2>a2, <3>1, <3>2, <3>4 DEF CommitsAreActive,
         PassesAreDecided
    <3> QED
      BY <3>2, <3>3, <3>4 DEF CommitsAreActive
  <2> QED
    BY <2>2, <2>4, <2>5, <2>6, <2>7 DEF RuntimeInv
<1>18. ASSUME NEW r \in Reconcilers, Runtime!RecRestoreStable(r) PROVE RuntimeInv'
  <2>a1. /\ r_rec[r].pc = "restore"
         /\ UNCHANGED <<r_row, r_op, r_mark, r_pub, r_faults, r_losses>>
    BY <1>18 DEF Runtime!RecRestoreStable
  <2>a2. /\ r_rec' \in [Reconcilers -> RuntimePasses]
         /\ \A q \in Reconcilers \ {r} : r_rec'[q] = r_rec[q]
         /\ r_rec'[r].pc \in {"idle", "list"}
    <3>1. Runtime!RecEnds(r)
      BY <1>18 DEF Runtime!RecRestoreStable
    <3> QED
      BY <1>t, <3>1, ClearedPass
  <2>a3. /\ r_control' \in [present : BOOLEAN, rev : Nat \ {0}, payload : Runtime!Payloads,
                             pending : Runtime!Payloads]
         /\ \/ UNCHANGED r_control
            \/ /\ r_control'.present /\ r_control'.rev = r_rec[r].rev
               /\ r_control'.payload = r_rec[r].payload /\ r_control'.pending = NoOp
               /\ r \in StartUps \/ ~r_control.present
    <3>1. \/ UNCHANGED r_control
          \/ /\ r_control' = Runtime!Active(r_rec[r].rev, r_rec[r].payload)
             /\ r \in StartUps \/ ~r_control.present
      BY <1>18 DEF Runtime!RecRestoreStable, Runtime!ReconcileControl,
         Runtime!RestoreMissing
    <3>2. r_rec[r].rev \in Nat \ {0} /\ r_rec[r].payload \in Runtime!Payloads
      BY <1>t DEF RuntimePasses
    <3> QED
      BY <1>t, <3>1, <3>2, RuntimeActivates
  <2>2. Runtime!TypeOK'
    BY <1>t, <2>a1, <2>a2, <2>a3 DEF Runtime!TypeOK, RuntimePasses,
       Runtime!PublisherCalls, Runtime!Payloads, Runtime!Marks
  <2>3. DecisionsStand
    BY <1>0, <1>t, <2>a1, <2>a2, <2>a3 DEF DecisionsStand, OperationsAreDecided,
       PassesAreDecided
  <2>4. OperationsAreDecided'
    BY <1>0, <1>t, <2>a1, <2>a2, <2>a3 DEF OperationsAreDecided, PassesAreDecided,
       ControlIsDecided, Decided
  <2>5. PassesAreDecided'
    <3>1. PassIsDecided(r)'
      BY <1>0, <1>t, <2>a1, <2>a2, <2>a3 DEF PassIsDecided, PassesAreDecided,
         OperationsAreDecided, Decided
    <3> QED
      BY <2>3, <3>1, <2>a1, <2>a2, <2>a3, PassStands
  <2>6. ControlIsDecided'
    BY <1>0, <1>t, <2>a1, <2>a2, <2>a3 DEF ControlIsDecided, OperationsAreDecided,
       PassesAreDecided, Decided, Runtime!Payloads
  <2>7. CommitsAreActive'
    <3> SUFFICES ASSUME r_losses' = 0, StartUps = {}
                 PROVE  CommitsAreActive'
      BY DEF CommitsAreActive
    <3>1. r_losses = 0 /\ r_control.present
      BY <1>0, <1>t, <2>a1, <2>a2, <2>a3 DEF CommitsAreActive
    <3>2. r_control'.present /\ r_control'.rev >= r_control.rev
      BY <1>0, <1>t, <2>a1, <2>a2, <2>a3, <3>1 DEF ControlIsDecided, PassesAreDecided,
         Runtime!Payloads
    <3>3. ASSUME NEW u \in Ops,
                 r_mark'[u] = "committed" \/ r_pub'[u] = "close" \/ r_op'[u].state = "committed"
          PROVE  r_control'.rev >= r_op'[u].current + 1
      BY <1>0, <1>t, <2>a1, <2>a2, <2>a3, <3>1, <3>2, <3>3 DEF CommitsAreActive,
         OperationsAreDecided, PassesAreDecided
    <3>4. ASSUME NEW q \in Reconcilers,
                 r_rec'[q].pc = "close", r_rec'[q].state = "db_committed"
          PROVE  r_control'.rev >= r_op'[r_rec'[q].op].current + 1
      BY <1>0, <1>t, <2>a1, <2>a2, <2>a3, <3>1, <3>2, <3>4 DEF CommitsAreActive,
         PassesAreDecided
    <3> QED
      BY <3>2, <3>3, <3>4 DEF CommitsAreActive
  <2> QED
    BY <2>2, <2>4, <2>5, <2>6, <2>7 DEF RuntimeInv
<1>19. ASSUME NEW r \in Reconcilers, Runtime!RecFail(r) PROVE RuntimeInv'
  <2>1. /\ r_rec' = [r_rec EXCEPT ![r] = Runtime!Idle]
        /\ r_faults' \in 0 .. MaxFaults
        /\ UNCHANGED <<r_row, r_op, r_control, r_mark, r_pub, r_losses>>
    <3>1. r_rec' = [r_rec EXCEPT ![r] = Runtime!Idle]
      BY <1>19, <1>t DEF Runtime!RecFail, Runtime!RecEnds, Runtime!Fault
    <3>c. Runtime!Fault
      BY <1>19 DEF Runtime!RecFail
    <3>2. r_faults' \in 0 .. MaxFaults
      BY <1>0, <1>t, <3>c, RuntimeCharges
    <3>3. UNCHANGED <<r_row, r_op, r_control, r_mark, r_pub, r_losses>>
      BY <1>19, <1>t DEF Runtime!RecFail, Runtime!RecEnds, Runtime!Fault
    <3> QED
      BY <3>1, <3>2, <3>3
  <2>2. Runtime!TypeOK'
    <3>6. r_rec' \in [Reconcilers -> RuntimePasses]
      BY <1>t, <1>0, <2>1 DEF RuntimePasses, Runtime!ReconcilerCalls,
         Runtime!OpStates, Runtime!Payloads, OperationsAreDecided, PassesAreDecided,
         Runtime!Idle
    <3> QED
      BY <1>t, <2>1, <3>6 DEF Runtime!TypeOK, RuntimePasses
  <2>3. DecisionsStand
    BY <1>0, <1>t, <2>1 DEF DecisionsStand, OperationsAreDecided, PassesAreDecided,
       Runtime!Idle
  <2>4. OperationsAreDecided'
    BY <1>0, <1>t, <2>1 DEF OperationsAreDecided, PassesAreDecided, ControlIsDecided,
       Decided, Runtime!Payloads, Runtime!OpStates, Runtime!Marks,
       Runtime!PublisherCalls, Runtime!ReconcilerCalls, RuntimePasses, Runtime!Idle
  <2>5. PassesAreDecided'
    <3>1. PassIsDecided(r)'
      BY <1>0, <1>t, <2>1 DEF PassIsDecided, PassesAreDecided, OperationsAreDecided,
         Decided, Runtime!Payloads, Runtime!OpStates, Runtime!Marks,
         Runtime!PublisherCalls, Runtime!ReconcilerCalls, RuntimePasses, Runtime!Idle
    <3>2. \A q \in Reconcilers \ {r} : r_rec'[q] = r_rec[q]
      BY <1>t, <2>1
    <3> QED
      BY <2>3, <3>1, <3>2, PassStands
  <2>6. ControlIsDecided'
    BY <1>0, <1>t, <2>1 DEF ControlIsDecided, OperationsAreDecided, PassesAreDecided,
       Decided, Runtime!Payloads, Runtime!OpStates, Runtime!Marks,
       Runtime!PublisherCalls, Runtime!ReconcilerCalls, RuntimePasses, Runtime!Idle
  <2>7. CommitsAreActive'
    <3> SUFFICES ASSUME r_losses' = 0, StartUps = {}
                 PROVE  CommitsAreActive'
      BY DEF CommitsAreActive
    <3>1. r_losses = 0 /\ r_control.present
      BY <1>0, <1>t, <2>1 DEF CommitsAreActive
    <3>2. r_control'.present /\ r_control'.rev >= r_control.rev
      BY <1>0, <1>t, <2>1, <3>1 DEF CommitsAreActive, PassesAreDecided, Runtime!Idle
    <3>3. ASSUME NEW u \in Ops,
                 r_mark'[u] = "committed" \/ r_pub'[u] = "close" \/ r_op'[u].state = "committed"
          PROVE  r_control'.rev >= r_op'[u].current + 1
      BY <1>0, <1>t, <2>1, <3>1, <3>2, <3>3 DEF CommitsAreActive,
         OperationsAreDecided, PassesAreDecided, Runtime!Idle
    <3>4. ASSUME NEW q \in Reconcilers,
                 r_rec'[q].pc = "close", r_rec'[q].state = "db_committed"
          PROVE  r_control'.rev >= r_op'[r_rec'[q].op].current + 1
      BY <1>0, <1>t, <2>1, <3>1, <3>2, <3>4 DEF CommitsAreActive, PassesAreDecided,
         OperationsAreDecided, Runtime!Idle
    <3> QED
      BY <3>2, <3>3, <3>4 DEF CommitsAreActive
  <2> QED
    BY <2>2, <2>4, <2>5, <2>6, <2>7 DEF RuntimeInv
<1>20. ASSUME NEW all \in BOOLEAN, Runtime!LoseControl(all) PROVE RuntimeInv'
  <2>a1. /\ r_losses < MaxLosses /\ r_losses' = r_losses + 1
         /\ UNCHANGED <<r_row, r_op, r_pub, r_rec, r_faults>>
    BY <1>20 DEF Runtime!LoseControl
  <2>a2. r_losses' # 0 /\ r_losses' \in 0 .. MaxLosses
    BY <1>0, <1>t, <2>a1
  <2>a3. /\ r_control' \in [present : BOOLEAN, rev : Nat \ {0}, payload : Runtime!Payloads,
                             pending : Runtime!Payloads]
         /\ r_control'.rev = r_control.rev /\ r_control'.payload = r_control.payload
         /\ r_control'.pending = NoOp
    BY <1>t, <1>20 DEF Runtime!LoseControl, Runtime!Payloads
  <2>a4. /\ r_mark' \in [Ops -> Runtime!Marks]
         /\ \A u \in Ops : r_mark[u] = "none" => r_mark'[u] = "none"
    BY <1>t, <1>20 DEF Runtime!LoseControl, Runtime!Marks
  <2>2. Runtime!TypeOK'
    BY <1>t, <2>a1, <2>a2, <2>a3, <2>a4 DEF Runtime!TypeOK, RuntimePasses,
       Runtime!PublisherCalls, Runtime!Payloads, Runtime!Marks
  <2>3. DecisionsStand
    BY <1>0, <1>t, <2>a1, <2>a2, <2>a3, <2>a4 DEF DecisionsStand,
       OperationsAreDecided, PassesAreDecided
  <2>4. OperationsAreDecided'
    BY <1>0, <1>t, <2>a1, <2>a2, <2>a3, <2>a4 DEF OperationsAreDecided,
       PassesAreDecided, ControlIsDecided, Decided
  <2>5. PassesAreDecided'
    BY <2>3, <2>a1, <2>a2, <2>a3, <2>a4, PassesStand
  <2>6. ControlIsDecided'
    BY <1>0, <1>t, <2>a1, <2>a2, <2>a3, <2>a4 DEF ControlIsDecided,
       OperationsAreDecided, PassesAreDecided, Decided, Runtime!Payloads
  <2>7. CommitsAreActive'
    <3> SUFFICES ASSUME r_losses' = 0, StartUps = {}
                 PROVE  CommitsAreActive'
      BY DEF CommitsAreActive
    <3>1. r_losses = 0 /\ r_control.present
      BY <1>0, <1>t, <2>a1, <2>a2, <2>a3, <2>a4 DEF CommitsAreActive
    <3>2. r_control'.present /\ r_control'.rev >= r_control.rev
      BY <1>0, <1>t, <2>a1, <2>a2, <2>a3, <2>a4, <3>1 DEF ControlIsDecided,
         PassesAreDecided, Runtime!Payloads
    <3>3. ASSUME NEW u \in Ops,
                 r_mark'[u] = "committed" \/ r_pub'[u] = "close" \/ r_op'[u].state = "committed"
          PROVE  r_control'.rev >= r_op'[u].current + 1
      BY <1>0, <1>t, <2>a1, <2>a2, <2>a3, <2>a4, <3>1, <3>2, <3>3 DEF
         CommitsAreActive, OperationsAreDecided, PassesAreDecided
    <3>4. ASSUME NEW q \in Reconcilers,
                 r_rec'[q].pc = "close", r_rec'[q].state = "db_committed"
          PROVE  r_control'.rev >= r_op'[r_rec'[q].op].current + 1
      BY <1>0, <1>t, <2>a1, <2>a2, <2>a3, <2>a4, <3>1, <3>2, <3>4 DEF
         CommitsAreActive, PassesAreDecided
    <3> QED
      BY <3>2, <3>3, <3>4 DEF CommitsAreActive
  <2> QED
    BY <2>2, <2>4, <2>5, <2>6, <2>7 DEF RuntimeInv
<1>21. ASSUME UNCHANGED Runtime!vars PROVE RuntimeInv'
  <2>1. UNCHANGED <<r_row, r_op, r_control, r_mark, r_pub, r_rec, r_faults, r_losses>>
    BY <1>21 DEF Runtime!vars
  <2> QED
    BY <1>0, <2>1 DEF RuntimeInv, Runtime!TypeOK, OperationsAreDecided,
       PassesAreDecided, ControlIsDecided, CommitsAreActive, Decided
<1> QED
  BY <1>1, <1>2, <1>3, <1>4, <1>5, <1>6, <1>7, <1>8, <1>9, <1>10, <1>11, <1>12, <1>13,
     <1>14, <1>15, <1>16, <1>17, <1>18, <1>19, <1>20, <1>21 DEF Runtime!Next,
     Runtime!Publishing, Runtime!RecWork

LEMMA RuntimeInvHolds ==
    ASSUME Runtime!RuntimeControlAssumption PROVE Runtime!Spec => []RuntimeInv
<1>1. ASSUME Runtime!Init PROVE RuntimeInv
  <2>1. /\ r_row = [rev |-> 1, payload |-> NoOp]
        /\ r_op = [t \in Ops |-> [state |-> "none", current |-> 1]]
        /\ r_control = [present |-> TRUE, rev |-> 1, payload |-> NoOp, pending |-> NoOp]
        /\ r_mark = [t \in Ops |-> "none"] /\ r_pub = [t \in Ops |-> "idle"]
        /\ r_rec = [r \in Reconcilers |-> Runtime!Idle]
        /\ r_faults = 0 /\ r_losses = 0
    BY <1>1 DEF Runtime!Init
  <2>2. /\ Runtime!Idle \in RuntimePasses /\ Runtime!Idle.pc = "idle"
        /\ NoOp \in Runtime!Payloads /\ NoOp \notin Ops
        /\ 0 \in 0 .. MaxFaults /\ 0 \in 0 .. MaxLosses
    BY DEF Runtime!Idle, RuntimePasses, Runtime!Payloads, Runtime!OpStates,
       Runtime!ReconcilerCalls, Runtime!RuntimeControlAssumption
  <2>3. Runtime!TypeOK
    BY <2>1, <2>2 DEF Runtime!TypeOK, RuntimePasses, Runtime!OpStates, Runtime!Marks,
       Runtime!PublisherCalls
  <2>4. OperationsAreDecided /\ PassesAreDecided
    BY <2>1, <2>2 DEF OperationsAreDecided, PassesAreDecided, DurableStates
  <2>5. ControlIsDecided /\ CommitsAreActive
    BY <2>1, <2>2 DEF ControlIsDecided, Decided, CommitsAreActive
  <2> QED
    BY <2>3, <2>4, <2>5 DEF RuntimeInv
<1> QED
  BY <1>1, RuntimeStep, PTL DEF Runtime!Spec

\* What Redis enforces of a setting or of a Channel was committed in PostgreSQL,
\* revision and payload, whatever was lost or retried (control_commit.lua, the
\* recovery and restore scripts).
THEOREM RuntimeNeverAheadTheorem ==
    ASSUME Runtime!RuntimeControlAssumption
    PROVE  Runtime!Spec => [](Runtime!TypeOK /\ Runtime!NeverAheadOfDatabase)
<1>1. RuntimeInv => Runtime!TypeOK /\ Runtime!NeverAheadOfDatabase
  BY DEF RuntimeInv, ControlIsDecided, Decided, Runtime!NeverAheadOfDatabase
<1> QED
  BY <1>1, RuntimeInvHolds, PTL

\* While Redis loses nothing and no start-up rewrites the control, an operation is
\* closed as committed only after its revision is active in Redis (Publisher.Publish
\* and markOperationTerminal, whichever came first).
THEOREM CommittedIsActiveTheorem ==
    ASSUME Runtime!RuntimeControlAssumption, StartUps = {}, MaxLosses = 0
    PROVE  Runtime!Spec => []Runtime!CommittedIsActive
<1>1. RuntimeInv => Runtime!CommittedIsActive
  <2> SUFFICES ASSUME RuntimeInv, NEW t \in Ops, r_op[t].state = "committed"
               PROVE  r_control.rev >= r_op[t].current + 1
    BY DEF Runtime!CommittedIsActive, Runtime!NextRevision
  <2>1. r_losses = 0
    BY DEF RuntimeInv, Runtime!TypeOK
  <2> QED
    BY <2>1 DEF RuntimeInv, CommitsAreActive
<1> QED
  BY <1>1, RuntimeInvHolds, PTL

\* How a step moves the revision in Redis against the one in PostgreSQL.
RuntimeStays == r_row'.rev = r_row.rev /\ r_control'.rev = r_control.rev
                  /\ r_control'.present = r_control.present
RuntimeDecides == r_row'.rev = r_row.rev + 1 /\ UNCHANGED r_control
RuntimeMoves ==
    /\ r_row'.rev = r_row.rev /\ r_control'.present
    /\ r_control'.rev \in (IF r_control.present THEN r_control.rev ELSE 1) .. r_row.rev
RuntimeLoses == r_row'.rev = r_row.rev /\ r_control'.rev = r_control.rev /\ ~r_control'.present
RuntimeFollows == RuntimeStays \/ RuntimeDecides \/ RuntimeMoves \/ RuntimeLoses

\* Redis took over a revision: it was decided, and not an older one.
LEMMA TakenOver ==
    ASSUME RuntimeInv, RuntimeInv', UNCHANGED r_row, r_control'.present,
           r_control.present => r_control'.rev >= r_control.rev
    PROVE  RuntimeMoves
<1>1. /\ r_control.rev \in Nat \ {0} /\ r_control'.rev \in Nat \ {0} /\ r_row.rev \in Nat \ {0}
      /\ r_row'.rev = r_row.rev /\ r_control'.rev <= r_row'.rev
  BY DEF RuntimeInv, Runtime!TypeOK, ControlIsDecided, Decided
<1> QED
  BY <1>1 DEF RuntimeMoves

LEMMA RuntimeStepFollows ==
    ASSUME Runtime!RuntimeControlAssumption, StartUps = {}, RuntimeInv,
           [Runtime!Next]_(Runtime!vars), RuntimeInv'
    PROVE  RuntimeFollows
<1> USE DEF RuntimeFollows
<1>0. Runtime!TypeOK /\ PassesAreDecided /\ OperationsAreDecided /\ ControlIsDecided
  BY DEF RuntimeInv
<1>t. /\ r_control \in [present : BOOLEAN, rev : Nat \ {0}, payload : Runtime!Payloads,
                        pending : Runtime!Payloads]
      /\ r_row \in [rev : Nat \ {0}, payload : Runtime!Payloads]
      /\ r_op \in [Ops -> [state : Runtime!OpStates, current : Nat \ {0}]]
  BY <1>0 DEF Runtime!TypeOK
<1>1. CASE UNCHANGED <<r_row, r_control>>
  BY <1>1 DEF RuntimeStays
<1>2. ASSUME NEW t \in Ops, NEW outcome \in Runtime!Outcomes,
             Runtime!Prepare(t, outcome) \/ Runtime!Abort(t, outcome)
      PROVE  RuntimeFollows
  <2>1. UNCHANGED r_row
    BY <1>2 DEF Runtime!Prepare, Runtime!Abort
  <2>2. \/ Runtime!DoPrepare(t) \/ Runtime!DoAbort(t) \/ UNCHANGED r_control
    BY <1>2 DEF Runtime!Prepare, Runtime!Abort
  <2>3. r_control'.rev = r_control.rev /\ r_control'.present = r_control.present
    BY <1>t, <2>2 DEF Runtime!DoPrepare, Runtime!DoAbort
  <2> QED
    BY <2>1, <2>3 DEF RuntimeStays
<1>3. ASSUME NEW t \in Ops, NEW outcome \in Runtime!Outcomes, Runtime!CommitBusiness(t, outcome)
      PROVE  RuntimeFollows
  <2>1. UNCHANGED r_control
    BY <1>3 DEF Runtime!CommitBusiness
  <2>2. r_row' = r_row \/ r_row'.rev = r_row.rev + 1
    BY <1>3 DEF Runtime!CommitBusiness, Runtime!NextRevision
  <2> QED
    BY <2>1, <2>2 DEF RuntimeStays, RuntimeDecides
<1>4. ASSUME NEW t \in Ops, NEW outcome \in Runtime!Outcomes, Runtime!CommitControl(t, outcome)
      PROVE  RuntimeFollows
  <2>1. UNCHANGED r_row /\ (Runtime!DoCommit(t) \/ UNCHANGED <<r_control, r_mark>>)
    BY <1>4 DEF Runtime!CommitControl
  <2>2. \/ UNCHANGED <<r_control, r_mark>>
        \/ /\ r_control.pending = t /\ r_control'.present = r_control.present
           /\ r_control'.rev = r_op[t].current + 1
    BY <1>0, <2>1, RuntimeCommits
  <2>3. r_control.pending = t => r_control.present /\ r_control.rev = r_op[t].current
    BY <1>0 DEF ControlIsDecided
  <2>4. UNCHANGED r_control \/ (r_control'.present /\ r_control'.rev >= r_control.rev)
    BY <1>t, <2>2, <2>3
  <2> QED
    BY <2>1, <2>4, TakenOver DEF RuntimeStays
<1>5. ASSUME NEW r \in Reconcilers, NEW outcome \in Runtime!Outcomes,
             Runtime!RecRecover(r, outcome)
      PROVE  RuntimeFollows
  <2>1. UNCHANGED r_row /\ r_rec[r].op \in Ops
    BY <1>0, <1>5 DEF Runtime!RecRecover, PassesAreDecided
  <2>2. \/ UNCHANGED r_control
        \/ /\ r_control.present => \/ r_control.rev = r_op[r_rec[r].op].current
                                   \/ r_control.rev = r_op[r_rec[r].op].current + 1
           /\ r_control' = Runtime!Active(r_op[r_rec[r].op].current + 1, r_rec[r].op)
        \/ /\ r_control.present => r_control.rev = r_op[r_rec[r].op].current
           /\ r_control' = Runtime!Active(r_op[r_rec[r].op].current, r_rec[r].payload)
    <3>2. CASE outcome # "failed" /\ Runtime!Recovers(r) /\ r_rec[r].state = "db_committed"
      BY <1>5, <3>2 DEF Runtime!RecRecover, Runtime!Recovers, Runtime!CanRecoverCommitted,
         Runtime!NextRevision
    <3>3. CASE outcome # "failed" /\ Runtime!Recovers(r) /\ r_rec[r].state # "db_committed"
      BY <1>5, <3>3 DEF Runtime!RecRecover, Runtime!Recovers, Runtime!CanRecoverAborted
    <3>4. CASE ~(outcome # "failed" /\ Runtime!Recovers(r))
      BY <1>5, <3>4 DEF Runtime!RecRecover
    <3> QED
      BY <3>2, <3>3, <3>4
  <2>3. \/ UNCHANGED r_control
        \/ /\ r_control'.present
           /\ r_control.present => r_control'.rev >= r_control.rev
    BY <1>t, <2>1, <2>2 DEF Runtime!Active
  <2> QED
    BY <2>1, <2>3, TakenOver DEF RuntimeStays
<1>6. ASSUME NEW r \in Reconcilers, Runtime!RecRestoreStable(r) PROVE RuntimeFollows
  <2>1. /\ UNCHANGED r_row
        /\ \/ UNCHANGED r_control
           \/ /\ ~r_control.present
              /\ r_control' = Runtime!Active(r_rec[r].rev, r_rec[r].payload)
    BY <1>6 DEF Runtime!RecRestoreStable, Runtime!RestoreMissing
  <2> QED
    BY <2>1, TakenOver DEF Runtime!Active, RuntimeStays
<1>7. ASSUME NEW all \in BOOLEAN, Runtime!LoseControl(all) PROVE RuntimeFollows
  <2>1. UNCHANGED r_row /\ ~r_control'.present /\ r_control'.rev = r_control.rev
    BY <1>t, <1>7 DEF Runtime!LoseControl
  <2> QED
    BY <2>1 DEF RuntimeLoses
<1>8. \/ UNCHANGED <<r_row, r_control>>
      \/ \E t \in Ops, outcome \in Runtime!Outcomes :
            \/ Runtime!Prepare(t, outcome) \/ Runtime!Abort(t, outcome)
            \/ Runtime!CommitBusiness(t, outcome) \/ Runtime!CommitControl(t, outcome)
      \/ \E r \in Reconcilers : \/ \E outcome \in Runtime!Outcomes : Runtime!RecRecover(r, outcome)
                                \/ Runtime!RecRestoreStable(r)
      \/ \E all \in BOOLEAN : Runtime!LoseControl(all)
  BY DEF Runtime!Next, Runtime!vars, Runtime!Publishing, Runtime!RecWork, Runtime!Request,
     Runtime!Create, Runtime!MarkPrepared, Runtime!Close, Runtime!CloseAborted, Runtime!Die,
     Runtime!MarkExpires, Runtime!RecList, Runtime!RecPayload, Runtime!RecSnapshot,
     Runtime!RecClose, Runtime!RecReadStable, Runtime!RecFail
<1> QED
  BY <1>1, <1>2, <1>3, <1>4, <1>5, <1>6, <1>7, <1>8

\* Without start-ups, the revision Redis enforces follows the one PostgreSQL holds.
THEOREM RuntimeFollowsTheorem ==
    ASSUME Runtime!RuntimeControlAssumption, StartUps = {}
    PROVE  Runtime!Spec => Runtime!FollowsDatabase
<1>1. Runtime!Init => Runtime!Setting!FollowInit
  BY DEF Runtime!Init, Runtime!Setting!FollowInit
<1>2. RuntimeInv /\ RuntimeInv' /\ [Runtime!Next]_(Runtime!vars)
        => [Runtime!Setting!FollowNext]_(Runtime!Setting!followVars)
  <2> SUFFICES ASSUME RuntimeInv, RuntimeInv', [Runtime!Next]_(Runtime!vars)
               PROVE  [Runtime!Setting!FollowNext]_(Runtime!Setting!followVars)
    OBVIOUS
  <2>1. RuntimeFollows
    BY RuntimeStepFollows
  <2>2. r_control.present \in BOOLEAN /\ r_control'.present \in BOOLEAN
    BY DEF RuntimeInv, Runtime!TypeOK
  <2> QED
    BY <2>1, <2>2 DEF RuntimeFollows, RuntimeStays, RuntimeDecides, RuntimeMoves, RuntimeLoses,
       Runtime!Setting!FollowNext, Runtime!Setting!Decide, Runtime!Setting!Follow,
       Runtime!Setting!Lose, Runtime!Setting!followVars
<1> QED
  BY <1>1, <1>2, RuntimeInvHolds, PTL DEF Runtime!Spec, Runtime!FollowsDatabase,
     Runtime!Setting!FollowSpec

=============================================================================
