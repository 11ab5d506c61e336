----------------------------- MODULE StateEpoch -----------------------------
(***************************************************************************)
(* The runtime state epoch: the identity that the runtime state in Redis   *)
(* shares with PostgreSQL.  Every gateway that starts up runs the same     *)
(* coordinator: the first one creates the row and its operation, then the  *)
(* Redis marker is made pending, the operation is advanced, the marker is  *)
(* made ready and the row is closed.  Gateways start at the same time, act *)
(* on copies of the operation that others have moved on, and exit at any   *)
(* store error; Redis may be flushed, or replaced by one with a marker of  *)
(* its own.  Only the bootstrap transition has a caller.                   *)
(***************************************************************************)
EXTENDS Naturals

CONSTANTS
    Gateways,
    Nobody,
    Foreign,      \* the owner of a marker this database did not write
    MaxFaults,    \* bound: start-ups cut short
    MaxLosses     \* bound: Redis flushes and replacements

EpochAssumption ==
    /\ Nobody \notin Gateways /\ Foreign \notin Gateways /\ Nobody # Foreign
    /\ MaxFaults \in Nat /\ MaxLosses \in Nat

VARIABLES
    row,       \* the setting gateway.runtime_state_epoch
    op,        \* its operation; who created it stands for its token and hash
    marker,    \* the Redis marker; by is the operation it names, if any
    opKey,     \* the operation's key in Redis
    pc,        \* where the start-up of each gateway is
    seen,      \* the copy of the operation each start-up holds
    state,     \* the row state each start-up read
    faults, losses

durable == <<row, op>>
redis == <<marker, opKey>>
locals == <<pc, seen, state>>
bounds == <<faults, losses>>
vars == <<durable, redis, locals, bounds>>

NoTransition == [by |-> Nobody, state |-> "none", expected |-> "null"]
NoMarker == [state |-> "absent", epoch |-> Nobody, by |-> Nobody]
NoRow == [state |-> "none", epoch |-> Nobody]

OpStates == {"none", "preparing", "prepared", "db_committed", "committed"}
Transitions == [by : Gateways \cup {Nobody}, state : OpStates, expected : {"null", "absent"}]
Owners == Gateways \cup {Nobody, Foreign}
Steps == {"row", "op", "reconcile", "integrity", "marker", "expect", "reload_expected",
          "prepare", "reload_ready", "prepared", "reload_prepared", "advance", "reload",
          "commit", "finalize"}

TypeOK ==
    /\ row \in [state : {"none", "recovering", "ready"}, epoch : Gateways \cup {Nobody}]
    /\ op \in Transitions
    /\ marker \in [state : {"absent", "pending", "ready"}, epoch : Owners, by : Owners]
    /\ opKey \in {"absent", "pending", "committed"}
    /\ pc \in [Gateways -> Steps \cup {"idle", "failed", "ready", "not_ready"}]
    /\ seen \in [Gateways -> Transitions]
    /\ \A g \in Gateways : pc[g] = "marker" => seen[g] # NoTransition
    /\ state \in [Gateways -> {"none", "recovering", "ready"}]
    /\ faults \in 0 .. MaxFaults /\ losses \in 0 .. MaxLosses

Init ==
    /\ row = NoRow /\ op = NoTransition
    /\ marker \in {NoMarker, [state |-> "ready", epoch |-> Foreign, by |-> Foreign]}
    /\ opKey = "absent"
    /\ pc = [g \in Gateways |-> "idle"] /\ seen = [g \in Gateways |-> NoTransition]
    /\ state = [g \in Gateways |-> "none"]
    /\ faults = 0 /\ losses = 0

Goto(g, to) == pc' = [pc EXCEPT ![g] = to]
Hold(g, o) == seen' = [seen EXCEPT ![g] = o]

(***************************************************************************)
(* The durable operation.                                                  *)
(***************************************************************************)

\* Mutant: the conflict clause overwrites the row that is there.
InsertsAnyway(g) == TRUE

\* CreateBootstrapRuntimeStateEpoch: row and operation in one statement.
Inserts(g) == row = NoRow


Create(g) ==
    /\ pc[g] = "idle" /\ Goto(g, "row")
    /\ IF Inserts(g)
       THEN /\ row' = [state |-> "recovering", epoch |-> g]
            /\ op' = [by |-> g, state |-> "preparing", expected |-> "null"]
            /\ Hold(g, op')
       ELSE Hold(g, NoTransition) /\ UNCHANGED durable
    /\ UNCHANGED <<redis, state, bounds>>

ReadRow(g) ==
    /\ pc[g] = "row" /\ state' = [state EXCEPT ![g] = row.state]
    /\ Goto(g, IF seen[g] = NoTransition THEN "op" ELSE "marker")
    /\ UNCHANGED <<durable, redis, seen, bounds>>

\* Mutant: "no operation" is not told from an operation.
ReadOperationBlindly(g) ==
    /\ pc[g] = "op" /\ Goto(g, "marker")
    /\ Hold(g, IF op.state = "committed" THEN NoTransition ELSE op)
    /\ UNCHANGED <<durable, redis, state, bounds>>

ReadOperation(g) ==
    /\ pc[g] = "op"
    /\ IF op.state = "committed"
       THEN Goto(g, IF state[g] = "ready" THEN "reconcile" ELSE "failed") /\ UNCHANGED seen
       ELSE Goto(g, "marker") /\ Hold(g, op)
    /\ UNCHANGED <<durable, redis, state, bounds>>

\* The hash of the marker seen is recorded only if nobody recorded another.
SetExpected(g) ==
    /\ pc[g] = "expect"
    /\ IF op.state # "committed" /\ op.expected = seen[g].expected
       THEN /\ op' = [op EXCEPT !.expected = "absent"]
            /\ seen' = [seen EXCEPT ![g].expected = "absent"] /\ Goto(g, "prepare")
       ELSE Goto(g, "reload_expected") /\ UNCHANGED <<op, seen>>
    /\ UNCHANGED <<row, redis, state, bounds>>

ReloadExpected(g) ==
    /\ pc[g] = "reload_expected"
    /\ IF op.expected = "absent"
       THEN Hold(g, op) /\ Goto(g, "prepare")
       ELSE Goto(g, "failed") /\ UNCHANGED seen
    /\ UNCHANGED <<durable, redis, state, bounds>>

\* MarkRuntimeControlOperationPrepared.  A copy that is ahead skips the call.
MarkPrepared(g) ==
    /\ pc[g] = "prepared"
    /\ IF op.state = "preparing"
       THEN /\ op' = [op EXCEPT !.state = "prepared"]
            /\ seen' = [seen EXCEPT ![g].state = "prepared"] /\ Goto(g, "advance")
       ELSE Goto(g, "reload_prepared") /\ UNCHANGED <<op, seen>>
    /\ UNCHANGED <<row, redis, state, bounds>>

ReloadPrepared(g) ==
    /\ pc[g] = "reload_prepared"
    /\ Goto(g, CASE op.state = "prepared" -> "advance"
                 [] op.state = "db_committed" -> "reload"
                 [] OTHER -> "failed")
    /\ Hold(g, op)
    /\ UNCHANGED <<durable, redis, state, bounds>>

\* advanceDatabase: row and operation under their locks.
Advance(g) ==
    /\ pc[g] = "advance"
    /\ IF op.state \in {"db_committed", "committed"}
       THEN Goto(g, "reload") /\ UNCHANGED op
       ELSE IF op.state = "prepared" /\ row = [state |-> "recovering", epoch |-> op.by]
       THEN Goto(g, "reload") /\ op' = [op EXCEPT !.state = "db_committed"]
       ELSE Goto(g, "failed") /\ UNCHANGED op
    /\ UNCHANGED <<row, redis, seen, state, bounds>>

\* Mutant: the row is closed without the marker.
ReloadWithoutCommit(g) ==
    /\ pc[g] = "reload" /\ Hold(g, op)
    /\ Goto(g, CASE op.state = "committed" -> "ready"
                 [] op.state = "db_committed" -> "finalize"
                 [] OTHER -> "failed")
    /\ UNCHANGED <<durable, redis, state, bounds>>

\* The operation is read again before the marker is committed; another
\* start-up may have finished.
Reload(g) ==
    /\ pc[g] = "reload" /\ Hold(g, op)
    /\ Goto(g, CASE op.state = "committed" -> "ready"
                 [] op.state = "db_committed" -> "commit"
                 [] OTHER -> "failed")
    /\ UNCHANGED <<durable, redis, state, bounds>>

\* Mutant: a ready marker is enough to be ready.
ReloadedIsReady(g) ==
    /\ pc[g] = "reload_ready" /\ Hold(g, op) /\ Goto(g, "ready")
    /\ UNCHANGED <<durable, redis, state, bounds>>

ReloadReady(g) ==
    /\ pc[g] = "reload_ready" /\ Hold(g, op)
    /\ Goto(g, IF op.state \in {"db_committed", "committed"} THEN "finalize" ELSE "failed")
    /\ UNCHANGED <<durable, redis, state, bounds>>

\* finalizeReady: idempotent; the row becomes ready with the operation's end.
Finalize(g) ==
    /\ pc[g] = "finalize"
    /\ IF op.state = "committed" /\ row = [state |-> "ready", epoch |-> op.by]
       THEN Goto(g, "ready") /\ UNCHANGED durable
       ELSE IF op.state = "db_committed" /\ row = [state |-> "recovering", epoch |-> op.by]
       THEN /\ row' = [row EXCEPT !.state = "ready"]
            /\ op' = [op EXCEPT !.state = "committed"] /\ Goto(g, "ready")
       ELSE Goto(g, "failed") /\ UNCHANGED durable
    /\ UNCHANGED <<redis, seen, state, bounds>>

(***************************************************************************)
(* The Redis marker.                                                       *)
(***************************************************************************)
Pending(o) == [state |-> "pending", epoch |-> o.by, by |-> o.by]
ReadyBy(o) == [state |-> "ready", epoch |-> o.by, by |-> o.by]

\* classifyExpectedMarker: only an absent marker, this operation's pending one
\* or this operation's ready one lets the start-up go on.
Classified(m, o) ==
    CASE m = NoMarker -> IF o.expected = "absent" THEN "prepare" ELSE "expect"
      [] m \in {Pending(o), ReadyBy(o)} /\ o.expected = "absent" -> "prepare"
      [] OTHER -> "failed"

ReadMarker(g) ==
    /\ pc[g] = "marker" /\ Goto(g, Classified(marker, seen[g]))
    /\ UNCHANGED <<durable, redis, seen, state, bounds>>

\* Mutant: the script takes over whatever marker it finds.
PreparesAny(o) == marker # ReadyBy(o) /\ opKey # "committed"

\* Mutant: only an absent marker is made pending.
PreparesAbsent(o) == marker = NoMarker /\ opKey # "committed"

\* epoch_prepare.lua, branches 1 and 3; the expected hash is "absent" here.
Prepares(o) == marker \in {NoMarker, Pending(o)} /\ opKey # "committed"

\* epoch_prepare.lua, branch 4.
FindsReady(o) == marker = ReadyBy(o) /\ opKey # "pending"

Prepare(g) ==
    /\ pc[g] = "prepare"
    /\ \/ /\ Prepares(seen[g])
          /\ marker' = Pending(seen[g]) /\ opKey' = "pending"
          /\ Goto(g, CASE seen[g].state = "preparing" -> "prepared"
                       [] seen[g].state = "prepared" -> "advance"
                       [] OTHER -> "reload")
       \/ /\ FindsReady(seen[g])
          /\ opKey' = "committed" /\ Goto(g, "reload_ready") /\ UNCHANGED marker
       \/ /\ ~Prepares(seen[g]) /\ ~FindsReady(seen[g])
          /\ Goto(g, "failed") /\ UNCHANGED redis
    /\ UNCHANGED <<durable, seen, state, bounds>>

\* epoch_commit.lua.
Commit(g) ==
    /\ pc[g] = "commit"
    /\ IF marker = Pending(seen[g]) /\ opKey # "committed"
       THEN marker' = ReadyBy(seen[g]) /\ opKey' = "committed" /\ Goto(g, "finalize")
       ELSE /\ Goto(g, IF marker = ReadyBy(seen[g]) THEN "finalize" ELSE "failed")
            /\ UNCHANGED redis
    /\ UNCHANGED <<durable, seen, state, bounds>>

\* epoch_reconcile_ready.lua: whatever is there gives way to the durable epoch.
ReconcileReady(g) ==
    /\ pc[g] = "reconcile" /\ Goto(g, "integrity")
    /\ marker' = IF marker.state = "ready" /\ marker.epoch = row.epoch THEN marker
                 ELSE [state |-> "ready", epoch |-> row.epoch, by |-> Nobody]
    /\ UNCHANGED <<durable, opKey, seen, state, bounds>>

StateIntegrity(g) ==
    /\ pc[g] = "integrity"
    /\ Goto(g, IF marker.state = "ready" /\ marker.epoch = row.epoch
               THEN "ready" ELSE "not_ready")
    /\ UNCHANGED <<durable, redis, seen, state, bounds>>

(***************************************************************************)
(* Faults.                                                                 *)
(***************************************************************************)

\* A store error, a lost reply or a kill ends the start-up where it is.
StartFails(g) ==
    /\ faults < MaxFaults /\ faults' = faults + 1
    /\ pc[g] \in Steps /\ Goto(g, "failed")
    /\ UNCHANGED <<durable, redis, seen, state, losses>>

\* The process is started again, after a failure or to deploy.
Restart(g) ==
    /\ pc[g] \in {"failed", "ready", "not_ready"} /\ Goto(g, "idle")
    /\ Hold(g, NoTransition) /\ state' = [state EXCEPT ![g] = "none"]
    /\ UNCHANGED <<durable, redis, bounds>>

\* Redis comes back empty, or with the marker of another database.
RedisLost ==
    /\ losses < MaxLosses /\ losses' = losses + 1
    /\ marker' \in {NoMarker, [state |-> "ready", epoch |-> Foreign, by |-> Foreign]}
    /\ opKey' = "absent"
    /\ UNCHANGED <<durable, locals, faults>>

OpKeyExpires ==
    /\ opKey = "committed" /\ opKey' = "absent"
    /\ UNCHANGED <<durable, marker, locals, bounds>>

Step(g) ==
    \/ Create(g) \/ ReadRow(g) \/ ReadOperation(g) \/ SetExpected(g) \/ ReloadExpected(g)
    \/ ReadMarker(g) \/ Prepare(g) \/ MarkPrepared(g) \/ ReloadPrepared(g) \/ Advance(g)
    \/ Reload(g) \/ ReloadReady(g) \/ Commit(g) \/ Finalize(g)
    \/ ReconcileReady(g) \/ StateIntegrity(g)

Next ==
    \/ \E g \in Gateways : Step(g) \/ StartFails(g) \/ Restart(g)
    \/ RedisLost \/ OpKeyExpires

Spec == Init /\ [][Next]_vars

\* A start-up goes on by itself; a gateway that could not start is restarted.
Fairness ==
    \A g \in Gateways : WF_vars(Step(g)) /\ WF_vars(pc[g] = "failed" /\ Restart(g))

LiveSpec == Spec /\ Fairness

(***************************************************************************)
(* What start-ups promise.                                                 *)
(***************************************************************************)

\* A marker one of the gateways wrote speaks for the row: there is one epoch,
\* however many gateways proposed theirs at once, and its marker is ready only
\* once PostgreSQL has committed the transition (epoch_commit.lua is called
\* behind db_committed).
MarkerSpeaksForTheRow ==
    marker.epoch \in Gateways =>
        /\ marker.epoch = row.epoch
        /\ marker.state = "ready" => op.state \in {"db_committed", "committed"}

\* The row is ready only behind a ready marker: as long as Redis has lost
\* nothing, a ready row has its ready marker, whichever copies of the
\* operation the start-ups that closed it held.
ReadyRowIsBacked ==
    row.state = "ready" /\ losses = 0 => marker.state = "ready" /\ marker.epoch = row.epoch

\* A start-up that reports ready has the durable row behind it
\* (StateEpochEnsureReady), also when another gateway closed the operation.
ReadyIsDurable ==
    \A g \in Gateways : pc[g] = "ready" => row.state = "ready" /\ op.state = "committed"

\* A marker this database did not write is never overwritten before the row
\* is ready, not even one that appears between the read and the script
\* ("any other marker: conflict, nothing is overwritten").
ForeignMarkerIsKept ==
    [][marker.epoch = Foreign /\ row.state # "ready" /\ losses' = losses => marker' = marker]_vars

\* Unless a foreign marker stays, every gateway comes up in the end, whatever
\* start-ups were cut short, whichever copies were stale and whenever Redis
\* was flushed ("not ready" is the answer to a flush during the last call).
StartUpsSucceed ==
    <>[](marker.epoch # Foreign) => \A g \in Gateways : []<>(pc[g] \in {"ready", "not_ready"})
=============================================================================
