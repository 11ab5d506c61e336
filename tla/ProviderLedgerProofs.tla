------------------------ MODULE ProviderLedgerProofs ------------------------
(***************************************************************************)
(* Proofs about ProviderLedger, for any transactions, operations and       *)
(* failures: the entries are an unbroken chain that ends at the balance, a *)
(* target is reached, no constraint of the tables stops a transaction, and *)
(* what a probe cost is on record once.                                    *)
(*                                                                         *)
(* The locks are the argument.  Whoever is past its key has it, so nothing *)
(* with that key was committed since it looked; whoever read the balance   *)
(* has the row, so the balance is still what it read.                      *)
(***************************************************************************)
EXTENDS ProviderLedger, FiniteSetTheorems, SequenceTheorems, TLAPS

\* Past the lock of its key.
Keyed(p) == tx[p].pc \in {"probe", "lock", "write", "close", "commit"}

\* The key and, from the read of the balance to the end, the row are locked; the
\* key is as new as when it was looked up.
LocksAreHeld ==
    \A p \in Procs :
        /\ Keyed(p) =>
              /\ keyLock[tx[p].op.key] = p
              /\ ~Recorded(tx[p].op.key) /\ \A o \in probes : o.key # tx[p].op.key
        /\ tx[p].pc \in {"write", "close"} \/ tx[p].entry # <<>> => rowLock = p

\* The entry a transaction wrote is the one the chain goes on with.
Follows(p) ==
    LET e == tx[p].entry[1] IN
    /\ tx[p].pc \in {"close", "commit"}
    /\ Len(tx[p].entry) = 1 /\ e.op = tx[p].op /\ e.before = balance
    /\ e.op.kind = "target" => e.after = e.op.amount

EntriesFollow ==
    \A p \in Procs :
        /\ tx[p].pc = "write" => tx[p].before = balance
        /\ tx[p].entry # <<>> => Follows(p)
        /\ tx[p].pc = "close" \/ tx[p].closes # {} => tx[p].entry # <<>>

Debited(op) == UsageReliable(op) /\ op.amount # 0

\* What a transaction has written besides the entry: a probe its record and the
\* debit or the risk that go with it, a settlement at most a risk.
WritesOfItsOwn(p) ==
    LET op == tx[p].op IN
    /\ op.kind = "probe" /\ tx[p].pc \in {"lock", "write", "commit"} =>
          /\ tx[p].probe = {op}
          /\ tx[p].pc # "commit" => Debited(op)
          /\ tx[p].pc = "commit" => (tx[p].entry # <<>> <=> Debited(op))
          /\ (tx[p].risk # {} <=> MayHaveCost(op))
    /\ tx[p].probe # {} => op.kind = "probe" /\ tx[p].pc \in {"lock", "write", "commit"}
    /\ tx[p].risk # {} => op.kind \in {"usage", "probe"} /\ tx[p].pc \in {"lock", "write", "commit"}
    /\ \A r, s \in tx[p].risk : r = s /\ r.op = op

\* Only a probe writes a record first, and only a target closes risks.
IsProbing ==
    \A p \in Procs :
        /\ tx[p].pc = "probe" => tx[p].op.kind = "probe"
        /\ tx[p].pc = "close" => tx[p].op.kind = "target"

\* A settlement is the only transaction of its request, and the first.
SettledOnce ==
    \A p \in Procs : tx[p].op.kind = "usage" =>
        /\ \A r \in risks : r.risk.op # tx[p].op
        /\ \A q \in Procs \ {p} : tx[q].op # tx[p].op

\* An operation leaves one risk at most, and a probe one with its record only;
\* the same for its debit.
OneRiskEach ==
    /\ \A r, s \in risks : r.risk.op = s.risk.op => r = s
    /\ \A r \in risks : r.risk.op.kind = "probe" => r.risk.op \in probes
    /\ \A i \in 1 .. Len(entries) : entries[i].op.kind = "probe" => entries[i].op \in probes

\* A recorded probe has the debit that is due or the risk that is due.
DueIsRecorded ==
    \A op \in probes :
        /\ op.kind = "probe"
        /\ \A i, j \in 1 .. Len(entries) : entries[i].op = op /\ entries[j].op = op => i = j
        /\ (\E i \in 1 .. Len(entries) : entries[i].op = op) <=> Debited(op)
        /\ (\E r \in risks : r.risk.op = op) <=> MayHaveCost(op)

IInv ==
    /\ TypeOK /\ ConstraintsNeverBite /\ LocksAreHeld /\ IsProbing /\ EntriesFollow
    /\ (\A p \in Procs : WritesOfItsOwn(p)) /\ SettledOnce /\ OneRiskEach /\ DueIsRecorded
    /\ ChainIsUnbroken /\ TargetReached /\ ClosedByAnEntry

-----------------------------------------------------------------------------
(* Steps that commit nothing.                                              *)

\* What is committed stays, and so does everything said of it alone.
LEMMA CommittedRests ==
    ASSUME IInv, UNCHANGED <<balance, entries, probes, risks>>
    PROVE  OneRiskEach' /\ DueIsRecorded' /\ ChainIsUnbroken' /\ TargetReached' /\ ClosedByAnEntry'
BY DEF IInv, OneRiskEach, DueIsRecorded, ChainIsUnbroken, TargetReached, ClosedByAnEntry, Recorded

\* A transaction leaves with nothing written, and with its locks.
LEMMA RollbackKeeps ==
    ASSUME OpsAssumption, IInv, NEW p \in Procs, Rollback(p),
           UNCHANGED <<balance, entries, probes, risks>>,
           clock' \in 0 .. MaxClock, faults' \in 0 .. MaxFaults
    PROVE  IInv'
<1>1. /\ tx' = [tx EXCEPT ![p] = NoTx]
      /\ keyLock' = [k \in Keys |-> IF keyLock[k] = p THEN None ELSE keyLock[k]]
      /\ rowLock' = IF rowLock = p THEN None ELSE rowLock
  BY DEF Rollback
<1>2. NoTx \in Txs
  BY DEF IInv, TypeOK, NoTx, Txs, OpsAssumption
<1>3. TypeOK'
  BY <1>1, <1>2 DEF IInv, TypeOK, NoTx
<1>4. tx'[p] = NoTx /\ \A q \in Procs \ {p} : tx'[q] = tx[q]
  BY <1>1 DEF IInv, TypeOK
<1>5. ConstraintsNeverBite' /\ IsProbing'
  BY <1>4 DEF IInv, ConstraintsNeverBite, IsProbing, NoTx
<1>6. LocksAreHeld'
  <2> SUFFICES ASSUME NEW q \in Procs
               PROVE  /\ Keyed(q)' =>
                             /\ keyLock'[tx'[q].op.key] = q
                             /\ ~Recorded(tx[q].op.key)' /\ \A o \in probes : o.key # tx'[q].op.key
                      /\ tx'[q].pc \in {"write", "close"} \/ tx'[q].entry # <<>> => rowLock' = q
    BY <1>1, <1>4 DEF LocksAreHeld, Recorded
  <2>1. CASE q = p
    BY <2>1, <1>4 DEF Keyed, NoTx
  <2>2. CASE q # p
    <3>1. tx'[q] = tx[q]
      BY <2>2, <1>4
    <3>2. Keyed(q) => tx[q].op.key \in Keys
      BY DEF IInv, TypeOK, Keyed, Keys
    <3> QED BY <2>2, <3>1, <3>2, <1>1 DEF IInv, LocksAreHeld, Keyed, Recorded
  <2> QED BY <2>1, <2>2
<1>7. EntriesFollow'
  BY <1>4 DEF IInv, EntriesFollow, Follows, NoTx
<1>8. (\A q \in Procs : WritesOfItsOwn(q))'
  BY <1>4 DEF IInv, WritesOfItsOwn, NoTx, NoOp
<1>9. SettledOnce'
  BY <1>4 DEF IInv, SettledOnce, NoTx, NoOp
<1> QED BY <1>3, <1>5, <1>6, <1>7, <1>8, <1>9, CommittedRests DEF IInv

LEMMA FailKeeps ==
    ASSUME OpsAssumption, IInv, NEW p \in Procs, Fail(p)
    PROVE  IInv'
<1>1. clock' \in 0 .. MaxClock /\ faults' \in 0 .. MaxFaults
  BY DEF Fail, IInv, TypeOK, OpsAssumption
<1> QED BY <1>1, RollbackKeeps DEF Fail

LEMMA BeginKeeps ==
    ASSUME OpsAssumption, IInv, NEW p \in Procs, NEW op \in Ops, Begin(p, op)
    PROVE  IInv'
<1> DEFINE t == [NoTx EXCEPT !.pc = "key", !.op = op, !.start = clock,
                             !.known = {r.risk : r \in risks}]
<1>1. /\ tx' = [tx EXCEPT ![p] = t] /\ UNCHANGED <<balance, entries, probes, risks, keyLock, rowLock, faults>>
      /\ clock' \in 0 .. MaxClock
      /\ op.kind = "usage" => /\ \A q \in Procs : tx[q].op # op
                              /\ \A r \in risks : r.risk.op # op
  BY DEF Begin, Set, IInv, TypeOK, OpsAssumption
<1>2. t \in Txs
  <2>1. {r.risk : r \in risks} \subseteq Risks /\ clock \in 0 .. MaxClock
    BY DEF IInv, TypeOK, RiskRows
  <2>2. NoTx \in Txs
    BY DEF IInv, TypeOK, NoTx, Txs, OpsAssumption
  <2> QED BY <2>1, <2>2 DEF Txs
<1>3. /\ tx'[p] = t /\ t.pc = "key" /\ t.op = op /\ t.entry = <<>> /\ t.probe = {} /\ t.risk = {} /\ t.closes = {}
      /\ \A q \in Procs \ {p} : tx'[q] = tx[q]
  BY <1>1 DEF IInv, TypeOK, NoTx
<1> HIDE DEF t
<1>4. TypeOK'
  BY <1>1, <1>2, <1>3 DEF IInv, TypeOK
<1>5. ConstraintsNeverBite' /\ IsProbing'
  BY <1>3 DEF IInv, ConstraintsNeverBite, IsProbing
<1>6. LocksAreHeld'
  BY <1>1, <1>3 DEF IInv, LocksAreHeld, Keyed, Recorded
<1>7. EntriesFollow'
  BY <1>1, <1>3 DEF IInv, EntriesFollow, Follows
<1>8. (\A q \in Procs : WritesOfItsOwn(q))'
  BY <1>1, <1>3 DEF IInv, WritesOfItsOwn
<1>9. SettledOnce'
  <2> SUFFICES ASSUME NEW q \in Procs, tx'[q].op.kind = "usage"
               PROVE  /\ \A r \in risks : r.risk.op # tx'[q].op
                      /\ \A s \in Procs \ {q} : tx'[s].op # tx'[q].op
    BY <1>1 DEF SettledOnce
  <2>1. CASE q = p
    BY <2>1, <1>1, <1>3
  <2>2. CASE q # p
    <3>1. /\ \A r \in risks : r.risk.op # tx[q].op
          /\ \A s \in Procs \ {q} : tx[s].op # tx[q].op
      BY <2>2, <1>3 DEF IInv, SettledOnce
    <3>2. tx[q].op # op
      BY <2>2, <1>1, <1>3
    <3> QED BY <2>2, <3>1, <3>2, <1>3
  <2> QED BY <2>1, <2>2
<1> QED BY <1>1, <1>4, <1>5, <1>6, <1>7, <1>8, <1>9, CommittedRests DEF IInv

\* The advisory lock is taken by one transaction, on a key nobody recorded.
LEMMA LockKeyKeeps ==
    ASSUME OpsAssumption, IInv, NEW p \in Procs, LockKey(p)
    PROVE  IInv'
<1> DEFINE op == tx[p].op
<1>1. tx[p].pc = "key" /\ op \in Ops /\ op.key \in Keys /\ keyLock[op.key] = None
      /\ UNCHANGED <<balance, entries, probes, risks, clock, faults>>
  BY DEF LockKey, KeyFree, IInv, TypeOK, Keys
<1>2. CASE Recorded(op.key) \/ \E o \in probes : o.key = op.key
  <2>1. Rollback(p)
    BY <1>2 DEF LockKey
  <2>2. clock' \in 0 .. MaxClock /\ faults' \in 0 .. MaxFaults
    BY <1>1 DEF IInv, TypeOK
  <2> QED BY <1>1, <2>1, <2>2, RollbackKeeps
<1>3. CASE ~(Recorded(op.key) \/ \E o \in probes : o.key = op.key)
  <2> DEFINE t == tx'[p]
  <2>1. /\ keyLock' = [keyLock EXCEPT ![op.key] = p] /\ rowLock' = rowLock
        /\ \/ op.kind = "probe" /\ Set(p, [tx[p] EXCEPT !.pc = "probe"])
           \/ op.kind = "usage" /\ Set(p, [tx[p] EXCEPT !.pc = "commit", !.risk = {Risk(p, TRUE)}])
           \/ op.kind # "probe" /\ Set(p, [tx[p] EXCEPT !.pc = "lock"])
    BY <1>3 DEF LockKey
  <2>2. tx \in [Procs -> Txs] /\ tx[p] \in Txs
    BY DEF IInv, TypeOK
  <2>3. Risk(p, TRUE) \in Risks /\ Risk(p, TRUE).op = op
    BY <1>1, <2>2 DEF Risk, Risks, Txs
  <2>4. tx[p].entry = <<>> /\ tx[p].closes = {} /\ tx[p].probe = {} /\ tx[p].risk = {}
    BY <1>1 DEF IInv, EntriesFollow, Follows, WritesOfItsOwn
  <2>5. /\ tx' = [tx EXCEPT ![p] = t] /\ tx'[p] = t /\ t \in Txs
        /\ \A q \in Procs \ {p} : tx'[q] = tx[q]
        /\ t.op = op /\ t.entry = <<>> /\ t.closes = {} /\ t.probe = {}
        /\ t.pc \in {"probe", "lock", "commit"} /\ (op.kind = "probe" <=> t.pc = "probe")
        /\ \/ t.risk = {}
           \/ op.kind = "usage" /\ t.pc = "commit" /\ \E r : r.op = op /\ t.risk = {r}
    <3>1. CASE op.kind = "probe" /\ Set(p, [tx[p] EXCEPT !.pc = "probe"])
      BY <3>1, <2>2, <2>4 DEF Set, Txs
    <3>2. CASE op.kind = "usage" /\ Set(p, [tx[p] EXCEPT !.pc = "commit", !.risk = {Risk(p, TRUE)}])
      BY <3>2, <2>2, <2>3, <2>4 DEF Set, Txs
    <3>3. CASE op.kind # "probe" /\ Set(p, [tx[p] EXCEPT !.pc = "lock"])
      BY <3>3, <2>2, <2>4 DEF Set, Txs
    <3> QED BY <2>1, <3>1, <3>2, <3>3
  <2> HIDE DEF t
  <2>6. TypeOK'
    BY <1>1, <2>1, <2>5 DEF IInv, TypeOK
  <2>7. ConstraintsNeverBite' /\ IsProbing'
    BY <2>5 DEF IInv, ConstraintsNeverBite, IsProbing
  <2>8. LocksAreHeld'
    <3> SUFFICES ASSUME NEW q \in Procs
                 PROVE  /\ Keyed(q)' =>
                             /\ keyLock'[tx'[q].op.key] = q
                             /\ ~Recorded(tx[q].op.key)' /\ \A o \in probes : o.key # tx'[q].op.key
                        /\ tx'[q].pc \in {"write", "close"} \/ tx'[q].entry # <<>> => rowLock' = q
      BY <1>1 DEF LocksAreHeld, Recorded
    <3>1. CASE q = p
      <4>1. keyLock'[op.key] = p
        BY <1>1, <2>1 DEF IInv, TypeOK
      <4> QED BY <3>1, <4>1, <1>1, <1>3, <2>5 DEF Keyed, Recorded
    <3>2. CASE q # p
      <4>1. tx'[q] = tx[q] /\ rowLock' = rowLock
        BY <3>2, <2>1, <2>5
      <4>2. Keyed(q) => keyLock[tx[q].op.key] = q /\ tx[q].op.key # op.key
        BY <3>2, <1>1 DEF IInv, LocksAreHeld, OpsAssumption
      <4>3. Keyed(q) => keyLock'[tx[q].op.key] = q
        BY <4>2, <2>1 DEF IInv, TypeOK, Keyed, Keys
      <4> QED BY <4>1, <4>3, <1>1 DEF IInv, LocksAreHeld, Keyed, Recorded
    <3> QED BY <3>1, <3>2
  <2>9. EntriesFollow'
    BY <1>1, <2>5 DEF IInv, EntriesFollow, Follows
  <2>10. (\A q \in Procs : WritesOfItsOwn(q))'
    <3> SUFFICES ASSUME NEW q \in Procs PROVE WritesOfItsOwn(q)'
      OBVIOUS
    <3>1. CASE q = p
      <4>1. tx'[q].op.kind = "probe" => tx'[q].pc = "probe"
        BY <3>1, <2>5
      <4>2. tx'[q].probe = {}
        BY <3>1, <2>5
      <4>3. tx'[q].risk # {} => tx'[q].op.kind = "usage" /\ tx'[q].pc = "commit"
        BY <3>1, <2>5
      <4>4. \A r, s \in tx'[q].risk : r = s /\ r.op = tx'[q].op
        BY <3>1, <2>3, <2>5
      <4> QED BY <4>1, <4>2, <4>3, <4>4 DEF WritesOfItsOwn
    <3>2. CASE q # p
      BY <3>2, <2>5 DEF IInv, WritesOfItsOwn, Debited, UsageReliable, MayHaveCost
    <3> QED BY <3>1, <3>2
  <2>11. SettledOnce'
    BY <1>1, <2>5 DEF IInv, SettledOnce
  <2> QED BY <1>1, <2>6, <2>7, <2>8, <2>9, <2>10, <2>11, CommittedRests DEF IInv
<1> QED BY <1>2, <1>3

\* A transaction that keeps its key and its operation: what its next state has to
\* satisfy for everything to hold.
LEMMA OwnStepKeeps ==
    ASSUME OpsAssumption, IInv, NEW p \in Procs, Keyed(p), NEW t \in Txs,
           tx' = [tx EXCEPT ![p] = t], t.op = tx[p].op,
           t.pc \in {"lock", "write", "close", "commit"}, t.pc = "close" => t.op.kind = "target",
           UNCHANGED <<balance, entries, probes, risks, keyLock, clock, faults>>,
           rowLock' = rowLock \/ (rowLock = None /\ rowLock' = p),
           t.pc \in {"write", "close"} \/ t.entry # <<>> => rowLock' = p,
           EntriesFollow', WritesOfItsOwn(p)'
    PROVE  IInv'
<1>1. tx'[p] = t /\ t.op \in Ops /\ \A q \in Procs \ {p} : tx'[q] = tx[q]
  BY DEF IInv, TypeOK, Keyed
<1>2. TypeOK'
  BY <1>1 DEF IInv, TypeOK
<1>3. ConstraintsNeverBite' /\ IsProbing'
  BY <1>1 DEF IInv, ConstraintsNeverBite, IsProbing
<1>4. LocksAreHeld'
  <2> SUFFICES ASSUME NEW q \in Procs
               PROVE  /\ Keyed(q)' =>
                             /\ keyLock'[tx'[q].op.key] = q
                             /\ ~Recorded(tx[q].op.key)' /\ \A o \in probes : o.key # tx'[q].op.key
                      /\ tx'[q].pc \in {"write", "close"} \/ tx'[q].entry # <<>> => rowLock' = q
    BY <1>1 DEF LocksAreHeld, Recorded
  <2>1. CASE q = p
    BY <2>1, <1>1 DEF IInv, LocksAreHeld, Keyed, Recorded
  <2>2. CASE q # p
    BY <2>2, <1>1 DEF IInv, LocksAreHeld, Keyed, Recorded, OpsAssumption
  <2> QED BY <2>1, <2>2
<1>5. (\A q \in Procs : WritesOfItsOwn(q))'
  BY <1>1 DEF IInv, WritesOfItsOwn, Debited, UsageReliable, MayHaveCost
<1>6. SettledOnce'
  BY <1>1 DEF IInv, SettledOnce
<1> QED BY <1>2, <1>3, <1>4, <1>5, <1>6, CommittedRests DEF IInv

LEMMA ProbeKeeps ==
    ASSUME OpsAssumption, IInv, NEW p \in Procs, Probe(p)
    PROVE  IInv'
<1> DEFINE op == tx[p].op
           risk == IF MayHaveCost(op) THEN {Risk(p, op.priced)} ELSE {}
           t == [tx[p] EXCEPT !.probe = {op},
                    !.pc = IF UsageReliable(op) /\ op.amount # 0 THEN "lock" ELSE "commit",
                    !.risk = risk]
<1>1. /\ tx[p].pc = "probe" /\ tx' = [tx EXCEPT ![p] = t]
      /\ UNCHANGED <<balance, entries, probes, risks, keyLock, rowLock, clock, faults>>
  BY DEF Probe, Set
<1>2. op \in Ops /\ tx[p] \in Txs /\ Keyed(p) /\ tx[p].entry = <<>> /\ tx[p].closes = {}
  BY <1>1 DEF IInv, TypeOK, Keyed, EntriesFollow, Follows
<1>3. op.kind = "probe"
  BY <1>1 DEF IInv, IsProbing
<1>4. risk \subseteq Risks /\ (\A r, s \in risk : r = s /\ r.op = op) /\ (risk # {} <=> MayHaveCost(op))
  <2>1. op.priced \in BOOLEAN
    BY <1>2, <1>3 DEF OpsAssumption
  <2>2. Risk(p, op.priced) \in Risks /\ Risk(p, op.priced).op = op
    BY <1>2, <2>1 DEF Risk, Risks, Txs
  <2>3. CASE MayHaveCost(op)
    BY <2>2, <2>3
  <2>4. CASE ~MayHaveCost(op)
    BY <2>4
  <2> QED BY <2>3, <2>4
<1> HIDE DEF risk
<1>5. /\ t \in Txs /\ t.op = op /\ t.pc = (IF Debited(op) THEN "lock" ELSE "commit")
      /\ t.probe = {op} /\ t.risk = risk /\ t.entry = <<>> /\ t.closes = {}
  BY <1>2, <1>4 DEF Txs, Debited
<1> HIDE DEF t
<1>6. tx'[p] = t /\ \A q \in Procs \ {p} : tx'[q] = tx[q]
  BY <1>1 DEF IInv, TypeOK
<1>7. EntriesFollow'
  BY <1>1, <1>5, <1>6 DEF IInv, EntriesFollow, Follows
<1>8. WritesOfItsOwn(p)'
  BY <1>3, <1>4, <1>5, <1>6 DEF WritesOfItsOwn
<1>9. t \in Txs /\ t.op = tx[p].op /\ t.pc \in {"lock", "commit"} /\ t.entry = <<>>
  BY <1>5
<1> QED BY <1>1, <1>2, <1>7, <1>8, <1>9, OwnStepKeeps

LEMMA LockBalanceKeeps ==
    ASSUME OpsAssumption, IInv, NEW p \in Procs, LockBalance(p)
    PROVE  IInv'
<1> DEFINE t == [tx[p] EXCEPT !.pc = "write", !.before = balance]
<1>1. /\ tx[p].pc = "lock" /\ rowLock = None /\ rowLock' = p /\ tx' = [tx EXCEPT ![p] = t]
      /\ UNCHANGED <<balance, entries, probes, risks, keyLock, clock, faults>>
  BY DEF LockBalance, Set
<1>2. tx[p] \in Txs /\ Keyed(p) /\ tx[p].entry = <<>> /\ tx[p].closes = {}
  BY <1>1 DEF IInv, TypeOK, Keyed, EntriesFollow, Follows
<1>3. /\ t \in Txs /\ t.op = tx[p].op /\ t.pc = "write" /\ t.before = balance
      /\ t.probe = tx[p].probe /\ t.risk = tx[p].risk /\ t.entry = <<>> /\ t.closes = {}
  BY <1>2 DEF Txs, IInv, TypeOK
<1> HIDE DEF t
<1>4. tx'[p] = t /\ \A q \in Procs \ {p} : tx'[q] = tx[q]
  BY <1>1 DEF IInv, TypeOK
<1>5. EntriesFollow'
  BY <1>1, <1>3, <1>4 DEF IInv, EntriesFollow, Follows
<1>6. WritesOfItsOwn(p)'
  BY <1>1, <1>3, <1>4 DEF IInv, WritesOfItsOwn
<1> QED BY <1>1, <1>2, <1>3, <1>5, <1>6, OwnStepKeeps

\* What was read under the row's lock is the balance, and the key is new: the
\* constraints of the table have nothing to refuse.
LEMMA WriteEntryKeeps ==
    ASSUME OpsAssumption, IInv, NEW p \in Procs, WriteEntry(p)
    PROVE  IInv'
<1> DEFINE op == tx[p].op
           d == Delta(p)
           e == [op |-> op, amount |-> Abs(d), before |-> tx[p].before, after |-> balance + d]
           t == [tx[p] EXCEPT !.pc = IF op.kind = "target" THEN "close" ELSE "commit", !.entry = <<e>>]
<1>1. /\ tx[p].pc = "write" /\ Keyed(p) /\ op \in Ops /\ tx[p] \in Txs /\ balance \in Int
      /\ tx[p].before = balance /\ ~Recorded(op.key) /\ rowLock = p
      /\ tx[p].entry = <<>> /\ tx[p].closes = {}
      /\ UNCHANGED <<balance, entries, probes, risks, clock, faults>>
  BY DEF WriteEntry, IInv, TypeOK, Keyed, EntriesFollow, Follows, LocksAreHeld
<1>2. CASE d = 0
  <2>1. Rollback(p)
    BY <1>2 DEF WriteEntry
  <2>2. clock' \in 0 .. MaxClock /\ faults' \in 0 .. MaxFaults
    BY <1>1 DEF IInv, TypeOK
  <2> QED BY <1>1, <2>1, <2>2, RollbackKeeps
<1>3. CASE d # 0
  <2>1. tx' = [tx EXCEPT ![p] = t] /\ rowLock' = p /\ keyLock' = keyLock
    BY <1>1, <1>3 DEF WriteEntry, Set
  <2>2. d \in Int /\ (op.kind = "target" => balance + d = op.amount)
    BY <1>1 DEF Delta, OpsAssumption
  <2>3. e \in Entries /\ e.op = op /\ e.before = balance /\ (op.kind = "target" => e.after = op.amount)
    <3> HIDE DEF d
    <3> QED BY <1>1, <1>3, <2>2 DEF Entries, Abs
  <2> HIDE DEF e
  <2>4. <<e>> \in Seq(Entries) /\ Len(<<e>>) = 1 /\ <<e>>[1] = e /\ <<e>> # <<>>
    BY <2>3
  <2>5. /\ t \in Txs /\ t.op = op /\ t.pc = (IF op.kind = "target" THEN "close" ELSE "commit")
        /\ t.probe = tx[p].probe /\ t.risk = tx[p].risk /\ t.entry = <<e>> /\ t.closes = {}
    BY <1>1, <2>4 DEF Txs
  <2> HIDE DEF t
  <2>6. tx'[p] = t /\ \A q \in Procs \ {p} : tx'[q] = tx[q]
    BY <2>1 DEF IInv, TypeOK
  <2>7. EntriesFollow'
    <3> SUFFICES ASSUME NEW q \in Procs
                 PROVE  /\ tx'[q].pc = "write" => tx'[q].before = balance'
                        /\ tx'[q].entry # <<>> => Follows(q)'
                        /\ tx'[q].pc = "close" \/ tx'[q].closes # {} => tx'[q].entry # <<>>
      BY DEF EntriesFollow
    <3>1. CASE q = p
      BY <3>1, <1>1, <2>3, <2>4, <2>5, <2>6 DEF Follows
    <3>2. CASE q # p
      BY <3>2, <1>1, <2>6 DEF IInv, EntriesFollow, Follows
    <3> QED BY <3>1, <3>2
  <2>8. WritesOfItsOwn(p)'
    <3>1. op.kind = "probe" => Debited(op) /\ t.pc = "commit" /\ t.probe = {op}
      BY <1>1, <2>5 DEF IInv, WritesOfItsOwn
    <3>2. /\ op.kind = "probe" => (t.risk # {} <=> MayHaveCost(op))
          /\ t.probe # {} => op.kind = "probe"
          /\ t.risk # {} => op.kind \in {"usage", "probe"}
          /\ \A r, s \in t.risk : r = s /\ r.op = op
      BY <1>1, <2>5 DEF IInv, WritesOfItsOwn
    <3>3. (t.probe # {} => t.pc = "commit") /\ (t.risk # {} => t.pc = "commit")
      <4>1. t.risk # {} => op.kind # "target"
        BY <3>2
      <4> QED BY <3>1, <3>2, <4>1, <2>5
    <3> QED BY <3>1, <3>2, <3>3, <2>4, <2>5, <2>6 DEF WritesOfItsOwn
  <2> QED BY <1>1, <2>1, <2>4, <2>5, <2>7, <2>8, OwnStepKeeps
<1> QED BY <1>2, <1>3

LEMMA CloseRisksKeeps ==
    ASSUME OpsAssumption, IInv, NEW p \in Procs, CloseRisks(p)
    PROVE  IInv'
<1> DEFINE closes == {r.risk : r \in {r \in risks : /\ r.by = "none" /\ r.risk.currency
                                                    /\ r.risk.created <= tx[p].start}}
           t == [tx[p] EXCEPT !.pc = "commit", !.closes = closes]
<1>1. /\ tx[p].pc = "close" /\ tx' = [tx EXCEPT ![p] = t]
      /\ UNCHANGED <<balance, entries, probes, risks, keyLock, rowLock, clock, faults>>
  BY DEF CloseRisks, Set
<1>2. tx[p] \in Txs /\ Keyed(p) /\ tx[p].entry # <<>> /\ Follows(p) /\ rowLock = p /\ tx[p].op.kind # "probe"
  BY <1>1 DEF IInv, TypeOK, Keyed, EntriesFollow, IsProbing, LocksAreHeld
<1>3. closes \subseteq Risks
  BY DEF IInv, TypeOK, RiskRows
<1> HIDE DEF closes
<1>4. /\ t \in Txs /\ t.op = tx[p].op /\ t.pc = "commit"
      /\ t.probe = tx[p].probe /\ t.risk = tx[p].risk /\ t.entry = tx[p].entry
  BY <1>2, <1>3 DEF Txs
<1> HIDE DEF t
<1>5. tx'[p] = t /\ \A q \in Procs \ {p} : tx'[q] = tx[q]
  BY <1>1 DEF IInv, TypeOK
<1>6. EntriesFollow'
  BY <1>1, <1>2, <1>4, <1>5 DEF IInv, EntriesFollow, Follows
<1>7. WritesOfItsOwn(p)'
  BY <1>1, <1>2, <1>4, <1>5 DEF IInv, WritesOfItsOwn
<1> QED BY <1>1, <1>2, <1>4, <1>6, <1>7, OwnStepKeeps

-----------------------------------------------------------------------------
(* The step that commits.                                                  *)

\* The entries after a commit: the same, or one more that goes on with the chain.
LEMMA CommittedEntries ==
    ASSUME OpsAssumption, IInv, NEW p \in Procs, Commit(p)
    PROVE  /\ entries' \in Seq(Entries) /\ balance' \in Int
           /\ tx[p].entry = <<>> => entries' = entries /\ balance' = balance
           /\ tx[p].entry # <<>> =>
                 LET e == tx[p].entry[1] IN
                 /\ e \in Entries /\ e.op = tx[p].op /\ e.before = balance
                 /\ e.op.kind = "target" => e.after = e.op.amount
                 /\ Len(entries') = Len(entries) + 1 /\ balance' = e.after
                 /\ entries'[Len(entries) + 1] = e
                 /\ \A i \in 1 .. Len(entries) : entries'[i] = entries[i]
<1>1. /\ entries \in Seq(Entries) /\ tx[p].entry \in Seq(Entries) /\ balance \in Int
      /\ entries' = entries \o tx[p].entry
      /\ balance' = IF tx[p].entry = <<>> THEN balance ELSE tx[p].entry[1].after
  BY DEF IInv, TypeOK, Txs, Commit
<1>2. entries' \in Seq(Entries)
  BY <1>1, ConcatProperties
<1>3. CASE tx[p].entry = <<>>
  BY <1>1, <1>2, <1>3, ConcatEmptySeq
<1>4. CASE tx[p].entry # <<>>
  <2>1. Follows(p)
    BY <1>4 DEF IInv, EntriesFollow
  <2>2. Len(tx[p].entry) = 1 /\ tx[p].entry[1] \in Entries
    BY <1>1, <2>1, ElementOfSeq DEF Follows
  <2>3. /\ Len(entries') = Len(entries) + 1
        /\ \A i \in 1 .. Len(entries) + 1 : entries'[i] = IF i <= Len(entries) THEN entries[i] ELSE tx[p].entry[i - Len(entries)]
    <3> DEFINE a == entries
               b == tx[p].entry
    <3>1. a \in Seq(Entries) /\ b \in Seq(Entries) /\ Len(b) = 1 /\ entries' = a \o b
      BY <1>1, <2>2
    <3> HIDE DEF a, b
    <3>2. /\ Len(a \o b) = Len(a) + Len(b)
          /\ \A i \in 1 .. Len(a) + Len(b) : (a \o b)[i] = IF i <= Len(a) THEN a[i] ELSE b[i - Len(a)]
      BY <3>1, ConcatProperties
    <3> QED BY <3>1, <3>2 DEF a, b
  <2>4. Len(entries) \in Nat
    BY <1>1, LenProperties
  <2>5. entries'[Len(entries) + 1] = tx[p].entry[1] /\ \A i \in 1 .. Len(entries) : entries'[i] = entries[i]
    BY <2>3, <2>4
  <2>6. tx[p].entry[1].after \in Int
    BY <2>2 DEF Entries
  <2> QED BY <1>1, <1>2, <1>4, <2>1, <2>2, <2>3, <2>5, <2>6 DEF Follows
<1> QED BY <1>3, <1>4

\* The risks after a commit: those there were, perhaps closed by now, and at most
\* one of the transaction's own.
LEMMA CommittedRisks ==
    ASSUME OpsAssumption, IInv, NEW p \in Procs, Commit(p)
    PROVE  /\ risks' \subseteq RiskRows
           /\ \A r \in risks : \E s \in risks' : s.risk = r.risk
           /\ \A s \in risks' :
                 \/ /\ s.risk \in tx[p].risk
                    /\ s = [risk |-> s.risk, by |-> "none", known |-> TRUE]
                 \/ \E r \in risks : /\ r.risk = s.risk
                                     /\ s = IF r.risk \in tx[p].closes
                                            THEN [r EXCEPT !.by = tx[p].op.key, !.known = r.risk \in tx[p].known]
                                            ELSE r
           /\ \A x \in tx[p].risk : \E s \in risks' : s.risk = x
<1> DEFINE closed(r) == IF r.risk \in tx[p].closes
                        THEN [r EXCEPT !.by = tx[p].op.key, !.known = r.risk \in tx[p].known]
                        ELSE r
           new(x) == [risk |-> x, by |-> "none", known |-> TRUE]
<1>1. risks' = {closed(r) : r \in risks} \cup {new(x) : x \in tx[p].risk}
  BY DEF Commit
<1>2. /\ risks \subseteq RiskRows /\ tx[p].risk \subseteq Risks /\ tx[p].op.key \in Keys
  BY DEF Commit, IInv, TypeOK, Txs, Keys
<1>3. \A r \in risks : closed(r) \in RiskRows /\ closed(r).risk = r.risk
  <2> TAKE r \in risks
  <2>1. r \in RiskRows /\ (r.risk \in tx[p].known) \in BOOLEAN
    BY <1>2
  <2> QED BY <1>2, <2>1 DEF RiskRows
<1>4. \A x \in tx[p].risk : new(x) \in RiskRows /\ new(x).risk = x
  BY <1>2 DEF RiskRows
<1>5. risks' \subseteq RiskRows
  <2> HIDE DEF closed, new
  <2> QED BY <1>1, <1>3, <1>4
<1>6. \A r \in risks : closed(r) \in risks' /\ closed(r).risk = r.risk
  BY <1>1, <1>3
<1>7. \A x \in tx[p].risk : new(x) \in risks' /\ new(x).risk = x
  BY <1>1, <1>4
<1>8. ASSUME NEW s \in risks'
      PROVE  \/ /\ s.risk \in tx[p].risk
                /\ s = [risk |-> s.risk, by |-> "none", known |-> TRUE]
             \/ \E r \in risks : /\ r.risk = s.risk
                                 /\ s = IF r.risk \in tx[p].closes
                                        THEN [r EXCEPT !.by = tx[p].op.key, !.known = r.risk \in tx[p].known]
                                        ELSE r
  <2>1. CASE \E x \in tx[p].risk : s = new(x)
    BY <2>1, <1>4
  <2>2. CASE \E r \in risks : s = closed(r)
    <3>1. PICK r \in risks : s = closed(r)
      BY <2>2
    <3>2. r.risk = s.risk
      BY <3>1, <1>3
    <3> QED BY <3>1, <3>2
  <2> HIDE DEF closed, new
  <2> QED BY <1>1, <2>1, <2>2
<1> HIDE DEF closed, new
<1>9. /\ \A r \in risks : \E s \in risks' : s.risk = r.risk
      /\ \A x \in tx[p].risk : \E s \in risks' : s.risk = x
  BY <1>6, <1>7
<1> QED BY <1>5, <1>8, <1>9

LEMMA CommitKeeps ==
    ASSUME OpsAssumption, IInv, NEW p \in Procs, Commit(p)
    PROVE  IInv'
<1> DEFINE op == tx[p].op
           e == tx[p].entry[1]
           n == Len(entries)
<1>1. /\ tx[p].pc = "commit" /\ Keyed(p) /\ op \in Ops /\ op.key \in Keys /\ tx[p] \in Txs
      /\ probes' = probes \cup tx[p].probe /\ clock' = clock /\ faults' = faults
      /\ tx' = [tx EXCEPT ![p] = NoTx]
      /\ keyLock' = [k \in Keys |-> IF keyLock[k] = p THEN None ELSE keyLock[k]]
      /\ rowLock' = IF rowLock = p THEN None ELSE rowLock
  BY DEF Commit, Rollback, Keyed, IInv, TypeOK, Keys
<1>2. tx'[p] = NoTx /\ \A q \in Procs \ {p} : tx'[q] = tx[q]
  BY <1>1 DEF IInv, TypeOK
<1>3. /\ ~Recorded(op.key) /\ (\A o \in probes : o.key # op.key) /\ keyLock[op.key] = p
      /\ tx[p].entry # <<>> => rowLock = p
  BY <1>1 DEF IInv, LocksAreHeld
<1>4. /\ op.kind = "probe" => /\ tx[p].probe = {op}
                              /\ tx[p].entry # <<>> <=> Debited(op)
                              /\ tx[p].risk # {} <=> MayHaveCost(op)
      /\ tx[p].probe # {} => op.kind = "probe"
      /\ tx[p].risk # {} => op.kind \in {"usage", "probe"}
      /\ \A r, s \in tx[p].risk : r = s /\ r.op = op
  BY <1>1 DEF IInv, WritesOfItsOwn
<1>5. n \in Nat /\ Len(entries') \in Nat /\ entries' \in Seq(Entries) /\ balance' \in Int
  BY CommittedEntries, LenProperties DEF IInv, TypeOK
\* Entries and risks stay, and what is new is of the transaction's operation.
<1>6. /\ \A i \in 1 .. n : i \in 1 .. Len(entries') /\ entries'[i] = entries[i]
      /\ \A i \in 1 .. Len(entries') :
            \/ i \in 1 .. n /\ entries'[i] = entries[i]
            \/ i = n + 1 /\ tx[p].entry # <<>> /\ entries'[i] = e /\ e.op = op
      /\ tx[p].entry # <<>> => n + 1 \in 1 .. Len(entries') /\ entries'[n + 1].op = op
  <2>1. CASE tx[p].entry = <<>>
    BY <2>1, <1>5, CommittedEntries
  <2>2. CASE tx[p].entry # <<>>
    <3>1. /\ Len(entries') = n + 1 /\ entries'[n + 1] = e /\ e.op = op
          /\ \A i \in 1 .. n : entries'[i] = entries[i]
      BY <2>2, CommittedEntries
    <3> HIDE DEF e, n, op
    <3> QED BY <2>2, <3>1, <1>5
  <2> QED BY <2>1, <2>2
<1>7. /\ \A r \in risks : \E s \in risks' : s.risk = r.risk
      /\ \A x \in tx[p].risk : \E s \in risks' : s.risk = x
      /\ \A s \in risks' : s.risk \in tx[p].risk \/ \E r \in risks : r.risk = s.risk
  BY CommittedRisks
<1>8. /\ \A o \in probes : o # op
      /\ op.kind = "probe" => \A r \in risks : r.risk.op # op
      /\ op.kind = "usage" => \A r \in risks : r.risk.op # op
      /\ \A i \in 1 .. n : entries[i].op # op
  <2>1. \A o \in probes : o # op
    BY <1>3
  <2>2. op.kind = "probe" => \A r \in risks : r.risk.op # op
    BY <2>1 DEF IInv, OneRiskEach
  <2>3. op.kind = "usage" => \A r \in risks : r.risk.op # op
    BY DEF IInv, SettledOnce
  <2>4. \A i \in 1 .. n : entries[i].op # op
    BY <1>3 DEF Recorded
  <2> QED BY <2>1, <2>2, <2>3, <2>4
<1>9. TypeOK'
  <2>1. NoTx \in Txs
    BY DEF IInv, TypeOK, NoTx, Txs, OpsAssumption
  <2>2. probes' \subseteq Ops /\ risks' \subseteq RiskRows
    BY <1>1, CommittedRisks DEF IInv, TypeOK, Txs
  <2>3. tx' \in [Procs -> Txs] /\ \A q \in Procs : tx'[q].pc # "idle" => tx'[q].op \in Ops
    BY <1>1, <1>2, <2>1 DEF IInv, TypeOK, NoTx
  <2>4. keyLock' \in [Keys -> Procs \cup {None}] /\ rowLock' \in Procs \cup {None}
    BY <1>1 DEF IInv, TypeOK
  <2> QED BY <1>1, <1>5, <2>2, <2>3, <2>4 DEF IInv, TypeOK
<1>10. ConstraintsNeverBite' /\ IsProbing'
  BY <1>2 DEF IInv, ConstraintsNeverBite, IsProbing, NoTx
<1>11. LocksAreHeld'
  <2> SUFFICES ASSUME NEW q \in Procs
               PROVE  /\ Keyed(q)' =>
                             /\ keyLock'[tx'[q].op.key] = q
                             /\ ~Recorded(tx[q].op.key)' /\ \A o \in probes' : o.key # tx'[q].op.key
                      /\ tx'[q].pc \in {"write", "close"} \/ tx'[q].entry # <<>> => rowLock' = q
    BY DEF LocksAreHeld
  <2>1. CASE q = p
    BY <2>1, <1>2 DEF Keyed, NoTx
  <2>2. CASE q # p
    <3>1. tx'[q] = tx[q] /\ (tx[q].pc \in {"write", "close"} \/ tx[q].entry # <<>> => rowLock = q)
      BY <2>2, <1>2 DEF IInv, LocksAreHeld
    <3>2. ASSUME Keyed(q)
          PROVE  /\ keyLock'[tx[q].op.key] = q
                 /\ ~Recorded(tx[q].op.key)' /\ \A o \in probes' : o.key # tx[q].op.key
      <4>1. /\ keyLock[tx[q].op.key] = q /\ ~Recorded(tx[q].op.key)
            /\ (\A o \in probes : o.key # tx[q].op.key) /\ tx[q].op.key \in Keys
        BY <3>2 DEF IInv, LocksAreHeld, TypeOK, Keyed, Keys
      <4>2. tx[q].op.key # op.key
        BY <2>2, <1>3, <4>1
      <4>3. keyLock'[tx[q].op.key] = q
        BY <2>2, <1>1, <4>1
      <4>4. \A o \in probes' : o.key # tx[q].op.key
        BY <1>1, <1>4, <4>1, <4>2
      <4>5. ~Recorded(tx[q].op.key)'
        BY <1>6, <3>1, <4>1, <4>2 DEF Recorded
      <4> QED BY <4>3, <4>4, <4>5
    <3> QED BY <2>2, <1>1, <3>1, <3>2 DEF Keyed
  <2> QED BY <2>1, <2>2
<1>12. EntriesFollow'
  <2> SUFFICES ASSUME NEW q \in Procs
               PROVE  /\ tx'[q].pc = "write" => tx'[q].before = balance'
                      /\ tx'[q].entry # <<>> => Follows(q)'
                      /\ tx'[q].pc = "close" \/ tx'[q].closes # {} => tx'[q].entry # <<>>
    BY DEF EntriesFollow
  <2>1. CASE q = p
    BY <2>1, <1>2 DEF NoTx
  <2>2. CASE q # p
    <3>1. tx[q].pc = "write" \/ tx[q].entry # <<>> => balance' = balance
      BY <2>2, <1>3, CommittedEntries DEF IInv, LocksAreHeld
    <3> QED BY <2>2, <1>2, <3>1 DEF IInv, EntriesFollow, Follows
  <2> QED BY <2>1, <2>2
<1>13. (\A q \in Procs : WritesOfItsOwn(q))'
  <2> SUFFICES ASSUME NEW q \in Procs PROVE WritesOfItsOwn(q)'
    OBVIOUS
  <2>1. CASE q = p
    BY <2>1, <1>2 DEF WritesOfItsOwn, NoTx, NoOp
  <2>2. CASE q # p
    BY <2>2, <1>2 DEF IInv, WritesOfItsOwn, Debited, UsageReliable, MayHaveCost
  <2> QED BY <2>1, <2>2
<1>14. SettledOnce'
  <2> SUFFICES ASSUME NEW q \in Procs, tx'[q].op.kind = "usage"
               PROVE  /\ \A r \in risks' : r.risk.op # tx'[q].op
                      /\ \A s \in Procs \ {q} : tx'[s].op # tx'[q].op
    BY DEF SettledOnce
  <2>1. q # p /\ tx'[q] = tx[q]
    BY <1>2 DEF NoTx, NoOp
  <2>2. (\A r \in risks : r.risk.op # tx[q].op) /\ \A s \in Procs \ {q} : tx[s].op # tx[q].op
    BY <2>1 DEF IInv, SettledOnce
  <2>3. \A r \in risks' : r.risk.op # tx[q].op
    BY <2>1, <2>2, <1>4, <1>7
  <2>4. \A s \in Procs \ {q} : tx'[s].op # tx[q].op
    BY <2>1, <2>2, <1>2 DEF NoTx, NoOp
  <2> QED BY <2>1, <2>3, <2>4
<1>15. OneRiskEach'
  <2>1. ASSUME NEW r \in risks', NEW s \in risks', r.risk.op = s.risk.op PROVE r = s
    <3>1. CASE r.risk \in tx[p].risk /\ s.risk \in tx[p].risk
      <4>1. r.risk = s.risk /\ r.risk.op = op /\ op.kind \in {"usage", "probe"}
        BY <3>1, <1>4
      <4>2. \A x \in risks : x.risk # r.risk
        BY <4>1, <1>8
      <4>3. \A x \in risks' : x.risk = r.risk => x = [risk |-> x.risk, by |-> "none", known |-> TRUE]
        <5> TAKE x \in risks'
        <5>1. (x = [risk |-> x.risk, by |-> "none", known |-> TRUE]) \/ \E y \in risks : y.risk = x.risk
          BY CommittedRisks
        <5> QED BY <5>1, <4>2
      <4> QED BY <4>1, <4>3
    <3>2. CASE ~(r.risk \in tx[p].risk) /\ ~(s.risk \in tx[p].risk)
      <4> DEFINE closed(x) == IF x.risk \in tx[p].closes
                              THEN [x EXCEPT !.by = tx[p].op.key, !.known = x.risk \in tx[p].known]
                              ELSE x
      <4>1. (\E x \in risks : x.risk = r.risk /\ r = closed(x)) /\ (\E y \in risks : y.risk = s.risk /\ s = closed(y))
        BY <3>2, CommittedRisks
      <4>2. PICK x \in risks : x.risk = r.risk /\ r = closed(x)
        BY <4>1
      <4>3. PICK y \in risks : y.risk = s.risk /\ s = closed(y)
        BY <4>1
      <4> HIDE DEF closed
      <4>4. x = y
        BY <2>1, <4>2, <4>3 DEF IInv, OneRiskEach
      <4> QED BY <4>2, <4>3, <4>4
    <3>3. ASSUME NEW a \in risks', NEW b \in risks', a.risk.op = b.risk.op,
                 a.risk \in tx[p].risk, ~(b.risk \in tx[p].risk)
          PROVE  FALSE
      <4>1. a.risk.op = op /\ op.kind \in {"usage", "probe"}
        BY <3>3, <1>4
      <4>2. \E x \in risks : x.risk = b.risk
        BY <3>3, <1>7
      <4> QED BY <3>3, <4>1, <4>2, <1>8
    <3> QED BY <2>1, <3>1, <3>2, <3>3
  <2>2. ASSUME NEW r \in risks', r.risk.op.kind = "probe" PROVE r.risk.op \in probes'
    <3>1. CASE r.risk \in tx[p].risk
      BY <2>2, <3>1, <1>1, <1>4
    <3>2. CASE \E x \in risks : x.risk = r.risk
      BY <2>2, <3>2, <1>1 DEF IInv, OneRiskEach
    <3> QED BY <3>1, <3>2, <1>7
  <2>3. ASSUME NEW i \in 1 .. Len(entries'), entries'[i].op.kind = "probe" PROVE entries'[i].op \in probes'
    <3>1. CASE i \in 1 .. n /\ entries'[i] = entries[i]
      BY <2>3, <3>1, <1>1 DEF IInv, OneRiskEach
    <3>2. CASE entries'[i] = e /\ e.op = op
      BY <2>3, <3>2, <1>1, <1>4
    <3> QED BY <3>1, <3>2, <1>6
  <2> QED BY <2>1, <2>2, <2>3 DEF OneRiskEach
<1>16. DueIsRecorded'
  <2> SUFFICES ASSUME NEW o \in probes'
               PROVE  /\ o.kind = "probe"
                      /\ \A i, j \in 1 .. Len(entries') : entries'[i].op = o /\ entries'[j].op = o => i = j
                      /\ (\E i \in 1 .. Len(entries') : entries'[i].op = o) <=> Debited(o)
                      /\ (\E r \in risks' : r.risk.op = o) <=> MayHaveCost(o)
    BY DEF DueIsRecorded, Debited, UsageReliable, MayHaveCost
  <2>1. CASE o \in probes
    <3>1. /\ o.kind = "probe" /\ o # op
          /\ \A i, j \in 1 .. n : entries[i].op = o /\ entries[j].op = o => i = j
          /\ (\E i \in 1 .. n : entries[i].op = o) <=> Debited(o)
          /\ (\E r \in risks : r.risk.op = o) <=> MayHaveCost(o)
      BY <2>1, <1>8 DEF IInv, DueIsRecorded
    <3>2. \A i \in 1 .. Len(entries') : entries'[i].op = o => i \in 1 .. n /\ entries[i].op = o
      BY <3>1, <1>6
    <3>3. (\E i \in 1 .. Len(entries') : entries'[i].op = o) <=> (\E i \in 1 .. n : entries[i].op = o)
      BY <3>2, <1>6
    <3>4. (\E r \in risks' : r.risk.op = o) <=> (\E r \in risks : r.risk.op = o)
      BY <3>1, <1>4, <1>7
    <3> QED BY <3>1, <3>2, <3>3, <3>4
  <2>2. CASE o \notin probes
    <3>1. o = op /\ op.kind = "probe"
      BY <2>2, <1>1, <1>4
    <3>2. \A i \in 1 .. Len(entries') : entries'[i].op = o => i = n + 1 /\ tx[p].entry # <<>>
      BY <3>1, <1>6, <1>8
    <3>3. (\E i \in 1 .. Len(entries') : entries'[i].op = o) <=> tx[p].entry # <<>>
      BY <3>1, <3>2, <1>6
    <3>4. (\E r \in risks' : r.risk.op = o) <=> tx[p].risk # {}
      BY <3>1, <1>4, <1>7, <1>8
    <3>5. \A i, j \in 1 .. Len(entries') : entries'[i].op = o /\ entries'[j].op = o => i = j
      BY <3>2
    <3> QED BY <3>1, <3>3, <3>4, <3>5, <1>4
  <2> QED BY <2>1, <2>2
<1>17. ChainIsUnbroken' /\ TargetReached'
  <2>1. CASE tx[p].entry = <<>>
    BY <2>1, CommittedEntries DEF IInv, ChainIsUnbroken, TargetReached
  <2>2. CASE tx[p].entry # <<>>
    <3>1. /\ Len(entries') = n + 1 /\ balance' = e.after /\ entries'[n + 1] = e
          /\ \A i \in 1 .. n : entries'[i] = entries[i]
          /\ e.before = balance /\ (e.op.kind = "target" => e.after = e.op.amount)
      BY <2>2, CommittedEntries
    <3>2. entries' # <<>>
      BY <3>1, <1>5
    <3>3. balance = IF n = 0 THEN 0 ELSE entries[n].after
      BY <1>5 DEF IInv, TypeOK, ChainIsUnbroken
    <3>4. \A i \in 1 .. n : entries[i].before = IF i = 1 THEN 0 ELSE entries[i - 1].after
      BY DEF IInv, ChainIsUnbroken
    <3>5. \A i \in 1 .. n : entries[i].op.kind = "target" => entries[i].after = entries[i].op.amount
      BY DEF IInv, TargetReached
    <3> HIDE DEF e, n
    <3>6. \A i \in 1 .. n + 1 : entries'[i].before = IF i = 1 THEN 0 ELSE entries'[i - 1].after
      <4> TAKE i \in 1 .. n + 1
      <4>1. CASE i = n + 1
        BY <4>1, <1>5, <3>1, <3>3
      <4>2. CASE i \in 1 .. n
        <5>1. i # 1 => i - 1 \in 1 .. n
          BY <4>2, <1>5
        <5> QED BY <4>2, <5>1, <3>1, <3>4
      <4> QED BY <4>1, <4>2, <1>5
    <3>7. \A i \in 1 .. n + 1 : entries'[i].op.kind = "target" => entries'[i].after = entries'[i].op.amount
      <4> TAKE i \in 1 .. n + 1
      <4>1. i = n + 1 \/ i \in 1 .. n
        BY <1>5
      <4> QED BY <4>1, <3>1, <3>5
    <3> QED BY <3>1, <3>2, <3>6, <3>7 DEF ChainIsUnbroken, TargetReached
  <2> QED BY <2>1, <2>2
<1>18. ClosedByAnEntry'
  <2> SUFFICES ASSUME NEW s \in risks', s.by # "none" PROVE Recorded(s.by)'
    BY DEF ClosedByAnEntry
  <2>1. \E r \in risks : \/ s = r
                         \/ s.by = op.key /\ tx[p].closes # {}
    <3>1. \/ s = [risk |-> s.risk, by |-> "none", known |-> TRUE]
          \/ \E r \in risks : s = IF r.risk \in tx[p].closes
                                  THEN [r EXCEPT !.by = tx[p].op.key, !.known = r.risk \in tx[p].known]
                                  ELSE r
      BY CommittedRisks
    <3>2. s # [risk |-> s.risk, by |-> "none", known |-> TRUE]
      OBVIOUS
    <3>3. PICK r \in risks : s = IF r.risk \in tx[p].closes
                                  THEN [r EXCEPT !.by = tx[p].op.key, !.known = r.risk \in tx[p].known]
                                  ELSE r
      BY <3>1, <3>2
    <3>4. CASE r.risk \in tx[p].closes
      <4>1. r \in RiskRows /\ (r.risk \in tx[p].known) \in BOOLEAN
        BY DEF IInv, TypeOK
      <4> DEFINE known == r.risk \in tx[p].known
      <4>2. s = [[r EXCEPT !.by = tx[p].op.key] EXCEPT !.known = known]
        BY <3>3, <3>4
      <4> HIDE DEF known
      <4>3. s.by = op.key
        BY <4>1, <4>2 DEF RiskRows
      <4> QED BY <3>4, <4>3
    <3>5. CASE ~(r.risk \in tx[p].closes)
      BY <3>3, <3>5
    <3> QED BY <3>4, <3>5
  <2>2. CASE \E r \in risks : s = r
    <3>1. Recorded(s.by)
      BY <2>2 DEF IInv, ClosedByAnEntry
    <3>2. PICK i \in 1 .. n : entries[i].op.key = s.by
      BY <3>1 DEF Recorded
    <3> QED BY <3>2, <1>6 DEF Recorded
  <2>3. CASE s.by = op.key /\ tx[p].closes # {}
    <3>1. tx[p].entry # <<>>
      BY <2>3 DEF IInv, EntriesFollow
    <3> QED BY <2>3, <3>1, <1>6 DEF Recorded
  <2> QED BY <2>1, <2>2, <2>3
<1> QED BY <1>9, <1>10, <1>11, <1>12, <1>13, <1>14, <1>15, <1>16, <1>17, <1>18 DEF IInv

-----------------------------------------------------------------------------
(* The theorems.                                                           *)

LEMMA InitHolds ==
    ASSUME OpsAssumption, Init
    PROVE  IInv
<1>1. NoTx \in Txs /\ TypeOK
  BY DEF OpsAssumption, Init, TypeOK, NoTx, Txs
<1>2. ConstraintsNeverBite /\ LocksAreHeld /\ IsProbing /\ EntriesFollow
  BY DEF Init, NoTx, ConstraintsNeverBite, LocksAreHeld, Keyed, IsProbing, EntriesFollow
<1>3. (\A p \in Procs : WritesOfItsOwn(p)) /\ SettledOnce
  BY DEF Init, NoTx, NoOp, WritesOfItsOwn, SettledOnce
<1>4. Len(entries) = 0
  BY DEF Init
<1>5. OneRiskEach /\ DueIsRecorded /\ ChainIsUnbroken /\ TargetReached /\ ClosedByAnEntry
  BY <1>4 DEF Init, OneRiskEach, DueIsRecorded, ChainIsUnbroken, TargetReached, ClosedByAnEntry
<1> QED BY <1>1, <1>2, <1>3, <1>5 DEF IInv

LEMMA StepKeeps ==
    ASSUME OpsAssumption, IInv, [Next]_vars
    PROVE  IInv'
<1>1. ASSUME NEW p \in Procs, Statement(p) PROVE IInv'
  BY <1>1, LockKeyKeeps, ProbeKeeps, LockBalanceKeeps, WriteEntryKeeps, CloseRisksKeeps, CommitKeeps DEF Statement
<1>2. ASSUME NEW p \in Procs, Fail(p) PROVE IInv'
  BY <1>2, FailKeeps
<1>3. ASSUME NEW p \in Procs, NEW op \in Ops, Begin(p, op) PROVE IInv'
  BY <1>3, BeginKeeps
<1>4. CASE UNCHANGED vars
  BY <1>4 DEF vars, IInv, TypeOK, ConstraintsNeverBite, LocksAreHeld, Keyed, IsProbing, EntriesFollow, Follows,
     WritesOfItsOwn, SettledOnce, OneRiskEach, DueIsRecorded, ChainIsUnbroken, TargetReached, ClosedByAnEntry,
     Recorded, Debited, UsageReliable, MayHaveCost
<1> QED BY <1>1, <1>2, <1>3, <1>4 DEF Next

\* The inductive invariant: the locks, what the open transactions have read and
\* written, and the chain they extend.
THEOREM InvariantHolds == ASSUME OpsAssumption PROVE Spec => []IInv
<1>1. Init => IInv
  BY InitHolds
<1>2. IInv /\ [Next]_vars => IInv'
  BY StepKeeps
<1> QED BY <1>1, <1>2, PTL DEF Spec

\* What is due for a recorded probe is there once: one debit or one risk.
LEMMA DueIsCounted ==
    ASSUME IInv
    PROVE  ProbeIsAccounted
<1> SUFFICES ASSUME NEW op \in probes
             PROVE  LET r == {x \in risks : x.risk.op = op} IN
                    Cardinality(Debits(op)) + Cardinality(r)
                        = IF op.success /\ op.usage = "full" /\ op.priced
                          THEN (IF op.amount = 0 THEN 0 ELSE 1)
                          ELSE (IF op.success \/ op.twoxx THEN 1 ELSE 0)
  BY DEF ProbeIsAccounted
<1> DEFINE D == Debits(op)
           R == {x \in risks : x.risk.op = op}
<1>1. \A i, j \in D : i = j
  BY DEF IInv, DueIsRecorded, Debits
<1>2. \A x, y \in R : x = y
  BY DEF IInv, OneRiskEach
<1>3. (D # {} <=> Debited(op)) /\ (R # {} <=> MayHaveCost(op))
  BY DEF IInv, DueIsRecorded, Debits
<1>4. ASSUME NEW S, \A x, y \in S : x = y
      PROVE  Cardinality(S) = IF S = {} THEN 0 ELSE 1
  <2>1. CASE S = {}
    BY <2>1, FS_EmptySet
  <2>2. CASE S # {}
    <3>1. PICK x \in S : TRUE
      BY <2>2
    <3>2. S = {x}
      BY <1>4, <3>1
    <3> QED BY <2>2, <3>2, FS_Singleton
  <2> QED BY <2>1, <2>2
<1>5. /\ Cardinality(D) = IF D = {} THEN 0 ELSE 1
      /\ Cardinality(R) = IF R = {} THEN 0 ELSE 1
  <2> HIDE DEF D, R
  <2> QED BY <1>1, <1>2, <1>4
<1> HIDE DEF D
<1>6. Cardinality(D) + Cardinality(R)
          = (IF Debited(op) THEN 1 ELSE 0) + (IF MayHaveCost(op) THEN 1 ELSE 0)
  <2> HIDE DEF R
  <2>1. Cardinality(D) = IF Debited(op) THEN 1 ELSE 0
    <3>1. CASE Debited(op)
      BY <1>3, <1>5, <3>1
    <3>2. CASE ~Debited(op)
      BY <1>3, <1>5, <3>2
    <3> QED BY <3>1, <3>2
  <2>2. Cardinality(R) = IF MayHaveCost(op) THEN 1 ELSE 0
    <3>1. CASE MayHaveCost(op)
      BY <1>3, <1>5, <3>1
    <3>2. CASE ~MayHaveCost(op)
      BY <1>3, <1>5, <3>2
    <3> QED BY <3>1, <3>2
  <2> QED BY <2>1, <2>2
<1> HIDE DEF R
<1>7. Cardinality(D) + Cardinality(R)
          = IF op.success /\ op.usage = "full" /\ op.priced
            THEN (IF op.amount = 0 THEN 0 ELSE 1)
            ELSE (IF op.success \/ op.twoxx THEN 1 ELSE 0)
  BY <1>6 DEF Debited, UsageReliable, MayHaveCost
<1> QED BY <1>7 DEF D, R

\* The ledger is whole: entries chain up to the balance, targets are reached, no
\* constraint bites, probes are accounted and risks closed by entries, for
\* transactions interleaved statement by statement and failing anywhere.
THEOREM ProviderLedgerIsWholeTheorem == ASSUME OpsAssumption PROVE Spec => []ProviderLedgerIsWhole
<1>1. IInv => ProviderLedgerIsWhole
  BY DueIsCounted DEF IInv, ProviderLedgerIsWhole
<1> QED BY <1>1, InvariantHolds, PTL

=============================================================================
