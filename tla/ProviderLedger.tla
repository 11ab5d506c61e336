--------------------------- MODULE ProviderLedger ---------------------------
(***************************************************************************)
(* The internal balance of one provider in one currency: usage and probe   *)
(* debits, manual adjustments, adjustment to a target balance, and the     *)
(* cost risks a target adjustment reconciles.  Every operation is a        *)
(* PostgreSQL transaction of several statements; several of them run at    *)
(* once, fail in the middle, or lose the answer to their commit and are    *)
(* tried again under the same idempotency key.  Rows in READ COMMITTED:    *)
(* a transaction's writes show when it commits.  The balance row is        *)
(* there from the start, as EnsureProviderBalance leaves it.               *)
(***************************************************************************)
EXTENDS Integers, Sequences, FiniteSets

CONSTANTS
    Procs,      \* transactions open at once
    None,       \* nobody holds a lock
    Ops,        \* what is asked for: an idempotency key, a kind, an amount or target ...
    MaxClock,   \* bound: target adjustments begun
    MaxFaults   \* bound: failed statements and lost answers

Kinds == {"credit", "debit", "target", "usage", "probe"}

OpsAssumption ==
    /\ MaxClock \in Nat /\ MaxFaults \in Nat /\ None \notin Procs
    /\ \A op \in Ops :
         /\ op.key # "none" /\ op.kind \in Kinds /\ op.amount \in Int
         /\ op.kind = "usage" => op.partial \in BOOLEAN
         /\ op.kind = "probe" => {op.success, op.twoxx, op.priced} \subseteq BOOLEAN

VARIABLES
    balance,    \* provider_balances
    entries,    \* provider_ledger_entries, in the order they were committed
    probes,     \* provider_probe_records, by the operation that made them
    risks,      \* provider_cost_risks
    tx,         \* the open transactions
    keyLock,    \* advisory locks: idempotency key -> its holder
    rowLock,    \* the holder of the balance row
    clock,      \* time, told apart only by the cutoffs
    faults

vars == <<balance, entries, probes, risks, tx, keyLock, rowLock, clock, faults>>

Keys == {op.key : op \in Ops}
NoOp == [key |-> "none", kind |-> "none"]
NoTx == [pc |-> "idle", op |-> NoOp, start |-> 0, before |-> 0,
         entry |-> <<>>, probe |-> {}, risk |-> {}, closes |-> {}, known |-> {}]
Entries == [op : Ops, amount : Nat \ {0}, before : Int, after : Int]
Risks == [op : Ops, created : 0 .. MaxClock, currency : BOOLEAN]
RiskRows == [risk : Risks, by : Keys \cup {"none"}, known : BOOLEAN]
Txs == [pc : {"idle", "key", "probe", "lock", "write", "close", "commit", "constraint"},
        op : Ops \cup {NoOp}, start : 0 .. MaxClock, before : Int, entry : Seq(Entries),
        probe : SUBSET Ops, risk : SUBSET Risks, closes : SUBSET Risks, known : SUBSET Risks]

TypeOK ==
    /\ balance \in Int /\ clock \in 0 .. MaxClock /\ faults \in 0 .. MaxFaults
    /\ entries \in Seq(Entries) /\ probes \subseteq Ops /\ risks \subseteq RiskRows
    /\ tx \in [Procs -> Txs] /\ \A p \in Procs : tx[p].pc # "idle" => tx[p].op \in Ops
    /\ keyLock \in [Keys -> Procs \cup {None}] /\ rowLock \in Procs \cup {None}

Init ==
    /\ balance = 0 /\ entries = <<>> /\ probes = {} /\ risks = {}
    /\ tx = [p \in Procs |-> NoTx]
    /\ keyLock = [k \in Keys |-> None] /\ rowLock = None
    /\ clock = 0 /\ faults = 0

Recorded(key) == \E i \in 1 .. Len(entries) : entries[i].op.key = key

(***************************************************************************)
(* A transaction, statement by statement.                                  *)
(***************************************************************************)
Set(p, t) == tx' = [tx EXCEPT ![p] = t]

\* A session lock in place of the transaction's: the key stays locked.
RollbackKeepsKey(p) ==
    /\ tx' = [tx EXCEPT ![p] = NoTx] /\ UNCHANGED keyLock
    /\ rowLock' = IF rowLock = p THEN None ELSE rowLock

\* Leaves with nothing written: an idempotent replay, a refusal or an error.
Rollback(p) ==
    /\ tx' = [tx EXCEPT ![p] = NoTx]
    /\ keyLock' = [k \in Keys |-> IF keyLock[k] = p THEN None ELSE keyLock[k]]
    /\ rowLock' = IF rowLock = p THEN None ELSE rowLock

\* A settlement runs once for a request, whose row it locks; everything else may
\* be asked for again, at the same time or later.  now() is the transaction's
\* start, and the cutoff of a target adjustment is read just before it: what
\* begins later is later.
Begin(p, op) ==
    /\ tx[p].pc = "idle"
    /\ op.kind = "usage" => /\ \A q \in Procs : tx[q].op # op
                            /\ ~Recorded(op.key) /\ \A r \in risks : r.risk.op # op
    /\ Set(p, [NoTx EXCEPT !.pc = "key", !.op = op, !.start = clock,
                           !.known = {r.risk : r \in risks}])
    /\ IF op.kind = "target" THEN clock < MaxClock /\ clock' = clock + 1 ELSE UNCHANGED clock
    /\ UNCHANGED <<balance, entries, probes, risks, keyLock, rowLock, faults>>

\* pg_advisory_xact_lock lets the transaction pass.
KeyFree(p) == keyLock[tx[p].op.key] = None

\* The risk a transaction writes; now() is its start.
Risk(p, currency) == [op |-> tx[p].op, created |-> tx[p].start, currency |-> currency]

\* LockProviderLedgerIdempotencyKey and the look-up of the key: a known key is
\* a replay or a conflict, and writes nothing either way.
LockKey(p) ==
    LET op == tx[p].op IN
    /\ tx[p].pc = "key" /\ KeyFree(p)
    /\ IF Recorded(op.key) \/ \E o \in probes : o.key = op.key
       THEN Rollback(p)
       ELSE /\ keyLock' = [keyLock EXCEPT ![op.key] = p]
            /\ CASE op.kind = "probe" -> Set(p, [tx[p] EXCEPT !.pc = "probe"])
                 \* RecordRequestCostRiskWithQueries: a partial stream is a risk, never a debit.
                 [] op.kind = "usage" /\ op.partial ->
                        Set(p, [tx[p] EXCEPT !.pc = "commit", !.risk = {Risk(p, TRUE)}])
                 [] OTHER -> Set(p, [tx[p] EXCEPT !.pc = "lock"])
            /\ UNCHANGED rowLock
    /\ UNCHANGED <<balance, entries, probes, risks, clock, faults>>

UsageReliable(op) == op.success /\ op.usage = "full" /\ op.priced

\* responseMayHaveCost /\ ~usageReliable
MayHaveCost(op) == (op.success \/ op.twoxx) /\ ~UsageReliable(op)

\* AccountProbe: the record, then a debit, a risk, or neither.  Without a price
\* there is no currency either.
Probe(p) ==
    LET op == tx[p].op IN
    /\ tx[p].pc = "probe"
    /\ Set(p, [tx[p] EXCEPT !.probe = {op},
                 !.pc = IF UsageReliable(op) /\ op.amount # 0 THEN "lock" ELSE "commit",
                 !.risk = IF MayHaveCost(op) THEN {Risk(p, op.priced)} ELSE {}])
    /\ UNCHANGED <<balance, entries, probes, risks, keyLock, rowLock, clock, faults>>

\* GetProviderBalanceForUpdate
LockBalance(p) ==
    /\ tx[p].pc = "lock" /\ rowLock = None /\ rowLock' = p
    /\ Set(p, [tx[p] EXCEPT !.pc = "write", !.before = balance])
    /\ UNCHANGED <<balance, entries, probes, risks, keyLock, clock, faults>>

\* A target adjustment the wrong way round.
DeltaSwapped(p) ==
    LET op == tx[p].op IN
    IF op.kind \in {"credit", "target"} THEN op.amount - (IF op.kind = "target" THEN 0 - tx[p].before ELSE 0)
    ELSE 0 - op.amount

\* What the operation adds to the balance.
Delta(p) ==
    LET op == tx[p].op IN
    CASE op.kind = "credit" -> op.amount
      [] op.kind = "target" -> op.amount - tx[p].before
      [] OTHER -> 0 - op.amount

Abs(n) == IF n < 0 THEN 0 - n ELSE n

\* AddProviderBalance or SubtractProviderBalance, and the entry; a target that
\* is already the balance is refused; the unique key and the check of the sum
\* (provider_ledger_entries_balance_math_check) are the table's own.
WriteEntry(p) ==
    LET op == tx[p].op  d == Delta(p) IN
    /\ tx[p].pc = "write" /\ rowLock \in {None, p}
    /\ IF d = 0 THEN Rollback(p)
       ELSE /\ Set(p, [tx[p] EXCEPT
                 !.pc = IF Recorded(op.key) \/ balance # tx[p].before THEN "constraint"
                        ELSE IF op.kind = "target" THEN "close" ELSE "commit",
                 !.entry = <<[op |-> op, amount |-> Abs(d), before |-> tx[p].before,
                              after |-> balance + d]>>])
            /\ rowLock' = p /\ UNCHANGED keyLock
    /\ UNCHANGED <<balance, entries, probes, risks, clock, faults>>

\* ReconcileProviderCostRisks
CloseRisks(p) ==
    /\ tx[p].pc = "close"
    /\ Set(p, [tx[p] EXCEPT !.pc = "commit",
                 !.closes = {r.risk : r \in {r \in risks : /\ r.by = "none" /\ r.risk.currency
                                                           /\ r.risk.created <= tx[p].start}}])
    /\ UNCHANGED <<balance, entries, probes, risks, keyLock, rowLock, clock, faults>>

\* Everything the transaction wrote, at once.
Commit(p) ==
    /\ tx[p].pc = "commit"
    /\ entries' = entries \o tx[p].entry
    /\ balance' = IF tx[p].entry = <<>> THEN balance ELSE tx[p].entry[1].after
    /\ probes' = probes \cup tx[p].probe
    /\ risks' = {IF r.risk \in tx[p].closes
                 THEN [r EXCEPT !.by = tx[p].op.key, !.known = r.risk \in tx[p].known]
                 ELSE r : r \in risks}
                \cup {[risk |-> r, by |-> "none", known |-> TRUE] : r \in tx[p].risk}
    /\ Rollback(p)
    /\ UNCHANGED <<clock, faults>>

\* A statement fails, or the connection or the process goes.
Fail(p) ==
    /\ tx[p].pc # "idle" /\ faults < MaxFaults /\ faults' = faults + 1
    /\ Rollback(p)
    /\ UNCHANGED <<balance, entries, probes, risks, clock>>

Statement(p) ==
    LockKey(p) \/ Probe(p) \/ LockBalance(p) \/ WriteEntry(p) \/ CloseRisks(p) \/ Commit(p)

Next ==
    \E p \in Procs : Statement(p) \/ Fail(p) \/ \E op \in Ops : Begin(p, op)

Spec == Init /\ [][Next]_vars

\* The database runs what it is sent and never starves a waiter for ever.
Fairness ==
    \A p \in Procs : WF_vars(Statement(p)) /\ SF_vars(LockKey(p)) /\ SF_vars(LockBalance(p))

LiveSpec == Spec /\ Fairness

(***************************************************************************)
(* Properties.                                                             *)
(***************************************************************************)
\* The ledger explains the balance: each entry begins where the one committed
\* before it ended, however the transactions interleaved.
ChainIsUnbroken ==
    /\ balance = IF entries = <<>> THEN 0 ELSE entries[Len(entries)].after
    /\ \A i \in 1 .. Len(entries) :
         entries[i].before = IF i = 1 THEN 0 ELSE entries[i - 1].after

\* SetTargetBalance reaches its target, whatever was debited while it waited.
TargetReached ==
    \A i \in 1 .. Len(entries) : entries[i].op.kind = "target" => entries[i].after = entries[i].op.amount

\* No operation ever fails on a constraint of the table: the same key sent twice
\* at once is replayed, and nobody writes an entry against a balance that moved.
ConstraintsNeverBite == \A p \in Procs : tx[p].pc # "constraint"

Debits(op) == {i \in 1 .. Len(entries) : entries[i].op = op}

\* A probe the upstream may have charged for is on record as one debit or one
\* risk, and as not both; a failed one as neither.
ProbeIsAccounted ==
    \A op \in probes :
        LET r == {x \in risks : x.risk.op = op} IN
        Cardinality(Debits(op)) + Cardinality(r)
            = IF op.success /\ op.usage = "full" /\ op.priced
              THEN (IF op.amount = 0 THEN 0 ELSE 1)
              ELSE (IF op.success \/ op.twoxx THEN 1 ELSE 0)

\* A reconciled risk names the target adjustment that closed it, and that entry
\* is in the ledger.
ClosedByAnEntry == \A r \in risks : r.by # "none" => Recorded(r.by)

\* A target adjustment closes only risks that were there when it began: "只收口
\* 调额开始前已经存在的风险".
ClosesOnlyKnownRisks == \A r \in risks : r.known

\* All of it, for a ledger whose transactions interleave as they like.
ProviderLedgerIsWhole ==
    /\ TypeOK /\ ChainIsUnbroken /\ TargetReached /\ ConstraintsNeverBite
    /\ ProbeIsAccounted /\ ClosedByAnEntry

\* An operation that began ends.
TransactionsEnd == \A p \in Procs : []<>(tx[p].pc = "idle")

=============================================================================
