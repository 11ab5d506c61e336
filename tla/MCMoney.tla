------------------------------ MODULE MCMoney ------------------------------
(***************************************************************************)
(* The prices and the Provider's ledger, for TLC: what a request is sold   *)
(* and bought for, and how what it cost reaches the balance held with a    *)
(* Provider.  As in MCControl, they share no variables and "subject"       *)
(* chooses the one a behaviour is of.                                      *)
(***************************************************************************)
EXTENDS Pricing, TLC

CONSTANTS q1, base1, base2, over1, over2, mult1, mult2, charge1, t1, t2, t3

Symmetry == Permutations({t1, t2})

(* Pricing: a plain and a tiered price list, overrides with absent cache   *)
(* costs, a cheap and a dear multiplier, a recharge factor.                *)
MCRows == {base1, base2, over1, over2, mult1, mult2, charge1}
MCKind == [r \in MCRows |-> CASE r \in {base1, base2} -> "base"
                              [] r \in {over1, over2} -> "override"
                              [] r \in {mult1, mult2} -> "multiplier"
                              [] r = charge1          -> "recharge"]

P(uncached, cache, output, reasoning) ==
    [c \in Components |-> CASE c = "uncached"  -> uncached
                            [] c = "cache"     -> cache
                            [] c = "output"    -> output
                            [] c = "reasoning" -> reasoning]
MCRates == [r \in {base1, base2, over1, over2} |->
    CASE r = base1 -> P(500001, Null, 1500001, 1700000)
      [] r = base2 -> P(500000, 900000, 1500000, Null)
      [] r = over1 -> P(400000, Null, 1500000, Null)
      [] r = over2 -> P(300000, 1200000, 1100000, 1200000)]

F(n, d) == [num |-> n, den |-> d]
MCFactor == [r \in {mult1, mult2, charge1} |->
    CASE r = mult1 -> F(1, 1) [] r = mult2 -> F(3, 2) [] r = charge1 -> F(2, 3)]

Plain  == [enabled |-> FALSE, threshold |-> 0, input |-> F(1, 1), output |-> F(1, 1)]
Tiered == [enabled |-> TRUE, threshold |-> 2, input |-> F(2, 1), output |-> F(3, 2)]
MCPolicy == [r \in {base1, base2} |-> IF r = base1 THEN Tiered ELSE Plain]

MCRatios == {F(1, 1), F(4, 3)}
MCEstimates == {[input |-> 2, client |-> 0, model |-> 3], [input |-> 3, client |-> 1, model |-> 3],
                [input |-> 3, client |-> 0, model |-> 0]}
U(a, b, c, d) == [uncached |-> a, cache |-> b, output |-> c, reasoning |-> d]
MCReported == {U(1, 1, 1, 0), U(0, 2, 3, 1), U(2, 1, 1, 1), U(3, 0, 2, 1), U(1, 3, 1, 0)}
MCOneUsage == {U(2, 1, 1, 1)}

(* ProviderLedger: adjustments, one with the key of another, usage, probes. *)
credit == [key |-> "k1", kind |-> "credit", amount |-> 2]
reused == [key |-> "k1", kind |-> "debit", amount |-> 1]
target == [key |-> "k2", kind |-> "target", amount |-> 1]
cut    == [key |-> "k4", kind |-> "usage", amount |-> 1, partial |-> TRUE]
ProbeOp(k, s, two, u, pr) ==
    [key |-> k, kind |-> "probe", amount |-> 1, success |-> s, twoxx |-> two, usage |-> u, priced |-> pr]
probed   == ProbeOp("k5", TRUE, TRUE, "full", TRUE)
garbled  == ProbeOp("k6", FALSE, TRUE, "none", TRUE)
unpriced == ProbeOp("k7", TRUE, TRUE, "full", FALSE)
failed   == ProbeOp("k8", FALSE, FALSE, "none", TRUE)

VARIABLES
    subject,   \* the component a behaviour is of; the others rest
    l_balance, l_entries, l_probes, l_risks, l_tx, l_keyLock, l_rowLock,
    l_clock, l_faults

Adjusting == INSTANCE ProviderLedger WITH
    Procs <- {t1, t2, t3}, Ops <- {credit, reused, target, cut},
    MaxClock <- 1, MaxFaults <- 1, balance <- l_balance,
    entries <- l_entries, probes <- l_probes, risks <- l_risks, tx <- l_tx,
    keyLock <- l_keyLock, rowLock <- l_rowLock, clock <- l_clock,
    faults <- l_faults
Probing == INSTANCE ProviderLedger WITH
    Procs <- {t1, t2}, Ops <- {target, probed, garbled, unpriced, failed},
    MaxClock <- 2, MaxFaults <- 1, balance <- l_balance,
    entries <- l_entries, probes <- l_probes, risks <- l_risks, tx <- l_tx,
    keyLock <- l_keyLock, rowLock <- l_rowLock, clock <- l_clock,
    faults <- l_faults

l_vars == <<l_balance, l_entries, l_probes, l_risks, l_tx, l_keyLock,
            l_rowLock, l_clock, l_faults>>
suiteVars == <<subject, vars, l_vars>>

SuiteInit ==
    /\ subject \in {"pricing", "adjusting", "probing"}
    /\ Init
    /\ CASE subject = "probing" -> Probing!Init
         [] OTHER -> Adjusting!Init

SuiteNext ==
    \/ /\ subject = "pricing" /\ Next
       /\ UNCHANGED <<subject, l_vars>>
    \/ /\ subject = "adjusting" /\ Adjusting!Next
       /\ UNCHANGED <<subject, vars>>
    \/ /\ subject = "probing" /\ Probing!Next
       /\ UNCHANGED <<subject, vars>>

SuiteSpec == SuiteInit /\ [][SuiteNext]_suiteVars

-----------------------------------------------------------------------------
ASSUME Assumptions == Adjusting!OpsAssumption /\ Probing!OpsAssumption

\* Of another subject the variables have their initial types only.
Of(name, Inv) == subject = name => Inv

\* The ledger explains the balance however its transactions interleaved, a
\* target is reached, no constraint of the tables is what stops a transaction,
\* a probe leaves its cost or a risk, and a risk is closed by an entry.
ProviderLedgerIsWhole ==
    /\ Of("adjusting", Adjusting!ProviderLedgerIsWhole)
    /\ Of("probing", Probing!ProviderLedgerIsWhole)

=============================================================================
