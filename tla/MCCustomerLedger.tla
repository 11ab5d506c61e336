------------------------- MODULE MCCustomerLedger -------------------------
(***************************************************************************)
(* A small instance of CustomerLedger: two accounts, two requests,         *)
(* two concurrent transactions, one free manual key and one that collides  *)
(* with a settlement's key.                                                *)
(***************************************************************************)
EXTENDS CustomerLedger, TLC

CONSTANTS r2, k1

MCAdjustKeys == {k1, SettleKey(r2)}

\* Callers, accounts and reservation keys are interchangeable.
Symmetry == Permutations(Callers) \cup Permutations(AuthKeys)
                                   \cup Permutations(Accounts)
=============================================================================
