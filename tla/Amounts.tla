------------------------------ MODULE Amounts ------------------------------
(***************************************************************************)
(* Sums of money amounts.  The ledger keeps amounts as numeric(20,10); a   *)
(* model amount is a natural number of the smallest unit, so addition,     *)
(* subtraction and comparison are exact, as they are in PostgreSQL.        *)
(*                                                                         *)
(* A sum over a finite index set is the number of units it stands for, so  *)
(* that it needs no recursion and can be reasoned about by cardinality.    *)
(***************************************************************************)
EXTENDS Integers, FiniteSets

\* One element per unit of money that f assigns to an index.
Units(f) == UNION {{x} \X (1 .. f[x]) : x \in DOMAIN f}

\* The total of a function with natural values on a finite domain.
Total(f) == Cardinality(Units(f))

\* numericMin and SQL's LEAST / GREATEST on two amounts.
Least(a, b) == IF a <= b THEN a ELSE b
Greatest(a, b) == IF a >= b THEN a ELSE b
=============================================================================
