----------------------- MODULE CustomerLedgerProofs -----------------------
(***************************************************************************)
(* Proofs about CustomerLedger, for every set of accounts, requests, keys, *)
(* amounts and concurrent transactions.                                    *)
(*                                                                         *)
(* The argument has three layers.  TypeInv gives the amounts their natural *)
(* type; it needs RowShape because an authorized row must name a real      *)
(* account.  Money adds the three balance equations, which only hold       *)
(* together: the funding of the holds needs the sum of the holds, and the  *)
(* sums change by the amount TotalUpdate says.  Settled adds what is known *)
(* of a finished reservation.                                              *)
(***************************************************************************)
EXTENDS CustomerLedger, FiniteSetTheorems, TLAPS

-----------------------------------------------------------------------------
(* Facts about Total.  They rest on the cardinality theorems for disjoint  *)
(* unions of finite sets, so no induction over the index set is needed.    *)

\* The units of one index: a column of f[x] tokens.
LEMMA ColumnFacts ==
    ASSUME NEW x, NEW n \in Nat
    PROVE  /\ IsFiniteSet({x} \X (1 .. n))
           /\ Cardinality({x} \X (1 .. n)) = n
<1>1. IsFiniteSet({x}) /\ Cardinality({x}) = 1
  BY FS_Singleton
<1>2. IsFiniteSet(1 .. n) /\ Cardinality(1 .. n) = n
  BY FS_Interval
<1> DEFINE A == {x}
           B == 1 .. n
<1>3. IsFiniteSet(A) /\ Cardinality(A) = 1 /\ IsFiniteSet(B) /\ Cardinality(B) = n
  BY <1>1, <1>2
<1> HIDE DEF A, B
<1>4. IsFiniteSet(A \X B) /\ Cardinality(A \X B) = Cardinality(A) * Cardinality(B)
  BY <1>3, FS_Product
<1>5. Cardinality(A \X B) = n
  BY <1>3, <1>4
<1> QED
  BY <1>4, <1>5 DEF A, B

\* A finite union of columns is finite: the units of a sum can be counted.
LEMMA ColumnsFinite ==
    ASSUME NEW T, IsFiniteSet(T), NEW f, \A x \in T : f[x] \in Nat
    PROVE  IsFiniteSet(UNION {{x} \X (1 .. f[x]) : x \in T})
<1> DEFINE C == {{x} \X (1 .. f[x]) : x \in T}
           g == [x \in T |-> {x} \X (1 .. f[x])]
<1>1. g \in Surjection(T, C)
  <2>1. g \in [T -> C]
    OBVIOUS
  <2>2. \A c \in C : \E x \in T : g[x] = c
    OBVIOUS
  <2> QED
    BY <2>1, <2>2 DEF Surjection
<1>2. IsFiniteSet(C)
  <2> HIDE DEF C, g
  <2> QED
    BY <1>1, FS_Surjection
<1>3. \A c \in C : IsFiniteSet(c)
  <2>1. SUFFICES ASSUME NEW x \in T PROVE IsFiniteSet({x} \X (1 .. f[x]))
    OBVIOUS
  <2>2. f[x] \in Nat
    OBVIOUS
  <2> QED
    BY <2>2, ColumnFacts
<1> HIDE DEF C
<1>4. IsFiniteSet(UNION C)
  BY <1>2, <1>3, FS_UNION
<1> QED
  BY <1>4 DEF C

\* A total splits into the column of one index and the rest.
LEMMA TotalSplit ==
    ASSUME NEW S, IsFiniteSet(S), NEW f \in [S -> Nat], NEW x \in S
    PROVE  LET R == UNION {{y} \X (1 .. f[y]) : y \in S \ {x}}
           IN  /\ IsFiniteSet(R)
               /\ Cardinality(R) \in Nat
               /\ Total(f) = Cardinality(R) + f[x]
<1> DEFINE R == UNION {{y} \X (1 .. f[y]) : y \in S \ {x}}
           D == {x} \X (1 .. f[x])
<1>1. IsFiniteSet(R)
  <2>1. IsFiniteSet(S \ {x})
    BY FS_Subset
  <2> QED
    BY <2>1, ColumnsFinite
<1>2. IsFiniteSet(D) /\ Cardinality(D) = f[x]
  BY ColumnFacts
<1>3. Units(f) = R \cup D
  BY DEF Units
<1>4. R \cap D = {}
  <2>1. \A u \in R : u[1] # x
    OBVIOUS
  <2>2. \A u \in D : u[1] = x
    OBVIOUS
  <2> QED
    BY <2>1, <2>2
<1>5. Cardinality(R) \in Nat
  BY <1>1, FS_CardinalityType
<1> HIDE DEF R, D
<1>6. Cardinality(R \cup D) = Cardinality(R) + Cardinality(D) - Cardinality(R \cap D)
  BY <1>1, <1>2, FS_Union
<1>7. Cardinality(R \cap D) = 0
  BY <1>4, FS_EmptySet
<1>8. Total(f) = Cardinality(R) + f[x]
  BY <1>2, <1>3, <1>5, <1>6, <1>7 DEF Total
<1> QED
  BY <1>1, <1>5, <1>8 DEF R

\* Total is a natural number.
LEMMA TotalType ==
    ASSUME NEW S, IsFiniteSet(S), NEW f \in [S -> Nat]
    PROVE  Total(f) \in Nat
<1>1. IsFiniteSet(Units(f))
  BY ColumnsFinite DEF Units
<1> QED
  BY <1>1, FS_CardinalityType DEF Total

\* The total of a function that is zero everywhere is zero.
LEMMA TotalZero ==
    ASSUME NEW S, NEW f \in [S -> Nat], \A x \in S : f[x] = 0
    PROVE  Total(f) = 0
<1>1. Units(f) = {}
  BY DEF Units
<1> QED
  BY <1>1, FS_EmptySet DEF Total

\* One index is at most the total: what one reservation holds is covered by
\* what all of them hold.
LEMMA TotalBounds ==
    ASSUME NEW S, IsFiniteSet(S), NEW f \in [S -> Nat], NEW x \in S
    PROVE  f[x] <= Total(f)
<1> DEFINE R == UNION {{y} \X (1 .. f[y]) : y \in S \ {x}}
<1>1. Cardinality(R) \in Nat /\ Total(f) = Cardinality(R) + f[x]
  BY TotalSplit
<1> HIDE DEF R
<1> QED
  BY <1>1

\* Changing one index changes the total by the same amount.
LEMMA TotalUpdate ==
    ASSUME NEW S, IsFiniteSet(S), NEW f \in [S -> Nat], NEW g \in [S -> Nat],
           NEW x \in S, \A y \in S \ {x} : g[y] = f[y]
    PROVE  Total(g) + f[x] = Total(f) + g[x]
<1> DEFINE R(h) == UNION {{y} \X (1 .. h[y]) : y \in S \ {x}}
<1>1. Cardinality(R(f)) \in Nat /\ Total(f) = Cardinality(R(f)) + f[x]
  BY TotalSplit
<1>2. Cardinality(R(g)) \in Nat /\ Total(g) = Cardinality(R(g)) + g[x]
  BY TotalSplit
<1>3. R(f) = R(g)
  OBVIOUS
<1> HIDE DEF R
<1> QED
  BY <1>1, <1>2, <1>3

-----------------------------------------------------------------------------
(* The ledger.                                                             *)

\* A reservation row names an account, and nothing was recorded for a request
\* whose reservation is still open.
RowShape ==
    \A r \in Requests :
        /\ rsv[r].status # "none" => rsv[r].account \in Accounts
        /\ rsv[r].status \in {"none", "authorized"} => exc[r] = NoException
        /\ rsv[r].status = "none" => rsv[r] = NoReservation

TypeInv == TypeOK /\ RowShape

USE LedgerAssumption

\* The arithmetic of a capture: nothing it computes is negative, it never
\* takes more than the balance holds, and it leaves the other holds funded.
LEMMA CaptureArithmetic ==
    ASSUME NEW bal \in Nat, NEW res \in Nat, NEW auth \in Nat, NEW actual \in Nat,
           res >= auth, bal >= Least(actual, auth)
    PROVE  LET captured == Least(actual, auth)
               mid == bal - captured
               overage == IF actual > auth
                          THEN CollectedOverage(mid - (res - auth), actual - auth)
                          ELSE 0
           IN  /\ captured \in Nat
               /\ captured <= auth
               /\ mid \in Nat
               /\ overage \in Nat
               /\ mid - overage \in Nat
               /\ auth - captured \in Nat
               /\ res - auth \in Nat
               /\ WriteOff(actual, captured, overage) \in Nat
               /\ WriteOff(actual, captured, overage) = actual - (captured + overage)
               /\ overage > 0 => captured = auth
               /\ res <= bal => res - auth <= mid - overage
  BY DEF Least, Greatest, CollectedOverage, WriteOff

\* The parameters of a transaction between its two steps.
LEMMA CallFacts ==
    ASSUME TypeOK, NEW c \in Callers
    PROVE  /\ call[c].op \in {"credit", "debit"} =>
                /\ call[c].account \in Accounts
                /\ call[c].key \in AdjustKeys
                /\ call[c].amount \in Nat \ {0}
           /\ call[c].op = "preauthorize" =>
                /\ call[c].account \in Accounts
                /\ call[c].request \in Requests
                /\ call[c].key \in AuthKeys
                /\ call[c].amount \in Nat \ {0}
  BY DEF TypeOK, Call

\* Ending a transaction keeps the table of transactions well typed.
LEMMA EndType ==
    ASSUME TypeOK, NEW c \in Callers, End(c)
    PROVE  call' \in [Callers -> Call]
  BY DEF TypeOK, End, Call, Idle

LEMMA TypeStep == TypeInv /\ [Next]_vars => TypeInv'
<1> SUFFICES ASSUME TypeInv, [Next]_vars PROVE TypeInv'
  OBVIOUS
<1> USE DEF TypeInv
<1>1. ASSUME NEW c \in Callers, NEW a \in Accounts, NEW k \in AdjustKeys, NEW n \in Amts,
             CreditLookup(c, a, k, n)
      PROVE  TypeInv'
  BY <1>1 DEF CreditLookup, TypeOK, RowShape, Call
<1>2. ASSUME NEW c \in Callers, NEW a \in Accounts, NEW k \in AdjustKeys, NEW n \in Amts,
             DebitLookup(c, a, k, n)
      PROVE  TypeInv'
  BY <1>2 DEF DebitLookup, TypeOK, RowShape, Call
<1>3. ASSUME NEW c \in Callers, NEW a \in Accounts, NEW r \in Requests,
             NEW k \in AuthKeys, NEW n \in Amts, PreAuthorizeLookup(c, a, r, k, n)
      PROVE  TypeInv'
  BY <1>3 DEF PreAuthorizeLookup, TypeOK, RowShape, Call
<1>4. ASSUME NEW c \in Callers, CreditApply(c) PROVE TypeInv'
  <2>1. call' \in [Callers -> Call]
    BY <1>4, EndType DEF CreditApply
  <2>2. balance' \in [Accounts -> Nat]
    BY <1>4, CallFacts DEF CreditApply, TypeOK
  <2>3. entries' \in [EntryKeys -> Entry]
    BY <1>4, CallFacts DEF CreditApply, TypeOK, Entry, NewEntry, EntryKeys
  <2> QED
    BY <1>4, <2>1, <2>2, <2>3 DEF CreditApply, TypeOK, RowShape
<1>5. ASSUME NEW c \in Callers, DebitApply(c) PROVE TypeInv'
  <2>1. call' \in [Callers -> Call]
    BY <1>5, EndType DEF DebitApply
  <2>2. balance' \in [Accounts -> Nat]
    BY <1>5, CallFacts DEF DebitApply, TypeOK, CanSubtract
  <2>3. entries' \in [EntryKeys -> Entry]
    BY <1>5, CallFacts DEF DebitApply, CanSubtract, TypeOK, Entry, NewEntry, EntryKeys
  <2> QED
    BY <1>5, <2>1, <2>2, <2>3 DEF DebitApply, TypeOK, RowShape
<1>6. ASSUME NEW c \in Callers, PreAuthorizeReserve(c) PROVE TypeInv'
  <2>1. call' \in [Callers -> Call]
    BY <1>6, EndType DEF PreAuthorizeReserve
  <2>2. Least(Available(call[c].account), call[c].amount) \in Nat
    BY <1>6, CallFacts DEF PreAuthorizeReserve, TypeOK, Least, Available
  <2>3. reserved' \in [Accounts -> Nat]
    BY <1>6, <2>2, CallFacts DEF PreAuthorizeReserve, TypeOK
  <2>4. rsv' \in [Requests -> Reservation]
    BY <1>6, <2>2, CallFacts DEF PreAuthorizeReserve, TypeOK, Reservation
  <2>5. RowShape'
    BY <1>6, CallFacts DEF PreAuthorizeReserve, ReservationInsertable, TypeOK, RowShape
  <2> QED
    BY <1>6, <2>1, <2>3, <2>4, <2>5 DEF PreAuthorizeReserve, TypeOK
<1>7. ASSUME NEW c \in Callers, Rollback(c) PROVE TypeInv'
  BY <1>7, EndType DEF Rollback, TypeOK, RowShape
<1>8. ASSUME NEW r \in Requests, NEW n \in Amts, Capture(r, n) PROVE TypeInv'
  <2> DEFINE a == rsv[r].account
             auth == rsv[r].authorized
             captured == Least(n, auth)
             mid == balance[a] - captured
             overage == IF n > auth
                        THEN CollectedOverage(mid - (reserved[a] - auth), n - auth)
                        ELSE 0
  <2>1. /\ a \in Accounts /\ auth \in Nat /\ n \in Nat
        /\ balance[a] \in Nat /\ reserved[a] \in Nat
    BY <1>8 DEF Capture, TypeOK, RowShape, Reservation
  <2>2. reserved[a] >= auth /\ balance[a] >= captured
    BY <1>8 DEF Capture
  <2>3. /\ captured \in Nat /\ mid \in Nat /\ overage \in Nat
        /\ mid - overage \in Nat /\ auth - captured \in Nat /\ reserved[a] - auth \in Nat
        /\ WriteOff(n, captured, overage) \in Nat
    <3> HIDE DEF a, auth
    <3> QED
      BY <2>1, <2>2, CaptureArithmetic
  <2>4. /\ balance' = [balance EXCEPT ![a] = mid - overage]
        /\ reserved' = [reserved EXCEPT ![a] = @ - auth]
        /\ rsv' = [rsv EXCEPT ![r] = [@ EXCEPT !.status = "captured",
                                              !.captured = captured,
                                              !.released = auth - captured]]
        /\ entries' = [entries EXCEPT
              ![SettleKey(r)] = NewEntry("debit", a, r, captured, balance[a], mid),
              ![OverageKey(r)] = IF overage > 0
                                 THEN NewEntry("debit", a, r, overage, mid, mid - overage)
                                 ELSE @]
        /\ exc' = IF WriteOff(n, captured, overage) > 0
                  THEN [exc EXCEPT ![r] =
                          [type |-> "write_off", actual |-> n,
                           captured |-> captured + overage,
                           platform |-> WriteOff(n, captured, overage)]]
                  ELSE exc
        /\ charge' = [charge EXCEPT ![r] = n]
        /\ call' = call
        /\ rsv[r].status = "authorized"
    BY <1>8 DEF Capture, RecordDebits
  <2> HIDE DEF captured, mid, overage, a, auth
  <2>5. balance' \in [Accounts -> Nat] /\ reserved' \in [Accounts -> Nat]
    BY <2>1, <2>3, <2>4 DEF TypeOK
  <2>6. rsv' \in [Requests -> Reservation]
    <3>1. rsv[r] \in Reservation
      BY DEF TypeOK
    <3>2. [rsv[r] EXCEPT !.status = "captured", !.captured = captured,
                         !.released = auth - captured] \in Reservation
      BY <2>3, <3>1 DEF Reservation
    <3> QED
      BY <2>4, <3>2 DEF TypeOK
  <2>7. entries' \in [EntryKeys -> Entry]
    <3>1. NewEntry("debit", a, r, captured, balance[a], mid) \in Entry
      BY <2>1, <2>3 DEF Entry, NewEntry
    <3>2. NewEntry("debit", a, r, overage, mid, mid - overage) \in Entry
      BY <2>1, <2>3 DEF Entry, NewEntry
    <3> QED
      BY <3>1, <3>2, <2>4 DEF TypeOK
  <2>8. exc' \in [Requests -> Exception]
    BY <2>1, <2>3, <2>4 DEF TypeOK, Exception
  <2>9. charge' \in [Requests -> Nat]
    BY <2>1, <2>4 DEF TypeOK
  <2>10. RowShape'
    BY <2>4 DEF RowShape, TypeOK, Reservation
  <2> QED
    BY <2>4, <2>5, <2>6, <2>7, <2>8, <2>9, <2>10 DEF TypeOK
<1>9. ASSUME NEW r \in Requests, ReleaseHold(r)
      PROVE  /\ reserved' \in [Accounts -> Nat]
             /\ rsv' \in [Requests -> Reservation]
             /\ rsv[r].status = "authorized" /\ rsv'[r].status = "released"
             /\ rsv[r].account \in Accounts /\ rsv'[r].account = rsv[r].account
             /\ \A q \in Requests \ {r} : rsv'[q] = rsv[q]
  <2>1. rsv[r] \in Reservation /\ rsv[r].status = "authorized" /\ rsv[r].account \in Accounts
    BY <1>9 DEF ReleaseHold, TypeOK, RowShape
  <2>2. [rsv[r] EXCEPT !.status = "released", !.released = rsv[r].authorized] \in Reservation
    BY <2>1 DEF Reservation
  <2>3. rsv[r].authorized \in Nat
    BY <2>1 DEF Reservation
  <2>4. reserved' \in [Accounts -> Nat]
    BY <1>9, <2>1, <2>3 DEF ReleaseHold, TypeOK
  <2>5. rsv' = [rsv EXCEPT ![r] = [rsv[r] EXCEPT !.status = "released",
                                                !.released = rsv[r].authorized]]
    BY <1>9 DEF ReleaseHold
  <2>6. rsv' \in [Requests -> Reservation]
    BY <2>2, <2>5 DEF TypeOK
  <2>7. rsv'[r].status = "released" /\ rsv'[r].account = rsv[r].account
    BY <2>1, <2>5 DEF TypeOK, Reservation
  <2> QED
    BY <2>1, <2>4, <2>5, <2>6, <2>7 DEF TypeOK
<1>10. ASSUME NEW r \in Requests, Release(r) PROVE TypeInv'
  BY <1>9, <1>10 DEF Release, TypeOK, RowShape
<1>11. ASSUME NEW r \in Requests, ReleaseWithBillingException(r) PROVE TypeInv'
  <2>1. exc' \in [Requests -> Exception]
    BY <1>11 DEF ReleaseWithBillingException, RiskExposure, TypeOK, Exception, Reservation
  <2>2. \A q \in Requests \ {r} : exc'[q] = exc[q]
    BY <1>11 DEF ReleaseWithBillingException, RiskExposure, TypeOK
  <2>3. CASE ReleaseHold(r)
    BY <1>9, <1>11, <2>1, <2>2, <2>3 DEF ReleaseWithBillingException, TypeOK, RowShape
  <2>4. CASE rsv[r].status = "released" /\ UNCHANGED <<reserved, rsv>>
    BY <1>11, <2>1, <2>2, <2>4 DEF ReleaseWithBillingException, TypeOK, RowShape
  <2> QED
    BY <1>11, <2>3, <2>4 DEF ReleaseWithBillingException
<1>12. CASE UNCHANGED vars
  BY <1>12 DEF vars, TypeOK, RowShape
<1> QED
  BY <1>1, <1>2, <1>3, <1>4, <1>5, <1>6, <1>7, <1>8, <1>10, <1>11, <1>12 DEF Next

\* Type correctness of the ledger in every reachable state.
THEOREM TypeCorrect == Spec => []TypeOK
<1>1. Init => TypeInv
  BY DEF Init, TypeInv, TypeOK, RowShape, NoReservation, Reservation, NoEntry, Entry,
         NoException, Exception, Call, Idle
<1>2. TypeInv => TypeOK
  BY DEF TypeInv
<1> QED
  BY <1>1, <1>2, TypeStep, PTL DEF Spec

----------------------------------------------------------------------------
\* What a capture does, with its two collected amounts named.
LEMMA CaptureEffect ==
    ASSUME TypeInv, NEW r \in Requests, NEW n \in Amts, Capture(r, n)
    PROVE  \E captured, overage \in Nat :
             LET a == rsv[r].account
                 auth == rsv[r].authorized
             IN  /\ captured <= auth
                 /\ overage > 0 => captured = auth
                 /\ n - (captured + overage) \in Nat
                 /\ balance[a] - captured - overage \in Nat
                 /\ reserved[a] <= balance[a] =>
                        reserved[a] - auth <= balance[a] - captured - overage
                 /\ KeyFree(SettleKey(r))
                 /\ overage > 0 => KeyFree(OverageKey(r))
                 /\ balance' = [balance EXCEPT ![a] = @ - captured - overage]
                 /\ rsv' = [rsv EXCEPT ![r] = [@ EXCEPT !.status = "captured",
                                                       !.captured = captured,
                                                       !.released = auth - captured]]
                 /\ entries' = [entries EXCEPT
                       ![SettleKey(r)] = NewEntry("debit", a, r, captured, balance[a],
                                                  balance[a] - captured),
                       ![OverageKey(r)] =
                          IF overage > 0
                          THEN NewEntry("debit", a, r, overage, balance[a] - captured,
                                        balance[a] - captured - overage)
                          ELSE @]
                 /\ exc' = IF n - (captured + overage) > 0
                           THEN [exc EXCEPT ![r] =
                                   [type |-> "write_off", actual |-> n,
                                    captured |-> captured + overage,
                                    platform |-> n - (captured + overage)]]
                           ELSE exc
<1> DEFINE a == rsv[r].account
           auth == rsv[r].authorized
           captured == Least(n, auth)
           mid == balance[a] - captured
           overage == IF n > auth
                      THEN CollectedOverage(mid - (reserved[a] - auth), n - auth)
                      ELSE 0
<1>1. /\ a \in Accounts /\ auth \in Nat /\ n \in Nat
      /\ balance[a] \in Nat /\ reserved[a] \in Nat
  BY DEF Capture, TypeInv, TypeOK, RowShape, Reservation
<1>2. reserved[a] >= auth /\ balance[a] >= captured
  BY DEF Capture
<1>3. /\ captured \in Nat /\ overage \in Nat /\ mid - overage \in Nat
      /\ captured <= auth
      /\ WriteOff(n, captured, overage) \in Nat
      /\ WriteOff(n, captured, overage) = n - (captured + overage)
      /\ overage > 0 => captured = auth
      /\ reserved[a] <= balance[a] => reserved[a] - auth <= mid - overage
  <2> HIDE DEF a, auth
  <2> QED
    BY <1>1, <1>2, CaptureArithmetic
<1>4. /\ balance' = [balance EXCEPT ![a] = mid - overage]
      /\ rsv' = [rsv EXCEPT ![r] = [@ EXCEPT !.status = "captured",
                                            !.captured = captured,
                                            !.released = auth - captured]]
      /\ entries' = [entries EXCEPT
            ![SettleKey(r)] = NewEntry("debit", a, r, captured, balance[a], mid),
            ![OverageKey(r)] = IF overage > 0
                               THEN NewEntry("debit", a, r, overage, mid, mid - overage)
                               ELSE @]
      /\ exc' = IF WriteOff(n, captured, overage) > 0
                THEN [exc EXCEPT ![r] =
                        [type |-> "write_off", actual |-> n,
                         captured |-> captured + overage,
                         platform |-> WriteOff(n, captured, overage)]]
                ELSE exc
      /\ KeyFree(SettleKey(r))
      /\ overage > 0 => KeyFree(OverageKey(r))
  BY DEF Capture, RecordDebits
<1> HIDE DEF captured, overage
<1> QED
  BY <1>3, <1>4

\* What freeing a hold does to the reservation row and the balance row.
LEMMA ReleaseEffect ==
    ASSUME TypeInv, NEW r \in Requests, ReleaseHold(r)
    PROVE  /\ rsv[r].status = "authorized" /\ rsv[r].account \in Accounts
           /\ rsv[r].authorized \in Nat
           /\ reserved[rsv[r].account] >= rsv[r].authorized
           /\ reserved' = [reserved EXCEPT ![rsv[r].account] = @ - rsv[r].authorized]
           /\ rsv'[r].status = "released"
           /\ \A q \in Requests \ {r} : rsv'[q] = rsv[q]
<1>1. rsv \in [Requests -> Reservation] /\ rsv[r] \in Reservation
  BY DEF TypeInv, TypeOK
<1>2. rsv' = [rsv EXCEPT ![r] = [rsv[r] EXCEPT !.status = "released",
                                              !.released = rsv[r].authorized]]
  BY DEF ReleaseHold
<1>3. rsv'[r].status = "released" /\ \A q \in Requests \ {r} : rsv'[q] = rsv[q]
  BY <1>1, <1>2 DEF Reservation
<1>4. /\ rsv[r].status = "authorized"
      /\ reserved[rsv[r].account] >= rsv[r].authorized
      /\ reserved' = [reserved EXCEPT ![rsv[r].account] = @ - rsv[r].authorized]
  BY DEF ReleaseHold
<1> QED
  BY <1>1, <1>3, <1>4 DEF TypeInv, RowShape, Reservation

LEMMA HeldType ==
    ASSUME TypeInv, NEW a \in Accounts
    PROVE  Held(a) \in [Requests -> Nat] /\ Total(Held(a)) \in Nat
<1>1. Held(a) \in [Requests -> Nat]
  BY DEF TypeInv, TypeOK, Held, Reservation
<1> QED
  BY <1>1, TotalType

\* When one reservation row changes, the sum of the holds changes by the
\* difference of that row's hold.
LEMMA HeldUpdate ==
    ASSUME TypeInv, TypeInv', NEW r \in Requests, NEW a \in Accounts,
           \A q \in Requests \ {r} : rsv'[q] = rsv[q]
    PROVE  /\ Total(Held(a)') \in Nat
           /\ Total(Held(a)') + Held(a)[r] = Total(Held(a)) + Held(a)'[r]
<1>1. Held(a) \in [Requests -> Nat]
  BY HeldType
<1>2. Held(a)' \in [Requests -> Nat]
  BY DEF TypeInv, TypeOK, Held, Reservation
<1>3. \A q \in Requests \ {r} : Held(a)'[q] = Held(a)[q]
  BY DEF Held
<1> HIDE DEF Held
<1> QED
  BY <1>1, <1>2, <1>3, TotalUpdate, TotalType

\* A step that leaves both tables alone leaves both facts about them alone.
LEMMA HoldsStutter ==
    ASSUME ReservedIsHeld, HoldsAreFunded, UNCHANGED <<balance, reserved, rsv>>
    PROVE  ReservedIsHeld' /\ HoldsAreFunded'
<1>1. \A a \in Accounts : Held(a)' = Held(a)
  BY DEF Held
<1> QED
  BY <1>1 DEF ReservedIsHeld, HoldsAreFunded

\* Freeing the hold of one authorized reservation, as a release does.
LEMMA ReleaseKeepsHolds ==
    ASSUME TypeInv, TypeInv', ReservedIsHeld, HoldsAreFunded,
           NEW r \in Requests, ReleaseHold(r), UNCHANGED balance
    PROVE  ReservedIsHeld' /\ HoldsAreFunded'
<1>1. /\ rsv[r].status = "authorized" /\ rsv[r].account \in Accounts
      /\ rsv[r].authorized \in Nat
      /\ reserved' = [reserved EXCEPT ![rsv[r].account] = @ - rsv[r].authorized]
      /\ rsv'[r].status = "released"
      /\ \A q \in Requests \ {r} : rsv'[q] = rsv[q]
  BY ReleaseEffect
<1>2. reserved \in [Accounts -> Nat] /\ balance \in [Accounts -> Nat]
  BY DEF TypeInv, TypeOK
<1>3. ASSUME NEW a \in Accounts
      PROVE  reserved'[a] = Total(Held(a)') /\ reserved'[a] <= balance'[a]
  <2>1. Total(Held(a)) \in Nat /\ Total(Held(a)') + Held(a)[r] = Total(Held(a)) + Held(a)'[r]
    BY <1>1, HeldType, HeldUpdate
  <2>2. Held(a)'[r] = 0
    BY <1>1 DEF Held
  <2>3. Held(a)[r] = IF rsv[r].account = a THEN rsv[r].authorized ELSE 0
    BY <1>1 DEF Held
  <2>4. Total(Held(a)') \in Nat
    BY <1>1, HeldUpdate
  <2>5. reserved[a] = Total(Held(a)) /\ reserved[a] <= balance[a]
    BY DEF ReservedIsHeld, HoldsAreFunded
  <2> QED
    BY <1>1, <1>2, <2>1, <2>2, <2>3, <2>4, <2>5
<1> QED
  BY <1>3 DEF ReservedIsHeld, HoldsAreFunded

\* The two balance facts about holds are preserved together: a capture or a
\* release may subtract the hold because the sum of the holds is reserved,
\* and leaves the other holds funded because they were.
LEMMA HoldsStep ==
    ASSUME TypeInv, TypeInv', ReservedIsHeld, HoldsAreFunded, [Next]_vars
    PROVE  ReservedIsHeld' /\ HoldsAreFunded'
<1> USE DEF TypeInv
<1>1. ASSUME NEW c \in Callers, NEW a \in Accounts, NEW n \in Amts,
             \/ \E k \in AdjustKeys : CreditLookup(c, a, k, n)
             \/ \E k \in AdjustKeys : DebitLookup(c, a, k, n)
             \/ \E r \in Requests, k \in AuthKeys : PreAuthorizeLookup(c, a, r, k, n)
      PROVE  ReservedIsHeld' /\ HoldsAreFunded'
  BY <1>1, HoldsStutter DEF CreditLookup, DebitLookup, PreAuthorizeLookup
<1>2. ASSUME NEW c \in Callers, CreditApply(c) \/ DebitApply(c)
      PROVE  ReservedIsHeld' /\ HoldsAreFunded'
  <2>1. \A a \in Accounts : Held(a)' = Held(a)
    BY <1>2 DEF CreditApply, DebitApply, Held
  <2>2. ReservedIsHeld'
    BY <1>2, <2>1 DEF CreditApply, DebitApply, ReservedIsHeld
  <2>3. HoldsAreFunded'
    BY <1>2, CallFacts
       DEF CreditApply, DebitApply, CanSubtract, Available, HoldsAreFunded, TypeOK
  <2> QED
    BY <2>2, <2>3
<1>3. ASSUME NEW c \in Callers, PreAuthorizeReserve(c)
      PROVE  ReservedIsHeld' /\ HoldsAreFunded'
  <2> DEFINE p == call[c]
             n == Least(Available(p.account), p.amount)
  <2>1. /\ p.account \in Accounts /\ p.request \in Requests /\ p.amount \in Nat
        /\ reserved \in [Accounts -> Nat] /\ balance \in [Accounts -> Nat]
    BY <1>3, CallFacts DEF PreAuthorizeReserve, TypeOK
  <2>2. n \in Nat /\ n <= balance[p.account] - reserved[p.account]
    BY <1>3, <2>1 DEF PreAuthorizeReserve, Least, Available
  <2>3. /\ reserved' = [reserved EXCEPT ![p.account] = @ + n]
        /\ balance' = balance
        /\ rsv[p.request].status = "none"
    BY <1>3 DEF PreAuthorizeReserve, ReservationInsertable
  <2>4. /\ rsv'[p.request].status = "authorized" /\ rsv'[p.request].account = p.account
        /\ rsv'[p.request].authorized = n
        /\ \A q \in Requests \ {p.request} : rsv'[q] = rsv[q]
    BY <1>3, <2>1 DEF PreAuthorizeReserve, TypeOK
  <2>5. ASSUME NEW a \in Accounts
        PROVE  reserved'[a] = Total(Held(a)') /\ reserved'[a] <= balance'[a]
    <3>1. /\ Total(Held(a)) \in Nat
          /\ Total(Held(a)') + Held(a)[p.request] = Total(Held(a)) + Held(a)'[p.request]
      <4> HIDE DEF p, n
      <4> QED
        BY <2>1, <2>4, HeldType, HeldUpdate
    <3>2. Held(a)[p.request] = 0
      BY <2>1, <2>3 DEF Held
    <3>3. Held(a)'[p.request] = IF p.account = a THEN n ELSE 0
      <4> HIDE DEF p, n
      <4> QED
        BY <2>1, <2>4 DEF Held
    <3>4. Total(Held(a)') \in Nat
      <4> HIDE DEF p, n
      <4> QED
        BY <2>1, <2>4, HeldUpdate
    <3>5. reserved[a] = Total(Held(a)) /\ reserved[a] <= balance[a]
      BY DEF ReservedIsHeld, HoldsAreFunded
    <3> HIDE DEF p, n
    <3> QED
      BY <2>1, <2>2, <2>3, <3>1, <3>2, <3>3, <3>4, <3>5
  <2> QED
    BY <2>5 DEF ReservedIsHeld, HoldsAreFunded
<1>4. ASSUME NEW c \in Callers, Rollback(c) PROVE ReservedIsHeld' /\ HoldsAreFunded'
  BY <1>4, HoldsStutter DEF Rollback
<1>5. ASSUME NEW r \in Requests, NEW m \in Amts, Capture(r, m)
      PROVE  ReservedIsHeld' /\ HoldsAreFunded'
  <2> DEFINE x == rsv[r].account
             auth == rsv[r].authorized
  <2>1. /\ x \in Accounts /\ auth \in Nat /\ rsv[r].status = "authorized"
        /\ reserved \in [Accounts -> Nat] /\ balance \in [Accounts -> Nat]
        /\ reserved' = [reserved EXCEPT ![x] = @ - auth]
    BY <1>5 DEF Capture, TypeOK, RowShape, Reservation
  <2>2. PICK captured, overage \in Nat :
          /\ captured <= auth
          /\ balance[x] - captured - overage \in Nat
          /\ reserved[x] <= balance[x] =>
                 reserved[x] - auth <= balance[x] - captured - overage
          /\ balance' = [balance EXCEPT ![x] = @ - captured - overage]
          /\ rsv' = [rsv EXCEPT ![r] = [@ EXCEPT !.status = "captured",
                                                !.captured = captured,
                                                !.released = auth - captured]]
    BY <1>5, CaptureEffect
  <2>3. rsv'[r].status = "captured" /\ \A q \in Requests \ {r} : rsv'[q] = rsv[q]
    BY <2>2 DEF TypeOK, Reservation
  <2>4. ASSUME NEW a \in Accounts
        PROVE  reserved'[a] = Total(Held(a)') /\ reserved'[a] <= balance'[a]
    <3>1. /\ Total(Held(a)) \in Nat
          /\ Total(Held(a)') + Held(a)[r] = Total(Held(a)) + Held(a)'[r]
      BY <2>3, HeldType, HeldUpdate
    <3>2. Held(a)'[r] = 0
      BY <2>3 DEF Held
    <3>3. Held(a)[r] = IF x = a THEN auth ELSE 0
      BY <2>1 DEF Held
    <3>4. Total(Held(a)') \in Nat
      BY <2>3, HeldUpdate
    <3>5. reserved[a] = Total(Held(a)) /\ reserved[a] <= balance[a]
      BY DEF ReservedIsHeld, HoldsAreFunded
    <3> HIDE DEF x, auth
    <3> QED
      BY <2>1, <2>2, <3>1, <3>2, <3>3, <3>4, <3>5
  <2> QED
    BY <2>4 DEF ReservedIsHeld, HoldsAreFunded
<1>6. ASSUME NEW r \in Requests, Release(r) PROVE ReservedIsHeld' /\ HoldsAreFunded'
  BY <1>6, ReleaseKeepsHolds DEF Release
<1>7. ASSUME NEW r \in Requests, ReleaseWithBillingException(r)
      PROVE  ReservedIsHeld' /\ HoldsAreFunded'
  BY <1>7, ReleaseKeepsHolds, HoldsStutter DEF ReleaseWithBillingException
<1>8. CASE UNCHANGED vars
  BY <1>8, HoldsStutter DEF vars
<1> QED
  BY <1>1, <1>2, <1>3, <1>4, <1>5, <1>6, <1>7, <1>8 DEF Next

\* The inductive invariant of the first two layers.
HoldsInv == TypeInv /\ ReservedIsHeld /\ HoldsAreFunded

LEMMA HoldsInductive == Spec => []HoldsInv
<1>1. Init => HoldsInv
  <2> SUFFICES ASSUME Init PROVE HoldsInv
    OBVIOUS
  <2>1. TypeInv
    BY DEF Init, TypeInv, TypeOK, RowShape, NoReservation, Reservation, NoEntry, Entry,
           NoException, Exception, Call, Idle
  <2>2. ASSUME NEW a \in Accounts PROVE Total(Held(a)) = 0
    <3>1. Held(a) \in [Requests -> Nat] /\ \A r \in Requests : Held(a)[r] = 0
      BY DEF Init, NoReservation, Held
    <3> QED
      BY <3>1, TotalZero
  <2> QED
    BY <2>1, <2>2 DEF Init, HoldsInv, ReservedIsHeld, HoldsAreFunded
<1>2. HoldsInv /\ [Next]_vars => HoldsInv'
  BY TypeStep, HoldsStep DEF HoldsInv
<1> QED
  BY <1>1, <1>2, PTL DEF Spec

\* In every reachable state reserved_balance is the sum of the open holds.
THEOREM ReservedCorrect == Spec => []ReservedIsHeld
<1>1. HoldsInv => ReservedIsHeld
  BY DEF HoldsInv
<1> QED
  BY <1>1, HoldsInductive, PTL

\* In every reachable state the holds are funded: the CHECK of user_balances
\* never rejects an update.
THEOREM FundingCorrect == Spec => []HoldsAreFunded
<1>1. HoldsInv => HoldsAreFunded
  BY DEF HoldsInv
<1> QED
  BY <1>1, HoldsInductive, PTL

\* The guards of CaptureUserReservedBalance and ReleaseUserReservedBalance can
\* always be met for an authorized reservation: no row can become one that
\* neither a settlement nor a release is able to finish.
Settleable ==
    \A r \in Requests : rsv[r].status = "authorized" =>
        /\ reserved[rsv[r].account] >= rsv[r].authorized
        /\ balance[rsv[r].account] >= rsv[r].authorized

\* No interleaving strands an authorized reservation.
THEOREM AlwaysSettleable == Spec => []Settleable
<1>1. HoldsInv => Settleable
  <2> SUFFICES ASSUME HoldsInv, NEW r \in Requests, rsv[r].status = "authorized"
               PROVE  /\ reserved[rsv[r].account] >= rsv[r].authorized
                      /\ balance[rsv[r].account] >= rsv[r].authorized
    BY DEF Settleable
  <2> DEFINE a == rsv[r].account
  <2>1. TypeInv /\ a \in Accounts /\ rsv[r].authorized \in Nat
    BY DEF HoldsInv, TypeInv, TypeOK, RowShape, Reservation
  <2>2. Held(a) \in [Requests -> Nat] /\ Total(Held(a)) \in Nat
    BY <2>1, HeldType
  <2>3. Held(a)[r] <= Total(Held(a))
    BY <2>2, TotalBounds
  <2>4. Held(a)[r] = rsv[r].authorized
    BY DEF Held
  <2>5. reserved[a] = Total(Held(a)) /\ reserved[a] <= balance[a] /\ balance[a] \in Nat
    BY <2>1 DEF HoldsInv, ReservedIsHeld, HoldsAreFunded, TypeInv, TypeOK
  <2> HIDE DEF a
  <2> QED
    BY <2>1, <2>2, <2>3, <2>4, <2>5 DEF a
<1> QED
  BY <1>1, HoldsInductive, PTL

----------------------------------------------------------------------------
\* Entries: keys, the sums over them, and the balance they explain.

LEMMA KeysFinite == IsFiniteSet(EntryKeys)
<1> DEFINE A == {SettleKey(r) : r \in Requests}
           B == {OverageKey(r) : r \in Requests}
           f == [r \in Requests |-> SettleKey(r)]
           g == [r \in Requests |-> OverageKey(r)]
<1>1. f \in Surjection(Requests, A) /\ g \in Surjection(Requests, B)
  BY DEF Surjection
<1> HIDE DEF A, B, f, g
<1>2. IsFiniteSet(A) /\ IsFiniteSet(B)
  BY <1>1, FS_Surjection
<1>3. IsFiniteSet(AdjustKeys \cup A)
  BY <1>2, FS_Union
<1>4. IsFiniteSet((AdjustKeys \cup A) \cup B)
  BY <1>2, <1>3, FS_Union
<1> QED
  BY <1>4 DEF A, B, EntryKeys

\* The keys of settlements are pairwise different.
LEMMA KeysDiffer ==
    ASSUME NEW r \in Requests
    PROVE  /\ SettleKey(r) \in EntryKeys /\ OverageKey(r) \in EntryKeys
           /\ \A q \in Requests : SettleKey(r) # OverageKey(q)
           /\ \A q \in Requests \ {r} : SettleKey(r) # SettleKey(q)
           /\ \A q \in Requests \ {r} : OverageKey(r) # OverageKey(q)
  BY DEF SettleKey, OverageKey, EntryKeys

LEMMA MovedType ==
    ASSUME TypeInv, NEW t, NEW a \in Accounts
    PROVE  Moved(t, a) \in [EntryKeys -> Nat] /\ Total(Moved(t, a)) \in Nat
<1>1. Moved(t, a) \in [EntryKeys -> Nat]
  BY DEF TypeInv, TypeOK, Moved, Entry
<1> QED
  BY <1>1, KeysFinite, TotalType

\* Writing one entry under a free key moves the sum of its type and account by
\* its amount, and no other sum.
LEMMA MovedUpdate ==
    ASSUME TypeInv, TypeInv', NEW k \in EntryKeys, KeyFree(k),
           \A j \in EntryKeys \ {k} : entries'[j] = entries[j],
           NEW t \in {"credit", "debit"}, NEW a \in Accounts
    PROVE  Total(Moved(t, a)') =
              Total(Moved(t, a)) + (IF entries'[k].type = t /\ entries'[k].account = a
                                    THEN entries'[k].amount ELSE 0)
<1>1. Moved(t, a) \in [EntryKeys -> Nat] /\ Total(Moved(t, a)) \in Nat
  BY MovedType
<1>2. Moved(t, a)' \in [EntryKeys -> Nat]
  BY DEF TypeInv, TypeOK, Moved, Entry
<1>3. \A j \in EntryKeys \ {k} : Moved(t, a)'[j] = Moved(t, a)[j]
  BY DEF Moved
<1>4. Moved(t, a)[k] = 0
  BY DEF Moved, KeyFree
<1>5. Moved(t, a)'[k] = IF entries'[k].type = t /\ entries'[k].account = a
                        THEN entries'[k].amount ELSE 0
  BY DEF Moved
<1>6. Total(Moved(t, a)') + Moved(t, a)[k] = Total(Moved(t, a)) + Moved(t, a)'[k]
  <2> HIDE DEF Moved
  <2> QED
    BY <1>1, <1>2, <1>3, KeysFinite, TotalUpdate
<1>7. Total(Moved(t, a)') \in Nat
  <2> HIDE DEF Moved
  <2> QED
    BY <1>2, KeysFinite, TotalType
<1> HIDE DEF Moved
<1> QED
  BY <1>1, <1>4, <1>5, <1>6, <1>7

LEMMA ExplainedStutter ==
    ASSUME BalanceIsExplained, UNCHANGED <<balance, entries>>
    PROVE  BalanceIsExplained'
<1>1. \A t, a : Moved(t, a)' = Moved(t, a)
  BY DEF Moved
<1> QED
  BY <1>1 DEF BalanceIsExplained

\* The balance equation is preserved: a credit or debit writes one entry, a
\* capture one or two, each under a key that had none.
LEMMA ExplainedStep ==
    ASSUME TypeInv, TypeInv', BalanceIsExplained, [Next]_vars
    PROVE  BalanceIsExplained'
<1>1. ASSUME NEW c \in Callers, NEW a \in Accounts, NEW n \in Amts,
             \/ \E k \in AdjustKeys : CreditLookup(c, a, k, n)
             \/ \E k \in AdjustKeys : DebitLookup(c, a, k, n)
             \/ \E r \in Requests, k \in AuthKeys : PreAuthorizeLookup(c, a, r, k, n)
      PROVE  BalanceIsExplained'
  BY <1>1, ExplainedStutter DEF CreditLookup, DebitLookup, PreAuthorizeLookup
<1>2. ASSUME NEW c \in Callers, CreditApply(c) \/ DebitApply(c)
      PROVE  BalanceIsExplained'
  <2> DEFINE p == call[c]
  <2>1. /\ p.op \in {"credit", "debit"} /\ p.account \in Accounts
        /\ p.key \in AdjustKeys /\ p.amount \in Nat
        /\ balance \in [Accounts -> Nat] /\ entries \in [EntryKeys -> Entry]
        /\ KeyFree(p.key)
    BY <1>2, CallFacts DEF CreditApply, DebitApply, TypeInv, TypeOK
  <2>2. p.key \in EntryKeys
    BY <2>1 DEF EntryKeys
  <2>3. /\ entries'[p.key].type = p.op
        /\ entries'[p.key].account = p.account
        /\ entries'[p.key].amount = p.amount
        /\ \A j \in EntryKeys \ {p.key} : entries'[j] = entries[j]
    BY <1>2, <2>1, <2>2 DEF CreditApply, DebitApply, NewEntry
  <2>4. balance' = [balance EXCEPT ![p.account] =
                      IF p.op = "credit" THEN @ + p.amount ELSE @ - p.amount]
    BY <1>2 DEF CreditApply, DebitApply
  <2> HIDE DEF p
  <2>5. ASSUME NEW a \in Accounts
        PROVE  balance'[a] + Total(Moved("debit", a)') = Total(Moved("credit", a)')
    <3>1. Total(Moved("debit", a)') = Total(Moved("debit", a)) +
             (IF entries'[p.key].type = "debit" /\ entries'[p.key].account = a
              THEN entries'[p.key].amount ELSE 0)
      BY <2>1, <2>2, <2>3, MovedUpdate
    <3>2. Total(Moved("credit", a)') = Total(Moved("credit", a)) +
             (IF entries'[p.key].type = "credit" /\ entries'[p.key].account = a
              THEN entries'[p.key].amount ELSE 0)
      BY <2>1, <2>2, <2>3, MovedUpdate
    <3>3. Total(Moved("debit", a)) \in Nat /\ Total(Moved("credit", a)) \in Nat
      BY MovedType
    <3>4. balance[a] + Total(Moved("debit", a)) = Total(Moved("credit", a))
      BY DEF BalanceIsExplained
    <3> QED
      BY <2>1, <2>3, <2>4, <3>1, <3>2, <3>3, <3>4
  <2> QED
    BY <2>5 DEF BalanceIsExplained
<1>3. ASSUME NEW c \in Callers, PreAuthorizeReserve(c) \/ Rollback(c)
      PROVE  BalanceIsExplained'
  BY <1>3, ExplainedStutter DEF PreAuthorizeReserve, Rollback
<1>4. ASSUME NEW r \in Requests, NEW m \in Amts, Capture(r, m)
      PROVE  BalanceIsExplained'
  <2> DEFINE x == rsv[r].account
             ks == SettleKey(r)
             ko == OverageKey(r)
  <2>1. /\ x \in Accounts /\ balance \in [Accounts -> Nat]
        /\ entries \in [EntryKeys -> Entry]
    BY <1>4 DEF Capture, TypeInv, TypeOK, RowShape
  <2>2. PICK captured, overage \in Nat :
          /\ KeyFree(ks)
          /\ overage > 0 => KeyFree(ko)
          /\ balance' = [balance EXCEPT ![x] = @ - captured - overage]
          /\ entries' = [entries EXCEPT
                ![ks] = NewEntry("debit", x, r, captured, balance[x], balance[x] - captured),
                ![ko] = IF overage > 0
                        THEN NewEntry("debit", x, r, overage, balance[x] - captured,
                                      balance[x] - captured - overage)
                        ELSE @]
    BY <1>4, CaptureEffect
  <2>3. ks \in EntryKeys /\ ko \in EntryKeys /\ ks # ko
    BY KeysDiffer
  <2> HIDE DEF ks, ko, x
  <2>4. /\ entries'[ks].type = "debit" /\ entries'[ks].account = x
        /\ entries'[ks].amount = captured
        /\ overage > 0 => /\ entries'[ko].type = "debit" /\ entries'[ko].account = x
                          /\ entries'[ko].amount = overage
        /\ overage = 0 => entries'[ko] = entries[ko]
        /\ \A j \in EntryKeys \ {ks, ko} : entries'[j] = entries[j]
    BY <2>1, <2>2, <2>3 DEF NewEntry
  <2>5. ASSUME NEW a \in Accounts
        PROVE  balance'[a] + Total(Moved("debit", a)') = Total(Moved("credit", a)')
    <3> DEFINE f == Moved("debit", a)
               g == [f EXCEPT ![ks] = IF x = a THEN captured ELSE 0]
               h == Moved("debit", a)'
    <3>1. /\ f \in [EntryKeys -> Nat] /\ Total(f) \in Nat /\ f[ks] = 0
          /\ Total(Moved("credit", a)) \in Nat
      <4>1. f \in [EntryKeys -> Nat] /\ Total(f) \in Nat
        BY MovedType
      <4>2. f[ks] = 0
        BY <2>2, <2>3 DEF Moved, KeyFree
      <4>3. Total(Moved("credit", a)) \in Nat
        BY MovedType
      <4> QED
        BY <4>1, <4>2, <4>3
    <3>2. h \in [EntryKeys -> Nat]
      BY DEF TypeInv, TypeOK, Moved, Entry
    <3>3. /\ h[ks] = IF x = a THEN captured ELSE 0
          /\ h[ko] = f[ko] + (IF x = a THEN overage ELSE 0)
          /\ \A j \in EntryKeys \ {ks, ko} : h[j] = f[j]
      <4>1. h[ks] = IF x = a THEN captured ELSE 0
        BY <2>3, <2>4 DEF Moved
      <4>2. \A j \in EntryKeys \ {ks, ko} : h[j] = f[j]
        BY <2>4 DEF Moved
      <4>3. f[ko] \in Nat
        BY <2>3, <3>1
      <4>4. CASE overage = 0
        <5>1. h[ko] = f[ko]
          BY <2>3, <2>4, <4>4 DEF Moved
        <5> HIDE DEF f, h
        <5> QED
          BY <4>1, <4>2, <4>3, <4>4, <5>1
      <4>5. CASE overage > 0
        <5>1. f[ko] = 0
          BY <2>2, <2>3, <4>5 DEF Moved, KeyFree
        <5>2. h[ko] = IF x = a THEN overage ELSE 0
          BY <2>3, <2>4, <4>5 DEF Moved
        <5> HIDE DEF f, h
        <5> QED
          BY <4>1, <4>2, <5>1, <5>2
      <4> QED
        BY <4>4, <4>5
    <3>4. Moved("credit", a)' = Moved("credit", a)
      <4>1. \A j \in EntryKeys : (Moved("credit", a)')[j] = Moved("credit", a)[j]
        <5> SUFFICES ASSUME NEW j \in EntryKeys
                     PROVE  (Moved("credit", a)')[j] = Moved("credit", a)[j]
          OBVIOUS
        <5>1. CASE j = ks
          BY <2>2, <2>4, <5>1 DEF Moved, KeyFree
        <5>2. CASE j = ko /\ overage > 0
          BY <2>2, <2>4, <5>2 DEF Moved, KeyFree
        <5>3. CASE j = ko /\ overage = 0
          BY <2>4, <5>3 DEF Moved
        <5>4. CASE j \notin {ks, ko}
          BY <2>4, <5>4 DEF Moved
        <5> QED
          BY <5>1, <5>2, <5>3, <5>4
      <4> QED
        BY <4>1 DEF Moved
    <3> HIDE DEF f, h
    <3>5. g \in [EntryKeys -> Nat] /\ g[ks] = h[ks] /\ g[ko] = f[ko]
      BY <2>3, <3>1, <3>3
    <3>6. \A j \in EntryKeys \ {ks} : g[j] = f[j]
      BY <3>1
    <3>7. \A j \in EntryKeys \ {ko} : h[j] = g[j]
      BY <2>3, <3>1, <3>3, <3>5
    <3> HIDE DEF g
    <3>8. Total(g) + f[ks] = Total(f) + g[ks]
      BY <2>3, <3>1, <3>5, <3>6, KeysFinite, TotalUpdate
    <3>9. Total(h) + g[ko] = Total(g) + h[ko]
      BY <2>3, <3>2, <3>5, <3>7, KeysFinite, TotalUpdate
    <3>10. Total(g) \in Nat /\ Total(h) \in Nat
      BY <3>2, <3>5, KeysFinite, TotalType
    <3>11. Total(h) = Total(f) + (IF x = a THEN captured + overage ELSE 0)
      BY <2>2, <2>3, <3>1, <3>2, <3>3, <3>5, <3>8, <3>9, <3>10
    <3>12. balance[a] + Total(f) = Total(Moved("credit", a))
      BY DEF BalanceIsExplained, f
    <3>13. balance'[a] = balance[a] - (IF x = a THEN captured + overage ELSE 0)
      BY <2>1, <2>2
    <3>14. balance'[a] + Total(h) = Total(Moved("credit", a))
      BY <2>1, <2>2, <3>1, <3>11, <3>12, <3>13
    <3> QED
      BY <3>4, <3>14 DEF h
  <2> QED
    BY <2>5 DEF BalanceIsExplained
<1>5. ASSUME NEW r \in Requests, Release(r) \/ ReleaseWithBillingException(r)
      PROVE  BalanceIsExplained'
  BY <1>5, ExplainedStutter DEF Release, ReleaseWithBillingException
<1>6. CASE UNCHANGED vars
  BY <1>6, ExplainedStutter DEF vars
<1> QED
  BY <1>1, <1>2, <1>3, <1>4, <1>5, <1>6 DEF Next

\* In every reachable state the entries explain the balance.
THEOREM BalanceCorrect == Spec => []BalanceIsExplained
<1>1. Init => TypeInv /\ BalanceIsExplained
  <2> SUFFICES ASSUME Init PROVE TypeInv /\ BalanceIsExplained
    OBVIOUS
  <2>1. TypeInv
    BY DEF Init, TypeInv, TypeOK, RowShape, NoReservation, Reservation, NoEntry, Entry,
           NoException, Exception, Call, Idle
  <2>2. ASSUME NEW t \in {"credit", "debit"}, NEW a \in Accounts PROVE Total(Moved(t, a)) = 0
    <3>1. Moved(t, a) \in [EntryKeys -> Nat] /\ \A k \in EntryKeys : Moved(t, a)[k] = 0
      BY DEF Init, NoEntry, Moved
    <3> QED
      BY <3>1, TotalZero
  <2> QED
    BY <2>1, <2>2 DEF Init, BalanceIsExplained
<1>2. TypeInv /\ BalanceIsExplained /\ [Next]_vars => TypeInv' /\ BalanceIsExplained'
  BY TypeStep, ExplainedStep
<1> QED
  BY <1>1, <1>2, PTL DEF Spec

----------------------------------------------------------------------------
\* No step rewrites a recorded fact.  The entries need the check of their key
\* under the lock: the unlocked lookup may be stale when the entry is written.
THEOREM FactsStayFinal == Spec => FactsAreFinal
<1>1. ASSUME TypeInv, [Next]_vars PROVE [KeepsFacts]_vars
  <2>1. ASSUME NEW c \in Callers, NEW a \in Accounts, NEW n \in Amts,
               \/ \E k \in AdjustKeys : CreditLookup(c, a, k, n)
               \/ \E k \in AdjustKeys : DebitLookup(c, a, k, n)
               \/ \E r \in Requests, k \in AuthKeys : PreAuthorizeLookup(c, a, r, k, n)
        PROVE  KeepsFacts
    BY <2>1 DEF CreditLookup, DebitLookup, PreAuthorizeLookup, KeepsFacts
  <2>2. ASSUME NEW c \in Callers, CreditApply(c) \/ DebitApply(c) PROVE KeepsFacts
    BY <1>1, <2>2 DEF CreditApply, DebitApply, KeyFree, KeepsFacts, TypeInv, TypeOK
  <2>3. ASSUME NEW c \in Callers, PreAuthorizeReserve(c) PROVE KeepsFacts
    BY <1>1, <2>3
       DEF PreAuthorizeReserve, ReservationInsertable, KeepsFacts, TypeInv, TypeOK
  <2>4. ASSUME NEW c \in Callers, Rollback(c) PROVE KeepsFacts
    BY <2>4 DEF Rollback, KeepsFacts
  <2>5. ASSUME NEW r \in Requests, NEW m \in Amts, Capture(r, m) PROVE KeepsFacts
    <3>1. rsv[r].status = "authorized" /\ exc[r].type = "none"
      BY <1>1, <2>5 DEF Capture, TypeInv, RowShape, NoException
    <3>2. \A q \in Requests : rsv[q].status \in {"captured", "released"} => rsv'[q] = rsv[q]
      BY <1>1, <2>5, <3>1 DEF Capture, TypeInv, TypeOK
    <3>3. \A q \in Requests : exc[q].type # "none" => exc'[q] = exc[q]
      BY <1>1, <2>5, <3>1 DEF Capture, TypeInv, TypeOK
    <3>4. \A k \in EntryKeys : entries[k].type # "none" => entries'[k] = entries[k]
      <4>1. PICK captured, overage \in Nat :
              LET a == rsv[r].account IN
              /\ KeyFree(SettleKey(r))
              /\ overage > 0 => KeyFree(OverageKey(r))
              /\ entries' = [entries EXCEPT
                    ![SettleKey(r)] = NewEntry("debit", a, r, captured, balance[a],
                                               balance[a] - captured),
                    ![OverageKey(r)] =
                       IF overage > 0
                       THEN NewEntry("debit", a, r, overage, balance[a] - captured,
                                     balance[a] - captured - overage)
                       ELSE @]
        BY <1>1, <2>5, CaptureEffect
      <4>2. SettleKey(r) # OverageKey(r)
        BY KeysDiffer
      <4> QED
        BY <1>1, <4>1, <4>2 DEF KeyFree, TypeInv, TypeOK
    <3> QED
      BY <3>2, <3>3, <3>4 DEF KeepsFacts
  <2>6. ASSUME NEW r \in Requests, Release(r) PROVE KeepsFacts
    BY <1>1, <2>6, ReleaseEffect DEF Release, KeepsFacts
  <2>7. ASSUME NEW r \in Requests, ReleaseWithBillingException(r) PROVE KeepsFacts
    <3>1. \A q \in Requests : exc[q].type # "none" => exc'[q] = exc[q]
      BY <1>1, <2>7 DEF ReleaseWithBillingException, RiskExposure, TypeInv, TypeOK
    <3>2. \A q \in Requests : rsv[q].status \in {"captured", "released"} => rsv'[q] = rsv[q]
      BY <1>1, <2>7, ReleaseEffect DEF ReleaseWithBillingException
    <3> QED
      BY <2>7, <3>1, <3>2 DEF ReleaseWithBillingException, KeepsFacts
  <2> QED
    BY <1>1, <2>1, <2>2, <2>3, <2>4, <2>5, <2>6, <2>7 DEF Next
<1>2. Init => TypeInv
  BY DEF Init, TypeInv, TypeOK, RowShape, NoReservation, Reservation, NoEntry, Entry,
         NoException, Exception, Call, Idle
<1> QED
  BY <1>1, <1>2, TypeStep, PTL DEF Spec, FactsAreFinal

----------------------------------------------------------------------------
\* Finished reservations.

SettledInv == TypeInv /\ PaidIffCaptured /\ ChargeIsSplit

\* The facts about finished reservations only read the rows, entries and
\* exceptions of requests; a step that leaves these alone preserves them.
LEMMA SettledStutter ==
    ASSUME PaidIffCaptured, ChargeIsSplit, UNCHANGED <<rsv, entries, exc, charge>>
    PROVE  PaidIffCaptured' /\ ChargeIsSplit'
  BY DEF PaidIffCaptured, ChargeIsSplit, Overage

\* A manual entry under a free key belongs to no request, even when its key is
\* the one a settlement would use.
LEMMA ManualKeepsSettled ==
    ASSUME SettledInv, NEW c \in Callers, CreditApply(c) \/ DebitApply(c)
    PROVE  PaidIffCaptured' /\ ChargeIsSplit'
<1> DEFINE k == call[c].key
<1>1. /\ k \in EntryKeys /\ entries[k].type = "none"
      /\ entries'[k].request = NoRequest
      /\ \A j \in EntryKeys \ {k} : entries'[j] = entries[j]
      /\ UNCHANGED <<rsv, exc, charge>>
  BY CallFacts DEF SettledInv, TypeInv, TypeOK, CreditApply, DebitApply, KeyFree,
                   NewEntry, EntryKeys
<1> HIDE DEF k
<1>2. \A r \in Requests : entries[k].request # r
  BY <1>1 DEF SettledInv, PaidIffCaptured
<1>3. \A r \in Requests, j \in EntryKeys :
         entries'[j].request = r <=> entries[j].request = r
  BY <1>1, <1>2
<1>4. PaidIffCaptured'
  <2>1. \A r \in Requests :
           entries[SettleKey(r)].request = r => entries'[SettleKey(r)] = entries[SettleKey(r)]
    BY <1>1, <1>2, KeysDiffer
  <2> QED
    BY <1>1, <1>2, <1>3, <2>1 DEF SettledInv, PaidIffCaptured
<1>5. \A r \in Requests : Overage(r)' = Overage(r)
  BY <1>1, <1>2, <1>3, KeysDiffer DEF Overage
<1> QED
  BY <1>1, <1>4, <1>5 DEF SettledInv, ChargeIsSplit

\* A reservation that leaves "authorized" other than by a capture has no entry.
LEMMA ReleaseKeepsSettled ==
    ASSUME SettledInv, NEW r \in Requests, rsv[r].status \in {"none", "authorized", "released"},
           rsv'[r].status # "captured",
           \A q \in Requests \ {r} : rsv'[q] = rsv[q] /\ exc'[q] = exc[q],
           UNCHANGED <<entries, charge>>
    PROVE  PaidIffCaptured' /\ ChargeIsSplit'
<1>1. \A k \in EntryKeys : entries[k].request # r
  BY DEF SettledInv, PaidIffCaptured
<1>2. PaidIffCaptured'
  BY <1>1 DEF SettledInv, PaidIffCaptured
<1>3. \A q \in Requests : Overage(q)' = Overage(q)
  BY DEF Overage
<1> QED
  BY <1>2, <1>3 DEF SettledInv, ChargeIsSplit

LEMMA CaptureKeepsSettled ==
    ASSUME SettledInv, NEW r \in Requests, NEW n \in Amts, Capture(r, n)
    PROVE  PaidIffCaptured' /\ ChargeIsSplit'
<1> DEFINE a == rsv[r].account
           auth == rsv[r].authorized
           ks == SettleKey(r)
           ko == OverageKey(r)
<1>1. /\ TypeInv /\ auth \in Nat /\ n \in Nat
      /\ rsv[r].status = "authorized" /\ exc[r] = NoException
      /\ charge' = [charge EXCEPT ![r] = n]
  BY DEF SettledInv, Capture, TypeInv, TypeOK, RowShape, Reservation
<1>2. PICK captured, overage \in Nat :
        /\ captured <= auth
        /\ overage > 0 => captured = auth
        /\ n - (captured + overage) \in Nat
        /\ rsv' = [rsv EXCEPT ![r] = [@ EXCEPT !.status = "captured",
                                              !.captured = captured,
                                              !.released = auth - captured]]
        /\ entries' = [entries EXCEPT
              ![ks] = NewEntry("debit", a, r, captured, balance[a], balance[a] - captured),
              ![ko] = IF overage > 0
                      THEN NewEntry("debit", a, r, overage, balance[a] - captured,
                                    balance[a] - captured - overage)
                      ELSE @]
        /\ exc' = IF n - (captured + overage) > 0
                  THEN [exc EXCEPT ![r] =
                          [type |-> "write_off", actual |-> n,
                           captured |-> captured + overage,
                           platform |-> n - (captured + overage)]]
                  ELSE exc
  BY <1>1, CaptureEffect
<1>3. /\ ks \in EntryKeys /\ ko \in EntryKeys /\ ks # ko
      /\ \A q \in Requests \ {r} :
            /\ OverageKey(q) \notin {ks, ko} /\ OverageKey(q) \in EntryKeys
            /\ SettleKey(q) \notin {ks, ko} /\ SettleKey(q) \in EntryKeys
  BY KeysDiffer
<1>4. \A k \in EntryKeys : entries[k].request # r
  BY <1>1 DEF SettledInv, PaidIffCaptured
<1>5. /\ rsv'[r].status = "captured" /\ rsv'[r].captured = captured
      /\ rsv'[r].released = auth - captured
      /\ rsv'[r].authorized = auth /\ rsv'[r].account = a
      /\ \A q \in Requests \ {r} : rsv'[q] = rsv[q]
  BY <1>1, <1>2 DEF TypeInv, TypeOK, Reservation
<1> HIDE DEF ks, ko, a, auth
<1>6. /\ entries'[ks].request = r /\ entries'[ks].type = "debit" /\ entries'[ks].account = a
      /\ entries'[ks].amount = captured
      /\ overage > 0 => /\ entries'[ko].request = r /\ entries'[ko].type = "debit"
                        /\ entries'[ko].account = a /\ entries'[ko].amount = overage
      /\ overage = 0 => entries'[ko] = entries[ko]
      /\ \A k \in EntryKeys \ {ks, ko} : entries'[k] = entries[k]
  BY <1>1, <1>2, <1>3 DEF TypeInv, TypeOK, NewEntry
<1>7. PaidIffCaptured'
  <2>1. ASSUME NEW q \in Requests, rsv'[q].status = "captured"
        PROVE  /\ entries'[SettleKey(q)].request = q
               /\ entries'[SettleKey(q)].amount = rsv'[q].captured
    <3>1. CASE q = r
      BY <1>5, <1>6, <3>1 DEF ks
    <3>2. CASE q # r
      <4>1. rsv'[q] = rsv[q] /\ entries'[SettleKey(q)] = entries[SettleKey(q)]
        BY <1>3, <1>5, <1>6, <3>2
      <4> QED
        BY <2>1, <4>1 DEF SettledInv, PaidIffCaptured
    <3> QED
      BY <3>1, <3>2
  <2>2. ASSUME NEW q \in Requests, NEW k \in EntryKeys, entries'[k].request = q
        PROVE  /\ rsv'[q].status = "captured"
               /\ k \in {SettleKey(q), OverageKey(q)}
               /\ entries'[k].type = "debit"
               /\ entries'[k].account = rsv'[q].account
    <3>1. CASE k = ks \/ (k = ko /\ overage > 0)
      BY <1>5, <1>6, <2>2, <3>1 DEF ks, ko
    <3>2. CASE k # ks /\ (k = ko => overage = 0)
      <4>1. entries'[k] = entries[k]
        BY <1>6, <3>2
      <4>2. q # r
        BY <1>4, <2>2, <4>1
      <4> QED
        BY <1>5, <2>2, <4>1, <4>2 DEF SettledInv, PaidIffCaptured
    <3> QED
      BY <1>2, <3>1, <3>2
  <2> QED
    BY <2>1, <2>2 DEF PaidIffCaptured
<1>8. Overage(r)' = overage
  <2>1. Overage(r)' = IF entries'[ko].request = r THEN entries'[ko].amount ELSE 0
    BY DEF Overage, ko
  <2>2. CASE overage > 0
    BY <1>6, <2>1, <2>2
  <2>3. CASE overage = 0
    BY <1>3, <1>4, <1>6, <2>1, <2>3
  <2> QED
    BY <1>2, <2>2, <2>3
<1>9. \A q \in Requests \ {r} : Overage(q)' = Overage(q)
  BY <1>3, <1>6 DEF Overage
<1>10. /\ exc'[r].platform = n - (captured + overage)
       /\ exc'[r].type = IF exc'[r].platform > 0 THEN "write_off" ELSE "none"
       /\ \A q \in Requests \ {r} : exc'[q] = exc[q]
  BY <1>1, <1>2 DEF TypeInv, TypeOK, NoException
<1>11. charge'[r] = n /\ \A q \in Requests \ {r} : charge'[q] = charge[q]
  BY <1>1 DEF TypeInv, TypeOK
<1>12. ChargeIsSplit'
  <2> SUFFICES ASSUME NEW q \in Requests, rsv'[q].status = "captured"
               PROVE  /\ rsv'[q].captured + Overage(q)' + exc'[q].platform = charge'[q]
                      /\ Overage(q)' > 0 => rsv'[q].captured = rsv'[q].authorized
                      /\ rsv'[q].captured + rsv'[q].released = rsv'[q].authorized
                      /\ exc'[q].type = IF exc'[q].platform > 0 THEN "write_off" ELSE "none"
    BY DEF ChargeIsSplit
  <2>1. CASE q = r
    BY <1>1, <1>2, <1>5, <1>8, <1>10, <1>11, <2>1
  <2>2. CASE q # r
    BY <1>5, <1>9, <1>10, <1>11, <2>2 DEF SettledInv, ChargeIsSplit
  <2> QED
    BY <2>1, <2>2
<1> QED
  BY <1>7, <1>12

LEMMA SettledInductive == Spec => []SettledInv
<1>1. Init => SettledInv
  <2> SUFFICES ASSUME Init PROVE SettledInv
    OBVIOUS
  <2>1. TypeInv
    BY DEF Init, TypeInv, TypeOK, RowShape, NoReservation, Reservation, NoEntry, Entry,
           NoException, Exception, Call, Idle
  <2> QED
    BY <2>1 DEF Init, SettledInv, PaidIffCaptured, ChargeIsSplit, NoReservation, NoEntry
<1>2. ASSUME SettledInv, [Next]_vars PROVE SettledInv'
  <2> USE <1>2
  <2>1. TypeInv'
    BY TypeStep DEF SettledInv
  <2>2. ASSUME NEW c \in Callers, NEW a \in Accounts, NEW n \in Amts,
               \/ \E k \in AdjustKeys : CreditLookup(c, a, k, n)
               \/ \E k \in AdjustKeys : DebitLookup(c, a, k, n)
               \/ \E r \in Requests, k \in AuthKeys : PreAuthorizeLookup(c, a, r, k, n)
        PROVE  PaidIffCaptured' /\ ChargeIsSplit'
    BY <2>2, SettledStutter DEF SettledInv, CreditLookup, DebitLookup, PreAuthorizeLookup
  <2>3. ASSUME NEW c \in Callers, PreAuthorizeReserve(c)
        PROVE  PaidIffCaptured' /\ ChargeIsSplit'
    <3>1. /\ call[c].request \in Requests /\ rsv[call[c].request].status = "none"
          /\ rsv'[call[c].request].status = "authorized"
          /\ \A q \in Requests \ {call[c].request} : rsv'[q] = rsv[q] /\ exc'[q] = exc[q]
          /\ UNCHANGED <<entries, charge>>
      BY <2>3, CallFacts
         DEF PreAuthorizeReserve, ReservationInsertable, SettledInv, TypeInv, TypeOK
    <3> QED
      BY <3>1, ReleaseKeepsSettled
  <2>4. ASSUME NEW c \in Callers, Rollback(c) PROVE PaidIffCaptured' /\ ChargeIsSplit'
    BY <2>4, SettledStutter DEF SettledInv, Rollback
  <2>5. ASSUME NEW r \in Requests, Release(r) PROVE PaidIffCaptured' /\ ChargeIsSplit'
    <3>1. TypeInv /\ ReleaseHold(r)
      BY <2>5 DEF Release, SettledInv
    <3>2. /\ rsv[r].status = "authorized" /\ rsv'[r].status = "released"
          /\ \A q \in Requests \ {r} : rsv'[q] = rsv[q]
      BY <3>1, ReleaseEffect
    <3>3. exc' = exc /\ UNCHANGED <<entries, charge>>
      BY <2>5 DEF Release
    <3> QED
      BY <3>2, <3>3, ReleaseKeepsSettled
  <2>6. ASSUME NEW r \in Requests, ReleaseWithBillingException(r)
        PROVE  PaidIffCaptured' /\ ChargeIsSplit'
    <3>1. \A q \in Requests \ {r} : exc'[q] = exc[q]
      BY <2>6 DEF ReleaseWithBillingException, RiskExposure, SettledInv, TypeInv, TypeOK
    <3>2. CASE ReleaseHold(r)
      BY <2>6, <3>1, <3>2, ReleaseEffect, ReleaseKeepsSettled
         DEF ReleaseWithBillingException, SettledInv
    <3>3. CASE rsv[r].status = "released" /\ UNCHANGED <<reserved, rsv>>
      BY <2>6, <3>1, <3>3, ReleaseKeepsSettled DEF ReleaseWithBillingException
    <3> QED
      BY <2>6, <3>2, <3>3 DEF ReleaseWithBillingException
  <2>7. ASSUME UNCHANGED vars PROVE PaidIffCaptured' /\ ChargeIsSplit'
    BY <2>7, SettledStutter DEF SettledInv, vars
  <2>8. PaidIffCaptured' /\ ChargeIsSplit'
    BY <2>2, <2>3, <2>4, <2>5, <2>6, <2>7, ManualKeepsSettled, CaptureKeepsSettled DEF Next
  <2> QED
    BY <2>1, <2>8 DEF SettledInv
<1> QED
  BY <1>1, <1>2, PTL DEF Spec

\* In every reachable state a request has its settlement entry, of the captured
\* amount and on the account of its hold, exactly when its reservation was
\* captured; no other entry but its overage is the request's.
THEOREM PaymentCorrect == Spec => []PaidIffCaptured
<1>1. SettledInv => PaidIffCaptured
  BY DEF SettledInv
<1> QED
  BY <1>1, SettledInductive, PTL

\* In every reachable state a settled charge is split without loss.
THEOREM SplitCorrect == Spec => []ChargeIsSplit
<1>1. SettledInv => ChargeIsSplit
  BY DEF SettledInv
<1> QED
  BY <1>1, SettledInductive, PTL
=============================================================================
