-------------------------- MODULE CustomerLedger --------------------------
(***************************************************************************)
(* The customer ledger of core/ledger: balances with a reserved part,      *)
(* reservations (pre-authorisations) of requests, the append-only debit    *)
(* and credit entries, and the billing exceptions that record what the     *)
(* platform did not collect.                                               *)
(*                                                                         *)
(* Every operation is one PostgreSQL transaction at READ COMMITTED.  An    *)
(* operation that first looks up its idempotency key WITHOUT a lock and    *)
(* then takes the row lock is two steps here: between them other           *)
(* transactions commit, and the second step meets what they did.  What     *)
(* happens under the row locks until the commit is one step.  A replay     *)
(* that only reads, and an operation that returns an error and rolls back, *)
(* leave the state alone and are stuttering.                               *)
(*                                                                         *)
(* An account is a (user, currency) pair: one row of user_balances.  A     *)
(* user without a row behaves as a row with both amounts zero.             *)
(***************************************************************************)
EXTENDS Amounts

CONSTANTS
    Accounts,     \* (user, currency) pairs
    Requests,     \* request_record ids
    AuthKeys,     \* idempotency keys of reservations
    AdjustKeys,   \* idempotency keys of manual credits and debits
    Amts,         \* the positive amounts operations are called with
    Callers,      \* concurrent transactions
    NoAccount,    \* an account column of a row that does not exist
    NoRequest,    \* a NULL request_record_id
    NoKey         \* an idempotency key column of a row that does not exist

\* "chat:settle:<id>" and, derived from it, "chat:settle:<id>:overage".
SettleKey(r) == <<"settle", r>>
OverageKey(r) == <<"overage", r>>

\* Every idempotency key of ledger_entries.  A manual key is free text, so
\* AdjustKeys may contain the key of some settlement.
EntryKeys == AdjustKeys \cup {SettleKey(r) : r \in Requests}
                        \cup {OverageKey(r) : r \in Requests}

ASSUME LedgerAssumption ==
    /\ IsFiniteSet(Requests)
    /\ IsFiniteSet(AdjustKeys)
    /\ Amts \subseteq Nat \ {0}
    /\ NoAccount \notin Accounts
    /\ NoRequest \notin Requests
    /\ NoKey \notin AuthKeys

VARIABLES
    balance,    \* user_balances.balance
    reserved,   \* user_balances.reserved_balance
    rsv,        \* ledger_reservations, by request
    entries,    \* ledger_entries, by idempotency key
    exc,        \* ledger_billing_exceptions, by request
    call,       \* the transaction of each caller, between its two steps
    charge      \* history: the actual amount a request was settled at

vars == <<balance, reserved, rsv, entries, exc, call, charge>>

----------------------------------------------------------------------------
\* Rows

Reservation ==
    [status : {"none", "authorized", "captured", "released"},
     account : Accounts \cup {NoAccount}, key : AuthKeys \cup {NoKey},
     estimated : Nat, authorized : Nat, captured : Nat, released : Nat]

NoReservation ==
    [status |-> "none", account |-> NoAccount, key |-> NoKey,
     estimated |-> 0, authorized |-> 0, captured |-> 0, released |-> 0]

Entry ==
    [type : {"none", "credit", "debit"}, account : Accounts \cup {NoAccount},
     request : Requests \cup {NoRequest},
     amount : Nat, before : Nat, after : Nat]

NoEntry ==
    [type |-> "none", account |-> NoAccount, request |-> NoRequest,
     amount |-> 0, before |-> 0, after |-> 0]

Exception ==
    [type : {"none", "write_off", "risk_exposure"},
     actual : Nat, captured : Nat, platform : Nat]

NoException == [type |-> "none", actual |-> 0, captured |-> 0, platform |-> 0]

Call ==
    [op : {"idle"}]
      \cup [op : {"preauthorize"}, account : Accounts, request : Requests,
            key : AuthKeys, amount : Amts]
      \cup [op : {"credit", "debit"}, account : Accounts,
            key : AdjustKeys, amount : Amts]

Idle == [op |-> "idle"]

TypeOK ==
    /\ balance \in [Accounts -> Nat]
    /\ reserved \in [Accounts -> Nat]
    /\ rsv \in [Requests -> Reservation]
    /\ entries \in [EntryKeys -> Entry]
    /\ exc \in [Requests -> Exception]
    /\ call \in [Callers -> Call]
    /\ charge \in [Requests -> Nat]

Init ==
    /\ balance = [a \in Accounts |-> 0]
    /\ reserved = [a \in Accounts |-> 0]
    /\ rsv = [r \in Requests |-> NoReservation]
    /\ entries = [k \in EntryKeys |-> NoEntry]
    /\ exc = [r \in Requests |-> NoException]
    /\ call = [c \in Callers |-> Idle]
    /\ charge = [r \in Requests |-> 0]

----------------------------------------------------------------------------
\* Helpers

Available(a) == balance[a] - reserved[a]

KeyFree(k) == entries[k].type = "none"

AuthKeyFree(k) == \A r \in Requests : rsv[r].key # k

NewEntry(type, a, r, n, before, after) ==
    [type |-> type, account |-> a, request |-> r,
     amount |-> n, before |-> before, after |-> after]

\* The transaction of caller c ends, committed or rolled back.
End(c) == call' = [call EXCEPT ![c] = Idle]

----------------------------------------------------------------------------
\* Manual credit and debit (Credit, AdjustCredit, Debit, AdjustDebit)

\* creditWithType up to its unlocked lookup: the key has no entry yet.
CreditLookup(c, a, k, n) ==
    /\ call[c] = Idle
    /\ KeyFree(k)
    /\ call' = [call EXCEPT ![c] =
                  [op |-> "credit", account |-> a, key |-> k, amount |-> n]]
    /\ UNCHANGED <<balance, reserved, rsv, entries, exc, charge>>

\* Variant of CreditApply that trusts the unlocked lookup.
CreditApplyStale(c) ==
    LET p == call[c] IN
    /\ p.op = "credit"
    /\ balance' = [balance EXCEPT ![p.account] = @ + p.amount]
    /\ entries' = [entries EXCEPT ![p.key] =
                     NewEntry("credit", p.account, NoRequest, p.amount,
                              balance[p.account], balance[p.account] + p.amount)]
    /\ End(c)
    /\ UNCHANGED <<reserved, rsv, exc, charge>>

\* The rest of creditWithType under the lock of the balance row; the unique
\* index on the key turns a concurrent use of it into a rollback.
CreditApply(c) ==
    LET p == call[c] IN
    /\ p.op = "credit"
    /\ KeyFree(p.key)
    /\ balance' = [balance EXCEPT ![p.account] = @ + p.amount]
    /\ entries' = [entries EXCEPT ![p.key] =
                     NewEntry("credit", p.account, NoRequest, p.amount,
                              balance[p.account], balance[p.account] + p.amount)]
    /\ End(c)
    /\ UNCHANGED <<reserved, rsv, exc, charge>>

\* debitWithQueriesType up to its lookup, which holds the advisory lock of the
\* key: two debits of one key are serialised, a debit and a credit are not.
DebitLookup(c, a, k, n) ==
    /\ call[c] = Idle
    /\ \A d \in Callers : call[d].op = "debit" => call[d].key # k
    /\ KeyFree(k)
    /\ call' = [call EXCEPT ![c] =
                  [op |-> "debit", account |-> a, key |-> k, amount |-> n]]
    /\ UNCHANGED <<balance, reserved, rsv, entries, exc, charge>>

\* Variants of CanSubtract: no check at all, a check of the whole balance.
CanSubtractAlways(a, n) == TRUE
CanSubtractReserved(a, n) == balance[a] >= n

\* SubtractUserBalance requires the amount in the unreserved balance.
CanSubtract(a, n) == balance[a] >= n /\ Available(a) >= n

DebitApply(c) ==
    LET p == call[c] IN
    /\ p.op = "debit"
    /\ CanSubtract(p.account, p.amount)
    /\ KeyFree(p.key)
    /\ balance' = [balance EXCEPT ![p.account] = @ - p.amount]
    /\ entries' = [entries EXCEPT ![p.key] =
                     NewEntry("debit", p.account, NoRequest, p.amount,
                              balance[p.account], balance[p.account] - p.amount)]
    /\ End(c)
    /\ UNCHANGED <<reserved, rsv, exc, charge>>

----------------------------------------------------------------------------
\* Pre-authorisation

\* PreAuthorize up to its unlocked lookup of the reservation key.
PreAuthorizeLookup(c, a, r, k, n) ==
    /\ call[c] = Idle
    /\ AuthKeyFree(k)
    /\ call' = [call EXCEPT ![c] =
                  [op |-> "preauthorize", account |-> a, request |-> r,
                   key |-> k, amount |-> n]]
    /\ UNCHANGED <<balance, reserved, rsv, entries, exc, charge>>

\* Variant of ReservationInsertable without the unique index on the request.
ReservationInsertableByKey(r, k) == AuthKeyFree(k)

\* The unique indexes of ledger_reservations on request and key.
ReservationInsertable(r, k) == rsv[r].status = "none" /\ AuthKeyFree(k)

\* ReserveAvailableUserBalance and CreateLedgerReservation: all or part of the
\* estimate is frozen, and the row is inserted if its keys are free.
PreAuthorizeReserve(c) ==
    LET p == call[c]
        n == Least(Available(p.account), p.amount) IN
    /\ p.op = "preauthorize"
    /\ n > 0
    /\ ReservationInsertable(p.request, p.key)
    /\ reserved' = [reserved EXCEPT ![p.account] = @ + n]
    /\ rsv' = [rsv EXCEPT ![p.request] =
                 [status |-> "authorized", account |-> p.account, key |-> p.key,
                  estimated |-> p.amount, authorized |-> n,
                  captured |-> 0, released |-> 0]]
    /\ End(c)
    /\ UNCHANGED <<balance, entries, exc, charge>>

\* Every error path of an open transaction (insufficient balance, a unique
\* violation, a store failure, the caller's crash) rolls it back.
Rollback(c) ==
    /\ call[c] # Idle
    /\ End(c)
    /\ UNCHANGED <<balance, reserved, rsv, entries, exc, charge>>

----------------------------------------------------------------------------
\* Capture and release

\* CollectUserBalanceOverage: the excess, as far as the free balance goes.
CollectedOverage(free, excess) == Greatest(Least(free, excess), 0)

\* Variant of WriteOff that forgets what the overage collected.
WriteOffAll(actual, captured, overage) == actual - captured

\* CreateLedgerWriteOffException: what neither part collected.
WriteOff(actual, captured, overage) == actual - (captured + overage)

\* Variant of RecordDebits that takes an entry already there for its own.
RecordDebitsUnlessThere(r, captured, overage) ==
    LET a == rsv[r].account
        mid == balance[a] - captured
    IN  entries' = [entries EXCEPT
          ![SettleKey(r)] = IF KeyFree(SettleKey(r))
                            THEN NewEntry("debit", a, r, captured, balance[a], mid)
                            ELSE @,
          ![OverageKey(r)] = IF overage > 0 /\ KeyFree(OverageKey(r))
                             THEN NewEntry("debit", a, r, overage, mid, mid - overage)
                             ELSE @]

\* The debit entries of a settlement; a key that is taken rolls it all back.
RecordDebits(r, captured, overage) ==
    LET a == rsv[r].account
        mid == balance[a] - captured
    IN  /\ KeyFree(SettleKey(r))
        /\ overage > 0 => KeyFree(OverageKey(r))
        /\ entries' = [entries EXCEPT
              ![SettleKey(r)] = NewEntry("debit", a, r, captured, balance[a], mid),
              ![OverageKey(r)] = IF overage > 0
                                 THEN NewEntry("debit", a, r, overage, mid, mid - overage)
                                 ELSE @]

\* captureWithQueries for an authorized reservation: the frozen part pays
\* first, then the unreserved balance of the account, and what is left is
\* written off.
Capture(r, actual) ==
    LET a == rsv[r].account
        auth == rsv[r].authorized
        captured == Least(actual, auth)
        mid == balance[a] - captured
        overage == IF actual > auth
                   THEN CollectedOverage(mid - (reserved[a] - auth), actual - auth)
                   ELSE 0
        lost == WriteOff(actual, captured, overage)
    IN
    /\ rsv[r].status = "authorized"
    /\ reserved[a] >= auth
    /\ balance[a] >= captured
    /\ RecordDebits(r, captured, overage)
    /\ balance' = [balance EXCEPT ![a] = mid - overage]
    /\ reserved' = [reserved EXCEPT ![a] = @ - auth]
    /\ rsv' = [rsv EXCEPT ![r] = [@ EXCEPT !.status = "captured",
                                          !.captured = captured,
                                          !.released = auth - captured]]
    /\ exc' = IF lost > 0
              THEN [exc EXCEPT ![r] =
                      [type |-> "write_off", actual |-> actual,
                       captured |-> captured + overage, platform |-> lost]]
              ELSE exc
    /\ charge' = [charge EXCEPT ![r] = actual]
    /\ UNCHANGED call

\* Variant of ReleaseHold that does not update the balance row.
ReleaseHoldKeepsReserved(r) ==
    /\ rsv[r].status = "authorized"
    /\ rsv' = [rsv EXCEPT ![r] = [@ EXCEPT !.status = "released",
                                          !.released = rsv[r].authorized]]
    /\ UNCHANGED reserved

\* releaseWithQueries for an authorized reservation.
ReleaseHold(r) ==
    LET a == rsv[r].account
        auth == rsv[r].authorized IN
    /\ rsv[r].status = "authorized"
    /\ reserved[a] >= auth
    /\ reserved' = [reserved EXCEPT ![a] = @ - auth]
    /\ rsv' = [rsv EXCEPT ![r] = [@ EXCEPT !.status = "released",
                                          !.released = auth]]

Release(r) ==
    /\ ReleaseHold(r)
    /\ UNCHANGED <<balance, entries, exc, call, charge>>

\* CreateLedgerRiskExposureException, at most one per reservation: the whole
\* authorised amount is the platform's exposure.
RiskExposure(r) ==
    exc' = IF exc[r].type = "none"
           THEN [exc EXCEPT ![r] =
                   [type |-> "risk_exposure", actual |-> 0, captured |-> 0,
                    platform |-> rsv[r].authorized]]
           ELSE exc

\* ReleaseWithBillingException; a replay on a released reservation still
\* inserts the exception when the first release recorded none.
ReleaseWithBillingException(r) ==
    /\ \/ ReleaseHold(r)
       \/ rsv[r].status = "released" /\ UNCHANGED <<reserved, rsv>>
    /\ RiskExposure(r)
    /\ UNCHANGED <<balance, entries, call, charge>>

----------------------------------------------------------------------------
Next ==
    \/ \E c \in Callers, a \in Accounts, n \in Amts :
          \/ \E k \in AdjustKeys : CreditLookup(c, a, k, n)
          \/ \E k \in AdjustKeys : DebitLookup(c, a, k, n)
          \/ \E r \in Requests, k \in AuthKeys : PreAuthorizeLookup(c, a, r, k, n)
    \/ \E c \in Callers :
          \/ CreditApply(c)
          \/ DebitApply(c)
          \/ PreAuthorizeReserve(c)
          \/ Rollback(c)
    \/ \E r \in Requests :
          \/ \E n \in Amts : Capture(r, n)
          \/ Release(r)
          \/ ReleaseWithBillingException(r)

Spec == Init /\ [][Next]_vars

----------------------------------------------------------------------------
\* Properties

\* What request r still holds of account a.
Held(a) == [r \in Requests |->
              IF rsv[r].status = "authorized" /\ rsv[r].account = a
              THEN rsv[r].authorized ELSE 0]

\* The amounts that entries of one type move on account a.
Moved(type, a) == [k \in EntryKeys |->
              IF entries[k].type = type /\ entries[k].account = a
              THEN entries[k].amount ELSE 0]

\* reserved_balance is exactly what the authorized reservations of the account
\* hold: no interleaving of pre-authorisations, captures and releases leaks a
\* hold or frees one twice (ReserveAvailableUserBalance, CaptureUserReserved-
\* Balance, ReleaseUserReservedBalance).
ReservedIsHeld == \A a \in Accounts : reserved[a] = Total(Held(a))

\* The CHECK 0 <= reserved_balance <= balance of user_balances never fires: an
\* overage or a manual debit never eats into what other requests hold.
HoldsAreFunded == \A a \in Accounts : reserved[a] <= balance[a]

\* The balance is the credits less the debits of the account's entries: every
\* movement has one entry of its own, under its own idempotency key.
BalanceIsExplained ==
    \A a \in Accounts :
        balance[a] + Total(Moved("debit", a)) = Total(Moved("credit", a))

\* What r's own settlement took beyond its frozen amount.
Overage(r) == IF entries[OverageKey(r)].request = r
              THEN entries[OverageKey(r)].amount ELSE 0

\* A settled amount is split without loss: frozen part, overage from the free
\* balance, platform write-off; the frozen part is used up before any overage
\* and a write-off is recorded exactly when something is left.
ChargeIsSplit ==
    \A r \in Requests : rsv[r].status = "captured" =>
        /\ rsv[r].captured + Overage(r) + exc[r].platform = charge[r]
        /\ Overage(r) > 0 => rsv[r].captured = rsv[r].authorized
        /\ rsv[r].captured + rsv[r].released = rsv[r].authorized
        /\ exc[r].type = IF exc[r].platform > 0 THEN "write_off" ELSE "none"

\* The customer pays for a request exactly when its reservation was captured.
\* A captured reservation has its settlement entry, of the captured amount: an
\* entry that an operator wrote under the settlement's key is never taken for
\* it.  And an entry of the request is that one or its overage, on the account
\* of the hold: a request that was released has cost the customer nothing.
PaidIffCaptured ==
    \A r \in Requests :
        /\ rsv[r].status = "captured" =>
              LET settlement == entries[SettleKey(r)] IN
              settlement.request = r /\ settlement.amount = rsv[r].captured
        /\ \A k \in EntryKeys : entries[k].request = r =>
              /\ rsv[r].status = "captured"
              /\ k \in {SettleKey(r), OverageKey(r)}
              /\ entries[k].type = "debit"
              /\ entries[k].account = rsv[r].account

\* What a step may do to facts already recorded: nothing.
KeepsFacts ==
    /\ \A r \in Requests :
          /\ rsv[r].status \in {"captured", "released"} => rsv'[r] = rsv[r]
          /\ exc[r].type # "none" => exc'[r] = exc[r]
    /\ \A k \in EntryKeys : entries[k].type # "none" => entries'[k] = entries[k]

\* A captured or released reservation, a written entry and a billing exception
\* are final: a late replay of any operation finds them and changes nothing.
FactsAreFinal == [][KeepsFacts]_vars
=============================================================================
