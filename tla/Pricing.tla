------------------------------- MODULE Pricing -------------------------------
(***************************************************************************)
(* From the price list to the bill.  An operator creates price rows,       *)
(* closes and reopens their windows, and binds or unbinds the channel and  *)
(* the model; rows are never edited.  A request is routed with the rows    *)
(* active at that moment (candidates that would be sold below cost are     *)
(* dropped), holds an estimate, and is settled, possibly much later and by *)
(* a recovery worker, with the rates and row ids it was routed with.       *)
(*                                                                         *)
(* One model on one channel of one route, one currency, the channel's      *)
(* default multiplier.  Several channels have the same sale price.         *)
(***************************************************************************)
EXTENDS PriceFormulas, FiniteSets

CONSTANTS
    Rows,               \* the price rows an operator may create
    Kind,               \* Kind[r]: "base", "override", "multiplier", "recharge"
    Rates,              \* Rates[r]: the prices of a base or override row
    Factor,             \* Factor[r]: the ratio of a multiplier or recharge row
    Policy,             \* Policy[r]: the long-context policy of a base row
    Initial,            \* the rows that are active from the start
    Requests,
    RouteRatios,        \* ratios a route may have
    Estimates,          \* [input, client, model]: what a request asks for
    Reported,           \* usage an upstream may report
    MaxOutputFallback,  \* the process default for the output bound
    MaxTime, MaxEdits,  \* bounds: the clock, the operator's edits
    None

BaseRows      == {r \in Rows : Kind[r] = "base"}
OverrideRows  == {r \in Rows : Kind[r] = "override"}
FactorRows    == {r \in Rows : Kind[r] \in {"multiplier", "recharge"}}

ASSUME PricingAssumption ==
    /\ None \notin Rows
    /\ \A r \in Rows : Kind[r] \in {"base", "override", "multiplier", "recharge"}
    /\ \A r \in BaseRows : Rates[r] \in Prices /\ Policy[r] \in Policies
    /\ \A r \in OverrideRows : Rates[r] \in Prices
    /\ \A r \in FactorRows : Factor[r] \in Ratios
    /\ Initial \subseteq Rows
    /\ \A r, s \in Initial : Kind[r] = Kind[s] => r = s
    /\ RouteRatios \subseteq Ratios
    /\ Estimates \subseteq [input : Nat, client : Nat, model : Nat]
    /\ Reported \subseteq Usages
    /\ MaxOutputFallback \in Nat /\ MaxTime \in Nat /\ MaxEdits \in Nat

VARIABLES
    now,
    edits,
    window,     \* of each row: the time it is in force and whether it is enabled
    bound,      \* the channel_models row exists
    req         \* of each request: its progress and what it carries

vars == <<now, edits, window, bound, req>>

Never   == MaxTime + 1      \* effective_to IS NULL
Windows == [made : {TRUE}, on : BOOLEAN, from : 0..MaxTime, to : 1..Never]
NotMade == [made |-> FALSE, why |-> "new"]
Deleted == [made |-> FALSE, why |-> "deleted"]

NoPins == [override |-> None, base |-> None, multiplier |-> None, recharge |-> None]
RowOf(kind) == {r \in Rows : Kind[r] = kind} \cup {None}
Pins == [override : RowOf("override"), base : RowOf("base"),
         multiplier : RowOf("multiplier"), recharge : RowOf("recharge")]
NewRequest ==
    [phase |-> "new", sale |-> None, policy |-> None, pins |-> NoPins, judged |-> None,
     started |-> 0, asked |-> None, hold |-> 0, usage |-> None, charge |-> 0,
     rates |-> None, cost |-> 0]
Phases == {"new", "rejected", "routed", "refused", "held", "answered", "queued",
           "settled", "unbilled"}
RequestRecords ==
    [phase : Phases, sale : Prices \cup {None}, policy : Policies \cup {None}, pins : Pins,
     judged : Prices \cup {None}, started : 0..MaxTime, asked : Estimates \cup {None},
     hold : Nat, usage : Reported \cup {None}, charge : Nat,
     rates : Prices \cup {None}, cost : Nat]

TypeOK ==
    /\ now \in 0..MaxTime /\ edits \in 0..MaxEdits /\ bound \in BOOLEAN
    /\ window \in [Rows -> Windows \cup {NotMade, Deleted}]
    /\ req \in [Requests -> RequestRecords]

Init ==
    /\ now = 0 /\ edits = 0 /\ bound = TRUE
    /\ window = [r \in Rows |-> IF r \in Initial
                                THEN [made |-> TRUE, on |-> TRUE, from |-> 0, to |-> Never]
                                ELSE NotMade]
    /\ req = [q \in Requests |-> NewRequest]

-----------------------------------------------------------------------------
(* The price list *)

InForce(r, t) == window[r].made /\ window[r].on /\ window[r].from <= t /\ t < window[r].to
ActiveRow(kind, t) ==
    IF \E r \in Rows : Kind[r] = kind /\ InForce(r, t)
    THEN CHOOSE r \in Rows : Kind[r] = kind /\ InForce(r, t)
    ELSE None

(* Two windows of one kind must not overlap while both are enabled. *)
(* Mutant: windows may overlap. *)
FreeAlways(r, from, to) == TRUE
Free(r, from, to) ==
    \A s \in Rows \ {r} : Kind[s] = Kind[r] /\ window[s].made /\ window[s].on =>
        to <= window[s].from \/ window[s].to <= from

CreateRow(r, from, to) ==
    /\ edits < MaxEdits
    /\ window[r] = NotMade
    /\ from < to
    /\ Kind[r] = "override" => bound
    /\ Free(r, from, to)
    /\ window' = [window EXCEPT ![r] = [made |-> TRUE, on |-> TRUE, from |-> from, to |-> to]]
    /\ edits' = edits + 1
    /\ UNCHANGED <<now, bound, req>>

(* A row's window may be moved at its end and the row switched off or on;  *)
(* its amounts may not be changed.                                         *)
UpdateRow(r, on, to) ==
    /\ edits < MaxEdits
    /\ window[r].made
    /\ window[r].from < to
    /\ on => Free(r, window[r].from, to)
    /\ window' = [window EXCEPT ![r].on = on, ![r].to = to]
    /\ edits' = edits + 1
    /\ UNCHANGED <<now, bound, req>>

(* Deleting a binding deletes its override prices too, unless a settled    *)
(* request or a recovery job refers to either.                             *)
(* Mutant: recovery jobs are not asked. *)
ReferredBySettled == \E q \in Requests : req[q].phase = "settled"
Referred == \E q \in Requests : req[q].phase \in {"queued", "settled"}
Unbind ==
    /\ edits < MaxEdits
    /\ bound /\ ~Referred
    /\ bound' = FALSE
    /\ window' = [r \in Rows |-> IF Kind[r] = "override" /\ window[r].made
                                 THEN Deleted ELSE window[r]]
    /\ edits' = edits + 1
    /\ UNCHANGED <<now, req>>

Bind ==
    /\ edits < MaxEdits
    /\ ~bound /\ bound' = TRUE
    /\ edits' = edits + 1
    /\ UNCHANGED <<now, window, req>>

Tick == now < MaxTime /\ now' = now + 1 /\ UNCHANGED <<edits, window, bound, req>>

-----------------------------------------------------------------------------
(* What a provider charges for a request: the override, or the base price  *)
(* times the multiplier times the recharge factor (1 when there is none).  *)
One == [num |-> 1, den |-> 1]
FactorOf(r) == IF r = None THEN One ELSE Factor[r]
CostRates(pins) ==
    IF pins.override # None THEN Rates[pins.override]
    ELSE Scale(Rates[pins.base], Product(FactorOf(pins.multiplier), FactorOf(pins.recharge)))

(* The rows that decide the cost at time t; an override hides the others. *)
(* Mutant: the ids of the two factors are swapped. *)
PinsSwapped(t) ==
    [override   |-> ActiveRow("override", t),
     base       |-> ActiveRow("base", t),
     multiplier |-> ActiveRow("recharge", t),
     recharge   |-> ActiveRow("multiplier", t)]
PinsAt(t) ==
    IF ActiveRow("override", t) # None
    THEN [NoPins EXCEPT !.override = ActiveRow("override", t)]
    ELSE [override   |-> None,
          base       |-> ActiveRow("base", t),
          multiplier |-> ActiveRow("multiplier", t),
          recharge   |-> ActiveRow("recharge", t)]
CostResolves(pins) ==
    pins.override # None \/ (pins.base # None /\ pins.multiplier # None)

(* Settlement uses the pinned rows while they exist, whatever their window *)
(* says by then, and looks the prices of the attempt's start up otherwise. *)
Exists(pins) == \A k \in DOMAIN pins : pins[k] # None => window[pins[k]].made
(* Mutant: settlement looks the prices up again. *)
SettlementPinsNow(q) == PinsAt(now)
SettlementPins(q) ==
    IF Exists(req[q].pins) THEN req[q].pins ELSE PinsAt(req[q].started)

-----------------------------------------------------------------------------
(* A request *)

Route(q, ratio) ==
    LET base == ActiveRow("base", now)
        pins == PinsAt(now)
        sale == Scale(Rates[base], ratio)
        cost == CostRates(pins)
    IN  /\ req[q].phase = "new"
        /\ bound /\ base # None /\ CostResolves(pins)
        /\ req' = [req EXCEPT ![q] =
              IF SoldAtCost(sale, cost)
              THEN [NewRequest EXCEPT !.phase = "routed", !.sale = sale, !.pins = pins,
                                      !.judged = cost, !.policy = Policy[base]]
              ELSE [NewRequest EXCEPT !.phase = "rejected"]]
        /\ UNCHANGED <<now, edits, window, bound>>

OutputBound(asked) == MaxOutput(asked.client, asked.model, MaxOutputFallback)
Authorize(q, asked) ==
    LET held == Hold(req[q].sale, req[q].policy, asked.input, OutputBound(asked))
    IN  /\ req[q].phase = "routed"
        /\ req' = [req EXCEPT ![q].asked = asked, ![q].hold = held,
                              ![q].phase = IF held > 0 THEN "held" ELSE "refused",
                              ![q].started = now]
        /\ UNCHANGED <<now, edits, window, bound>>

Answer(q, usage) ==
    /\ req[q].phase = "held"
    /\ req' = [req EXCEPT ![q].phase = "answered", ![q].usage = usage]
    /\ UNCHANGED <<now, edits, window, bound>>

(* The recovery job is written before the first settlement; it refers to   *)
(* the binding and the override row, and carries the sale price and the    *)
(* policy.  When they are gone the request cannot be billed.               *)
CreateJob(q) ==
    /\ req[q].phase = "answered"
    /\ req' = [req EXCEPT ![q].phase =
          IF bound /\ (req[q].pins.override # None => window[req[q].pins.override].made)
          THEN "queued" ELSE "unbilled"]
    /\ UNCHANGED <<now, edits, window, bound>>

Settle(q) ==
    LET u     == req[q].usage
        pins  == SettlementPins(q)
        rates == CostRates(pins)
        sale  == Priced(req[q].sale, req[q].policy, InputTokens(u))
        cost  == Priced(rates, req[q].policy, InputTokens(u))
    IN  /\ req[q].phase = "queued"
        /\ bound /\ CostResolves(pins)
        /\ req' = [req EXCEPT ![q].phase = "settled", ![q].charge = Charge(sale, u),
                              ![q].rates = rates, ![q].cost = Cost(cost, u)]
        /\ UNCHANGED <<now, edits, window, bound>>

-----------------------------------------------------------------------------
Edit ==
    \/ \E r \in Rows, from \in 0..MaxTime, to \in 1..Never : CreateRow(r, from, to)
    \/ \E r \in Rows, on \in BOOLEAN, to \in 1..Never : UpdateRow(r, on, to)
    \/ Unbind
    \/ Bind

Next ==
    \/ Edit
    \/ Tick
    \/ \E q \in Requests :
          \/ \E ratio \in RouteRatios : Route(q, ratio)
          \/ \E asked \in Estimates : Authorize(q, asked)
          \/ \E usage \in Reported : Answer(q, usage)
          \/ CreateJob(q)
          \/ Settle(q)

Spec == Init /\ [][Next]_vars

-----------------------------------------------------------------------------
(* Properties *)

Settled == {q \in Requests : req[q].phase = "settled"}

(* The provider's cost is booked at the rates the margin guard judged when *)
(* the request was routed: closing a window, switching a row off, a new    *)
(* price, unbinding and binding again between the routing and the          *)
(* (possibly replayed) settlement change nothing                           *)
(* (router.go buildChatRouteCandidate, settlement.go resolveSettlementCost).*)
GuardedCostIsSettled == \A q \in Settled : req[q].rates = req[q].judged

(* A settled request never costs more than it earns, but for the rounding  *)
(* of its components: with four of them, two units of 10^-10; whatever     *)
(* tier its usage falls into (margin.go ValidateNonNegativeMargin,         *)
(* long_context.go).                                                       *)
MarginHolds == \A q \in Settled : req[q].cost <= req[q].charge + 2

(* While the usage stays within what was estimated, the hold covers the    *)
(* charge: also when the long-context tier applies only to the real usage, *)
(* and whichever components the tokens turn out to be of                   *)
(* (authorization.go AuthorizeChat, service.go EstimateAuthorizationAmount).*)
WithinEstimate(q) ==
    /\ InputTokens(req[q].usage) <= req[q].asked.input
    /\ req[q].usage.output <= OutputBound(req[q].asked)
HoldCoversCharge == \A q \in Settled : WithinEstimate(q) => req[q].charge <= req[q].hold

(* What a request carries at each of its steps: the guard's verdict on the  *)
(* rows it pins, the estimate, the usage, the rows its job refers to, and  *)
(* the bill (settlement.go settleChat).  The other properties follow.      *)
Judged(q) ==
    /\ req[q].sale \in Prices /\ req[q].policy \in Policies
    /\ SoldAtCost(req[q].sale, req[q].judged)
    /\ CostResolves(req[q].pins) /\ req[q].judged = CostRates(req[q].pins)
    /\ \A k \in {"base", "multiplier", "recharge"} :
          req[q].pins[k] # None => window[req[q].pins[k]].made
Held(q) ==
    /\ req[q].asked \in Estimates
    /\ req[q].hold = Hold(req[q].sale, req[q].policy, req[q].asked.input,
                          OutputBound(req[q].asked))
JobRefers(q) == bound /\ (req[q].pins.override # None => window[req[q].pins.override].made)
Billed(q) ==
    LET u == req[q].usage
    IN  /\ req[q].rates = req[q].judged
        /\ req[q].charge = Charge(Priced(req[q].sale, req[q].policy, InputTokens(u)), u)
        /\ req[q].cost = Cost(Priced(req[q].judged, req[q].policy, InputTokens(u)), u)
BillIsOfTheRoute ==
    \A q \in Requests :
        /\ req[q].phase \notin {"new", "rejected"} => Judged(q)
        /\ req[q].phase \in {"held", "answered", "queued", "settled", "unbilled"} => Held(q)
        /\ req[q].phase \in {"answered", "queued", "settled"} => req[q].usage \in Reported
        /\ req[q].phase = "queued" => JobRefers(q)
        /\ req[q].phase = "settled" => Billed(q)

(* At any time at most one row of a kind is in force, so a price never     *)
(* depends on the order rows are read in (channelprice.go ensureNoOverlap).*)
OnePriceAtATime ==
    \A t \in 0..MaxTime, r, s \in Rows :
        Kind[r] = Kind[s] /\ InForce(r, t) /\ InForce(s, t) => r = s

(* What channelprice.go:8 and settlement.go:746 say: a component without   *)
(* a cost is booked at zero.  The code books it at the base component's    *)
(* rate, so this does not hold.                                            *)
AbsentCostIsZero ==
    \A q \in Settled :
        req[q].pins.override # None /\ req[q].rates["cache"] = Null /\ ~req[q].policy.enabled =>
            CostOf(req[q].rates, req[q].usage, "cache") = 0

=============================================================================
