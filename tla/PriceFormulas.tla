---------------------------- MODULE PriceFormulas ----------------------------
(***************************************************************************)
(* What a request costs: the token_v1 formula of core/billing, the scaling *)
(* of a price by a ratio, the long-context tier, the margin guard and the  *)
(* estimate that is held before the upstream call.                         *)
(*                                                                         *)
(* Prices and amounts are NUMERIC(20,10): integers in units of 10^-10.  A  *)
(* ratio is an exact fraction, as in the code, which computes with         *)
(* rationals and rounds half up when it writes a column.  Four components  *)
(* stand for seven: the three cache-write rates are treated exactly as the *)
(* cache-read rate is.                                                     *)
(***************************************************************************)
EXTENDS Integers

CONSTANT Null       \* a rate column that holds no value

ASSUME NullAssumption == Null \notin Nat

Inputs     == {"uncached", "cache"}
Outputs    == {"output", "reasoning"}
Components == Inputs \cup Outputs
Required   == {"uncached", "output"}

Ratios == [num : Nat, den : Nat \ {0}]
Prices == {p \in [Components -> Nat \cup {Null}] : \A c \in Required : p[c] # Null}

(* The rate an absent component is charged at. *)
BaseOf(c) == IF c \in Inputs THEN "uncached" ELSE "output"
Rate(p, c) == IF p[c] = Null THEN p[BaseOf(c)] ELSE p[c]

-----------------------------------------------------------------------------
(* n/d rounded half up: the quotient, and one more when twice the          *)
(* remainder reaches the denominator.                                      *)
Rounded(n, d) == (2 * n + d) \div (2 * d)

ScaleRate(rate, ratio) ==
    IF rate = Null THEN Null ELSE Rounded(rate * ratio.num, ratio.den)
Scale(p, ratio) == [c \in Components |-> ScaleRate(p[c], ratio)]
Product(a, b)   == [num |-> a.num * b.num, den |-> a.den * b.den]

(* The long-context tier: above the threshold, input rates and output      *)
(* rates are multiplied, each by its own multiplier.                       *)
Policies == [enabled : BOOLEAN, threshold : Nat, input : Ratios, output : Ratios]
Tier(policy, c) == IF c \in Inputs THEN policy.input ELSE policy.output
LongContext(p, policy) ==
    [c \in Components |-> ScaleRate(p[c], Tier(policy, c))]
Active(policy) == policy.enabled /\ policy.threshold > 0
Applies(policy, inputTokens) == Active(policy) /\ inputTokens > policy.threshold
Priced(p, policy, inputTokens) ==
    IF Applies(policy, inputTokens) THEN LongContext(p, policy) ELSE p

-----------------------------------------------------------------------------
(* Reported usage; the output total includes the reasoning tokens. *)
Usages == {u \in [uncached : Nat, cache : Nat, output : Nat, reasoning : Nat] :
              u.reasoning <= u.output}
InputTokens(u) == u.uncached + u.cache
Tokens(u, c) == CASE c = "uncached"  -> u.uncached
                  [] c = "cache"     -> u.cache
                  [] c = "output"    -> u.output - u.reasoning
                  [] c = "reasoning" -> u.reasoning

PerMillion == 1000000
Amount(p, u, c) == Rate(p, c) * Tokens(u, c)

(* The customer is charged the rounded sum; the provider's cost is booked  *)
(* by component and is the sum of the rounded components.                  *)
Charge(p, u) ==
    Rounded(Amount(p, u, "uncached") + Amount(p, u, "cache")
            + Amount(p, u, "output") + Amount(p, u, "reasoning"), PerMillion)
CostOf(p, u, c) == Rounded(Amount(p, u, c), PerMillion)
Cost(p, u) == CostOf(p, u, "uncached") + CostOf(p, u, "cache")
              + CostOf(p, u, "output") + CostOf(p, u, "reasoning")

(* The guard of a candidate: no component is sold below its cost. *)
(* Mutant: only the main rates are compared. *)
SoldAtCostMain(sale, cost) == \A c \in Required : Rate(sale, c) >= Rate(cost, c)
SoldAtCost(sale, cost) == \A c \in Components : Rate(sale, c) >= Rate(cost, c)

(* The estimate: all input at the dearest input rate, all output at the    *)
(* dearest output rate.                                                    *)
Larger(a, b) == IF a >= b THEN a ELSE b
Estimate(p, input, completion) ==
    Rounded(Larger(Rate(p, "uncached"), Rate(p, "cache")) * input
            + Larger(Rate(p, "output"), Rate(p, "reasoning")) * completion, PerMillion)

(* What is held covers both tiers: which one applies is known only from    *)
(* the usage the upstream reports.                                         *)
(* Mutant: the tier is left to the settlement. *)
HoldPlain(p, policy, input, completion) == Estimate(p, input, completion)
Hold(p, policy, input, completion) ==
    IF Active(policy)
    THEN Larger(Estimate(p, input, completion),
                Estimate(LongContext(p, policy), input, completion))
    ELSE Estimate(p, input, completion)

(* The output bound of the estimate: the customer's, else the model's,     *)
(* else the process default.                                               *)
MaxOutput(client, model, fallback) ==
    IF client > 0 THEN client ELSE IF model > 0 THEN model ELSE fallback

=============================================================================
