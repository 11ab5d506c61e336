---------------------------- MODULE PricingProofs ----------------------------
(***************************************************************************)
(* For every price list, ratio, long-context policy and usage: a request   *)
(* is settled at the cost its margin guard judged, the hold covers the     *)
(* charge of a usage that was estimated, and a settled request costs at    *)
(* most two units more than it earns.                                      *)
(***************************************************************************)
EXTENDS Pricing, TLAPS

-----------------------------------------------------------------------------
(* Rounding *)

(* Integer division: the quotient and what is left of the numerator. *)
LEMMA Quotient ==
    ASSUME NEW n \in Nat, NEW d \in Nat \ {0}
    PROVE  /\ n \div d \in Nat
           /\ d * (n \div d) <= n
           /\ n < d * (n \div d) + d
OBVIOUS

(* A rounded quotient is within half a unit of the exact one. *)
LEMMA RoundedBounds ==
    ASSUME NEW n \in Nat, NEW d \in Nat \ {0}
    PROVE  /\ Rounded(n, d) \in Nat
           /\ 2 * d * Rounded(n, d) <= 2 * n + d
           /\ 2 * n + d < 2 * d * Rounded(n, d) + 2 * d
<1>1. 2 * n + d \in Nat /\ 2 * d \in Nat \ {0}
  OBVIOUS
<1>2. QED
  BY <1>1, Quotient DEF Rounded

(* Rounding keeps the order of two quotients. *)
LEMMA RoundedMonotone ==
    ASSUME NEW n \in Nat, NEW m \in Nat, NEW d \in Nat \ {0}, n <= m
    PROVE  Rounded(n, d) <= Rounded(m, d)
<1> DEFINE r == Rounded(n, d)
           s == Rounded(m, d)
<1>1. r \in Nat /\ s \in Nat /\ 2 * d * r <= 2 * n + d /\ 2 * m + d < 2 * d * s + 2 * d
  BY RoundedBounds
<1>2. d * r < d * (s + 1)
  <2> HIDE DEF r, s
  <2>1. 2 * (d * r) < 2 * (d * (s + 1))
    BY <1>1
  <2>2. QED
    BY <2>1, <1>1
<1>3. r < s + 1
  <2> HIDE DEF r, s
  <2>1. QED
    BY <1>1, <1>2
<1>4. QED
  BY <1>1, <1>3

LEMMA ProductMonotone ==
    ASSUME NEW a \in Nat, NEW b \in Nat, NEW x \in Nat, NEW y \in Nat, a <= b, x <= y
    PROVE  a * x \in Nat /\ a * x <= b * y
<1>1. a * x <= b * x /\ b * x <= b * y
  OBVIOUS
<1>2. QED
  BY <1>1

-----------------------------------------------------------------------------
(* Rates *)

(* Every component of a price has a rate. *)
LEMMA RateType ==
    ASSUME NEW p \in Prices, NEW c \in Components
    PROVE  Rate(p, c) \in Nat
BY NullAssumption DEF Rate, BaseOf, Prices, Components, Inputs, Outputs, Required

(* Multiplying the rates of a price, absent ones staying absent and a      *)
(* component and its base by the same ratio, multiplies every rate.        *)
LEMMA ScaledRate ==
    ASSUME NEW p \in Prices, NEW f \in [Components -> Ratios],
           \A c \in Components : f[c] = f[BaseOf(c)]
    PROVE  LET s == [c \in Components |-> ScaleRate(p[c], f[c])]
           IN  /\ s \in Prices
               /\ \A c \in Components :
                     Rate(s, c) = Rounded(Rate(p, c) * f[c].num, f[c].den)
<1> DEFINE s == [c \in Components |-> ScaleRate(p[c], f[c])]
<1>1. ASSUME NEW c \in Components
      PROVE  /\ s[c] = Null <=> p[c] = Null
             /\ p[c] # Null => s[c] = Rounded(p[c] * f[c].num, f[c].den) /\ s[c] \in Nat
  <2>1. CASE p[c] = Null
    BY <2>1 DEF ScaleRate
  <2>2. CASE p[c] # Null
    <3>1. p[c] \in Nat /\ f[c].num \in Nat /\ f[c].den \in Nat \ {0}
      BY <2>2 DEF Prices, Ratios
    <3>2. p[c] * f[c].num \in Nat
      BY <3>1
    <3>3. s[c] = Rounded(p[c] * f[c].num, f[c].den)
      BY <2>2 DEF ScaleRate
    <3>4. QED
      BY <2>2, <3>1, <3>2, <3>3, RoundedBounds, NullAssumption
  <2>3. QED
    BY <2>1, <2>2
<1>2. s \in Prices
  <2>1. \A c \in Required : p[c] # Null /\ c \in Components
    BY DEF Prices, Required, Components, Inputs, Outputs
  <2>2. QED
    BY <1>1, <2>1 DEF Prices
<1>3. ASSUME NEW c \in Components
      PROVE  Rate(s, c) = Rounded(Rate(p, c) * f[c].num, f[c].den)
  <2>1. BaseOf(c) \in Components /\ p[BaseOf(c)] # Null
    BY DEF BaseOf, Prices, Required, Components, Inputs, Outputs
  <2>2. CASE p[c] = Null
    BY <1>1, <2>1, <2>2 DEF Rate
  <2>3. CASE p[c] # Null
    BY <1>1, <2>3 DEF Rate
  <2>4. QED
    BY <2>2, <2>3
<1>4. QED
  BY <1>2, <1>3

(* The two uses of the lemma: a price scaled by one ratio, and a price in  *)
(* its long-context tier.                                                  *)
LEMMA ScaleType ==
    ASSUME NEW p \in Prices, NEW ratio \in Ratios
    PROVE  Scale(p, ratio) \in Prices
<1> DEFINE f == [c \in Components |-> ratio]
<1>1. f \in [Components -> Ratios] /\ \A c \in Components : f[c] = f[BaseOf(c)]
  BY DEF BaseOf, Components, Inputs, Outputs
<1>2. [c \in Components |-> ScaleRate(p[c], f[c])] = Scale(p, ratio)
  BY DEF Scale
<1>3. QED
  BY <1>1, <1>2, ScaledRate

LEMMA LongContextRate ==
    ASSUME NEW p \in Prices, NEW policy \in Policies
    PROVE  /\ LongContext(p, policy) \in Prices
           /\ \A c \in Components :
                 /\ Tier(policy, c) \in Ratios
                 /\ Rate(LongContext(p, policy), c)
                       = Rounded(Rate(p, c) * Tier(policy, c).num, Tier(policy, c).den)
<1> DEFINE f == [c \in Components |-> Tier(policy, c)]
<1>1. \A c \in Components : Tier(policy, c) \in Ratios
  BY DEF Tier, Policies
<1>2. f \in [Components -> Ratios] /\ \A c \in Components : f[c] = f[BaseOf(c)]
  BY <1>1 DEF Tier, BaseOf, Components, Inputs, Outputs
<1>3. [c \in Components |-> ScaleRate(p[c], f[c])] = LongContext(p, policy)
  BY DEF LongContext
<1>4. QED
  BY <1>1, <1>2, <1>3, ScaledRate

(* The guard compares short-context rates; both tiers keep what it found.  *)
LEMMA PricedKeepsMargin ==
    ASSUME NEW sale \in Prices, NEW cost \in Prices, NEW policy \in Policies,
           NEW tokens \in Nat, SoldAtCost(sale, cost)
    PROVE  /\ Priced(sale, policy, tokens) \in Prices
           /\ Priced(cost, policy, tokens) \in Prices
           /\ SoldAtCost(Priced(sale, policy, tokens), Priced(cost, policy, tokens))
<1>1. SoldAtCost(LongContext(sale, policy), LongContext(cost, policy))
  <2> SUFFICES ASSUME NEW c \in Components
               PROVE  Rate(LongContext(sale, policy), c) >= Rate(LongContext(cost, policy), c)
    BY DEF SoldAtCost
  <2> DEFINE num == Tier(policy, c).num
             den == Tier(policy, c).den
  <2>1. num \in Nat /\ den \in Nat \ {0}
    BY LongContextRate DEF Ratios
  <2>2. Rate(sale, c) \in Nat /\ Rate(cost, c) \in Nat /\ Rate(cost, c) <= Rate(sale, c)
    BY RateType DEF SoldAtCost
  <2>3. /\ Rate(cost, c) * num \in Nat /\ Rate(sale, c) * num \in Nat
        /\ Rate(cost, c) * num <= Rate(sale, c) * num
    <3> HIDE DEF num
    <3>1. num <= num
      BY <2>1
    <3>2. QED
      BY <2>1, <2>2, <3>1, ProductMonotone
  <2>4. Rounded(Rate(cost, c) * num, den) <= Rounded(Rate(sale, c) * num, den)
    BY <2>1, <2>3, RoundedMonotone
  <2>5. /\ Rounded(Rate(cost, c) * num, den) \in Nat
        /\ Rounded(Rate(sale, c) * num, den) \in Nat
    BY <2>1, <2>3, RoundedBounds
  <2>6. /\ Rate(LongContext(sale, policy), c) = Rounded(Rate(sale, c) * num, den)
        /\ Rate(LongContext(cost, policy), c) = Rounded(Rate(cost, c) * num, den)
    BY LongContextRate
  <2>7. QED
    <3> HIDE DEF num, den
    <3>1. QED
      BY <2>4, <2>5, <2>6
<1>2. QED
  BY <1>1, LongContextRate DEF Priced

-----------------------------------------------------------------------------
(* Amounts *)

LEMMA TokensType ==
    ASSUME NEW u \in Usages, NEW c \in Components
    PROVE  Tokens(u, c) \in Nat
<1>1. /\ u.uncached \in Nat /\ u.cache \in Nat /\ u.output \in Nat /\ u.reasoning \in Nat
      /\ u.reasoning <= u.output
  BY DEF Usages
<1>2. QED
  BY <1>1 DEF Tokens, Components, Inputs, Outputs

(* Each component of the cost rounds up by at most half a unit and the     *)
(* charge rounds down by at most half a unit: five halves in all.          *)
LEMMA CostWithinCharge ==
    ASSUME NEW sale \in Prices, NEW cost \in Prices, NEW u \in Usages,
           SoldAtCost(sale, cost)
    PROVE  /\ Cost(cost, u) \in Nat /\ Charge(sale, u) \in Nat
           /\ Cost(cost, u) <= Charge(sale, u) + 2
<1>1. \A c \in Components :
         /\ Amount(cost, u, c) \in Nat /\ Amount(sale, u, c) \in Nat
         /\ Amount(cost, u, c) <= Amount(sale, u, c)
  <2> SUFFICES ASSUME NEW c \in Components
               PROVE  /\ Amount(cost, u, c) \in Nat /\ Amount(sale, u, c) \in Nat
                      /\ Amount(cost, u, c) <= Amount(sale, u, c)
    OBVIOUS
  <2>1. /\ Rate(sale, c) \in Nat /\ Rate(cost, c) \in Nat /\ Rate(cost, c) <= Rate(sale, c)
        /\ Tokens(u, c) \in Nat /\ Tokens(u, c) <= Tokens(u, c)
    BY RateType, TokensType DEF SoldAtCost
  <2>2. QED
    BY <2>1, ProductMonotone DEF Amount
<1>2. \A c \in Components :
         /\ CostOf(cost, u, c) \in Nat
         /\ 2 * PerMillion * CostOf(cost, u, c) <= 2 * Amount(cost, u, c) + PerMillion
  BY <1>1, RoundedBounds DEF CostOf, PerMillion
<1> DEFINE total == Amount(sale, u, "uncached") + Amount(sale, u, "cache")
                    + Amount(sale, u, "output") + Amount(sale, u, "reasoning")
<1>3. {"uncached", "cache", "output", "reasoning"} \subseteq Components
  BY DEF Components, Inputs, Outputs
<1>4. total \in Nat
  BY <1>1, <1>3
<1>5. /\ Charge(sale, u) \in Nat
      /\ 2 * total + PerMillion < 2 * PerMillion * Charge(sale, u) + 2 * PerMillion
  BY <1>4, RoundedBounds DEF Charge, PerMillion
<1>6. QED
  BY <1>1, <1>2, <1>3, <1>5 DEF Cost, PerMillion

(* A usage within the estimate is charged at most the estimate. *)
LEMMA EstimateCoversCharge ==
    ASSUME NEW p \in Prices, NEW u \in Usages, NEW input \in Nat, NEW completion \in Nat,
           InputTokens(u) <= input, u.output <= completion
    PROVE  /\ Charge(p, u) \in Nat /\ Estimate(p, input, completion) \in Nat
           /\ Charge(p, u) <= Estimate(p, input, completion)
<1> DEFINE i == Larger(Rate(p, "uncached"), Rate(p, "cache"))
           o == Larger(Rate(p, "output"), Rate(p, "reasoning"))
           total == Amount(p, u, "uncached") + Amount(p, u, "cache")
                    + Amount(p, u, "output") + Amount(p, u, "reasoning")
<1>1. /\ Rate(p, "uncached") \in Nat /\ Rate(p, "cache") \in Nat
      /\ Rate(p, "output") \in Nat /\ Rate(p, "reasoning") \in Nat
  BY RateType DEF Components, Inputs, Outputs
<1>2. /\ i \in Nat /\ Rate(p, "uncached") <= i /\ Rate(p, "cache") <= i
      /\ o \in Nat /\ Rate(p, "output") <= o /\ Rate(p, "reasoning") <= o
  BY <1>1 DEF Larger
<1>3. /\ u.uncached \in Nat /\ u.cache \in Nat /\ u.output \in Nat /\ u.reasoning \in Nat
      /\ u.output - u.reasoning \in Nat
      /\ u.uncached + u.cache <= input
  BY DEF Usages, InputTokens
<1>4. /\ Amount(p, u, "uncached") = Rate(p, "uncached") * u.uncached
      /\ Amount(p, u, "cache") = Rate(p, "cache") * u.cache
      /\ Amount(p, u, "output") = Rate(p, "output") * (u.output - u.reasoning)
      /\ Amount(p, u, "reasoning") = Rate(p, "reasoning") * u.reasoning
  BY DEF Amount, Tokens
<1> HIDE DEF i, o
<1>5. /\ Rate(p, "uncached") * u.uncached \in Nat
      /\ Rate(p, "uncached") * u.uncached <= i * u.uncached
      /\ Rate(p, "cache") * u.cache \in Nat
      /\ Rate(p, "cache") * u.cache <= i * u.cache
  BY <1>1, <1>2, <1>3, ProductMonotone
<1>6. /\ Rate(p, "output") * (u.output - u.reasoning) \in Nat
      /\ Rate(p, "output") * (u.output - u.reasoning) <= o * (u.output - u.reasoning)
      /\ Rate(p, "reasoning") * u.reasoning \in Nat
      /\ Rate(p, "reasoning") * u.reasoning <= o * u.reasoning
  BY <1>1, <1>2, <1>3, ProductMonotone
<1>7. i * u.uncached + i * u.cache <= i * input
  <2>1. i * (u.uncached + u.cache) <= i * input
    BY <1>2, <1>3, ProductMonotone
  <2>2. i * (u.uncached + u.cache) = i * u.uncached + i * u.cache
    BY <1>2, <1>3
  <2>3. QED
    BY <2>1, <2>2
<1>8. o * (u.output - u.reasoning) + o * u.reasoning <= o * completion
  <2>1. o * u.output <= o * completion
    BY <1>2, <1>3, ProductMonotone
  <2>2. o * (u.output - u.reasoning) + o * u.reasoning = o * u.output
    BY <1>2, <1>3
  <2>3. QED
    BY <2>1, <2>2
<1>9. i * input \in Nat /\ o * completion \in Nat
  BY <1>2
<1>10. /\ total \in Nat /\ i * input + o * completion \in Nat
       /\ total <= i * input + o * completion
  <2>1. /\ i * u.uncached \in Nat /\ i * u.cache \in Nat
        /\ o * (u.output - u.reasoning) \in Nat /\ o * u.reasoning \in Nat
    BY <1>2, <1>3
  <2>2. QED
    BY <1>4, <1>5, <1>6, <1>7, <1>8, <1>9, <2>1
<1>11. /\ Charge(p, u) = Rounded(total, PerMillion)
       /\ Estimate(p, input, completion) = Rounded(i * input + o * completion, PerMillion)
  BY DEF Charge, Estimate, i, o
<1>12. PerMillion \in Nat \ {0}
  BY DEF PerMillion
<1> HIDE DEF total
<1>13. QED
  BY <1>10, <1>11, <1>12, RoundedBounds, RoundedMonotone

(* The hold covers the charge of either tier. *)
LEMMA HoldCoversEitherTier ==
    ASSUME NEW p \in Prices, NEW policy \in Policies, NEW u \in Usages,
           NEW input \in Nat, NEW completion \in Nat
    PROVE  /\ Hold(p, policy, input, completion) \in Nat
           /\ InputTokens(u) <= input /\ u.output <= completion =>
                 Charge(Priced(p, policy, InputTokens(u)), u)
                    <= Hold(p, policy, input, completion)
<1> DEFINE long == LongContext(p, policy)
           none == [uncached |-> 0, cache |-> 0, output |-> 0, reasoning |-> 0]
<1>1. long \in Prices
  BY LongContextRate
<1>2. none \in Usages /\ InputTokens(none) <= input /\ none.output <= completion
  BY DEF Usages, InputTokens
<1>3. /\ Estimate(p, input, completion) \in Nat
      /\ Estimate(long, input, completion) \in Nat
  <2> HIDE DEF none, long
  <2>1. QED
    BY <1>1, <1>2, EstimateCoversCharge
<1>4. Hold(p, policy, input, completion) \in Nat
  BY <1>3 DEF Hold, Larger
<1>5. ASSUME InputTokens(u) <= input, u.output <= completion
      PROVE  Charge(Priced(p, policy, InputTokens(u)), u) <= Hold(p, policy, input, completion)
  <2> HIDE DEF long
  <2>1. /\ Charge(p, u) \in Nat /\ Charge(p, u) <= Estimate(p, input, completion)
        /\ Charge(long, u) \in Nat /\ Charge(long, u) <= Estimate(long, input, completion)
    BY <1>1, <1>5, EstimateCoversCharge
  <2>2. CASE Active(policy)
    <3>1. /\ Hold(p, policy, input, completion) >= Estimate(p, input, completion)
          /\ Hold(p, policy, input, completion) >= Estimate(long, input, completion)
      BY <1>3, <2>2 DEF Hold, Larger, long
    <3>2. Priced(p, policy, InputTokens(u)) \in {p, long}
      BY DEF Priced, long
    <3>3. QED
      BY <1>3, <1>4, <2>1, <3>1, <3>2
  <2>3. CASE ~Active(policy)
    <3>1. Priced(p, policy, InputTokens(u)) = p
      BY <2>3 DEF Priced, Applies
    <3>2. Hold(p, policy, input, completion) = Estimate(p, input, completion)
      BY <2>3 DEF Hold
    <3>3. QED
      BY <2>1, <3>1, <3>2
  <2>4. QED
    BY <2>2, <2>3
<1>6. QED
  BY <1>4, <1>5

-----------------------------------------------------------------------------
(* The state machine *)

(* The row in force is a row of its kind, and exists. *)
LEMMA ActiveRowType ==
    ASSUME NEW kind, NEW t
    PROVE  /\ ActiveRow(kind, t) \in RowOf(kind)
           /\ ActiveRow(kind, t) # None => window[ActiveRow(kind, t)].made
<1>1. CASE \E r \in Rows : Kind[r] = kind /\ InForce(r, t)
  <2>1. ActiveRow(kind, t) \in Rows /\ Kind[ActiveRow(kind, t)] = kind
        /\ InForce(ActiveRow(kind, t), t)
    BY <1>1 DEF ActiveRow
  <2>2. QED
    BY <2>1 DEF RowOf, InForce
<1>2. CASE ~ \E r \in Rows : Kind[r] = kind /\ InForce(r, t)
  BY <1>2 DEF ActiveRow, RowOf
<1>3. QED
  BY <1>1, <1>2

LEMMA PinsAtType ==
    ASSUME NEW t
    PROVE  /\ PinsAt(t) \in Pins
           /\ \A k \in {"base", "multiplier", "recharge"} :
                 PinsAt(t)[k] # None => window[PinsAt(t)[k]].made
<1>1. \A k : None \in RowOf(k)
  BY DEF RowOf
<1>2. QED
  BY <1>1, ActiveRowType DEF PinsAt, NoPins, Pins

(* Rows that resolve to a cost resolve to a price vector. *)
LEMMA CostRatesType ==
    ASSUME NEW pins \in Pins, CostResolves(pins)
    PROVE  CostRates(pins) \in Prices
<1>1. CASE pins.override # None
  <2>1. pins.override \in OverrideRows
    BY <1>1 DEF Pins, RowOf, OverrideRows
  <2>2. QED
    BY <1>1, <2>1, PricingAssumption DEF CostRates
<1>2. CASE pins.override = None
  <2>1. pins.base \in BaseRows
    BY <1>2 DEF CostResolves, Pins, RowOf, BaseRows
  <2>2. /\ FactorOf(pins.multiplier) \in Ratios /\ FactorOf(pins.recharge) \in Ratios
    <3>1. /\ pins.multiplier \in FactorRows \cup {None}
          /\ pins.recharge \in FactorRows \cup {None}
      BY DEF Pins, RowOf, FactorRows
    <3>2. One \in Ratios
      BY DEF One, Ratios
    <3>3. QED
      BY <3>1, <3>2, PricingAssumption DEF FactorOf
  <2>3. \A a, b \in Ratios : Product(a, b) \in Ratios
    BY DEF Product, Ratios
  <2>4. QED
    BY <1>2, <2>1, <2>2, <2>3, PricingAssumption, ScaleType DEF CostRates
<1>3. QED
  BY <1>1, <1>2

(* The estimate is made of natural numbers. *)
LEMMA EstimateType ==
    ASSUME NEW asked \in Estimates
    PROVE  asked.input \in Nat /\ OutputBound(asked) \in Nat
BY PricingAssumption DEF OutputBound, MaxOutput

LEMMA NewRequestType == NewRequest \in RequestRecords
<1>1. \A k : None \in RowOf(k)
  BY DEF RowOf
<1>2. NoPins \in Pins
  BY <1>1 DEF NoPins, Pins
<1>3. QED
  BY <1>2, PricingAssumption DEF NewRequest, RequestRecords, Phases

(* The inductive invariant. *)
IInv == TypeOK /\ BillIsOfTheRoute

LEMMA InitInvariant == Init => IInv
<1> SUFFICES ASSUME Init PROVE IInv
  OBVIOUS
<1>1. NewRequest \in RequestRecords
  BY NewRequestType
<1>2. req \in [Requests -> RequestRecords]
  BY <1>1 DEF Init
<1>3. window \in [Rows -> Windows \cup {NotMade, Deleted}]
  BY PricingAssumption DEF Init, Windows, Never
<1>4. now \in 0..MaxTime /\ edits \in 0..MaxEdits /\ bound \in BOOLEAN
  <2>1. now = 0 /\ edits = 0 /\ bound = TRUE
    BY DEF Init
  <2>2. MaxTime \in Nat /\ MaxEdits \in Nat
    BY PricingAssumption
  <2>3. QED
    BY <2>1, <2>2
<1>5. BillIsOfTheRoute
  BY DEF Init, BillIsOfTheRoute, NewRequest
<1>6. QED
  BY <1>2, <1>3, <1>4, <1>5 DEF IInv, TypeOK

(* A step of the operator or the clock keeps what the requests carry when  *)
(* it deletes nothing but overrides, and nothing a job refers to.          *)
LEMMA EditKeepsBills ==
    ASSUME IInv, UNCHANGED req,
           \A r \in Rows : Kind[r] # "override" /\ window[r].made => window'[r].made,
           \A q \in Requests : req[q].phase = "queued" /\ JobRefers(q) => JobRefers(q)'
    PROVE  BillIsOfTheRoute'
<1> SUFFICES ASSUME NEW q \in Requests
             PROVE  /\ req[q].phase \notin {"new", "rejected"} => Judged(q)'
                    /\ req[q].phase \in {"held", "answered", "queued", "settled", "unbilled"}
                          => Held(q)'
                    /\ req[q].phase \in {"answered", "queued", "settled"}
                          => req[q].usage \in Reported
                    /\ req[q].phase = "queued" => JobRefers(q)'
                    /\ req[q].phase = "settled" => Billed(q)'
  BY DEF BillIsOfTheRoute
<1>1. req[q].pins \in Pins
  BY DEF IInv, TypeOK, RequestRecords
<1>2. ASSUME Judged(q) PROVE Judged(q)'
  <2>1. ASSUME NEW k \in {"base", "multiplier", "recharge"}, req[q].pins[k] # None
        PROVE  window'[req[q].pins[k]].made
    <3>1. req[q].pins[k] \in Rows /\ Kind[req[q].pins[k]] # "override"
      BY <1>1, <2>1 DEF Pins, RowOf
    <3>2. window[req[q].pins[k]].made
      BY <1>2, <2>1 DEF Judged
    <3>3. QED
      BY <3>1, <3>2
  <2>2. QED
    BY <1>2, <2>1 DEF Judged, CostResolves, CostRates
<1>3. Held(q) => Held(q)'
  BY DEF Held, OutputBound
<1>4. Billed(q) => Billed(q)'
  BY DEF Billed
<1>5. QED
  BY <1>2, <1>3, <1>4 DEF IInv, BillIsOfTheRoute

LEMMA EditPreserves == IInv /\ Edit => IInv'
<1> SUFFICES ASSUME IInv, Edit PROVE IInv'
  OBVIOUS
<1>1. edits < MaxEdits /\ edits' = edits + 1 /\ UNCHANGED <<now, req>>
  BY DEF Edit, CreateRow, UpdateRow, Unbind, Bind
<1>2. now' \in 0..MaxTime /\ edits' \in 0..MaxEdits /\ req' \in [Requests -> RequestRecords]
  BY <1>1, PricingAssumption DEF IInv, TypeOK
<1> DEFINE WindowsOK ==
      /\ window' \in [Rows -> Windows \cup {NotMade, Deleted}]
      /\ bound' \in BOOLEAN
      /\ \A r \in Rows : Kind[r] # "override" /\ window[r].made => window'[r].made
      /\ \A q \in Requests : req[q].phase = "queued" /\ JobRefers(q) => JobRefers(q)'
<1>3. ASSUME NEW r \in Rows, NEW from \in 0..MaxTime, NEW to \in 1..Never,
             CreateRow(r, from, to)
      PROVE  WindowsOK
  <2>1. [made |-> TRUE, on |-> TRUE, from |-> from, to |-> to] \in Windows
    BY DEF Windows
  <2>2. /\ window' = [window EXCEPT ![r] = [made |-> TRUE, on |-> TRUE,
                                            from |-> from, to |-> to]]
        /\ bound' = bound /\ req' = req
    BY <1>3 DEF CreateRow
  <2>3. \A s \in Rows : window[s].made => window'[s].made
    BY <2>2 DEF IInv, TypeOK
  <2>4. \A q \in Requests : req[q].pins.override \in Rows \cup {None}
    BY DEF IInv, TypeOK, RequestRecords, Pins, RowOf
  <2>5. QED
    BY <2>1, <2>2, <2>3, <2>4 DEF IInv, TypeOK, JobRefers
<1>4. ASSUME NEW r \in Rows, NEW on \in BOOLEAN, NEW to \in 1..Never, UpdateRow(r, on, to)
      PROVE  WindowsOK
  <2>1. window[r].made /\ bound' = bound /\ req' = req
    BY <1>4 DEF UpdateRow
  <2>2. window[r] \in Windows
    BY <2>1 DEF IInv, TypeOK, NotMade, Deleted
  <2>3. window' = [window EXCEPT ![r] = [window[r] EXCEPT !.on = on, !.to = to]]
    BY <1>4, <2>2 DEF UpdateRow, IInv, TypeOK, Windows
  <2>4. [window[r] EXCEPT !.on = on, !.to = to] \in Windows
    BY <2>2 DEF Windows
  <2>5. [window[r] EXCEPT !.on = on, !.to = to].made
    BY <2>2 DEF Windows
  <2>6. window' \in [Rows -> Windows \cup {NotMade, Deleted}]
    BY <2>3, <2>4 DEF IInv, TypeOK
  <2>7. \A s \in Rows : window[s].made => window'[s].made
    BY <2>3, <2>5 DEF IInv, TypeOK
  <2>8. \A q \in Requests : req[q].pins.override \in Rows \cup {None}
    BY DEF IInv, TypeOK, RequestRecords, Pins, RowOf
  <2>9. QED
    BY <2>1, <2>6, <2>7, <2>8 DEF IInv, TypeOK, JobRefers
<1>5. ASSUME Unbind PROVE WindowsOK
  <2>1. window' = [r \in Rows |-> IF Kind[r] = "override" /\ window[r].made
                                  THEN Deleted ELSE window[r]]
    BY <1>5 DEF Unbind
  <2>2. \A q \in Requests : req[q].phase # "queued"
    BY <1>5 DEF Unbind, Referred
  <2>3. bound' \in BOOLEAN
    BY <1>5 DEF Unbind
  <2>4. QED
    BY <2>1, <2>2, <2>3 DEF IInv, TypeOK
<1>6. ASSUME Bind PROVE WindowsOK
  <2>1. bound' = TRUE /\ window' = window /\ req' = req
    BY <1>6 DEF Bind
  <2>2. QED
    BY <2>1 DEF IInv, TypeOK, JobRefers
<1>7. WindowsOK
  BY <1>3, <1>4, <1>5, <1>6 DEF Edit
<1>8. BillIsOfTheRoute'
  <2>1. req' = req
    BY <1>1
  <2>2. QED
    BY <1>7, <2>1, EditKeepsBills
<1>9. QED
  BY <1>2, <1>7, <1>8 DEF IInv, TypeOK

LEMMA TickPreserves == IInv /\ Tick => IInv'
<1> SUFFICES ASSUME IInv, Tick PROVE IInv'
  OBVIOUS
<1>1. /\ UNCHANGED <<edits, window, bound, req>>
      /\ now' \in 0..MaxTime
  BY PricingAssumption DEF Tick, IInv, TypeOK
<1>2. BillIsOfTheRoute'
  <2>1. \A q \in Requests : JobRefers(q) => JobRefers(q)'
    BY <1>1 DEF JobRefers
  <2>2. QED
    BY <1>1, <2>1, EditKeepsBills
<1>3. QED
  BY <1>1, <1>2 DEF IInv, TypeOK

(* A step of one request: it is enough to look at what that request        *)
(* carries afterwards.                                                     *)
Bill(m) ==
    /\ m.phase \notin {"new", "rejected"} =>
          /\ m.sale \in Prices /\ m.policy \in Policies /\ SoldAtCost(m.sale, m.judged)
          /\ CostResolves(m.pins) /\ m.judged = CostRates(m.pins)
          /\ \A k \in {"base", "multiplier", "recharge"} :
                m.pins[k] # None => window[m.pins[k]].made
    /\ m.phase \in {"held", "answered", "queued", "settled", "unbilled"} =>
          /\ m.asked \in Estimates
          /\ m.hold = Hold(m.sale, m.policy, m.asked.input, OutputBound(m.asked))
    /\ m.phase \in {"answered", "queued", "settled"} => m.usage \in Reported
    /\ m.phase = "queued" =>
          bound /\ (m.pins.override # None => window[m.pins.override].made)
    /\ m.phase = "settled" =>
          /\ m.rates = m.judged
          /\ m.charge = Charge(Priced(m.sale, m.policy, InputTokens(m.usage)), m.usage)
          /\ m.cost = Cost(Priced(m.judged, m.policy, InputTokens(m.usage)), m.usage)

LEMMA BillsAre == BillIsOfTheRoute <=> \A q \in Requests : Bill(req[q])
BY DEF BillIsOfTheRoute, Bill, Judged, Held, JobRefers, Billed

LEMMA RequestStep ==
    ASSUME IInv, UNCHANGED <<now, edits, window, bound>>, NEW q \in Requests,
           NEW m \in RequestRecords, Bill(m), req' = [req EXCEPT ![q] = m]
    PROVE  IInv'
<1>1. req' \in [Requests -> RequestRecords]
  BY DEF IInv, TypeOK
<1>2. \A p \in Requests : req'[p] = IF p = q THEN m ELSE req[p]
  BY DEF IInv, TypeOK
<1>3. \A p \in Requests : Bill(req'[p])
  BY <1>2, BillsAre DEF IInv
<1>4. BillIsOfTheRoute'
  <2>1. (\A p \in Requests : Bill(req[p]))'
    BY <1>3 DEF Bill, CostResolves, CostRates, OutputBound
  <2>2. QED
    BY <2>1 DEF BillIsOfTheRoute, Bill, Judged, Held, JobRefers, Billed
<1>5. QED
  BY <1>1, <1>4 DEF IInv, TypeOK

LEMMA RoutePreserves ==
    ASSUME IInv, NEW q \in Requests, NEW ratio \in RouteRatios, Route(q, ratio)
    PROVE  IInv'
<1> DEFINE base == ActiveRow("base", now)
           pins == PinsAt(now)
           sale == Scale(Rates[base], ratio)
           cost == CostRates(pins)
           yes  == [NewRequest EXCEPT !.phase = "routed", !.sale = sale, !.pins = pins,
                                      !.judged = cost, !.policy = Policy[base]]
           no   == [NewRequest EXCEPT !.phase = "rejected"]
           m    == IF SoldAtCost(sale, cost) THEN yes ELSE no
<1>1. base # None /\ CostResolves(pins) /\ req' = [req EXCEPT ![q] = m]
      /\ UNCHANGED <<now, edits, window, bound>>
  BY DEF Route
<1>2. base \in BaseRows
  BY <1>1, ActiveRowType DEF RowOf, BaseRows
<1>3. sale \in Prices /\ Policy[base] \in Policies /\ cost \in Prices /\ pins \in Pins
  BY <1>1, <1>2, PricingAssumption, ScaleType, CostRatesType, PinsAtType
<1>4. \A k \in {"base", "multiplier", "recharge"} : pins[k] # None => window[pins[k]].made
  BY PinsAtType
<1>5. NewRequest \in RequestRecords
  BY NewRequestType
<1> HIDE DEF base, pins, sale, cost
<1>6. yes \in RequestRecords /\ no \in RequestRecords
  BY <1>3, <1>5 DEF RequestRecords, Phases
<1>7. Bill(no)
  BY DEF Bill, NewRequest
<1>8. ASSUME SoldAtCost(sale, cost) PROVE Bill(yes)
  <2>1. /\ yes.phase = "routed" /\ yes.sale = sale /\ yes.pins = pins
        /\ yes.judged = cost /\ yes.policy = Policy[base]
    BY DEF NewRequest
  <2>2. cost = CostRates(pins)
    BY DEF cost
  <2> HIDE DEF yes
  <2>3. QED
    BY <1>1, <1>3, <1>4, <1>8, <2>1, <2>2 DEF Bill
<1>9. m \in RequestRecords /\ Bill(m)
  BY <1>6, <1>7, <1>8
<1> HIDE DEF m
<1>10. QED
  BY <1>1, <1>9, RequestStep

LEMMA AuthorizePreserves ==
    ASSUME IInv, NEW q \in Requests, NEW asked \in Estimates, Authorize(q, asked)
    PROVE  IInv'
<1> DEFINE held  == Hold(req[q].sale, req[q].policy, asked.input, OutputBound(asked))
           phase == IF held > 0 THEN "held" ELSE "refused"
           m     == [req[q] EXCEPT !.asked = asked, !.hold = held, !.phase = phase,
                                   !.started = now]
<1>1. /\ req[q] \in RequestRecords /\ req[q].phase = "routed" /\ Bill(req[q])
      /\ now \in 0..MaxTime
  BY BillsAre DEF Authorize, IInv, TypeOK
<1>2. held \in Nat
  <2>1. req[q].sale \in Prices /\ req[q].policy \in Policies
    BY <1>1 DEF Bill
  <2>2. [uncached |-> 0, cache |-> 0, output |-> 0, reasoning |-> 0] \in Usages
    BY DEF Usages
  <2>3. QED
    BY <2>1, <2>2, EstimateType, HoldCoversEitherTier
<1>3. req' = [req EXCEPT ![q] = m] /\ UNCHANGED <<now, edits, window, bound>>
  BY DEF Authorize, IInv, TypeOK
<1> HIDE DEF held
<1>4. m \in RequestRecords
  BY <1>1, <1>2 DEF RequestRecords, Phases
<1>5. /\ m.phase \in {"held", "refused"} /\ m.asked = asked /\ m.hold = held
      /\ m.sale = req[q].sale /\ m.policy = req[q].policy /\ m.judged = req[q].judged
      /\ m.pins = req[q].pins
  BY <1>1 DEF RequestRecords
<1> HIDE DEF m, phase
<1>6. Bill(m)
  BY <1>1, <1>5 DEF Bill, held
<1>7. QED
  BY <1>3, <1>4, <1>6, RequestStep

LEMMA AnswerPreserves ==
    ASSUME IInv, NEW q \in Requests, NEW usage \in Reported, Answer(q, usage)
    PROVE  IInv'
<1> DEFINE m == [req[q] EXCEPT !.phase = "answered", !.usage = usage]
<1>1. req[q] \in RequestRecords /\ req[q].phase = "held" /\ Bill(req[q])
  BY BillsAre DEF Answer, IInv, TypeOK
<1>2. req' = [req EXCEPT ![q] = m] /\ UNCHANGED <<now, edits, window, bound>>
  BY DEF Answer, IInv, TypeOK
<1>3. m \in RequestRecords
  BY <1>1 DEF RequestRecords, Phases
<1>4. /\ m.phase = "answered" /\ m.usage = usage /\ m.asked = req[q].asked
      /\ m.hold = req[q].hold /\ m.sale = req[q].sale /\ m.policy = req[q].policy
      /\ m.judged = req[q].judged /\ m.pins = req[q].pins
  BY <1>1 DEF RequestRecords
<1> HIDE DEF m
<1>5. Bill(m)
  BY <1>1, <1>4 DEF Bill
<1>6. QED
  BY <1>2, <1>3, <1>5, RequestStep

LEMMA CreateJobPreserves ==
    ASSUME IInv, NEW q \in Requests, CreateJob(q)
    PROVE  IInv'
<1> DEFINE there == bound /\ (req[q].pins.override # None =>
                                 window[req[q].pins.override].made)
           phase == IF there THEN "queued" ELSE "unbilled"
           m     == [req[q] EXCEPT !.phase = phase]
<1>1. req[q] \in RequestRecords /\ req[q].phase = "answered" /\ Bill(req[q])
  BY BillsAre DEF CreateJob, IInv, TypeOK
<1>2. req' = [req EXCEPT ![q] = m] /\ UNCHANGED <<now, edits, window, bound>>
  BY DEF CreateJob, IInv, TypeOK
<1>3. phase \in {"queued", "unbilled"} /\ (phase = "queued" => there)
  OBVIOUS
<1> HIDE DEF phase
<1>4. m \in RequestRecords
  BY <1>1, <1>3 DEF RequestRecords, Phases
<1>5. /\ m.phase = phase /\ m.usage = req[q].usage /\ m.asked = req[q].asked
      /\ m.hold = req[q].hold /\ m.sale = req[q].sale /\ m.policy = req[q].policy
      /\ m.judged = req[q].judged /\ m.pins = req[q].pins
  BY <1>1 DEF RequestRecords
<1> HIDE DEF m
<1>6. Bill(m)
  BY <1>1, <1>3, <1>5 DEF Bill
<1>7. QED
  BY <1>2, <1>4, <1>6, RequestStep

(* Settlement finds every row it pinned: the job kept the override, and no *)
(* other row is ever deleted.                                              *)
LEMMA SettlePreserves ==
    ASSUME IInv, NEW q \in Requests, Settle(q)
    PROVE  IInv'
<1> DEFINE u     == req[q].usage
           pins  == SettlementPins(q)
           rates == CostRates(pins)
           sale  == Priced(req[q].sale, req[q].policy, InputTokens(u))
           cost  == Priced(rates, req[q].policy, InputTokens(u))
           m     == [req[q] EXCEPT !.phase = "settled", !.charge = Charge(sale, u),
                                   !.rates = rates, !.cost = Cost(cost, u)]
<1>1. req[q] \in RequestRecords /\ req[q].phase = "queued" /\ Bill(req[q])
  BY BillsAre DEF Settle, IInv, TypeOK
<1>2. /\ req' = [req EXCEPT ![q] = m] /\ UNCHANGED <<now, edits, window, bound>>
      /\ CostResolves(pins)
  BY DEF Settle, IInv, TypeOK
<1>3. pins = req[q].pins
  <2>1. DOMAIN req[q].pins = {"override", "base", "multiplier", "recharge"}
    BY <1>1 DEF RequestRecords, Pins
  <2>2. Exists(req[q].pins)
    BY <1>1, <2>1 DEF Bill, Exists
  <2>3. QED
    BY <2>2 DEF SettlementPins
<1>4. rates = req[q].judged
  BY <1>1, <1>3 DEF Bill
<1>5. /\ req[q].sale \in Prices /\ req[q].policy \in Policies /\ u \in Usages
      /\ SoldAtCost(req[q].sale, req[q].judged)
  BY <1>1, PricingAssumption DEF Bill
<1>6. rates \in Prices
  BY <1>1, <1>2, <1>3, CostRatesType DEF RequestRecords
<1>7. InputTokens(u) \in Nat
  BY <1>5 DEF Usages, InputTokens
<1>8. Charge(sale, u) \in Nat /\ Cost(cost, u) \in Nat
  <2>1. sale \in Prices /\ cost \in Prices /\ SoldAtCost(sale, cost)
    BY <1>4, <1>5, <1>6, <1>7, PricedKeepsMargin
  <2> HIDE DEF sale, cost, u
  <2>2. QED
    BY <1>5, <2>1, CostWithinCharge
<1> HIDE DEF sale, cost, u, rates, pins
<1>9. m \in RequestRecords
  BY <1>1, <1>6, <1>8 DEF RequestRecords, Phases
<1>10. /\ m.phase = "settled" /\ m.usage = req[q].usage /\ m.asked = req[q].asked
       /\ m.hold = req[q].hold /\ m.sale = req[q].sale /\ m.policy = req[q].policy
       /\ m.judged = req[q].judged /\ m.pins = req[q].pins
       /\ m.charge = Charge(sale, u) /\ m.rates = rates /\ m.cost = Cost(cost, u)
  BY <1>1 DEF RequestRecords
<1> HIDE DEF m
<1>11. Bill(m)
  BY <1>1, <1>4, <1>10 DEF Bill, sale, cost, u
<1>12. QED
  BY <1>2, <1>9, <1>11, RequestStep

LEMMA StutterPreserves == IInv /\ UNCHANGED vars => IInv'
<1> SUFFICES ASSUME IInv, UNCHANGED vars PROVE IInv'
  OBVIOUS
<1>1. UNCHANGED <<now, edits, window, bound, req>>
  BY DEF vars
<1>2. BillIsOfTheRoute'
  <2>1. \A q \in Requests : JobRefers(q) => JobRefers(q)'
    BY <1>1 DEF JobRefers
  <2>2. QED
    BY <1>1, <2>1, EditKeepsBills
<1>3. QED
  BY <1>1, <1>2 DEF IInv, TypeOK

LEMMA NextPreserves == IInv /\ [Next]_vars => IInv'
<1> SUFFICES ASSUME IInv, [Next]_vars PROVE IInv'
  OBVIOUS
<1>1. CASE Edit
  BY <1>1, EditPreserves
<1>2. CASE Tick
  BY <1>2, TickPreserves
<1>3. ASSUME NEW q \in Requests, NEW ratio \in RouteRatios, Route(q, ratio)
      PROVE  IInv'
  BY <1>3, RoutePreserves
<1>4. ASSUME NEW q \in Requests, NEW asked \in Estimates, Authorize(q, asked)
      PROVE  IInv'
  BY <1>4, AuthorizePreserves
<1>5. ASSUME NEW q \in Requests, NEW usage \in Reported, Answer(q, usage)
      PROVE  IInv'
  BY <1>5, AnswerPreserves
<1>6. ASSUME NEW q \in Requests, CreateJob(q) PROVE IInv'
  BY <1>6, CreateJobPreserves
<1>7. ASSUME NEW q \in Requests, Settle(q) PROVE IInv'
  BY <1>7, SettlePreserves
<1>8. CASE UNCHANGED vars
  BY <1>8, StutterPreserves
<1>9. QED
  BY <1>1, <1>2, <1>3, <1>4, <1>5, <1>6, <1>7, <1>8 DEF Next

-----------------------------------------------------------------------------
(* The results *)

(* Every request carries the verdict, the estimate and the bill of the     *)
(* rows it was routed with (settlement.go settleChat).                     *)
THEOREM InvariantHolds == Spec => []IInv
<1>1. Init => IInv
  BY InitInvariant
<1>2. IInv /\ [Next]_vars => IInv'
  BY NextPreserves
<1>3. QED
  BY <1>1, <1>2, PTL DEF Spec

THEOREM BillIsOfTheRouteTheorem == Spec => []BillIsOfTheRoute
<1>1. IInv => BillIsOfTheRoute
  BY DEF IInv
<1>2. QED
  BY <1>1, InvariantHolds, PTL

(* A request is settled at the cost the margin guard judged. *)
THEOREM GuardedCostTheorem == Spec => []GuardedCostIsSettled
<1>1. IInv => GuardedCostIsSettled
  BY DEF IInv, BillIsOfTheRoute, GuardedCostIsSettled, Settled, Billed
<1>2. QED
  BY <1>1, InvariantHolds, PTL

(* No settled request costs more than two units above what it earns. *)
THEOREM MarginTheorem == Spec => []MarginHolds
<1>1. IInv => MarginHolds
  <2> SUFFICES ASSUME IInv, NEW q \in Requests, req[q].phase = "settled"
               PROVE  req[q].cost <= req[q].charge + 2
    BY DEF MarginHolds, Settled
  <2> DEFINE u    == req[q].usage
             sale == Priced(req[q].sale, req[q].policy, InputTokens(u))
             cost == Priced(req[q].judged, req[q].policy, InputTokens(u))
  <2>1. Judged(q) /\ Billed(q) /\ u \in Usages
    BY PricingAssumption DEF IInv, BillIsOfTheRoute
  <2>2. req[q].judged \in Prices
    BY <2>1, CostRatesType DEF Judged, IInv, TypeOK, RequestRecords
  <2>3. InputTokens(u) \in Nat
    BY <2>1 DEF Usages, InputTokens
  <2>4. sale \in Prices /\ cost \in Prices /\ SoldAtCost(sale, cost)
    BY <2>1, <2>2, <2>3, PricedKeepsMargin DEF Judged
  <2>5. req[q].charge = Charge(sale, u) /\ req[q].cost = Cost(cost, u)
    BY <2>1 DEF Billed
  <2> HIDE DEF sale, cost, u
  <2>6. QED
    BY <2>1, <2>4, <2>5, CostWithinCharge
<1>2. QED
  BY <1>1, InvariantHolds, PTL

(* A usage within the estimate is charged at most what is held for it. *)
THEOREM HoldTheorem == Spec => []HoldCoversCharge
<1>1. IInv => HoldCoversCharge
  <2> SUFFICES ASSUME IInv, NEW q \in Requests, req[q].phase = "settled", WithinEstimate(q)
               PROVE  req[q].charge <= req[q].hold
    BY DEF HoldCoversCharge, Settled
  <2>1. Judged(q) /\ Held(q) /\ Billed(q) /\ req[q].usage \in Usages
    BY PricingAssumption DEF IInv, BillIsOfTheRoute
  <2>2. req[q].asked.input \in Nat /\ OutputBound(req[q].asked) \in Nat
    BY <2>1, EstimateType DEF Held
  <2>3. QED
    BY <2>1, <2>2, HoldCoversEitherTier DEF Judged, Held, Billed, WithinEstimate
<1>2. QED
  BY <1>1, InvariantHolds, PTL

-----------------------------------------------------------------------------
(* The windows of one kind.                                                *)

\* Two rows of a kind are never enabled for the same time, in force or not yet:
\* what has to hold before the clock gets there.
WindowsApart ==
    \A r, s \in Rows :
        /\ r # s /\ Kind[r] = Kind[s]
        /\ window[r].made /\ window[r].on /\ window[s].made /\ window[s].on
        => window[r].to <= window[s].from \/ window[s].to <= window[r].from

LEMMA EditKeepsApart ==
    ASSUME TypeOK, WindowsApart, Edit
    PROVE  WindowsApart'
<1>1. ASSUME NEW r \in Rows, NEW from \in 0..MaxTime, NEW to \in 1..Never, CreateRow(r, from, to)
      PROVE  WindowsApart'
  <2> DEFINE w == [made |-> TRUE, on |-> TRUE, from |-> from, to |-> to]
  <2>1. Free(r, from, to) /\ window'[r] = w /\ \A s \in Rows \ {r} : window'[s] = window[s]
    BY <1>1 DEF CreateRow, TypeOK
  <2>2. w.from = from /\ w.to = to
    OBVIOUS
  <2> HIDE DEF w
  <2> QED BY <2>1, <2>2 DEF WindowsApart, Free
<1>2. ASSUME NEW r \in Rows, NEW on \in BOOLEAN, NEW to \in 1..Never, UpdateRow(r, on, to)
      PROVE  WindowsApart'
  <2> DEFINE w == [window[r] EXCEPT !.on = on, !.to = to]
  <2>1. /\ window[r].made /\ (on => Free(r, window[r].from, to))
        /\ window'[r] = w /\ \A s \in Rows \ {r} : window'[s] = window[s]
    BY <1>2 DEF UpdateRow, TypeOK
  <2>2. window[r] \in Windows
    BY <2>1 DEF TypeOK, NotMade, Deleted
  <2>3. w.from = window[r].from /\ w.to = to /\ (w.on <=> on)
    BY <2>2 DEF Windows
  <2> HIDE DEF w
  <2> QED BY <2>1, <2>3 DEF WindowsApart, Free
<1>3. CASE Unbind
  <2>1. \A r \in Rows : window'[r] = window[r] \/ window'[r] = Deleted
    BY <1>3 DEF Unbind
  <2> QED BY <2>1 DEF WindowsApart, Deleted
<1>4. CASE Bind
  BY <1>4 DEF Bind, WindowsApart
<1> QED BY <1>1, <1>2, <1>3, <1>4 DEF Edit

\* A price never depends on the order in which rows are read: the overlap check of
\* creating and of changing a window keeps the windows of a kind apart.
THEOREM OnePriceTheorem == Spec => []OnePriceAtATime
<1>1. Init => WindowsApart
  BY PricingAssumption DEF Init, WindowsApart, NotMade
<1>2. TypeOK /\ WindowsApart /\ [Next]_vars => WindowsApart'
  <2> SUFFICES ASSUME TypeOK, WindowsApart, [Next]_vars PROVE WindowsApart'
    OBVIOUS
  <2>1. CASE Edit
    BY <2>1, EditKeepsApart
  <2>2. CASE UNCHANGED window
    BY <2>2 DEF WindowsApart
  <2> QED BY <2>1, <2>2 DEF Next, vars, Tick, Route, Authorize, Answer, CreateJob, Settle
<1>3. TypeOK /\ WindowsApart => OnePriceAtATime
  <2> SUFFICES ASSUME TypeOK, WindowsApart, NEW t \in 0..MaxTime, NEW r \in Rows, NEW s \in Rows,
                      Kind[r] = Kind[s], InForce(r, t), InForce(s, t), r # s
               PROVE  FALSE
    BY DEF OnePriceAtATime
  <2>1. window[r] \in Windows /\ window[s] \in Windows
    BY DEF InForce, TypeOK, NotMade, Deleted
  <2>2. MaxTime \in Nat /\ t \in Int
    BY PricingAssumption
  <2>3. ASSUME NEW v \in Windows PROVE v.from \in Int /\ v.to \in Int
    BY <2>2 DEF Windows, Never
  <2>4. window[r].from <= t /\ t < window[r].to /\ window[s].from <= t /\ t < window[s].to
    BY DEF InForce
  <2>5. window[r].to <= window[s].from \/ window[s].to <= window[r].from
    BY DEF WindowsApart, InForce
  <2> QED BY <2>1, <2>2, <2>3, <2>4, <2>5
<1>4. IInv => TypeOK
  BY DEF IInv
<1> QED BY <1>1, <1>2, <1>3, <1>4, InvariantHolds, PTL DEF Spec

=============================================================================
