SPECIFICATION SuiteSpec
CONSTANTS
    Null = Null
    None = None
    base1 = base1
    base2 = base2
    over1 = over1
    over2 = over2
    mult1 = mult1
    mult2 = mult2
    charge1 = charge1
    Rows <- MCRows
    Kind <- MCKind
    Rates <- MCRates
    Factor <- MCFactor
    Policy <- MCPolicy
    Initial = {base1, mult1}
    q1 = q1
    Requests = {q1}
    RouteRatios <- MCRatios
    Estimates <- MCEstimates
    Reported <- MCReported
    MaxOutputFallback = 1
    MaxTime = 1
    MaxEdits = 3
    t1 = t1
    t2 = t2
    t3 = t3
INVARIANT GuardedCostIsSettled
INVARIANT MarginHolds
INVARIANT HoldCoversCharge
INVARIANT OnePriceAtATime
INVARIANT ProviderLedgerIsWhole
SYMMETRY Symmetry
CHECK_DEADLOCK FALSE
