SPECIFICATION Spec
CONSTANTS
    r2 = r2
    k1 = k1
    Accounts = {a1, a2}
    Requests = {r1, r2}
    AuthKeys = {x1, x2}
    AdjustKeys <- MCAdjustKeys
    Amts = {1, 3}
    Callers = {c1, c2}
    NoAccount = NoAccount
    NoRequest = NoRequest
    NoKey = NoKey
SYMMETRY Symmetry
CHECK_DEADLOCK FALSE
INVARIANTS
    TypeOK
    ReservedIsHeld
    HoldsAreFunded
    BalanceIsExplained
    ChargeIsSplit
    PaidIffCaptured
PROPERTY
    FactsAreFinal
