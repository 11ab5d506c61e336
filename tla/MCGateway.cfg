SPECIFICATION SuiteSpec
CONSTANTS
    t1 = t1
    t2 = t2
    c1 = c1
    c2 = c2
    none = none
    norev = norev
    Requests = {t1, t2}
    Channels = {c1, c2}
    NoChannel = NoChannel
    Versions = {1, 2, 3}
    TTL = 2
    MaxFaults = 1
    Limit <- OneEach
    Policies <- TheOther
    MaxTurns = 0
INVARIANT PermitsAreCalls
INVARIANT TokensAreCounted
PROPERTY AdmissionIsExact
PROPERTY BindingsAreCurrent
PROPERTY StandingIsEarned
SYMMETRY Symmetry
CHECK_DEADLOCK FALSE
