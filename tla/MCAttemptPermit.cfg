SPECIFICATION SpecAfterFailures
CONSTANTS
    NoPermit = NoPermit
    OpenDurations <- OneDuration
    ConsecutiveFailures = 1
    MinRequests = 2
    RatioNum = 1
    RatioDen = 2
    HalfOpenSuccesses = 2
    Permits = {p1, p2}
    Channels = {c1}
    Models = {m1}
    ChannelLimit = 1
    PermitTTL = 1
    CooldownTicks = {}
    EvidenceLimit = 2
    TerminalTries = 2
    Lapses = {FALSE}
    MaxConfig = 2
    MaxFences = 2
    MaxResets = 1
    MaxLosses = 1
CONSTRAINT OneDisturbance
SYMMETRY PermitSymmetry
INVARIANT PermitsAreLeased
INVARIANT OutcomesCountOnce
PROPERTY ChannelsAreLeasePools
