SPECIFICATION FairSpec
CONSTANTS
    Attempts = {a1}
    Workers = {w1}
    MaxAttempts = 2
    NoAttempt = NoAttempt
    NoWorker = NoWorker
PROPERTIES
    RecordedSettlementEnds
    HoldsComeBack
CHECK_DEADLOCK FALSE
