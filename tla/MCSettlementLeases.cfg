SPECIFICATION Spec
CONSTANTS
    Attempts = {a1}
    Workers = {w1, w2}
    MaxAttempts = 3
    NoAttempt = NoAttempt
    NoWorker = NoWorker
SYMMETRY Symmetry
INVARIANTS
    SucceededJobIsSettled
    NeverExposedAndCharged
PROPERTIES
    LeaseIsRespected
CHECK_DEADLOCK FALSE
