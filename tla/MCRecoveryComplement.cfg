SPECIFICATION Spec
CONSTANTS
    Attempts = {a1}
    Workers = {w1}
    MaxAttempts = 1
    NoAttempt = NoAttempt
    NoWorker = NoWorker
SYMMETRY Symmetry
INVARIANTS
    RecoveryOwnsItsHolds
CHECK_DEADLOCK FALSE
