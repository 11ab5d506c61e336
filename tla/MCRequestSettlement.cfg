SPECIFICATION Spec
CONSTANTS
    Attempts = {a1, a2}
    Workers = {w1}
    MaxAttempts = 2
    NoAttempt = NoAttempt
    NoWorker = NoWorker
SYMMETRY Symmetry
INVARIANTS
    TypeOK
    SettlementIsWhole
    SweptHoldHasNoJob
    SweptRequestIsQuiet
    
PROPERTIES
    TerminalRowsAreFinal
CHECK_DEADLOCK FALSE
