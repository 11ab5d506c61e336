SPECIFICATION SuiteSpec
CONSTANTS
    t1 = t1
    t2 = t2
    r1 = r1
    none = none
    foreign = foreign
    va = va
    vb = vb
    Ops = {t1, t2}
    NoOp = NoOp
    Reconcilers = {r1}
    StartUps = {}
    MaxFaults = 2
INVARIANT NeverAheadOfDatabase
PROPERTY FollowsDatabase
PROPERTY OperationsAreTruthful
PROPERTY ReadinessIsEarned
PROPERTY SettingsAreAsAsked
PROPERTY PausesAreRechecked
PROPERTY InventoriesAreFresh
SYMMETRY Symmetry
CHECK_DEADLOCK FALSE
