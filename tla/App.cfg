CONSTANTS
    MaxAttempts = 2
    AttemptLimit = 1
    Ids = {i1, i2}
    NoId = NoId
    NoSnapshot = NoSnapshot
    NoLoad = NoLoad
    Budgets <- AppBudgets
SPECIFICATION FairSpec
CHECK_DEADLOCK FALSE
INVARIANTS TypeOK OperationIsAlive
PROPERTIES ReloadNeverGoesBack MaintenanceEnds InterruptionIsFollowed ButtonsReturn AutoResumesEnd ViewCatchesUp
