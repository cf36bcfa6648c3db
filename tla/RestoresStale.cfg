\* Restores and sources are deleted while the informer cache lags behind.
SPECIFICATION RestoreHandlerSpec
CONSTANTS
    NoTime = NoTime
    NoSource = NoSource
    Storage = s1
    Names = {r1}
    Sources = {b1}
    Instances = {i1}
    MaxUID = 2
    MaxRestarts = 1
    StaleReads = TRUE
    SourcesMayCome = FALSE
    SourcesMayGo = TRUE
    MayDelete = TRUE
CHECK_DEADLOCK FALSE
INVARIANTS SucceededRestoreWasApplied AppliedAtMostOnce

PROPERTY RestoreDeletionEnds
