\* Restores from two Backups that may come late; Restores are deleted and
\* their name is used again.
SPECIFICATION RestoreFairSpec
CONSTANTS
    NoTime = NoTime
    NoSource = NoSource
    Storage = s1
    Names = {r1}
    Sources = {b1, b2}
    Instances = {i1}
    MaxUID = 2
    MaxRestarts = 1
    StaleReads = FALSE
    SourcesMayCome = TRUE
    SourcesMayGo = FALSE
    MayDelete = TRUE
CHECK_DEADLOCK FALSE
INVARIANTS RestoreTypeOK SucceededRestoreWasApplied
PROPERTIES OpRestoreIsPinned OutcomeIsReported RestoreIsOneShot
