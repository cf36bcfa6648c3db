\* The source Backup may be deleted while the restore runs.
SPECIFICATION RestoreFairSpec
CONSTANTS
    NoTime = NoTime
    NoSource = NoSource
    Storage = s1
    Names = {r1}
    Sources = {b1}
    Instances = {i1}
    MaxUID = 1
    MaxRestarts = 0
    StaleReads = FALSE
    SourcesMayCome = FALSE
    SourcesMayGo = TRUE
    MayDelete = FALSE
CHECK_DEADLOCK FALSE
PROPERTY OutcomeIsReported
