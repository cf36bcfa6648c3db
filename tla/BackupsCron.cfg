\* Scheduled operator backups, mirrored as Backups.
SPECIFICATION FairSpec
CONSTANTS
    NoStorage = NoStorage
    Names = {b1}
    CronNames = {b1}
    Storages = {s1}
    MaxUID = 1
    MaxPolicyChanges = 2
    MaxDirectDeletes = 0
    MaxRestarts = 1
    StaleReads = FALSE
CHECK_DEADLOCK FALSE
INVARIANT RetainedDataIsKept
PROPERTIES BackupEnds DeletionEnds
