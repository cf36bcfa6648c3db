\* On-demand Backups while the informer cache lags behind the API server.
SPECIFICATION FairSpec
CONSTANTS
    NoStorage = NoStorage
    Names = {b1}
    CronNames = {}
    Storages = {s1}
    MaxUID = 2
    MaxPolicyChanges = 1
    MaxDirectDeletes = 0
    MaxRestarts = 1
    StaleReads = TRUE
CHECK_DEADLOCK FALSE
INVARIANT VerdictIsReal
PROPERTIES BackupEnds DeletionEnds
