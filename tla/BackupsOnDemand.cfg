\* On-demand Backups: one name used twice, one interruption, one
\* operator backup deleted behind the provider's back, fixed policies.
SPECIFICATION FairSpec
CONSTANTS
    NoStorage = NoStorage
    Names = {b1}
    CronNames = {}
    Storages = {s1}
    MaxUID = 2
    MaxPolicyChanges = 0
    MaxDirectDeletes = 1
    MaxRestarts = 1
    StaleReads = FALSE
CHECK_DEADLOCK FALSE
INVARIANTS TypeOK NoOrphan DeletedDataIsPurged
PROPERTY BackupIsOneShot
