\* The source Backup of a seeded Instance may be created after the Instance.
SPECIFICATION Spec
CONSTANTS
    NoTime = NoTime
    NoSource = NoSource
    Storage = s1
    Names = {seed}
    Seed = seed
    Sources = {b1}
    Instances = {i1, i2}
    Target = i1
    MaxUID = 1
    MaxRestarts = 0
    MaxFlaps = 1
    StaleReads = FALSE
    SourcesMayCome = TRUE
    SourcesMayGo = FALSE
    SourceSecretMayGo = FALSE
    MayDelete = FALSE
CHECK_DEADLOCK FALSE
INVARIANT SeededClusterAuthenticates
