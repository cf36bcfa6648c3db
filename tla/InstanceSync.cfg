\* One Instance: seeded from a Backup or a point in time, or not at all and then
\* restored in place.
SPECIFICATION FairSpec
CONSTANTS
    NoTime = NoTime
    NoSource = NoSource
    Storage = s1
    Names = {r1}
    Seed = r1
    Sources = {b1}
    Instances = {i1, i2}
    Target = i1
    MaxUID = 1
    MaxRestarts = 1
    MaxFlaps = 1
    StaleReads = FALSE
    SourcesMayCome = FALSE
    SourcesMayGo = FALSE
    SourceSecretMayGo = TRUE
    MayDelete = FALSE
CHECK_DEADLOCK FALSE
INVARIANTS TypeOK SeededClusterAuthenticates SeedIsNotPremature OneStrayApplyAtMost RunningRestoreIsActive ReadyIsCorrected
PROPERTY ReadyInTheEnd
