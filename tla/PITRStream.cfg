\* Distinct completion times; a marked backup is removed after the older ones.
SPECIFICATION Spec
CONSTANTS
    NoTime = NoTime
    Instance = inst
    Names = {b1, b2, b3}
    Storages = {s1, s2}
    PITRStorages = {s1}
    MaxTime = 2
    SameSecond = FALSE
    MarkedMayGo = FALSE
SYMMETRY NameSymmetry
CHECK_DEADLOCK FALSE
INVARIANT TypeOK
PROPERTY PublishedWindowSpansNoGap
 
