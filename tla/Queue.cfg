CONSTANTS
    Jobs = {j1, j2, j3}
    Keys = {k1, k2, k3}
    MaxConcurrent = 2
    Barrier = Barrier
    None = None
SPECIFICATION LiveSpec
INVARIANTS
    Serialised
    PermitsConserved
    DrainComplete
PROPERTIES
    JobsSettle
CHECK_DEADLOCK FALSE
