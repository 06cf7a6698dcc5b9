CONSTANTS
    o1 = o1
    o2 = o2
    Ops = {o1, o2}
    Edits = {e1}
    Policies <- ManyPolicies
    Class <- BothPaid
    MaxAttempts = 2
    MaxCalls = 2
    Serial = TRUE
    Crashes = FALSE
    NoPolicy = NoPolicy
    NoLimit = NoLimit
SPECIFICATION LiveSpec
INVARIANTS
    Accounted
PROPERTIES
    SpendWithinLimit
    ResponseRecorded
CHECK_DEADLOCK FALSE
