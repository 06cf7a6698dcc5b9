CONSTANTS
    o1 = o1
    o2 = o2
    Ops = {o1}
    Edits = {e1, e2}
    Policies <- ThreePolicies
    Class <- Free
    MaxAttempts = 2
    MaxCalls = 2
    Serial = FALSE
    Crashes = TRUE
    NoPolicy = NoPolicy
    NoLimit = NoLimit
SPECIFICATION Spec
INVARIANTS
    OneRecordedRequest
PROPERTIES
    EgressAuthorised
    PolicyReplacedAsShown
CHECK_DEADLOCK FALSE
