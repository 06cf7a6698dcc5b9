SPECIFICATION LiveSpec
CONSTANTS
    c1 = c1
    c2 = c2
    Conns = {c1, c2}
    i1 = i1
    Ids = {i1}
    MaxRequests = 3
    MaxFaults = 1
    None = None
INVARIANTS
    SingletonRuntime
    OperationsAreServed
    DisposedOnce
    EventsReachAttached
PROPERTIES
    NoneKeptForever
    CloseReleasesAll
    RequestsAnswered
CHECK_DEADLOCK FALSE
