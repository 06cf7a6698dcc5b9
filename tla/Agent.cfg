SPECIFICATION LiveSpec
CONSTANTS
    Prompts = {p1, p2}
    MaxQueued <- SomeMessages
    MaxToolCalls = 2
    MaxRetries = 1
    Mode <- OneAtATime
    ToolExecution = "parallel"
    None = None
CONSTRAINT SmallBatches
INVARIANTS
    InOrder
    NothingLost
    OneSteeringMessage
    ResultsBeforeRequest
    SequentialAlone
    IdleIsIdle
PROPERTIES
    SteeringIsTaken
    AbortEnds
CHECK_DEADLOCK FALSE
