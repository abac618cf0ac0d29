SPECIFICATION ProcessSpec
CONSTANTS
    CallTimeout = 2
    IntBits = 3
    Fallback = 2
    MaxEnv = 9
    MaxDeferred = 8
    Keys = {"X-Trace-Id", "Content-Type"}
    MaxBodyLogged = 2
    MaxLength = 3
    Limits = {0, 2, 3}
CHECK_DEADLOCK FALSE
INVARIANTS
    ContextsBounded
    ExitExplained
    LostOnlyAfterSignal
    
    OutcomeTrue
PROPERTIES
    Stops
    Ends
