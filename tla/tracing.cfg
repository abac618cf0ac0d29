SPECIFICATION Spec
CONSTANTS
    Requests = {r1}
    MaxQueue = 2
CHECK_DEADLOCK FALSE
INVARIANTS
    OneTrace
    TraceIdAnswered
    TornAtDoOnly
