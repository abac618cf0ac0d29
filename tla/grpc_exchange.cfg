SPECIFICATION Spec
CONSTANTS
    Rpcs = {r1, r2}
    Servers = {s1, s2}
CHECK_DEADLOCK FALSE
INVARIANTS
    RecordsAgree
    ServerRecordTrue
PROPERTY RpcEnds
