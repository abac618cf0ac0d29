SPECIFICATION Spec
CONSTANT
    Requests = {r1, r2}
CHECK_DEADLOCK FALSE
INVARIANT
    GracefulExit
