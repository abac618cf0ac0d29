SPECIFICATION Spec
CONSTANTS
    MaxBodyLogged = 2
    MaxLength = 4
CHECK_DEADLOCK FALSE
INVARIANT
    StatusCaptured
