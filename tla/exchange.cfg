SPECIFICATION Spec
CONSTANTS
    MaxBodyLogged = 2
    MaxLength = 4
CHECK_DEADLOCK FALSE
INVARIANTS
    StatusAgrees
    BodyAccounted
    BlankSuccess
    RefusedOnlyIfLong
