SPECIFICATION FairSpec
CONSTANT
    Requests = {r1, r2, r3}
CHECK_DEADLOCK FALSE
INVARIANTS
    ProperExit
    NoKillInProduction
    ExitCodes
PROPERTY
    Stops
