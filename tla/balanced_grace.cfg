SPECIFICATION Spec
CONSTANTS
    Hashes = {h1, h2}
    NoHash = NoHash
CHECK_DEADLOCK FALSE
INVARIANT
    GoroutinesFinish
