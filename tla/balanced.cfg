SPECIFICATION FairSpec
CONSTANTS
    Hashes = {h1, h2}
    NoHash = NoHash
CHECK_DEADLOCK FALSE
INVARIANTS
    NoLostNotification
    ForcedByThree
    OneConnection
PROPERTY
    Delivered
