SPECIFICATION FairSpec
CONSTANTS
    Requests = {r1, r2}
    Ids = {i1, i2}
    Products <- AllKinds
    Half <- MCHalf
    Seed <- GoodSeed
    Absent = Absent
    NoId = NoId
    BadId = BadId
CHECK_DEADLOCK FALSE
INVARIANTS
    InvalidOnlyByUpdate
    NegativeStockOrigin
    BlankBodyOrigin
PROPERTIES
    ImplementsStore
    
