SPECIFICATION Spec
CONSTANTS
    Requests = {r1, r2, r3}
    Ids = {i1, i2}
    Products <- GoodSeed
    Half <- MCHalf
    Seed <- GoodSeed
    Absent = Absent
    NoId = NoId
    BadId = BadId
SYMMETRY RequestsAndIds
CHECK_DEADLOCK FALSE
INVARIANTS
    TypeOK
    AckedCreateDurable
    SuccessIsFinal
    CompleteListing
PROPERTY
    NoResurrection
