SPECIFICATION LogSpec
CONSTANTS
    MaxSample = 2
    Names <- MCNames
    Index <- MCIndex
    Documents <- MCDocuments
    Threads = {t1, t2}
    MaxRecords = 2
    Author = t1
    Followed <- MCFollowed
CHECK_DEADLOCK FALSE
INVARIANTS
    FlattenExact
    LinesAgree
    NoQuietLoss
    LateOnlyIfNoted
PROPERTY SendersEnd
