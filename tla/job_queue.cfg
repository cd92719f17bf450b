SPECIFICATION FairSpec
CONSTANTS
    Jobs = {j1, j2}
    Workers = {w1, w2}
    Buffer = 1
    MaxRetries = 2
    NoItem = NoItem
INVARIANTS
    TypeOK
    OnePlace
    NotLost
    RunsBounded
    FinalRecordIsFinal
    LiveJobHasRecord
PROPERTIES
    JobsEnd
    StopReturns
    ImplementsJobPool
    JobsEndOnce
CHECK_DEADLOCK FALSE
