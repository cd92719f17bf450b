SPECIFICATION Spec
CONSTANTS
    Jobs = {j1, j2}
    Workers = {w1, w2}
    Buffer = 1
    MaxRetries = 1
    NoItem = NoItem
INVARIANT
    RecordShowsOutcome
CHECK_DEADLOCK FALSE
