SPECIFICATION Spec
CONSTANTS
    c1 = c1
    c2 = c2
    c3 = c3
    c4 = c4
    w1 = w1
    w2 = w2
    None = None
    NoMention = NoMention
    NoObject = NoObject
    Commits <- MergeCommits
    Parents <- MergeParents
    Ancestors <- MergeAncestors
    Date <- MergeDate
    OwnTrailer <- PlainMerge
    Branches = {main, side}
    Workers = {w1}
    AutoCreate = TRUE
    ForcePush = FALSE
    MaxRetries = 0
    MaxJobs = 3
    MaxFaults = 0
    MaxRestarts = 0
    MaxEras = 0
INVARIANT
    ExactlyOnce
CHECK_DEADLOCK FALSE
