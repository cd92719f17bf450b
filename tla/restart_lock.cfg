SPECIFICATION Spec
CONSTANTS
    c1 = c1
    c2 = c2
    c3 = c3
    c4 = c4
    w1 = w1
    w2 = w2
    None = None
    NoMention = NoMention
    NoObject = NoObject
    Commits <- ChainCommits
    Parents <- ChainParents
    Ancestors <- ChainAncestors
    Date <- ChainDate
    OwnTrailer <- PlainChain
    Branches = {main}
    Workers = {w1}
    AutoCreate = TRUE
    ForcePush = FALSE
    MaxRetries = 1
    MaxJobs = 2
    MaxFaults = 0
    MaxRestarts = 1
    MaxEras = 0
INVARIANT
    RestartIsHarmless
CHECK_DEADLOCK FALSE
