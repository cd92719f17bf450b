SPECIFICATION Spec
CONSTANTS
    c1 = c1
    c2 = c2
    c3 = c3
    c4 = c4
    w1 = w1
    w2 = w2
    None = None
    NoMention = NoMention
    NoObject = NoObject
    Commits <- ChainCommits
    Parents <- ChainParents
    Ancestors <- ChainAncestors
    Date <- ChainDate
    OwnTrailer <- StrayChain
    Branches = {main}
    Workers = {w1}
    AutoCreate = TRUE
    ForcePush = FALSE
    MaxRetries = 1
    MaxJobs = 3
    MaxFaults = 2
    MaxRestarts = 2
    MaxEras = 0
INVARIANTS
    TypeOK
    FaithfulTrees
    SucceededIsRestorable
    ExactlyOnce
    RemotesArePrefixes
    NoSpuriousFailure
PROPERTIES
    
    ImplementsJobPool
CHECK_DEADLOCK FALSE
