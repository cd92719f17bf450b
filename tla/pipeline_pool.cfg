SPECIFICATION Spec
CONSTANTS
    c1 = c1
    c2 = c2
    c3 = c3
    c4 = c4
    w1 = w1
    w2 = w2
    None = None
    NoMention = NoMention
    NoObject = NoObject
    Commits <- MergeCommits
    Parents <- MergeParents
    Ancestors <- MergeAncestors
    Date <- MergeDate
    OwnTrailer <- QuotingMerge
    Branches = {main, side}
    Workers = {w1, w2}
    AutoCreate = TRUE
    ForcePush = TRUE
    MaxRetries = 0
    MaxJobs = 2
    MaxFaults = 1
    MaxRestarts = 1
    MaxEras = 1
VIEW TreelessView
SYMMETRY PoolSymmetry
INVARIANTS
    AncestorsMirrored
    SucceededIsBackedUp
    PublishedClosed
PROPERTIES
    ImplementsBackupHistory
    SuccessIsMirrored
    PublishedOnlyGrows
CHECK_DEADLOCK FALSE
