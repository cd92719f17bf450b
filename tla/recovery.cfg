SPECIFICATION Spec
CONSTANTS
    x1 = x1
    x2 = x2
    y1 = y1
    y2 = y2
    link = link
    early = early
    k1 = k1
    k2 = k2
    None = None
    Directory = Directory
    Walk <- PathOrder
    ArchiveOrder <- GitOrder
    Contents = {x1, x2, y1, y2}
    Links = {link, early}
    Target <- Targets
    Histories <- FiveHistories
    Commits <- ThreeCommits
    Unexported <- LinkUnexported
    Archived <- SecondConvertsA
    Ignored <- SomeIgnored
    BadIgnore <- LongLine
    Unextractable = {}
    DotEnding <- DNames
    TooLong <- LNames
    Named <- Replaced
    Keys = {k1, k2}
    Lists <- ThreeLists
    MaxEvents = 2
VIEW IndexlessView
INVARIANTS
    TypeOK
    RestoreGivesArchivedTree
    EveryRecipientCanRestore
    RefusedForItsTree
    RotationIsReported
CHECK_DEADLOCK FALSE
