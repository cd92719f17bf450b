SPECIFICATION Spec
CONSTANTS
    x1 = x1
    x2 = x2
    y1 = y1
    y2 = y2
    link = link
    early = early
    k1 = k1
    k2 = k2
    None = None
    Directory = Directory
    Walk <- PathOrder
    ArchiveOrder <- GitOrder
    Contents = {x1, x2, y1, y2}
    Links = {link, early}
    Target <- Targets
    Histories <- PlainHistory
    Commits <- TwoCommits
    Unexported <- Nothing
    Archived <- Unconverted
    Ignored <- Nothing
    BadIgnore = {}
    Unextractable = {}
    DotEnding = {}
    TooLong = {}
    Named <- Replaced
    Keys = {k1, k2}
    Lists <- OneKeyLists
    MaxEvents = 0
INVARIANT
    CurrentStateIsATree
CHECK_DEADLOCK FALSE
