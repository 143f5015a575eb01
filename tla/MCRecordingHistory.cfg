\* Rows, files and deletions: a path that is freed and taken again.
\* Deadlock is not an error: the node may have quit, or every session id been used.
CONSTANTS
    Sources = {r1}
    Sessions = {s1, s2}
    Paths = {p1}
    Split = {}
    Brief = {p1}
    NoSource = NoSource
    NoSession = NoSession
    MaxMonitors = 1
    MaxLegs = 2
    MaxCrashes = 1
    MaxQuits = 0
    MaxDbErrors = 0
    MaxEdits = 2
SPECIFICATION SafetySpec
SYMMETRY Symmetry
INVARIANT HistoryListsFiles
PROPERTIES
    FinalRowStays
    FilesKept
CHECK_DEADLOCK FALSE
