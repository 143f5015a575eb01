\* Legs that split their files, which open them late.
\* Deadlock is not an error: the node may have quit, or every session id been used.
CONSTANTS
    Sources = {r1}
    Sessions = {s1, s2}
    Paths = {p1}
    Split = {p1}
    Brief = {}
    NoSource = NoSource
    NoSession = NoSession
    MaxMonitors = 1
    MaxLegs = 2
    MaxCrashes = 0
    MaxQuits = 0
    MaxDbErrors = 0
    MaxEdits = 0
SPECIFICATION SafetySpec
PROPERTY FilesKept
CHECK_DEADLOCK FALSE
