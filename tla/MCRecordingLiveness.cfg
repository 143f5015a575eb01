\* One recording, by a leg that splits its files, and all that can happen to it.
\* Deadlock is not an error: the node may have quit, or every session id been used.
CONSTANTS
    Sources = {r1}
    Sessions = {s1}
    Paths = {p1}
    Split = {p1}
    Brief = {}
    NoSource = NoSource
    NoSession = NoSession
    MaxMonitors = 2
    MaxLegs = 2
    MaxCrashes = 0
    MaxQuits = 1
    MaxDbErrors = 0
    MaxEdits = 1
SPECIFICATION Spec
PROPERTIES
    FailedSourceEnds
    StopsAnswered
    QuitExits
    KeepsPromise
CHECK_DEADLOCK FALSE
