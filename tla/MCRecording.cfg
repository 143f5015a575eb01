\* Two recordings competing for a source and its paths, two legs each, while
\* monitors fail and are replaced, writes fail and the node crashes or quits.
\* Deadlock is not an error: the node may have quit, or every session id been used.
CONSTANTS
    Sources = {r1}
    Sessions = {s1, s2}
    Paths = {p1, p2}
    Split = {}
    Brief = {}
    NoSource = NoSource
    NoSession = NoSession
    MaxMonitors = 2
    MaxLegs = 2
    MaxCrashes = 1
    MaxQuits = 0
    MaxDbErrors = 1
    MaxEdits = 0
SPECIFICATION SafetySpec
SYMMETRY Symmetry
INVARIANTS
    TypeOK
    OneRecordingPerSource
    ActiveIsFed
    NoOrphanLeg
    RowsAreTrue
PROPERTIES
    OthersKeepRecording
    KeepsPromiseSafely
CHECK_DEADLOCK FALSE
