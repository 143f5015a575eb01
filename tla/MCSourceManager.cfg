\* One source with a replay buffer; requests, the recovery loop and the clock
\* change what a Work under way was planned for.
CONSTANTS
    Sources = {r1}
    Codecs = {mjpeg, prores}
    NoCodec = NoCodec
    Recovery = Recovery
    Clients = {c1, c2}
    MaxEdits = 3
    MaxIndexes = 2
    MaxClocks = 1
    MaxFails = 1
SPECIFICATION SafetySpec
SYMMETRY Symmetry
INVARIANTS
    OneMonitorEach
    SourcesAreCurrent
    OneStartPerBuffer
    LegIsRight
PROPERTIES
    RecordedKeepsMonitor
    ProvidesMonitors
CHECK_DEADLOCK FALSE
