\* What must happen in the end: one request after another beside the recovery loop.
CONSTANTS
    Sources = {r1}
    Codecs = {mjpeg, prores}
    NoCodec = NoCodec
    Recovery = Recovery
    Clients = {c1}
    MaxEdits = 3
    MaxIndexes = 1
    MaxClocks = 1
    MaxFails = 1
SPECIFICATION Spec
PROPERTIES
    Settles
    WorkEnds
CHECK_DEADLOCK FALSE
