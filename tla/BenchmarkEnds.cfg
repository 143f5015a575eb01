\* One run, with nothing else going on, and memory that turns out to be short.
CONSTANTS
    Ids = {"b1"}
    Limits = {4}
    Fits = {2}
    MaxRecords = 0
    MaxFaults = 0
SPECIFICATION Spec
PROPERTY RunEnds
CHECK_DEADLOCK FALSE
