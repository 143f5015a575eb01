CONSTANTS
    Controllers = {"c1", "c2"}
    Tells <- Asks
    MASTER_TIMEOUT = 2
    Ids = {"n1", "n2"}
    Urls = {"u1", "u2"}
    Keys <- KeysOf
    Homes <- FirstHomes
    MaxGens = 2
    MaxActs = 2
    PruneAfterFailures = 2
SPECIFICATION Spec
INVARIANTS ClockIsAsAsked NodesAreKept
PROPERTIES ComesToFollow LiveGoesOn Converges
\* A part comes to rest where no more of its inputs are counted.
CHECK_DEADLOCK FALSE
