SPECIFICATION Spec
CONSTANTS
    Sources = {"s"}
    Displays = {"a", "b"}
    MaxDialogs = 1
    MaxTokens = 2
    MaxDeletes = 1
    MaxFaults = 0
PROPERTY ForgettingEnds
\* The node goes on when there is nothing left to choose.
CHECK_DEADLOCK FALSE
