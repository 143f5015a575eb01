SPECIFICATION Spec
CONSTANTS
    Sources = {"s"}
    Displays = {"a", "b"}
    MaxDialogs = 2
    MaxTokens = 2
    MaxDeletes = 0
    MaxFaults = 0
PROPERTY ChosenIsUsed
\* The node goes on when there is nothing left to choose.
CHECK_DEADLOCK FALSE
