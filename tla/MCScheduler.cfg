\* One schedule that records a source and plays a channel, saved and deleted
\* while it runs, with a crash, a lost call and a write that fails.
\* Deadlock is not an error: time ends.
CONSTANTS
    Schedules = {s1}
    Rules <- Rules1
    Recorded = {r1}
    Channels = {c1}
    StopAtEnd = {c1}
    Nobody = Nobody
    Person = Person
    Lead = 1
    Idle = 3
    Grace = 1
    Kept = 2
    MaxTime = 4
    MaxActs = 2
    MaxFaults = 1
SPECIFICATION Spec
INVARIANTS
    OncePerOccurrence
    Accounted
    NothingDueAsleep
PROPERTIES
    FinalStays
CHECK_DEADLOCK FALSE
