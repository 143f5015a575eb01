-------------------------------- MODULE Feeds --------------------------------
(* A benchmark's feeds (benchmark/run.rs): each is a monitor, and what it     *)
(* records, buffers or plays out, started one by one up to a count, watched   *)
(* through the pauses of a step, and torn down; and the memory they take      *)
(* (benchmark/memory.rs).  Which counts are tried is up to the search, of     *)
(* which Benchmark has the whole: here, any.                                  *)
EXTENDS Integers, FiniteSetsExt

CONSTANTS
    MaxFeeds,
    Takes,      \* how much memory feeds may turn out to take, one by one
    Baseline,   \* MemoryBudget: available before any feed ran
    Floor,      \*     and never to go below
    Pauses,     \* a step's: its warm-up, and the seconds of its window
    MaxSteps,   \* bound: steps
    MaxFaults   \* bound: what fails

VARIABLES
    kind,
    takes,      \* what memory each feed takes
    monitors, legs, clips,  \* the feeds whose monitor, legs or outputs, and clip run
    feeds,      \* how many are in the run's list
    leaving,    \* those that discard_feeds has, or that add_feed drops
    phase, target, pauses, steps,
    best,       \* Search: the most that kept up
    per_feed,   \* MemoryBudget: the most a feed has taken
    errors,     \* Feed::error: feeds that have failed, recording legs apart
    failure,    \* Run::failure: a recording leg has
    cancelled, faults
vars == <<kind, takes, monitors, legs, clips, feeds, leaving, phase, target, pauses, steps, best, per_feed,
    errors, failure, cancelled, faults>>
runs == <<monitors, legs, clips>>
listed == <<feeds, leaving>>
step == <<target, pauses, steps>>
known == <<kind, takes, errors, failure, cancelled>>

Ids == 1..MaxFeeds
Adding == feeds + 1
Taken(ids) == MapThenSumSet(LAMBDA f : takes[f], ids)
Fault == faults < MaxFaults /\ faults' = faults + 1
Pass(p) == phase = p /\ leaving = {}

----------------------------------------------------------------------------
(* MemoryBudget and MemoryWatch                                               *)

available == Baseline - Taken(monitors)
short == available < Floor
\* What each took on average, if that is more than before.
observe(n) == Max({per_feed, Taken(monitors) \div n})
\* How many there is room for above the floor, with a quarter more for each.
fits == ((Baseline - Floor) * 4) \div (per_feed * 5)

----------------------------------------------------------------------------
(* search, set_feeds and add_feed                                             *)

Chooses ==
    /\ Pass("next")
    /\ \/ steps < MaxSteps /\ steps' = steps + 1 /\ phase' = "set"
          /\ \E n \in Ids : (n > best /\ per_feed > 0 => n <= fits) /\ target' = n
       \/ phase' = "ends" /\ UNCHANGED <<steps, target>>
    /\ UNCHANGED <<runs, listed, pauses, best, per_feed, known, faults>>
Leave(from) == leaving' = from..feeds /\ feeds' = Min({feeds, from - 1})
\* Back below the count at once, so memory recovers.
ShortOfMemory ==
    /\ short /\ Leave(Min({best, target - 1}) + 1) /\ best' = Min({best, target - 1}) /\ phase' = "next"
    /\ UNCHANGED <<runs, step, per_feed, known, faults>>
set_feeds ==
    \/ Pass("set") /\ feeds > target /\ Leave(target + 1) /\ UNCHANGED <<runs, phase, step, best, per_feed, known, faults>>
    \/ Pass("set") /\ feeds < target /\ ShortOfMemory
    \/ /\ Pass("set") /\ feeds < target /\ ~short /\ monitors' = monitors \cup {Adding} /\ phase' = "monitor"
       /\ UNCHANGED <<legs, clips, listed, step, best, per_feed, known, faults>>
    \/ /\ Pass("set") /\ feeds = target /\ phase' = "pause" /\ pauses' = 0
       /\ UNCHANGED <<runs, listed, target, steps, best, per_feed, known, faults>>
Added == feeds' = Adding /\ phase' = "set" /\ UNCHANGED leaving
\* A feed that doesn't start goes with what of it runs, and the run ends.
Fails == leaving' = {Adding} /\ phase' = "ends" /\ UNCHANGED feeds
\* Until its first frame: a monitor that fails, gives none in time, or a cancel.
start_monitor ==
    /\ Pass("monitor")
    /\ \/ phase' = "legs" /\ UNCHANGED <<listed, faults>>
       \/ cancelled /\ Fails /\ UNCHANGED faults
       \/ Fault /\ Fails
    /\ UNCHANGED <<runs, step, best, per_feed, known>>
\* A leg or output that doesn't start takes along those that did.
start_legs ==
    /\ Pass("legs")
    /\ \/ legs' = legs \cup {Adding} /\ UNCHANGED faults
          /\ IF kind = "channel" THEN phase' = "clip" /\ UNCHANGED listed ELSE Added
       \/ Fault /\ Fails /\ UNCHANGED legs
    /\ UNCHANGED <<monitors, clips, step, best, per_feed, known>>
\* A clip that can't be played may yet be on the deck.
load ==
    /\ Pass("clip")
    /\ \/ clips' = clips \cup {Adding} /\ Added /\ UNCHANGED faults
       \/ Fault /\ Fails /\ clips' \in {clips, clips \cup {Adding}}
    /\ UNCHANGED <<monitors, legs, step, best, per_feed, known>>

----------------------------------------------------------------------------
(* A step's pauses, what fails meanwhile, and discard_feeds                   *)

\* A cancel and short memory each half second; what has failed, at the end.
\* The last pause ends the window, in which feeds kept up or didn't.
pause ==
    \/ Pass("pause") /\ cancelled /\ phase' = "ends" /\ UNCHANGED <<runs, listed, step, best, per_feed, known, faults>>
    \/ Pass("pause") /\ ShortOfMemory
    \/ /\ Pass("pause") /\ ~short /\ (failure \/ errors \cap 1..feeds # {}) /\ phase' = "ends"
       /\ UNCHANGED <<runs, listed, step, best, per_feed, known, faults>>
    \/ /\ Pass("pause") /\ ~short /\ ~failure /\ errors \cap 1..feeds = {} /\ pauses < Pauses /\ pauses' = pauses + 1
       /\ UNCHANGED <<runs, listed, phase, target, steps, best, per_feed, known, faults>>
check ==
    /\ Pass("pause") /\ pauses = Pauses /\ phase' = "next" /\ per_feed' = observe(target)
    /\ best' \in {Max({best, target}), Min({best, target - 1})}
    /\ UNCHANGED <<runs, listed, step, known, faults>>
\* Streaming threads and buses, also of feeds being torn down.
FeedFails ==
    /\ Fault
    /\ \/ \E f \in monitors : errors' = errors \cup {f} /\ UNCHANGED failure
       \/ legs # {} /\ kind = "record" /\ failure' = TRUE /\ UNCHANGED errors
    /\ UNCHANGED <<kind, takes, cancelled, runs, listed, phase, step, best, per_feed>>
cancel ==
    /\ ~cancelled /\ cancelled' = TRUE
    /\ UNCHANGED <<kind, takes, errors, failure, runs, listed, phase, step, best, per_feed, faults>>
Ends ==
    /\ Pass("ends") /\ Leave(1) /\ phase' = "over"
    /\ UNCHANGED <<runs, step, best, per_feed, known, faults>>
\* A channel's clip first: its player's bus task holds the transport.
stop ==
    /\ \E f \in leaving \cap clips : clips' = clips \ {f}
    /\ UNCHANGED <<monitors, legs, listed, phase, step, best, per_feed, known, faults>>
teardown ==
    /\ leaving # {} /\ leaving \cap clips = {}
    /\ monitors' = monitors \ leaving /\ legs' = legs \ leaving /\ errors' = errors \ leaving /\ leaving' = {}
    /\ UNCHANGED <<kind, takes, failure, cancelled, clips, feeds, phase, step, best, per_feed, faults>>

Init ==
    /\ kind \in {"record", "replay", "channel"} /\ takes \in Takes
    /\ monitors = {} /\ legs = {} /\ clips = {} /\ feeds = 0 /\ leaving = {}
    /\ phase = "next" /\ target = 0 /\ pauses = 0 /\ steps = 0 /\ best = 0 /\ per_feed = 0
    /\ errors = {} /\ failure = FALSE /\ cancelled = FALSE /\ faults = 0
Next ==
    \/ Chooses \/ set_feeds \/ start_monitor \/ start_legs \/ load \/ pause \/ check
    \/ FeedFails \/ cancel \/ Ends \/ stop \/ teardown

----------------------------------------------------------------------------
\* All that runs is of feeds in the run's list, or on their way in or out of
\* it; when the run has ended, nothing does: no clip goes on playing into a
\* program that has been dropped.
LeavesNothingRunning ==
    LET known_of == 1..feeds \cup leaving \cup (IF phase \in {"monitor", "legs", "clip"} THEN {Adding} ELSE {})
    IN  monitors \cup legs \cup clips \subseteq known_of

\* Feeds run on monitors, and clips into them, up to the end.
StandsOnMonitors == legs \cup clips \subseteq monitors

\* The machine keeps its floor of free memory, but for what the last feed takes
\* before it is noticed: "The machine's available memory is never let fall
\* below this" (benchmark/memory.rs).
KeepsItsFloor == short => available + takes[Max(monitors)] >= Floor

\* A count that memory is said to fit leaves the floor free, while no feed
\* takes a quarter more than those that have run.
RoomIsLeft ==
    per_feed > 0 /\ feeds <= fits /\ monitors = 1..feeds /\ (\A f \in 1..feeds : takes[f] * 4 <= per_feed * 5)
        => available >= Floor
=============================================================================
