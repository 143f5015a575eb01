--------------------------------- MODULE Legs ---------------------------------
(* A recording's legs and the monitor that feeds them (pipeline/recording.rs, *)
(* pipeline/mod.rs, pipeline/monitor.rs): each leg is a pipeline of its own   *)
(* behind a short queue, begins at the frame its recording was asked to, and  *)
(* is drained when it stops. Frames are numbered from the monitor's base time *)
(* and come every INTERVAL / RATE units, rounded down as timestamps are.      *)
EXTENDS Integers, Sequences, SequencesExt, FiniteSets, FiniteSetsExt

CONSTANTS
    Outputs,         \* a recording's outputs: a leg each, started in this order
    Bases, Starts,   \* base times on the clock, and times asked for (None is none)
    RATE, INTERVAL, SLACK, \* frames in INTERVAL units of time; how far off a timestamp may be
    LEAD,            \* MAX_START_LEAD
    ROOM,            \* frames a leg's queue takes (500 ms)
    MaxFrame, MaxFaults    \* bounds: frames, failures and timeouts

VARIABLES
    base, on_clock,  \* the monitor's base time, and whether it runs on the node's clock
    own,             \* the timecode the source's own frames carry at the first, if they do
    video, audio,    \* the next of each the source delivers
    asked, start_at, \* the recording: "none", "starting", "on", "refused" or "over", and the start it goes by
    legs,
    faults

vars == <<base, on_clock, own, video, audio, asked, start_at, legs, faults>>

Legs == DOMAIN Outputs
None == -1
\* A frame's running time, and the clock's now: the source's newest frame.
Due(n) == (n * INTERVAL) \div RATE
Now == base + Due(video)

NoLeg == [at |-> "none", queue |-> <<>>, lost |-> {}, first |-> None, fed |-> 0, written |-> {}, sound |-> {},
          track |-> None, timecode |-> None, error |-> FALSE, bus |-> "none", until |-> 0, file |-> "none", end |-> "none"]
Init ==
    /\ base \in Bases /\ on_clock \in BOOLEAN
    /\ own \in {None, 100}
    /\ video = 0 /\ audio = 0
    /\ asked = "none" /\ start_at = None
    /\ legs = [l \in Legs |-> NoLeg]
    /\ faults = 0

Fault == faults < MaxFaults /\ faults' = faults + 1

----------------------------------------------------------------------------
(* Starting                                                                   *)

\* A start on the shared clock is kept to, late or not, unless it is too far
\* ahead; on another clock recording starts now.
Ask(at) ==
    /\ asked = "none"
    /\ IF at # None /\ on_clock /\ at > Now + LEAD
       THEN asked' = "refused" /\ start_at' = None /\ UNCHANGED legs
       ELSE /\ asked' = "starting"
            /\ start_at' = IF on_clock THEN at ELSE None
            /\ legs' = [l \in Legs |-> [NoLeg EXCEPT !.at = "built"]]
    /\ UNCHANGED <<base, on_clock, own, video, audio, faults>>
\* A leg can't be built: nothing was opened.
BuildFails ==
    /\ asked = "none" /\ Fault
    /\ asked' = "refused"
    /\ UNCHANGED <<base, on_clock, own, video, audio, start_at, legs>>

Before(l) == \A k \in Legs : k < l => legs[k].at # "built"
\* Each in turn opens its file and joins the monitor's feed; a splitting one
\* opens its first file with the first frame.
start(l) ==
    /\ asked = "starting" /\ legs[l].at = "built" /\ Before(l)
    /\ legs' = [legs EXCEPT ![l].at = "fed", ![l].fed = video,
                            ![l].file = IF Outputs[l] = "split" THEN "none" ELSE "empty"]
    /\ asked' = IF l = Len(Outputs) THEN "on" ELSE asked
    /\ UNCHANGED <<base, on_clock, own, video, audio, start_at, faults>>
discard(leg) == [leg EXCEPT !.at = "none", !.queue = <<>>, !.file = "none"]
\* One that won't start takes the others with it.
start_fails(l) ==
    /\ asked = "starting" /\ legs[l].at = "built" /\ Before(l) /\ Fault
    /\ legs' = [k \in Legs |-> discard(legs[k])]
    /\ asked' = "refused"
    /\ UNCHANGED <<base, on_clock, own, video, audio, start_at>>

----------------------------------------------------------------------------
(* Frames                                                                     *)

\* A full queue lets its oldest go.
push(leg, n) ==
    IF leg.at # "fed" THEN leg
    ELSE IF Len(leg.queue) < ROOM THEN [leg EXCEPT !.queue = Append(@, n)]
    ELSE [leg EXCEPT !.queue = Append(Tail(@), n), !.lost = @ \union {Head(leg.queue)}]
feed ==
    /\ video < MaxFrame /\ video <= audio
    /\ video' = video + 1
    /\ legs' = [l \in Legs |-> push(legs[l], video)]
    /\ UNCHANGED <<base, on_clock, own, audio, asked, start_at, faults>>

start_rt == IF start_at = None THEN None ELSE IF start_at < base THEN 0 ELSE start_at - base
\* Frames due before the start don't get through; the first that does says so.
drop_until(leg, n) ==
    IF leg.first = None /\ start_rt # None /\ Due(n) < start_rt THEN leg
    ELSE [leg EXCEPT !.first = IF @ = None THEN n ELSE @, !.written = @ \union {n},
                     !.file = IF leg.error THEN @ ELSE "data"]
\* Nor does sound due before the first frame.
drop_until_video(leg, n) ==
    IF leg.at = "fed" /\ (leg.sound # {} \/ (leg.first # None /\ Due(n) >= Due(leg.first)))
    THEN [leg EXCEPT !.sound = @ \union {n}] ELSE leg

\* The local time of day in frames, unless the frame has a timecode of its own.
stamp_time_of_day(n) == IF own # None THEN own + n ELSE (base * RATE) \div INTERVAL + n
\* The muxer writes the first one's.
write_track(leg, n) == [leg EXCEPT !.track = IF @ = None THEN stamp_time_of_day(n) ELSE @]
keep_last_timecode(leg, n) ==
    IF n \in leg.written
    THEN write_track([leg EXCEPT !.timecode = [rt |-> Due(n), frames |-> stamp_time_of_day(n)]], n)
    ELSE leg
\* A leg's encoder takes the next frame.
encode(l) ==
    /\ legs[l].at \in {"fed", "draining"} /\ legs[l].queue # <<>> /\ ~legs[l].error
    /\ LET n == Head(legs[l].queue)
       IN legs' = [legs EXCEPT ![l] = keep_last_timecode(drop_until([@ EXCEPT !.queue = Tail(@)], n), n)]
    /\ UNCHANGED <<base, on_clock, own, video, audio, asked, start_at, faults>>
\* Sound gets past its gate as it comes, a frame's worth at a time: the 10 s
\* queue behind the gate takes it.
hear ==
    /\ audio < MaxFrame /\ audio <= video
    /\ audio' = audio + 1
    /\ legs' = [l \in Legs |-> IF legs[l].error THEN legs[l] ELSE drop_until_video(legs[l], audio)]
    /\ UNCHANGED <<base, on_clock, own, video, asked, start_at, faults>>

\* A leg's pipeline fails and does no more: the first error stays on its bus.
watch_errors(l) ==
    /\ legs[l].at \in {"fed", "draining"} /\ legs[l].bus = "none" /\ Fault
    /\ legs' = [legs EXCEPT ![l].error = TRUE, ![l].bus = "error"]
    /\ UNCHANGED <<base, on_clock, own, video, audio, asked, start_at>>

----------------------------------------------------------------------------
(* Stopping                                                                   *)

stop ==
    /\ asked = "on" /\ asked' = "over"
    /\ legs' = [l \in Legs |-> [legs[l] EXCEPT !.at = "draining", !.until = video]]
    /\ UNCHANGED <<base, on_clock, own, video, audio, start_at, faults>>
\* The queue is through: the file gets its index.
end_of_stream(l) ==
    /\ legs[l].at = "draining" /\ legs[l].queue = <<>> /\ legs[l].bus = "none"
    /\ legs' = [legs EXCEPT ![l].bus = "eos", ![l].file = IF @ = "data" THEN "finished" ELSE @]
    /\ UNCHANGED <<base, on_clock, own, video, audio, asked, start_at, faults>>
\* Only what nothing was written to goes.
remove_empty(leg) == [leg EXCEPT !.at = "done", !.queue = <<>>, !.file = IF @ = "empty" THEN "none" ELSE @]
stopped(l) ==
    /\ legs[l].at = "draining" /\ legs[l].bus # "none"
    /\ legs' = [legs EXCEPT ![l] = [remove_empty(@) EXCEPT !.end = IF legs[l].bus = "eos" THEN "ok" ELSE "failed"]]
    /\ UNCHANGED <<base, on_clock, own, video, audio, asked, start_at, faults>>
times_out(l) ==
    /\ legs[l].at = "draining" /\ legs[l].bus = "none" /\ Fault
    /\ legs' = [legs EXCEPT ![l] = [remove_empty(@) EXCEPT !.end = "failed"]]
    /\ UNCHANGED <<base, on_clock, own, video, audio, asked, start_at>>

Next ==
    \/ \E at \in Starts : Ask(at)
    \/ BuildFails \/ feed \/ hear \/ stop
    \/ \E l \in Legs :
        \/ start(l) \/ start_fails(l) \/ encode(l) \/ watch_errors(l)
        \/ end_of_stream(l) \/ stopped(l) \/ times_out(l)
Spec == Init /\ [][Next]_vars

----------------------------------------------------------------------------
(* What a recording says of itself                                            *)

\* The first recorded frame's due time on the clock.
first_frame(leg) == IF leg.first = None THEN None ELSE base + Due(leg.first)
\* The timecode at a moment: the newest frame's, and the whole frames since.
timecode_after(timecode, time) == timecode.frames + ((time + SLACK) * RATE) \div INTERVAL
timecode_at(leg, at) == timecode_after(leg.timecode, (at - base) - leg.timecode.rt)

----------------------------------------------------------------------------
(* What must hold                                                             *)

Recorded == {l \in Legs : legs[l].first # None}
\* A leg that was fed before its start was due begins on exactly that frame, so
\* that recordings that share a clock begin together whatever their base times
\* and however long each leg took to start (recording.rs:80-82); one without a
\* start begins on the first frame it is fed. Only a frame its queue lost
\* moves it.
BeginsWhenAsked ==
    \A l \in Recorded :
        LET wanted == {n \in legs[l].fed..MaxFrame : start_at = None \/ base + Due(n) >= start_at} \ legs[l].lost
        IN first_frame(legs[l]) = base + Due(Min(wanted))
\* No sound comes before the first frame, and none is missing once there is
\* any, whichever of the two the source delivers first (recording.rs:429-431).
SoundFollowsTheFirstFrame ==
    \A l \in Legs : legs[l].sound # {} =>
        /\ l \in Recorded /\ Min(legs[l].sound) >= legs[l].first
        /\ legs[l].at = "fed" /\ ~legs[l].error => legs[l].sound = Min(legs[l].sound)..(audio - 1)
\* A leg misses only frames its own queue counted as dropped, however slow or
\* broken the other legs are (mod.rs:8-10), and one that ends well has
\* everything it was fed up to the stop (recording.rs:313).
MissesOnlyItsOwn ==
    \A l \in Recorded :
        LET leg == legs[l]
            upto == IF leg.end = "ok" THEN leg.until - 1 ELSE Max(leg.written)
        IN  (leg.first..upto) \ leg.written \subseteq leg.lost
\* The timecode a moment is given (a marker's) is the one its file shows there,
\* which counts on from the first frame's, whichever frame is the newest and
\* whatever was lost in between (recording.rs:301-303).
TimecodeIsTheFiles ==
    \A l \in Recorded : \A n \in legs[l].first..MaxFrame : \A later \in {0, 1} :
        timecode_at(legs[l], base + Due(n) + later) = legs[l].track + (n - legs[l].first)
\* A recording that didn't start leaves no file and feeds no leg; a leg that
\* has ended keeps whatever was written, finished where it says so, and
\* nothing empty (recording.rs:78-79, 349-350).
KeepsWhatIsWritten ==
    /\ asked = "refused" => \A l \in Legs : legs[l].at = "none" /\ legs[l].file = "none"
    /\ \A l \in Legs : legs[l].end # "none" =>
        legs[l].file = IF legs[l].written = {} THEN "none" ELSE IF legs[l].end = "ok" THEN "finished" ELSE "data"
=============================================================================
