------------------------------- MODULE Measure -------------------------------
(* What a benchmark's step measures (benchmark/measure.rs) of the frames a    *)
(* feed's monitor or a channel's clip delivers: they are counted on a         *)
(* streaming thread (FrameCount) and read before and after a window, while    *)
(* they go on.  One feed is followed; a clip's program keeps up.  Time is in  *)
(* frames.  Frames outputs drop, bytes, CPU and memory are left out.          *)
EXTENDS Integers, FiniteSetsExt

CONSTANTS
    THRESHOLD,  \* BenchmarkRunDto.drop_threshold_pct
    RESYNC,     \* how many whole frames fit in the lane's 20 ms
    WINDOW,     \* frames due between the two snapshots
    MaxTime,    \* bound: frames due
    MaxWarmup,  \* bound: frames due before the window
    MaxGap,     \* bound: how long footage's sound goes on past its video
    MaxFaults   \* bound: frames lost or late

VARIABLES
    kind, now,
    count,      \* FrameCount, a clip's late frames; and what was lost and not there by then
    since,      \* the frames lost, and not there as the footage began again, since that one
    write,      \* record, on the streaming thread: what it has yet to store
    stage, reading, before, after,  \* the window, and what each Snapshot has read
    step, faults
vars == <<kind, now, count, since, write, stage, reading, before, after, step, faults>>

None == -1
NoWrite == [at |-> "idle", gap |-> 0, lost |-> 0, gone |-> 0]
Idle == [field |-> "none", ticked |-> FALSE]
Nothing == [lost |-> 0, gone |-> 0]
AtLeast0(n) == Max({n, 0})

----------------------------------------------------------------------------
(* FrameCount, and the two that count with it                                 *)

\* The gap before a frame its source marked, as the first of a loop.
count_buffers(at) == IF since.gone > 0 /\ count.last # None THEN at - count.last - 1 ELSE 0
\* The gap a lane marks, whatever has left it.
count_played(at) == IF count.last # None /\ at > count.last + 1 + RESYNC THEN at - count.last - 1 ELSE 0
Gap(at) == IF kind = "clip" THEN count_played(at) ELSE count_buffers(at)
\* record stores the gap, then the time stamp, then the count.
Stored(c, at, w) ==
    CASE w.at = "skipped" -> [c EXCEPT !.skipped = @ + w.gap, !.told = @ + w.gone]
      [] w.at = "last" -> [c EXCEPT !.last = at, !.lost = @ + w.lost, !.gone = @ + w.gone]
      [] OTHER -> [c EXCEPT !.frames = @ + 1]
NextWrite(w) ==
    CASE w.at = "skipped" -> [w EXCEPT !.at = "last"] [] w.at = "last" -> [w EXCEPT !.at = "frames"] [] OTHER -> NoWrite
Whole(c, at, w) == Stored(Stored(Stored(c, at, w), at, NextWrite(w)), at, NextWrite(NextWrite(w)))
record ==
    /\ write # NoWrite /\ count' = Stored(count, now, write) /\ write' = NextWrite(write)
    /\ UNCHANGED <<kind, now, since, stage, reading, before, after, step, faults>>

\* The next frame is due, and the one before has been stored: it comes, a
\* clip's perhaps late, is lost, or the footage begins again. A frame missing
\* beside that is one with it. One frame may come while the numbers are read.
Due ==
    /\ now < IF stage = "warmup" THEN MaxWarmup ELSE MaxTime
    /\ stage # "over" /\ now' = now + 1 /\ write = NoWrite
    /\ ~reading.ticked /\ reading' = [reading EXCEPT !.ticked = @ \/ reading.field # "none"]
\* Only while the numbers may be read does it matter how they are stored.
Watched == stage # "window" \/ now' >= before.last + WINDOW
FrameComes(late) ==
    /\ Due /\ since' = Nothing
    /\ late => kind = "clip" /\ faults < MaxFaults
    /\ faults' = IF late THEN faults + 1 ELSE faults
    /\ LET c == [count EXCEPT !.late = IF late THEN @ + 1 ELSE @]
           w == [at |-> "skipped", gap |-> Gap(now'), lost |-> since.lost, gone |-> since.gone]
       IN  IF Watched THEN count' = c /\ write' = w ELSE count' = Whole(c, now', w) /\ UNCHANGED write
    /\ UNCHANGED <<kind, stage, before, after, step>>
FrameLost ==
    /\ Due /\ since.gone = 0 /\ since' = [since EXCEPT !.lost = @ + 1] /\ faults < MaxFaults /\ faults' = faults + 1
    /\ UNCHANGED <<kind, count, write, stage, before, after, step>>
Loops ==
    /\ Due /\ since.lost = 0 /\ count.gone + since.gone < MaxGap /\ since' = [since EXCEPT !.gone = @ + 1]
    /\ UNCHANGED <<kind, count, write, stage, before, after, step, faults>>

----------------------------------------------------------------------------
(* measure_window: a snapshot, the window, and another                        *)

Snapshot == [frames |-> 0, last |-> None, skipped |-> 0, late |-> 0, lost |-> 0, told |-> 0, gone |-> 0]
take ==
    /\ reading = Idle /\ reading' = [field |-> "skipped", ticked |-> write # NoWrite]
    /\ \/ stage = "warmup" /\ stage' = "before"
       \/ stage = "window" /\ now >= before.last + WINDOW /\ stage' = "after"
    /\ UNCHANGED <<kind, now, count, since, write, before, after, step, faults>>
\* progress, then a clip's late frames.
Read(snapshot) ==
    CASE reading.field = "skipped" -> [snapshot EXCEPT !.skipped = count.skipped, !.told = count.told]
      [] reading.field = "last" -> [snapshot EXCEPT !.last = count.last, !.lost = count.lost, !.gone = count.gone]
      [] reading.field = "frames" -> [snapshot EXCEPT !.frames = count.frames]
      [] OTHER -> [snapshot EXCEPT !.late = count.late]
After(field) ==
    CASE field = "skipped" -> "last" [] field = "last" -> "frames" [] OTHER -> "late"
LastField == IF kind = "clip" THEN "late" ELSE "frames"
progress ==
    /\ reading.field # "none"
    /\ IF stage = "before" THEN before' = Read(before) /\ UNCHANGED after ELSE after' = Read(after) /\ UNCHANGED before
    /\ IF reading.field # LastField THEN reading' = [reading EXCEPT !.field = After(@)] /\ UNCHANGED stage
       ELSE reading' = Idle /\ stage' = IF stage = "before" THEN "window" ELSE "over"
    /\ UNCHANGED <<kind, now, count, since, write, step, faults>>

----------------------------------------------------------------------------
(* measure: the step, from the two                                            *)

Grew(field) == AtLeast0(after[field] - before[field])
\* What was due by the time stamps; without any, by the window's time.
Should ==
    IF None \in {before.last, after.last} THEN WINDOW ELSE AtLeast0(Grew("last") - Grew("skipped"))
\* A frame of slack covers one that lands between the reads.
shortfall == [missing |-> AtLeast0(Should - (Grew("frames") + 1)), expected |-> Should]
\* A clip's late frames are against the clip's, not the program's as well.
measure ==
    LET missing == shortfall.missing + Grew("late")
    IN  [shortfall |-> missing, passed |-> missing * 100 <= THRESHOLD * Max({shortfall.expected, 1})]
Measures ==
    /\ stage = "over" /\ step = {} /\ step' = {measure}
    /\ UNCHANGED <<kind, now, count, since, write, stage, reading, before, after, faults>>

\* A feed starts once its monitor has delivered video; a clip may yet be to come.
Init ==
    /\ kind \in {"feed", "clip"} /\ now = 0 /\ since = Nothing /\ write = NoWrite
    /\ count = [frames |-> IF kind = "clip" THEN 0 ELSE 1, last |-> IF kind = "clip" THEN None ELSE 0, skipped |-> 0,
                late |-> 0, lost |-> 0, told |-> 0, gone |-> 0]
    /\ stage = "warmup" /\ reading = Idle /\ before = Snapshot /\ after = Snapshot /\ step = {} /\ faults = 0
Next ==
    \/ record \/ (\E late \in BOOLEAN : FrameComes(late)) \/ FrameLost \/ Loops
    \/ take \/ progress \/ Measures

----------------------------------------------------------------------------
\* What was lost between the frames the two snapshots go by, and how far each
\* one's total of gaps is from those before its frame.
Lost == after.lost - before.lost
Torn == (before.told - before.gone) - (after.told - after.gone)
Timed == None \notin {before.last, after.last}

\* A feed's step counts the frames it lost, and those alone, but for one at
\* either end that comes as it is read: footage that begins again within the
\* window has lost nothing ("frames counted against the span of their
\* timestamps (less marked gaps)", pipeline/monitor.rs), unless the gap itself
\* is read in halves.
LossIsCounted ==
    \A s \in step : kind = "feed" =>
        /\ s.shortfall <= AtLeast0(Lost + 1 + Torn)
        /\ s.shortfall >= Lost - 3 + Torn

\* Frames that came too late for a channel's program fail the step once they
\* are over the threshold of the clip's own, however whole the program is.
LateFails ==
    \A s \in step : s.passed /\ kind = "clip" /\ Timed =>
        (after.late - before.late) * 100 <= THRESHOLD * Max({after.last - before.last, 1})
=============================================================================
