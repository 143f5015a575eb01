------------------------------ MODULE Benchmark ------------------------------
(* The benchmark runner (benchmark/): the one run a node has at a time, the   *)
(* search for the most feeds that keep up, its feeds as they start, are       *)
(* measured and are torn down, and the recording that cancels it.  What a     *)
(* step measures is nondeterministic: it keeps up, doesn't, or is not clear.  *)
EXTENDS Naturals, FiniteSets, FiniteSetsExt

CONSTANTS
    Ids,        \* runs asked for
    Limits,     \* the most feeds a run may be asked for
    Fits,       \* how many feeds may turn out to fit in memory
    MaxRecords, \* bound: recordings started
    MaxFaults   \* bound: crashes, dropped requests and writes that fail

VARIABLES
    slot,       \* AppState.benchmark: the run that has the slot, or None
    cancelled,  \* its token
    starts,     \* what each request to start is at
    phase, asked, feeds, search, fit,   \* the run that was spawned
    rows,       \* its saved status
    scratch,    \* the runs whose scratch folders are on disk
    recording, records,
    waits,      \* the run a recording waits for before it starts
    beside,     \* ghost: the run that looked at the node while a recording was about to start
    faults
runVars == <<phase, asked, feeds, search, fit>>
recordVars == <<recording, records, waits, beside>>
vars == <<slot, cancelled, starts, runVars, rows, scratch, recordVars, faults>>

None == "none"
Final == {"completed", "cancelled", "error"}
MaxFeeds == Max(Limits)
Counts == 0..MaxFeeds
Unknown == MaxFeeds + 1     \* until feeds have shown what they take

----------------------------------------------------------------------------
(* Search: which count of feeds is measured next                              *)

Search(limit) == [limit |-> limit, passes |-> {}, full |-> {}, fail |-> 0]
best(s) == IF s.passes = {} THEN 0 ELSE Max(s.passes)
Least(a, b) == IF a < b THEN a ELSE b
Done(n) == [feeds |-> n, how |-> "done"]
Measure(n, how) == [feeds |-> n, how |-> how]
\* Doubling until a count fails or the limit, then halving what is between,
\* then the best in full if a quick check is all it passed.
next(s) ==
    LET lo == best(s)
    IN  IF s.fail > 0 /\ s.fail - lo > 1 THEN Measure(lo + (s.fail - lo) \div 2, "full")
        ELSE IF s.fail = 0 /\ lo < s.limit THEN Measure(IF lo = 0 THEN 1 ELSE Least(lo * 2, s.limit), "quick")
        ELSE IF lo = 0 \/ lo \in s.full THEN Done(lo)
        ELSE Measure(lo, "full")
passed(s, n, full) == [s EXCEPT !.passes = @ \cup {n}, !.full = IF full THEN @ \cup {n} ELSE @]
failed(s, n) == [s EXCEPT !.fail = IF @ = 0 THEN n ELSE Least(@, n),
                          !.passes = {m \in @ : m < n}, !.full = {m \in @ : m < n}]
cap(s, n) == [s EXCEPT !.limit = Least(@, n)]

----------------------------------------------------------------------------
(* start: the slot, the check that the node is idle, and what is prepared     *)

claim(id) ==
    /\ starts[id] = "none" /\ slot = None
    /\ slot' = id /\ starts' = [starts EXCEPT ![id] = "claimed"]
    /\ UNCHANGED <<cancelled, runVars, rows, scratch, recordVars, faults>>
\* SlotGuard frees the slot when start is refused, fails or is dropped.
Refused(id) ==
    /\ slot' = None /\ cancelled' = FALSE /\ starts' = [starts EXCEPT ![id] = "ended"]
    /\ waits' = IF waits = id THEN None ELSE waits
check_idle(id) ==
    /\ starts[id] = "claimed"
    /\ IF recording = "active" THEN Refused(id) /\ UNCHANGED beside
       ELSE /\ starts' = [starts EXCEPT ![id] = "idle"]
            /\ beside' = IF recording = "waits" THEN id ELSE beside
            /\ UNCHANGED <<slot, cancelled, waits>>
    /\ UNCHANGED <<runVars, rows, scratch, recording, records, faults>>
\* The folders first, then the row: one that fails between leaves folders.
prepare(id) ==
    /\ starts[id] = "idle" /\ scratch' = scratch \cup {id}
    /\ \/ rows' = [rows EXCEPT ![id] = "running"] /\ starts' = [starts EXCEPT ![id] = "saved"]
          /\ UNCHANGED <<slot, cancelled, waits, faults>>
       \/ faults < MaxFaults /\ faults' = faults + 1 /\ Refused(id) /\ UNCHANGED rows
    /\ UNCHANGED <<runVars, recording, records, beside>>
spawn(id) ==
    /\ starts[id] = "saved" /\ starts' = [starts EXCEPT ![id] = "ended"]
    /\ phase' = "next" /\ search' \in {Search(limit) : limit \in Limits} /\ UNCHANGED <<asked, feeds, fit>>
    /\ UNCHANGED <<slot, cancelled, rows, scratch, recordVars, faults>>
\* A request dropped where start waits.
StartDropped(id) ==
    /\ starts[id] \in {"claimed", "idle"} /\ faults < MaxFaults /\ faults' = faults + 1
    /\ Refused(id) /\ UNCHANGED <<runVars, rows, scratch, recording, records, beside>>

----------------------------------------------------------------------------
(* Run::run and search                                                        *)

Running == phase # "none"
NoRun == phase' = "none" /\ asked' = Done(0) /\ feeds' = 0 /\ search' = Search(0) /\ fit' = Unknown
Pass(p) == phase = p
\* How much memory the feeds take becomes known, and only grows.
Observes == fit' \in {fit} \cup {f \in Fits : f <= fit}

\* search's loop: the answer, a count over what fits in memory, or a step.
Chooses ==
    LET n == next(search)
    IN  /\ Pass("next")
        /\ CASE n.how = "done" -> /\ phase' = "ends" /\ asked' = n /\ UNCHANGED search
             [] n.how # "done" /\ n.feeds > best(search) /\ n.feeds > fit ->
                    /\ search' = cap(search, Max({fit, best(search)})) /\ UNCHANGED <<phase, asked>>
             [] OTHER -> phase' = "feeds" /\ asked' = n /\ UNCHANGED <<search>>
    /\ UNCHANGED <<slot, cancelled, starts, feeds, fit, rows, scratch, recordVars, faults>>

Ends(status) == phase' = status /\ UNCHANGED <<asked, search, fit>>
\* Back below the count at once, so memory recovers.
Back == Least(best(search), asked.feeds - 1)
ShortOfMemory ==
    /\ feeds' = Least(feeds, Back) /\ search' = failed(search, asked.feeds) /\ phase' = "next" /\ UNCHANGED <<asked, fit>>
\* set_feeds starts one feed after another, and stops those over the count.
set_feeds ==
    /\ Pass("feeds")
    /\ \/ feeds > asked.feeds /\ feeds' = asked.feeds /\ UNCHANGED <<phase, asked, search, fit>>
       \/ feeds = asked.feeds /\ phase' = "measure" /\ UNCHANGED <<feeds, asked, search, fit>>
       \/ feeds < asked.feeds /\ ShortOfMemory
       \/ feeds < asked.feeds /\ ~cancelled /\ feeds' = feeds + 1 /\ UNCHANGED <<phase, asked, search, fit>>
       \/ feeds < asked.feeds /\ cancelled /\ Ends("cancels") /\ UNCHANGED feeds
       \/ feeds < asked.feeds /\ Ends("fails") /\ UNCHANGED feeds      \* a feed doesn't start
    /\ UNCHANGED <<slot, cancelled, starts, rows, scratch, recordVars, faults>>
\* pause notices a cancel, short memory and a feed that failed; check tells
\* whether they kept up, and low_volume whether the disk is nearly full.
measure ==
    /\ Pass("measure")
    /\ \/ cancelled /\ Ends("cancels") /\ UNCHANGED feeds
       \/ ~cancelled /\ Ends("fails") /\ UNCHANGED feeds
       \/ ~cancelled /\ ShortOfMemory
       \/ /\ ~cancelled /\ Observes /\ phase' = "next" /\ UNCHANGED <<feeds, asked>>
          /\ \/ \E full \in IF asked.how = "full" THEN {TRUE} ELSE BOOLEAN :
                    LET s == passed(search, asked.feeds, full)
                    IN  search' \in {s, cap(s, asked.feeds)}
             \/ search' = failed(search, asked.feeds)
    /\ UNCHANGED <<slot, cancelled, starts, rows, scratch, recordVars, faults>>

\* discard_feeds and remove_scratch.
teardown ==
    /\ phase \in {"ends", "cancels", "fails"} /\ feeds' = 0 /\ scratch' = scratch \ {slot}
    /\ phase' = CASE phase = "ends" -> "completed" [] phase = "cancels" -> "cancelled" [] OTHER -> "error"
    /\ UNCHANGED <<slot, cancelled, starts, asked, search, fit, rows, recordVars, faults>>
\* The result is saved, the slot freed, and whoever waits is told.
finish ==
    /\ Pass("completed") \/ Pass("cancelled") \/ Pass("error")
    /\ \/ rows' = [rows EXCEPT ![slot] = phase] /\ UNCHANGED faults
       \/ faults < MaxFaults /\ faults' = faults + 1 /\ UNCHANGED rows
    /\ NoRun /\ slot' = None /\ cancelled' = FALSE /\ waits' = IF waits = slot THEN None ELSE waits
    /\ UNCHANGED <<starts, scratch, recording, records, beside>>

----------------------------------------------------------------------------
(* Recordings, cancels, and the node's start                                  *)

\* post_recording and put_replay cancel the run there is and wait for it.
Record ==
    /\ recording = "none" /\ records < MaxRecords /\ records' = records + 1
    /\ recording' = "waits" /\ waits' = slot
    /\ cancelled' = (slot # None)
    /\ UNCHANGED <<slot, starts, runVars, rows, scratch, beside, faults>>
\* Torn down, or CANCEL_TIMEOUT.
begin_start_recording ==
    /\ recording = "waits"
    /\ waits = None \/ faults < MaxFaults
    /\ faults' = IF waits = None THEN faults ELSE faults + 1
    /\ recording' = "active"
    /\ UNCHANGED <<slot, cancelled, starts, runVars, rows, scratch, waits, beside, records>>
RecordingEnds ==
    /\ recording = "active" /\ recording' = "none" /\ waits' = None
    /\ UNCHANGED <<slot, cancelled, starts, runVars, rows, scratch, records, beside, faults>>
\* post_cancel_benchmark.
cancel ==
    /\ slot # None /\ cancelled' = TRUE
    /\ UNCHANGED <<slot, starts, runVars, rows, scratch, recordVars, faults>>
\* delete_benchmark refuses the one that runs.
benchmark_delete(id) ==
    /\ rows[id] \notin {"none", "deleted"} /\ slot # id /\ rows' = [rows EXCEPT ![id] = "deleted"]
    /\ UNCHANGED <<slot, cancelled, starts, runVars, scratch, recordVars, faults>>
\* A crash, and recover before anything is served.
recover ==
    /\ faults < MaxFaults /\ faults' = faults + 1
    /\ scratch' = {id \in scratch : rows[id] # "running"}
    /\ rows' = [id \in Ids |-> IF rows[id] = "running" THEN "error" ELSE rows[id]]
    /\ slot' = None /\ cancelled' = FALSE /\ NoRun
    /\ starts' = [id \in Ids |-> IF starts[id] = "none" THEN "none" ELSE "ended"]
    /\ recording' = "none" /\ waits' = None
    /\ UNCHANGED <<records, beside>>

Init ==
    /\ slot = None /\ cancelled = FALSE /\ starts = [id \in Ids |-> "none"]
    /\ phase = "none" /\ asked = Done(0) /\ feeds = 0 /\ search = Search(0) /\ fit = Unknown
    /\ rows = [id \in Ids |-> "none"] /\ scratch = {}
    /\ recording = "none" /\ waits = None /\ beside = None /\ records = 0 /\ faults = 0
RunSteps == Chooses \/ set_feeds \/ measure \/ teardown \/ finish
Next ==
    \/ \E id \in Ids : claim(id) \/ check_idle(id) \/ prepare(id) \/ spawn(id) \/ StartDropped(id) \/ benchmark_delete(id)
    \/ RunSteps
    \/ Record \/ begin_start_recording \/ RecordingEnds \/ cancel \/ recover
Spec == Init /\ [][Next]_vars /\ WF_vars(RunSteps)

----------------------------------------------------------------------------
\* One run has the slot, and each part of it has its type.
TypeOK ==
    /\ slot \in Ids \cup {None} /\ cancelled \in BOOLEAN /\ scratch \subseteq Ids
    /\ feeds \in Counts /\ fit \in Fits \cup {Unknown} /\ search.limit \in Counts /\ search.fail \in Counts
    /\ search.full \subseteq search.passes /\ search.passes \subseteq Counts

\* The slot is held exactly while a start or a run is under way, so the next
\* can start, and of two starts at once one gets it.
SlotIsHeld ==
    /\ Running => slot # None
    /\ \A id \in Ids : starts[id] \in {"claimed", "idle", "saved"} => slot = id /\ ~Running
    /\ slot # None => Running \/ starts[slot] \in {"claimed", "idle", "saved"}

\* What a run says the node sustains has kept up in a full step, and the next
\* count has failed, is over what was asked for, or would not fit.
AnswerIsMeasured ==
    phase = "ends" =>
        LET n == asked.feeds IN
        /\ n = 0 \/ n \in search.full
        /\ search.fail = n + 1 \/ n >= search.limit

\* Feeds started are never fewer than the count gone back to when memory runs
\* short, which run.rs drains them down to.
GoesBackWithin == phase \in {"feeds", "measure"} => feeds >= Back

\* A benchmark that goes on beside a recording has been told to stop by it, or
\* looked at the node between that recording's cancel and its reservation:
\* the slot is taken before the look, and recordings cancel before they start.
RecordingsComeFirst ==
    recording = "active" /\ slot # None /\ starts[slot] # "claimed" => cancelled \/ slot = beside

\* Scratch folders are those of a start or a run under way, or of a row still
\* running that the node's next start ends, unless a write failed.
FoldersAreKnown == faults = 0 => \A id \in scratch : slot = id /\ (rows[id] = "running" \/ starts[id] = "idle")

\* A run ends, whatever it measures: "A run stops at the feed limit, short
\* memory or disk, an error, or a cancel" (benchmark/mod.rs:16).
RunEnds == Running ~> ~Running
=============================================================================
