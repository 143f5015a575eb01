----------------------------- MODULE Scheduler -----------------------------
(* The controller's scheduler (controller/scheduler.rs): a loop that starts   *)
(* and stops what is due on other nodes, requests that change schedules or    *)
(* end a run now, the rows that outlive the process, and the nodes' answers.  *)
(*                                                                            *)
(* A schedule's rule is the set of times it starts at and how long it lasts   *)
(* (module Rule has the arithmetic).  Time is in units of the loop's lead; it *)
(* passes while the loop sleeps and while nodes are called.                   *)
EXTENDS Integers, FiniteSets, FiniteSetsExt

CONSTANTS
    Schedules,  \* the ids of schedules
    Rules,      \* what a schedule may be saved as: [starts, duration], 0: no end
    Recorded,   \* the sources each schedule records
    Channels,   \* the channels each schedule plays
    StopAtEnd,  \* those of them stopped at its end
    Nobody,     \* what starts nothing
    Person,     \* whoever uses the nodes directly
    Lead, Idle, Grace,
    Kept,       \* SCHEDULE_RUNS_KEPT
    MaxTime,
    MaxActs,    \* what people do
    MaxFaults   \* crashes, lost calls and failed writes

ASSUME ChannelsAssumption == StopAtEnd \subseteq Channels /\ Channels \cap Recorded = {}

ASSUME TimesAssumption ==
    /\ Lead \in Nat \ {0} /\ Idle \in Nat \ {0} /\ Grace \in Nat \ {0} /\ Kept \in Nat \ {0}
    /\ MaxTime \in Nat /\ Rules # {} /\ Schedules # {}
    /\ \A r \in Rules : r.starts \subseteq 0..MaxTime /\ r.duration \in Nat

Times == 0..MaxTime
Targets == Recorded \cup Channels
Runs == Schedules \X Times          \* an occurrence: (schedule_id, planned_start)

ASSUME PeopleAssumption == Nobody \notin Runs /\ Person \notin Runs

Deleted == [saved |-> 0, enabled |-> FALSE, rule |-> CHOOSE r \in Rules : TRUE,
            exists |-> FALSE]

NoRow == [status |-> "none", end |-> 0, ok |-> {}, failed |-> {}]

Statuses == {"none", "running", "done", "partial", "failed", "skipped"}

Free == [by |-> "nobody", stage |-> "free", now |-> 0, next |-> 0,
         runs |-> {}, list |-> {}, run |-> NoRow, id |-> <<>>, rule |-> Deleted]

VARIABLES
    now,        \* the controller's wall clock
    up,
    schedules,  \* the table of schedules
    rows,       \* the table of schedule_runs
    on,         \* on each target, the run or person whose recording or play it is
    next,       \* until when the loop sleeps
    woken,      \* the loop's Notify has a permit
    work,       \* what the holder of the scheduler's lock is doing
    request,    \* a request to end a run now, or to delete its schedule
    begun,      \* how often a run of each occurrence was begun
    loose,      \* what runs left on: by design, or as they could not know or stop it
    acts, faults, failed    \* the last: the last tick ended with an error

tables == <<schedules, rows>>
loop == <<next, woken>>
ghosts == <<begun, loose>>
counts == <<acts, faults, failed>>
vars == <<now, up, tables, on, loop, work, request, ghosts, counts>>

NoRequest == [kind |-> "none", schedule |-> CHOOSE s \in Schedules : TRUE, stage |-> "idle"]

Init ==
    /\ now = 0 /\ up = TRUE
    /\ schedules = [s \in Schedules |-> Deleted]
    /\ rows = [i \in Runs |-> NoRow]
    /\ on = [t \in Targets |-> Nobody]
    /\ next = 0 /\ woken = FALSE
    /\ work = Free /\ request = NoRequest
    /\ begun = [i \in Runs |-> 0] /\ loose = {}
    /\ acts = 0 /\ faults = 0 /\ failed = FALSE

-----------------------------------------------------------------------------
(* What the code works out. *)

Earliest(T) == Min(T)

window_end(rule, t) == t + (IF rule.duration = 0 THEN Grace ELSE rule.duration)

latest_at_or_before(rule, t) == {s \in rule.starts : s <= t /\ \A u \in rule.starts : u <= t => u <= s}

next_after(rule, t) == {s \in rule.starts : s > t /\ \A u \in rule.starts : u > t => s <= u}

(* The row of a run that comes due. *)
new_run(rule, t, status) ==
    [status |-> status, end |-> IF rule.duration = 0 THEN 0 ELSE t + rule.duration,
     ok |-> {}, failed |-> {}]

(* What a tick that began at `t' starts or skips of a schedule it has read. *)
due(s, schedule, t) ==
    IF ~schedule.enabled THEN {}
    ELSE {u \in latest_at_or_before(schedule.rule, t + Lead) :
             window_end(schedule.rule, u) > schedule.saved /\ rows[<<s, u>>] = NoRow}

(* Mutant: the loop wakes at the start, not a lead before it. *)
look_at_start(schedule, t, until) ==
    Earliest({until} \cup (IF ~schedule.enabled THEN {} ELSE next_after(schedule.rule, t + Lead)))

(* When a tick looks again for a schedule's next start. *)
look_again(schedule, t, until) ==
    Earliest({until} \cup (IF ~schedule.enabled THEN {}
                           ELSE {u - Lead : u \in next_after(schedule.rule, t + Lead)}))

(* The rows of a schedule beyond the newest Kept, but for the running ones. *)
pruned(table, s) ==
    {i \in Runs : /\ i[1] = s /\ table[i].status \notin {"none", "running"}
                  /\ Cardinality({u \in Times : u > i[2] /\ table[<<s, u>>] # NoRow}) >= Kept}

(* Mutant: those that failed to start count as running. *)
RunningOrFailed == {i \in Runs : rows[i].status \in {"running", "failed"}}

Running == {i \in Runs : rows[i].status = "running"}

(* Whether a row is inserted: its schedule must still be there. *)
Insertable(i) == schedules[i[1]].exists /\ rows[i] = NoRow

(* Mutant: a run has no row before it has started. *)
insert_later(i, row) == UNCHANGED rows

schedule_run_insert(i, row) ==
    LET table == [rows EXCEPT ![i] = row]
    IN  rows' = [j \in Runs |-> IF j \in pruned(table, i[1]) THEN NoRow ELSE table[j]]

(* An update of a row that went with its schedule changes nothing. *)
schedule_run_update(i, row) ==
    rows' = IF rows[i] = NoRow THEN rows ELSE [rows EXCEPT ![i] = row]

-----------------------------------------------------------------------------
(* Stopping a run: what stop_run does, in the loop's tick or a stop_now,      *)
(* under the lock.                                                            *)

(* Each stop is a call that may fail; that is only logged.  A recording is    *)
(* stopped by its session, a channel whoever plays it.                        *)
StopCalls ==
    /\ up /\ work.stage = "stop"
    /\ LET stops == work.run.ok \cap (Recorded \cup StopAtEnd)
       IN  \E fail \in SUBSET stops :
             /\ faults + Cardinality(fail) <= MaxFaults
             /\ faults' = faults + Cardinality(fail)
             /\ on' = [t \in Targets |->
                         IF t \in stops \ fail /\ (t \in Channels \/ on[t] = work.id)
                         THEN Nobody ELSE on[t]]
             /\ loose' = loose \cup {<<t, work.id>> : t \in fail}
    /\ work' = [work EXCEPT !.stage = "stopped"]
    /\ UNCHANGED <<now, up, tables, loop, request, begun, acts, failed>>

(* Mutant: a request goes on as the loop would. *)
AfterEnds == [work EXCEPT !.stage = "ends", !.run = NoRow, !.id = <<>>]

(* What the lock's holder goes on with once it is done with a run: the loop   *)
(* with what is left of its tick, a request with its answer.                  *)
After ==
    IF work.by = "loop" THEN [work EXCEPT !.stage = "ends", !.run = NoRow, !.id = <<>>] ELSE Free

StopSaves ==
    /\ up /\ work.stage = "stopped"
    /\ schedule_run_update(work.id,
          [work.run EXCEPT !.status = IF work.run.failed # {} THEN "partial" ELSE "done"])
    /\ work' = After
    /\ IF work.by = "loop" THEN UNCHANGED <<woken, request>>
       ELSE /\ woken' = TRUE
            /\ request' = IF request.kind = "stop" THEN NoRequest
                          ELSE [request EXCEPT !.stage = "delete"]
    /\ UNCHANGED <<now, up, schedules, on, next, ghosts, counts>>

(* A tick that ends with an error is followed by another after a while. *)
TickFails ==
    /\ work' = Free
    /\ next' = now + Idle
    /\ failed' = TRUE

(* The write fails: the tick ends there, with its other runs not stopped and  *)
(* nothing started, or the request, with its schedule not deleted.  The row   *)
(* stays running, and its targets are stopped once more by a later tick.      *)
StopSaveFails ==
    /\ up /\ work.stage = "stopped" /\ faults < MaxFaults
    /\ faults' = faults + 1
    /\ \/ work.by = "loop" /\ TickFails /\ UNCHANGED request
       \/ work.by = "request" /\ work' = Free /\ request' = NoRequest /\ UNCHANGED <<next, failed>>
    /\ UNCHANGED <<now, up, tables, on, woken, ghosts, acts>>

-----------------------------------------------------------------------------
(* The loop. *)

Asleep == up /\ work = Free /\ ~woken /\ now < next

(* Its sleep is over, or a permit ends it: it reads the time and, as it holds *)
(* the lock, the rows of the runs to stop.                                    *)
TickBegins ==
    /\ up /\ work = Free /\ (woken \/ now >= next)
    /\ woken' = FALSE
    /\ LET over == {i \in Running : rows[i].end <= now}
       IN  work' = [Free EXCEPT !.by = "loop", !.stage = "ends", !.now = now,
                      !.runs = {<<i, rows[i]>> : i \in over},
                      !.next = Earliest({now + Idle} \cup {rows[i].end : i \in Running \ over})]
    /\ UNCHANGED <<now, up, tables, on, next, request, ghosts, counts>>

TickStops ==
    /\ up /\ work.stage = "ends"
    /\ \E r \in work.runs :
          work' = [work EXCEPT !.stage = "stop", !.id = r[1], !.run = r[2], !.runs = @ \ {r}]
    /\ UNCHANGED <<now, up, tables, on, loop, request, ghosts, counts>>

schedules_list ==
    /\ up /\ work.stage = "ends" /\ work.runs = {}
    /\ work' = [work EXCEPT !.stage = "list",
                            !.list = {<<s, schedules[s]>> : s \in {s \in Schedules : schedules[s].exists}}]
    /\ UNCHANGED <<now, up, tables, on, loop, request, ghosts, counts>>

(* The tick goes on with the rest of the list. *)
Listed(e) ==
    [work EXCEPT !.stage = "list", !.list = @ \ {e}, !.run = NoRow, !.id = <<>>,
                 !.next = look_again(e[2], work.now, @)]

NothingDue(e) ==
    /\ up /\ work.stage = "list" /\ e \in work.list /\ due(e[1], e[2], work.now) = {}
    /\ work' = Listed(e)
    /\ UNCHANGED <<now, up, tables, on, loop, request, ghosts, counts>>

(* An occurrence whose window has passed is only recorded as skipped; one     *)
(* still open has its row inserted before anything starts.  The row's         *)
(* schedule may have been deleted since the list was read.                    *)
ComesDue(e, u) ==
    /\ up /\ work.stage = "list" /\ e \in work.list /\ u \in due(e[1], e[2], work.now)
    /\ LET open == work.now < window_end(e[2].rule, u)
           row == new_run(e[2].rule, u, IF open THEN "running" ELSE "skipped")
       IN  IF ~Insertable(<<e[1], u>>) THEN TickFails /\ UNCHANGED <<rows, begun>>
           ELSE /\ schedule_run_insert(<<e[1], u>>, row)
                /\ begun' = IF open THEN [begun EXCEPT ![<<e[1], u>>] = @ + 1] ELSE begun
                /\ work' = IF open THEN [work EXCEPT !.stage = "record", !.id = <<e[1], u>>,
                                                     !.run = row, !.rule = e[2]]
                           ELSE Listed(e)
                /\ UNCHANGED <<next, failed>>
    /\ UNCHANGED <<now, up, schedules, on, woken, request, loose, acts, faults>>

(* Each recording is a call: it starts if its source is not recorded, and the *)
(* answer may be lost, in which case the run takes it to have failed.         *)
RecordCalls ==
    /\ up /\ work.stage = "record"
    /\ LET can == {t \in Recorded : on[t] = Nobody}
       IN  \E unheard \in SUBSET can, unreached \in SUBSET can :
             /\ unheard \cap unreached = {}
             /\ faults + Cardinality(unheard \cup unreached) <= MaxFaults
             /\ faults' = faults + Cardinality(unheard \cup unreached)
             /\ on' = [t \in Targets |-> IF t \in can \ unreached THEN work.id ELSE on[t]]
             /\ loose' = loose \cup {<<t, work.id>> : t \in unheard}
             /\ work' = [work EXCEPT !.stage = "play",
                            !.run.ok = can \ (unheard \cup unreached),
                            !.run.failed = (Recorded \ can) \cup unheard \cup unreached]
    /\ UNCHANGED <<now, up, tables, loop, request, begun, acts, failed>>

(* Channels have no synchronized start: they are told to play on time.  Here  *)
(* too the answer may be lost.                                                *)
PlayCalls ==
    /\ up /\ work.stage = "play" /\ now >= work.id[2]
    /\ \E unheard \in SUBSET Channels, unreached \in SUBSET Channels :
          /\ unheard \cap unreached = {}
          /\ faults + Cardinality(unheard \cup unreached) <= MaxFaults
          /\ faults' = faults + Cardinality(unheard \cup unreached)
          /\ on' = [t \in Targets |-> IF t \in Channels \ unreached THEN work.id ELSE on[t]]
          /\ loose' = loose \cup {<<t, work.id>> : t \in unheard}
          /\ work' = [work EXCEPT !.stage = "save",
                         !.run.ok = @ \cup (Channels \ (unheard \cup unreached)),
                         !.run.failed = @ \cup unheard \cup unreached]
    /\ UNCHANGED <<now, up, tables, loop, request, begun, acts, failed>>

(* Mutant: a run with a target that failed is over at once. *)
status_partial(run) ==
    IF run.ok = {} THEN "failed"
    ELSE IF run.failed # {} THEN "partial"
    ELSE IF run.end # 0 THEN "running" ELSE "done"

status(run) ==
    IF run.ok = {} THEN "failed"
    ELSE IF run.end # 0 THEN "running"
    ELSE IF run.failed # {} THEN "partial" ELSE "done"

(* The row gets its targets only now. *)
StartSaves ==
    /\ up /\ work.stage = "save"
    /\ \/ /\ schedule_run_update(work.id, [work.run EXCEPT !.status = status(work.run)])
          /\ work' = Listed(<<work.id[1], work.rule>>)
          /\ loose' = loose \cup {<<t, work.id>> : t \in 
                           {t \in work.run.ok : work.run.end = 0 \/ rows[work.id] = NoRow}}
          /\ UNCHANGED <<next, faults, failed>>
       \/ /\ faults < MaxFaults
          /\ faults' = faults + 1
          /\ loose' = loose \cup {<<t, work.id>> : t \in work.run.ok}
          /\ TickFails
          /\ UNCHANGED rows
    /\ UNCHANGED <<now, up, schedules, on, woken, request, begun, acts>>

TickEnds ==
    /\ up /\ work.stage = "list" /\ work.list = {}
    /\ work' = Free
    /\ next' = work.next
    /\ failed' = FALSE
    /\ UNCHANGED <<now, up, tables, on, woken, request, ghosts, acts, faults>>

-----------------------------------------------------------------------------
(* Requests. *)

(* A schedule is created or changed; its runs stay. *)
save_schedule(s, rule, enabled) ==
    /\ up /\ acts < MaxActs
    /\ acts' = acts + 1
    /\ schedules' = [schedules EXCEPT ![s] =
                       [saved |-> now, enabled |-> enabled, rule |-> rule, exists |-> TRUE]]
    /\ woken' = TRUE
    /\ UNCHANGED <<now, up, rows, on, next, work, request, ghosts, faults, failed>>

RequestStop(s, kind) ==
    /\ up /\ request = NoRequest /\ schedules[s].exists
    /\ kind = "delete" => acts < MaxActs
    /\ acts' = IF kind = "delete" THEN acts + 1 ELSE acts
    /\ request' = [kind |-> kind, schedule |-> s, stage |-> "lock"]
    /\ UNCHANGED <<now, up, tables, on, loop, work, ghosts, faults, failed>>

(* It ends one running occurrence, if there is one. *)
stop_now ==
    /\ up /\ request.stage = "lock" /\ work = Free
    /\ LET running == {i \in Running : i[1] = request.schedule}
       IN  \/ /\ running = {}
              /\ request' = IF request.kind = "stop" THEN NoRequest
                            ELSE [request EXCEPT !.stage = "delete"]
              /\ UNCHANGED work
           \/ \E i \in running :
                 /\ work' = [Free EXCEPT !.by = "request", !.stage = "stop", !.id = i, !.run = rows[i]]
                 /\ request' = [request EXCEPT !.stage = "stopping"]
    /\ UNCHANGED <<now, up, tables, on, loop, ghosts, counts>>

(* A deleted schedule's runs go with it; one saved again is another.          *)
delete_schedule ==
    /\ up /\ request.stage = "delete"
    /\ LET s == request.schedule
       IN  /\ schedules' = [schedules EXCEPT ![s] = Deleted]
           /\ rows' = [i \in Runs |-> IF i[1] = s THEN NoRow ELSE rows[i]]
           /\ begun' = [i \in Runs |-> IF i[1] = s THEN 0 ELSE begun[i]]
           /\ loose' = loose \cup {p \in Targets \X Running : p[2][1] = s /\ p[1] \in rows[p[2]].ok}
    /\ woken' = TRUE
    /\ request' = NoRequest
    /\ UNCHANGED <<now, up, on, next, work, counts>>

(* A client that goes away drops its handler, and the lock if it has it.      *)
DropRequest ==
    /\ up /\ request # NoRequest
    /\ request' = NoRequest
    /\ work' = IF work.by = "request" THEN Free ELSE work
    /\ UNCHANGED <<now, up, tables, on, loop, ghosts, counts>>

-----------------------------------------------------------------------------
(* The nodes and the machine. *)

(* A channel plays for whoever asked last: only recordings are told apart.    *)
PersonStops(t) ==
    /\ on[t] # Nobody
    /\ on' = [on EXCEPT ![t] = Nobody]
    /\ UNCHANGED <<now, up, tables, loop, work, request, ghosts, counts>>

PersonStarts(t) ==
    /\ on[t] = Nobody /\ acts < MaxActs
    /\ acts' = acts + 1
    /\ on' = [on EXCEPT ![t] = Person]
    /\ UNCHANGED <<now, up, tables, loop, work, request, ghosts, faults, failed>>

(* Calls take time, as sleep does; the database and the loop itself take none. *)
TimePasses ==
    /\ now < MaxTime /\ (up => work.stage \in {"stop", "record", "play", "save"} \/ Asleep)
    /\ now' = now + 1
    /\ UNCHANGED <<up, tables, on, loop, work, request, ghosts, counts>>

(* What a run had started, but not saved, is not known after a crash.         *)
Crash ==
    /\ up /\ faults < MaxFaults
    /\ faults' = faults + 1
    /\ up' = FALSE
    /\ loose' = loose \cup {<<t, work.id>> : t \in
                 IF work.stage \in {"play", "save"} THEN work.run.ok ELSE {}}
    /\ work' = Free /\ request' = NoRequest /\ woken' = FALSE
    /\ UNCHANGED <<now, tables, on, next, begun, acts, failed>>

Restart ==
    /\ ~up
    /\ up' = TRUE /\ next' = now
    /\ UNCHANGED <<now, tables, on, woken, work, request, ghosts, counts>>

Next ==
    \/ TickBegins \/ TickStops \/ StopCalls \/ StopSaves \/ StopSaveFails
    \/ schedules_list
    \/ \E e \in work.list : NothingDue(e) \/ \E u \in Times : ComesDue(e, u)
    \/ RecordCalls \/ PlayCalls \/ StartSaves \/ TickEnds
    \/ \E s \in Schedules : \/ \E rule \in Rules, enabled \in BOOLEAN : save_schedule(s, rule, enabled)
                            \/ \E kind \in {"stop", "delete"} : RequestStop(s, kind)
    \/ stop_now \/ delete_schedule \/ DropRequest
    \/ \E t \in Recorded : PersonStops(t) \/ PersonStarts(t)
    \/ TimePasses \/ Crash \/ Restart

Spec == Init /\ [][Next]_vars

-----------------------------------------------------------------------------
(* Properties. *)

Rows == [status : Statuses, end : Nat, ok : SUBSET Targets, failed : SUBSET Targets]

Saves == [saved : Times, enabled : BOOLEAN, rule : Rules, exists : BOOLEAN]

Starting == {"record", "play", "save"}      \* a run that came due

Stopping == {"stop", "stopped"}             \* a run that is ended

Works == [by : {"nobody", "loop", "request"},
          stage : {"free", "ends", "list"} \cup Starting \cup Stopping,
          now : Times, next : Nat, runs : SUBSET (Runs \X Rows),
          list : SUBSET (Schedules \X Saves), run : Rows, id : Runs \cup {<<>>}, rule : Saves]

Requests == [kind : {"none", "stop", "delete"}, schedule : Schedules,
             stage : {"idle", "lock", "stopping", "delete"}]

TypeOK ==
    /\ now \in Times /\ up \in BOOLEAN /\ woken \in BOOLEAN /\ next \in Nat
    /\ schedules \in [Schedules -> Saves] /\ rows \in [Runs -> Rows]
    /\ on \in [Targets -> Runs \cup {Nobody, Person}]
    /\ work \in Works /\ request \in Requests
    /\ work.by = "nobody" <=> work.stage = "free"
    /\ work.by = "request" <=> request.stage = "stopping"
    /\ work.by = "request" => work.stage \in Stopping
    /\ begun \in [Runs -> Nat] /\ loose \subseteq Targets \X Runs

(* An occurrence is begun, and so starts its targets, at most once: whatever  *)
(* is saved, pruned, retried or lost in a crash ("inserted before anything    *)
(* starts, so it can't run twice", scheduler.rs:7).                           *)
OncePerOccurrence == \A i \in Runs : begun[i] <= 1

(* What a run started and is to stop is on a row that says so, and is         *)
(* running, until it is stopped: but for a call whose answer was lost, a      *)
(* start cut short before it was saved and a schedule deleted with it ("a run  *)
(* remembers the recordings it started, so it still stops them after a        *)
(* restart", scheduler.rs:8).                                                 *)
NothingForgotten ==
    \A t \in Recorded \cup StopAtEnd, i \in Runs :
        on[t] = i /\ <<t, i>> \notin loose
        => \/ rows[i].status = "running" /\ t \in rows[i].ok
           \/ work.id = i /\ work.stage \in {"play", "save"}

Accounted == TypeOK /\ NothingForgotten

(* While the loop sleeps nothing is due: every change woke it, it sleeps no   *)
(* longer than to the next start's lead, and a run outlasts its end by less   *)
(* than its longest sleep.                                                    *)
NothingDueAsleep ==
    Asleep /\ ~failed =>
        /\ \A s \in Schedules : schedules[s].exists => due(s, schedules[s], now) = {}
        /\ \A i \in Running : rows[i].end + Idle > now

(* What is said of an occurrence in the end is never taken back: a run that   *)
(* is over does not run again, and one skipped stays skipped, until its       *)
(* schedule is deleted or the row is pruned.                                  *)
FinalStays ==
    [][\A i \in Runs : rows[i].status \in Statuses \ {"none", "running"}
          => rows'[i] \in {rows[i], NoRow}]_vars

(* "Delete a schedule, stopping what its running occurrence started first"    *)
(* (api.rs:651): nothing its runs started still runs once it is deleted.      *)
DeletesNothingRunning ==
    [][delete_schedule =>
          \A t \in Recorded \cup StopAtEnd, i \in Runs :
              on[t] = i /\ i[1] = request.schedule => <<t, i>> \in loose]_vars
-----------------------------------------------------------------------------
(* What these rest on, step by step.  Of the constants: by when Kept later    *)
(* occurrences have come due, a rule's occurrence is over or the rule has a   *)
(* later one.  The code keeps 200 rows, which a schedule that is edited again *)
(* and again within one occurrence's window can use up.                       *)
WindowsClose ==
    \A r \in Rules : \A u \in r.starts, t \in Times :
        /\ u + Kept \in Times /\ u + Kept <= t + Lead
        /\ window_end(r, u) > t
        => \E v \in r.starts : u < v /\ v <= t + Lead

(* When the tick under way, or the next, begins. *)
Tick == IF work.by = "loop" THEN work.now ELSE now

(* The holder of the lock, and what it has read. *)
WorkIsShaped ==
    /\ up \/ work = Free
    /\ work.by = "nobody" => work = Free
    /\ work.stage \in {"ends", "list"} \cup Starting => work.by = "loop"
    /\ work.by = "loop" => work.now <= now /\ work.next <= work.now + Idle
    /\ work.stage \in Starting \cup Stopping => work.id \in Runs /\ work.run.status = "running"
    /\ work.runs # {} => work.stage \in {"ends"} \cup Stopping
    /\ work.list # {} => work.stage \in {"list"} \cup Starting
    /\ \A e, f \in work.list : e[1] = f[1] => e = f

(* The runs to stop are as their rows are, unless the rows are gone. *)
StopsWhatRuns ==
    /\ \A r \in work.runs : r[2].status = "running" /\ rows[r[1]] \in {NoRow, r[2]}
    /\ \A q, r \in work.runs : q[1] = r[1] => q = r
    /\ work.stage \in Stopping =>
          /\ rows[work.id] \in {NoRow, work.run}
          /\ \A r \in work.runs : r[1] # work.id
    /\ work.stage = "stopped" =>
          \A t \in Recorded \cup StopAtEnd : on[t] = work.id => <<t, work.id>> \in loose

(* The run that starts has a row without its targets, or its schedule is gone. *)
StartsWhatIsDue ==
    work.stage \in Starting =>
    /\ <<work.id[1], work.rule>> \in work.list
    /\ work.id[2] \in latest_at_or_before(work.rule.rule, work.now + Lead)
    /\ \/ rows[work.id] = NoRow /\ woken
       \/ rows[work.id] = [work.run EXCEPT !.ok = {}, !.failed = {}]
    /\ work.run.end # 0 => work.run.end > work.now
    /\ work.stage = "record" => work.run.ok = {}
    /\ work.stage # "record" =>
          \A t \in Recorded \cup StopAtEnd :
              on[t] = work.id /\ <<t, work.id>> \notin loose => t \in work.run.ok

(* The list is that of the table, but for changes that wake the loop again.   *)
ListIsRecent ==
    \A e \in work.list :
        /\ e[2].exists
        /\ \/ schedules[e[1]] = e[2]
           \/ woken /\ (schedules[e[1]].exists => schedules[e[1]].saved >= work.now)

Known(s) ==
    (IF schedules[s].exists THEN {schedules[s]} ELSE {})
        \cup {e[2] : e \in {e \in work.list : e[1] = s}}

(* A row is of a time that has come, and of the schedule as it is or from     *)
(* before it was saved so ...                                                 *)
RowIsOf(E, u) == u \in E.rule.starts \/ u <= E.saved + Lead

RowsHaveCome ==
    \A i \in Runs :
        /\ ~schedules[i[1]].exists => rows[i] = NoRow /\ begun[i] = 0
        /\ rows[i] # NoRow => i[2] <= Tick + Lead /\ \A E \in Known(i[1]) : RowIsOf(E, i[2])

(* ... so that an occurrence whose row was pruned is not due again. *)
PassedFor(E, u) ==
    u \in E.rule.starts /\ window_end(E.rule, u) > E.saved
    => \E v \in E.rule.starts : u < v /\ v <= Tick + Lead

PrunedIsPast ==
    \A i \in Runs : begun[i] > 0 /\ rows[i] = NoRow =>
        /\ i[2] + Kept \in Times /\ i[2] + Kept <= Tick + Lead
        /\ \A E \in Known(i[1]) : PassedFor(E, i[2])

(* Nothing of a schedule is due at a time, or from the one until the other. *)
Quiet(s, t) == schedules[s].exists => due(s, schedules[s], t) = {}

QuietUntil(s, from, until) == \A t \in Int : from <= t /\ t < until => Quiet(s, t)

(* What the loop has dealt with stays so until it looks again. *)
SleepIsQuiet ==
    up /\ work.by # "loop" /\ ~woken /\ ~failed =>
        /\ \A s \in Schedules : QuietUntil(s, now, next)
        /\ \A i \in Running : next <= now \/ next <= rows[i].end + Idle

TickIsQuiet ==
    work.by = "loop" =>
        /\ ~woken /\ work.stage \in {"list"} \cup Starting =>
              \A s \in Schedules :
                  (\A e \in work.list : e[1] # s) => QuietUntil(s, work.now, work.next)
        /\ \A i \in Running :
              \/ work.next <= rows[i].end + Idle
              \/ work.stage \in Starting \cup Stopping /\ work.id = i
              \/ \E r \in work.runs : r[1] = i

IInv ==
    /\ TypeOK /\ WorkIsShaped /\ StopsWhatRuns /\ StartsWhatIsDue /\ ListIsRecent
    /\ NothingForgotten
    /\ RowsHaveCome /\ PrunedIsPast /\ OncePerOccurrence
    /\ SleepIsQuiet /\ TickIsQuiet
==========================================================================
