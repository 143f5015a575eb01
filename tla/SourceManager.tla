-------------------------- MODULE SourceManager --------------------------
(***************************************************************************)
(* How a node keeps a monitor on each of its sources and a leg on each     *)
(* replay buffer.  What starts or stops a pipeline is a Work: planned      *)
(* under the source manager's lock, run without it and applied under it    *)
(* again, by which time it may be stale.  Rebuilds of the source list hold *)
(* REBUILD from reading the configured sources until their Work has been   *)
(* applied; the Works of replay buffers are beside them.  The errors kept  *)
(* for display (start_errors, Replay.error) are left out, and so are       *)
(* channel outputs and NDI senders, sources that come without a request.   *)
(***************************************************************************)
EXTENDS Integers, FiniteSets, TLC

CONSTANTS
    Sources,     \* source ids
    Codecs,      \* replay codecs
    NoCodec,     \* the codec of an index nothing was recorded into
    Recovery,    \* the recovery loop
    Clients,     \* requests, and the task that follows the node's clock
    MaxEdits,    \* bound: changes of sources and replay buffers
    MaxIndexes,  \* bound: replay indexes made
    MaxClocks,   \* bound: changes of the node's clock
    MaxFails     \* bound: starts that fail, and monitors and legs that do later

ASSUME ConstantsAssumption ==
    /\ NoCodec \notin Codecs
    /\ Recovery \notin Clients
    /\ {MaxEdits, MaxIndexes, MaxClocks, MaxFails} \subseteq Nat

VARIABLES
    wanted,    \* source -> its configured version in the database; 0: none
    unheard,   \* sources whose change was saved by a request then dropped
    sources,   \* source -> its candidate: listed, its number and its version
    monitor,   \* source -> its monitor, numbered as they start; 0: none
    made,      \* source -> monitors started so far
    broken,    \* sources whose monitor has failed
    running,   \* source -> the monitors whose pipelines run
    torn,      \* source -> those of them a teardown still has to stop
    on,        \* source -> the clock its monitor runs on
    clock,     \* the node's clock, numbered as they change
    recorded,  \* sources with a recording, or channels that play
    replay,    \* source -> its replay buffer
    index,     \* index -> what it lists, and the codec and clock of that
    indexes,   \* indexes made so far
    disk,      \* source -> the indexes whose listed segments its folder has
    work,      \* task -> the rebuild or Work it has under way
    edits,     \* changes so far
    fails      \* failures so far

pipes  == <<running, torn>>
life   == <<monitor, made, broken, pipes>>
buffer == <<index, indexes, disk>>
counts == <<edits, fails>>
vars == <<wanted, unheard, sources, life, on, clock, recorded, replay, buffer, work, counts>>

Workers == Clients \cup {Recovery}
Indexes == 1..MaxIndexes
Stages == {"idle",     \* nothing
           "deleted",  \* a source; its replay buffer is to go
           "asked",    \* rebuild_sources waits for REBUILD
           "read",     \* it has it, and the configured sources
           "planned",  \* a Work, to stop what it replaces
           "stopped",  \* ... and to start what is new
           "applied"}  \* ... and to drop what was turned away

(* A replay leg: what it records into, how, and from which monitor. *)
Legs == [index : 0..MaxIndexes, codec : Codecs \cup {NoCodec}, monitor : Nat,
         failed : BOOLEAN]
NoLeg == [index |-> 0, codec |-> NoCodec, monitor |-> 0, failed |-> FALSE]
Replays == [index : 0..MaxIndexes, codec : Codecs \cup {NoCodec}, leg : Legs,
            starting : BOOLEAN]
NoReplay == [index |-> 0, codec |-> NoCodec, leg |-> NoLeg, starting |-> FALSE]
(* One source's part of a Work.  todo: what is still to be started; source:   *)
(* the candidate to start a monitor of, or 0; monitor: the one it started;    *)
(* clock: that of the monitor it starts or feeds from; index: the replay      *)
(* index to start a leg on, or 0; feed: the running monitor to feed it from,  *)
(* if it starts none itself; clear: its folder is to be deleted first.        *)
Jobs == [todo : SUBSET {"monitor", "replay"}, source : Nat, monitor : Nat, clock : Nat,
         index : 0..MaxIndexes, codec : Codecs \cup {NoCodec}, feed : Nat,
         clear : BOOLEAN, leg : Legs]
NoJob == [todo |-> {}, source |-> 0, monitor |-> 0, clock |-> 0, index |-> 0,
          codec |-> NoCodec, feed |-> 0, clear |-> FALSE, leg |-> NoLeg]
(* locked: it holds REBUILD; then: a rebuild follows it; deleted: the source  *)
(* its request deleted; drop: the leg of a source it stops first; gone: the   *)
(* index of a source's buffer it removes, or 0.                               *)
Works == [stage : Stages, locked : BOOLEAN, then : BOOLEAN, deleted : SUBSET Sources,
          configs : [Sources -> Nat],
          drop : [Sources -> Legs], gone : [Sources -> 0..MaxIndexes], job : [Sources -> Jobs]]
NoWork == [stage |-> "idle", locked |-> FALSE, then |-> FALSE, deleted |-> {},
           configs |-> [r \in Sources |-> 0], drop |-> [r \in Sources |-> NoLeg],
           gone |-> [r \in Sources |-> 0], job |-> [r \in Sources |-> NoJob]]
Emptied == [codec |-> NoCodec, clock |-> 0, lists |-> FALSE]

TypeOK ==
    /\ wanted \in [Sources -> Nat] /\ unheard \in SUBSET Sources
    /\ sources \in [Sources -> [listed : BOOLEAN, id : Nat, version : Nat]]
    /\ monitor \in [Sources -> Nat] /\ made \in [Sources -> Nat]
    /\ broken \in SUBSET Sources
    /\ running \in [Sources -> SUBSET Nat] /\ torn \in [Sources -> SUBSET Nat]
    /\ on \in [Sources -> Nat] /\ clock \in Nat
    /\ recorded \in SUBSET Sources
    /\ replay \in [Sources -> Replays]
    /\ index \in [Indexes -> [codec : Codecs \cup {NoCodec}, clock : Nat,
                              lists : BOOLEAN]]
    /\ indexes \in 0..MaxIndexes
    /\ disk \in [Sources -> SUBSET Indexes]
    /\ work \in [Workers -> Works]
    /\ \A w \in Workers : /\ work[w].locked => work[w].stage \notin {"idle", "deleted", "asked"}
                          /\ work[w].stage = "read" => work[w].locked
    /\ edits \in Nat /\ fails \in Nat

Init ==
    /\ wanted = [r \in Sources |-> 0] /\ unheard = {}
    /\ sources = [r \in Sources |-> [listed |-> FALSE, id |-> 0, version |-> 0]]
    /\ monitor = [r \in Sources |-> 0] /\ made = [r \in Sources |-> 0]
    /\ broken = {}
    /\ running = [r \in Sources |-> {}] /\ torn = [r \in Sources |-> {}]
    /\ on = [r \in Sources |-> 0] /\ clock = 1
    /\ recorded = {}
    /\ replay = [r \in Sources |-> NoReplay]
    /\ index = [i \in Indexes |-> Emptied] /\ indexes = 0
    /\ disk = [r \in Sources |-> {}]
    /\ work = [w \in Workers |-> NoWork]
    /\ edits = 0 /\ fails = 0

-----------------------------------------------------------------------------

is_healthy(r) == monitor[r] # 0 /\ r \notin broken

(* Mutant: a recording is no reason to wait. *)
on_old_clock(r) == monitor[r] # 0 /\ on[r] # clock

should_migrate(r) == monitor[r] # 0 /\ on[r] # clock /\ r \notin recorded

recording(b) == b.leg # NoLeg /\ ~b.leg.failed

(* Mutant: only monitors are looked at. *)
lacks_monitor ==
    \E r \in Sources : sources[r].listed /\ (~is_healthy(r) \/ should_migrate(r))

needs_rescan ==
    \E r \in Sources :
        \/ sources[r].listed /\ (~is_healthy(r) \/ should_migrate(r))
        \/ /\ replay[r].index # 0 /\ monitor[r] # 0
           /\ ~replay[r].starting /\ ~recording(replay[r])

(* Mutant: rebuilds don't wait for each other. *)
rebuild_now(w) == TRUE

rebuild_free(w) == \A v \in Workers : ~work[v].locked

(* A buffer's leg is to be replaced, or stopped if nothing can feed one: m is *)
(* its source's monitor, starts whether the same Work starts one.             *)
(* Mutant: whether or not a Work is starting one.                             *)
resync(b, m, starts) ==
    /\ b.index # 0
    /\ starts \/ m = 0 \/ ~recording(b) \/ b.leg.monitor # m

out_of_sync(b, m, starts) ==
    /\ b.index # 0 /\ ~b.starting
    /\ starts \/ m = 0 \/ ~recording(b) \/ b.leg.monitor # m

(* sync_replays, for buffers b and monitors m, in a Work that starts those in *)
(* added.  What is left of the buffers, the legs to drop first, and whose are *)
(* to be started.                                                             *)
Resynced(b, m, added) ==
    LET off == {r \in Sources : out_of_sync(b[r], m[r], r \in added)}
        fed == {r \in off : r \in added \/ m[r] # 0}
    IN  [buffers |-> [r \in Sources |->
                        IF r \in off THEN [b[r] EXCEPT !.leg = NoLeg,
                                                       !.starting = (r \in fed)]
                        ELSE b[r]],
         drop |-> [r \in Sources |-> IF r \in off THEN b[r].leg ELSE NoLeg],
         starts |-> fed]

(* What a Work starts: monitors of the sources in added, of candidates ids, on *)
(* clocks, and the legs of buffers b in starts, from monitors m or, if added,  *)
(* from those; the folders in clears are emptied first.                        *)
Planned(b, m, ids, clocks, added, starts, clears) ==
    [r \in Sources |->
       IF r \notin added \cup starts THEN NoJob
       ELSE [todo |-> (IF r \in added THEN {"monitor"} ELSE {})
                         \cup (IF r \in starts THEN {"replay"} ELSE {}),
             source |-> IF r \in added THEN ids[r] ELSE 0,
             monitor |-> 0,
             clock |-> clocks[r],
             index |-> IF r \in starts THEN b[r].index ELSE 0,
             codec |-> IF r \in starts THEN b[r].codec ELSE NoCodec,
             feed |-> IF r \in added THEN 0 ELSE m[r],
             clear |-> (r \in clears),
             leg |-> NoLeg]]

is_empty(drop, job) ==
    \A r \in Sources : drop[r] = NoLeg /\ job[r] = NoJob

(* Mutant: REBUILD is kept. *)
LeftLocked(w) ==
    [NoWork EXCEPT !.stage = IF work[w].then THEN "asked" ELSE "idle",
                   !.locked = work[w].locked]

(* A finished Work: a removal's rebuild is still to come. *)
Finished(w) == [NoWork EXCEPT !.stage = IF work[w].then THEN "asked" ELSE "idle"]

(* An index is dropped with its last holder: a buffer, or a Work that removes  *)
(* one or starts its leg.                                                      *)
HeldWithout(i, w) ==
    \/ \E r \in Sources : replay[r].index = i
    \/ \E v \in Workers \ {w}, r \in Sources : i \in {work[v].gone[r], work[v].job[r].index}

(* The legs that may record for r: in place, still to be dropped, or started   *)
(* by a Work.                                                                  *)
LiveLegs(r) ==
    ({replay[r].leg} \cup UNION {{work[w].drop[r], work[w].job[r].leg} : w \in Workers})
       \ {NoLeg}

(* A Work lets go of the index of each source, if any; one no longer held takes *)
(* the folder with it that it shares with any later index of the source.       *)
LetGo(w, of) ==
    LET last == {r \in Sources : of[r] # 0 /\ ~HeldWithout(of[r], w)}
    IN  /\ index' = [i \in Indexes |-> IF \E r \in last : of[r] = i THEN Emptied ELSE index[i]]
        /\ disk' = [r \in Sources |-> IF r \in last THEN {} ELSE disk[r]]
        /\ UNCHANGED indexes

-----------------------------------------------------------------------------
(* Rebuilding the list of sources. *)

(* A source is added or changed; its request may be dropped before it asks for *)
(* a rebuild.                                                                  *)
EditSource(w, r, version) ==
    /\ work[w].stage = "idle" /\ w \in Clients
    /\ edits < MaxEdits /\ version # wanted[r]
    /\ wanted' = [wanted EXCEPT ![r] = version]
    /\ edits' = edits + 1
    /\ \/ work' = [work EXCEPT ![w].stage = "asked"] /\ unheard' = unheard \ {r}
       \/ unheard' = unheard \cup {r} /\ UNCHANGED work
    /\ UNCHANGED <<sources, life, on, clock, recorded, replay, buffer, fails>>

(* A source is deleted; RemoveReplay follows. *)
DeleteSource(w, r) ==
    /\ work[w].stage = "idle" /\ w \in Clients
    /\ edits < MaxEdits /\ wanted[r] # 0
    /\ wanted' = [wanted EXCEPT ![r] = 0]
    /\ edits' = edits + 1
    /\ work' = [work EXCEPT ![w].stage = "deleted", ![w].deleted = {r}]
    /\ UNCHANGED <<unheard, sources, life, on, clock, recorded, replay, buffer, fails>>

(* A request is dropped between its steps: what it has spawned goes on. *)
DropRequest(w) ==
    /\ work[w].stage = "deleted" \/ work[w].then
    /\ unheard' = unheard \cup work[w].deleted
    /\ work' = [work EXCEPT ![w] = IF work[w].stage = "deleted" THEN NoWork
                                   ELSE [work[w] EXCEPT !.then = FALSE]]
    /\ UNCHANGED <<wanted, sources, life, on, clock, recorded, replay, buffer, counts>>

(* The node joins another clock domain; only idle monitors move now. *)
set_clock(w) ==
    /\ UNCHANGED <<wanted, unheard, sources, life, on, recorded, replay, buffer, counts>>
    /\ work[w].stage = "idle" /\ w \in Clients /\ clock <= MaxClocks
    /\ clock' = clock + 1
    /\ work' = [work EXCEPT ![w].stage = IF needs_rescan' THEN "asked" ELSE "idle"]

(* The recovery loop wakes up. *)
Recover ==
    /\ work[Recovery].stage = "idle" /\ needs_rescan
    /\ work' = [work EXCEPT ![Recovery].stage = "asked"]
    /\ UNCHANGED <<wanted, unheard, sources, life, on, clock, recorded, replay, buffer,
                   counts>>

(* REBUILD is taken and the configured sources are read. *)
ReadConfigs(w) ==
    /\ work[w].stage = "asked" /\ rebuild_free(w)
    /\ work' = [work EXCEPT ![w].stage = "read", ![w].locked = TRUE, ![w].configs = wanted]
    /\ unheard' = {}
    /\ UNCHANGED <<wanted, sources, life, on, clock, recorded, replay, buffer, counts>>

(* Mutant: a changed source is kept as it is. *)
stays(r, version) == is_healthy(r) /\ ~should_migrate(r)

unchanged(r, version) ==
    /\ sources[r].version = version
    /\ is_healthy(r) /\ ~should_migrate(r)

(* Sources that went away or aren't kept lose their monitor and their leg.  A  *)
(* teardown, on a task of its own, ends the recordings that were under way     *)
(* there (ended; not those still starting, nor what a channel plays), and then *)
(* stops the pipeline, which runs on until then.  Those that came, changed,    *)
(* failed or are to move to another clock are to start a monitor.              *)
scan(w) ==
    LET configs == work[w].configs
        kept == {r \in Sources : configs[r] # 0 /\ sources[r].listed
                                 /\ unchanged(r, configs[r])}
        gone == {r \in Sources : sources[r].listed} \ kept
        added == {r \in Sources : configs[r] # 0} \ kept
        left == [r \in Sources |-> IF r \in gone THEN 0 ELSE monitor[r]]
        ids == [r \in Sources |-> sources[r].id + 1]
        clocks == [r \in Sources |-> IF r \in added THEN clock ELSE on[r]]
        synced == Resynced([r \in Sources |-> IF r \in gone
                                              THEN [replay[r] EXCEPT !.leg = NoLeg]
                                              ELSE replay[r]], left, added)
        drop == [r \in Sources |-> IF r \in gone THEN replay[r].leg ELSE synced.drop[r]]
        job == Planned(replay, left, ids, clocks, added, synced.starts, {})
    IN  /\ work[w].stage = "read"
        /\ sources' = [r \in Sources |->
              IF r \in added THEN [listed |-> TRUE, id |-> ids[r], version |-> configs[r]]
              ELSE IF r \in kept THEN sources[r]
              ELSE [listed |-> FALSE, id |-> sources[r].id, version |-> 0]]
        /\ monitor' = left
        /\ broken' = broken \ gone
        /\ torn' = [r \in Sources |-> IF r \in gone THEN torn[r] \cup ({monitor[r]} \ {0})
                                      ELSE torn[r]]
        /\ on' = [r \in Sources |-> IF r \in gone THEN 0 ELSE on[r]]
        /\ \E ended \in SUBSET (gone \cap recorded) : recorded' = recorded \ ended
        /\ replay' = synced.buffers
        /\ work' = [work EXCEPT ![w] =
              IF is_empty(drop, job) THEN Finished(w)
              ELSE [NoWork EXCEPT !.stage = "planned", !.locked = TRUE,
                                  !.drop = drop, !.job = job]]
        /\ UNCHANGED <<wanted, unheard, made, running, clock, buffer, counts>>

(* A teardown has ended the recordings, and stops the pipeline. *)
TearDown(r, m) ==
    /\ m \in torn[r]
    /\ torn' = [torn EXCEPT ![r] = @ \ {m}]
    /\ running' = [running EXCEPT ![r] = @ \ {m}]
    /\ UNCHANGED <<wanted, unheard, sources, monitor, made, broken, on, clock, recorded, replay,
                   buffer, work, counts>>

-----------------------------------------------------------------------------
(* Replay buffers. *)

(* A source is given a replay buffer, or its buffer another codec (c).  Its   *)
(* source may not be listed: a buffer is also restored at start-up, and the   *)
(* request only looked for the source before.                                 *)
set_replay(w, r, c) ==
    LET new == replay[r].index = 0
        anew == replay[r].codec # c
        set == [replay EXCEPT ![r] =
                  [index |-> IF new THEN indexes + 1 ELSE @.index, codec |-> c,
                   leg |-> IF anew THEN NoLeg ELSE @.leg, starting |-> @.starting]]
        synced == Resynced(set, monitor, {})
        fresh == IF new THEN {r} \ synced.starts ELSE {}
        drop == [q \in Sources |-> IF q = r /\ anew THEN replay[r].leg ELSE synced.drop[q]]
        job == Planned(set, monitor, monitor, on, {}, synced.starts \cup fresh, fresh)
    IN  /\ work[w].stage = "idle" /\ w \in Clients /\ edits < MaxEdits
        /\ new => indexes < MaxIndexes
        /\ edits' = edits + 1
        /\ indexes' = IF new THEN indexes + 1 ELSE indexes
        /\ replay' = [q \in Sources |-> IF q \in fresh
                                        THEN [synced.buffers[q] EXCEPT !.starting = TRUE]
                                        ELSE synced.buffers[q]]
        /\ work' = IF is_empty(drop, job) THEN work
                   ELSE [work EXCEPT ![w] = [NoWork EXCEPT !.stage = "planned",
                                                           !.drop = drop, !.job = job]]
        /\ UNCHANGED <<wanted, unheard, sources, life, on, clock, recorded, index, disk,
                       fails>>

(* A buffer is removed, itself or with its source, and the list rebuilt. *)
RemoveReplay(w, r) ==
    /\ \/ /\ work[w].stage = "idle" /\ w \in Clients
          /\ replay[r].index # 0 /\ edits < MaxEdits
          /\ edits' = edits + 1
       \/ /\ work[w].stage = "deleted" /\ work[w].deleted = {r}
          /\ UNCHANGED edits
    /\ replay' = [replay EXCEPT ![r] = NoReplay]
    /\ work' = [work EXCEPT ![w] =
          IF replay[r].index = 0 THEN [NoWork EXCEPT !.stage = "asked"]
          ELSE [NoWork EXCEPT !.stage = "planned", !.then = TRUE,
                              !.deleted = work[w].deleted,
                              !.drop[r] = replay[r].leg, !.gone[r] = replay[r].index]]
    /\ UNCHANGED <<wanted, unheard, sources, life, on, clock, recorded, buffer, fails>>

-----------------------------------------------------------------------------
(* Running a Work, and applying what it started. *)

(* What it replaces is stopped before anything starts: a leg, then the buffer *)
(* it was of, whose index may be its last.                                    *)
RunDrops(w) ==
    /\ work[w].stage = "planned"
    /\ LetGo(w, work[w].gone)
    /\ work' = [work EXCEPT ![w].stage = "stopped",
                            ![w].drop = [r \in Sources |-> NoLeg],
                            ![w].gone = [r \in Sources |-> 0]]
    /\ UNCHANGED <<wanted, unheard, sources, life, on, clock, recorded, replay, counts>>

StartMonitor(w, r) ==
    /\ work[w].stage = "stopped" /\ "monitor" \in work[w].job[r].todo
    /\ made' = [made EXCEPT ![r] = @ + 1]
    /\ running' = [running EXCEPT ![r] = @ \cup {made[r] + 1}]
    /\ work' = [work EXCEPT ![w].job[r].todo = @ \ {"monitor"},
                            ![w].job[r].monitor = made[r] + 1]
    /\ UNCHANGED <<wanted, unheard, sources, monitor, broken, torn, on, clock, recorded, replay,
                   buffer, counts>>

StartMonitorFails(w, r) ==
    /\ work[w].stage = "stopped" /\ "monitor" \in work[w].job[r].todo
    /\ fails < MaxFails
    /\ fails' = fails + 1
    /\ work' = [work EXCEPT ![w].job[r].todo = @ \ {"monitor"}]
    /\ UNCHANGED <<wanted, unheard, sources, life, on, clock, recorded, replay, buffer,
                   edits>>

(* The monitor a leg is to record, or 0. *)
resolve(job) == IF job.source # 0 THEN job.monitor ELSE job.feed

ToStart(w, r) ==
    /\ work[w].stage = "stopped" /\ work[w].job[r].todo = {"replay"}

(* A leg of another codec or clock than the index is of empties the folder.   *)
stale(job) == index[job.index].codec # job.codec \/ index[job.index].clock # job.clock

(* ReplayLeg::start's changes to r's index and folder. *)
Cleared(r, job) ==
    /\ index' = [index EXCEPT ![job.index] =
                   [codec |-> job.codec, clock |-> job.clock, lists |-> ~stale(job) /\ @.lists]]
    /\ disk' = IF stale(job) THEN [disk EXCEPT ![r] = {}] ELSE disk
    /\ UNCHANGED indexes

StartReplay(w, r) ==
    LET job == work[w].job[r]
        m == resolve(job)
    IN  /\ ToStart(w, r) /\ m # 0
        /\ Cleared(r, job)
        /\ work' = [work EXCEPT ![w].job[r].todo = {},
                                ![w].job[r].leg = [index |-> job.index, codec |-> job.codec,
                                                   monitor |-> m, failed |-> FALSE]]
        /\ UNCHANGED <<wanted, unheard, sources, life, on, clock, recorded, replay, counts>>

(* No encoder works, or the monitor has stopped meanwhile. *)
StartReplayFails(w, r) ==
    LET job == work[w].job[r]
    IN  /\ ToStart(w, r) /\ resolve(job) # 0 /\ fails < MaxFails
        /\ fails' = fails + 1
        /\ Cleared(r, job) \/ UNCHANGED buffer
        /\ work' = [work EXCEPT ![w].job[r].todo = {}]
        /\ UNCHANGED <<wanted, unheard, sources, life, on, clock, recorded, replay, edits>>

(* There is nothing to record from: only what an earlier run left goes.       *)
ClearReplay(w, r) ==
    LET job == work[w].job[r]
    IN  /\ ToStart(w, r) /\ resolve(job) = 0
        /\ index' = IF job.clear THEN [index EXCEPT ![job.index] = Emptied] ELSE index
        /\ disk' = IF job.clear THEN [disk EXCEPT ![r] = {}] ELSE disk
        /\ work' = [work EXCEPT ![w].job[r].todo = {}]
        /\ UNCHANGED <<wanted, unheard, sources, life, on, clock, recorded, replay,
                       indexes, counts>>

(* The candidate is still listed, and no other monitor runs for it. *)
listed(job, r) ==
    /\ job.monitor # 0
    /\ sources[r].listed /\ sources[r].id = job.source
    /\ monitor[r] = 0

(* Mutant: a leg is kept from whichever monitor it was started. *)
has_leg(job, r, m) == job.leg # NoLeg /\ replay[r].codec = job.codec

(* A leg started from r's monitor m in the buffer's codec. *)
is_current(job, r, m) ==
    job.leg # NoLeg /\ job.leg.monitor = m /\ replay[r].codec = job.codec

(* What it started is put in place, unless it went stale; a monitor turned     *)
(* away is stopped once dropped.                                              *)
apply(w) ==
    LET job == work[w].job
        accepted == {r \in Sources : listed(job[r], r)}
        m == [r \in Sources |-> IF r \in accepted THEN job[r].monitor ELSE monitor[r]]
        same == {r \in Sources : job[r].index # 0 /\ replay[r].index = job[r].index}
        placed == {r \in same : is_current(job[r], r, m[r])}
    IN  /\ work[w].stage = "stopped" /\ \A r \in Sources : job[r].todo = {}
        /\ monitor' = m
        /\ torn' = [r \in Sources |-> IF r \in accepted THEN torn[r]
                                      ELSE torn[r] \cup ({job[r].monitor} \ {0})]
        /\ on' = [r \in Sources |-> IF r \in accepted THEN job[r].clock ELSE on[r]]
        /\ replay' = [r \in Sources |->
              IF r \in placed THEN [replay[r] EXCEPT !.starting = FALSE, !.leg = job[r].leg]
              ELSE IF r \in same THEN [replay[r] EXCEPT !.starting = FALSE]
              ELSE replay[r]]
        /\ work' = [work EXCEPT ![w].stage = "applied",
                      ![w].job = [r \in Sources |-> [NoJob EXCEPT
                         !.index = job[r].index,
                         !.leg = IF r \in placed THEN replay[r].leg ELSE job[r].leg]]]
        /\ UNCHANGED <<wanted, unheard, sources, made, broken, running, clock, recorded, buffer,
                       counts>>

(* What was turned away is dropped, and the Work's hold on the indexes. *)
DropRejected(w) ==
    /\ work[w].stage = "applied"
    /\ LetGo(w, [r \in Sources |-> work[w].job[r].index])
    /\ work' = [work EXCEPT ![w] = Finished(w)]
    /\ UNCHANGED <<wanted, unheard, sources, life, on, clock, recorded, replay, counts>>

-----------------------------------------------------------------------------
(* Pipelines and requests. *)

MonitorFails(r) ==
    /\ is_healthy(r) /\ fails < MaxFails
    /\ broken' = broken \cup {r}
    /\ fails' = fails + 1
    /\ UNCHANGED <<wanted, unheard, sources, monitor, made, pipes, on, clock, recorded, replay,
                   buffer, work, edits>>

LegFails(r) ==
    /\ recording(replay[r]) /\ fails < MaxFails
    /\ replay' = [replay EXCEPT ![r].leg.failed = TRUE]
    /\ fails' = fails + 1
    /\ UNCHANGED <<wanted, unheard, sources, life, on, clock, recorded, buffer, work, edits>>

(* A leg finishes a segment, and may thereby write over one of another index, *)
(* numbered alike.                                                            *)
SegmentCloses(r, leg) ==
    /\ leg \in LiveLegs(r) /\ ~leg.failed
    /\ index' = [index EXCEPT ![leg.index].lists = TRUE]
    /\ \E over \in SUBSET (disk[r] \ {leg.index}) :
          disk' = [disk EXCEPT ![r] = (@ \ over) \cup {leg.index}]
    /\ UNCHANGED <<wanted, unheard, sources, life, on, clock, recorded, replay, indexes,
                   work, counts>>

StartRecording(r) ==
    /\ monitor[r] # 0 /\ r \notin recorded /\ edits < MaxEdits
    /\ recorded' = recorded \cup {r}
    /\ edits' = edits + 1
    /\ UNCHANGED <<wanted, unheard, sources, life, on, clock, replay, buffer, work, fails>>

StopRecording(r) ==
    /\ r \in recorded
    /\ recorded' = recorded \ {r}
    /\ UNCHANGED <<wanted, unheard, sources, life, on, clock, replay, buffer, work, counts>>

Run(w) ==
    \/ scan(w) \/ RunDrops(w) \/ apply(w) \/ DropRejected(w)
    \/ \E r \in Sources : \/ StartMonitor(w, r) \/ StartMonitorFails(w, r)
                          \/ StartReplay(w, r) \/ StartReplayFails(w, r)
                          \/ ClearReplay(w, r)

Next ==
    \/ \E w \in Workers, r \in Sources, version \in 1..MaxEdits : EditSource(w, r, version)
    \/ \E w \in Workers, r \in Sources, c \in Codecs : set_replay(w, r, c)
    \/ \E w \in Workers, r \in Sources : DeleteSource(w, r) \/ RemoveReplay(w, r)
    \/ \E w \in Workers : DropRequest(w) \/ set_clock(w) \/ ReadConfigs(w) \/ Run(w)
    \/ Recover
    \/ \E r \in Sources : \/ \E m \in torn[r] : TearDown(r, m)
                          \/ MonitorFails(r) \/ LegFails(r)
                          \/ \E leg \in LiveLegs(r) : SegmentCloses(r, leg)
                          \/ StartRecording(r) \/ StopRecording(r)

SafetySpec == Init /\ [][Next]_vars

(* The node's own tasks go on; tokio's Mutex is fair, and a request that was  *)
(* not dropped goes on to remove the buffer of the source it deleted.         *)
Fairness ==
    /\ WF_vars(Recover)
    /\ \A w \in Workers : WF_vars(Run(w)) /\ SF_vars(ReadConfigs(w))
    /\ \A w \in Workers, r \in Sources : WF_vars(work[w].stage = "deleted" /\ RemoveReplay(w, r))
    /\ \A r \in Sources : WF_vars(\E m \in torn[r] : TearDown(r, m))

Spec == SafetySpec /\ Fairness

-----------------------------------------------------------------------------
(* Properties. *)

Starting(w) == work[w].stage \in {"planned", "stopped"}

(* Of a source's pipelines that run, all but one are being torn down, and the *)
(* monitor in place is none of these: none is lost track of, or started twice. *)
(* (An old one does run on beside its successor until its recordings have     *)
(* ended: a sender, a card or a port may be open twice for as long.)          *)
OneMonitorEach ==
    \A r \in Sources :
       /\ Cardinality(running[r] \ torn[r]) <= 1
       /\ monitor[r] # 0 => monitor[r] \in running[r] \ torn[r]

(* Once every request's rebuild has read the configured sources, the list is  *)
(* of them: no rebuild has brought an older list back.  (But for a change     *)
(* whose request was dropped before it asked for a rebuild.)                  *)
ListIsCurrent ==
    (\A w \in Workers : work[w].stage \notin {"deleted", "asked", "read"} /\ ~work[w].then)
       => \A r \in Sources \ unheard : /\ sources[r].listed <=> wanted[r] # 0
                                       /\ sources[r].version = wanted[r]

SourcesAreCurrent == TypeOK /\ ListIsCurrent

(* A buffer is starting just while one Work, and no other, is to start its    *)
(* leg, and then it has none: two legs never record one buffer in place.      *)
OneStartPerBuffer ==
    \A r \in Sources :
       LET i == replay[r].index
           starters == {w \in Workers : Starting(w) /\ i # 0 /\ work[w].job[r].index = i}
       IN  IF replay[r].starting THEN Cardinality(starters) = 1 /\ replay[r].leg = NoLeg
           ELSE starters = {}

(* A buffer's leg records its source's current monitor, into its index, in    *)
(* its codec, whatever changed while a Work was starting it.                  *)
LegIsRight ==
    \A r \in Sources :
       LET leg == replay[r].leg
       IN  leg # NoLeg => /\ leg.monitor = monitor[r] /\ monitor[r] # 0
                          /\ leg.codec = replay[r].codec
                          /\ leg.index = replay[r].index

(* A healthy monitor with a recording is only taken by a rebuild that read    *)
(* another version of its source: a new clock waits.                          *)
RecordedKeepsMonitor ==
    [][\A r \in Sources : r \in recorded /\ is_healthy(r) /\ monitor'[r] # monitor[r]
          => \E w \in Workers : /\ work[w].stage = "read"
                                /\ work[w].configs[r] # sources[r].version]_vars

(* Once changes and failures cease, every source has a healthy monitor, on    *)
(* the node's clock unless it is recorded, and every buffer with a source     *)
(* records: what was turned away or failed is started again.  No pipeline but *)
(* the monitor's runs any more.                                               *)
Settled ==
    \A r \in Sources :
       /\ sources[r].listed => is_healthy(r) /\ (on[r] = clock \/ r \in recorded)
       /\ replay[r].index # 0 /\ monitor[r] # 0 => recording(replay[r])
       /\ running[r] \subseteq {monitor[r]}

Settles == <>[]Settled

(* A rebuild or Work that begins also ends: REBUILD is not held for ever.     *)
WorkEnds == \A w \in Workers : work[w].stage # "idle" ~> work[w].stage = "idle"

(* Whoever uses a monitor can rely on MonitorLife: here those started and not *)
(* yet in place don't count.                                                  *)
Life == INSTANCE MonitorLife
          WITH made <- [r \in Sources |->
                          made[r] - Cardinality({w \in Workers : work[w].job[r].monitor # 0})]

ProvidesMonitors == Life!Spec

-----------------------------------------------------------------------------
(* What makes these inductive. *)

(* REBUILD is held by one at a time, and a rebuild that follows a Work has    *)
(* not begun.                                                                 *)
RebuildIsHeldOnce ==
    /\ \A v, w \in Workers : work[v].locked /\ work[w].locked => v = w
    /\ \A w \in Workers : work[w].then => work[w].stage \in {"planned", "stopped", "applied"}

(* A monitor is started by who holds REBUILD, for a source that has none and  *)
(* stays the candidate it was planned for, and is the last one started.       *)
MonitorJob(w, r) ==
    LET job == work[w].job[r]
    IN  /\ job.source # 0 => /\ work[w].locked /\ Starting(w)
                             /\ monitor[r] = 0
                             /\ sources[r].listed /\ sources[r].id = job.source
        /\ "monitor" \in job.todo => job.source # 0 /\ job.monitor = 0
        /\ job.monitor # 0 => job.source # 0 /\ job.monitor = made[r]

(* A leg is started for the index and in the codec it was planned with, from  *)
(* a monitor there was.                                                       *)
LegJob(w, r) ==
    LET job == work[w].job[r]
    IN  /\ job.index <= indexes /\ work[w].gone[r] <= indexes
        /\ "replay" \in job.todo => job.index # 0
        /\ job.leg # NoLeg =>
             /\ job.leg.index # 0
             /\ Starting(w) => /\ job.leg.index = job.index /\ job.leg.codec = job.codec
                               /\ job.leg.monitor # 0
        /\ work[w].drop[r] # NoLeg => work[w].drop[r].index # 0

SourceIsListed(r) ==
    /\ monitor[r] # 0 => sources[r].listed
    /\ sources[r].listed <=> sources[r].version # 0

(* A buffer's leg fits it, its index is one made, and no index means nothing  *)
(* started; a start for it is one Work's.                                     *)
BufferFits(r) ==
    /\ replay[r].index <= indexes
    /\ replay[r].index = 0 => ~replay[r].starting
    /\ replay[r].leg # NoLeg => replay[r].leg.index # 0

Starters(r) == {w \in Workers : Starting(w) /\ replay[r].index # 0
                                /\ work[w].job[r].index = replay[r].index}

BufferHasItsStarter(r) ==
    IF replay[r].starting THEN (\E w \in Workers : Starters(r) = {w}) /\ replay[r].leg = NoLeg
    ELSE Starters(r) = {}

(* The list is of the configured sources, or the rebuild under way has read   *)
(* these, or one is still to come for what changed.                           *)
Awaited(r) ==
    \/ \E w \in Workers : work[w].stage = "asked"
    \/ \E w \in Workers : (work[w].stage = "deleted" \/ work[w].then) /\ r \in work[w].deleted

ListFollows(r) ==
    \/ r \in unheard \/ Awaited(r)
    \/ \E w \in Workers : work[w].stage = "read" /\ work[w].configs[r] = wanted[r]
    \/ /\ \A w \in Workers : work[w].stage # "read"
       /\ sources[r].version = wanted[r]

(* The pipelines that run and aren't torn down are the monitor in place and    *)
(* those Works have started.                                                  *)
Held(r) == ({monitor[r]} \cup {work[w].job[r].monitor : w \in Workers}) \ {0}

PipelinesAreKnown(r) ==
    /\ torn[r] \cup running[r] \subseteq 1..made[r]
    /\ running[r] \ torn[r] = Held(r)

IInv ==
    /\ TypeOK /\ RebuildIsHeldOnce /\ LegIsRight
    /\ \A w \in Workers, r \in Sources : MonitorJob(w, r) /\ LegJob(w, r)
    /\ \A r \in Sources : /\ SourceIsListed(r) /\ BufferFits(r)
                           /\ BufferHasItsStarter(r) /\ ListFollows(r)

AllInv == IInv /\ \A r \in Sources : PipelinesAreKnown(r)

\* Requests are alike: sound for safety.
Symmetry == Permutations(Clients)
=============================================================================
