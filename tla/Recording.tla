---------------------------- MODULE Recording ----------------------------
(***************************************************************************)
(* The life of a recording session on a node: reserved under the source    *)
(* manager's lock, its legs started off it, added, failed leg by leg,      *)
(* taken out by a stop, a rescan or a quit, drained, saved and forgotten;  *)
(* with the monitors that feed it, the files its legs write, its row in    *)
(* the database and the request that inserts it, the deletions of what is  *)
(* over, and a process that can crash or quit.  What the code does under   *)
(* one lock of the manager is one step; everything between two steps of a  *)
(* session interleaves with anything else.                                 *)
(***************************************************************************)
EXTENDS Integers, FiniteSets, TLC

CONSTANTS
    Sources,      \* source ids
    Sessions,     \* session ids; each start takes a fresh one (a UUID)
    Paths,        \* output paths, one per leg
    Split,        \* the paths whose legs split their files (splitmuxsink)
    Brief,        \* the paths whose recordings may end before a byte is written
    NoSource,     \* the source of a session that has none
    NoSession,    \* nobody
    MaxMonitors,  \* bound: monitors started per source
    MaxLegs,      \* bound: legs per recording
    MaxCrashes,   \* bound: crashes
    MaxQuits,     \* bound: quits
    MaxDbErrors,  \* bound: failed database writes
    MaxEdits      \* bound: deletions from history

ASSUME ConstantsAssumption ==
    /\ NoSource \notin Sources
    /\ NoSession \notin Sessions
    /\ Split \subseteq Paths /\ Brief \subseteq Paths
    /\ IsFiniteSet(Paths)
    /\ {MaxMonitors, MaxLegs, MaxCrashes, MaxQuits, MaxDbErrors, MaxEdits} \subseteq Nat

VARIABLES
    up,        \* the process runs
    quitting,  \* whether it quits, and the sessions that waits for
    crashes,   \* crashes so far
    quits,     \* quits so far
    monitor,   \* source -> its current monitor, numbered as they start; 0: none
    made,      \* source -> monitors started so far
    broken,    \* sources whose current monitor has reported an error
    phase,     \* session -> where it is
    source,    \* session -> the source it records
    mon,       \* session -> the monitor its start picked
    leg,       \* session -> path -> state of the leg writing there
    files,     \* session -> the paths its legs list as their files
    failed,    \* session -> failures noted on it while active (failed_legs)
    cause,     \* session -> why it stops
    begun,     \* session -> the file list of the DTO its start made
    ended,     \* session -> the file list of the DTO its stop made
    reports,   \* leg failures sent and not yet received
    opened,    \* sessions with a leg's new file to be saved, not yet received
    saving,    \* the file list the recorder of those is about to write
    request,   \* session -> the HTTP request that started it
    outcome,   \* session -> the final status its stop published
    waiting,   \* sessions a stop request waits on
    orphan,    \* the row a stop of a session in no map has read and will write
    row,       \* session -> the status of its row in recording_sessions
    saved,     \* session -> the file list of its row
    edit,      \* the deletion under way (FILE_EDITS is held)
    edits,     \* deletions so far
    dbErrors,  \* failed database writes so far
    disk       \* path -> the session whose recording the file there holds

process  == <<up, quitting, crashes, quits>>
monitors == <<monitor, made, broken>>
legs     == <<leg, files>>
dtos     == <<begun, ended>>
recorder == <<opened, saving>>
stops    == <<outcome, waiting, orphan>>
history  == <<row, saved, dbErrors>>
deletion == <<edit, edits>>
vars == <<process, monitors, phase, source, mon, legs, failed, cause, dtos, reports,
          recorder, request, stops, history, deletion, disk>>

(* reserved: in SourceManager.reserved; active: in .sessions; stopping: taken *)
(* out of it by a StopJob and in .stopping; published: the StopJob's result   *)
(* sent, finish_stop still to come; discarding: turned away by                *)
(* finish_start_recording with its legs running; the rest are in no map.      *)
Phases == {"none", "reserved", "active", "stopping", "published",
           "discarding", "refused", "done", "lost"}
(* off: not a leg of this session; idle: not started yet; running; failed: an *)
(* error is on its bus; ok, err: stopped, and how.                            *)
LegStates == {"off", "idle", "running", "failed", "ok", "err"}
Final == {"stopped", "error"}
NoQuit == [on |-> FALSE, ids |-> {}]
Lists == [id : Sessions \cup {NoSession}, list : SUBSET Paths]
NoList == [id |-> NoSession, list |-> {}]
Edits == [id : Sessions \cup {NoSession}, what : {"none", "row", "files", "file"},
          list : SUBSET Paths]
NoEdit == [id |-> NoSession, what |-> "none", list |-> {}]
NoLegs == [p \in Paths |-> "off"]

TypeOK ==
    /\ up \in BOOLEAN
    /\ quitting \in [on : BOOLEAN, ids : SUBSET Sessions]
    /\ monitor \in [Sources -> Nat] /\ made \in [Sources -> Nat]
    /\ broken \in SUBSET Sources
    /\ phase \in [Sessions -> Phases]
    /\ source \in [Sessions -> Sources \cup {NoSource}]
    /\ mon \in [Sessions -> Nat]
    /\ leg \in [Sessions -> [Paths -> LegStates]]
    /\ files \in [Sessions -> SUBSET Paths]
    /\ failed \in [Sessions -> Nat]
    /\ cause \in [Sessions -> {"none", "asked", "source"}]
    /\ begun \in [Sessions -> SUBSET Paths] /\ ended \in [Sessions -> SUBSET Paths]
    /\ reports \in SUBSET (Sessions \X Paths)
    /\ opened \in SUBSET Sessions /\ saving \in Lists
    /\ request \in [Sessions -> {"none", "open", "closed"}]
    /\ outcome \in [Sessions -> {"none"} \cup Final]
    /\ waiting \in SUBSET Sessions /\ orphan \in Lists
    /\ row \in [Sessions -> {"none", "active"} \cup Final]
    /\ saved \in [Sessions -> SUBSET Paths]
    /\ edit \in Edits
    /\ crashes \in Nat /\ quits \in Nat /\ edits \in Nat /\ dbErrors \in Nat
    /\ disk \in [Paths -> Sessions \cup {NoSession}]

Init ==
    /\ up = TRUE /\ quitting = NoQuit
    /\ monitor = [r \in Sources |-> 0] /\ made = [r \in Sources |-> 0]
    /\ broken = {}
    /\ phase = [s \in Sessions |-> "none"]
    /\ source = [s \in Sessions |-> NoSource]
    /\ mon = [s \in Sessions |-> 0]
    /\ leg = [s \in Sessions |-> NoLegs]
    /\ files = [s \in Sessions |-> {}]
    /\ failed = [s \in Sessions |-> 0]
    /\ cause = [s \in Sessions |-> "none"]
    /\ begun = [s \in Sessions |-> {}] /\ ended = [s \in Sessions |-> {}]
    /\ reports = {}
    /\ opened = {} /\ saving = NoList
    /\ request = [s \in Sessions |-> "none"]
    /\ outcome = [s \in Sessions |-> "none"]
    /\ waiting = {} /\ orphan = NoList
    /\ row = [s \in Sessions |-> "none"]
    /\ saved = [s \in Sessions |-> {}]
    /\ edit = NoEdit
    /\ crashes = 0 /\ quits = 0 /\ edits = 0 /\ dbErrors = 0
    /\ disk = [p \in Paths |-> NoSession]

-----------------------------------------------------------------------------

Outputs(s) == {p \in Paths : leg[s][p] # "off"}

(* The legs that have a pipeline: it takes what the monitor feeds it, or      *)
(* drains it.                                                                 *)
Live(s) == {p \in Paths : leg[s][p] \in {"running", "failed"}}

ActiveOn(r) == {s \in Sessions : phase[s] = "active" /\ source[s] = r}

Closed(s) == [p \in Paths |-> IF leg[s][p] = "off" THEN "off" ELSE "err"]

(* Mutant: a start under way doesn't hold its source. *)
is_recording_once_active(r) == ActiveOn(r) # {}

is_recording(r) ==
    \E s \in Sessions : phase[s] \in {"reserved", "active"} /\ source[s] = r

(* Mutant: files on disk aren't looked at. *)
Taken_by_others(p) ==
    \E s \in Sessions : phase[s] \in {"reserved", "active"} /\ p \in Outputs(s)

(* A path an active or reserved recording has, or with a file on it. *)
Taken(p) ==
    \/ \E s \in Sessions : phase[s] \in {"reserved", "active"} /\ p \in Outputs(s)
    \/ disk[p] # NoSession

(* Mutant: any monitor of the source will do. *)
is_monitored(s) == monitor[source[s]] # 0

is_current(s) == monitor[source[s]] = mon[s]

Removed(P) == [p \in Paths |-> IF p \in P THEN NoSession ELSE disk[p]]

(* Mutant: a failed leg's file isn't worth listing. *)
good_files(s) == {p \in files[s] : leg[s][p] # "failed"}

session_files(s) == files[s]

(* The sessions in S leave the active set: their DTO takes its final file     *)
(* list, and a StopJob for the reason given runs.                             *)
take_session(S, why) ==
    /\ phase' = [s \in Sessions |-> IF s \in S THEN "stopping" ELSE phase[s]]
    /\ cause' = [s \in Sessions |-> IF s \in S THEN why[s] ELSE cause[s]]
    /\ ended' = [s \in Sessions |-> IF s \in S THEN session_files(s) ELSE ended[s]]
    /\ UNCHANGED begun

Asked == [s \in Sessions |-> "asked"]

(* The sessions in S are dropped from memory. *)
Forget(S) ==
    /\ source' = [s \in Sessions |-> IF s \in S THEN NoSource ELSE source[s]]
    /\ mon' = [s \in Sessions |-> IF s \in S THEN 0 ELSE mon[s]]
    /\ leg' = [s \in Sessions |-> IF s \in S THEN NoLegs ELSE leg[s]]
    /\ files' = [s \in Sessions |-> IF s \in S THEN {} ELSE files[s]]
    /\ failed' = [s \in Sessions |-> IF s \in S THEN 0 ELSE failed[s]]
    /\ cause' = [s \in Sessions |-> IF s \in S THEN "none" ELSE cause[s]]

(* A write to session s's row does nothing if there is none, and may fail,    *)
(* which is logged and no more.                                               *)
Write(s, status, list) ==
    \/ /\ row' = IF row[s] = "none" THEN row ELSE [row EXCEPT ![s] = status]
       /\ saved' = IF row[s] = "none" THEN saved ELSE [saved EXCEPT ![s] = list]
       /\ UNCHANGED dbErrors
    \/ /\ dbErrors < MaxDbErrors
       /\ dbErrors' = dbErrors + 1
       /\ UNCHANGED <<row, saved>>

-----------------------------------------------------------------------------
(* Monitors, as far as recordings see them. *)

(* A Work's monitor is put in place: its source has none. *)
MonitorStarts(r) ==
    /\ up /\ monitor[r] = 0 /\ made[r] < MaxMonitors
    /\ made' = [made EXCEPT ![r] = @ + 1]
    /\ monitor' = [monitor EXCEPT ![r] = made[r] + 1]
    /\ UNCHANGED <<process, broken, phase, source, mon, legs, failed, cause, dtos,
                   reports, recorder, request, stops, history, deletion, disk>>

MonitorFails(r) ==
    /\ up /\ monitor[r] # 0 /\ r \notin broken
    /\ broken' = broken \cup {r}
    /\ UNCHANGED <<process, monitor, made, phase, source, mon, legs, failed, cause, dtos,
                   reports, recorder, request, stops, history, deletion, disk>>

(* Mutant: a source that is being recorded is left alone. *)
unhealthy_idle == {r \in broken : ~is_recording(r)}

unhealthy == broken

(* One scan: the sources that went away or changed, and those whose monitor   *)
(* failed, lose their monitor, and its sessions are taken out to be stopped;  *)
(* by the source's fault if its monitor has failed when its teardown runs,    *)
(* which those in late do just before.                                        *)
Rebuild(changed, late) ==
    LET gone == {r \in unhealthy \cup changed : monitor[r] # 0}
        cut == UNION {ActiveOn(r) : r \in gone}
    IN  /\ up /\ gone # {} /\ late \subseteq gone
        /\ monitor' = [r \in Sources |-> IF r \in gone THEN 0 ELSE monitor[r]]
        /\ broken' = broken \ gone
        /\ take_session(cut, [s \in Sessions |->
                             IF source[s] \in broken \cup late THEN "source" ELSE "asked"])
        /\ UNCHANGED <<process, made, source, mon, legs, failed, reports, recorder,
                       request, stops, history, deletion, disk>>

(* The recovery loop finds a monitor that isn't healthy and rescans. *)
Recover == Rebuild({}, {})

-----------------------------------------------------------------------------
(* Starting: begin_start_recording, RecordingStart::run, finish_start_recording. *)

begin_start_recording(s, r, P) ==
    /\ up
    /\ phase[s] = "none"
    /\ ~is_recording(r)
    /\ monitor[r] # 0
    /\ \A p \in P : ~Taken(p)
    /\ phase' = [phase EXCEPT ![s] = "reserved"]
    /\ source' = [source EXCEPT ![s] = r]
    /\ mon' = [mon EXCEPT ![s] = monitor[r]]
    /\ leg' = [leg EXCEPT ![s] = [p \in Paths |-> IF p \in P THEN "idle" ELSE "off"]]
    /\ files' = [files EXCEPT ![s] = P \ Split]
    /\ request' = [request EXCEPT ![s] = "open"]
    /\ UNCHANGED <<process, monitors, failed, cause, dtos, reports, recorder, stops,
                   history, deletion, disk>>

(* A leg's pipeline goes to playing: an unsplit file is created (truncated). *)
StartLeg(s, p) ==
    /\ up /\ phase[s] = "reserved" /\ leg[s][p] = "idle"
    /\ leg' = [leg EXCEPT ![s][p] = "running"]
    /\ disk' = IF p \in Split THEN disk ELSE [disk EXCEPT ![p] = s]
    /\ UNCHANGED <<process, monitors, phase, source, mon, files, failed, cause, dtos,
                   reports, recorder, request, stops, history, deletion>>

(* A leg cannot start: it and those started before it are discarded, their    *)
(* files deleted.                                                             *)
StartLegFails(s, p) ==
    /\ up /\ phase[s] = "reserved" /\ leg[s][p] = "idle"
    /\ leg' = [leg EXCEPT ![s] = Closed(s)]
    /\ disk' = Removed(files[s] \cap (Live(s) \cup {p}))
    /\ UNCHANGED <<process, monitors, phase, source, mon, files, failed, cause, dtos,
                   reports, recorder, request, stops, history, deletion>>

(* Mutant: a failed start is bailed out of before its reservation is removed. *)
StartedWell(s) == Live(s) # {} /\ \A p \in Paths : leg[s][p] # "idle"

Started(s) == \A p \in Paths : leg[s][p] # "idle"

(* The reservation goes, whatever became of the legs.  They are turned away   *)
(* if the source's monitor was replaced while they started.                   *)
finish_start_recording(s) ==
    LET after == IF Live(s) = {} THEN "refused"
                 ELSE IF is_current(s) THEN "active" ELSE "discarding"
    IN  /\ up /\ phase[s] = "reserved"
        /\ Started(s)
        /\ phase' = [phase EXCEPT ![s] = after]
        /\ begun' = [begun EXCEPT ![s] = IF after = "active" THEN session_files(s) ELSE {}]
        /\ request' = [request EXCEPT ![s] = IF after = "active" THEN @ ELSE "closed"]
        /\ Forget(IF after = "refused" THEN {s} ELSE {})
        /\ UNCHANGED <<process, monitors, ended, reports, recorder, stops, history,
                       deletion, disk>>

(* The legs turned away: stopped without finalising, their files deleted. *)
DiscardLegs(s) ==
    /\ up /\ phase[s] = "discarding"
    /\ phase' = [phase EXCEPT ![s] = "refused"]
    /\ disk' = Removed(files[s])
    /\ Forget({s})
    /\ UNCHANGED <<process, monitors, dtos, reports, recorder, request, stops, history,
                   deletion>>

(* The handler saves the row of the recording it started, as that was then; a *)
(* failed write is only logged.                                               *)
session_insert(s) ==
    /\ up /\ request[s] = "open"
    /\ phase[s] \in {"active", "stopping", "published", "done"}
    /\ request' = [request EXCEPT ![s] = "closed"]
    /\ \/ /\ row' = [row EXCEPT ![s] = "active"]
          /\ saved' = [saved EXCEPT ![s] = begun[s]]
          /\ UNCHANGED dbErrors
       \/ /\ dbErrors < MaxDbErrors
          /\ dbErrors' = dbErrors + 1
          /\ UNCHANGED <<row, saved>>
    /\ UNCHANGED <<process, monitors, phase, source, mon, legs, failed, cause, dtos,
                   reports, recorder, stops, deletion, disk>>

(* The client goes away: the handler's future is dropped where it stands; the *)
(* spawned start goes on without it.                                          *)
DropRequest(s) ==
    /\ up /\ request[s] = "open"
    /\ request' = [request EXCEPT ![s] = "closed"]
    /\ UNCHANGED <<process, monitors, phase, source, mon, legs, failed, cause, dtos,
                   reports, recorder, stops, history, deletion, disk>>

-----------------------------------------------------------------------------
(* Legs that run. *)

(* splitmuxsink opens a leg's first file when its first frames come out of    *)
(* the encoder, which can be as late as the drain.                            *)
LegOpensFile(s, p) ==
    /\ up /\ p \in Split \ files[s] /\ leg[s][p] = "running"
    /\ files' = [files EXCEPT ![s] = @ \cup {p}]
    /\ opened' = opened \cup {s}
    /\ disk' = [disk EXCEPT ![p] = s]
    /\ UNCHANGED <<process, monitors, phase, source, mon, leg, failed, cause, dtos,
                   reports, saving, request, stops, history, deletion>>

(* The recorder of new files takes an active session's list ... *)
RecorderReads(s) ==
    /\ up /\ s \in opened /\ saving = NoList
    /\ opened' = opened \ {s}
    /\ saving' = IF phase[s] = "active" THEN [id |-> s, list |-> files[s]] ELSE NoList
    /\ UNCHANGED <<process, monitors, phase, source, mon, legs, failed, cause, dtos,
                   reports, request, stops, history, deletion, disk>>

(* ... and saves it, the lock long released. *)
RecorderWrites(s) ==
    /\ up /\ saving.id = s
    /\ Write(s, row[s], saving.list)
    /\ saving' = NoList
    /\ UNCHANGED <<process, monitors, phase, source, mon, legs, failed, cause, dtos,
                   reports, opened, request, stops, deletion, disk>>

(* A leg's first error: kept on its bus and sent to the reporter. *)
LegFails(s, p) ==
    /\ up /\ leg[s][p] = "running"
    /\ leg' = [leg EXCEPT ![s][p] = "failed"]
    /\ reports' = reports \cup {<<s, p>>}
    /\ UNCHANGED <<process, monitors, phase, source, mon, files, failed, cause, dtos,
                   recorder, request, stops, history, deletion, disk>>

(* Mutant: one failed leg ends the session. *)
any_failed(s) == failed[s] + 1 >= 1

all_failed(s) == failed[s] + 1 >= Cardinality(Outputs(s))

(* The reporter notes a failure on its session if that is active, and stops   *)
(* the session, under the same lock, once all its legs have failed.           *)
note_leg_failure(s, p) ==
    /\ up /\ <<s, p>> \in reports
    /\ reports' = reports \ {<<s, p>>}
    /\ IF phase[s] = "active"
       THEN /\ failed' = [failed EXCEPT ![s] = @ + 1]
            /\ take_session(IF all_failed(s) THEN {s} ELSE {}, Asked)
       ELSE UNCHANGED <<failed, phase, cause, dtos>>
    /\ UNCHANGED <<process, monitors, source, mon, legs, recorder, request, stops,
                   history, deletion, disk>>

-----------------------------------------------------------------------------
(* Stopping: begin_stop_recording, run_stop, finish_stop. *)

(* POST stop of an active session: this request starts the stop, which runs   *)
(* on a task of its own, and waits for its result.                            *)
StopStart(s) ==
    /\ up /\ phase[s] = "active"
    /\ take_session({s}, Asked)
    /\ waiting' = waiting \cup {s}
    /\ UNCHANGED <<process, monitors, source, mon, legs, failed, reports, recorder,
                   request, outcome, orphan, history, deletion, disk>>

(* Another request, or one for a stop that something else began, joins it. *)
StopJoin(s) ==
    /\ up /\ phase[s] \in {"stopping", "published"} /\ s \notin waiting
    /\ waiting' = waiting \cup {s}
    /\ UNCHANGED <<process, monitors, phase, source, mon, legs, failed, cause, dtos,
                   reports, recorder, request, outcome, orphan, history, deletion, disk>>

(* Mutant: a stray retry stomps the row of a session that ended. *)
in_history(s) == row[s] # "none"

orphaned(s) == row[s] = "active"

(* In neither map: a row still active is read ...                             *)
OrphanRead(s) ==
    /\ up /\ phase[s] \in {"done", "lost"} /\ orphaned(s) /\ orphan = NoList
    /\ orphan' = [id |-> s, list |-> saved[s]]
    /\ UNCHANGED <<process, monitors, phase, source, mon, legs, failed, cause, dtos,
                   reports, recorder, request, outcome, waiting, history, deletion, disk>>

(* ... and marked stopped; any other is left be. *)
stop_orphaned(s) ==
    /\ up /\ orphan.id = s
    /\ Write(s, "stopped", orphan.list)
    /\ orphan' = NoList
    /\ UNCHANGED <<process, monitors, phase, source, mon, legs, failed, cause, dtos,
                   reports, recorder, request, outcome, waiting, deletion, disk>>

(* Mutant: only EOS is waited for, and without a timeout. *)
eos_only(s, p) == IF leg[s][p] = "failed" THEN {} ELSE {"ok"}

stop_results(s, p) == IF leg[s][p] = "failed" THEN {"err"} ELSE {"ok", "err"}

(* A leg reaches EOS, has its error found on the bus, or times out; the files *)
(* it lists are removed if they are empty.                                    *)
StopLeg(s, p) ==
    /\ up /\ phase[s] = "stopping" /\ p \in Live(s)
    /\ \E end \in stop_results(s, p) : leg' = [leg EXCEPT ![s][p] = end]
    /\ disk' \in {disk, Removed({p} \cap files[s] \cap Brief)}
    /\ UNCHANGED <<process, monitors, phase, source, mon, files, failed, cause, dtos,
                   reports, recorder, request, stops, history, deletion>>

(* Mutant: the first leg to finish ends the wait. *)
one_drained(s) == \E p \in Paths : leg[s][p] \in {"ok", "err"}

drained(s) == Live(s) = {}

(* Every leg done: the outcome is saved, then published to whoever waits. *)
session_update_stop(s) ==
    LET status == IF cause[s] = "source" \/ \E p \in Paths : leg[s][p] = "err"
                  THEN "error" ELSE "stopped"
    IN  /\ up /\ phase[s] = "stopping" /\ drained(s)
        /\ phase' = [phase EXCEPT ![s] = "published"]
        /\ outcome' = [outcome EXCEPT ![s] = status]
        /\ Write(s, status, ended[s])
        /\ UNCHANGED <<process, monitors, source, mon, legs, failed, cause, dtos, reports,
                       recorder, request, waiting, orphan, deletion, disk>>

finish_stop(s) ==
    /\ up /\ phase[s] = "published"
    /\ phase' = [phase EXCEPT ![s] = "done"]
    /\ ended' = [ended EXCEPT ![s] = {}]
    /\ Forget({s})
    /\ UNCHANGED <<process, monitors, begun, reports, recorder, request, stops, history,
                   deletion, disk>>

(* The request that started the stop, and those that joined it, read it. *)
Answer(s) ==
    /\ up /\ s \in waiting /\ outcome[s] \in Final
    /\ waiting' = waiting \ {s}
    /\ UNCHANGED <<process, monitors, phase, source, mon, legs, failed, cause, dtos,
                   reports, recorder, request, outcome, orphan, history, deletion, disk>>

-----------------------------------------------------------------------------
(* Deleting from history: a session's row, all its files with it, or one file. *)

(* The session isn't active; FILE_EDITS is taken and its row's list read. *)
EditStarts(s, what) ==
    /\ up /\ edit = NoEdit /\ edits < MaxEdits
    /\ phase[s] # "active" /\ row[s] # "none"
    /\ edit' = [id |-> s, what |-> what, list |-> saved[s]]
    /\ edits' = edits + 1
    /\ UNCHANGED <<process, monitors, phase, source, mon, legs, failed, cause, dtos,
                   reports, recorder, request, stops, history, disk>>

(* The files that can be deleted are.  The row goes unless it still lists one *)
(* that couldn't be.                                                          *)
delete_recording(deleted) ==
    /\ up /\ edit.what \in {"row", "files"}
    /\ deleted \subseteq edit.list
    /\ edit.what = "row" => deleted = {}
    /\ disk' = Removed(deleted)
    /\ IF edit.what = "row" \/ deleted = edit.list
       THEN Write(edit.id, "none", {})
       ELSE Write(edit.id, row[edit.id], edit.list \ deleted)
    /\ edit' = NoEdit
    /\ UNCHANGED <<process, monitors, phase, source, mon, legs, failed, cause, dtos,
                   reports, recorder, request, stops, edits>>

(* The row stays, even once it lists no file. *)
delete_recording_file(p) ==
    /\ up /\ edit.what = "file" /\ p \in edit.list
    /\ disk' = Removed({p})
    /\ Write(edit.id, row[edit.id], edit.list \ {p})
    /\ edit' = NoEdit
    /\ UNCHANGED <<process, monitors, phase, source, mon, legs, failed, cause, dtos,
                   reports, recorder, request, stops, edits>>

(* The one file couldn't be deleted, or the list no longer has it. *)
DeleteFileFails ==
    /\ up /\ edit.what = "file"
    /\ edit' = NoEdit
    /\ UNCHANGED <<process, monitors, phase, source, mon, legs, failed, cause, dtos,
                   reports, recorder, request, stops, history, edits, disk>>

-----------------------------------------------------------------------------
(* The process. *)

(* All that is in memory is gone; files and rows stay. *)
ProcessEnds ==
    /\ up' = FALSE
    /\ quitting' = NoQuit
    /\ phase' = [s \in Sessions |-> IF phase[s] \in {"none", "refused", "done"}
                                    THEN phase[s] ELSE "lost"]
    /\ Forget(Sessions)
    /\ begun' = [s \in Sessions |-> {}] /\ ended' = [s \in Sessions |-> {}]
    /\ monitor' = [r \in Sources |-> 0]
    /\ broken' = {}
    /\ reports' = {}
    /\ opened' = {} /\ saving' = NoList
    /\ waiting' = {} /\ orphan' = NoList
    /\ edit' = NoEdit
    /\ request' = [s \in Sessions |-> IF request[s] = "open" THEN "closed" ELSE request[s]]
    /\ UNCHANGED <<made, outcome, history, edits, disk>>

Crash ==
    /\ up /\ crashes < MaxCrashes
    /\ crashes' = crashes + 1
    /\ ProcessEnds
    /\ UNCHANGED quits

(* Mutants: nothing is marked; or with a status no reader knows. *)
rows_untouched == row
rows_crashed == [s \in Sessions |-> IF row[s] = "active" THEN "crashed" ELSE row[s]]

sessions_mark_crashed == [s \in Sessions |-> IF row[s] = "active" THEN "error" ELSE row[s]]

(* Rows still active get the status error before anything else starts. *)
Restart ==
    /\ ~up
    /\ up' = TRUE
    /\ row' = sessions_mark_crashed
    /\ UNCHANGED <<quitting, crashes, quits, monitors, phase, source, mon, legs, failed, cause, dtos,
                   reports, recorder, request, stops, saved, dbErrors, deletion, disk>>

(* Quit: stop_all_recordings lists the active sessions ... *)
Quit ==
    /\ up /\ ~quitting.on /\ quits < MaxQuits
    /\ quits' = quits + 1
    /\ quitting' = [on |-> TRUE, ids |-> {s \in Sessions : phase[s] = "active"}]
    /\ UNCHANGED <<up, crashes, monitors, phase, source, mon, legs, failed, cause, dtos,
                   reports, recorder, request, stops, history, deletion, disk>>

(* ... stops each, or joins its stop ... *)
QuitStops(s) ==
    /\ up /\ s \in quitting.ids /\ phase[s] = "active"
    /\ take_session({s}, Asked)
    /\ UNCHANGED <<process, monitors, source, mon, legs, failed, reports, recorder,
                   request, stops, history, deletion, disk>>

(* ... and exits once all of those have ended. *)
Exit ==
    /\ up /\ quitting.on
    /\ \A s \in quitting.ids : phase[s] \notin {"active", "stopping"}
    /\ ProcessEnds
    /\ UNCHANGED <<crashes, quits>>

-----------------------------------------------------------------------------

(* The steps the node's own tasks take without being asked. *)
Task(s) ==
    \/ finish_start_recording(s) \/ DiscardLegs(s) \/ session_insert(s)
    \/ RecorderReads(s) \/ RecorderWrites(s)
    \/ session_update_stop(s) \/ finish_stop(s) \/ Answer(s) \/ QuitStops(s)
    \/ stop_orphaned(s)
    \/ \E p \in Paths : \/ StartLeg(s, p) \/ StartLegFails(s, p)
                        \/ note_leg_failure(s, p) \/ StopLeg(s, p)

(* What clients ask. *)
Client ==
    \/ \E s \in Sessions, r \in Sources, P \in SUBSET Paths :
          P # {} /\ Cardinality(P) <= MaxLegs /\ begin_start_recording(s, r, P)
    \/ \E s \in Sessions : DropRequest(s) \/ StopStart(s) \/ StopJoin(s) \/ OrphanRead(s)
    \/ \E s \in Sessions, what \in {"row", "files", "file"} : EditStarts(s, what)
    \/ \E deleted \in SUBSET edit.list : delete_recording(deleted)
    \/ \E p \in Paths : delete_recording_file(p)
    \/ DeleteFileFails

(* What media, configuration and the machine do. *)
Environment ==
    \/ \E s \in Sessions, p \in Paths : LegOpensFile(s, p) \/ LegFails(s, p)
    \/ \E r \in Sources : MonitorStarts(r) \/ MonitorFails(r)
    \/ \E changed, late \in SUBSET Sources : Rebuild(changed, late)
    \/ Crash \/ Restart \/ Quit

Next == Client \/ Environment \/ Exit \/ \E s \in Sessions : Task(s)

SafetySpec == Init /\ [][Next]_vars

(* Each is a spawned task, or a loop, that only waits on what is bounded in   *)
(* time: a start that either plays or fails, EOS_TIMEOUT, a database write,   *)
(* the recovery loop's interval.                                              *)
Fairness ==
    /\ \A s \in Sessions :
          /\ WF_vars(\E p \in Paths : StartLeg(s, p) \/ StartLegFails(s, p))
          /\ WF_vars(finish_start_recording(s))
          /\ WF_vars(\E p \in Paths : note_leg_failure(s, p))
          /\ WF_vars(\E p \in Paths : StopLeg(s, p))
          /\ WF_vars(session_update_stop(s))
          /\ WF_vars(finish_stop(s))
          /\ WF_vars(Answer(s))
          /\ WF_vars(QuitStops(s))
    /\ WF_vars(Recover)
    /\ WF_vars(Exit)

Spec == SafetySpec /\ Fairness

-----------------------------------------------------------------------------
(* Safety. *)

(* A source is recorded by one session at a time, from its reservation until  *)
(* its stop begins (begin_start_recording, finish_start_recording).           *)
OneRecordingPerSource ==
    \A s, t \in Sessions :
        /\ phase[s] \in {"reserved", "active"} /\ phase[t] \in {"reserved", "active"}
        /\ source[s] = source[t]
        => s = t

(* An active session's legs are on its source's current monitor: a rescan     *)
(* takes a replaced monitor's sessions with it, and a start that it overtook  *)
(* is turned away.                                                            *)
ActiveIsFed ==
    \A s \in Sessions : phase[s] = "active" => monitor[source[s]] = mon[s]

(* A leg's pipeline is always some map's or some task's: whatever step of a   *)
(* start or a stop goes wrong, none keeps recording where no stop reaches it. *)
NoOrphanLeg ==
    \A s \in Sessions :
        Live(s) # {} => phase[s] \in {"reserved", "active", "stopping", "discarding"}

(* A row that says a session is over tells the truth. *)
FinalRowIsOver == \A s \in Sessions : row[s] \in Final => Live(s) = {}

(* Once the node has restarted, a row left active by the last run is not      *)
(* taken for a recording in progress.  One may be left active by a session    *)
(* that is over in this run: its stop's update failed, or found no row as the *)
(* start's insert came after it.  Stopping it again, or a restart, ends it.   *)
ActiveRowOfThisRun ==
    \A s \in Sessions : up /\ row[s] = "active" => phase[s] # "lost"

(* So what a final row says is true whenever it is read, and an active one is *)
(* of a session of this run, under way or over with its outcome not saved     *)
(* (the rows run_stop, stop_orphaned and sessions_mark_crashed write).        *)
RowsAreTrue == FinalRowIsOver /\ ActiveRowOfThisRun

(* The status a session ended with is never overwritten, by a retried stop, a *)
(* late insert or a restart: the row only goes when it's deleted.             *)
FinalRowStays ==
    [][\A s \in Sessions : row[s] \in Final => row'[s] \in {row[s], "none"}]_vars

(* A recording is never written over: a file is replaced by none, and goes    *)
(* only by a leg that lists it, rolled back or found empty when it stops, or  *)
(* by a deletion from history that its list names ("Paths are reserved under  *)
(* this lock until the files are open, so the check can't race").             *)
FilesKept ==
    [][\A p \in Paths : disk[p] # NoSession /\ disk'[p] # disk[p] =>
          /\ disk'[p] = NoSession
          /\ \/ \E s \in Sessions : p \in files[s]
                   /\ phase[s] \in {"reserved", "discarding", "stopping"}
             \/ p \in edit.list]_vars

(* What a finished session recorded can be found from its row, for playing    *)
(* and for deleting ("Only files the session recorded can be read here").     *)
HistoryListsFiles ==
    \A s \in Sessions, p \in Paths :
        row[s] \in Final /\ disk[p] = s /\ edit = NoEdit => p \in saved[s]

(* "Its other legs keep recording": failures stop a session only once each of *)
(* its legs has failed.                                                       *)
OthersKeepRecording ==
    [][\A s \in Sessions :
          failed'[s] # failed[s] /\ phase'[s] = "stopping"
          => \A p \in Outputs(s) : leg[s][p] = "failed"]_vars

(* What the safety of the whole rests on, step by step: a session that holds  *)
(* a source has one and the monitor it picked there ...                       *)
Holding ==
    \A s \in Sessions : phase[s] \in {"reserved", "active"} =>
        source[s] \in Sources /\ mon[s] # 0

(* ... nothing is under way while the process is down ...                     *)
DownIsIdle ==
    ~up => /\ \A s \in Sessions : phase[s] \in {"none", "refused", "done", "lost"}
           /\ orphan = NoList

(* ... a session has a row from its start's insert on, which is done once,    *)
(* and a final one once its stop has saved it.                                *)
RowFollowsPhase ==
    \A s \in Sessions :
        /\ row[s] # "none" =>
              phase[s] \in {"active", "stopping", "published", "done", "lost"}
        /\ row[s] \in Final => phase[s] \in {"published", "done", "lost"}
        /\ request[s] = "open" => row[s] = "none"

(* ... and the row that a late stop has read to be active is written by no    *)
(* one else meanwhile but to the same end.                                    *)
OrphanStaysOrphan ==
    \A s \in Sessions : orphan.id = s =>
        /\ phase[s] \in {"done", "lost"}
        /\ row[s] \in {"active", "stopped", "none"}
        /\ request[s] # "open"

IInv ==
    /\ TypeOK
    /\ Holding /\ DownIsIdle /\ RowFollowsPhase /\ OrphanStaysOrphan
    /\ OneRecordingPerSource /\ ActiveIsFed /\ NoOrphanLeg /\ ActiveRowOfThisRun

(* Files rest on paths that one recording holds, free until its leg starts ... *)
PathsAreHeld ==
    /\ \A s, t \in Sessions, p \in Paths :
          /\ phase[s] \in {"reserved", "active"} /\ phase[t] \in {"reserved", "active"}
          /\ leg[s][p] # "off" /\ leg[t][p] # "off"
          => s = t
    /\ \A s \in Sessions, p \in Paths :
          phase[s] = "reserved" /\ leg[s][p] = "idle" => disk[p] = NoSession

(* ... and on whatever lists them, which a session's files outlive never: its *)
(* legs, the DTOs its row is to be written from, the row, and what a deletion *)
(* and a stop of what is in no map have read of it.                           *)
Has(s) == {p \in Paths : disk[p] = s}

FilesAreListed ==
    /\ saving = NoList /\ opened = {}
    /\ edit.what # "none" => edit.id \in Sessions
    /\ \A s \in Sessions :
          /\ phase[s] = "none" => Has(s) = {}
          /\ phase[s] = "reserved" => Outputs(s) \subseteq files[s]
          /\ phase[s] \in {"reserved", "active", "stopping", "published", "discarding"}
                => Has(s) \subseteq files[s]
          /\ phase[s] \in {"active", "stopping", "published", "done"} /\ request[s] = "open"
                => Has(s) \subseteq begun[s]
          /\ phase[s] \in {"stopping", "published"} => Has(s) \subseteq ended[s]
          /\ row[s] # "none" => Has(s) \subseteq saved[s]
          /\ edit.id = s => Has(s) \subseteq edit.list /\ phase[s] \notin {"none", "reserved"}
          /\ orphan.id = s => Has(s) \subseteq orphan.list

(* A failure is noted once for each leg that has failed, at most. *)
Dropped(s) == Live(s) = {} /\ Started(s)

Failures(s) == {p \in Paths : leg[s][p] = "failed"}

Noted(s) == {p \in Failures(s) : <<s, p>> \notin reports}

FailuresAreNoted ==
    \A s \in Sessions :
        /\ phase[s] = "none" => failed[s] = 0 /\ \A p \in Paths : <<s, p>> \notin reports
        /\ phase[s] = "active" \/ (phase[s] = "reserved" /\ ~Dropped(s)) =>
              /\ failed[s] <= Cardinality(Noted(s))
              /\ \A p \in Paths : <<s, p>> \in reports => leg[s][p] = "failed"

-----------------------------------------------------------------------------
(* Liveness, while the process runs. *)

(* A failed source's recordings end, so files are finalised rather than       *)
(* waiting for frames that never come (spawn_monitor_recovery).               *)
FailedSourceEnds ==
    \A s \in Sessions :
        phase[s] = "active" /\ source[s] \in broken ~> phase[s] \in {"done", "lost"}

(* Every stop request is answered, whoever began the stop. *)
StopsAnswered == \A s \in Sessions : s \in waiting ~> s \notin waiting

(* A quit always exits. *)
QuitExits == quitting.on ~> ~up

-----------------------------------------------------------------------------
(* What the code says and does not keep. *)

(* "Delete one of a finished session's files": none that is still written.    *)
DeletesWhatIsFinished ==
    [][\A p \in Paths : edit # NoEdit /\ edit' = NoEdit /\ disk'[p] # disk[p] =>
          p \notin Live(edit.id)]_vars

-----------------------------------------------------------------------------
(* A recording, as its source sees it. *)

HolderOf(r) == {s \in Sessions : phase[s] \in {"reserved", "active"} /\ source[s] = r}

Holder == [r \in Sources |->
    IF HolderOf(r) = {} THEN NoSession ELSE CHOOSE s \in Sessions : s \in HolderOf(r)]

Take == [s \in Sessions |->
    CASE phase[s] = "none" -> "none"
      [] phase[s] = "reserved" -> "starting"
      [] phase[s] = "active" -> "rolling"
      [] phase[s] = "stopping" -> "closing"
      [] OTHER -> "ended"]

Promise == INSTANCE RecordingPromise WITH holder <- Holder, take <- Take

(* The promise is kept: each step of a session is one of a take, or none.     *)
KeepsPromiseSafely == Promise!SafetySpec

(* What starts or stops also comes to an end. *)
KeepsPromise == Promise!Spec

(* What recordings take monitors to do is no more than MonitorLife says, which *)
(* SourceManager provides: one at a time, replaced and never repaired.        *)
Life == INSTANCE MonitorLife

ReliesOnMonitors == Life!Spec

\* Sessions are alike, and so are paths: sound for safety.
Symmetry == Permutations(Sessions) \cup Permutations(Paths)
=============================================================================
