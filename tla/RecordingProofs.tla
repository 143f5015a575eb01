------------------------- MODULE RecordingProofs -------------------------
(***************************************************************************)
(* What TLAPS proves of Recording, for any sources, sessions and paths and *)
(* whatever the bounds.                                                    *)
(***************************************************************************)
EXTENDS Recording, FiniteSetTheorems, TLAPS

USE DEF Phases, LegStates, Final, NoQuit, Lists, NoList, Edits, NoEdit, NoLegs

LEMMA TypeInit == Init => TypeOK
  BY ConstantsAssumption DEF Init, TypeOK

LEMMA TypeMonitors ==
  ASSUME TypeOK,
         \/ \E r \in Sources : MonitorStarts(r) \/ MonitorFails(r)
         \/ \E changed, late \in SUBSET Sources : Rebuild(changed, late)
  PROVE  TypeOK'
<1>1. ASSUME NEW r \in Sources, MonitorStarts(r) PROVE TypeOK'
  BY <1>1 DEF MonitorStarts, TypeOK, process, legs, dtos, recorder, dtos, stops, history, deletion
<1>2. ASSUME NEW r \in Sources, MonitorFails(r) PROVE TypeOK'
  BY <1>2 DEF MonitorFails, TypeOK, process, legs, dtos, recorder, dtos, stops, history, deletion
<1>3. ASSUME NEW changed \in SUBSET Sources, NEW late \in SUBSET Sources,
             Rebuild(changed, late)
      PROVE  TypeOK'
  BY <1>3 DEF Rebuild, take_session, session_files, unhealthy, TypeOK, process, legs, dtos, recorder,
              dtos, stops, history, deletion
<1> QED BY <1>1, <1>2, <1>3

(* Dropping sessions from memory leaves what is kept of each well typed. *)
LEMMA ForgetTypes ==
  ASSUME TypeOK, NEW S, Forget(S)
  PROVE  /\ source' \in [Sessions -> Sources \cup {NoSource}]
         /\ mon' \in [Sessions -> Nat]
         /\ leg' \in [Sessions -> [Paths -> LegStates]]
         /\ files' \in [Sessions -> SUBSET Paths]
         /\ failed' \in [Sessions -> Nat]
         /\ cause' \in [Sessions -> {"none", "asked", "source"}]
  BY DEF Forget, TypeOK

LEMMA TypeStart ==
  ASSUME TypeOK, NEW s \in Sessions,
         \/ \E r \in Sources, P \in SUBSET Paths : begin_start_recording(s, r, P)
         \/ \E p \in Paths : StartLeg(s, p) \/ StartLegFails(s, p)
         \/ finish_start_recording(s) \/ DiscardLegs(s) \/ session_insert(s) \/ DropRequest(s)
  PROVE  TypeOK'
<1>1. ASSUME NEW r \in Sources, NEW P \in SUBSET Paths, begin_start_recording(s, r, P)
      PROVE  TypeOK'
  BY <1>1 DEF begin_start_recording, TypeOK, process, monitors, recorder, dtos, stops, history, deletion
<1>2. ASSUME NEW p \in Paths, StartLeg(s, p) PROVE TypeOK'
  BY <1>2 DEF StartLeg, TypeOK, process, monitors, recorder, dtos, stops, history, deletion
<1>3. ASSUME NEW p \in Paths, StartLegFails(s, p) PROVE TypeOK'
  <2>1. Closed(s) \in [Paths -> LegStates]
    BY DEF Closed, TypeOK
  <2>2. leg' \in [Sessions -> [Paths -> LegStates]]
    BY <1>3, <2>1 DEF StartLegFails, TypeOK
  <2>3. disk' \in [Paths -> Sessions \cup {NoSession}]
    BY <1>3 DEF StartLegFails, Removed, TypeOK
  <2> QED
    BY <1>3, <2>2, <2>3 DEF StartLegFails, TypeOK, process, monitors, recorder, dtos, stops, history,
                            deletion
<1>4. CASE finish_start_recording(s)
  BY <1>4, ForgetTypes DEF finish_start_recording, session_files, TypeOK, process, monitors, dtos,
                           recorder, stops, history, deletion
<1>5. CASE DiscardLegs(s)
  BY <1>5, ForgetTypes DEF DiscardLegs, Removed, TypeOK, process, monitors, recorder, dtos, stops,
                           history, deletion
<1>6. CASE session_insert(s)
  <2>1. /\ begun[s] \in SUBSET Paths /\ saved \in [Sessions -> SUBSET Paths]
        /\ row \in [Sessions -> {"none", "active"} \cup Final] /\ dbErrors \in Nat
    BY DEF TypeOK
  <2>2. /\ row' = [row EXCEPT ![s] = "active"] \/ row' = row
        /\ saved' = [saved EXCEPT ![s] = begun[s]] \/ saved' = saved
        /\ dbErrors' = dbErrors + 1 \/ dbErrors' = dbErrors
    BY <1>6 DEF session_insert
  <2>3. saved' \in [Sessions -> SUBSET Paths]
    BY <2>1, <2>2
  <2>4. row' \in [Sessions -> {"none", "active"} \cup Final] /\ dbErrors' \in Nat
    BY <2>1, <2>2
  <2>5. request' \in [Sessions -> {"none", "open", "closed"}]
    BY <1>6 DEF session_insert, TypeOK
  <2>6. UNCHANGED <<process, monitors, phase, source, mon, legs, failed, cause, dtos,
                   reports, recorder, stops, deletion, disk>>
    BY <1>6 DEF session_insert
  <2> QED
    BY <2>3, <2>4, <2>5, <2>6 DEF TypeOK, process, monitors, legs, recorder, dtos, stops,
                                  deletion
<1>7. CASE DropRequest(s)
  BY <1>7 DEF DropRequest, TypeOK, process, monitors, legs, recorder, dtos, stops, history, deletion
<1> QED BY <1>1, <1>2, <1>3, <1>4, <1>5, <1>6, <1>7

(* A write to a row leaves it and its list well typed; one to no session's    *)
(* changes nothing.                                                           *)
LEMMA WriteTypes ==
  ASSUME TypeOK, NEW s \in Sessions \cup {NoSession}, NEW status, NEW list \in SUBSET Paths,
         s \in Sessions => status \in {"none", "active"} \cup Final, Write(s, status, list)
  PROVE  /\ row' \in [Sessions -> {"none", "active"} \cup Final]
         /\ saved' \in [Sessions -> SUBSET Paths]
         /\ dbErrors' \in Nat
<1>1. /\ saved \in [Sessions -> SUBSET Paths] /\ dbErrors \in Nat
      /\ row \in [Sessions -> {"none", "active"} \cup Final]
  BY DEF TypeOK
<1>2. /\ row' = [row EXCEPT ![s] = status] \/ row' = row
      /\ saved' = [saved EXCEPT ![s] = list] \/ saved' = saved
      /\ dbErrors' = dbErrors + 1 \/ dbErrors' = dbErrors
  BY DEF Write
<1>3. row' \in [Sessions -> {"none", "active"} \cup Final]
  BY <1>1, <1>2
<1>4. saved' \in [Sessions -> SUBSET Paths]
  BY <1>1, <1>2
<1> QED BY <1>1, <1>2, <1>3, <1>4

LEMMA TypeLegs ==
  ASSUME TypeOK, NEW s \in Sessions,
         \/ \E p \in Paths : LegOpensFile(s, p) \/ LegFails(s, p) \/ note_leg_failure(s, p)
         \/ RecorderReads(s) \/ RecorderWrites(s)
  PROVE  TypeOK'
<1>1. ASSUME NEW p \in Paths, LegOpensFile(s, p) PROVE TypeOK'
  BY <1>1 DEF LegOpensFile, TypeOK, process, monitors, dtos, stops, history, deletion
<1>2. CASE RecorderReads(s)
  BY <1>2 DEF RecorderReads, TypeOK, process, monitors, legs, dtos, stops, history, deletion
<1>3. CASE RecorderWrites(s)
  <2>1. row[s] \in {"none", "active"} \cup Final /\ saving.list \in SUBSET Paths
    BY DEF TypeOK
  <2>2. Write(s, row[s], saving.list)
    BY <1>3 DEF RecorderWrites
  <2>3. /\ row' \in [Sessions -> {"none", "active"} \cup Final]
        /\ saved' \in [Sessions -> SUBSET Paths]
        /\ dbErrors' \in Nat
    BY <2>1, <2>2, WriteTypes
  <2>4. /\ saving' \in Lists
        /\ UNCHANGED <<process, monitors, phase, source, mon, legs, failed, cause, dtos, reports,
                       opened, request, stops, deletion, disk>>
    BY <1>3 DEF RecorderWrites
  <2> QED
    BY <2>3, <2>4 DEF TypeOK, process, monitors, legs, dtos, stops, deletion
<1>4. ASSUME NEW p \in Paths, LegFails(s, p) PROVE TypeOK'
  BY <1>4 DEF LegFails, TypeOK, process, monitors, dtos, recorder, stops, history, deletion
<1>5. ASSUME NEW p \in Paths, note_leg_failure(s, p) PROVE TypeOK'
  <2> DEFINE Goal == /\ phase' \in [Sessions -> Phases]
                     /\ cause' \in [Sessions -> {"none", "asked", "source"}]
                     /\ begun' \in [Sessions -> SUBSET Paths]
                     /\ ended' \in [Sessions -> SUBSET Paths]
                     /\ failed' \in [Sessions -> Nat]
  <2>1. ASSUME phase[s] = "active" PROVE Goal
    <3> DEFINE S == IF all_failed(s) THEN {s} ELSE {}
    <3>1. take_session(S, Asked) /\ failed' = [failed EXCEPT ![s] = @ + 1]
      BY <1>5, <2>1 DEF note_leg_failure
    <3> HIDE DEF S
    <3>2. failed' \in [Sessions -> Nat]
      BY <3>1 DEF TypeOK
    <3>3. phase' \in [Sessions -> Phases]
      BY <3>1 DEF take_session, TypeOK
    <3>4. cause' \in [Sessions -> {"none", "asked", "source"}]
      BY <3>1 DEF take_session, Asked, TypeOK
    <3>5. begun' \in [Sessions -> SUBSET Paths] /\ ended' \in [Sessions -> SUBSET Paths]
      BY <3>1 DEF take_session, session_files, TypeOK
    <3> QED BY <3>2, <3>3, <3>4, <3>5
  <2>2. ASSUME phase[s] # "active" PROVE Goal
    BY <1>5, <2>2 DEF note_leg_failure, TypeOK, dtos
  <2>3. Goal /\ reports' \in SUBSET (Sessions \X Paths)
    BY <1>5, <2>1, <2>2 DEF note_leg_failure, TypeOK
  <2>4. UNCHANGED <<process, monitors, source, mon, legs, recorder, request, stops, history,
                    deletion, disk>>
    BY <1>5 DEF note_leg_failure
  <2> QED
    BY <2>3, <2>4 DEF TypeOK, process, monitors, legs, recorder, stops, history, deletion
<1> QED BY <1>1, <1>2, <1>3, <1>4, <1>5

LEMMA TypeStop ==
  ASSUME TypeOK, NEW s \in Sessions,
         \/ StopStart(s) \/ StopJoin(s) \/ OrphanRead(s) \/ stop_orphaned(s)
         \/ \E p \in Paths : StopLeg(s, p)
         \/ session_update_stop(s) \/ finish_stop(s) \/ Answer(s)
  PROVE  TypeOK'
<1>1. CASE StopStart(s)
  BY <1>1 DEF StopStart, take_session, session_files, Asked, TypeOK, process, monitors, legs,
              dtos, recorder, history, deletion
<1>2. CASE StopJoin(s)
  BY <1>2 DEF StopJoin, TypeOK, process, monitors, legs, dtos, recorder, history, deletion
<1>3. CASE stop_orphaned(s)
  <2>1. orphan.list \in SUBSET Paths /\ "stopped" \in {"none", "active"} \cup Final
    BY DEF TypeOK
  <2>2. Write(s, "stopped", orphan.list)
    BY <1>3 DEF stop_orphaned
  <2>3. /\ row' \in [Sessions -> {"none", "active"} \cup Final]
        /\ saved' \in [Sessions -> SUBSET Paths]
        /\ dbErrors' \in Nat
    BY <2>1, <2>2, WriteTypes
  <2> QED
    BY <1>3, <2>3 DEF stop_orphaned, TypeOK, process, monitors, legs, dtos, recorder, deletion
<1>4. ASSUME NEW p \in Paths, StopLeg(s, p) PROVE TypeOK'
  BY <1>4 DEF StopLeg, stop_results, Removed, TypeOK, process, monitors, dtos, recorder, stops, history,
              deletion
<1>5. CASE session_update_stop(s)
  <2>1. PICK status \in Final : /\ Write(s, status, ended[s])
                                /\ outcome' = [outcome EXCEPT ![s] = status]
    BY <1>5 DEF session_update_stop
  <2>2. ended[s] \in SUBSET Paths /\ status \in {"none", "active"} \cup Final
    BY DEF TypeOK
  <2>3. /\ row' \in [Sessions -> {"none", "active"} \cup Final]
        /\ saved' \in [Sessions -> SUBSET Paths]
        /\ dbErrors' \in Nat
    BY <2>1, <2>2, WriteTypes
  <2>4. /\ phase' \in [Sessions -> Phases]
        /\ outcome' \in [Sessions -> {"none"} \cup Final]
    BY <1>5, <2>1 DEF session_update_stop, TypeOK
  <2> QED
    BY <1>5, <2>3, <2>4 DEF session_update_stop, TypeOK, process, monitors, legs, dtos,
                            recorder, deletion
<1>6. CASE finish_stop(s)
  BY <1>6, ForgetTypes DEF finish_stop, TypeOK, process, monitors, recorder, stops, history,
                           deletion
<1>7. CASE Answer(s)
  BY <1>7 DEF Answer, TypeOK, process, monitors, legs, dtos, recorder, history, deletion
<1>8. CASE OrphanRead(s)
  <2>1. saved[s] \in SUBSET Paths
    BY DEF TypeOK
  <2> QED
    BY <1>8, <2>1 DEF OrphanRead, TypeOK, process, monitors, legs, dtos, recorder, history,
                      deletion
<1> QED BY <1>1, <1>2, <1>3, <1>4, <1>5, <1>6, <1>7, <1>8

LEMMA TypeDelete ==
  ASSUME TypeOK,
         \/ \E s \in Sessions, what \in {"row", "files", "file"} : EditStarts(s, what)
         \/ \E deleted \in SUBSET edit.list : delete_recording(deleted)
         \/ \E p \in Paths : delete_recording_file(p)
         \/ DeleteFileFails
  PROVE  TypeOK'
<1>0. edit.id \in Sessions \cup {NoSession} /\ edit.list \in SUBSET Paths
  BY DEF TypeOK
<1>1. ASSUME NEW s \in Sessions, NEW what \in {"row", "files", "file"}, EditStarts(s, what)
      PROVE  TypeOK'
  <2>1. saved[s] \in SUBSET Paths
    BY DEF TypeOK
  <2> QED
    BY <1>1, <2>1 DEF EditStarts, TypeOK, process, monitors, legs, dtos, recorder, stops, history
<1>2. ASSUME NEW deleted \in SUBSET edit.list, delete_recording(deleted) PROVE TypeOK'
  <2>1. disk' \in [Paths -> Sessions \cup {NoSession}]
    BY <1>2 DEF delete_recording, Removed, TypeOK
  <2>2. /\ row' \in [Sessions -> {"none", "active"} \cup Final]
        /\ saved' \in [Sessions -> SUBSET Paths]
        /\ dbErrors' \in Nat
    <3>1. CASE edit.what = "row" \/ deleted = edit.list
      <4>1. Write(edit.id, "none", {})
        BY <1>2, <3>1 DEF delete_recording
      <4> QED BY <1>0, <4>1, WriteTypes
    <3>2. CASE ~(edit.what = "row" \/ deleted = edit.list)
      <4>1. Write(edit.id, row[edit.id], edit.list \ deleted)
        BY <1>2, <3>2 DEF delete_recording
      <4>2. edit.id \in Sessions => row[edit.id] \in {"none", "active"} \cup Final
        BY DEF TypeOK
      <4> QED BY <1>0, <4>1, <4>2, WriteTypes
    <3> QED BY <3>1, <3>2
  <2> QED
    BY <1>2, <2>1, <2>2 DEF delete_recording, TypeOK, process, monitors, legs, dtos, recorder,
                            stops
<1>3. ASSUME NEW p \in Paths, delete_recording_file(p) PROVE TypeOK'
  <2>1. disk' \in [Paths -> Sessions \cup {NoSession}]
    BY <1>3 DEF delete_recording_file, Removed, TypeOK
  <2>2. Write(edit.id, row[edit.id], edit.list \ {p})
    BY <1>3 DEF delete_recording_file
  <2>3. edit.id \in Sessions => row[edit.id] \in {"none", "active"} \cup Final
    BY DEF TypeOK
  <2>4. /\ row' \in [Sessions -> {"none", "active"} \cup Final]
        /\ saved' \in [Sessions -> SUBSET Paths]
        /\ dbErrors' \in Nat
    BY <1>0, <2>2, <2>3, WriteTypes
  <2> QED
    BY <1>3, <2>1, <2>4 DEF delete_recording_file, TypeOK, process, monitors, legs, dtos,
                            recorder, stops
<1>4. CASE DeleteFileFails
  BY <1>4 DEF DeleteFileFails, TypeOK, process, monitors, legs, dtos, recorder, stops, history
<1> QED BY <1>1, <1>2, <1>3, <1>4

LEMMA TypeProcess ==
  ASSUME TypeOK, Crash \/ Restart \/ Quit \/ Exit \/ \E s \in Sessions : QuitStops(s)
  PROVE  TypeOK'
<1>1. ASSUME ProcessEnds, crashes' \in Nat, quits' \in Nat PROVE TypeOK'
  <2>1. phase' \in [Sessions -> Phases]
    BY <1>1 DEF ProcessEnds, TypeOK
  <2>2. request' \in [Sessions -> {"none", "open", "closed"}]
    BY <1>1 DEF ProcessEnds, TypeOK
  <2>3. Forget(Sessions)
    BY <1>1 DEF ProcessEnds
  <2> QED
    BY <1>1, <2>1, <2>2, <2>3, ForgetTypes DEF ProcessEnds, TypeOK, history
<1>2. CASE Crash
  <2>1. ProcessEnds /\ crashes' \in Nat /\ quits' \in Nat
    BY <1>2 DEF Crash, TypeOK
  <2> QED BY <1>1, <2>1
<1>3. CASE Restart
  <2>1. row' \in [Sessions -> {"none", "active"} \cup Final]
    BY <1>3 DEF Restart, sessions_mark_crashed, TypeOK
  <2> QED
    BY <1>3, <2>1 DEF Restart, TypeOK, monitors, legs, dtos, recorder, stops, deletion
<1>4. CASE Quit
  BY <1>4 DEF Quit, TypeOK, monitors, legs, dtos, recorder, stops, history, deletion
<1>5. ASSUME NEW s \in Sessions, QuitStops(s) PROVE TypeOK'
  BY <1>5 DEF QuitStops, take_session, session_files, Asked, TypeOK, process, monitors, legs,
              dtos, recorder, stops, history, deletion
<1>6. CASE Exit
  <2>1. ProcessEnds /\ crashes' \in Nat /\ quits' \in Nat
    BY <1>6 DEF Exit, TypeOK
  <2> QED BY <1>1, <2>1
<1> QED BY <1>2, <1>3, <1>4, <1>5, <1>6

LEMMA TypeStutter == ASSUME TypeOK, UNCHANGED vars PROVE TypeOK'
  BY DEF TypeOK, vars, process, monitors, legs, dtos, recorder, stops, history, deletion

(* Every step keeps every variable well typed. *)
LEMMA TypeNext == ASSUME TypeOK, [Next]_vars PROVE TypeOK'
<1>1. CASE Client
  BY <1>1, TypeStart, TypeStop, TypeDelete DEF Client
<1>2. CASE Environment
  BY <1>2, TypeMonitors, TypeLegs, TypeProcess DEF Environment
<1>3. CASE Exit
  BY <1>3, TypeProcess
<1>4. ASSUME NEW s \in Sessions, Task(s) PROVE TypeOK'
  BY <1>4, TypeStart, TypeLegs, TypeStop, TypeProcess DEF Task
<1>5. CASE UNCHANGED vars
  BY <1>5, TypeStutter
<1> QED BY <1>1, <1>2, <1>3, <1>4, <1>5 DEF Next

(* Every variable keeps its type: the states of a session, of its legs, its   *)
(* row and its request are the ones the code can tell apart.                  *)
THEOREM TypeCorrect == SafetySpec => []TypeOK
<1>1. Init => TypeOK
  BY TypeInit
<1>2. TypeOK /\ [Next]_vars => TypeOK'
  BY TypeNext
<1> QED BY <1>1, <1>2, PTL DEF SafetySpec

-----------------------------------------------------------------------------
(* The inductive invariant. *)

LEMMA InvInit == Init => IInv
<1> SUFFICES ASSUME Init PROVE IInv
  OBVIOUS
<1>1. TypeOK
  BY TypeInit
<1>2. \A s \in Sessions : Live(s) = {}
  BY DEF Init, Live
<1>3. NoOrphanLeg
  BY <1>2 DEF NoOrphanLeg
<1>4. OrphanStaysOrphan
  BY ConstantsAssumption DEF Init, OrphanStaysOrphan
<1> QED
  BY <1>1, <1>3, <1>4 DEF Init, IInv, Holding, DownIsIdle, RowFollowsPhase, OneRecordingPerSource,
                    ActiveIsFed, ActiveRowOfThisRun

(* What a step leaves alone when it disturbs none of the invariant.           *)
Held == <<up, monitor, phase, source, mon, leg, row, request, orphan>>

LEMMA Undisturbed ==
  ASSUME IInv, TypeOK', UNCHANGED Held
  PROVE  IInv'
<1>1. \A s \in Sessions : Live(s)' = Live(s)
  BY DEF Live, Held
<1>2. \A s \in Sessions : is_current(s)' = is_current(s)
  BY DEF is_current, Held
<1>3. (Holding /\ DownIsIdle /\ RowFollowsPhase /\ OrphanStaysOrphan)'
  BY DEF IInv, Held, Holding, DownIsIdle, RowFollowsPhase, OrphanStaysOrphan
<1>4. (OneRecordingPerSource /\ ActiveRowOfThisRun)'
  BY DEF IInv, Held, OneRecordingPerSource, ActiveRowOfThisRun
<1>5. (ActiveIsFed /\ NoOrphanLeg)'
  BY <1>1, <1>2 DEF IInv, Held, ActiveIsFed, NoOrphanLeg
<1> QED BY <1>3, <1>4, <1>5 DEF IInv

(* Taking sessions out of the active set keeps the invariant, provided that   *)
(* the sessions still active keep their monitor.                              *)
LEMMA TakingOut ==
  ASSUME IInv, TypeOK', up, NEW S \in SUBSET Sessions, NEW why, take_session(S, why),
         \A s \in S : phase[s] = "active",
         \A s \in Sessions \ S : phase[s] = "active" => monitor'[source[s]] = monitor[source[s]],
         UNCHANGED <<up, source, mon, leg, row, request, orphan>>
  PROVE  IInv'
<1>0. phase' = [s \in Sessions |-> IF s \in S THEN "stopping" ELSE phase[s]]
  BY DEF take_session
<1>1. \A s \in Sessions : Live(s)' = Live(s)
  BY DEF Live
<1>2. (Holding /\ DownIsIdle /\ RowFollowsPhase /\ OrphanStaysOrphan)'
  BY <1>0 DEF IInv, Holding, DownIsIdle, RowFollowsPhase, OrphanStaysOrphan
<1>3. (OneRecordingPerSource /\ ActiveRowOfThisRun)'
  BY <1>0 DEF IInv, OneRecordingPerSource, ActiveRowOfThisRun
<1>4. NoOrphanLeg'
  BY <1>0, <1>1 DEF IInv, NoOrphanLeg
<1>5. ActiveIsFed'
  BY <1>0 DEF IInv, ActiveIsFed, is_current
<1> QED BY <1>2, <1>3, <1>4, <1>5 DEF IInv

LEMMA InvMonitors ==
  ASSUME IInv, TypeOK',
         \/ \E r \in Sources : MonitorStarts(r) \/ MonitorFails(r)
         \/ \E changed, late \in SUBSET Sources : Rebuild(changed, late)
  PROVE  IInv'
<1>1. ASSUME NEW r \in Sources, MonitorStarts(r) PROVE IInv'
  <2>1. UNCHANGED <<up, phase, source, mon, leg, row, request, orphan>>
    BY <1>1 DEF MonitorStarts, process, legs, history, stops
  <2>2. \A s \in Sessions : Live(s)' = Live(s)
    BY <2>1 DEF Live
  <2>3. ActiveIsFed'
    <3> SUFFICES ASSUME NEW s \in Sessions, phase[s] = "active"
                 PROVE  monitor'[source[s]] = mon[s]
      BY <2>1 DEF ActiveIsFed, is_current
    <3>1. source[s] \in Sources /\ mon[s] # 0 /\ monitor[source[s]] = mon[s]
      BY DEF IInv, Holding, ActiveIsFed, is_current
    <3>2. source[s] # r
      BY <1>1, <3>1 DEF MonitorStarts
    <3> QED BY <1>1, <3>1, <3>2 DEF MonitorStarts, IInv, TypeOK
  <2>4. (Holding /\ DownIsIdle /\ RowFollowsPhase /\ OrphanStaysOrphan)'
    BY <2>1 DEF IInv, Holding, DownIsIdle, RowFollowsPhase, OrphanStaysOrphan
  <2>5. (OneRecordingPerSource /\ ActiveRowOfThisRun /\ NoOrphanLeg)'
    BY <2>1, <2>2 DEF IInv, OneRecordingPerSource, ActiveRowOfThisRun, NoOrphanLeg
  <2> QED BY <2>3, <2>4, <2>5 DEF IInv
<1>2. ASSUME NEW r \in Sources, MonitorFails(r) PROVE IInv'
  BY <1>2, Undisturbed DEF MonitorFails, Held, process, legs, history, stops
<1>3. ASSUME NEW changed \in SUBSET Sources, NEW late \in SUBSET Sources,
             Rebuild(changed, late)
      PROVE  IInv'
  <2> DEFINE gone == {r \in unhealthy \cup changed : monitor[r] # 0}
             cut == UNION {ActiveOn(r) : r \in gone}
             why == [s \in Sessions |-> IF source[s] \in broken \cup late THEN "source" ELSE "asked"]
  <2>1. /\ take_session(cut, why) /\ up
        /\ monitor' = [r \in Sources |-> IF r \in gone THEN 0 ELSE monitor[r]]
        /\ UNCHANGED <<up, source, mon, leg, row, request, orphan>>
    BY <1>3 DEF Rebuild, process, legs, history, stops
  <2>2. cut \in SUBSET Sessions /\ \A s \in cut : phase[s] = "active"
    BY DEF ActiveOn
  <2>3. ASSUME NEW s \in Sessions \ cut, phase[s] = "active"
        PROVE  monitor'[source[s]] = monitor[source[s]]
    <3>1. source[s] \in Sources
      BY <2>3 DEF IInv, Holding
    <3>2. source[s] \notin gone
      BY <2>3 DEF ActiveOn
    <3> QED BY <2>1, <3>1, <3>2
  <2> HIDE DEF cut, why, gone
  <2> QED BY <2>1, <2>2, <2>3, TakingOut
<1> QED BY <1>1, <1>2, <1>3

(* Legs that change in sessions which may have some change nothing else. *)
LEMMA LegsMove ==
  ASSUME IInv, TypeOK', NEW s \in Sessions,
         phase[s] \in {"reserved", "active", "stopping", "discarding"},
         \A t \in Sessions \ {s} : leg'[t] = leg[t],
         UNCHANGED <<up, monitor, phase, source, mon, row, request, orphan>>
  PROVE  IInv'
<1>1. \A t \in Sessions \ {s} : Live(t)' = Live(t)
  BY DEF Live
<1>2. NoOrphanLeg'
  BY <1>1 DEF IInv, NoOrphanLeg
<1>3. (Holding /\ DownIsIdle /\ RowFollowsPhase /\ OrphanStaysOrphan)'
  BY DEF IInv, Holding, DownIsIdle, RowFollowsPhase, OrphanStaysOrphan
<1>4. (OneRecordingPerSource /\ ActiveRowOfThisRun /\ ActiveIsFed)'
  BY DEF IInv, OneRecordingPerSource, ActiveRowOfThisRun, ActiveIsFed, is_current
<1> QED BY <1>2, <1>3, <1>4 DEF IInv

(* A session that leaves the maps with no leg to stop, and whose row is none, *)
(* or as final as it will be.                                                 *)
LEMMA Leaving ==
  ASSUME IInv, TypeOK', up, NEW s \in Sessions, NEW after \in {"refused", "done"},
         phase[s] \notin {"done", "lost"},
         phase' = [phase EXCEPT ![s] = after], Forget({s}),
         after = "refused" => row[s] = "none",
         UNCHANGED <<up, monitor, row, orphan>>,
         request' = request \/ request' = [request EXCEPT ![s] = "closed"]
  PROVE  IInv'
<1>1. /\ \A t \in Sessions \ {s} :
             phase'[t] = phase[t] /\ source'[t] = source[t] /\ mon'[t] = mon[t] /\ leg'[t] = leg[t]
      /\ phase'[s] = after
      /\ leg'[s] = NoLegs
  BY DEF IInv, TypeOK, Forget
<1>2. \A t \in Sessions \ {s} : Live(t)' = Live(t)
  BY <1>1 DEF Live
<1>3. Live(s)' = {}
  BY <1>1 DEF Live
<1>4. NoOrphanLeg'
  BY <1>1, <1>2, <1>3 DEF IInv, NoOrphanLeg
<1>5. (Holding /\ DownIsIdle)'
  BY <1>1 DEF IInv, Holding, DownIsIdle
<1>6. (RowFollowsPhase /\ OrphanStaysOrphan)'
  <2>1. \A t \in Sessions : request'[t] = "open" => request[t] = "open"
    BY DEF IInv, TypeOK
  <2> QED BY <1>1, <2>1 DEF IInv, RowFollowsPhase, OrphanStaysOrphan
<1>7. (OneRecordingPerSource /\ ActiveRowOfThisRun)'
  BY <1>1 DEF IInv, OneRecordingPerSource, ActiveRowOfThisRun
<1>8. ActiveIsFed'
  BY <1>1 DEF IInv, ActiveIsFed, is_current
<1> QED BY <1>4, <1>5, <1>6, <1>7, <1>8 DEF IInv

LEMMA InvStart ==
  ASSUME IInv, TypeOK', NEW s \in Sessions,
         \/ \E r \in Sources, P \in SUBSET Paths : begin_start_recording(s, r, P)
         \/ \E p \in Paths : StartLeg(s, p) \/ StartLegFails(s, p)
         \/ finish_start_recording(s) \/ DiscardLegs(s) \/ session_insert(s) \/ DropRequest(s)
  PROVE  IInv'
<1>0. TypeOK
  BY DEF IInv
<1>1. ASSUME NEW r \in Sources, NEW P \in SUBSET Paths, begin_start_recording(s, r, P)
      PROVE  IInv'
  <2>1. /\ \A t \in Sessions \ {s} :
               /\ phase'[t] = phase[t] /\ source'[t] = source[t] /\ mon'[t] = mon[t]
               /\ leg'[t] = leg[t] /\ request'[t] = request[t]
        /\ phase[s] = "none" /\ phase'[s] = "reserved" /\ source'[s] = r
        /\ mon'[s] = monitor[r] /\ monitor[r] # 0
        /\ up /\ ~is_recording(r) /\ UNCHANGED <<up, monitor, row, orphan>>
    BY <1>0, <1>1 DEF begin_start_recording, TypeOK, process, monitors, history, stops
  <2>2. \A t \in Sessions \ {s} : Live(t)' = Live(t)
    BY <2>1 DEF Live
  <2>3. NoOrphanLeg'
    BY <2>1, <2>2 DEF IInv, NoOrphanLeg
  <2>4. OneRecordingPerSource'
    BY <2>1 DEF IInv, OneRecordingPerSource, is_recording
  <2>5. (Holding /\ DownIsIdle)'
    BY <2>1 DEF IInv, Holding, DownIsIdle
  <2>6. row[s] = "none"
    BY <2>1, <1>0 DEF IInv, RowFollowsPhase, OrphanStaysOrphan
  <2>7. (RowFollowsPhase /\ OrphanStaysOrphan)'
    BY <2>1, <2>6 DEF IInv, RowFollowsPhase, OrphanStaysOrphan
  <2>8. (ActiveIsFed /\ ActiveRowOfThisRun)'
    BY <2>1 DEF IInv, ActiveIsFed, is_current, ActiveRowOfThisRun
  <2> QED BY <2>3, <2>4, <2>5, <2>7, <2>8 DEF IInv
<1>2. ASSUME NEW p \in Paths, StartLeg(s, p) \/ StartLegFails(s, p) PROVE IInv'
  <2>1. /\ phase[s] = "reserved"
        /\ \A t \in Sessions \ {s} : leg'[t] = leg[t]
        /\ UNCHANGED <<up, monitor, phase, source, mon, row, request, orphan>>
    BY <1>0, <1>2 DEF StartLeg, StartLegFails, TypeOK, process, monitors, history, stops
  <2> QED BY <2>1, LegsMove
<1>3. CASE finish_start_recording(s)
  <2> DEFINE after == IF Live(s) = {} THEN "refused"
                      ELSE IF is_current(s) THEN "active" ELSE "discarding"
  <2>1. /\ up /\ phase[s] = "reserved" /\ phase' = [phase EXCEPT ![s] = after]
        /\ request' = [request EXCEPT ![s] = IF after = "active" THEN @ ELSE "closed"]
        /\ Forget(IF after = "refused" THEN {s} ELSE {})
        /\ UNCHANGED <<up, monitor, row, orphan>>
    BY <1>3 DEF finish_start_recording, process, monitors, history, stops
  <2>2. row[s] = "none"
    BY <2>1, <1>0 DEF IInv, RowFollowsPhase, OrphanStaysOrphan
  <2>3. CASE after = "refused"
    BY <2>1, <2>2, <2>3, Leaving
  <2>4. CASE after # "refused"
    <3>1. /\ after \in {"active", "discarding"}
          /\ after = "active" => is_current(s)
      BY <2>4
    <3>2. /\ source' = source /\ mon' = mon /\ leg' = leg
          /\ \A t \in Sessions \ {s} : phase'[t] = phase[t] /\ request'[t] = request[t]
          /\ phase'[s] = after
          /\ request'[s] = "open" => request[s] = "open"
      BY <1>0, <2>1, <2>4 DEF Forget, TypeOK
    <3>3. \A t \in Sessions : Live(t)' = Live(t)
      BY <3>2 DEF Live
    <3> HIDE DEF after
    <3>4. NoOrphanLeg'
      BY <3>1, <3>2, <3>3 DEF IInv, NoOrphanLeg
    <3>5. (Holding /\ DownIsIdle /\ OneRecordingPerSource)'
      BY <2>1, <3>1, <3>2 DEF IInv, Holding, DownIsIdle, OneRecordingPerSource
    <3>6. (RowFollowsPhase /\ OrphanStaysOrphan)'
      BY <2>1, <2>2, <3>1, <3>2 DEF IInv, RowFollowsPhase, OrphanStaysOrphan
    <3>7. (ActiveIsFed /\ ActiveRowOfThisRun)'
      BY <2>1, <3>1, <3>2 DEF IInv, ActiveIsFed, is_current, ActiveRowOfThisRun
    <3> QED BY <3>4, <3>5, <3>6, <3>7 DEF IInv
  <2> QED BY <2>3, <2>4
<1>4. CASE DiscardLegs(s)
  <2>1. /\ up /\ phase[s] = "discarding" /\ phase' = [phase EXCEPT ![s] = "refused"]
        /\ Forget({s}) /\ UNCHANGED <<up, monitor, row, request, orphan>>
    BY <1>4 DEF DiscardLegs, process, monitors, history, stops
  <2>2. row[s] = "none"
    BY <2>1, <1>0 DEF IInv, RowFollowsPhase, OrphanStaysOrphan
  <2> QED BY <2>1, <2>2, Leaving
<1>5. CASE session_insert(s)
  <2>1. /\ up /\ request[s] = "open" /\ phase[s] \in {"active", "stopping", "published", "done"}
        /\ request' = [request EXCEPT ![s] = "closed"]
        /\ row' = row \/ row' = [row EXCEPT ![s] = "active"]
        /\ UNCHANGED <<up, monitor, phase, source, mon, leg, orphan>>
    BY <1>5 DEF session_insert, process, monitors, legs, stops
  <2>2. \A t \in Sessions : Live(t)' = Live(t)
    BY <2>1 DEF Live
  <2>3. \A t \in Sessions :
           /\ request'[t] = "open" => t # s /\ request[t] = "open"
           /\ row'[t] # row[t] => t = s /\ row'[t] = "active"
    BY <1>0, <2>1 DEF TypeOK
  <2>4. (RowFollowsPhase /\ OrphanStaysOrphan)'
    BY <2>1, <2>3 DEF IInv, RowFollowsPhase, OrphanStaysOrphan
  <2>5. ActiveRowOfThisRun'
    BY <2>1, <2>3 DEF IInv, ActiveRowOfThisRun
  <2>6. (Holding /\ DownIsIdle /\ OneRecordingPerSource)'
    BY <2>1 DEF IInv, Holding, DownIsIdle, OneRecordingPerSource
  <2>7. (NoOrphanLeg /\ ActiveIsFed)'
    BY <2>1, <2>2 DEF IInv, NoOrphanLeg, ActiveIsFed, is_current
  <2> QED BY <2>4, <2>5, <2>6, <2>7 DEF IInv
<1>6. CASE DropRequest(s)
  <2>1. /\ UNCHANGED <<up, monitor, phase, source, mon, leg, row, orphan>>
        /\ \A t \in Sessions : request'[t] = "open" => request[t] = "open"
    BY <1>0, <1>6 DEF DropRequest, TypeOK, process, monitors, legs, history, stops
  <2>2. \A t \in Sessions : Live(t)' = Live(t)
    BY <2>1 DEF Live
  <2>3. (RowFollowsPhase /\ OrphanStaysOrphan /\ Holding /\ DownIsIdle)'
    BY <2>1 DEF IInv, RowFollowsPhase, OrphanStaysOrphan, Holding, DownIsIdle
  <2>4. (ActiveRowOfThisRun /\ OneRecordingPerSource)'
    BY <2>1 DEF IInv, ActiveRowOfThisRun, OneRecordingPerSource
  <2>5. (NoOrphanLeg /\ ActiveIsFed)'
    BY <2>1, <2>2 DEF IInv, NoOrphanLeg, ActiveIsFed, is_current
  <2> QED BY <2>3, <2>4, <2>5 DEF IInv
<1> QED BY <1>1, <1>2, <1>3, <1>4, <1>5, <1>6

(* Rows that only go, or are marked stopped for a session that is over,       *)
(* change nothing else.                                                       *)
LEMMA RowsMove ==
  ASSUME IInv, TypeOK',
         UNCHANGED <<up, monitor, phase, source, mon, leg, request>>,
         orphan' \in {orphan, NoList},
         \A t \in Sessions : \/ row'[t] \in {row[t], "none"}
                             \/ /\ row[t] # "none" /\ row'[t] = "stopped"
                                /\ phase[t] \in {"done", "lost"}
  PROVE  IInv'
<1>1. \A t \in Sessions : Live(t)' = Live(t)
  BY DEF Live
<1>2. (RowFollowsPhase /\ OrphanStaysOrphan)'
  BY ConstantsAssumption DEF IInv, RowFollowsPhase, OrphanStaysOrphan
<1>3. ActiveRowOfThisRun'
  BY DEF IInv, ActiveRowOfThisRun
<1>4. (Holding /\ DownIsIdle /\ OneRecordingPerSource)'
  BY DEF IInv, Holding, DownIsIdle, OneRecordingPerSource
<1>5. (NoOrphanLeg /\ ActiveIsFed)'
  BY <1>1 DEF IInv, NoOrphanLeg, ActiveIsFed, is_current
<1> QED BY <1>2, <1>3, <1>4, <1>5 DEF IInv

(* A write changes at most the one row there is, to the status given. *)
LEMMA WriteRows ==
  ASSUME TypeOK, NEW s \in Sessions \cup {NoSession}, NEW status, NEW list,
         Write(s, status, list)
  PROVE  \A t \in Sessions :
            row'[t] # row[t] => t = s /\ row[t] # "none" /\ row'[t] = status
  BY DEF Write, TypeOK

LEMMA InvLegs ==
  ASSUME IInv, TypeOK', NEW s \in Sessions,
         \/ \E p \in Paths : LegOpensFile(s, p) \/ LegFails(s, p) \/ note_leg_failure(s, p)
         \/ RecorderReads(s) \/ RecorderWrites(s)
  PROVE  IInv'
<1>0. TypeOK
  BY DEF IInv
<1>1. ASSUME NEW p \in Paths, LegOpensFile(s, p) PROVE IInv'
  BY <1>1, Undisturbed DEF LegOpensFile, Held, process, monitors, history, stops
<1>2. ASSUME NEW p \in Paths, LegFails(s, p) PROVE IInv'
  <2>1. /\ leg[s][p] = "running" /\ \A t \in Sessions \ {s} : leg'[t] = leg[t]
        /\ UNCHANGED <<up, monitor, phase, source, mon, row, request, orphan>>
    BY <1>0, <1>2 DEF LegFails, TypeOK, process, monitors, history, stops
  <2>2. Live(s) # {}
    BY <2>1 DEF Live
  <2>3. phase[s] \in {"reserved", "active", "stopping", "discarding"}
    BY <2>2 DEF IInv, NoOrphanLeg
  <2> QED BY <2>1, <2>3, LegsMove
<1>3. ASSUME NEW p \in Paths, note_leg_failure(s, p) PROVE IInv'
  <2>1. up /\ UNCHANGED <<up, monitor, source, mon, leg, row, request, orphan>>
    BY <1>3 DEF note_leg_failure, process, monitors, legs, history, stops
  <2>2. CASE phase[s] = "active"
    <3> DEFINE S == IF all_failed(s) THEN {s} ELSE {}
    <3>1. take_session(S, Asked)
      BY <1>3, <2>2 DEF note_leg_failure
    <3>2. S \in SUBSET Sessions /\ \A t \in S : phase[t] = "active"
      BY <2>2
    <3> HIDE DEF S
    <3> QED BY <2>1, <3>1, <3>2, TakingOut
  <2>3. CASE phase[s] # "active"
    <3>1. phase' = phase
      BY <1>3, <2>3 DEF note_leg_failure
    <3> QED BY <2>1, <3>1, Undisturbed DEF Held
  <2> QED BY <2>2, <2>3
<1>4. CASE RecorderReads(s)
  BY <1>4, Undisturbed DEF RecorderReads, Held, process, monitors, legs, history, stops
<1>5. CASE RecorderWrites(s)
  <2>1. /\ Write(s, row[s], saving.list)
        /\ UNCHANGED <<up, monitor, phase, source, mon, leg, request, orphan>>
    BY <1>5 DEF RecorderWrites, process, monitors, legs, stops
  <2>2. \A t \in Sessions : row'[t] = row[t]
    BY <1>0, <2>1, WriteRows
  <2> QED BY <2>1, <2>2, RowsMove
<1> QED BY <1>1, <1>2, <1>3, <1>4, <1>5

LEMMA InvStop ==
  ASSUME IInv, TypeOK', NEW s \in Sessions,
         \/ StopStart(s) \/ StopJoin(s) \/ OrphanRead(s) \/ stop_orphaned(s)
         \/ \E p \in Paths : StopLeg(s, p)
         \/ session_update_stop(s) \/ finish_stop(s) \/ Answer(s)
  PROVE  IInv'
<1>0. TypeOK
  BY DEF IInv
<1>1. CASE StopStart(s)
  <2>1. /\ up /\ phase[s] = "active" /\ take_session({s}, Asked)
        /\ UNCHANGED <<up, monitor, source, mon, leg, row, request, orphan>>
    BY <1>1 DEF StopStart, process, monitors, legs, history, stops
  <2> QED BY <2>1, TakingOut
<1>2. CASE StopJoin(s)
  BY <1>2, Undisturbed DEF StopJoin, Held, process, monitors, legs, history, stops
<1>3. CASE stop_orphaned(s)
  <2>1. /\ Write(s, "stopped", orphan.list) /\ orphan.id = s /\ orphan' = NoList
        /\ UNCHANGED <<up, monitor, phase, source, mon, leg, request>>
    BY <1>3 DEF stop_orphaned, process, monitors, legs
  <2>3. phase[s] \in {"done", "lost"}
    BY <2>1 DEF IInv, OrphanStaysOrphan
  <2>2. \A t \in Sessions : row'[t] # row[t] => t = s /\ row[t] # "none" /\ row'[t] = "stopped"
    BY <1>0, <2>1, WriteRows
  <2> QED BY <2>1, <2>2, <2>3, RowsMove
<1>4. ASSUME NEW p \in Paths, StopLeg(s, p) PROVE IInv'
  <2>1. /\ phase[s] = "stopping" /\ \A t \in Sessions \ {s} : leg'[t] = leg[t]
        /\ UNCHANGED <<up, monitor, phase, source, mon, row, request, orphan>>
    BY <1>0, <1>4 DEF StopLeg, TypeOK, process, monitors, history, stops
  <2> QED BY <2>1, LegsMove
<1>5. CASE session_update_stop(s)
  <2>1. PICK status \in Final : Write(s, status, ended[s])
    BY <1>5 DEF session_update_stop
  <2>2. /\ up /\ phase[s] = "stopping" /\ Live(s) = {}
        /\ phase' = [phase EXCEPT ![s] = "published"]
        /\ UNCHANGED <<up, monitor, source, mon, leg, request, orphan>>
    BY <1>5 DEF session_update_stop, drained, process, monitors, legs, stops
  <2>3. /\ phase'[s] = "published"
        /\ \A t \in Sessions \ {s} : phase'[t] = phase[t]
    BY <1>0, <2>2 DEF TypeOK
  <2>4. \A t \in Sessions : row'[t] # row[t] => t = s /\ row[t] # "none" /\ row'[t] \in Final
    BY <1>0, <2>1, WriteRows
  <2>5. \A t \in Sessions : Live(t)' = Live(t)
    BY <2>2 DEF Live
  <2>6. (RowFollowsPhase /\ OrphanStaysOrphan)'
    BY <2>2, <2>3, <2>4 DEF IInv, RowFollowsPhase, OrphanStaysOrphan
  <2>7. ActiveRowOfThisRun'
    BY <2>2, <2>3, <2>4 DEF IInv, ActiveRowOfThisRun
  <2>8. (Holding /\ DownIsIdle /\ OneRecordingPerSource)'
    BY <2>2, <2>3 DEF IInv, Holding, DownIsIdle, OneRecordingPerSource
  <2>9. (NoOrphanLeg /\ ActiveIsFed)'
    BY <2>2, <2>3, <2>5 DEF IInv, NoOrphanLeg, ActiveIsFed, is_current
  <2> QED BY <2>6, <2>7, <2>8, <2>9 DEF IInv
<1>6. CASE finish_stop(s)
  <2>1. /\ up /\ phase[s] = "published" /\ phase' = [phase EXCEPT ![s] = "done"] /\ Forget({s})
        /\ UNCHANGED <<up, monitor, row, request, orphan>>
    BY <1>6 DEF finish_stop, process, monitors, history, stops
  <2> QED BY <2>1, Leaving
<1>7. CASE Answer(s)
  BY <1>7, Undisturbed DEF Answer, Held, process, monitors, legs, history, stops
<1>8. CASE OrphanRead(s)
  <2>1. /\ up /\ phase[s] \in {"done", "lost"} /\ row[s] = "active"
        /\ orphan' = [id |-> s, list |-> saved[s]]
        /\ UNCHANGED <<up, monitor, phase, source, mon, leg, row, request>>
    BY <1>8 DEF OrphanRead, orphaned, process, monitors, legs, history
  <2>2. request[s] # "open"
    BY <2>1 DEF IInv, RowFollowsPhase
  <2>3. OrphanStaysOrphan'
    BY <2>1, <2>2 DEF OrphanStaysOrphan
  <2>4. \A t \in Sessions : Live(t)' = Live(t)
    BY <2>1 DEF Live
  <2>5. (Holding /\ DownIsIdle /\ RowFollowsPhase)'
    BY <2>1 DEF IInv, Holding, DownIsIdle, RowFollowsPhase
  <2>6. (OneRecordingPerSource /\ ActiveRowOfThisRun)'
    BY <2>1 DEF IInv, OneRecordingPerSource, ActiveRowOfThisRun
  <2>7. (NoOrphanLeg /\ ActiveIsFed)'
    BY <2>1, <2>4 DEF IInv, NoOrphanLeg, ActiveIsFed, is_current
  <2> QED BY <2>3, <2>5, <2>6, <2>7 DEF IInv
<1> QED BY <1>1, <1>2, <1>3, <1>4, <1>5, <1>6, <1>7, <1>8

LEMMA InvDelete ==
  ASSUME IInv, TypeOK',
         \/ \E s \in Sessions, what \in {"row", "files", "file"} : EditStarts(s, what)
         \/ \E deleted \in SUBSET edit.list : delete_recording(deleted)
         \/ \E p \in Paths : delete_recording_file(p)
         \/ DeleteFileFails
  PROVE  IInv'
<1>0. TypeOK /\ edit.id \in Sessions \cup {NoSession}
  BY DEF IInv, TypeOK
<1>1. ASSUME NEW s \in Sessions, NEW what \in {"row", "files", "file"}, EditStarts(s, what)
      PROVE  IInv'
  BY <1>1, Undisturbed DEF EditStarts, Held, process, monitors, legs, history, stops
<1>2. ASSUME NEW deleted \in SUBSET edit.list, delete_recording(deleted) PROVE IInv'
  <2>1. UNCHANGED <<up, monitor, phase, source, mon, leg, request, orphan>>
    BY <1>2 DEF delete_recording, process, monitors, legs, stops
  <2>2. \/ Write(edit.id, "none", {})
        \/ Write(edit.id, row[edit.id], edit.list \ deleted)
    BY <1>2 DEF delete_recording
  <2>3. \A t \in Sessions : row'[t] \in {row[t], "none"}
    BY <1>0, <2>2, WriteRows
  <2> QED BY <2>1, <2>3, RowsMove
<1>3. ASSUME NEW p \in Paths, delete_recording_file(p) PROVE IInv'
  <2>1. /\ UNCHANGED <<up, monitor, phase, source, mon, leg, request, orphan>>
        /\ Write(edit.id, row[edit.id], edit.list \ {p})
    BY <1>3 DEF delete_recording_file, process, monitors, legs, stops
  <2>2. \A t \in Sessions : row'[t] = row[t]
    BY <1>0, <2>1, WriteRows
  <2> QED BY <2>1, <2>2, RowsMove
<1>4. CASE DeleteFileFails
  BY <1>4, Undisturbed DEF DeleteFileFails, Held, process, monitors, legs, history, stops
<1> QED BY <1>1, <1>2, <1>3, <1>4

LEMMA InvProcess ==
  ASSUME IInv, TypeOK', Crash \/ Restart \/ Quit \/ Exit \/ \E s \in Sessions : QuitStops(s)
  PROVE  IInv'
<1>0. TypeOK
  BY DEF IInv
<1>1. ASSUME ProcessEnds PROVE IInv'
  <2>1. /\ up' = FALSE
        /\ \A s \in Sessions :
              /\ phase'[s] = IF phase[s] \in {"none", "refused", "done"} THEN phase[s] ELSE "lost"
              /\ leg'[s] = NoLegs /\ request'[s] # "open"
        /\ row' = row /\ orphan' = NoList
    BY <1>0, <1>1 DEF ProcessEnds, Forget, TypeOK, history
  <2>2. \A s \in Sessions : Live(s)' = {}
    BY <2>1 DEF Live
  <2>3. \A s \in Sessions : phase'[s] \in {"none", "refused", "done", "lost"}
    BY <2>1
  <2>4. (RowFollowsPhase /\ OrphanStaysOrphan)'
    BY <2>1, ConstantsAssumption DEF IInv, RowFollowsPhase, OrphanStaysOrphan
  <2> QED
    BY <2>1, <2>2, <2>3, <2>4 DEF IInv, Holding, DownIsIdle, OneRecordingPerSource, ActiveIsFed,
                                  NoOrphanLeg, ActiveRowOfThisRun
<1>2. CASE Crash
  BY <1>1, <1>2 DEF Crash
<1>3. CASE Restart
  <2>1. /\ ~up /\ up' /\ row' = sessions_mark_crashed
        /\ UNCHANGED <<monitor, phase, source, mon, leg, request, orphan>>
    BY <1>3 DEF Restart, monitors, legs, stops
  <2>2. \A s \in Sessions : row'[s] = IF row[s] = "active" THEN "error" ELSE row[s]
    BY <2>1 DEF sessions_mark_crashed
  <2>3. \A s \in Sessions : phase[s] \in {"none", "refused", "done", "lost"}
    BY <2>1 DEF IInv, DownIsIdle
  <2>4. \A s \in Sessions : Live(s)' = Live(s)
    BY <2>1 DEF Live
  <2>5. (RowFollowsPhase /\ OrphanStaysOrphan)'
    <3>1. orphan' = NoList
      BY <2>1 DEF IInv, DownIsIdle
    <3> QED
      BY <2>1, <2>2, <2>3, <3>1, ConstantsAssumption DEF IInv, RowFollowsPhase, OrphanStaysOrphan
  <2>6. (ActiveRowOfThisRun /\ DownIsIdle)'
    BY <2>1, <2>2 DEF ActiveRowOfThisRun, DownIsIdle
  <2>7. (Holding /\ OneRecordingPerSource)'
    BY <2>1 DEF IInv, Holding, OneRecordingPerSource
  <2>8. (NoOrphanLeg /\ ActiveIsFed)'
    BY <2>1, <2>4 DEF IInv, NoOrphanLeg, ActiveIsFed, is_current
  <2> QED BY <2>5, <2>6, <2>7, <2>8 DEF IInv
<1>4. CASE Quit
  BY <1>4, Undisturbed DEF Quit, Held, monitors, legs, history, stops
<1>5. ASSUME NEW s \in Sessions, QuitStops(s) PROVE IInv'
  <2>1. /\ up /\ phase[s] = "active" /\ take_session({s}, Asked)
        /\ UNCHANGED <<up, monitor, source, mon, leg, row, request, orphan>>
    BY <1>5 DEF QuitStops, process, monitors, legs, history, stops
  <2> QED BY <2>1, TakingOut
<1>6. CASE Exit
  BY <1>1, <1>6 DEF Exit
<1> QED BY <1>2, <1>3, <1>4, <1>5, <1>6

(* Every step keeps the invariant. *)
LEMMA InvNext == ASSUME IInv, [Next]_vars PROVE IInv'
<1>0. TypeOK'
  BY TypeNext DEF IInv
<1>1. CASE Client
  BY <1>0, <1>1, InvStart, InvStop, InvDelete DEF Client
<1>2. CASE Environment
  BY <1>0, <1>2, InvMonitors, InvLegs, InvProcess DEF Environment
<1>3. CASE Exit
  BY <1>0, <1>3, InvProcess
<1>4. ASSUME NEW s \in Sessions, Task(s) PROVE IInv'
  BY <1>0, <1>4, InvStart, InvLegs, InvStop, InvProcess DEF Task
<1>5. CASE UNCHANGED vars
  <2>1. UNCHANGED Held
    BY <1>5 DEF vars, Held, process, monitors, legs, history, stops
  <2> QED BY <1>0, <2>1, Undisturbed
<1> QED BY <1>1, <1>2, <1>3, <1>4, <1>5 DEF Next

LEMMA Invariant == SafetySpec => []IInv
<1>1. IInv /\ [Next]_vars => IInv'
  BY InvNext
<1> QED BY InvInit, <1>1, PTL DEF SafetySpec

(* A source is recorded by one session at a time, and an active session's     *)
(* legs are always on its source's current monitor, whatever the sources, the *)
(* clients, the rescans and the crashes.                                      *)
THEOREM OneFedRecordingPerSource ==
  SafetySpec => [](OneRecordingPerSource /\ ActiveIsFed)
<1>1. IInv => OneRecordingPerSource /\ ActiveIsFed
  BY DEF IInv
<1> QED BY Invariant, <1>1, PTL

(* An active session's legs are always on its source's current monitor.       *)
THEOREM EveryActiveIsFed == SafetySpec => []ActiveIsFed
<1>1. IInv => ActiveIsFed
  BY DEF IInv
<1> QED BY Invariant, <1>1, PTL

(* No pipeline of a leg is ever left where nothing would stop it.             *)
THEOREM NoLegIsOrphaned == SafetySpec => []NoOrphanLeg
<1>1. IInv => NoOrphanLeg
  BY DEF IInv
<1> QED BY Invariant, <1>1, PTL

(* A row that says a session is over is right, and one that says it is active *)
(* is never left by a run of the process that ended.                          *)
THEOREM RowsTellTheTruth == SafetySpec => []RowsAreTrue
<1>1. IInv => RowsAreTrue
  BY DEF IInv, RowsAreTrue, FinalRowIsOver, ActiveRowOfThisRun, RowFollowsPhase, NoOrphanLeg
<1> QED BY Invariant, <1>1, PTL

-----------------------------------------------------------------------------
(* What no step does. *)

LEMMA FinalRowNext ==
  ASSUME IInv, [Next]_vars
  PROVE  \A s \in Sessions : row[s] \in Final => row'[s] \in {row[s], "none"}
<1> DEFINE Goal == \A s \in Sessions : row[s] \in Final => row'[s] \in {row[s], "none"}
<1>0. TypeOK /\ edit.id \in Sessions \cup {NoSession}
  BY DEF IInv, TypeOK
<1>1. ASSUME row' = row PROVE Goal
  BY <1>1
<1>2. CASE Client
  <2>1. ASSUME NEW deleted \in SUBSET edit.list, delete_recording(deleted) PROVE Goal
    <3>1. CASE Write(edit.id, "none", {})
      BY <1>0, <3>1, WriteRows
    <3>2. CASE Write(edit.id, row[edit.id], edit.list \ deleted)
      BY <1>0, <3>2, WriteRows
    <3> QED BY <2>1, <3>1, <3>2 DEF delete_recording
  <2>2. ASSUME NEW p \in Paths, delete_recording_file(p) PROVE Goal
    <3>1. Write(edit.id, row[edit.id], edit.list \ {p})
      BY <2>2 DEF delete_recording_file
    <3>2. \A t \in Sessions : row'[t] # row[t] => t = edit.id /\ row'[t] = row[edit.id]
      BY <1>0, <3>1, WriteRows
    <3> QED BY <3>2
  <2>3. ASSUME NEW s \in Sessions,
               \/ \E r \in Sources, P \in SUBSET Paths : begin_start_recording(s, r, P)
               \/ DropRequest(s) \/ StopStart(s) \/ StopJoin(s) \/ OrphanRead(s)
               \/ \E what \in {"row", "files", "file"} : EditStarts(s, what)
        PROVE  row' = row
    BY <2>3 DEF begin_start_recording, DropRequest, StopStart, StopJoin, OrphanRead,
                EditStarts, history
  <2>4. ASSUME DeleteFileFails PROVE row' = row
    BY <2>4 DEF DeleteFileFails, history
  <2> QED BY <1>1, <1>2, <2>1, <2>2, <2>3, <2>4 DEF Client
<1>3. CASE Environment
  <2>1. CASE Restart
    BY <2>1 DEF Restart, sessions_mark_crashed
  <2>2. CASE Environment /\ ~Restart
    <3>1. row' = row
      BY <2>2 DEF Environment, LegOpensFile, LegFails, MonitorStarts, MonitorFails, Rebuild,
                  Crash, ProcessEnds, Quit, history
    <3> QED BY <1>1, <3>1
  <2> QED BY <1>3, <2>1, <2>2
<1>4. CASE Exit
  BY <1>1, <1>4 DEF Exit, ProcessEnds, history
<1>5. ASSUME NEW s \in Sessions, Task(s) PROVE Goal
  <2>1. CASE session_insert(s)
    <3>1. row[s] = "none" /\ (row' = row \/ row' = [row EXCEPT ![s] = "active"])
      BY <2>1 DEF session_insert, IInv, RowFollowsPhase
    <3> QED BY <1>0, <3>1 DEF TypeOK
  <2>2. CASE RecorderWrites(s)
    <3>1. Write(s, row[s], saving.list)
      BY <2>2 DEF RecorderWrites
    <3> QED BY <1>0, <3>1, WriteRows
  <2>3. CASE session_update_stop(s)
    <3>1. PICK status \in Final : Write(s, status, ended[s])
      BY <2>3 DEF session_update_stop
    <3>2. row[s] \notin Final
      BY <2>3 DEF session_update_stop, IInv, RowFollowsPhase
    <3> QED BY <1>0, <3>1, <3>2, WriteRows
  <2>4. ASSUME \/ finish_start_recording(s) \/ DiscardLegs(s) \/ RecorderReads(s)
               \/ finish_stop(s) \/ Answer(s) \/ QuitStops(s)
               \/ \E p \in Paths : \/ StartLeg(s, p) \/ StartLegFails(s, p)
                                   \/ note_leg_failure(s, p) \/ StopLeg(s, p)
        PROVE  row' = row
    BY <2>4 DEF finish_start_recording, DiscardLegs, RecorderReads, finish_stop, Answer,
                QuitStops, StartLeg, StartLegFails, note_leg_failure, StopLeg, history
  <2>5. CASE stop_orphaned(s)
    <3>1. Write(s, "stopped", orphan.list) /\ row[s] \in {"active", "stopped", "none"}
      BY <2>5 DEF stop_orphaned, IInv, OrphanStaysOrphan
    <3> QED BY <1>0, <3>1, WriteRows
  <2> QED BY <1>1, <1>5, <2>1, <2>2, <2>3, <2>4, <2>5 DEF Task
<1>6. CASE UNCHANGED vars
  BY <1>1, <1>6 DEF vars, history
<1> QED BY <1>2, <1>3, <1>4, <1>5, <1>6 DEF Next

(* Once a row says how a session ended, no retried stop, late insert, late    *)
(* save of a file list or restart overwrites that.                            *)
THEOREM FinalRowStaysAsItIs == SafetySpec => FinalRowStays
<1>1. IInv /\ [Next]_vars
      => [\A s \in Sessions : row[s] \in Final => row'[s] \in {row[s], "none"}]_vars
  BY FinalRowNext
<1> QED BY Invariant, <1>1, PTL DEF SafetySpec, FinalRowStays

-----------------------------------------------------------------------------
(* Recording implements RecordingPromise. *)

Holds == {"reserved", "active"}
Over == {"published", "discarding", "refused", "done", "lost"}

(* A source's holder is the one session that holds it. *)
LEMMA HolderIs ==
  ASSUME OneRecordingPerSource, NEW r \in Sources
  PROVE  /\ HolderOf(r) = {} => Holder[r] = NoSession
         /\ \A s \in HolderOf(r) : Holder[r] = s
<1>1. CASE HolderOf(r) = {}
  BY <1>1 DEF Holder
<1>2. CASE HolderOf(r) # {}
  <2>1. Holder[r] = CHOOSE s \in Sessions : s \in HolderOf(r)
    BY <1>2 DEF Holder
  <2>2. \E s \in Sessions : s \in HolderOf(r)
    BY <1>2 DEF HolderOf
  <2>3. Holder[r] \in HolderOf(r)
    BY <2>1, <2>2
  <2>4. \A s, t \in HolderOf(r) : s = t
    BY DEF HolderOf, OneRecordingPerSource
  <2> QED BY <1>2, <2>3, <2>4
<1> QED BY <1>1, <1>2

LEMMA HolderIsNext ==
  ASSUME OneRecordingPerSource', NEW r \in Sources
  PROVE  /\ HolderOf(r)' = {} => Holder'[r] = NoSession
         /\ \A s \in HolderOf(r)' : Holder'[r] = s
<1>1. CASE HolderOf(r)' = {}
  BY <1>1 DEF Holder
<1>2. CASE HolderOf(r)' # {}
  <2>1. Holder'[r] = CHOOSE s \in Sessions : s \in HolderOf(r)'
    BY <1>2 DEF Holder
  <2>2. \E s \in Sessions : s \in HolderOf(r)'
    BY <1>2 DEF HolderOf
  <2>3. Holder'[r] \in HolderOf(r)'
    BY <2>1, <2>2
  <2>4. \A s, t \in HolderOf(r)' : s = t
    BY DEF HolderOf, OneRecordingPerSource
  <2> QED BY <1>2, <2>3, <2>4
<1> QED BY <1>1, <1>2

LEMMA TakeIs ==
  ASSUME NEW s \in Sessions
  PROVE  /\ Take[s] = CASE phase[s] = "none" -> "none"
                        [] phase[s] = "reserved" -> "starting"
                        [] phase[s] = "active" -> "rolling"
                        [] phase[s] = "stopping" -> "closing"
                        [] OTHER -> "ended"
         /\ Take'[s] = CASE phase'[s] = "none" -> "none"
                        [] phase'[s] = "reserved" -> "starting"
                        [] phase'[s] = "active" -> "rolling"
                        [] phase'[s] = "stopping" -> "closing"
                        [] OTHER -> "ended"
  BY DEF Take

LEMMA TakeIsOfSessions == Take = [t \in Sessions |-> Take[t]] /\ Take' = [t \in Sessions |-> Take'[t]]
  BY DEF Take

(* A step is seen only through the phases, and the sources of those who hold  *)
(* one.                                                                       *)
LEMMA Unseen ==
  ASSUME OneRecordingPerSource, OneRecordingPerSource',
         \A s \in Sessions :
            /\ phase'[s] = phase[s] \/ (phase[s] \in Over /\ phase'[s] \in Over)
            /\ phase[s] \in Holds => source'[s] = source[s]
  PROVE  UNCHANGED <<Holder, Take>>
<1>1. \A s \in Sessions : Take'[s] = Take[s]
  BY TakeIs DEF Over
<1>2. Take' = Take
  BY <1>1 DEF Take
<1>3. \A r \in Sources : HolderOf(r)' = HolderOf(r)
  BY DEF HolderOf, Holds, Over
<1>4. \A r \in Sources : Holder'[r] = Holder[r]
  BY <1>3, HolderIs, HolderIsNext
<1>5. Holder' = Holder
  BY <1>4 DEF Holder
<1> QED BY <1>2, <1>5

(* Sessions that stop holding their source release it, and no other does.     *)
LEMMA Releases ==
  ASSUME OneRecordingPerSource, OneRecordingPerSource', NEW S \in SUBSET Sessions,
         \A s \in S : phase[s] \in Holds /\ phase'[s] \notin Holds,
         \A s \in Sessions \ S : /\ phase'[s] = phase[s]
                                 /\ phase[s] \in Holds => source'[s] = source[s]
  PROVE  Holder' = Promise!Released(S)
<1>1. ASSUME NEW r \in Sources
      PROVE  Holder'[r] = IF Holder[r] \in S THEN NoSession ELSE Holder[r]
  <2>1. HolderOf(r)' = HolderOf(r) \ S
    BY DEF HolderOf, Holds
  <2>2. CASE HolderOf(r) = {}
    BY <2>1, <2>2, HolderIs, HolderIsNext, ConstantsAssumption
  <2>3. ASSUME NEW s \in HolderOf(r) PROVE Holder'[r] = IF Holder[r] \in S THEN NoSession ELSE Holder[r]
    <3>1. Holder[r] = s
      BY <2>3, HolderIs
    <3>2. CASE s \in S
      <4>1. HolderOf(r)' = {}
        BY <2>1, <3>1, <3>2, HolderIs
      <4> QED BY <3>1, <3>2, <4>1, HolderIsNext
    <3>3. CASE s \notin S
      <4>1. s \in HolderOf(r)'
        BY <2>1, <2>3, <3>3
      <4> QED BY <3>1, <3>3, <4>1, HolderIsNext
    <3> QED BY <3>2, <3>3
  <2> QED BY <2>2, <2>3
<1>2. Holder' = [r \in Sources |-> Holder'[r]]
  BY DEF Holder
<1> QED BY <1>1, <1>2 DEF Promise!Released

LEMMA PromiseInit == Init => Promise!Init
<1> SUFFICES ASSUME Init PROVE Promise!Init
  OBVIOUS
<1>1. \A s \in Sessions : phase[s] = "none"
  BY DEF Init
<1>2. Take = [s \in Sessions |-> "none"]
  BY <1>1 DEF Take
<1>3. \A r \in Sources : HolderOf(r) = {}
  BY <1>1 DEF HolderOf
<1>4. Holder = [r \in Sources |-> NoSession]
  BY <1>3 DEF Holder
<1> QED BY <1>2, <1>4 DEF Promise!Init

(* Taking sessions out of the active set closes their takes. *)
LEMMA TakingOutCloses ==
  ASSUME OneRecordingPerSource, OneRecordingPerSource', TypeOK,
         NEW S \in SUBSET Sessions, NEW why, take_session(S, why),
         \A s \in S : phase[s] = "active", UNCHANGED source
  PROVE  [Promise!Next]_(Promise!vars)
<1>1. \A s \in Sessions : phase'[s] = IF s \in S THEN "stopping" ELSE phase[s]
  BY DEF take_session
<1>2. CASE S = {}
  <2>1. UNCHANGED <<Holder, Take>>
    BY <1>1, <1>2, Unseen
  <2> QED BY <2>1 DEF Promise!vars
<1>3. CASE S # {}
  <2>1. Holder' = Promise!Released(S)
    BY <1>1, Releases DEF Holds
  <2>2. \A s \in S : Take[s] = "rolling"
    BY TakeIs
  <2>3. \A s \in Sessions : Take'[s] = IF s \in S THEN "closing" ELSE Take[s]
    BY <1>1, TakeIs
  <2>4. Take' = Promise!Moved(S, "closing")
    BY <2>3 DEF Take, Promise!Moved
  <2>5. Promise!Close(S)
    BY <1>3, <2>1, <2>2, <2>4 DEF Promise!Close
  <2> QED BY <2>5 DEF Promise!Next
<1> QED BY <1>2, <1>3

(* A step that changes neither phase nor source is none of a take's. *)
LEMMA Unmoved ==
  ASSUME OneRecordingPerSource, OneRecordingPerSource', UNCHANGED <<phase, source>>
  PROVE  [Promise!Next]_(Promise!vars)
<1>1. UNCHANGED <<Holder, Take>>
  BY Unseen
<1> QED BY <1>1 DEF Promise!vars

LEMMA PromiseStart ==
  ASSUME IInv, IInv', NEW s \in Sessions,
         \/ \E r \in Sources, P \in SUBSET Paths : begin_start_recording(s, r, P)
         \/ finish_start_recording(s) \/ DiscardLegs(s)
  PROVE  [Promise!Next]_(Promise!vars)
<1>0. TypeOK /\ OneRecordingPerSource /\ OneRecordingPerSource'
  BY DEF IInv
<1>1. ASSUME NEW r \in Sources, NEW P \in SUBSET Paths, begin_start_recording(s, r, P)
      PROVE  Promise!Accept(s, r)
  <2>1. /\ phase[s] = "none" /\ phase'[s] = "reserved" /\ source'[s] = r
        /\ \A t \in Sessions \ {s} : phase'[t] = phase[t] /\ source'[t] = source[t]
        /\ ~is_recording(r)
    BY <1>0, <1>1 DEF begin_start_recording, TypeOK
  <2>2. HolderOf(r) = {} /\ HolderOf(r)' = {s}
    BY <2>1 DEF HolderOf, is_recording
  <2>3. \A q \in Sources \ {r} : HolderOf(q)' = HolderOf(q)
    BY <2>1 DEF HolderOf
  <2>4. Holder[r] = NoSession /\ Holder'[r] = s
    BY <1>0, <2>2, HolderIs, HolderIsNext
  <2>5. \A q \in Sources \ {r} : Holder'[q] = Holder[q]
    BY <1>0, <2>3, HolderIs, HolderIsNext
  <2>6. Holder' = [Holder EXCEPT ![r] = s]
    <3>1. /\ Holder = [q \in Sources |-> Holder[q]]
          /\ Holder' = [q \in Sources |-> Holder'[q]]
      BY DEF Holder
    <3> QED BY <2>4, <2>5, <3>1
  <2>7. Take[s] = "none" /\ Take'[s] = "starting"
    BY <2>1, TakeIs
  <2>8. \A t \in Sessions \ {s} : Take'[t] = Take[t]
    BY <2>1, TakeIs
  <2>9. Take' = [Take EXCEPT ![s] = "starting"]
    BY <2>7, <2>8, TakeIsOfSessions
  <2> QED BY <2>4, <2>6, <2>7, <2>9 DEF Promise!Accept
<1>2. CASE finish_start_recording(s)
  <2> DEFINE after == IF Live(s) = {} THEN "refused"
                      ELSE IF is_current(s) THEN "active" ELSE "discarding"
  <2>1. /\ phase[s] = "reserved" /\ phase' = [phase EXCEPT ![s] = after]
        /\ Forget(IF after = "refused" THEN {s} ELSE {})
    BY <1>2 DEF finish_start_recording
  <2>2. after \in {"refused", "active", "discarding"}
    OBVIOUS
  <2> HIDE DEF after
  <2>3. /\ phase'[s] = after
        /\ \A t \in Sessions \ {s} : phase'[t] = phase[t] /\ source'[t] = source[t]
        /\ after = "active" => source' = source
    BY <1>0, <2>1, <2>2 DEF Forget, TypeOK
  <2>4. Take[s] = "starting" /\ \A t \in Sessions \ {s} : Take'[t] = Take[t]
    BY <2>1, <2>3, TakeIs
  <2>5. CASE after = "active"
    <3>1. \A r \in Sources : HolderOf(r)' = HolderOf(r)
      BY <2>1, <2>3, <2>5 DEF HolderOf
    <3>2. \A r \in Sources : Holder'[r] = Holder[r]
      BY <1>0, <3>1, HolderIs, HolderIsNext
    <3>3. Holder' = Holder
      BY <3>2 DEF Holder
    <3>4. Take'[s] = "rolling"
      BY <2>3, <2>5, TakeIs
    <3>5. Take' = [Take EXCEPT ![s] = "rolling"]
      BY <2>4, <3>4, TakeIsOfSessions
    <3>6. Promise!Roll(s)
      BY <2>4, <3>3, <3>5 DEF Promise!Roll
    <3> QED BY <3>6 DEF Promise!Next
  <2>6. CASE after # "active"
    <3>1. Holder' = Promise!Released({s})
      BY <1>0, <2>1, <2>2, <2>3, <2>6, Releases DEF Holds
    <3>2. Take'[s] = "ended"
      BY <2>2, <2>3, <2>6, TakeIs
    <3>3. Take' = [Take EXCEPT ![s] = "ended"]
      BY <2>4, <3>2, TakeIsOfSessions
    <3>4. Promise!Abandon(s)
      BY <2>4, <3>1, <3>3 DEF Promise!Abandon
    <3> QED BY <3>4 DEF Promise!Next
  <2> QED BY <2>5, <2>6
<1>3. CASE DiscardLegs(s)
  <2>1. /\ phase[s] = "discarding" /\ phase'[s] = "refused"
        /\ \A t \in Sessions \ {s} : phase'[t] = phase[t] /\ source'[t] = source[t]
    BY <1>0, <1>3 DEF DiscardLegs, Forget, TypeOK
  <2>2. UNCHANGED <<Holder, Take>>
    BY <1>0, <2>1, Unseen DEF Over, Holds
  <2> QED BY <2>2 DEF Promise!vars
<1>4. ASSUME NEW r \in Sources, Promise!Accept(s, r) PROVE Promise!Next
  BY <1>4 DEF Promise!Next
<1> QED BY <1>1, <1>2, <1>3, <1>4

LEMMA PromiseStop ==
  ASSUME IInv, IInv', NEW s \in Sessions,
         session_update_stop(s) \/ finish_stop(s)
  PROVE  [Promise!Next]_(Promise!vars)
<1>0. TypeOK /\ OneRecordingPerSource /\ OneRecordingPerSource'
  BY DEF IInv
<1>1. CASE session_update_stop(s)
  <2>1. /\ phase[s] = "stopping" /\ phase'[s] = "published" /\ source' = source
        /\ \A t \in Sessions \ {s} : phase'[t] = phase[t]
    BY <1>0, <1>1 DEF session_update_stop, TypeOK
  <2>2. \A r \in Sources : HolderOf(r)' = HolderOf(r)
    BY <2>1 DEF HolderOf
  <2>3. \A r \in Sources : Holder'[r] = Holder[r]
    BY <1>0, <2>2, HolderIs, HolderIsNext
  <2>4. Holder' = Holder
    BY <2>3 DEF Holder
  <2>5. Take[s] = "closing" /\ Take'[s] = "ended" /\ \A t \in Sessions \ {s} : Take'[t] = Take[t]
    BY <2>1, TakeIs
  <2>6. Take' = [Take EXCEPT ![s] = "ended"]
    BY <2>5 DEF Take
  <2>7. Promise!End(s)
    BY <2>4, <2>5, <2>6 DEF Promise!End
  <2> QED BY <2>7 DEF Promise!Next
<1>2. CASE finish_stop(s)
  <2>1. /\ phase[s] = "published" /\ phase'[s] = "done"
        /\ \A t \in Sessions \ {s} : phase'[t] = phase[t] /\ source'[t] = source[t]
    BY <1>0, <1>2 DEF finish_stop, Forget, TypeOK
  <2>2. UNCHANGED <<Holder, Take>>
    BY <1>0, <2>1, Unseen DEF Over, Holds
  <2> QED BY <2>2 DEF Promise!vars
<1> QED BY <1>1, <1>2

LEMMA PromiseLost ==
  ASSUME IInv, IInv', ProcessEnds
  PROVE  [Promise!Next]_(Promise!vars)
<1>0. TypeOK /\ OneRecordingPerSource'
  BY DEF IInv
<1>1. \A s \in Sessions :
         phase'[s] = IF phase[s] \in {"none", "refused", "done"} THEN phase[s] ELSE "lost"
  BY DEF ProcessEnds
<1>2. \A r \in Sources : HolderOf(r)' = {}
  BY <1>1 DEF HolderOf
<1>3. \A r \in Sources : Holder'[r] = NoSession
  BY <1>0, <1>2, HolderIsNext
<1>4. Holder' = [r \in Sources |-> NoSession]
  BY <1>3 DEF Holder
<1>5. \A s \in Sessions : Take'[s] = IF Take[s] = "none" THEN "none" ELSE "ended"
  BY <1>1, TakeIs
<1>6. Take' = [s \in Sessions |-> IF Take[s] = "none" THEN "none" ELSE "ended"]
  BY <1>5 DEF Take
<1>7. Promise!Lose
  BY <1>4, <1>6 DEF Promise!Lose
<1> QED BY <1>7 DEF Promise!Next

LEMMA PromiseNext ==
  ASSUME IInv, IInv', [Next]_vars
  PROVE  [Promise!Next]_(Promise!vars)
<1>0. TypeOK /\ OneRecordingPerSource /\ OneRecordingPerSource'
  BY DEF IInv
<1>1. ASSUME UNCHANGED <<phase, source>> PROVE [Promise!Next]_(Promise!vars)
  BY <1>0, <1>1, Unmoved
<1>2. ASSUME NEW s \in Sessions, StopStart(s) \/ QuitStops(s)
      PROVE  [Promise!Next]_(Promise!vars)
  <2>1. phase[s] = "active" /\ take_session({s}, Asked) /\ source' = source
    BY <1>2 DEF StopStart, QuitStops
  <2> QED BY <1>0, <2>1, TakingOutCloses
<1>3. CASE Client
  <2>1. ASSUME NEW s \in Sessions, NEW what,
               DropRequest(s) \/ StopJoin(s) \/ OrphanRead(s) \/ EditStarts(s, what)
        PROVE  UNCHANGED <<phase, source>>
    BY <2>1 DEF DropRequest, StopJoin, OrphanRead, EditStarts
  <2>2. ASSUME NEW deleted, delete_recording(deleted) PROVE UNCHANGED <<phase, source>>
    BY <2>2 DEF delete_recording
  <2>3. ASSUME NEW p, delete_recording_file(p) PROVE UNCHANGED <<phase, source>>
    BY <2>3 DEF delete_recording_file
  <2>4. DeleteFileFails => UNCHANGED <<phase, source>>
    BY DEF DeleteFileFails
  <2> QED BY <1>1, <1>2, <1>3, <2>1, <2>2, <2>3, <2>4, PromiseStart DEF Client
<1>4. CASE Environment
  <2>1. ASSUME NEW s \in Sessions, NEW p \in Paths, LegOpensFile(s, p) \/ LegFails(s, p)
        PROVE  UNCHANGED <<phase, source>>
    BY <2>1 DEF LegOpensFile, LegFails
  <2>2. ASSUME NEW r \in Sources, MonitorStarts(r) \/ MonitorFails(r)
        PROVE  UNCHANGED <<phase, source>>
    BY <2>2 DEF MonitorStarts, MonitorFails
  <2>3. ASSUME NEW changed \in SUBSET Sources, NEW late \in SUBSET Sources,
               Rebuild(changed, late)
        PROVE  [Promise!Next]_(Promise!vars)
    <3> DEFINE gone == {r \in unhealthy \cup changed : monitor[r] # 0}
               cut == UNION {ActiveOn(r) : r \in gone}
               why == [s \in Sessions |-> IF source[s] \in broken \cup late THEN "source" ELSE "asked"]
    <3>1. take_session(cut, why) /\ source' = source
      BY <2>3 DEF Rebuild
    <3>2. cut \in SUBSET Sessions /\ \A s \in cut : phase[s] = "active"
      BY DEF ActiveOn
    <3> HIDE DEF cut, why, gone
    <3> QED BY <1>0, <3>1, <3>2, TakingOutCloses
  <2>4. Crash => ProcessEnds
    BY DEF Crash
  <2>5. Restart \/ Quit => UNCHANGED <<phase, source>>
    BY DEF Restart, Quit
  <2> QED BY <1>1, <1>4, <2>1, <2>2, <2>3, <2>4, <2>5, PromiseLost DEF Environment
<1>5. CASE Exit
  BY <1>5, PromiseLost DEF Exit
<1>6. ASSUME NEW s \in Sessions, Task(s) PROVE [Promise!Next]_(Promise!vars)
  <2>1. ASSUME \/ session_insert(s) \/ RecorderReads(s) \/ RecorderWrites(s) \/ Answer(s)
               \/ stop_orphaned(s)
               \/ \E p \in Paths : StartLeg(s, p) \/ StartLegFails(s, p) \/ StopLeg(s, p)
        PROVE  UNCHANGED <<phase, source>>
    BY <2>1 DEF session_insert, RecorderReads, RecorderWrites, Answer, stop_orphaned, StartLeg,
                StartLegFails, StopLeg
  <2>2. ASSUME NEW p \in Paths, note_leg_failure(s, p) PROVE [Promise!Next]_(Promise!vars)
    <3>1. CASE phase[s] = "active"
      <4> DEFINE S == IF all_failed(s) THEN {s} ELSE {}
      <4>1. take_session(S, Asked) /\ source' = source
        BY <2>2, <3>1 DEF note_leg_failure
      <4>2. S \in SUBSET Sessions /\ \A t \in S : phase[t] = "active"
        BY <3>1
      <4> HIDE DEF S
      <4> QED BY <1>0, <4>1, <4>2, TakingOutCloses
    <3>2. CASE phase[s] # "active"
      BY <1>1, <2>2, <3>2 DEF note_leg_failure
    <3> QED BY <3>1, <3>2
  <2> QED BY <1>1, <1>2, <1>6, <2>1, <2>2, PromiseStart, PromiseStop DEF Task
<1>7. CASE UNCHANGED vars
  BY <1>1, <1>7 DEF vars
<1> QED BY <1>3, <1>4, <1>5, <1>6, <1>7 DEF Next

(* Recording implements RecordingPromise: seen from its source, a recording   *)
(* is one take that starts, rolls, closes and ends, and the source is free    *)
(* again from the moment it closes.                                           *)
THEOREM RecordingKeepsPromise == SafetySpec => KeepsPromiseSafely
<1>1. IInv /\ IInv' /\ [Next]_vars => [Promise!Next]_(Promise!vars)
  BY PromiseNext
<1> QED
  BY PromiseInit, Invariant, <1>1, PTL DEF SafetySpec, KeepsPromiseSafely, Promise!SafetySpec

-----------------------------------------------------------------------------
(* Monitors. *)

LEMMA LifeGoes ==
  ASSUME TypeOK, ProcessEnds
  PROVE  [Life!Next]_(Life!vars)
<1>1. /\ monitor' = [r \in Sources |-> IF r \in Sources THEN 0 ELSE monitor[r]]
      /\ broken' = broken \ Sources /\ UNCHANGED made
  BY DEF ProcessEnds, TypeOK
<1>2. Life!Go(Sources)
  BY <1>1 DEF Life!Go
<1> QED BY <1>2 DEF Life!Next

LEMMA LifeNext ==
  ASSUME TypeOK, [Next]_vars
  PROVE  [Life!Next]_(Life!vars)
<1>1. UNCHANGED monitors => [Life!Next]_(Life!vars)
  BY DEF monitors, Life!vars
<1>2. CASE Client
  <2>1. UNCHANGED monitors
    BY <1>2 DEF Client, begin_start_recording, DropRequest, StopStart, StopJoin, OrphanRead,
                EditStarts, delete_recording, delete_recording_file, DeleteFileFails
  <2> QED BY <1>1, <2>1
<1>3. CASE Environment
  <2>1. ASSUME NEW s \in Sessions, NEW p \in Paths, LegOpensFile(s, p) \/ LegFails(s, p)
        PROVE  UNCHANGED monitors
    BY <2>1 DEF LegOpensFile, LegFails
  <2>2. ASSUME NEW r \in Sources, MonitorStarts(r) PROVE Life!Next
    <3>1. /\ \A q \in {r} : monitor[q] = 0
          /\ made' = [q \in Sources |-> IF q \in {r} THEN made[q] + 1 ELSE made[q]]
          /\ monitor' = [q \in Sources |-> IF q \in {r} THEN made[q] + 1 ELSE monitor[q]]
          /\ UNCHANGED broken
      BY <2>2 DEF MonitorStarts, TypeOK
    <3>2. Life!Starts({r})
      BY <3>1 DEF Life!Starts
    <3> QED BY <3>2 DEF Life!Next
  <2>3. ASSUME NEW r \in Sources, MonitorFails(r) PROVE Life!Next
    BY <2>3 DEF MonitorFails, Life!Next, Life!Fails
  <2>4. ASSUME NEW changed \in SUBSET Sources, NEW late \in SUBSET Sources,
               Rebuild(changed, late)
        PROVE  Life!Next
    <3> DEFINE gone == {r \in unhealthy \cup changed : monitor[r] # 0}
    <3>1. gone \in SUBSET Sources
      BY DEF unhealthy, TypeOK
    <3>2. Life!Go(gone)
      BY <2>4 DEF Rebuild, Life!Go
    <3> QED BY <3>1, <3>2 DEF Life!Next
  <2>5. Crash => [Life!Next]_(Life!vars)
    BY LifeGoes DEF Crash
  <2>6. Restart \/ Quit => UNCHANGED monitors
    BY DEF Restart, Quit
  <2> QED BY <1>1, <1>3, <2>1, <2>2, <2>3, <2>4, <2>5, <2>6 DEF Environment
<1>4. CASE Exit
  BY <1>4, LifeGoes DEF Exit
<1>5. ASSUME NEW s \in Sessions, Task(s) PROVE UNCHANGED monitors
  BY <1>5 DEF Task, StartLeg, StartLegFails, finish_start_recording, DiscardLegs,
              session_insert, RecorderReads, RecorderWrites, note_leg_failure, stop_orphaned,
              StopLeg, session_update_stop, finish_stop, Answer, QuitStops
<1>6. CASE UNCHANGED vars
  BY <1>1, <1>6 DEF vars
<1> QED BY <1>1, <1>2, <1>3, <1>4, <1>5, <1>6 DEF Next

(* Recordings assume no more of monitors than MonitorLife: one at a time for  *)
(* a source, each a new one, all gone with the process.                       *)
THEOREM RecordingReliesOnMonitors == SafetySpec => ReliesOnMonitors
<1>1. Init => Life!Init
  BY DEF Init, Life!Init
<1>2. TypeOK /\ [Next]_vars => [Life!Next]_(Life!vars)
  BY LifeNext
<1> QED
  BY <1>1, <1>2, TypeCorrect, PTL DEF SafetySpec, ReliesOnMonitors, Life!Spec

-----------------------------------------------------------------------------
(* Failures, as they are noted.                                               *)

NotedFor(s) ==
    /\ phase[s] = "none" => failed[s] = 0 /\ \A p \in Paths : <<s, p>> \notin reports
    /\ phase[s] = "active" \/ (phase[s] = "reserved" /\ ~Dropped(s)) =>
          /\ failed[s] <= Cardinality(Noted(s))
          /\ \A p \in Paths : <<s, p>> \in reports => leg[s][p] = "failed"

LEMMA NotedForEach == FailuresAreNoted <=> \A s \in Sessions : NotedFor(s)
  BY DEF FailuresAreNoted, NotedFor

(* What neither touches its legs nor what is told of them ... *)
LEMMA NotedHolds ==
  ASSUME NEW s \in Sessions, NotedFor(s), phase'[s] = phase[s], leg'[s] = leg[s],
         failed'[s] = failed[s], \A p \in Paths : <<s, p>> \in reports' <=> <<s, p>> \in reports
  PROVE  NotedFor(s)'
<1>1. Noted(s)' = Noted(s)
  BY DEF Noted, Failures
<1>2. Dropped(s)' <=> Dropped(s)
  BY DEF Dropped, Live, Started
<1> QED BY <1>1, <1>2 DEF NotedFor

(* ... or ends it changes nothing of this. *)
LEMMA NotedOver ==
  ASSUME NEW s \in Sessions, phase'[s] \notin {"none", "reserved", "active"}
  PROVE  NotedFor(s)'
  BY DEF NotedFor

LEMMA NotedFinite ==
  ASSUME NEW s \in Sessions
  PROVE  /\ IsFiniteSet(Noted(s)) /\ Cardinality(Noted(s)) \in Nat
         /\ IsFiniteSet(Failures(s)) /\ IsFiniteSet(Outputs(s))
<1>1. Noted(s) \subseteq Paths /\ Failures(s) \subseteq Paths /\ Outputs(s) \subseteq Paths
  BY DEF Noted, Failures, Outputs
<1> QED BY <1>1, ConstantsAssumption, FS_Subset, FS_CardinalityType

(* A failure that comes in is of a leg that failed and was not noted.         *)
LEMMA NotedOneMore ==
  ASSUME NEW s \in Sessions, NEW p \in Paths, leg[s][p] = "failed",
         failed[s] \in Nat, failed[s] <= Cardinality(Noted(s)),
         <<s, p>> \in reports, reports' = reports \ {<<s, p>>}, leg' = leg
  PROVE  /\ failed[s] + 1 <= Cardinality(Noted(s)')
         /\ Noted(s)' \subseteq Failures(s) /\ Failures(s) \subseteq Outputs(s)
         /\ Cardinality(Noted(s)') \in Nat
<1>2. Noted(s)' = Noted(s) \cup {p} /\ p \notin Noted(s)
  BY DEF Noted, Failures
<1>3. Cardinality(Noted(s) \cup {p}) = Cardinality(Noted(s)) + 1
  BY <1>2, NotedFinite, FS_AddElement
<1>4. Noted(s)' \subseteq Failures(s) /\ Failures(s) \subseteq Outputs(s)
  BY DEF Noted, Failures, Outputs
<1>5. Cardinality(Noted(s)) \in Nat
  BY NotedFinite
<1> QED BY <1>2, <1>3, <1>4, <1>5

LEMMA NotedStart ==
  ASSUME TypeOK, FailuresAreNoted, NEW s \in Sessions,
         \/ \E r \in Sources, P \in SUBSET Paths : begin_start_recording(s, r, P)
         \/ \E p \in Paths : StartLeg(s, p) \/ StartLegFails(s, p)
         \/ finish_start_recording(s) \/ DiscardLegs(s) \/ session_insert(s) \/ DropRequest(s)
  PROVE  FailuresAreNoted'
<1> SUFFICES ASSUME NEW t \in Sessions PROVE NotedFor(t)'
  BY NotedForEach DEF FailuresAreNoted, NotedFor
<1>0. NotedFor(t)
  BY NotedForEach
<1>1. ASSUME NEW r \in Sources, NEW P \in SUBSET Paths, begin_start_recording(s, r, P)
      PROVE  NotedFor(t)'
  <2>1. /\ phase' = [phase EXCEPT ![s] = "reserved"] /\ phase[s] = "none"
        /\ leg' = [leg EXCEPT ![s] = [p \in Paths |-> IF p \in P THEN "idle" ELSE "off"]]
        /\ UNCHANGED <<failed, reports>>
    BY <1>1 DEF begin_start_recording
  <2>2. CASE t # s
    BY <2>1, <2>2, <1>0, NotedHolds DEF TypeOK
  <2>3. CASE t = s
    <3>1. failed[s] = 0 /\ \A p \in Paths : <<s, p>> \notin reports
      BY <1>0, <2>1, <2>3 DEF NotedFor
    <3>2. phase'[s] = "reserved" /\ failed'[s] = 0 /\ \A p \in Paths : <<s, p>> \notin reports'
      BY <2>1, <3>1 DEF TypeOK
    <3>3. Noted(s)' = {}
      BY <2>1 DEF Noted, Failures, TypeOK
    <3> QED BY <2>3, <3>2, <3>3, FS_EmptySet DEF NotedFor
  <2> QED BY <2>2, <2>3
<1>2. ASSUME NEW p \in Paths, StartLeg(s, p) PROVE NotedFor(t)'
  <2>1. /\ phase[s] = "reserved" /\ leg[s][p] = "idle" /\ leg' = [leg EXCEPT ![s][p] = "running"]
        /\ UNCHANGED <<phase, failed, reports>>
    BY <1>2 DEF StartLeg
  <2>2. CASE t # s
    BY <2>1, <2>2, <1>0, NotedHolds DEF TypeOK
  <2>3. CASE t = s
    <3>1. ~Dropped(s)
      BY <2>1 DEF Dropped, Started
    <3>2. Noted(s)' = Noted(s)
      BY <2>1 DEF Noted, Failures, TypeOK
    <3>3. \A q \in Paths : leg[s][q] = "failed" => leg'[s][q] = "failed"
      BY <2>1 DEF TypeOK
    <3> QED BY <1>0, <2>1, <2>3, <3>1, <3>2, <3>3 DEF NotedFor
  <2> QED BY <2>2, <2>3
<1>3. ASSUME NEW p \in Paths, StartLegFails(s, p) PROVE NotedFor(t)'
  <2>1. /\ phase[s] = "reserved" /\ leg' = [leg EXCEPT ![s] = Closed(s)]
        /\ UNCHANGED <<phase, failed, reports>>
    BY <1>3 DEF StartLegFails
  <2>2. CASE t # s
    BY <2>1, <2>2, <1>0, NotedHolds DEF TypeOK
  <2>3. CASE t = s
    <3>1. \A q \in Paths : leg'[s][q] \in {"off", "err"}
      BY <2>1 DEF Closed, TypeOK
    <3>2. Dropped(s)'
      BY <3>1 DEF Dropped, Live, Started
    <3> QED BY <2>1, <2>3, <3>2 DEF NotedFor
  <2> QED BY <2>2, <2>3
<1>4. CASE finish_start_recording(s)
  <2> DEFINE after == IF Live(s) = {} THEN "refused"
                      ELSE IF is_current(s) THEN "active" ELSE "discarding"
  <2>1. /\ phase[s] = "reserved" /\ phase' = [phase EXCEPT ![s] = after]
        /\ Forget(IF after = "refused" THEN {s} ELSE {}) /\ UNCHANGED reports
    BY <1>4 DEF finish_start_recording
  <2>2. \A q \in Sessions : q # s \/ after # "refused" => leg'[q] = leg[q] /\ failed'[q] = failed[q]
    BY <2>1 DEF Forget, TypeOK
  <2>3. CASE t # s
    BY <2>1, <2>2, <2>3, <1>0, NotedHolds DEF TypeOK
  <2>4. CASE t = s /\ after = "active"
    <3>1. Live(s) # {}
      BY <2>4
    <3>2. phase'[s] = "active" /\ leg'[s] = leg[s] /\ failed'[s] = failed[s]
      BY <2>1, <2>2, <2>4 DEF TypeOK
    <3>3. ~Dropped(s)
      BY <3>1 DEF Dropped
    <3>4. Noted(s)' = Noted(s)
      BY <2>1, <3>2 DEF Noted, Failures
    <3> QED BY <1>0, <2>1, <2>4, <3>2, <3>3, <3>4 DEF NotedFor
  <2>5. CASE t = s /\ after # "active"
    <3>1. phase'[s] \in {"refused", "discarding"}
      BY <2>1, <2>5 DEF TypeOK
    <3> QED BY <3>1, <2>5, NotedOver
  <2> QED BY <2>3, <2>4, <2>5
<1>5. CASE DiscardLegs(s)
  <2>1. /\ phase' = [phase EXCEPT ![s] = "refused"] /\ Forget({s}) /\ UNCHANGED reports
    BY <1>5 DEF DiscardLegs
  <2>2. CASE t # s
    <3>1. leg'[t] = leg[t] /\ failed'[t] = failed[t]
      BY <2>1, <2>2 DEF Forget, TypeOK
    <3> QED BY <2>1, <2>2, <3>1, <1>0, NotedHolds DEF TypeOK
  <2>3. CASE t = s
    <3>1. phase'[s] = "refused"
      BY <2>1 DEF TypeOK
    <3> QED BY <2>3, <3>1, NotedOver
  <2> QED BY <2>2, <2>3
<1>6. CASE session_insert(s) \/ DropRequest(s)
  BY <1>0, <1>6, NotedHolds DEF session_insert, DropRequest, legs
<1> QED BY <1>1, <1>2, <1>3, <1>4, <1>5, <1>6

(* Sessions taken out are over; the others are as they were. *)
LEMMA NotedTaken ==
  ASSUME TypeOK, FailuresAreNoted, NEW S \in SUBSET Sessions, NEW why, take_session(S, why),
         UNCHANGED <<leg, failed, reports>>
  PROVE  FailuresAreNoted'
<1> SUFFICES ASSUME NEW t \in Sessions PROVE NotedFor(t)'
  BY NotedForEach DEF FailuresAreNoted, NotedFor
<1>0. NotedFor(t)
  BY NotedForEach
<1>1. phase'[t] = IF t \in S THEN "stopping" ELSE phase[t]
  BY DEF take_session
<1>2. CASE t \in S
  BY <1>1, <1>2, NotedOver
<1>3. CASE t \notin S
  BY <1>0, <1>1, <1>3, NotedHolds
<1> QED BY <1>2, <1>3

LEMMA NotedLegs ==
  ASSUME TypeOK, NoOrphanLeg, FailuresAreNoted, NEW s \in Sessions, NEW p \in Paths,
         LegFails(s, p) \/ note_leg_failure(s, p) \/ StopLeg(s, p)
  PROVE  FailuresAreNoted'
<1> SUFFICES ASSUME NEW t \in Sessions PROVE NotedFor(t)'
  BY NotedForEach DEF FailuresAreNoted, NotedFor
<1>0. NotedFor(t)
  BY NotedForEach
<1>1. CASE LegFails(s, p)
  <2>1. /\ leg[s][p] = "running" /\ leg' = [leg EXCEPT ![s][p] = "failed"]
        /\ reports' = reports \cup {<<s, p>>} /\ UNCHANGED <<phase, failed>>
    BY <1>1 DEF LegFails
  <2>2. CASE t # s
    BY <2>1, <2>2, <1>0, NotedHolds DEF TypeOK
  <2>3. CASE t = s
    <3>1. ~Dropped(s) /\ phase[s] # "none"
      <4>1. p \in Live(s)
        BY <2>1 DEF Live
      <4> QED BY <4>1 DEF Dropped, NoOrphanLeg
    <3>2. leg'[s][p] = "failed" /\ \A q \in Paths \ {p} : leg'[s][q] = leg[s][q]
      BY <2>1 DEF TypeOK
    <3>3. Noted(s)' = Noted(s)
      BY <2>1, <3>2 DEF Noted, Failures
    <3>4. \A q \in Paths \ {p} : <<s, q>> \in reports' <=> <<s, q>> \in reports
      BY <2>1
    <3> QED BY <1>0, <2>1, <2>3, <3>1, <3>2, <3>3, <3>4 DEF NotedFor
  <2> QED BY <2>2, <2>3
<1>2. CASE note_leg_failure(s, p)
  <2>1. <<s, p>> \in reports /\ reports' = reports \ {<<s, p>>} /\ leg' = leg
    BY <1>2 DEF note_leg_failure, legs
  <2>2. phase[s] # "none" /\ Live(s)' = Live(s) /\ (Dropped(s)' <=> Dropped(s))
    BY <2>1, NotedForEach DEF NotedFor, Dropped, Live, Started
  <2>3. ASSUME phase[s] = "active" \/ (phase[s] = "reserved" /\ ~Dropped(s))
        PROVE  /\ failed[s] + 1 <= Cardinality(Noted(s)') /\ failed[s] \in Nat
               /\ Cardinality(Noted(s)') \in Nat
               /\ \A q \in Paths : <<s, q>> \in reports' => leg'[s][q] = "failed"
    <3>1. /\ failed[s] <= Cardinality(Noted(s)) /\ failed[s] \in Nat
          /\ \A q \in Paths : <<s, q>> \in reports => leg[s][q] = "failed"
      BY <2>3, NotedForEach DEF NotedFor, TypeOK
    <3>2. leg[s][p] = "failed"
      BY <2>1, <3>1
    <3>3. failed[s] + 1 <= Cardinality(Noted(s)') /\ Cardinality(Noted(s)') \in Nat
      BY <2>1, <3>1, <3>2, NotedOneMore
    <3> QED BY <2>1, <3>1, <3>3
  <2>4. /\ phase'[s] \in {phase[s], "stopping"}
        /\ failed'[s] = failed[s] \/ (phase[s] = "active" /\ failed'[s] = failed[s] + 1)
        /\ \A q \in Sessions \ {s} : phase'[q] = phase[q] /\ failed'[q] = failed[q]
    <3>1. CASE phase[s] = "active"
      <4>1. /\ failed' = [failed EXCEPT ![s] = @ + 1]
            /\ take_session(IF all_failed(s) THEN {s} ELSE {}, Asked)
        BY <1>2, <3>1 DEF note_leg_failure
      <4>2. \A q \in Sessions : phase'[q] = IF all_failed(s) /\ q = s THEN "stopping" ELSE phase[q]
        BY <4>1 DEF take_session
      <4>3. failed'[s] = failed[s] + 1 /\ \A q \in Sessions \ {s} : failed'[q] = failed[q]
        BY <4>1 DEF TypeOK
      <4> QED BY <3>1, <4>2, <4>3
    <3>2. CASE phase[s] # "active"
      BY <1>2, <3>2 DEF note_leg_failure
    <3> QED BY <3>1, <3>2
  <2>5. CASE t # s
    BY <1>0, <2>1, <2>4, <2>5, NotedHolds
  <2>6. CASE t = s /\ phase'[s] = phase[s]
    <3>1. phase[s] = "active" \/ (phase[s] = "reserved" /\ ~Dropped(s))
          => failed'[s] <= Cardinality(Noted(s)')
      BY <2>3, <2>4
    <3> QED BY <2>2, <2>3, <2>6, <3>1 DEF NotedFor
  <2>7. CASE t = s /\ phase'[s] = "stopping"
    BY <2>7, NotedOver
  <2> QED BY <2>4, <2>5, <2>6, <2>7
<1>3. CASE StopLeg(s, p)
  <2>1. /\ phase[s] = "stopping" /\ \A q \in Sessions \ {s} : leg'[q] = leg[q]
        /\ UNCHANGED <<phase, failed, reports>>
    BY <1>3 DEF StopLeg, TypeOK
  <2>2. CASE t # s
    BY <2>1, <2>2, <1>0, NotedHolds
  <2>3. CASE t = s
    BY <2>1, <2>3, NotedOver
  <2> QED BY <2>2, <2>3
<1> QED BY <1>1, <1>2, <1>3

LEMMA NotedProcess ==
  ASSUME TypeOK, FailuresAreNoted, ProcessEnds
  PROVE  FailuresAreNoted'
<1>1. \A s \in Sessions : phase'[s] \in {"none", "refused", "done", "lost"} /\ failed'[s] = 0
  BY DEF ProcessEnds, Forget, TypeOK
<1>2. reports' = {}
  BY DEF ProcessEnds
<1> QED BY <1>1, <1>2 DEF FailuresAreNoted

LEMMA NotedDone ==
  ASSUME TypeOK, FailuresAreNoted, NEW s \in Sessions, session_update_stop(s) \/ finish_stop(s)
  PROVE  FailuresAreNoted'
<1> SUFFICES ASSUME NEW t \in Sessions PROVE NotedFor(t)'
  BY NotedForEach DEF FailuresAreNoted, NotedFor
<1>0. NotedFor(t)
  BY NotedForEach
<1>1. /\ phase'[s] \in {"published", "done"} /\ UNCHANGED reports
      /\ \A q \in Sessions \ {s} : phase'[q] = phase[q] /\ leg'[q] = leg[q] /\ failed'[q] = failed[q]
  <2>1. CASE session_update_stop(s)
    BY <2>1 DEF session_update_stop, legs, TypeOK
  <2>2. CASE finish_stop(s)
    BY <2>2 DEF finish_stop, Forget, TypeOK
  <2> QED BY <2>1, <2>2
<1>2. CASE t = s
  BY <1>1, <1>2, NotedOver
<1>3. CASE t # s
  BY <1>0, <1>1, <1>3, NotedHolds
<1> QED BY <1>2, <1>3

LEMMA NotedNext ==
  ASSUME TypeOK, NoOrphanLeg, FailuresAreNoted, [Next]_vars
  PROVE  FailuresAreNoted'
<1>1. ASSUME UNCHANGED <<phase, leg, failed, reports>> PROVE FailuresAreNoted'
  BY <1>1, NotedHolds, NotedForEach DEF FailuresAreNoted, NotedFor
<1>2. CASE \E s \in Sessions : StopStart(s) \/ QuitStops(s)
  <2>1. PICK s \in Sessions : StopStart(s) \/ QuitStops(s)
    BY <1>2
  <2>2. take_session({s}, Asked) /\ UNCHANGED <<leg, failed, reports>>
    BY <2>1 DEF StopStart, QuitStops, legs
  <2> QED BY <2>2, NotedTaken
<1>3. ASSUME NEW changed \in SUBSET Sources, NEW late \in SUBSET Sources, Rebuild(changed, late)
      PROVE  FailuresAreNoted'
  <2> DEFINE gone == {r \in unhealthy \cup changed : monitor[r] # 0}
             cut == UNION {ActiveOn(r) : r \in gone}
             why == [s \in Sessions |-> IF source[s] \in broken \cup late THEN "source" ELSE "asked"]
  <2>1. take_session(cut, why) /\ UNCHANGED <<leg, failed, reports>>
    BY <1>3 DEF Rebuild, legs
  <2>2. cut \in SUBSET Sessions
    BY DEF ActiveOn
  <2> HIDE DEF cut, why
  <2> QED BY <2>1, <2>2, NotedTaken
<1>4. CASE Client
  <2>1. CASE \/ \E s \in Sessions : StopJoin(s) \/ OrphanRead(s)
             \/ \E s \in Sessions, what \in {"row", "files", "file"} : EditStarts(s, what)
             \/ \E deleted \in SUBSET edit.list : delete_recording(deleted)
             \/ \E p \in Paths : delete_recording_file(p)
             \/ DeleteFileFails
    BY <1>1, <2>1 DEF StopJoin, OrphanRead, EditStarts, delete_recording, delete_recording_file,
                      DeleteFileFails, legs
  <2> QED BY <1>2, <1>4, <2>1, NotedStart DEF Client
<1>5. CASE Environment
  <2>1. CASE \/ \E s \in Sessions, p \in Paths : LegOpensFile(s, p)
             \/ \E r \in Sources : MonitorStarts(r) \/ MonitorFails(r)
             \/ Restart \/ Quit
    BY <1>1, <2>1 DEF LegOpensFile, MonitorStarts, MonitorFails, Restart, Quit, legs
  <2>2. CASE Crash
    BY <2>2, NotedProcess DEF Crash
  <2> QED BY <1>3, <1>5, <2>1, <2>2, NotedLegs DEF Environment
<1>6. CASE Exit
  BY <1>6, NotedProcess DEF Exit
<1>7. ASSUME NEW s \in Sessions, Task(s) PROVE FailuresAreNoted'
  <2>1. CASE RecorderReads(s) \/ RecorderWrites(s) \/ Answer(s) \/ stop_orphaned(s)
    BY <1>1, <2>1 DEF RecorderReads, RecorderWrites, Answer, stop_orphaned, legs
  <2> QED BY <1>2, <1>7, <2>1, NotedStart, NotedLegs, NotedDone DEF Task
<1>8. CASE UNCHANGED vars
  BY <1>1, <1>8 DEF vars, legs
<1> QED BY <1>4, <1>5, <1>6, <1>7, <1>8 DEF Next

LEMMA NotedAlways == SafetySpec => []FailuresAreNoted
<1>1. Init => FailuresAreNoted
  BY DEF Init, FailuresAreNoted
<1>2. IInv /\ FailuresAreNoted /\ [Next]_vars => FailuresAreNoted'
  BY NotedNext DEF IInv
<1> QED BY <1>1, <1>2, Invariant, PTL DEF SafetySpec

(* A failure that stops its session is of the last leg that still recorded.   *)
LEMMA NotedStops ==
  ASSUME TypeOK, FailuresAreNoted, NEW s \in Sessions, NEW p \in Paths, note_leg_failure(s, p),
         NEW t \in Sessions, failed'[t] # failed[t], phase'[t] = "stopping"
  PROVE  \A q \in Outputs(t) : leg[t][q] = "failed"
<1>1. /\ phase[s] = "active" /\ failed' = [failed EXCEPT ![s] = @ + 1] /\ leg' = leg
      /\ take_session(IF all_failed(s) THEN {s} ELSE {}, Asked)
      /\ <<s, p>> \in reports /\ reports' = reports \ {<<s, p>>}
  BY DEF note_leg_failure, legs
<1>2. t = s
  BY <1>1 DEF TypeOK
<1>3. all_failed(s)
  BY <1>1, <1>2 DEF take_session
<1>4. /\ failed[s] + 1 <= Cardinality(Noted(s)')
      /\ Noted(s)' \subseteq Failures(s) /\ Failures(s) \subseteq Outputs(s)
      /\ Cardinality(Noted(s)') \in Nat
  <2>1. /\ failed[s] <= Cardinality(Noted(s)) /\ failed[s] \in Nat /\ leg[s][p] = "failed"
    BY <1>1, NotedForEach DEF NotedFor, TypeOK
  <2> QED BY <1>1, <2>1, NotedOneMore
<1>5. Noted(s)' \subseteq Outputs(s) /\ IsFiniteSet(Outputs(s))
  BY <1>4, NotedFinite
<1>6. Cardinality(Outputs(s)) <= Cardinality(Noted(s)')
  <2>1. Cardinality(Outputs(s)) \in Nat /\ failed[s] \in Nat
    BY <1>5, FS_CardinalityType DEF TypeOK
  <2> QED BY <1>3, <1>4, <2>1 DEF all_failed
<1>7. Noted(s)' = Outputs(s)
  <2>1. Cardinality(Noted(s)') <= Cardinality(Outputs(s))
    BY <1>5, FS_Subset
  <2>2. Cardinality(Noted(s)') = Cardinality(Outputs(s))
    BY <1>4, <1>5, <1>6, <2>1, FS_CardinalityType
  <2> QED BY <1>5, <2>2, FS_Subset
<1> QED BY <1>2, <1>4, <1>7 DEF Failures

(* "Its other legs keep recording": failures end a session only when each of  *)
(* its legs has failed, however late each is told.                            *)
THEOREM OnlyTheLastFailureStops == SafetySpec => OthersKeepRecording
<1> DEFINE Keeps == \A s \in Sessions :
                       failed'[s] # failed[s] /\ phase'[s] = "stopping"
                       => \A p \in Outputs(s) : leg[s][p] = "failed"
<1>1. TypeOK /\ FailuresAreNoted /\ [Next]_vars => [Keeps]_vars
  <2> SUFFICES ASSUME TypeOK, FailuresAreNoted, Next PROVE Keeps
    OBVIOUS
  <2>1. ASSUME failed' = failed PROVE Keeps
    BY <2>1
  <2>2. ASSUME NEW s \in Sessions, NEW p \in Paths, note_leg_failure(s, p) PROVE Keeps
    BY <2>2, NotedStops
  <2>3. ASSUME NEW s \in Sessions, Forget({s}) \/ Forget({}), phase'[s] # "stopping" PROVE Keeps
    <3>1. \A t \in Sessions \ {s} : failed'[t] = failed[t]
      BY <2>3 DEF Forget, TypeOK
    <3> QED BY <2>3, <3>1
  <2>4. ASSUME ProcessEnds PROVE Keeps
    <3>1. \A s \in Sessions : phase'[s] # "stopping"
      BY <2>4 DEF ProcessEnds, TypeOK
    <3> QED BY <3>1
  <2>5. ASSUME NEW s \in Sessions, finish_start_recording(s) \/ DiscardLegs(s) \/ finish_stop(s)
        PROVE  Keeps
    <3>1. phase'[s] # "stopping"
      BY <2>5 DEF finish_start_recording, DiscardLegs, finish_stop, TypeOK
    <3>2. Forget({s}) \/ Forget({})
      <4>1. CASE finish_start_recording(s)
        BY <4>1 DEF finish_start_recording
      <4> QED BY <2>5, <4>1 DEF DiscardLegs, finish_stop
    <3> QED BY <2>3, <3>1, <3>2
  <2>6. CASE Client
    <3>1. failed' = failed
      BY <2>6 DEF Client, begin_start_recording, DropRequest, StopStart, StopJoin, OrphanRead,
                  EditStarts, delete_recording, delete_recording_file, DeleteFileFails
    <3> QED BY <2>1, <3>1
  <2>7. CASE Environment
    <3>1. CASE ~Crash
      BY <2>1, <2>7, <3>1 DEF Environment, LegOpensFile, LegFails, MonitorStarts, MonitorFails, Rebuild,
                         Restart, Quit
    <3> QED BY <2>4, <3>1 DEF Crash
  <2>8. CASE Exit
    BY <2>4, <2>8 DEF Exit
  <2>9. ASSUME NEW s \in Sessions, Task(s) PROVE Keeps
    <3>1. CASE \/ session_insert(s) \/ RecorderReads(s) \/ RecorderWrites(s) \/ session_update_stop(s)
               \/ Answer(s) \/ QuitStops(s) \/ stop_orphaned(s)
               \/ \E p \in Paths : StartLeg(s, p) \/ StartLegFails(s, p) \/ StopLeg(s, p)
      BY <2>1, <3>1 DEF session_insert, RecorderReads, RecorderWrites, session_update_stop, Answer,
                        QuitStops, stop_orphaned, StartLeg, StartLegFails, StopLeg
    <3> QED BY <2>2, <2>5, <2>9, <3>1 DEF Task
  <2> QED BY <2>6, <2>7, <2>8, <2>9 DEF Next
<1> QED BY <1>1, TypeCorrect, NotedAlways, PTL DEF SafetySpec, OthersKeepRecording

-----------------------------------------------------------------------------
(* Files, of recordings whose legs each write one.                            *)

(* What takes no path and writes no file. *)
TakesNone ==
    /\ \A s \in Sessions : phase'[s] \in {"reserved", "active"} =>
          /\ phase[s] \in {"reserved", "active"}
          /\ phase'[s] = "reserved" => phase[s] = "reserved"
          /\ \A p \in Paths : /\ leg'[s][p] # "off" => leg[s][p] # "off"
                              /\ leg'[s][p] = "idle" => leg[s][p] = "idle"
    /\ \A p \in Paths : disk'[p] \in {disk[p], NoSession}

LEMMA TakesNoneHolds == ASSUME PathsAreHeld, TakesNone PROVE PathsAreHeld'
<1>1. (\A s, t \in Sessions, p \in Paths :
          /\ phase[s] \in {"reserved", "active"} /\ phase[t] \in {"reserved", "active"}
          /\ leg[s][p] # "off" /\ leg[t][p] # "off"
          => s = t)'
  BY DEF PathsAreHeld, TakesNone
<1>2. (\A s \in Sessions, p \in Paths :
          phase[s] = "reserved" /\ leg[s][p] = "idle" => disk[p] = NoSession)'
  BY DEF PathsAreHeld, TakesNone
<1> QED BY <1>1, <1>2 DEF PathsAreHeld

LEMMA RemovedIs ==
  ASSUME TypeOK, NEW P
  PROVE  /\ \A p \in Paths : Removed(P)[p] = IF p \in P THEN NoSession ELSE disk[p]
         /\ \A p \in Paths : Removed(P)[p] \in {disk[p], NoSession}
  BY DEF Removed

LEMMA TakesNoneTaken ==
  ASSUME TypeOK, NEW S \in SUBSET Sessions, NEW why, take_session(S, why),
         UNCHANGED <<leg, disk>>
  PROVE  TakesNone
<1>1. \A t \in Sessions : phase'[t] = IF t \in S THEN "stopping" ELSE phase[t]
  BY DEF take_session
<1> QED BY <1>1 DEF TakesNone

(* A session that leaves the maps, forgotten or not. *)
LEMMA TakesNoneLeaves ==
  ASSUME TypeOK, NEW s \in Sessions, phase'[s] \notin {"reserved", "active"},
         \A t \in Sessions \ {s} : phase'[t] = phase[t] /\ leg'[t] = leg[t],
         \A p \in Paths : disk'[p] \in {disk[p], NoSession}
  PROVE  TakesNone
  BY DEF TakesNone

LEMMA TakesNoneEnds == ASSUME TypeOK, ProcessEnds PROVE TakesNone
<1>1. \A s \in Sessions : phase'[s] \in {"none", "refused", "done", "lost"}
  BY DEF ProcessEnds, TypeOK
<1>2. disk' = disk
  BY DEF ProcessEnds
<1> QED BY <1>1, <1>2 DEF TakesNone

(* Only a start takes a path, and only the start of a leg writes a file.      *)
LEMMA OnlyStartsTake ==
  ASSUME Split = {}, TypeOK, [Next]_vars
  PROVE  \/ TakesNone
         \/ \E s \in Sessions, r \in Sources, P \in SUBSET Paths : begin_start_recording(s, r, P)
         \/ \E s \in Sessions, p \in Paths : StartLeg(s, p)
<1>1. ASSUME UNCHANGED <<phase, leg, disk>> PROVE TakesNone
  BY <1>1 DEF TakesNone
<1>2. ASSUME NEW s \in Sessions, StopStart(s) \/ QuitStops(s) PROVE TakesNone
  <2>1. take_session({s}, Asked) /\ UNCHANGED <<leg, disk>>
    BY <1>2 DEF StopStart, QuitStops, legs
  <2> QED BY <2>1, TakesNoneTaken
<1>3. ASSUME NEW changed \in SUBSET Sources, NEW late \in SUBSET Sources, Rebuild(changed, late)
      PROVE  TakesNone
  <2> DEFINE gone == {r \in unhealthy \cup changed : monitor[r] # 0}
             cut == UNION {ActiveOn(r) : r \in gone}
             why == [s \in Sessions |-> IF source[s] \in broken \cup late THEN "source" ELSE "asked"]
  <2>1. take_session(cut, why) /\ UNCHANGED <<leg, disk>>
    BY <1>3 DEF Rebuild, legs
  <2>2. cut \in SUBSET Sessions
    BY DEF ActiveOn
  <2> HIDE DEF cut, why
  <2> QED BY <2>1, <2>2, TakesNoneTaken
<1>4. ASSUME UNCHANGED <<phase, leg>>, NEW P, disk' = Removed(P) PROVE TakesNone
  BY <1>4, RemovedIs DEF TakesNone
<1>5. ASSUME NEW s \in Sessions, NEW p \in Paths, StartLegFails(s, p) PROVE TakesNone
  <2>1. /\ phase' = phase /\ phase[s] = "reserved" /\ leg' = [leg EXCEPT ![s] = Closed(s)]
        /\ disk' = Removed(files[s] \cap (Live(s) \cup {p}))
    BY <1>5 DEF StartLegFails
  <2>2. \A q \in Paths : /\ leg'[s][q] # "idle"
                         /\ leg'[s][q] # "off" => leg[s][q] # "off"
    BY <2>1 DEF Closed, TypeOK
  <2>3. \A t \in Sessions \ {s} : leg'[t] = leg[t]
    BY <2>1 DEF TypeOK
  <2>4. \A q \in Paths : disk'[q] \in {disk[q], NoSession}
    BY <2>1, RemovedIs
  <2> QED BY <2>1, <2>2, <2>3, <2>4 DEF TakesNone
<1>6. ASSUME NEW s \in Sessions, finish_start_recording(s) PROVE TakesNone
  <2> DEFINE after == IF Live(s) = {} THEN "refused"
                      ELSE IF is_current(s) THEN "active" ELSE "discarding"
  <2>1. /\ phase[s] = "reserved" /\ phase' = [phase EXCEPT ![s] = after] /\ disk' = disk
        /\ Forget(IF after = "refused" THEN {s} ELSE {})
    BY <1>6 DEF finish_start_recording
  <2>2. \A t \in Sessions : t # s \/ after # "refused" => leg'[t] = leg[t]
    BY <2>1 DEF Forget
  <2>3. phase'[s] = after /\ \A t \in Sessions \ {s} : phase'[t] = phase[t]
    BY <2>1 DEF TypeOK
  <2>4. CASE after # "active"
    BY <2>1, <2>2, <2>3, <2>4, TakesNoneLeaves
  <2>5. CASE after = "active"
    BY <2>1, <2>2, <2>3, <2>5 DEF TakesNone
  <2> QED BY <2>4, <2>5
<1>7. ASSUME NEW s \in Sessions, DiscardLegs(s) \/ session_update_stop(s) \/ finish_stop(s)
      PROVE  TakesNone
  <2>1. /\ \E after \in {"refused", "published", "done"} : phase' = [phase EXCEPT ![s] = after]
        /\ leg' = leg \/ Forget({s})
        /\ disk' = disk \/ disk' = Removed(files[s])
    BY <1>7 DEF DiscardLegs, session_update_stop, finish_stop, legs
  <2>2. /\ phase'[s] \notin {"reserved", "active"}
        /\ \A t \in Sessions \ {s} : phase'[t] = phase[t]
    BY <2>1 DEF TypeOK
  <2>3. \A t \in Sessions \ {s} : leg'[t] = leg[t]
    BY <2>1 DEF Forget
  <2>4. \A p \in Paths : disk'[p] \in {disk[p], NoSession}
    BY <2>1, RemovedIs
  <2> QED BY <2>2, <2>3, <2>4, TakesNoneLeaves
<1>8. ASSUME NEW s \in Sessions, NEW p \in Paths, LegFails(s, p) PROVE TakesNone
  <2>1. /\ phase' = phase /\ disk' = disk /\ leg[s][p] = "running"
        /\ leg' = [leg EXCEPT ![s][p] = "failed"]
    BY <1>8 DEF LegFails
  <2>2. \A t \in Sessions, q \in Paths : leg'[t][q] = leg[t][q] \/ (t = s /\ q = p /\ leg'[t][q] = "failed")
    BY <2>1 DEF TypeOK
  <2> QED BY <2>1, <2>2 DEF TakesNone
<1>9. ASSUME NEW s \in Sessions, NEW p \in Paths, note_leg_failure(s, p) PROVE TakesNone
  <2>1. UNCHANGED <<leg, disk>>
    BY <1>9 DEF note_leg_failure, legs
  <2>2. CASE phase[s] = "active"
    BY <1>9, <2>1, <2>2, TakesNoneTaken DEF note_leg_failure
  <2>3. CASE phase[s] # "active"
    BY <1>1, <1>9, <2>1, <2>3 DEF note_leg_failure
  <2> QED BY <2>2, <2>3
<1>10. ASSUME NEW s \in Sessions, NEW p \in Paths, StopLeg(s, p) PROVE TakesNone
  <2>1. /\ phase' = phase /\ phase[s] = "stopping"
        /\ disk' \in {disk, Removed({p} \cap files[s] \cap Brief)}
        /\ \A t \in Sessions \ {s} : leg'[t] = leg[t]
    BY <1>10 DEF StopLeg, TypeOK
  <2> QED BY <2>1, RemovedIs, TakesNoneLeaves
<1>11. CASE Client
  <2>1. CASE \E s \in Sessions : DropRequest(s) \/ StopJoin(s) \/ OrphanRead(s)
    BY <1>1, <2>1 DEF DropRequest, StopJoin, OrphanRead, legs
  <2>2. CASE \/ \E s \in Sessions, what \in {"row", "files", "file"} : EditStarts(s, what)
             \/ DeleteFileFails
    BY <1>1, <2>2 DEF EditStarts, DeleteFileFails, legs
  <2>3. CASE \/ \E deleted \in SUBSET edit.list : delete_recording(deleted)
             \/ \E p \in Paths : delete_recording_file(p)
    BY <1>4, <2>3 DEF delete_recording, delete_recording_file, legs
  <2> QED BY <1>2, <1>11, <2>1, <2>2, <2>3 DEF Client
<1>12. CASE Environment
  <2>1. CASE \/ \E r \in Sources : MonitorStarts(r) \/ MonitorFails(r)
             \/ Restart \/ Quit
    BY <1>1, <2>1 DEF MonitorStarts, MonitorFails, Restart, Quit, legs
  <2>2. \A s \in Sessions, p \in Paths : ~LegOpensFile(s, p)
    BY DEF LegOpensFile
  <2> QED BY <1>3, <1>8, <1>12, <2>1, <2>2, TakesNoneEnds DEF Environment, Crash
<1>13. CASE Exit
  BY <1>13, TakesNoneEnds DEF Exit
<1>14. ASSUME NEW s \in Sessions, Task(s)
       PROVE  TakesNone \/ \E p \in Paths : StartLeg(s, p)
  <2>1. CASE \/ session_insert(s) \/ RecorderReads(s) \/ RecorderWrites(s) \/ Answer(s)
             \/ stop_orphaned(s)
    BY <1>1, <2>1 DEF session_insert, RecorderReads, RecorderWrites, Answer, stop_orphaned, legs
  <2> QED BY <1>2, <1>5, <1>6, <1>7, <1>9, <1>10, <1>14, <2>1 DEF Task
<1>15. CASE UNCHANGED vars
  BY <1>1, <1>15 DEF vars, legs
<1> QED BY <1>11, <1>12, <1>13, <1>14, <1>15 DEF Next

LEMMA HeldNext ==
  ASSUME Split = {}, TypeOK, PathsAreHeld, [Next]_vars
  PROVE  PathsAreHeld'
<1>1. CASE TakesNone
  BY <1>1, TakesNoneHolds
<1>2. ASSUME NEW s \in Sessions, NEW r \in Sources, NEW P \in SUBSET Paths,
             begin_start_recording(s, r, P)
      PROVE  PathsAreHeld'
  <2>1. /\ \A t \in Sessions \ {s} : phase'[t] = phase[t] /\ leg'[t] = leg[t]
        /\ \A p \in Paths : leg'[s][p] # "off" => p \in P
        /\ disk' = disk /\ \A p \in P : ~Taken(p)
    BY <1>2 DEF begin_start_recording, TypeOK
  <2>2. \A p \in P : /\ disk[p] = NoSession
                     /\ \A t \in Sessions : phase[t] \in {"reserved", "active"} => leg[t][p] = "off"
    BY <2>1 DEF Taken, Outputs
  <2>3. (\A q, t \in Sessions, p \in Paths :
            /\ phase[q] \in {"reserved", "active"} /\ phase[t] \in {"reserved", "active"}
            /\ leg[q][p] # "off" /\ leg[t][p] # "off"
            => q = t)'
    BY <2>1, <2>2 DEF PathsAreHeld
  <2>4. (\A t \in Sessions, p \in Paths :
            phase[t] = "reserved" /\ leg[t][p] = "idle" => disk[p] = NoSession)'
    BY <2>1, <2>2 DEF PathsAreHeld
  <2> QED BY <2>3, <2>4 DEF PathsAreHeld
<1>3. ASSUME NEW s \in Sessions, NEW p \in Paths, StartLeg(s, p) PROVE PathsAreHeld'
  <2>1. /\ phase' = phase /\ phase[s] = "reserved" /\ leg[s][p] = "idle"
        /\ leg' = [leg EXCEPT ![s][p] = "running"] /\ disk' = [disk EXCEPT ![p] = s]
    BY <1>3 DEF StartLeg
  <2>2. /\ \A t \in Sessions, q \in Paths : t # s \/ q # p => leg'[t][q] = leg[t][q]
        /\ leg'[s][p] = "running" /\ \A q \in Paths \ {p} : disk'[q] = disk[q]
    BY <2>1 DEF TypeOK
  <2>3. (\A q, t \in Sessions, o \in Paths :
            /\ phase[q] \in {"reserved", "active"} /\ phase[t] \in {"reserved", "active"}
            /\ leg[q][o] # "off" /\ leg[t][o] # "off"
            => q = t)'
    BY <2>1, <2>2 DEF PathsAreHeld
  <2>4. (\A t \in Sessions, o \in Paths :
            phase[t] = "reserved" /\ leg[t][o] = "idle" => disk[o] = NoSession)'
    <3> SUFFICES ASSUME NEW t \in Sessions, NEW o \in Paths, phase[t] = "reserved", leg'[t][o] = "idle"
                 PROVE  disk'[o] = NoSession
      BY <2>1
    <3>1. t # s \/ o # p
      BY <2>2
    <3>2. leg[t][o] = "idle"
      BY <2>2, <3>1
    <3>3. o # p
      BY <2>1, <3>1, <3>2 DEF PathsAreHeld
    <3> QED BY <2>2, <3>2, <3>3 DEF PathsAreHeld
  <2> QED BY <2>3, <2>4 DEF PathsAreHeld
<1> QED BY <1>1, <1>2, <1>3, OnlyStartsTake

LEMMA HeldAlways ==
  ASSUME Split = {}
  PROVE  SafetySpec => []PathsAreHeld
<1>1. Init => PathsAreHeld
  BY DEF Init, PathsAreHeld
<1>2. TypeOK /\ PathsAreHeld /\ [Next]_vars => PathsAreHeld'
  BY HeldNext
<1> QED BY <1>1, <1>2, TypeCorrect, PTL DEF SafetySpec

(* Files of recordings that each write one are never written over, and go     *)
(* only by the leg that lists them or by a deletion.  Where legs split their  *)
(* files this is not so (the run split_overwrite).                            *)
THEOREM NoFileIsWrittenOver ==
  ASSUME Split = {}
  PROVE  SafetySpec => FilesKept
<1> DEFINE Keeps == \A p \in Paths : disk[p] # NoSession /\ disk'[p] # disk[p] =>
                      /\ disk'[p] = NoSession
                      /\ \/ \E s \in Sessions : p \in files[s]
                               /\ phase[s] \in {"reserved", "discarding", "stopping"}
                         \/ p \in edit.list
<1>1. TypeOK /\ PathsAreHeld /\ [Next]_vars => [Keeps]_vars
  <2> SUFFICES ASSUME TypeOK, PathsAreHeld, Next PROVE Keeps
    OBVIOUS
  <2>1. ASSUME disk' = disk PROVE Keeps
    BY <2>1
  <2>2. ASSUME NEW s \in Sessions, phase[s] \in {"reserved", "discarding", "stopping"},
               NEW P, P \subseteq files[s], disk' = Removed(P)
        PROVE  Keeps
    <3>1. \A p \in Paths : disk'[p] # disk[p] => disk'[p] = NoSession /\ p \in files[s]
      BY <2>2, RemovedIs
    <3> QED BY <2>2, <3>1
  <2>3. ASSUME NEW s \in Sessions, NEW p \in Paths, StartLeg(s, p) PROVE Keeps
    <3>1. /\ phase[s] = "reserved" /\ leg[s][p] = "idle" /\ disk' = [disk EXCEPT ![p] = s]
      BY <2>3 DEF StartLeg
    <3>2. disk[p] = NoSession /\ \A q \in Paths \ {p} : disk'[q] = disk[q]
      BY <3>1 DEF PathsAreHeld, TypeOK
    <3> QED BY <3>2
  <2>4. ASSUME NEW P, P \subseteq edit.list, disk' = Removed(P) PROVE Keeps
    <3>1. \A p \in Paths : disk'[p] # disk[p] => disk'[p] = NoSession /\ p \in edit.list
      BY <2>4, RemovedIs
    <3> QED BY <3>1
  <2>5. ASSUME NEW s \in Sessions, NEW p \in Paths, StartLegFails(s, p) \/ StopLeg(s, p) PROVE Keeps
    BY <2>1, <2>2, <2>5 DEF StartLegFails, StopLeg
  <2>6. ASSUME NEW s \in Sessions, DiscardLegs(s) PROVE Keeps
    BY <2>2, <2>6 DEF DiscardLegs
  <2>7. CASE Client
    <3>1. CASE \/ \E deleted \in SUBSET edit.list : delete_recording(deleted)
               \/ \E p \in Paths : delete_recording_file(p)
      <4>1. PICK P : P \subseteq edit.list /\ disk' = Removed(P)
        BY <3>1 DEF delete_recording, delete_recording_file
      <4> QED BY <2>4, <4>1
    <3>2. CASE ~ (\/ \E deleted \in SUBSET edit.list : delete_recording(deleted)
                  \/ \E p \in Paths : delete_recording_file(p))
      BY <2>1, <2>7, <3>2 DEF Client, begin_start_recording, DropRequest, StopStart, StopJoin,
                              OrphanRead, EditStarts, DeleteFileFails
    <3> QED BY <3>1, <3>2
  <2>8. CASE Environment
    <3>1. \A s \in Sessions, p \in Paths : ~LegOpensFile(s, p)
      BY DEF LegOpensFile
    <3> QED BY <2>1, <2>8, <3>1 DEF Environment, LegFails, MonitorStarts, MonitorFails, Rebuild, Crash,
                               ProcessEnds, Restart, Quit
  <2>9. CASE Exit
    BY <2>1, <2>9 DEF Exit, ProcessEnds
  <2>10. ASSUME NEW s \in Sessions, Task(s) PROVE Keeps
    <3>1. CASE \/ finish_start_recording(s) \/ session_insert(s) \/ RecorderReads(s)
               \/ RecorderWrites(s) \/ session_update_stop(s) \/ finish_stop(s) \/ Answer(s)
               \/ QuitStops(s) \/ stop_orphaned(s) \/ \E p \in Paths : note_leg_failure(s, p)
      BY <2>1, <3>1 DEF finish_start_recording, session_insert, RecorderReads, RecorderWrites,
                        session_update_stop, finish_stop, Answer, QuitStops, stop_orphaned,
                        note_leg_failure
    <3> QED BY <2>3, <2>5, <2>6, <2>10, <3>1 DEF Task
  <2> QED BY <2>7, <2>8, <2>9, <2>10 DEF Next
<1> QED BY <1>1, TypeCorrect, HeldAlways, PTL DEF SafetySpec, FilesKept

(* Whatever lists a session's files lists all that are there.                 *)
ListedFor(s) ==
    /\ phase[s] = "none" => Has(s) = {}
    /\ phase[s] = "reserved" => Outputs(s) \subseteq files[s]
    /\ phase[s] \in {"reserved", "active", "stopping", "published", "discarding"}
          => Has(s) \subseteq files[s]
    /\ phase[s] \in {"active", "stopping", "published", "done"} /\ request[s] = "open"
          => Has(s) \subseteq begun[s]
    /\ phase[s] \in {"stopping", "published"} => Has(s) \subseteq ended[s]
    /\ row[s] # "none" => Has(s) \subseteq saved[s]
    /\ edit.id = s => Has(s) \subseteq edit.list /\ phase[s] \notin {"none", "reserved"}
    /\ orphan.id = s => Has(s) \subseteq orphan.list

NothingSplits == saving = NoList /\ opened = {} /\ (edit.what # "none" => edit.id \in Sessions)

LEMMA ListedForEach == FilesAreListed <=> NothingSplits /\ \A s \in Sessions : ListedFor(s)
  BY DEF FilesAreListed, ListedFor, NothingSplits

(* What a session's row, and who has read it, say of its files. *)
RowsList(s) ==
    /\ row[s] # "none" => Has(s) \subseteq saved[s]
    /\ edit.id = s => Has(s) \subseteq edit.list /\ phase[s] \notin {"none", "reserved"}
    /\ orphan.id = s => Has(s) \subseteq orphan.list

LEMMA RowsListHolds ==
  ASSUME NEW s \in Sessions, ListedFor(s), Has(s)' \subseteq Has(s),
         phase'[s] \in {"none", "reserved"} => phase[s] \in {"none", "reserved"},
         row'[s] # "none" => row[s] # "none", saved'[s] = saved[s],
         edit' \in {edit, NoEdit}, orphan' \in {orphan, NoList}
  PROVE  RowsList(s)'
<1>1. NoEdit.id # s /\ NoList.id # s
  BY ConstantsAssumption
<1>2. (row[s] # "none" => Has(s) \subseteq saved[s])'
  BY DEF ListedFor
<1>3. (edit.id = s => Has(s) \subseteq edit.list /\ phase[s] \notin {"none", "reserved"})'
  BY <1>1 DEF ListedFor
<1>4. (orphan.id = s => Has(s) \subseteq orphan.list)'
  BY <1>1 DEF ListedFor
<1> QED BY <1>2, <1>3, <1>4 DEF RowsList

(* A session that stays where it is lists what it listed. *)
LEMMA ListedStays ==
  ASSUME NEW s \in Sessions, ListedFor(s), Has(s)' \subseteq Has(s), phase'[s] = phase[s],
         \A p \in Paths : leg'[s][p] # "off" => leg[s][p] # "off", files'[s] = files[s],
         request'[s] = "open" => request[s] = "open", begun'[s] = begun[s], ended'[s] = ended[s],
         RowsList(s)'
  PROVE  ListedFor(s)'
<1>1. Outputs(s)' \subseteq Outputs(s)
  BY DEF Outputs
<1> QED BY <1>1 DEF ListedFor, RowsList

LEMMA HasFewer ==
  ASSUME NEW s \in Sessions, \A p \in Paths : disk'[p] \in {disk[p], NoSession}
  PROVE  Has(s)' \subseteq Has(s)
  BY ConstantsAssumption DEF Has

LEMMA HasRemoved ==
  ASSUME TypeOK, NEW s \in Sessions, NEW P, disk' = Removed(P)
  PROVE  Has(s)' = Has(s) \ P
<1>1. \A p \in Paths : disk'[p] = IF p \in P THEN NoSession ELSE disk[p]
  BY RemovedIs
<1> QED BY <1>1, ConstantsAssumption DEF Has

LEMMA NothingSplitsHolds ==
  ASSUME NothingSplits, saving' = saving, opened' = opened, edit' \in {edit, NoEdit}
  PROVE  NothingSplits'
  BY DEF NothingSplits

(* Steps that change none of it but its legs, and remove files. *)
LEMMA ListedHolds ==
  ASSUME TypeOK, FilesAreListed,
         UNCHANGED <<phase, files, begun, ended, saved, saving, opened>>,
         \A s \in Sessions : \/ leg'[s] = leg[s]
                             \/ \A p \in Paths : leg'[s][p] # "off" => leg[s][p] # "off",
         \A s \in Sessions : /\ row'[s] # "none" => row[s] # "none"
                             /\ request'[s] = "open" => request[s] = "open",
         \A p \in Paths : disk'[p] \in {disk[p], NoSession},
         edit' \in {edit, NoEdit}, orphan' \in {orphan, NoList}
  PROVE  FilesAreListed'
<1>1. NothingSplits'
  BY ListedForEach, NothingSplitsHolds
<1>2. ASSUME NEW s \in Sessions PROVE ListedFor(s)'
  <2>1. ListedFor(s) /\ Has(s)' \subseteq Has(s)
    BY ListedForEach, HasFewer
  <2>2. RowsList(s)'
    BY <2>1, RowsListHolds
  <2> QED BY <2>1, <2>2, ListedStays
<1> QED BY <1>1, <1>2, ListedForEach DEF FilesAreListed, ListedFor, NothingSplits

(* The list of a session's files, as its DTO is told when it stops. *)
LEMMA ListedTaken ==
  ASSUME TypeOK, FilesAreListed, NEW S \in SUBSET Sessions, NEW why, take_session(S, why),
         \A s \in S : phase[s] = "active",
         UNCHANGED <<leg, files, request, row, saved, edit, orphan, saving, opened, disk>>
  PROVE  FilesAreListed'
<1>1. NothingSplits'
  BY ListedForEach, NothingSplitsHolds
<1>2. ASSUME NEW s \in Sessions PROVE ListedFor(s)'
  <2>0. ListedFor(s) /\ Has(s)' = Has(s)
    BY ListedForEach DEF Has
  <2>1. /\ phase'[s] = IF s \in S THEN "stopping" ELSE phase[s]
        /\ ended'[s] = IF s \in S THEN files[s] ELSE ended[s]
        /\ begun'[s] = begun[s]
    BY DEF take_session, session_files
  <2>2. RowsList(s)'
    BY <2>0, <2>1, RowsListHolds
  <2>3. CASE s \notin S
    BY <2>0, <2>1, <2>2, <2>3, ListedStays
  <2>4. CASE s \in S
    BY <2>0, <2>1, <2>2, <2>4 DEF ListedFor, RowsList
  <2> QED BY <2>3, <2>4
<1> QED BY <1>1, <1>2, ListedForEach DEF FilesAreListed, ListedFor, NothingSplits

(* One session moves, none of the others do. *)
LEMMA ListedMoves ==
  ASSUME TypeOK, FilesAreListed, NEW s \in Sessions, ListedFor(s)',
         \A t \in Sessions \ {s} :
            /\ phase'[t] = phase[t] /\ leg'[t] = leg[t] /\ files'[t] = files[t]
            /\ begun'[t] = begun[t] /\ ended'[t] = ended[t]
            /\ request'[t] = request[t] /\ row'[t] = row[t] /\ saved'[t] = saved[t]
            /\ Has(t)' \subseteq Has(t),
         UNCHANGED <<saving, opened, edit>>, orphan' \in {orphan, NoList}
  PROVE  FilesAreListed'
<1>1. NothingSplits'
  BY ListedForEach, NothingSplitsHolds
<1>2. ASSUME NEW t \in Sessions \ {s} PROVE ListedFor(t)'
  <2>1. ListedFor(t)
    BY ListedForEach
  <2>2. RowsList(t)'
    BY <2>1, RowsListHolds
  <2> QED BY <2>1, <2>2, ListedStays
<1> QED BY <1>1, <1>2, ListedForEach DEF FilesAreListed, ListedFor, NothingSplits

LEMMA ListedStart ==
  ASSUME Split = {}, TypeOK, RowFollowsPhase, OrphanStaysOrphan, FilesAreListed, NEW s \in Sessions,
         \/ \E r \in Sources, P \in SUBSET Paths : begin_start_recording(s, r, P)
         \/ \E p \in Paths : StartLeg(s, p) \/ StartLegFails(s, p)
         \/ finish_start_recording(s) \/ DiscardLegs(s) \/ session_insert(s) \/ DropRequest(s)
  PROVE  FilesAreListed'
<1>0. ListedFor(s)
  BY ListedForEach
<1>1. ASSUME NEW r \in Sources, NEW P \in SUBSET Paths, begin_start_recording(s, r, P)
      PROVE  FilesAreListed'
  <2>1. /\ phase[s] = "none" /\ phase'[s] = "reserved" /\ files'[s] = P
        /\ \A p \in Paths : leg'[s][p] # "off" => p \in P
        /\ \A t \in Sessions \ {s} : /\ phase'[t] = phase[t] /\ leg'[t] = leg[t]
                                     /\ files'[t] = files[t] /\ request'[t] = request[t]
        /\ UNCHANGED <<begun, ended, saving, opened, row, saved, edit, orphan, disk>>
    BY <1>1 DEF begin_start_recording, TypeOK, dtos, recorder, history, deletion, stops
  <2>2. Has(s)' = {} /\ \A t \in Sessions : Has(t)' = Has(t)
    BY <1>0, <2>1 DEF Has, ListedFor
  <2>3. Outputs(s)' \subseteq files'[s]
    BY <2>1 DEF Outputs
  <2>4. RowsList(s)'
    <3>1. edit.id # s
      BY <1>0, <2>1 DEF ListedFor
    <3> QED BY <2>1, <2>2, <3>1 DEF RowsList
  <2>5. ListedFor(s)'
    BY <2>1, <2>2, <2>3, <2>4 DEF ListedFor, RowsList
  <2> QED BY <2>1, <2>2, <2>5, ListedMoves
<1>2. ASSUME NEW p \in Paths, StartLeg(s, p) PROVE FilesAreListed'
  <2>1. /\ phase[s] = "reserved" /\ leg[s][p] = "idle" /\ leg' = [leg EXCEPT ![s][p] = "running"]
        /\ disk' = [disk EXCEPT ![p] = s]
        /\ UNCHANGED <<phase, files, request, begun, ended, saving, opened, row, saved, edit, orphan>>
    BY <1>2 DEF StartLeg, dtos, recorder, history, deletion, stops
  <2>2. /\ \A q \in Paths : leg'[s][q] # "off" => leg[s][q] # "off"
        /\ \A t \in Sessions \ {s} : leg'[t] = leg[t]
        /\ disk'[p] = s /\ \A q \in Paths \ {p} : disk'[q] = disk[q]
    BY <2>1 DEF TypeOK
  <2>3. Has(s)' \subseteq Has(s) \cup {p} /\ \A t \in Sessions \ {s} : Has(t)' \subseteq Has(t)
    BY <2>2 DEF Has
  <2>4. p \in files[s] /\ Outputs(s)' \subseteq Outputs(s)
    BY <1>0, <2>1, <2>2 DEF ListedFor, Outputs
  <2>5. row[s] = "none" /\ edit.id # s /\ orphan.id # s
    BY <1>0, <2>1 DEF ListedFor, RowFollowsPhase, OrphanStaysOrphan
  <2>6. ListedFor(s)'
    BY <1>0, <2>1, <2>3, <2>4, <2>5 DEF ListedFor
  <2> QED BY <2>1, <2>2, <2>3, <2>6, ListedMoves
<1>3. ASSUME NEW p \in Paths, StartLegFails(s, p) PROVE FilesAreListed'
  <2>1. /\ leg' = [leg EXCEPT ![s] = Closed(s)] /\ disk' = Removed(files[s] \cap (Live(s) \cup {p}))
        /\ UNCHANGED <<phase, files, request, begun, ended, saving, opened, row, saved, edit, orphan>>
    BY <1>3 DEF StartLegFails, dtos, recorder, history, deletion, stops
  <2>2. \A q \in Paths : leg'[s][q] # "off" => leg[s][q] # "off"
    BY <2>1 DEF Closed, TypeOK
  <2>3. \A t \in Sessions \ {s} : leg'[t] = leg[t]
    BY <2>1 DEF TypeOK
  <2>4. \A q \in Paths : disk'[q] \in {disk[q], NoSession}
    BY <2>1, RemovedIs
  <2> QED BY <2>1, <2>2, <2>3, <2>4, ListedHolds
<1>4. CASE finish_start_recording(s)
  <2> DEFINE after == IF Live(s) = {} THEN "refused"
                      ELSE IF is_current(s) THEN "active" ELSE "discarding"
  <2>1. /\ phase[s] = "reserved" /\ phase' = [phase EXCEPT ![s] = after]
        /\ begun' = [begun EXCEPT ![s] = IF after = "active" THEN files[s] ELSE {}]
        /\ request' = [request EXCEPT ![s] = IF after = "active" THEN @ ELSE "closed"]
        /\ Forget(IF after = "refused" THEN {s} ELSE {})
        /\ UNCHANGED <<ended, saving, opened, row, saved, edit, orphan, disk>>
    BY <1>4 DEF finish_start_recording, session_files, recorder, history, deletion, stops
  <2>2. \A t \in Sessions : t # s \/ after # "refused" => leg'[t] = leg[t] /\ files'[t] = files[t]
    BY <2>1 DEF Forget, TypeOK
  <2>3. /\ phase'[s] = after /\ begun'[s] = IF after = "active" THEN files[s] ELSE {}
        /\ after # "active" => request'[s] = "closed"
        /\ \A t \in Sessions \ {s} :
              phase'[t] = phase[t] /\ begun'[t] = begun[t] /\ request'[t] = request[t]
    BY <2>1 DEF TypeOK
  <2>4. \A t \in Sessions : Has(t)' = Has(t)
    BY <2>1 DEF Has
  <2>5. RowsList(s)'
    <3>1. phase'[s] \notin {"none", "reserved"}
      BY <2>3
    <3> QED BY <1>0, <2>1, <2>4, <3>1, RowsListHolds
  <2>6. after \in {"refused", "active", "discarding"}
    OBVIOUS
  <2> HIDE DEF after
  <2>7. ListedFor(s)'
    BY <1>0, <2>1, <2>2, <2>3, <2>4, <2>5, <2>6 DEF ListedFor, RowsList
  <2> QED BY <2>1, <2>2, <2>3, <2>4, <2>7, ListedMoves
<1>5. CASE DiscardLegs(s)
  <2>1. /\ phase[s] = "discarding" /\ phase' = [phase EXCEPT ![s] = "refused"]
        /\ disk' = Removed(files[s]) /\ Forget({s})
        /\ UNCHANGED <<begun, ended, request, saving, opened, row, saved, edit, orphan>>
    BY <1>5 DEF DiscardLegs, dtos, recorder, history, deletion, stops
  <2>2. /\ \A t \in Sessions \ {s} : phase'[t] = phase[t] /\ leg'[t] = leg[t] /\ files'[t] = files[t]
        /\ phase'[s] = "refused"
    BY <2>1 DEF Forget, TypeOK
  <2>3. \A t \in Sessions : Has(t)' \subseteq Has(t)
    BY <2>1, HasRemoved
  <2>4. RowsList(s)'
    BY <1>0, <2>1, <2>2, <2>3, RowsListHolds
  <2>5. ListedFor(s)'
    BY <2>2, <2>4 DEF ListedFor, RowsList
  <2> QED BY <2>1, <2>2, <2>3, <2>5, ListedMoves
<1>6. CASE session_insert(s)
  <2>1. /\ request[s] = "open" /\ phase[s] \in {"active", "stopping", "published", "done"}
        /\ request' = [request EXCEPT ![s] = "closed"]
        /\ \/ row' = [row EXCEPT ![s] = "active"] /\ saved' = [saved EXCEPT ![s] = begun[s]]
           \/ UNCHANGED <<row, saved>>
        /\ UNCHANGED <<phase, leg, files, begun, ended, saving, opened, edit, orphan, disk>>
    BY <1>6 DEF session_insert, dtos, legs, recorder, deletion, stops
  <2>2. /\ \A t \in Sessions \ {s} : request'[t] = request[t] /\ row'[t] = row[t] /\ saved'[t] = saved[t]
        /\ request'[s] = "closed" /\ (saved'[s] = begun[s] \/ (saved'[s] = saved[s] /\ row'[s] = row[s]))
    BY <2>1 DEF TypeOK
  <2>3. \A t \in Sessions : Has(t)' = Has(t)
    BY <2>1 DEF Has
  <2>4. Has(s) \subseteq begun[s]
    BY <1>0, <2>1 DEF ListedFor
  <2>5. RowsList(s)'
    BY <1>0, <2>1, <2>2, <2>3, <2>4 DEF ListedFor, RowsList
  <2>6. ListedFor(s)'
    BY <1>0, <2>1, <2>2, <2>3, <2>5, ListedStays
  <2> QED BY <2>1, <2>2, <2>3, <2>6, ListedMoves
<1>7. CASE DropRequest(s)
  <2>1. /\ request' = [request EXCEPT ![s] = "closed"]
        /\ UNCHANGED <<phase, leg, files, begun, ended, saving, opened, row, saved, edit, orphan, disk>>
    BY <1>7 DEF DropRequest, dtos, legs, recorder, history, deletion, stops
  <2>2. \A t \in Sessions : request'[t] = "open" => request[t] = "open"
    BY <2>1 DEF TypeOK
  <2> QED BY <2>1, <2>2, ListedHolds
<1> QED BY <1>1, <1>2, <1>3, <1>4, <1>5, <1>6, <1>7

LEMMA ListedStop ==
  ASSUME TypeOK, FilesAreListed, NEW s \in Sessions,
         session_update_stop(s) \/ finish_stop(s) \/ OrphanRead(s) \/ stop_orphaned(s)
  PROVE  FilesAreListed'
<1>0. ListedFor(s)
  BY ListedForEach
<1>1. CASE session_update_stop(s)
  <2>1. /\ phase[s] = "stopping" /\ phase' = [phase EXCEPT ![s] = "published"]
        /\ \E status \in Final : Write(s, status, ended[s])
        /\ UNCHANGED <<leg, files, request, begun, ended, saving, opened, edit, orphan, disk>>
    BY <1>1 DEF session_update_stop, dtos, legs, recorder, deletion
  <2>2. /\ \A t \in Sessions \ {s} : phase'[t] = phase[t] /\ row'[t] = row[t] /\ saved'[t] = saved[t]
        /\ phase'[s] = "published"
        /\ row'[s] # "none" => row[s] # "none"
        /\ saved'[s] = ended[s] \/ saved'[s] = saved[s]
    BY <2>1 DEF TypeOK, Write
  <2>3. \A t \in Sessions : Has(t)' = Has(t)
    BY <2>1 DEF Has
  <2>4. RowsList(s)'
    BY <1>0, <2>1, <2>2, <2>3 DEF ListedFor, RowsList
  <2>5. ListedFor(s)'
    BY <1>0, <2>1, <2>2, <2>3, <2>4 DEF ListedFor, RowsList
  <2> QED BY <2>1, <2>2, <2>3, <2>5, ListedMoves
<1>2. CASE finish_stop(s)
  <2>1. /\ phase[s] = "published" /\ phase' = [phase EXCEPT ![s] = "done"]
        /\ ended' = [ended EXCEPT ![s] = {}] /\ Forget({s})
        /\ UNCHANGED <<request, begun, saving, opened, row, saved, edit, orphan, disk>>
    BY <1>2 DEF finish_stop, recorder, history, deletion, stops
  <2>2. /\ \A t \in Sessions \ {s} : /\ phase'[t] = phase[t] /\ leg'[t] = leg[t]
                                     /\ files'[t] = files[t] /\ ended'[t] = ended[t]
        /\ phase'[s] = "done"
    BY <2>1 DEF Forget, TypeOK
  <2>3. \A t \in Sessions : Has(t)' = Has(t)
    BY <2>1 DEF Has
  <2>4. RowsList(s)'
    BY <1>0, <2>1, <2>2, <2>3, RowsListHolds
  <2>5. ListedFor(s)'
    BY <1>0, <2>1, <2>2, <2>3, <2>4 DEF ListedFor, RowsList
  <2> QED BY <2>1, <2>2, <2>3, <2>5, ListedMoves
<1>3. CASE OrphanRead(s)
  <2>1. /\ row[s] = "active" /\ orphan' = [id |-> s, list |-> saved[s]]
        /\ UNCHANGED <<phase, leg, files, request, begun, ended, saving, opened, row, saved, edit, disk>>
    BY <1>3 DEF OrphanRead, orphaned, dtos, legs, recorder, history, deletion
  <2>2. \A t \in Sessions : Has(t)' = Has(t)
    BY <2>1 DEF Has
  <2>3. ASSUME NEW t \in Sessions PROVE ListedFor(t)'
    <3>1. ListedFor(t)
      BY ListedForEach
    <3>2. RowsList(t)'
      BY <2>1, <2>2, <3>1 DEF ListedFor, RowsList
    <3> QED BY <2>1, <2>2, <3>1, <3>2, ListedStays
  <2>4. NothingSplits'
    BY <2>1, ListedForEach, NothingSplitsHolds
  <2> QED BY <2>3, <2>4, ListedForEach DEF FilesAreListed, ListedFor, NothingSplits
<1>4. CASE stop_orphaned(s)
  <2>1. /\ orphan.id = s /\ orphan' = NoList /\ Write(s, "stopped", orphan.list)
        /\ UNCHANGED <<phase, leg, files, request, begun, ended, saving, opened, edit, disk>>
    BY <1>4 DEF stop_orphaned, dtos, legs, recorder, deletion
  <2>2. /\ \A t \in Sessions \ {s} : row'[t] = row[t] /\ saved'[t] = saved[t]
        /\ row'[s] # "none" => row[s] # "none"
        /\ saved'[s] = orphan.list \/ saved'[s] = saved[s]
    BY <2>1 DEF TypeOK, Write
  <2>3. \A t \in Sessions : Has(t)' = Has(t)
    BY <2>1 DEF Has
  <2>4. RowsList(s)'
    BY <1>0, <2>1, <2>2, <2>3, ConstantsAssumption DEF ListedFor, RowsList
  <2>5. ListedFor(s)'
    BY <1>0, <2>1, <2>3, <2>4, ListedStays
  <2> QED BY <2>1, <2>2, <2>3, <2>5, ListedMoves
<1> QED BY <1>1, <1>2, <1>3, <1>4

LEMMA ListedDelete ==
  ASSUME TypeOK, RowFollowsPhase, FilesAreListed,
         \/ \E s \in Sessions, what \in {"row", "files", "file"} : EditStarts(s, what)
         \/ \E deleted \in SUBSET edit.list : delete_recording(deleted)
         \/ \E p \in Paths : delete_recording_file(p)
         \/ DeleteFileFails
  PROVE  FilesAreListed'
<1>1. ASSUME NEW s \in Sessions, NEW what \in {"row", "files", "file"}, EditStarts(s, what)
      PROVE  FilesAreListed'
  <2>1. /\ row[s] # "none" /\ edit' = [id |-> s, what |-> what, list |-> saved[s]]
        /\ UNCHANGED <<phase, leg, files, request, begun, ended, saving, opened, row, saved, orphan, disk>>
    BY <1>1 DEF EditStarts, dtos, legs, recorder, history, stops
  <2>2. phase[s] \notin {"none", "reserved"}
    BY <2>1 DEF RowFollowsPhase
  <2>3. \A t \in Sessions : Has(t)' = Has(t)
    BY <2>1 DEF Has
  <2>4. ASSUME NEW t \in Sessions PROVE ListedFor(t)'
    <3>1. ListedFor(t)
      BY ListedForEach
    <3>2. RowsList(t)'
      BY <2>1, <2>2, <2>3, <3>1 DEF ListedFor, RowsList
    <3> QED BY <2>1, <2>3, <3>1, <3>2, ListedStays
  <2>5. NothingSplits'
    BY <2>1, ListedForEach DEF NothingSplits
  <2> QED BY <2>4, <2>5, ListedForEach DEF FilesAreListed, ListedFor, NothingSplits
<1>2. ASSUME NEW P, edit.id \in Sessions, NEW status, NEW list,
             disk' = Removed(P), Write(edit.id, status, list), edit' = NoEdit,
             row[edit.id] # "none" /\ status # "none" => edit.list \ P \subseteq list,
             UNCHANGED <<phase, leg, files, request, begun, ended, saving, opened, orphan>>
      PROVE  FilesAreListed'
  <2>1. /\ \A t \in Sessions : row'[t] # "none" => row[t] # "none"
        /\ \A t \in Sessions \ {edit.id} : saved'[t] = saved[t]
        /\ saved'[edit.id] = saved[edit.id] \/ (row[edit.id] # "none" /\ saved'[edit.id] = list)
        /\ row'[edit.id] \in {row[edit.id], status}
        /\ saved'[edit.id] = saved[edit.id] \/ row'[edit.id] = status
    BY <1>2 DEF Write, TypeOK
  <2>2. ASSUME NEW t \in Sessions PROVE ListedFor(t)'
    <3>1. ListedFor(t) /\ Has(t)' = Has(t) \ P
      BY <1>2, ListedForEach, HasRemoved
    <3>2. RowsList(t)'
      <4>1. CASE saved'[t] = saved[t]
        BY <1>2, <2>1, <3>1, <4>1, RowsListHolds
      <4>2. CASE saved'[t] # saved[t]
        <5>1. t = edit.id /\ row[t] # "none" /\ saved'[t] = list /\ row'[t] = status
          BY <2>1, <4>2
        <5>2. row'[t] # "none" => Has(t)' \subseteq saved'[t]
          BY <1>2, <3>1, <5>1 DEF ListedFor
        <5>3. edit'.id # t
          BY <1>2, ConstantsAssumption
        <5> QED BY <1>2, <3>1, <5>2, <5>3 DEF ListedFor, RowsList
      <4> QED BY <4>1, <4>2
    <3> QED BY <1>2, <3>1, <3>2, ListedStays
  <2>3. NothingSplits'
    BY <1>2, ListedForEach, NothingSplitsHolds
  <2> QED BY <2>2, <2>3, ListedForEach DEF FilesAreListed, ListedFor, NothingSplits
<1>3. ASSUME NEW deleted \in SUBSET edit.list, delete_recording(deleted) PROVE FilesAreListed'
  <2>1. /\ edit.what \in {"row", "files"} /\ disk' = Removed(deleted) /\ edit' = NoEdit
        /\ UNCHANGED <<phase, leg, files, request, begun, ended, saving, opened, orphan>>
    BY <1>3 DEF delete_recording, dtos, legs, recorder, stops
  <2>2. edit.id \in Sessions
    BY <2>1 DEF FilesAreListed
  <2>3. \/ Write(edit.id, "none", {})
        \/ Write(edit.id, row[edit.id], edit.list \ deleted)
    BY <1>3 DEF delete_recording
  <2>4. CASE Write(edit.id, "none", {})
    BY <1>2, <2>1, <2>2, <2>4
  <2>5. CASE Write(edit.id, row[edit.id], edit.list \ deleted)
    BY <1>2, <2>1, <2>2, <2>5
  <2> QED BY <2>3, <2>4, <2>5
<1>4. ASSUME NEW p \in Paths, delete_recording_file(p) PROVE FilesAreListed'
  <2>1. /\ edit.what = "file" /\ disk' = Removed({p}) /\ edit' = NoEdit
        /\ Write(edit.id, row[edit.id], edit.list \ {p})
        /\ UNCHANGED <<phase, leg, files, request, begun, ended, saving, opened, orphan>>
    BY <1>4 DEF delete_recording_file, dtos, legs, recorder, stops
  <2>2. edit.id \in Sessions
    BY <2>1 DEF FilesAreListed
  <2> QED BY <1>2, <2>1, <2>2
<1>5. CASE DeleteFileFails
  <2>1. /\ edit' = NoEdit
        /\ UNCHANGED <<phase, leg, files, request, begun, ended, saving, opened, row, saved, orphan, disk>>
    BY <1>5 DEF DeleteFileFails, dtos, legs, recorder, history, stops
  <2> QED BY <2>1, ListedHolds
<1> QED BY <1>1, <1>3, <1>4, <1>5

LEMMA ListedProcess ==
  ASSUME TypeOK, FilesAreListed, ProcessEnds
  PROVE  FilesAreListed'
<1>1. /\ \A s \in Sessions :
            /\ phase'[s] \in {"none", "refused", "done", "lost"}
            /\ phase'[s] = "none" => phase[s] = "none"
            /\ request'[s] # "open"
      /\ opened' = {} /\ saving' = NoList /\ orphan' = NoList /\ edit' = NoEdit
      /\ UNCHANGED <<row, saved, disk>>
  BY DEF ProcessEnds, TypeOK, history
<1>2. ASSUME NEW s \in Sessions PROVE ListedFor(s)'
  <2>1. ListedFor(s) /\ Has(s)' = Has(s)
    BY <1>1, ListedForEach DEF Has
  <2>2. RowsList(s)'
    BY <1>1, <2>1, RowsListHolds
  <2> QED BY <1>1, <2>1, <2>2 DEF ListedFor, RowsList
<1>3. NothingSplits'
  BY <1>1 DEF NothingSplits
<1> QED BY <1>2, <1>3, ListedForEach DEF FilesAreListed, ListedFor, NothingSplits

LEMMA ListedNext ==
  ASSUME Split = {}, IInv, FilesAreListed, [Next]_vars
  PROVE  FilesAreListed'
<1>0. TypeOK /\ RowFollowsPhase /\ OrphanStaysOrphan /\ NothingSplits
  BY ListedForEach DEF IInv
<1>1. ASSUME UNCHANGED <<phase, leg, files, begun, ended, saved, saving, opened, row, request, disk,
                         edit, orphan>>
      PROVE  FilesAreListed'
  BY <1>0, <1>1, ListedHolds
<1>2. ASSUME NEW s \in Sessions, StopStart(s) \/ QuitStops(s) PROVE FilesAreListed'
  <2>1. /\ take_session({s}, Asked) /\ phase[s] = "active"
        /\ UNCHANGED <<leg, files, request, row, saved, edit, orphan, saving, opened, disk>>
    BY <1>2 DEF StopStart, QuitStops, legs, recorder, stops, history, deletion
  <2> QED BY <1>0, <2>1, ListedTaken
<1>3. ASSUME NEW changed \in SUBSET Sources, NEW late \in SUBSET Sources, Rebuild(changed, late)
      PROVE  FilesAreListed'
  <2> DEFINE gone == {r \in unhealthy \cup changed : monitor[r] # 0}
             cut == UNION {ActiveOn(r) : r \in gone}
             why == [s \in Sessions |-> IF source[s] \in broken \cup late THEN "source" ELSE "asked"]
  <2>1. /\ take_session(cut, why)
        /\ UNCHANGED <<leg, files, request, row, saved, edit, orphan, saving, opened, disk>>
    BY <1>3 DEF Rebuild, legs, recorder, stops, history, deletion
  <2>2. cut \in SUBSET Sessions /\ \A s \in cut : phase[s] = "active"
    BY DEF ActiveOn
  <2> HIDE DEF cut, why
  <2> QED BY <1>0, <2>1, <2>2, ListedTaken
<1>4. ASSUME NEW s \in Sessions, NEW p \in Paths, LegFails(s, p) \/ StopLeg(s, p) PROVE FilesAreListed'
  <2>1. /\ leg[s][p] # "off" /\ \E end \in LegStates : leg' = [leg EXCEPT ![s][p] = end]
        /\ UNCHANGED <<phase, files, request, begun, ended, saving, opened, row, saved, edit, orphan>>
    BY <1>4 DEF LegFails, StopLeg, stop_results, Live, dtos, recorder, stops, history, deletion
  <2>2. \A t \in Sessions : \A q \in Paths : leg'[t][q] # "off" => leg[t][q] # "off"
    BY <1>0, <2>1 DEF TypeOK
  <2>3. \A q \in Paths : disk'[q] \in {disk[q], NoSession}
    BY <1>0, <1>4, RemovedIs DEF LegFails, StopLeg
  <2> QED BY <1>0, <2>1, <2>2, <2>3, ListedHolds
<1>5. ASSUME NEW s \in Sessions, NEW p \in Paths, note_leg_failure(s, p) PROVE FilesAreListed'
  <2>1. UNCHANGED <<leg, files, request, row, saved, edit, orphan, saving, opened, disk>>
    BY <1>5 DEF note_leg_failure, legs, recorder, stops, history, deletion
  <2>2. CASE phase[s] = "active"
    <3>1. take_session(IF all_failed(s) THEN {s} ELSE {}, Asked)
      BY <1>5, <2>2 DEF note_leg_failure
    <3> QED BY <1>0, <2>1, <2>2, <3>1, ListedTaken
  <2>3. CASE phase[s] # "active"
    BY <1>1, <1>5, <2>1, <2>3 DEF note_leg_failure, dtos
  <2> QED BY <2>2, <2>3
<1>6. CASE Client
  <2>1. CASE \E s \in Sessions : StopJoin(s)
    BY <1>1, <2>1 DEF StopJoin, dtos, legs, recorder, history, deletion
  <2> QED BY <1>0, <1>2, <1>6, <2>1, ListedStart, ListedStop, ListedDelete DEF Client
<1>7. CASE Environment
  <2>1. CASE \/ \E r \in Sources : MonitorStarts(r) \/ MonitorFails(r)
             \/ Quit
    BY <1>1, <2>1 DEF MonitorStarts, MonitorFails, Quit, dtos, legs, recorder, stops, history, deletion
  <2>2. CASE Restart
    <3>1. /\ \A s \in Sessions : row'[s] # "none" => row[s] # "none"
          /\ UNCHANGED <<phase, leg, files, request, begun, ended, saving, opened, saved, edit, orphan, disk>>
      BY <2>2 DEF Restart, sessions_mark_crashed, dtos, legs, recorder, stops, deletion
    <3> QED BY <1>0, <3>1, ListedHolds
  <2>3. \A s \in Sessions, p \in Paths : ~LegOpensFile(s, p)
    BY DEF LegOpensFile
  <2> QED BY <1>0, <1>3, <1>4, <1>7, <2>1, <2>2, <2>3, ListedProcess DEF Environment, Crash
<1>8. CASE Exit
  BY <1>0, <1>8, ListedProcess DEF Exit
<1>9. ASSUME NEW s \in Sessions, Task(s) PROVE FilesAreListed'
  <2>1. ~RecorderReads(s) /\ ~RecorderWrites(s)
    BY <1>0, ConstantsAssumption DEF RecorderReads, RecorderWrites, NothingSplits
  <2>2. CASE Answer(s)
    BY <1>1, <2>2 DEF Answer, dtos, legs, recorder, history, deletion
  <2> QED BY <1>0, <1>2, <1>4, <1>5, <1>9, <2>1, <2>2, ListedStart, ListedStop DEF Task
<1>10. CASE UNCHANGED vars
  BY <1>1, <1>10 DEF vars, dtos, legs, recorder, stops, history, deletion
<1> QED BY <1>6, <1>7, <1>8, <1>9, <1>10 DEF Next

(* Whatever of a finished session is on disk is in its row, for playing and   *)
(* for deleting: also when a late stop, an insert and a deletion write the    *)
(* row in turns, a write fails, or the node is restarted.                     *)
THEOREM HistoryIsComplete ==
  ASSUME Split = {}
  PROVE  SafetySpec => []HistoryListsFiles
<1>1. Init => FilesAreListed
  <2> SUFFICES ASSUME Init PROVE FilesAreListed
    OBVIOUS
  <2>1. \A s \in Sessions : Has(s) = {} /\ edit.id # s /\ orphan.id # s
    BY ConstantsAssumption DEF Init, Has
  <2> QED BY <2>1 DEF Init, FilesAreListed
<1>2. IInv /\ FilesAreListed /\ [Next]_vars => FilesAreListed'
  BY ListedNext
<1>3. FilesAreListed => HistoryListsFiles
  BY DEF FilesAreListed, HistoryListsFiles, Has
<1> QED BY <1>1, <1>2, <1>3, Invariant, PTL DEF SafetySpec
=========================================================================
