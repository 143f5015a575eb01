------------------------------- MODULE Markers -------------------------------
(* Marking a recording (api/node.rs, sources/manager.rs, db/mod.rs). An       *)
(* active session's markers are kept in memory and each change is then        *)
(* written to its row; once it has ended they are read from the rows. Markers *)
(* are numbered as they are made, which is the order of their created_at.     *)
EXTENDS Naturals, Sequences, FiniteSets, SequencesExt

CONSTANTS
    Times,      \* where in the recording
    Notes, Colors, \* what a marker's note and colour are changed to
    Requests,   \* requests under way at a time
    MaxMarkers, \* bound: markers made
    MaxActs,    \* bound: changes of markers
    MaxFaults   \* bound: requests dropped midway, and crashes

VARIABLES
    phase,      \* the session is active, has ended, or was removed
    list,       \* its markers; those of one that has ended, as changes one by one leave them
    rows,       \* recording_markers of the session
    reqs,       \* what each request is at
    mixed,      \* markers two requests changed at once, or one did in part
    made, acts, faults
vars == <<phase, list, rows, reqs, mixed, made, acts, faults>>

None == 0
Marker == [id : 1..MaxMarkers, at : Times, note : Notes \cup {None}, color : Colors \cup {None}]
\* What a change gives of the note and the colour, or leaves as it is.
Same == 99
Updates == [note : Notes \cup {Same}, color : Colors \cup {Same}]
Blank == [id |-> None, at |-> None, note |-> None, color |-> None]
Idle == [step |-> "idle", id |-> None, marker |-> Blank, update |-> [note |-> Same, color |-> Same]]
Ids(markers) == {m.id : m \in markers}
Where(i) == {k \in 1..Len(list) : list[k].id = i}
Goes(r, request) == reqs' = [reqs EXCEPT ![r] = request]
At(r, step) == reqs[r].step = step
\* A request begins; those at the same marker are no longer one by one.
Begins(r, request) ==
    /\ At(r, "idle") /\ Goes(r, request)
    /\ mixed' = IF \E q \in Requests : reqs[q].id = request.id THEN mixed \cup {request.id} ELSE mixed
    /\ UNCHANGED <<phase, rows, faults>>
Acts == acts < MaxActs /\ acts' = acts + 1 /\ UNCHANGED made

apply_marker_update(m, u) ==
    [m EXCEPT !.note = IF u.note = Same THEN @ ELSE u.note, !.color = IF u.color = Same THEN @ ELSE u.color]

----------------------------------------------------------------------------
\* mutant: a marker comes before those at the same time.
First(m) == Len(SelectSeq(list, LAMBDA x : x.at < m.at)) + 1
Place(m) == Len(SelectSeq(list, LAMBDA x : x.at <= m.at)) + 1
post_marker(r, at) ==
    /\ phase = "active" /\ made < MaxMarkers /\ made' = made + 1 /\ UNCHANGED acts
    /\ LET m == [Blank EXCEPT !.id = made + 1, !.at = at]
       IN  /\ list' = InsertAt(list, Place(m), m)
           /\ Begins(r, [Idle EXCEPT !.step = "inserts", !.id = m.id, !.marker = m])
marker_insert(r) ==
    /\ At(r, "inserts") /\ rows' = rows \cup {reqs[r].marker} /\ Goes(r, Idle)
    /\ UNCHANGED <<phase, list, mixed, made, acts, faults>>

\* An active session's marker is changed in memory; another's row is read, and
\* all it says is written back.
patch_marker(r, i, u) ==
    /\ phase # "removed" /\ Acts
    /\ LET changed == [k \in 1..Len(list) |-> IF k \in Where(i) THEN apply_marker_update(list[k], u) ELSE list[k]]
       IN  /\ list' = changed
           /\ Begins(r, [step |-> IF phase = "active" /\ Where(i) # {} THEN "updates" ELSE "reads", id |-> i, update |-> u,
                         marker |-> IF phase = "active" /\ Where(i) # {} THEN changed[CHOOSE k \in Where(i) : TRUE] ELSE Blank])
Reads(r) ==
    /\ At(r, "reads")
    /\ LET found == {m \in rows : m.id = reqs[r].id}
       IN  Goes(r, IF phase = "removed" \/ found = {} THEN Idle
                   ELSE [reqs[r] EXCEPT !.step = "updates",
                                        !.marker = apply_marker_update(CHOOSE m \in found : TRUE, reqs[r].update)])
    /\ UNCHANGED <<phase, list, rows, mixed, made, acts, faults>>
marker_update(r) ==
    /\ At(r, "updates") /\ Goes(r, Idle)
    /\ rows' = IF reqs[r].id \in Ids(rows) THEN {m \in rows : m.id # reqs[r].id} \cup {reqs[r].marker} ELSE rows
    /\ UNCHANGED <<phase, list, mixed, made, acts, faults>>

delete_marker(r, i) ==
    /\ phase # "removed" /\ Acts
    /\ list' = SelectSeq(list, LAMBDA m : m.id # i) /\ Begins(r, [Idle EXCEPT !.step = "deletes", !.id = i])
marker_delete(r) ==
    /\ At(r, "deletes") /\ rows' = {m \in rows : m.id # reqs[r].id} /\ Goes(r, Idle)
    /\ UNCHANGED <<phase, list, mixed, made, acts, faults>>

\* The recording is stopped, and later removed from history with its markers.
Stopped == phase = "active" /\ phase' = "ended" /\ UNCHANGED <<list, rows, reqs, mixed, made, acts, faults>>
session_delete ==
    /\ phase = "ended" /\ phase' = "removed" /\ rows' = {}
    /\ UNCHANGED <<list, reqs, mixed, made, acts, faults>>
Fails == faults < MaxFaults /\ faults' = faults + 1 /\ UNCHANGED <<list, rows, made, acts>>
\* Whoever asked goes away: the request ends where it is.
Dropped(r) ==
    /\ ~At(r, "idle") /\ Fails /\ Goes(r, Idle) /\ mixed' = mixed \cup {reqs[r].id} /\ UNCHANGED phase
\* The node is killed: a session that was active has ended, by its row.
Crash ==
    /\ Fails /\ phase = "active" /\ phase' = "ended" /\ reqs' = [r \in Requests |-> Idle]
    /\ mixed' = mixed \cup ({reqs[r].id : r \in Requests} \ {None})

Init ==
    /\ phase = "active" /\ list = <<>> /\ rows = {} /\ reqs = [r \in Requests |-> Idle] /\ mixed = {}
    /\ made = 0 /\ acts = 0 /\ faults = 0
Next ==
    \/ \E r \in Requests :
          \/ \E at \in Times : post_marker(r, at)
          \/ \E i \in 1..made : delete_marker(r, i) \/ \E u \in Updates : patch_marker(r, i, u)
          \/ marker_insert(r) \/ Reads(r) \/ marker_update(r) \/ marker_delete(r) \/ Dropped(r)
    \/ Stopped \/ session_delete \/ Crash
Spec == Init /\ [][Next]_vars

----------------------------------------------------------------------------
\* What is kept are markers, each once.
TypeOK == rows \subseteq Marker /\ \A m, n \in rows : m.id = n.id => m = n

\* A recording's history lists the markers it had while it ran, in the same
\* order, with the changes made then and since: all but those two requests
\* changed at once, or one did not finish with.
MarkersAreKept ==
    LET open == mixed \cup {reqs[r].id : r \in Requests}
        Before(m, n) == m.at < n.at \/ (m.at = n.at /\ m.id < n.id)
    IN  phase # "removed" =>
          SetToSortSeq({m \in rows : m.id \notin open}, Before) = SelectSeq(list, LAMBDA m : m.id \notin open)
=============================================================================
