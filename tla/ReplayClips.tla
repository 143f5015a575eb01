----------------------------- MODULE ReplayClips -----------------------------
(* Clips saved from replay buffers, alone or one per angle in a group, and    *)
(* their exports to the media library (api/replay.rs and its tables in        *)
(* db/mod.rs). A clip is a row and a folder of files; an export is a file and *)
(* a row of the library. Clips and groups are numbered as they are made.      *)
EXTENDS Naturals, FiniteSets

CONSTANTS
    Requests,   \* requests under way at a time
    Angles,     \* how many sources a group may have
    MaxClips,   \* bound: clip folders made
    MaxFiles,   \* bound: names tried for an export
    MaxActs,    \* bound: requests
    MaxFaults   \* bound: steps that fail, requests dropped, files people delete

VARIABLES
    rows,       \* replay_clips: records [id, group]
    groups,     \* replay_clip_groups
    dirs,       \* the clips that have a folder
    files,      \* the export folder: whose clip each name holds, or None
    listed,     \* the library: whose clip each path was added for, or None
    reqs,       \* what each request is at
    crossed,    \* two exports have run at once
    made, acts, faults
clipVars == <<rows, groups, dirs>>
exportVars == <<files, listed, crossed>>
vars == <<clipVars, exportVars, reqs, made, acts, faults>>

None == 0
Names == 1..MaxFiles
Ids == 1..MaxClips
Row(id) == CHOOSE row \in rows : row.id = id
Ids_of(g) == {row.id : row \in {x \in rows : x.group = g}}
Idle == [at |-> "idle", want |-> 0, saved |-> {}, group |-> None, listed |-> {}, name |-> None,
         dropped |-> FALSE]
Goes(r, request) == reqs' = [reqs EXCEPT ![r] = request]
At(r, step) == reqs[r].at = step
\* What a blocking step goes on to, unless nobody waits for it any more.
GoesOn(r, request) == Goes(r, IF reqs[r].dropped THEN Idle ELSE request)
Begins(r) == At(r, "idle") /\ acts < MaxActs /\ acts' = acts + 1
Fails == faults < MaxFaults /\ faults' = faults + 1

----------------------------------------------------------------------------
(* Saving                                                                     *)

\* post_clip, post_clip_group: a group has the number of its request.
post_clip(r) ==
    /\ Begins(r) /\ Goes(r, [Idle EXCEPT !.at = "saves", !.want = 1])
    /\ UNCHANGED <<clipVars, exportVars, made, faults>>
post_clip_group(r) ==
    /\ Begins(r) /\ \E n \in Angles : Goes(r, [Idle EXCEPT !.at = "saves", !.want = n, !.group = acts + 1])
    /\ UNCHANGED <<clipVars, exportVars, made, faults>>
\* save_span: the folder is made, or nothing is left of it.
save_span(r) ==
    /\ At(r, "saves") /\ made < MaxClips /\ made' = made + 1 /\ dirs' = dirs \cup {made + 1}
    /\ LET saved == reqs[r].saved \cup {made + 1}
       IN  GoesOn(r, [reqs[r] EXCEPT !.saved = saved,
                                     !.at = IF Cardinality(saved) = reqs[r].want THEN "inserts" ELSE "saves"])
    /\ UNCHANGED <<rows, groups, exportVars, acts, faults>>
SaveFails(r) ==
    /\ At(r, "saves") /\ (Fails \/ (made = MaxClips /\ UNCHANGED faults))
    /\ GoesOn(r, [reqs[r] EXCEPT !.at = "removes"])
    /\ UNCHANGED <<clipVars, exportVars, made, acts>>
\* replay_clip_insert, replay_clip_group_insert: all of them or none.
Inserts(r) ==
    /\ At(r, "inserts")
    /\ rows' = rows \cup {[id |-> id, group |-> reqs[r].group] : id \in reqs[r].saved}
    /\ groups' = groups \cup ({reqs[r].group} \ {None}) /\ Goes(r, Idle)
    /\ UNCHANGED <<dirs, exportVars, made, acts, faults>>
InsertFails(r) ==
    /\ At(r, "inserts") /\ Fails /\ Goes(r, [reqs[r] EXCEPT !.at = "removes"])
    /\ UNCHANGED <<clipVars, exportVars, made, acts>>
remove_clip_dirs(r) ==
    /\ At(r, "removes") /\ dirs' = dirs \ reqs[r].saved /\ Goes(r, Idle)
    /\ UNCHANGED <<rows, groups, exportVars, made, acts, faults>>

----------------------------------------------------------------------------
(* Deleting                                                                   *)

\* mutant: a group stays when its last clip goes.
Never(g) == FALSE
Last(g) == Cardinality(Ids_of(g)) = 1
\* replay_clip_delete, then the folder.
delete_clip(r, id) ==
    /\ Begins(r) /\ id \in {row.id : row \in rows}
    /\ LET g == Row(id).group
       IN  groups' = IF g # None /\ Last(g) THEN groups \ {g} ELSE groups
    /\ rows' = {row \in rows : row.id # id}
    /\ Goes(r, [Idle EXCEPT !.at = "removes", !.saved = {id}])
    /\ UNCHANGED <<dirs, exportVars, made, faults>>
\* A group's clips are read, then they go with it, and their folders.
delete_clip_group(r, g) ==
    /\ Begins(r) /\ Goes(r, [Idle EXCEPT !.at = "deletes", !.saved = Ids_of(g), !.group = g])
    /\ UNCHANGED <<clipVars, exportVars, made, faults>>
replay_clip_group_delete(r) ==
    /\ At(r, "deletes")
    /\ LET g == reqs[r].group
       IN  IF g \in groups
           THEN /\ groups' = groups \ {g} /\ rows' = {row \in rows : row.group # g}
                /\ Goes(r, [reqs[r] EXCEPT !.at = "removes"])
           ELSE Goes(r, Idle) /\ UNCHANGED <<rows, groups>>
    /\ UNCHANGED <<dirs, exportVars, made, acts, faults>>

----------------------------------------------------------------------------
(* Exporting                                                                  *)

\* export_clip: the clip and the library's paths are read, a free name is
\* taken, and its file is added. Every export here asks for the same name.
export_clip(r, id) ==
    /\ Begins(r) /\ id \in {row.id : row \in rows} /\ id \in dirs
    /\ Goes(r, [Idle EXCEPT !.at = "exports", !.saved = {id}, !.listed = {n \in Names : listed[n] # None}])
    /\ crossed' = (crossed \/ \E q \in Requests : reqs[q].at \in {"exports", "adds"})
    /\ UNCHANGED <<clipVars, files, listed, made, faults>>
\* The clip may have been deleted since: its files are then not found.
export(r) ==
    /\ At(r, "exports")
    /\ LET free == {n \in Names : files[n] = None /\ n \notin reqs[r].listed}
           clip == CHOOSE id \in reqs[r].saved : TRUE
       IN  IF free = {} \/ clip \notin dirs THEN Goes(r, Idle) /\ UNCHANGED files
           ELSE LET n == CHOOSE n \in free : \A k \in free : n <= k
                IN  files' = [files EXCEPT ![n] = clip] /\ GoesOn(r, [reqs[r] EXCEPT !.at = "adds", !.name = n])
    /\ UNCHANGED <<clipVars, listed, crossed, made, acts, faults>>
add_media(r) ==
    /\ At(r, "adds")
    /\ LET n == reqs[r].name
       IN  listed' = IF listed[n] = None THEN [listed EXCEPT ![n] = CHOOSE id \in reqs[r].saved : TRUE] ELSE listed
    /\ Goes(r, Idle) /\ UNCHANGED <<clipVars, files, crossed, made, acts, faults>>
media_delete(n) ==
    /\ listed[n] # None /\ acts < MaxActs /\ acts' = acts + 1 /\ listed' = [listed EXCEPT ![n] = None]
    /\ UNCHANGED <<clipVars, files, crossed, reqs, made, faults>>
\* People delete an export's file; the library still lists it, as missing.
FileGone(n) ==
    /\ files[n] # None /\ Fails /\ files' = [files EXCEPT ![n] = None]
    /\ (\A r \in Requests : reqs[r].at # "adds")
    /\ UNCHANGED <<clipVars, listed, crossed, reqs, made, acts>>
\* Whoever asked goes away: the request ends where it is, but for what a
\* blocking thread does for it, which goes on: the save, the export, or the
\* folder it has come to of those it removes.
Dropped(r) ==
    /\ ~At(r, "idle") /\ ~reqs[r].dropped /\ Fails
    /\ \/ Goes(r, Idle)
       \/ reqs[r].at \in {"saves", "exports"} /\ Goes(r, [reqs[r] EXCEPT !.dropped = TRUE])
       \/ At(r, "removes") /\ \E some \in SUBSET reqs[r].saved :
             Goes(r, [reqs[r] EXCEPT !.dropped = TRUE, !.saved = some])
    /\ UNCHANGED <<clipVars, exportVars, made, acts>>

Init ==
    /\ rows = {} /\ groups = {} /\ dirs = {} /\ files = [n \in Names |-> None] /\ listed = [n \in Names |-> None]
    /\ reqs = [r \in Requests |-> Idle] /\ crossed = FALSE /\ made = 0 /\ acts = 0 /\ faults = 0
Next ==
    \/ \E r \in Requests :
          \/ post_clip(r) \/ post_clip_group(r) \/ save_span(r) \/ SaveFails(r) \/ Inserts(r) \/ InsertFails(r)
          \/ remove_clip_dirs(r) \/ replay_clip_group_delete(r) \/ export(r) \/ add_media(r) \/ Dropped(r)
          \/ \E id \in Ids : delete_clip(r, id) \/ export_clip(r, id)
          \/ \E g \in groups : delete_clip_group(r, g)
    \/ \E n \in Names : media_delete(n) \/ FileGone(n)
Spec == Init /\ [][Next]_vars

----------------------------------------------------------------------------
\* A clip that is listed has its files, whatever is deleted beside it.
ClipsHaveFiles == \A row \in rows : row.id \in dirs

\* A group is there just while it has clips: it is saved whole, and goes with
\* its last.
GroupsHaveClips == groups = {row.group : row \in rows} \ {None}

\* A folder is a clip's, or of one being saved or removed, unless its request
\* was dropped or failed midway.
FoldersAreClips ==
    faults = 0 => dirs \subseteq {row.id : row \in rows}
                         \cup UNION {reqs[r].saved : r \in {q \in Requests : reqs[q].at \in {"saves", "inserts", "removes"}}}

\* What the library lists as a clip's export is that clip's file, or missing,
\* unless two exports ran at once.
ExportsAreOwn == ~crossed => \A n \in Names : listed[n] # None /\ files[n] # None => files[n] = listed[n]
=============================================================================
