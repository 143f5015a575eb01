------------------------------- MODULE Library -------------------------------
(* The media library, and the playlists channels play from it (api/media.rs,  *)
(* api/playout.rs, and their tables in db/mod.rs). A playlist is stored, then *)
(* read back and handed to the channel's transport: each request is a         *)
(* sequence of steps that others' come between. Each statement or transaction *)
(* of the database is one step. Of an item only its media entry is kept.      *)
EXTENDS Naturals, Sequences, FiniteSets, SequencesExt

CONSTANTS
    Channels,   \* playout channels
    Paths,      \* media files
    Playlists,  \* the lists of entries a channel may be given
    Requests,   \* requests under way at a time
    MaxAdds,    \* bound: entries added to the library
    MaxActs,    \* bound: requests, and changes of channels
    MaxFaults   \* bound: requests dropped midway

VARIABLES
    media,      \* the rows of media: records [id, path]
    stored,     \* each channel's rows of playlist_items, in order
    configured, \* the channels there is a configured source for
    running,    \* those the source manager has
    list,       \* each transport's items, or Unread
    made,       \* how many transports each channel has had
    reqs,       \* what each request is at
    loose,      \* channels whose transport may have been left an older list
    added, acts, faults
vars == <<media, stored, configured, running, list, made, reqs, loose, added, acts, faults>>
rowVars == <<media, stored, added>>
channelVars == <<configured, running, made>>

Unread == <<0>>
Ids == 1..MaxAdds
Known == {m.id : m \in media}
Idle == [at |-> "idle", channel |-> "none", of |-> 0, items |-> <<>>, rows |-> <<>>, left |-> {}, next |-> "idle", late |-> FALSE]
Busy(r) == reqs[r].at # "idle"
Goes(r, request) == reqs' = [reqs EXCEPT ![r] = request]

Begins(r, request) ==
    /\ ~Busy(r) /\ acts < MaxActs /\ acts' = acts + 1 /\ Goes(r, request)
    /\ UNCHANGED <<rowVars, channelVars, list, loose, faults>>
\* Lists change in the database: who has read them before has them old.
Late(r, request, changed) ==
    reqs' = [q \in Requests |-> IF q = r THEN request
                ELSE IF reqs[q].at = "sets" /\ reqs[q].channel \in changed THEN [reqs[q] EXCEPT !.late = TRUE]
                ELSE reqs[q]]
\* Channels whose lists the request has changed and not yet handed over.
Owes(r) ==
    reqs[r].left \cup (IF reqs[r].at \in {"reads", "sets"} /\ reqs[r].next \in {"answers", "reloads"}
                       THEN {reqs[r].channel} ELSE {})
\* playout: the channel's transport, its playlist read in if it isn't yet.
On(c, request) ==
    [request EXCEPT !.channel = c, !.of = made[c],
                    !.at = IF list[c] = Unread THEN "reads" ELSE request.next]

get_channel(r, c) == c \in running /\ list[c] = Unread /\ Begins(r, On(c, Idle))
put_playlist(r, c, items) ==
    c \in running /\ Begins(r, On(c, [Idle EXCEPT !.items = items, !.next = "checks"]))
Checks(r) ==
    /\ reqs[r].at = "checks"
    /\ Goes(r, IF Range(reqs[r].items) \subseteq Known THEN [reqs[r] EXCEPT !.at = "stores"] ELSE Idle)
    /\ UNCHANGED <<rowVars, channelVars, list, loose, acts, faults>>
\* playlist_set: it fails where an entry has gone from the library meanwhile.
Stores(r) ==
    /\ reqs[r].at = "stores"
    /\ IF Range(reqs[r].items) \subseteq Known
       THEN /\ stored' = [stored EXCEPT ![reqs[r].channel] = reqs[r].items]
            /\ Late(r, [reqs[r] EXCEPT !.at = "reads", !.next = "answers"], {reqs[r].channel})
       ELSE Goes(r, Idle) /\ UNCHANGED stored
    /\ UNCHANGED <<media, added, channelVars, list, loose, acts, faults>>

\* reload_playlist: the rows are read, then handed to the transport.
Reads(r) ==
    /\ reqs[r].at = "reads"
    /\ Goes(r, [reqs[r] EXCEPT !.at = "sets", !.rows = stored[reqs[r].channel], !.late = FALSE])
    /\ UNCHANGED <<rowVars, channelVars, list, loose, acts, faults>>
\* mutant: the items asked for are handed over, not those stored.
AsAsked(r) == reqs[r].items
Read(r) == reqs[r].rows
Sets(r) ==
    /\ reqs[r].at = "sets"
    /\ LET c == reqs[r].channel  now == made[c] = reqs[r].of
       IN  /\ list' = IF now THEN [list EXCEPT ![c] = Read(r)] ELSE list
           /\ Goes(r, IF reqs[r].next \in {"idle", "answers"} THEN Idle
                      ELSE [reqs[r] EXCEPT !.at = reqs[r].next, !.rows = <<>>])
           /\ loose' = IF now /\ ~reqs[r].late THEN loose \ {c}
                       ELSE IF now \/ (c \in Owes(r) /\ list[c] # Unread) THEN loose \cup {c} ELSE loose
    /\ UNCHANGED <<rowVars, channelVars, acts, faults>>

\* An entry is added once; a file is known by its path.
add_media(path) ==
    /\ path \notin {m.path : m \in media} /\ added < MaxAdds /\ added' = added + 1
    /\ media' = media \cup {[id |-> added + 1, path |-> path]}
    /\ UNCHANGED <<stored, channelVars, list, reqs, loose, acts, faults>>
\* The channels that use it are looked up, then it goes with its items.
delete_media(r, id) ==
    Begins(r, [Idle EXCEPT !.at = "deletes", !.items = <<id>>, !.left = {c \in Channels : id \in Range(stored[c])}])
media_delete(r) ==
    /\ reqs[r].at = "deletes"
    /\ LET id == reqs[r].items[1]
           using == {c \in Channels : id \in Range(stored[c])}
       IN  IF id \in Known
           THEN /\ media' = {m \in media : m.id # id}
                /\ stored' = [c \in Channels |-> SelectSeq(stored[c], LAMBDA i : i # id)]
                /\ Late(r, [reqs[r] EXCEPT !.at = "reloads"], using)
                /\ loose' = loose \cup (using \ reqs[r].left)
           ELSE Goes(r, Idle) /\ UNCHANGED <<media, stored, loose>>
    /\ UNCHANGED <<added, channelVars, list, acts, faults>>
Reloads(r) ==
    /\ reqs[r].at = "reloads"
    /\ LET left == reqs[r].left
       IN  \/ /\ left = {} /\ Goes(r, Idle)
           \/ \E c \in left :
                 LET rest == [reqs[r] EXCEPT !.left = left \ {c}]
                 IN  Goes(r, IF c \notin running THEN rest
                             ELSE [rest EXCEPT !.at = "reads", !.channel = c, !.of = made[c], !.next = "reloads"])
    /\ UNCHANGED <<rowVars, channelVars, list, loose, acts, faults>>

----------------------------------------------------------------------------
(* Channels                                                                   *)

\* configured_source_delete: a channel's row goes with its playlist's.
configured_source_delete(c) ==
    /\ c \in configured /\ acts < MaxActs /\ acts' = acts + 1
    /\ configured' = configured \ {c} /\ stored' = [stored EXCEPT ![c] = <<>>]
    /\ loose' = loose \cup {c} /\ Late(0, Idle, {c})
    /\ UNCHANGED <<media, added, running, made, list, faults>>
\* A rebuild drops what isn't configured, and makes a changed channel anew.
Rebuilt(c) ==
    /\ c \in running /\ made' = [made EXCEPT ![c] = @ + 1] /\ list' = [list EXCEPT ![c] = Unread]
    /\ IF c \in configured THEN acts < MaxActs /\ acts' = acts + 1 /\ UNCHANGED running
       ELSE running' = running \ {c} /\ UNCHANGED acts
    /\ UNCHANGED <<rowVars, configured, reqs, loose, faults>>
\* Whoever asked goes away: the request ends where it is.
Dropped(r) ==
    /\ Busy(r) /\ faults < MaxFaults /\ faults' = faults + 1
    /\ Goes(r, Idle) /\ loose' = loose \cup Owes(r)
    /\ UNCHANGED <<rowVars, channelVars, list, acts>>

Init ==
    /\ media = {} /\ stored = [c \in Channels |-> <<>>] /\ added = 0
    /\ configured = Channels /\ running = Channels /\ made = [c \in Channels |-> 1]
    /\ list = [c \in Channels |-> Unread] /\ reqs = [r \in Requests |-> Idle] /\ loose = {}
    /\ acts = 0 /\ faults = 0
Next ==
    \/ \E path \in Paths : add_media(path)
    \/ \E r \in Requests :
          \/ \E c \in Channels : get_channel(r, c) \/ \E items \in Playlists : put_playlist(r, c, items)
          \/ \E id \in Ids : delete_media(r, id)
          \/ Checks(r) \/ Stores(r) \/ Reads(r) \/ Sets(r) \/ media_delete(r) \/ Reloads(r) \/ Dropped(r)
    \/ \E c \in Channels : configured_source_delete(c) \/ Rebuilt(c)
Spec == Init /\ [][Next]_vars

----------------------------------------------------------------------------
\* Each file is in the library once, and a playlist has only what is in it.
TypeOK ==
    /\ \A m, n \in media : m.path = n.path => m = n
    /\ \A c \in Channels : Range(stored[c]) \subseteq Known

\* What a channel plays is what is stored, once no request is under way: an
\* entry that was deleted is in no transport's list, and a rebuilt channel plays
\* the list it had.  An older list is left in place only if the stored one
\* changed, by another request, after it was read for the transport, or by a
\* deletion that looked for channels before; if the channel was rebuilt while its
\* list changed; or if the request that changed it was dropped.
ListIsStored ==
    (\A r \in Requests : ~Busy(r)) =>
        \A c \in running \ loose : list[c] # Unread => list[c] = stored[c]
=============================================================================
