----------------------------- MODULE Thumbnails -----------------------------
(* The thumbnail sockets (thumbnails.rs, controller/peer_ws.rs): a client of  *)
(* a controller says which sources it shows, the controller sends its own     *)
(* sources' new frames and passes on those of a peer, to which it keeps one   *)
(* socket while the client shows a source of it. A frame is its number.       *)
EXTENDS Naturals, Sequences, SequencesExt

CONSTANTS
    Own, Theirs,  \* sources of the controller and of the peer
    Subs,         \* what clients ask for: sets of sources
    PeerBuffer,   \* PEER_BUFFER
    Cap,          \* what a socket takes before its sender waits
    MaxFrames, MaxFaults \* bounds: frames, and what clients ask and what goes wrong

VARIABLES
    thumb,    \* each source's ThumbnailStore: a set of one frame or none
    made,     \* NEXT_THUMBNAIL, of all nodes
    early,    \* sources whose frame came before the manager listed its monitor
    inbox, local, pending, unseen, sending, out, \* `serve`, by socket
    task, told, untold, \* the controller's task for the peer, and its subscription
    passed,   \* peer_rx
    lost,     \* sources of which a frame was dropped that no newer one followed
    other,    \* the peer runs another version
    wanted, shown, \* what the client asked for last, and the frames it has
    faults

vars == <<thumb, made, early, inbox, local, pending, unseen, sending, out, task, told, untold, passed, lost, other,
          wanted, shown, faults>>

Sources == Own \cup Theirs
Sockets == {"client", "peer"}
Of(s) == IF s = "client" THEN Own ELSE Theirs
Watched(s) == DOMAIN local[s]
\* A socket's task that waits for a send does nothing else meanwhile.
Free(s) == sending[s] = <<>> /\ (s = "peer" => task = "on")
Put(f, s, v) == [f EXCEPT ![s] = v]

Init ==
    /\ thumb = [src \in Sources |-> {}] /\ made = 0 /\ early = {}
    /\ inbox = [s \in Sockets |-> <<>>] /\ local = [s \in Sockets |-> <<>>]
    /\ pending = [s \in Sockets |-> FALSE] /\ unseen = [s \in Sockets |-> FALSE]
    /\ sending = [s \in Sockets |-> <<>>] /\ out = [s \in Sockets |-> <<>>]
    /\ task = "none" /\ told = {} /\ untold = FALSE /\ passed = <<>> /\ lost = {} /\ other = FALSE
    /\ wanted = {} /\ shown = [src \in Sources |-> 0] /\ faults = 0

----------------------------------------------------------------------------
(* The sources                                                                *)

Wake(src) == unseen' = [s \in Sockets |-> unseen[s] \/ src \in Of(s)]
\* A monitor stores a frame, numbered, and wakes the sockets of its node.
store(src) ==
    /\ made < MaxFrames /\ made' = made + 1
    /\ thumb' = [thumb EXCEPT ![src] = {made + 1}] /\ early' = early \ {src} /\ Wake(src)
    /\ UNCHANGED <<inbox, local, pending, sending, out, task, told, untold, passed, lost, other, wanted, shown, faults>>
\* Its monitor goes, or its thumbnail is hidden.
clear(src) ==
    /\ thumb[src] # {} /\ thumb' = [thumb EXCEPT ![src] = {}] /\ early' = early \ {src}
    /\ UNCHANGED <<made, inbox, local, pending, unseen, sending, out, task, told, untold, passed, lost, other, wanted,
                   shown, faults>>
\* A monitor is listed that has stored a frame while it was being started.
Listed(src) ==
    /\ thumb[src] = {} /\ made < MaxFrames /\ faults < MaxFaults
    /\ faults' = faults + 1 /\ made' = made + 1
    /\ thumb' = [thumb EXCEPT ![src] = {made + 1}] /\ early' = early \cup {src}
    /\ UNCHANGED <<inbox, local, pending, unseen, sending, out, task, told, untold, passed, lost, other, wanted, shown>>

----------------------------------------------------------------------------
(* serve, of the client's socket and, on the peer, of the controller's        *)

\* mutant: a socket that waited for a change goes on waiting for the next.
Rewatch(s, ids) ==
    /\ local' = Put(local, s, [src \in ids |-> IF src \in Watched(s) THEN local[s][src] ELSE 0])
    /\ pending' = Put(pending, s, pending[s] /\ ids # {})
\* A subscription replaces the last; what is still watched isn't sent again.
Watch(s, ids) ==
    /\ local' = Put(local, s, [src \in ids |-> IF src \in Watched(s) THEN local[s][src] ELSE 0])
    /\ pending' = Put(pending, s, ids # {})
\* Peers::set: the peer's socket goes, comes, or is to be told of a change.
set(ids) ==
    /\ told' = ids
    /\ IF ids = {} THEN /\ task' = "none" /\ untold' = FALSE /\ lost' = {}
                        /\ inbox' = [inbox EXCEPT !["client"] = Tail(@), !["peer"] = <<>>]
                        /\ out' = Put(out, "peer", <<>>) /\ sending' = Put(sending, "peer", <<>>)
       ELSE /\ task' = IF task = "none" THEN "connecting" ELSE task
            /\ untold' = (task # "none" /\ (untold \/ told # ids)) /\ UNCHANGED lost
            /\ inbox' = [inbox EXCEPT !["client"] = Tail(@)] /\ UNCHANGED <<out, sending>>
Subscribed(s) ==
    /\ Free(s) /\ inbox[s] # <<>>
    /\ Watch(s, Head(inbox[s]) \cap Of(s))
    /\ IF s = "client" THEN set(Head(inbox[s]) \cap Theirs)
       ELSE inbox' = Put(inbox, s, Tail(inbox[s])) /\ UNCHANGED <<task, told, untold, lost, out, sending>>
    /\ UNCHANGED <<thumb, made, early, unseen, passed, other, wanted, shown, faults>>
Woken(s) ==
    /\ Free(s) /\ unseen[s] /\ ~pending[s] /\ Watched(s) # {}
    /\ unseen' = Put(unseen, s, FALSE) /\ pending' = Put(pending, s, TRUE)
    /\ UNCHANGED <<thumb, made, early, inbox, local, sending, out, task, told, untold, passed, lost, other, wanted, shown,
                   faults>>
\* The time for the next frames has come: all that are new, one after another.
New(s) == {src \in Watched(s) : thumb[src] # {} /\ local[s][src] \notin thumb[src]}
Due(s) ==
    /\ Free(s) /\ pending[s] /\ pending' = Put(pending, s, FALSE)
    /\ \E order \in SetToSeqs(New(s)) :
          sending' = Put(sending, s, [i \in DOMAIN order |-> <<order[i], CHOOSE n \in thumb[order[i]] : TRUE>>])
    /\ UNCHANGED <<thumb, made, early, inbox, local, unseen, out, task, told, untold, passed, lost, other, wanted, shown,
                   faults>>
\* One frame goes out once the socket takes it.
Sends(s) ==
    /\ sending[s] # <<>> /\ Len(out[s]) < Cap
    /\ LET frame == Head(sending[s])  src == frame[1]
       IN  /\ out' = Put(out, s, Append(out[s], frame)) /\ sending' = Put(sending, s, Tail(sending[s]))
           /\ local' = IF src \in Watched(s) THEN [local EXCEPT ![s][src] = frame[2]] ELSE local
    /\ UNCHANGED <<thumb, made, early, inbox, pending, unseen, task, told, untold, passed, lost, other, wanted, shown,
                   faults>>
\* A peer's frame is passed on as it came.
PassesOn ==
    /\ Free("client") /\ passed # <<>> /\ Len(out["client"]) < Cap
    /\ out' = Put(out, "client", Append(out["client"], Head(passed))) /\ passed' = Tail(passed)
    /\ UNCHANGED <<thumb, made, early, inbox, local, pending, unseen, sending, task, told, untold, lost, other, wanted,
                   shown, faults>>

----------------------------------------------------------------------------
(* The controller's task for its peer (run, relay)                            *)

\* A new connection needs the subscription, whether or not it changed.
connect ==
    /\ task = "connecting" /\ task' = "on" /\ untold' = TRUE /\ lost' = {}
    /\ local' = Put(local, "peer", <<>>) /\ inbox' = Put(inbox, "peer", <<>>)
    /\ pending' = Put(pending, "peer", FALSE) /\ unseen' = Put(unseen, "peer", FALSE)
    /\ out' = Put(out, "peer", <<>>) /\ sending' = Put(sending, "peer", <<>>)
    /\ UNCHANGED <<thumb, made, early, told, passed, other, wanted, shown, faults>>
Tells ==
    /\ task = "on" /\ untold /\ untold' = FALSE /\ inbox' = Put(inbox, "peer", Append(inbox["peer"], told))
    /\ UNCHANGED <<thumb, made, early, local, pending, unseen, sending, out, task, told, passed, lost, other, wanted, shown,
                   faults>>
\* It passes on a frame, unless the peer's version is another or the client is
\* slow to take them.
relay ==
    /\ task = "on" /\ out["peer"] # <<>> /\ out' = Put(out, "peer", Tail(out["peer"]))
    /\ LET frame == Head(out["peer"])  takes == ~other /\ Len(passed) < PeerBuffer
       IN  /\ passed' = IF takes THEN Append(passed, frame) ELSE passed
           /\ lost' = IF takes THEN lost \ {frame[1]} ELSE lost \cup {frame[1]}
    /\ UNCHANGED <<thumb, made, early, inbox, local, pending, unseen, sending, task, told, untold, other, wanted, shown,
                   faults>>
\* The connection ends, and is tried again after RETRY.
Breaks ==
    /\ task = "on" /\ faults < MaxFaults /\ faults' = faults + 1 /\ task' = "connecting"
    /\ UNCHANGED <<thumb, made, early, inbox, local, pending, unseen, sending, out, told, untold, passed, lost, other,
                   wanted, shown>>
\* The health check finds the peer updated, or back.
VersionSeen ==
    /\ faults < MaxFaults /\ faults' = faults + 1 /\ other' = ~other
    /\ UNCHANGED <<thumb, made, early, inbox, local, pending, unseen, sending, out, task, told, untold, passed, lost,
                   wanted, shown>>

----------------------------------------------------------------------------
(* The client                                                                 *)

Asks(ids) ==
    /\ ids # wanted /\ inbox["client"] = <<>> /\ faults < MaxFaults /\ faults' = faults + 1
    /\ wanted' = ids /\ inbox' = Put(inbox, "client", <<ids>>)
    /\ UNCHANGED <<thumb, made, early, local, pending, unseen, sending, out, task, told, untold, passed, lost, other, shown>>
Shows ==
    /\ out["client"] # <<>> /\ out' = Put(out, "client", Tail(out["client"]))
    /\ shown' = Put(shown, Head(out["client"])[1], Head(out["client"])[2])
    /\ UNCHANGED <<thumb, made, early, inbox, local, pending, unseen, sending, task, told, untold, passed, lost, other,
                   wanted, faults>>

Next ==
    \/ \E src \in Sources : store(src) \/ clear(src) \/ Listed(src)
    \/ \E s \in Sockets : Subscribed(s) \/ Woken(s) \/ Due(s) \/ Sends(s)
    \/ PassesOn \/ connect \/ Tells \/ relay \/ Breaks \/ VersionSeen
    \/ \E ids \in Subs : Asks(ids)
    \/ Shows
Spec == Init /\ [][Next]_vars

----------------------------------------------------------------------------
(* Properties                                                                 *)

\* No socket, message or frame is under way, nor a change to be seen.
Quiet(s) == inbox[s] = <<>> /\ out[s] = <<>> /\ sending[s] = <<>> /\ ~pending[s] /\ ~(unseen[s] /\ Watched(s) # {})
\* What a client asked for last is what each node sends it, through every
\* change of mind, reconnection and other client's message under way.
SubscriptionIsFollowed ==
    inbox["client"] = <<>> =>
        /\ Watched("client") = wanted \cap Own
        /\ task = "none" <=> wanted \cap Theirs = {}
        /\ task = "on" /\ ~untold /\ inbox["peer"] = <<>> => Watched("peer") = wanted \cap Theirs
\* Once nothing more is under way, the client shows the newest frame of each
\* source it watches, unless one was dropped since as the client was too slow or
\* the peer another version, or the frame came before its monitor was listed.
NewestIsShown ==
    Quiet("client") =>
        /\ \A src \in Watched("client") \ early : thumb[src] \subseteq {shown[src]}
        /\ Quiet("peer") /\ passed = <<>> /\ task = "on" /\ ~untold =>
              \A src \in Watched("peer") \ (early \cup lost) : thumb[src] \subseteq {shown[src]}
\* A client is never shown a frame older than one it was: whatever is on its
\* way to it comes in the order it was made, over old connections and new.
InOrder ==
    \A src \in Sources :
        LET way == out["client"] \o (IF src \in Own THEN sending["client"] ELSE passed \o out["peer"] \o sending["peer"])
            line == <<shown[src]>> \o [i \in DOMAIN SelectSeq(way, LAMBDA f : f[1] = src) |->
                                          SelectSeq(way, LAMBDA f : f[1] = src)[i][2]]
        IN  \A i \in DOMAIN line : i > 1 => line[i - 1] <= line[i]
=============================================================================
