------------------------------ MODULE LiveInput ------------------------------
(* The bin of a live source whose publishers come and go                      *)
(* (src/node/src/sources/live.rs, whip.rs): each publisher's pads get input   *)
(* chains of their own into the bin's compositor and mixer, taken out again   *)
(* on threads while the source may be pushing into them, and the source is    *)
(* restarted for the next.  The output's format is the first real frame's.    *)
EXTENDS Naturals, FiniteSets

CONSTANTS
    Formats,      \* what a publisher may send
    MaxSessions, MaxBuilds

VARIABLES
    port,         \* the gate's TCP port: "held" by the source replaced, "free", "bound"
    upstream,     \* the loopback port (bin) the gate passes requests to
    bin,          \* the bin that runs, by number; its server listens on its port
    src,          \* the source: "ready", "serving", "spent" or "null"
    publisher,    \* "none", "asks", "on", or "left": what it sends
    session, sends,
    pads,         \* the source's pads
    chains,       \* input chains: [pad, session, caps, at], where at first "new"
    blocked,      \* pads whose thread waits in an aggregator
    restarts,     \* threads that restart the source
    locked, pre, out,
    shown         \* the session's video has a chain
vars == <<port, upstream, bin, src, publisher, session, sends, pads, chains, blocked,
          restarts, locked, pre, out, shown>>

Pads == {"video", "audio"}
Any == "any"
Chain(p) == {c \in chains : c.pad = p /\ c.at = "in"}

----------------------------------------------------------------------------
(* The gate and the bin *)

\* Gate::start: the port is tried until it binds.
Bind ==
    /\ port = "free" /\ port' = "bound"
    /\ UNCHANGED <<upstream, bin, src, publisher, session, sends, pads, chains, blocked, restarts, locked, pre, out, shown>>
\* The source that is replaced is dropped, and its gate with it.
OldDropped ==
    /\ port = "held" /\ port' = "free"
    /\ UNCHANGED <<upstream, bin, src, publisher, session, sends, pads, chains, blocked, restarts, locked, pre, out, shown>>

\* build_bin, for another monitor: the gate passes on to the new one.
build_bin ==
    /\ bin < MaxBuilds
    /\ bin' = bin + 1 /\ upstream' = bin'
    /\ src' = "ready" /\ pads' = {} /\ chains' = {} /\ blocked' = {} /\ restarts' = 0
    /\ locked' = FALSE /\ pre' = Any /\ out' = Any /\ shown' = FALSE
    /\ publisher' = IF publisher \in {"on", "left"} THEN "none" ELSE publisher
    /\ UNCHANGED <<port, session, sends>>

Asks ==
    /\ publisher = "none" /\ session < MaxSessions
    /\ publisher' = "asks"
    /\ UNCHANGED <<port, upstream, bin, src, session, sends, pads, chains, blocked, restarts, locked, pre, out, shown>>
\* forward, and the server: one session from one start of the element.
forward ==
    /\ publisher = "asks" /\ port = "bound" /\ upstream = bin /\ src = "ready"
    /\ publisher' = "on" /\ src' = "serving" /\ session' = session + 1
    /\ sends' \in Formats /\ shown' = FALSE
    /\ UNCHANGED <<port, upstream, bin, pads, chains, blocked, restarts, locked, pre, out>>
\* Whatever it published: video, audio, both, or nothing as yet.
Leaves ==
    /\ publisher = "on" /\ src' = "spent"
    /\ publisher' = IF pads = {} THEN "none" ELSE "left"
    /\ UNCHANGED <<port, upstream, bin, session, sends, pads, chains, blocked, restarts, locked, pre, out, shown>>

----------------------------------------------------------------------------
(* Sessions *)

\* Inputs::remove: from here all the chain still sends is dropped.
WithoutOf(p) == {IF c \in Chain(p) THEN [c EXCEPT !.at = "dropping"] ELSE c : c \in chains}

\* Inputs::add, from link_sessions: the format is read, if the elements can be
\* made ...
add(p) ==
    /\ src = "serving" /\ p \notin pads
    /\ pads' = pads \cup {p}
    /\ chains' \in {chains, chains \cup {[pad |-> p, session |-> session, caps |-> pre, at |-> "new"]}}
    /\ UNCHANGED <<port, upstream, bin, src, publisher, session, sends, blocked, restarts, locked, pre, out, shown>>
\* ... and, with the lock taken again, the chain is listed as one to be told of
\* the format, and goes into the aggregator; one left under its name is taken out.
listed(c) ==
    /\ c \in chains /\ c.at = "new"
    /\ chains' = (WithoutOf(c.pad) \ {c}) \cup {[c EXCEPT !.at = "in"]}
    /\ shown' = (shown \/ c.pad = "video")
    /\ UNCHANGED <<port, upstream, bin, src, publisher, session, sends, pads, blocked, restarts, locked, pre, out>>

\* A frame comes in: the first of the video holds the output to its format
\* (watch_source and InputCaps::lock).  It may wait in the aggregator.
Frame(p) ==
    /\ src = "serving" /\ p \in pads /\ Chain(p) # {} /\ p \notin blocked
    /\ IF p = "video" /\ ~locked
       THEN /\ locked' = TRUE /\ pre' = sends /\ out' = sends
            /\ chains' = {IF c.pad = "video" /\ c.at # "new" THEN [c EXCEPT !.caps = sends] ELSE c : c \in chains}
       ELSE UNCHANGED <<locked, pre, out, chains>>
    /\ blocked' = blocked \cup {p}
    /\ UNCHANGED <<port, upstream, bin, src, publisher, session, sends, pads, restarts, shown>>
\* The aggregator takes what waits in it.  It need not: nothing says when.
Aggregates(p) ==
    /\ p \in blocked /\ blocked' = blocked \ {p}
    /\ UNCHANGED <<port, upstream, bin, src, publisher, session, sends, pads, chains, restarts, locked, pre, out, shown>>

\* pad-removed, once pad-added has returned: the chain, if there is one, goes on
\* a thread of its own; with the video's, the source restarts, on another.
PadGone(p) ==
    /\ src = "spent" /\ p \in pads /\ ~\E c \in chains : c.pad = p /\ c.at = "new"
    /\ pads' = pads \ {p}
    /\ chains' = WithoutOf(p)
    /\ restarts' = IF p = "video" /\ Chain(p) # {} THEN restarts + 1 ELSE restarts
    /\ publisher' = IF pads' = {} THEN "none" ELSE publisher
    /\ UNCHANGED <<port, upstream, bin, src, session, sends, blocked, locked, pre, out, shown>>

\* mutant: a chain's elements are stopped before its aggregator's pad goes.
NullFirst == "null"
\* Its aggregator's pad goes first.
First == "released"
\* remove's thread.  Releasing the pad frees a thread that waits in it;
\* stopping the chain's elements waits for one.
Removes(c) ==
    /\ c \in chains /\ c.at \notin {"new", "in"}
    /\ LET released == (c.at = "dropping" /\ First = "released") \/ c.at = "null"
           waits == c.pad \in blocked /\ ~\E d \in Chain(c.pad) : d.session # c.session
       IN  /\ ~released => ~waits
           /\ blocked' = IF released /\ waits THEN blocked \ {c.pad} ELSE blocked
           /\ chains' = (chains \ {c}) \cup (IF c.at = "dropping" THEN {[c EXCEPT !.at = First]} ELSE {})
    /\ UNCHANGED <<port, upstream, bin, src, publisher, session, sends, pads, restarts, locked, pre, out, shown>>

\* restart's thread: Null waits for the source's threads and takes its pads.
Stop ==
    /\ restarts > 0 /\ src = "spent" /\ blocked = {} /\ pads = {}
    /\ src' = "null"
    /\ UNCHANGED <<port, upstream, bin, publisher, session, sends, pads, chains, blocked, restarts, locked, pre, out, shown>>
Start ==
    /\ restarts > 0 /\ src = "null"
    /\ src' = "ready" /\ restarts' = restarts - 1
    /\ UNCHANGED <<port, upstream, bin, publisher, session, sends, pads, chains, blocked, locked, pre, out, shown>>

----------------------------------------------------------------------------

Init ==
    /\ port \in {"held", "free"} /\ bin = 1 /\ upstream = 1 /\ src = "ready"
    /\ publisher = "none" /\ session = 0 /\ sends \in Formats
    /\ pads = {} /\ chains = {} /\ blocked = {} /\ restarts = 0
    /\ locked = FALSE /\ pre = Any /\ out = Any /\ shown = FALSE

Next ==
    \/ Bind \/ OldDropped \/ build_bin \/ Asks \/ forward \/ Leaves \/ Stop \/ Start
    \/ \E p \in Pads : add(p) \/ Frame(p) \/ Aggregates(p) \/ PadGone(p)
    \/ \E c \in chains : listed(c) \/ Removes(c)

\* Threads that were started run, the source tells of its pads, and a publisher asks again.
Fairness ==
    /\ WF_vars(Bind) /\ WF_vars(OldDropped) /\ WF_vars(forward)
    /\ \A p \in Pads : WF_vars(PadGone(p))
    /\ WF_vars(\E c \in chains : listed(c)) /\ WF_vars(\E c \in chains : Removes(c))
    /\ WF_vars(Stop) /\ WF_vars(Start)

Spec == Init /\ [][Next]_vars /\ Fairness

----------------------------------------------------------------------------
(* Properties *)

\* The output's format never changes once a frame has set it, whatever later
\* publishers send: a recording's muxer would refuse it.
FormatHolds == [][locked /\ bin' = bin => out' = out]_vars

\* Every chain that feeds the compositor converts into the output's format.
Converts == \A c \in chains : c.at = "in" /\ c.pad = "video" /\ locked => c.caps = out

\* Nobody waits for good: a publisher that asks is served, once the last one's
\* chains are gone and the source has restarted, also when a thread of the
\* source waits in an aggregator that takes nothing; but not after one whose
\* video never came, or couldn't be added.
Served == publisher = "asks" ~> publisher # "asks" \/ (src = "spent" /\ ~shown)
==============================================================================
