------------------------------- MODULE Outputs -------------------------------
(* Where channels are sent (src/node/src/pipeline/output.rs, rtsp.rs and      *)
(* whep.rs): the outputs of each, as saved, started and stopped by rebuilds   *)
(* off the source manager's lock, and the names they hold: an NDI name, a     *)
(* port, a screen or an SDI connector is sent to once; a mount serves a path. *)
EXTENDS Naturals, Sequences, FiniteSets, TLC

CONSTANTS
    Channels,
    Lists,        \* the outputs a channel may be given, by identity
    Kind,         \* Kind[identity]: "name", "rtsp" or "whep"
    Formats,      \* what a channel's monitor is built for, numbers from 1
    Legs,         \* numbers that tell legs apart
    MaxSaves, MaxFaults

VARIABLES
    saved,        \* the configured channels: [outs, format], or Absent
    checked,      \* the request that has been validated and is to be saved
    rescan,       \* whether a rebuild is due
    feeds,        \* each channel's monitor: the format it runs, or NoFeed
    outs,         \* the manager's outputs: a sequence of legs, or Gone
    work,         \* the rebuild's Work: its step, what it drops, its jobs
    held,         \* what each leg that runs holds, until it is dropped
    mounts,       \* RTSP factories and WHEP ports, by path: the leg that serves
    clash,        \* history: a leg found its name still held by another
    saves, faults
vars == <<saved, checked, rescan, feeds, outs, work, held, mounts, clash, saves, faults>>

Absent == [outs |-> <<"none">>, format |-> 0]
NoFeed == 0
Gone == <<[at |-> "none"]>>
IdleWork == [step |-> "idle", drops |-> {}, jobs |-> [c \in {} |-> 0]]

\* Legs: [at, n, state], the state "todo" until it is started.
Todo(identity) == [at |-> identity, n |-> 0, state |-> "todo"]
Runs(leg) == leg.state \in {"runs", "broke"}
Running(seq) == {seq[i] : i \in {i \in DOMAIN seq : seq # Gone /\ Runs(seq[i])}}
Unused == CHOOSE n \in Legs : \A h \in held : h.n # n
Holds(identity) == \E h \in held : h.at = identity

----------------------------------------------------------------------------
(* Saving channels *)

Here == {c \in Channels : saved[c] # Absent}
Values(seq) == {seq[i] : i \in DOMAIN seq}

\* validate: none of a channel's names is another's.
Unique(c, list) == \A d \in Here \ {c} : Values(saved[d].outs) \cap Values(list) = {}

\* validated reads the other channels, and the row is written after.
Validate ==
    /\ checked = Absent /\ saves < MaxSaves
    /\ saves' = saves + 1
    /\ \E c \in Channels, list \in Lists, format \in Formats :
          /\ Unique(c, list)
          /\ checked' = [channel |-> c, outs |-> list, format |-> format, new |-> c \notin Here]
    /\ UNCHANGED <<saved, rescan, feeds, outs, work, held, mounts, clash, faults>>
\* The update of a row that is gone saves nothing.
Save ==
    /\ checked # Absent /\ checked' = Absent
    /\ LET c == checked.channel
       IN  IF checked.new \/ c \in Here
           THEN /\ saved' = [saved EXCEPT ![c] = [outs |-> checked.outs, format |-> checked.format]]
                /\ rescan' = TRUE
           ELSE UNCHANGED <<saved, rescan>>
    /\ UNCHANGED <<feeds, outs, work, held, mounts, clash, saves, faults>>
DeleteChannel ==
    /\ saves < MaxSaves /\ saves' = saves + 1
    /\ \E c \in Here : saved' = [saved EXCEPT ![c] = Absent]
    /\ rescan' = TRUE
    /\ UNCHANGED <<checked, feeds, outs, work, held, mounts, clash, faults>>

----------------------------------------------------------------------------
(* A rebuild: scan and reconcile_outputs plan it under the lock ... *)

Rebuilt == {c \in Here : feeds[c] # saved[c].format}
Old(c) == IF c \in Rebuilt \/ outs[c] = Gone THEN <<>> ELSE outs[c]
Same(c) == /\ Len(Old(c)) = Len(saved[c].outs)
           /\ \A i \in DOMAIN Old(c) : Old(c)[i].at = saved[c].outs[i]
\* A leg of the same identity that hasn't broken is kept.
Kept(c, identity) == {leg \in Running(Old(c)) : leg.at = identity /\ leg.state = "runs"}

scan ==
    LET jobs == {c \in Here : ~Same(c) /\ (c \in Rebuilt \/ feeds[c] # NoFeed)} \cup Rebuilt
        legs(c) == [i \in DOMAIN saved[c].outs |->
                       IF Kept(c, saved[c].outs[i]) # {} THEN CHOOSE leg \in Kept(c, saved[c].outs[i]) : TRUE
                       ELSE Todo(saved[c].outs[i])]
        stays(c) == c \in Here /\ Same(c) /\ c \notin Rebuilt
        keeps(c) == IF stays(c) THEN Running(outs[c])
                    ELSE IF c \in jobs THEN Running(legs(c)) ELSE {}
    IN  /\ work.step = "idle" /\ (rescan \/ Rebuilt # {})
        /\ rescan' = FALSE
        /\ feeds' = [c \in Channels |-> IF c \in Here \ Rebuilt THEN feeds[c] ELSE NoFeed]
        /\ outs' = [c \in Channels |-> IF stays(c) THEN Old(c) ELSE IF c \in Here /\ Same(c) THEN <<>> ELSE Gone]
        /\ work' = [step |-> "drops",
                    drops |-> UNION {Running(outs[c]) \ keeps(c) : c \in Channels},
                    jobs |-> [c \in jobs |-> [fresh |-> c \in Rebuilt, feed |-> IF c \in Rebuilt THEN NoFeed ELSE feeds[c],
                                              starts |-> IF c \in Rebuilt THEN saved[c].format ELSE NoFeed,
                                              legs |-> legs(c), outputs |-> ~Same(c)]]]
        /\ UNCHANGED <<saved, checked, held, mounts, clash, saves, faults>>

\* ... and its Work runs off it: first all it replaces is dropped ...
\* A mount that is dropped is taken off its path, whichever serves it.
Unmounted(legs) == [p \in DOMAIN mounts |-> IF \E l \in legs : l.at = p THEN 0 ELSE mounts[p]]
\* mutant: jobs start while drops are still to come.
StartsBesides == {"drops", "run"}
StartsAfter == {"run"}
Drop ==
    /\ work.step \in {"drops", "run"} /\ work.drops # {}
    /\ \E leg \in work.drops :
          /\ held' = {h \in held : h.n # leg.n}
          /\ mounts' = Unmounted({leg})
          /\ work' = [work EXCEPT !.drops = @ \ {leg}]
    /\ UNCHANGED <<saved, checked, rescan, feeds, outs, clash, saves, faults>>
Dropped ==
    /\ work.step = "drops" /\ work.drops = {}
    /\ work' = [work EXCEPT !.step = "run"]
    /\ UNCHANGED <<saved, checked, rescan, feeds, outs, held, mounts, clash, saves, faults>>

\* ... then each channel, on a thread, starts its monitor ...
MonitorStarts(c) ==
    /\ work.step \in StartsAfter /\ c \in DOMAIN work.jobs
    /\ work.jobs[c].starts # NoFeed
    /\ \/ work' = [work EXCEPT !.jobs[c].feed = work.jobs[c].starts, !.jobs[c].starts = NoFeed] /\ UNCHANGED faults
       \/ /\ faults < MaxFaults /\ faults' = faults + 1
          /\ work' = [work EXCEPT !.jobs[c].starts = NoFeed]
    /\ UNCHANGED <<saved, checked, rescan, feeds, outs, held, mounts, clash, saves>>

\* The leg of a job that is up next, if there is one.
Due(legs) == {i \in DOMAIN legs : /\ legs[i].state \in {"todo", "port"}
                                  /\ \A j \in 1..(i - 1) : legs[j].state \notin {"todo", "port"}}

\* ... and its legs, one after the other.
Goes(c, i, leg) == work' = [work EXCEPT !.jobs[c].legs[i] = leg]
DueOf(c, state) ==
    IF /\ work.step \in StartsAfter /\ c \in DOMAIN work.jobs
       /\ work.jobs[c].starts = NoFeed /\ work.jobs[c].feed # NoFeed /\ work.jobs[c].outputs
    THEN {i \in Due(work.jobs[c].legs) : work.jobs[c].legs[i].state = state} ELSE {}

\* OutputLeg::start.  A name that is held can't be sent to; a WHEP path that
\* is served is refused, and one that isn't gets a port and then its mount; an
\* RTSP mount replaces one that was there.
start(c) == \E i \in DueOf(c, "todo") :
    LET identity == work.jobs[c].legs[i].at
        taken == IF Kind[identity] = "whep" THEN mounts[identity] # 0
                 ELSE Kind[identity] = "name" /\ Holds(identity)
        n == Unused
    IN  /\ \/ /\ ~taken
              /\ Goes(c, i, [at |-> identity, n |-> n, state |-> IF Kind[identity] = "whep" THEN "port" ELSE "runs"])
              /\ held' = held \cup {[at |-> identity, n |-> n]}
              /\ mounts' = IF Kind[identity] = "rtsp" THEN [mounts EXCEPT ![identity] = n] ELSE mounts
              /\ UNCHANGED <<clash, faults>>
           \/ /\ taken \/ faults < MaxFaults
              /\ faults' = IF taken THEN faults ELSE faults + 1
              /\ clash' = (clash \/ taken)
              /\ Goes(c, i, [Todo(identity) EXCEPT !.state = "failed"])
              /\ UNCHANGED <<held, mounts>>
        /\ UNCHANGED <<saved, checked, rescan, feeds, outs, saves>>
Mounts(c) == \E i \in DueOf(c, "port") :
    LET leg == work.jobs[c].legs[i]
    IN  /\ mounts' = [mounts EXCEPT ![leg.at] = leg.n]
        /\ Goes(c, i, [leg EXCEPT !.state = "runs"])
        /\ UNCHANGED <<saved, checked, rescan, feeds, outs, held, clash, saves, faults>>

\* apply: what was started is put in place.
Ran(job) == \/ job.starts = NoFeed /\ (job.feed = NoFeed \/ ~job.outputs)
            \/ job.starts = NoFeed /\ Due(job.legs) = {}
apply ==
    /\ work.step = "run" /\ work.drops = {}
    /\ \A c \in DOMAIN work.jobs : Ran(work.jobs[c])
    /\ feeds' = [c \in Channels |-> IF c \in DOMAIN work.jobs /\ work.jobs[c].fresh THEN work.jobs[c].feed ELSE feeds[c]]
    /\ outs' = [c \in Channels |->
                   IF c \in DOMAIN work.jobs /\ work.jobs[c].outputs /\ work.jobs[c].feed # NoFeed /\ outs[c] = Gone
                     THEN work.jobs[c].legs ELSE outs[c]]
    /\ work' = IdleWork
    /\ UNCHANGED <<saved, checked, rescan, held, mounts, clash, saves, faults>>

\* A leg's pipeline or a channel's monitor fails.
Fails ==
    /\ faults < MaxFaults /\ faults' = faults + 1
    /\ \E c \in Channels :
          \/ /\ feeds[c] # NoFeed /\ feeds' = [feeds EXCEPT ![c] = NoFeed] /\ UNCHANGED outs
          \/ /\ \E i \in DOMAIN outs[c] :
                   /\ outs[c] # Gone /\ outs[c][i].state = "runs"
                   /\ outs' = [outs EXCEPT ![c][i].state = "broke"]
             /\ UNCHANGED feeds
    /\ UNCHANGED <<saved, checked, rescan, work, held, mounts, clash, saves>>

----------------------------------------------------------------------------

Init ==
    /\ saved = [c \in Channels |-> Absent] /\ checked = Absent /\ rescan = FALSE
    /\ feeds = [c \in Channels |-> NoFeed] /\ outs = [c \in Channels |-> Gone]
    /\ work = IdleWork /\ held = {} /\ mounts = [p \in DOMAIN Kind |-> 0]
    /\ clash = FALSE /\ saves = 0 /\ faults = 0

Next ==
    \/ Validate \/ Save \/ DeleteChannel
    \/ scan \/ Drop \/ Dropped \/ apply \/ Fails
    \/ \E c \in Channels : MonitorStarts(c) \/ start(c) \/ Mounts(c)

Spec == Init /\ [][Next]_vars

----------------------------------------------------------------------------
(* Properties *)

\* No output ever finds its name, port, screen or path still held: all that a
\* rebuild replaces is dropped before anything starts, also when a name goes
\* from one channel to another.
NamesAreFree == ~clash

\* Once a rebuild is done, each channel that runs has just the outputs that
\* were saved; each that hasn't failed holds its name, or serves its path; and
\* nothing else holds one.
Sent ==
    work.step = "idle" /\ ~rescan =>
       /\ \A c \in Here : feeds[c] = saved[c].format =>
             /\ [i \in DOMAIN outs[c] |-> outs[c][i].at] = saved[c].outs
             /\ \A leg \in Running(outs[c]) :
                   /\ [at |-> leg.at, n |-> leg.n] \in held
                   /\ Kind[leg.at] # "name" => mounts[leg.at] = leg.n
       /\ held = UNION {{[at |-> leg.at, n |-> leg.n] : leg \in Running(outs[c])} : c \in Channels}
       /\ \A p \in DOMAIN mounts : mounts[p] # 0 => \E h \in held : h.at = p /\ h.n = mounts[p]
=============================================================================
