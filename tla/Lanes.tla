--------------------------------- MODULE Lanes ---------------------------------
(* How a clip's frames reach its channel's program (sources/channel/lanes.rs, *)
(* player.rs, and the starting of clips in playout.rs): a player of its own,  *)
(* paced by the clock, hands each frame to a thread that stamps it into       *)
(* program time and queues it in the program's lane. Commands hold the deck;  *)
(* the threads don't wait for them.                                           *)
EXTENDS Integers, Sequences, FiniteSets, FiniteSetsExt

CONSTANTS
    Clips,           \* [audio, end, slate, offset]: what can be loaded; offset is from its in point to its first frame
    LEAD, SLATE, LENGTH, FRAMES, \* how far ahead buffers are stamped; a slate's and a frame's length; frames in a clip
    DELAY,           \* the longest a thread takes to push a frame that is due
    MaxClock, MaxCommands \* bounds

VARIABLES
    clock,
    bin, origin,     \* whether the program is built, and its base time once it runs
    want, lane, audio, \* the lanes the clip on air needs, and has
    onto, unshown,   \* history: the last two buffers the program's video got; whether it has yet to get one
    late,            \* frames the lane got after their slot
    players,         \* one for each clip: what plays it
    pushes,          \* each player's frame on its way to the lane
    current, standby, state, \* the deck, and what status tells
    doing, commands  \* the command that holds the deck, and how far it is

vars == <<clock, bin, origin, want, lane, audio, onto, unshown, late, players, pushes, current, standby, state,
          doing, commands>>

None == -1
NoLane == [open |-> FALSE, src |-> 0, last |-> <<>>]
NoPlayer == [state |-> "null", mode |-> "Off", base |-> None, ran |-> 0, from |-> 0, at |-> 0, first_rt |-> 0,
             shown |-> None, showing |-> FALSE, slate |-> FALSE, began |-> None]
NoPush == [step |-> "none"]
Ids == DOMAIN Clips

Init ==
    /\ clock = 10
    /\ bin \in BOOLEAN /\ origin = (IF bin THEN 8 ELSE None) /\ want = "none" /\ lane = NoLane /\ audio = FALSE
    /\ onto = <<>> /\ unshown = TRUE /\ late = 0
    /\ players = [c \in Ids |-> NoPlayer]
    /\ pushes = [c \in Ids |-> NoPush]
    /\ current = None /\ standby = None /\ state = "idle"
    /\ doing = <<"none">> /\ commands = 0

lanes == <<want, lane, audio>>
program == <<bin, origin, onto, unshown>>

----------------------------------------------------------------------------
(* Lanes                                                                      *)

\* The program's running time.
Now == clock - origin
Live == lane.open /\ origin # None
lane_in(l) == [open |-> TRUE, src |-> l.src + 1, last |-> <<>>]
\* No program yet: its lanes are made when it is built.
open_locked(l, has) ==
    /\ want' = IF has THEN "both" ELSE "video"
    /\ lane' = IF l.open \/ ~bin THEN l ELSE lane_in(l)
    /\ audio' = (has /\ bin)
close_locked(l) == [l EXCEPT !.open = FALSE, !.last = <<>>]
open(c) == open_locked(close_locked(lane), Clips[c].audio)
\* What is queued stays queued.
ensure(c) == open_locked(lane, Clips[c].audio)
close == want' = "none" /\ lane' = close_locked(lane) /\ audio' = FALSE
\* What was queued is not to be shown.
Cut == onto' = <<>> /\ UNCHANGED <<bin, origin, unshown>>
\* A new program takes over with new lanes for what is loaded.
attach ==
    /\ bin' = TRUE /\ origin' = None
    /\ lane' = [lane_in(lane) EXCEPT !.open = want # "none"]
    /\ audio' = (want = "both")
    /\ want' = want
    /\ onto' = <<>> /\ unshown' = TRUE
    /\ players' = [c \in Ids |-> [players[c] EXCEPT !.began = None]]

\* Where the next buffer fits: after what is queued, or now.
After == IF lane.last = <<>> THEN Now + LEAD ELSE Max({lane.last[2], Now + LEAD})
\* The program's last buffers, for the properties.
Onto(buffer) ==
    /\ onto' = (IF onto = <<>> THEN <<>> ELSE <<onto[Len(onto)]>>) \o <<buffer>>
    /\ unshown' = (unshown /\ buffer.crossing)

push_still ==
    IF Live
    THEN /\ lane' = [lane EXCEPT !.last = <<After, After + SLATE>>]
         /\ Onto([of |-> None, at |-> After, end |-> After + SLATE, frame |-> None, began |-> None, crossing |-> FALSE])
    ELSE UNCHANGED <<lane, onto, unshown>>
follow_on_base(rt) == IF Live THEN origin + After - LEAD - rt ELSE None

----------------------------------------------------------------------------
(* Players                                                                    *)

Pushing(c) == pushes[c].step # "none"
\* A frame's running time. A looping clip's goes on counting.
running_time(p, c, frame) == (frame - p.from) * LENGTH + (IF p.from = 0 THEN Clips[c].offset ELSE 0)
Loops(c) == Clips[c].end = "loop"
Ended(p, c) == ~Loops(c) /\ p.at = FRAMES
Frame(frame) == frame % FRAMES

\* A flushing seek: running time starts over, and the frame there is shown anew.
seek(p, frame) == [p EXCEPT !.from = frame, !.at = frame, !.ran = 0, !.showing = TRUE,
                            !.base = IF p.state = "playing" THEN clock ELSE None]
\* A slate is drawn at the program's size: before there is one, the clip goes without.
draw_slate(c) == Clips[c].slate /\ bin
build_player(c, mode) == [NoPlayer EXCEPT !.state = "paused", !.mode = mode, !.showing = TRUE, !.slate = draw_slate(c)]
\* Paused, a pipeline keeps the time it ran, and goes on from there.
PausedPlayer(p) == [p EXCEPT !.state = "paused", !.mode = "Cued", !.ran = clock - p.base, !.base = None,
                             !.showing = TRUE, !.began = None]
PlayingPlayer(p) == [p EXCEPT !.state = "playing", !.mode = "Playing", !.base = IF p.state = "playing" THEN @ ELSE clock - p.ran]

\* Its thread has the next frame: one to show, paused, or one that is due.
new_preroll(c) ==
    LET p == players[c]
    IN  /\ p.showing /\ ~Pushing(c)
        /\ IF Ended(p, c)
           THEN players' = [players EXCEPT ![c].showing = FALSE] /\ UNCHANGED pushes
           ELSE /\ players' = [players EXCEPT ![c].showing = FALSE, ![c].first_rt = running_time(p, c, p.at),
                                              ![c].shown = Frame(p.at)]
                /\ pushes' = [pushes EXCEPT ![c] = IF p.mode = "Cued" THEN [step |-> "taken", frame |-> p.at, base |-> None, crossing |-> FALSE]
                                                   ELSE NoPush]
        /\ UNCHANGED <<clock, lanes, program, late, current, standby, state, doing, commands>>
Due(c) ==
    LET p == players[c]
    IN  p.state = "playing" /\ ~p.showing /\ ~Ended(p, c) /\ clock >= p.base + running_time(p, c, p.at)
new_sample(c) ==
    LET p == players[c]
    IN  /\ Due(c) /\ ~Pushing(c)
        /\ players' = [players EXCEPT ![c].at = p.at + 1]
        /\ pushes' = [pushes EXCEPT ![c] = IF p.mode # "Playing" THEN NoPush
                        ELSE [step |-> "taken", frame |-> p.at, base |-> p.base + running_time(p, c, p.at), crossing |-> FALSE]]
        /\ UNCHANGED <<clock, lanes, program, late, current, standby, state, doing, commands>>

\* When a frame is due in the program: a preroll now, after what is queued.
program_pts(push) == IF push.base = None THEN After ELSE push.base + LEAD - origin
\* Never backwards or repeated.
Fits(pts) == lane.last = <<>> \/ (pts > lane.last[1] /\ pts >= lane.last[2])
push_reads(c) ==
    LET push == pushes[c]
        pts == program_pts(push)
    IN  /\ push.step = "taken"
        /\ IF Live /\ pts >= 0 /\ Fits(pts)
           THEN /\ pushes' = [pushes EXCEPT ![c] = [step |-> "stamped", frame |-> push.frame, base |-> push.base,
                                                    crossing |-> push.crossing, src |-> lane.src, pts |-> pts]]
                /\ UNCHANGED players
           ELSE /\ pushes' = [pushes EXCEPT ![c] = NoPush]
                /\ players' = [players EXCEPT ![c].shown = Frame(push.frame)]
        /\ UNCHANGED <<clock, lanes, program, late, current, standby, state, doing, commands>>
count_played(push) == IF push.base # None /\ Now > push.pts THEN late + 1 ELSE late
\* The lane may have been replaced meanwhile.
push_stores(c) ==
    LET push == pushes[c]
        end == push.pts + LENGTH
    IN  /\ push.step = "stamped"
        /\ pushes' = [pushes EXCEPT ![c] = NoPush]
        /\ players' = [players EXCEPT ![c].shown = Frame(push.frame), ![c].began = IF push.base = None THEN @ ELSE None]
        /\ IF lane.open /\ lane.src = push.src
           THEN /\ lane' = [lane EXCEPT !.last = <<push.pts, end>>]
                /\ Onto([of |-> c, at |-> push.pts, end |-> end, frame |-> Frame(push.frame), crossing |-> push.crossing,
                         began |-> IF push.base = None THEN None ELSE players[c].began])
                /\ late' = count_played(push)
           ELSE UNCHANGED <<lane, onto, unshown, late>>
        /\ UNCHANGED <<clock, bin, origin, want, audio, current, standby, state, doing, commands>>

----------------------------------------------------------------------------
(* Commands: one holds the deck at a time                                     *)

Free == doing = <<"none">>
Begin == Free /\ commands < MaxCommands /\ commands' = commands + 1
On == players[current]
\* A clip that is dropped stops first: what it was pushing is pushed.
Dropped(c) == c \in Ids => ~Pushing(c)
Without(c) == IF c = None THEN players ELSE [players EXCEPT ![c] = NoPlayer]

\* In standby, prerolled and pushing nothing.
preload(c) ==
    /\ Free /\ standby = None /\ c # current
    /\ standby' = c
    /\ players' = [players EXCEPT ![c] = [build_player(c, "Off") EXCEPT !.showing = FALSE, !.shown = 0,
                                            !.first_rt = Clips[c].offset]]
    /\ UNCHANGED <<clock, lanes, program, late, pushes, current, state, doing, commands>>
Prerolled(c) == ~players[c].showing /\ ~Pushing(c)

\* Cued on air: its lanes open before the frame shows.
load_clip(c) ==
    /\ c \notin {current, standby} /\ Begin /\ Dropped(current)
    /\ current' = c /\ state' = "cued"
    /\ players' = [Without(current) EXCEPT ![c] = build_player(c, "Cued")]
    /\ open(c) /\ Cut
    /\ doing' = <<"load", c>>
    /\ UNCHANGED <<clock, late, pushes, standby>>
loaded ==
    /\ doing[1] = "load" /\ Prerolled(doing[2])
    /\ doing' = <<"none">>
    /\ UNCHANGED <<clock, lanes, program, late, players, pushes, current, standby, state, commands>>

\* Frames under way as a clip starts cross it.
Crossed == pushes' = [c \in Ids |-> IF Pushing(c) THEN [pushes[c] EXCEPT !.crossing = TRUE] ELSE NoPush]
\* The clip on air goes quiet; the one that follows keeps what is queued, but
\* cued over one that plays its frame would be behind that.
put_on_air(c, play) ==
    /\ Prerolled(c)
    /\ IF play \/ state # "playing" THEN ensure(c) /\ UNCHANGED program ELSE open(c) /\ Cut
    /\ players' = LET off == IF current = None THEN players ELSE [players EXCEPT ![current].mode = "Off"]
                  IN  IF play THEN off ELSE [off EXCEPT ![c] = [seek(@, 0) EXCEPT !.mode = "Cued"]]
    /\ doing' = IF play THEN <<"slate", c>> ELSE <<"over", c, "cued">>
    /\ standby' = None /\ Crossed
    /\ UNCHANGED <<clock, late, current, state>>
take(play) == standby # None /\ Begin /\ put_on_air(standby, play)
\* The slate comes first, and the first frame right after what is queued then.
start_slate ==
    /\ doing[1] = "slate"
    /\ doing' = <<"start", doing[2]>> /\ Crossed
    /\ IF players[doing[2]].slate THEN push_still ELSE UNCHANGED <<lane, onto, unshown>>
    /\ UNCHANGED <<clock, bin, origin, want, audio, late, players, current, standby, state, commands>>
start ==
    /\ doing[1] = "start"
    /\ LET c == doing[2]
           base == follow_on_base(players[c].first_rt)
           crossed == players[c].showing \/ \E other \in Ids : Pushing(other)
       IN  /\ players' = [players EXCEPT ![c] = IF base = None THEN PlayingPlayer(@)
                            ELSE [@ EXCEPT !.state = "playing", !.mode = "Playing", !.base = base,
                                           !.began = IF crossed THEN None ELSE Now]]
           /\ doing' = <<"over", c, "playing">> /\ Crossed
    /\ UNCHANGED <<clock, lanes, program, late, current, standby, state, commands>>
\* The clip before is dropped.
over ==
    /\ doing[1] = "over" /\ (current # doing[2] => Dropped(current))
    /\ current' = doing[2] /\ state' = doing[3]
    /\ players' = IF current = doing[2] THEN players ELSE Without(current)
    /\ doing' = <<"none">>
    /\ UNCHANGED <<clock, lanes, program, late, pushes, standby, commands>>

\* Cued, it starts where what is queued ends; ended, over again; paused, it goes on.
play ==
    /\ state \in {"cued", "paused", "ended"} /\ Begin
    /\ IF state = "cued"
       THEN doing' = <<"slate", current>> /\ UNCHANGED <<players, lanes, program, state>>
       ELSE /\ IF state = "ended"
               THEN open(current) /\ Cut /\ players' = [players EXCEPT ![current] = PlayingPlayer(seek(@, 0))]
               ELSE players' = [players EXCEPT ![current] = PlayingPlayer(@)] /\ UNCHANGED <<lanes, program>>
            /\ state' = "playing" /\ UNCHANGED doing
    /\ UNCHANGED <<clock, late, pushes, current, standby>>
pause ==
    /\ state = "playing" /\ Begin
    /\ players' = [players EXCEPT ![current] = PausedPlayer(@)]
    /\ state' = "paused"
    /\ UNCHANGED <<clock, lanes, program, late, pushes, current, standby, doing>>
stop ==
    /\ current # None /\ Dropped(current) /\ Begin
    /\ close /\ Cut
    /\ players' = Without(current) /\ current' = None /\ state' = "idle"
    /\ UNCHANGED <<clock, late, pushes, standby, doing>>
\* An ended clip shows again, paused.
seek_to(frame) ==
    /\ current # None /\ ~Pushing(current) /\ Begin
    /\ players' = [players EXCEPT ![current] = [seek(@, frame) EXCEPT !.began = None]]
    /\ IF state = "ended" THEN open(current) /\ Cut /\ state' = "paused" ELSE UNCHANGED <<lanes, program, state>>
    /\ UNCHANGED <<clock, late, pushes, current, standby, doing>>
\* All its frames have played: the next takes over, or its last frame holds.
ended ==
    /\ Free /\ state = "playing" /\ Ended(On, current) /\ ~On.showing /\ ~Pushing(current)
    /\ clock >= On.base + running_time(On, current, FRAMES)
    /\ IF Clips[current].end = "next" /\ standby # None
       THEN put_on_air(standby, TRUE)
       ELSE /\ players' = [players EXCEPT ![current] = PausedPlayer(@)]
            /\ UNCHANGED pushes
            /\ IF Clips[current].end = "black" THEN close /\ Cut ELSE UNCHANGED <<lanes, program>>
            /\ state' = "ended"
            /\ UNCHANGED <<clock, late, current, standby, doing>>
    /\ UNCHANGED commands

\* The monitor builds the program, and anew, and later runs it.
Rebuilt ==
    /\ commands < MaxCommands /\ commands' = commands + 1
    /\ attach
    /\ UNCHANGED <<clock, late, pushes, current, standby, state, doing>>
Runs ==
    /\ bin /\ origin = None /\ origin' = clock
    /\ UNCHANGED <<clock, bin, lanes, onto, unshown, late, players, pushes, current, standby, state, doing, commands>>

\* A thread takes at most DELAY to push a frame that is due.
Behind(c) ==
    IF Pushing(c) THEN clock >= pushes[c].base + DELAY
    ELSE Due(c) /\ clock >= players[c].base + running_time(players[c], c, players[c].at) + DELAY
\* Bound: time passes where something plays or is queued.
Matters == (\E c \in Ids : players[c].state = "playing") \/ (Live /\ lane.last # <<>> /\ Now + LEAD <= lane.last[2])
Tick ==
    /\ clock < MaxClock /\ clock' = clock + 1
    /\ \A c \in Ids : ~Behind(c) /\ ~players[c].showing
    /\ Matters
    /\ UNCHANGED <<lanes, program, late, players, pushes, current, standby, state, doing, commands>>

Next ==
    \/ \E c \in Ids :
        \/ preload(c) \/ load_clip(c) \/ new_preroll(c) \/ new_sample(c) \/ push_reads(c) \/ push_stores(c)
    \/ \E p \in BOOLEAN : take(p)
    \/ \E frame \in 0..(FRAMES - 1) : seek_to(frame)
    \/ loaded \/ start_slate \/ start \/ over \/ play \/ pause \/ stop \/ ended \/ Rebuilt \/ Runs \/ Tick
Spec == Init /\ [][Next]_vars

----------------------------------------------------------------------------
(* What must hold                                                             *)

Last == onto[Len(onto)]
\* A clip that starts follows on from what the program has queued: its first
\* frame is where that, or its slate, ends, or LEAD from now if that is later,
\* wherever in its file the clip begins (mod.rs:9-11, lanes.rs:182-184,
\* playout.rs:136-137). What is queued meanwhile by a frame under way moves it.
FollowsOn ==
    onto # <<>> /\ Last.began # None /\ ~Last.crossing =>
        Last.at = IF Len(onto) = 1 THEN Last.began + LEAD ELSE Max({onto[1].end, Last.began + LEAD})
\* The program's video goes forward, through cuts, pauses, seeks and loops; only
\* a frame that was under way as a clip started may cross it (lanes.rs:268-269).
GoesForward ==
    Len(onto) = 2 => onto[2].at >= onto[1].end \/ onto[1].crossing \/ onto[2].crossing
\* No frame is late for its slot while its thread keeps up (mod.rs:46-47).
NeverLate == late = 0
\* Cued or paused, what the program shows last is the frame the player is at,
\* also over a clip that was playing and behind what that had queued
\* (lanes.rs:264-267, playout.rs:603-604), unless the program was rebuilt since.
FrameIsShown ==
    Free /\ state \in {"cued", "paused"} /\ Prerolled(current) /\ ~unshown /\ origin # None /\ ~Ended(On, current) =>
        onto # <<>> /\ (Last.crossing \/ (Last.of = current /\ Last.frame = On.shown))
\* What is on air has a lane for its sound if it has any, and only then, in
\* each program that is built.
SoundHasItsLane ==
    Free /\ bin /\ current # None /\ want # "none" => lane.open /\ audio = Clips[current].audio
=============================================================================
