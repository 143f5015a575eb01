------------------------------ MODULE Playout ------------------------------
(* A channel's transport (sources/channel/playout.rs) over the lanes of its   *)
(* program (lanes.rs).  Commands hold the deck's lock from end to end, so one *)
(* is one step; what runs off the lock has steps of its own: an item being    *)
(* cued in standby, a message of a player on its way to its handler, a clip   *)
(* waiting for footage at the edge of a replay buffer, and a request whose    *)
(* item was looked up before the lock.                                        *)
(*                                                                            *)
(* A position is where a player is between its clip's in and out points; of a *)
(* replay that lost its out point, "out" is the newest frame.                 *)
EXTENDS Naturals, FiniteSets, Sequences, SequencesExt, FiniteSetTheorems, SequenceTheorems, WellFoundedInduction, TLAPS

CONSTANTS
    Playlists,  \* what a playlist may be set to: <<items, loop_playlist>>
    Growing,    \* the media that are replay buffers still recorded
    Loads,      \* the requests loaded from outside the playlist
    Serials,    \* names of clips; one is used again once nothing holds it
    MaxActs,    \* commands
    MaxFaults   \* cues and players that fail, programs that go

None == [serial |-> 0]
NoItem == [id |-> "none"]
Ends == {"hold", "black", "loop", "next"}
States == {"Idle", "Cued", "Playing", "Paused", "Ended"}
Places == {"in", "mid", "out"}

VARIABLES
    items, loop_playlist,
    current, next,      \* the clips on air and in standby
    preloading,         \* the item being cued for next
    position,           \* 0, or where the item on air (or the last) is in items
    shared,             \* what status tells
    lanes,              \* the program's bin, whether a clip wants lanes, has them
    preloads,           \* cues off the lock
    tasks,              \* handlers of players' messages, not run yet
    asked,              \* a request with its item, waiting for the lock
    acts, faults

deck == <<current, next, preloading, position>>
vars == <<items, loop_playlist, deck, shared, lanes, preloads, tasks, asked, acts, faults>>

Request(item) == [media |-> item.media, end |-> item.end, rate |-> 1, out |-> TRUE]

NewClip(serial, id, req, mode) ==
    [serial |-> serial, item |-> id, req |-> req, mode |-> mode, rate |-> req.rate,
     at_edge |-> FALSE, at |-> "in", running |-> FALSE, eos |-> FALSE, dead |-> FALSE]

Is(clip, item) == clip # None /\ clip.item = item.id /\ clip.req = Request(item)

grows(clip) == clip.req.media \in Growing

at_end(clip, ended) == ended \/ clip.at_edge \/ (clip.req.out /\ clip.at = "out")

Used == {current.serial, next.serial} \cup {t.serial : t \in tasks \cup preloads}
Unused == CHOOSE s \in Serials \ Used : TRUE
\* A command may cue a clip and start the cue of another.
Room == Cardinality(Used \ {0}) + 2 <= Cardinality(Serials)

Fault == faults < MaxFaults /\ faults' = faults + 1
Faulty(fails) == IF fails THEN Fault ELSE UNCHANGED faults

----------------------------------------------------------------------------
(* Lanes *)

ensure(l) == [l EXCEPT !.want = TRUE, !.open = @ \/ l.bin = "live"]
open(l) == ensure([l EXCEPT !.open = FALSE])
close_black(l) == [l EXCEPT !.want = FALSE]        \* mutant: keeps the lanes
close(l) == [l EXCEPT !.want = FALSE, !.open = FALSE]
Made(l) == l.open \/ l.bin = "none"     \* if not, the program's bin is gone

attach ==       \* the monitor builds a program
    /\ lanes' = [lanes EXCEPT !.bin = "live", !.open = lanes.want]
    /\ UNCHANGED <<items, loop_playlist, deck, shared, preloads, tasks, asked>>

ProgramGoes ==
    /\ lanes.bin = "live" /\ Fault
    /\ lanes' = [lanes EXCEPT !.bin = "gone"]
    /\ UNCHANGED <<items, loop_playlist, deck, shared, preloads, tasks, asked>>

----------------------------------------------------------------------------
(* The playlist and the clip in standby *)

IndexOf(id, list) == SelectInSeq(list, LAMBDA i : i.id = id)    \* 0: not there

Forgotten(cur, list) == position        \* mutant: following notes nothing
\* following notes where the item on air is.
Noted(cur, list) ==
    IF cur # None /\ IndexOf(cur.item, list) # 0 THEN IndexOf(cur.item, list) ELSE position

following(cur, list, loops) ==
    LET at == IF cur = None \/ IndexOf(cur.item, list) # 0
                  THEN Noted(cur, list) + 1
                  ELSE position         \* removed: the item that took its place
    IN  CASE cur # None /\ cur.item = "none" -> NoItem
          [] cur # None /\ at = 0 -> NoItem
          [] at \in DOMAIN list -> list[at]
          [] OTHER -> IF list # <<>> /\ (loops \/ cur = None) THEN list[1] ELSE NoItem

\* mutant: whatever is in standby stays there.
KeepsAny(nx, want) == want # NoItem /\ nx # None
\* What is in standby stays there only while it comes next.
Keeps(nx, want) == want # NoItem /\ Is(nx, want)

\* Ends a command that leaves the deck with cur and nx, and says sh: cues what
\* now comes next in standby, unless it already is or is being cued.
refresh_next(cur, nx, sh, list, loops, cues) ==
    LET want == following(cur, list, loops)
        keep == Keeps(nx, want)
        cue == want # NoItem /\ ~keep /\ preloading # want
        taken == {cur.serial, nx.serial} \cup Used
        serial == CHOOSE s \in Serials \ taken : TRUE
    IN  /\ current' = cur
        /\ next' = IF keep THEN nx ELSE None
        /\ position' = Noted(cur, list)
        /\ shared' = [sh EXCEPT !.next_id = want.id, !.next_ready = keep]
        /\ preloading' = IF cue THEN want ELSE preloading
        /\ preloads' = IF cue
               THEN cues \cup {[serial |-> serial, item |-> want, phase |-> "cueing", dead |-> FALSE]}
               ELSE cues

Refresh(cur, nx, sh) == refresh_next(cur, nx, sh, items, loop_playlist, preloads)

\* An item whose end alone was edited changes the clip on air's, except into
\* or out of a loop.
Edited(cur, list) ==
    LET item == list[IndexOf(cur.item, list)]
    IN  IF /\ cur # None
           /\ IndexOf(cur.item, list) # 0
           /\ [Request(item) EXCEPT !.end = cur.req.end] = cur.req
           /\ "loop" \notin {cur.req.end, item.end}
        THEN [cur EXCEPT !.req.end = item.end] ELSE cur

set_playlist ==
    /\ Room
    /\ \E playlist \in Playlists :
          LET list == playlist[1]
              loops == playlist[2]
              cur == Edited(current, list)
              sh == IF cur = None THEN shared ELSE [shared EXCEPT !.clip.end = cur.req.end]
          IN  /\ items' = list /\ loop_playlist' = loops
              /\ refresh_next(cur, next, sh, list, loops, preloads)
    /\ UNCHANGED <<lanes, tasks, asked>>

\* Off the lock, the cue ends: its player may fail from then on.
CueEnds ==
    /\ \E t \in preloads, phase \in {"cued", "failed"} :
          /\ t.phase = "cueing"
          /\ Faulty(phase = "failed")
          /\ preloads' = (preloads \ {t}) \cup {[t EXCEPT !.phase = phase]}
    /\ UNCHANGED <<items, loop_playlist, deck, shared, lanes, tasks, asked>>

\* The cue has the lock: the clip is the standby's if it is still wanted.
CueLands ==
    /\ \E t \in preloads :
          LET wanted == following(current, items, loop_playlist) = t.item
              clip == [NewClip(t.serial, t.item.id, Request(t.item), "Off") EXCEPT !.dead = t.dead]
          IN  /\ t.phase \in {"cued", "failed"}
              /\ \/ /\ preloading # t.item
                    /\ preloads' = preloads \ {t}
                    /\ UNCHANGED <<deck, shared>>
                 \/ /\ preloading = t.item /\ t.phase = "failed"
                    /\ preloading' = NoItem
                    /\ preloads' = preloads \ {t}
                    /\ shared' = [shared EXCEPT !.error = TRUE]
                    /\ UNCHANGED <<current, next, position>>
                 \/ /\ preloading = t.item /\ t.phase = "cued"
                    /\ preloading' = NoItem
                    /\ position' = Noted(current, items)
                    /\ IF wanted
                         THEN /\ next' = clip
                              /\ shared' = [shared EXCEPT !.next_ready = TRUE]
                              /\ preloads' = preloads \ {t}
                         ELSE /\ preloads' = (preloads \ {t}) \cup {[t EXCEPT !.phase = "again"]}
                              /\ UNCHANGED <<next, shared>>
                    /\ UNCHANGED current
    /\ UNCHANGED <<items, loop_playlist, lanes, tasks, asked>>

\* What it cued is no longer wanted: it takes the lock again to cue what is.
CueAgain ==
    /\ Room
    /\ \E t \in preloads :
          /\ t.phase = "again"
          /\ refresh_next(current, next, shared, items, loop_playlist, preloads \ {t})
    /\ UNCHANGED <<items, loop_playlist, lanes, tasks, asked>>

----------------------------------------------------------------------------
(* Commands.  A state s = [cur, sh, lanes, ok] goes through the calls of one; *)
(* after a call that fails the others are not made.  A call on a player fails *)
(* only when the player did: fails is the first that does.                    *)

Here == [cur |-> current, sh |-> shared, lanes |-> lanes, ok |-> TRUE]

Fails(clip) == IF clip # None /\ clip.dead THEN {"none", "seek", "run"} ELSE {"none"}

Run(s, mode, running, fails) ==
    IF ~s.ok THEN s
    ELSE IF fails = "run" THEN [s EXCEPT !.cur.mode = mode, !.ok = FALSE]
    ELSE [s EXCEPT !.cur.mode = mode, !.cur.running = running]

SeekTo(s, at, rate, fails) ==
    IF ~s.ok THEN s
    ELSE IF fails = "seek" THEN [s EXCEPT !.cur.rate = rate, !.ok = FALSE]
    ELSE [s EXCEPT !.cur.rate = rate, !.cur.at = at, !.cur.eos = FALSE]

OnEdge(s) == s      \* mutant: a seek leaves it at the edge
OffEdge(s) == IF s.ok THEN [s EXCEPT !.cur.at_edge = FALSE] ELSE s

Say(s, state) == IF s.ok THEN [s EXCEPT !.sh.state = state] ELSE s

OpenLanes(s) ==
    IF s.ok THEN [s EXCEPT !.lanes = open(s.lanes), !.ok = Made(open(s.lanes))] ELSE s

reopen_if_ended(s) ==
    IF s.sh.state # "Ended" THEN s
    ELSE LET o == OpenLanes(s)
         IN  IF o.ok THEN [o EXCEPT !.cur.mode = "Cued", !.sh.state = "Paused"] ELSE o

PlaysOn(s, ended) == s.ok /\ grows(s.cur) /\ at_end(s.cur, ended)

\* mutant: status keeps the out point
play_on_clip(s, ended) == IF PlaysOn(s, ended) THEN [s EXCEPT !.cur.req.out = FALSE] ELSE s
play_on(s, ended) ==
    IF PlaysOn(s, ended) THEN [s EXCEPT !.cur.req.out = FALSE, !.sh.clip.out = FALSE] ELSE s

\* What set makes status say.
Set(state, req, id, error) ==
    [shared EXCEPT !.state = state, !.clip = req, !.item = id, !.error = error]

NoRequest == [media |-> "none", end |-> "hold", rate |-> 1, out |-> TRUE]
Unloaded(error) == Set("Idle", NoRequest, "none", error)

\* The deck with clip on air, or with none when that fails.
put_on_air(clip, play, fails) ==
    LET l == IF play \/ shared.state # "Playing" THEN ensure(lanes) ELSE open(lanes)
        s == [cur |-> clip, lanes |-> l, ok |-> Made(l),
              sh |-> Set(IF play THEN "Playing" ELSE "Cued", clip.req, clip.item, FALSE)]
        r == IF play THEN Run(s, "Playing", TRUE, fails)
                     ELSE SeekTo([s EXCEPT !.cur.mode = "Cued"], "in", clip.rate, fails)
    IN  IF r.ok THEN r
        ELSE [cur |-> None, sh |-> Unloaded(TRUE), lanes |-> close(l), ok |-> FALSE]

\* Standby's clip if it is item's, or one cued now.
take(item, play, cues, fails) ==
    LET clip == IF Is(next, item) THEN next
                ELSE IF cues THEN NewClip(Unused, item.id, Request(item), "Off")
                ELSE None
    IN  IF clip = None
        THEN [Here EXCEPT !.sh.error = TRUE, !.ok = FALSE]
        ELSE put_on_air(clip, play, fails)

CanTake(item, cues, fails) ==
    IF Is(next, item) THEN cues /\ fails \in Fails(next) ELSE fails = "none"

\* A cue that failed left standby empty, and refreshes nothing.
Took(s, cues) ==
    IF cues THEN Refresh(s.cur, None, s.sh)
    ELSE /\ current' = s.cur /\ next' = None /\ shared' = s.sh
         /\ UNCHANGED <<preloading, preloads>>
         /\ position' = Noted(current, items)

Take(item, play) ==
    /\ Room
    /\ \E cues \in BOOLEAN, fails \in {"none", "seek", "run"} :
          LET s == take(item, play, cues, fails)
          IN  /\ CanTake(item, cues, fails)
              /\ Faulty(~cues)
              /\ Took(s, cues)
              /\ lanes' = s.lanes

\* cue_item and play_item find the item before they wait for the lock.
Ask ==
    /\ asked = NoItem
    /\ \E i \in DOMAIN items, play \in BOOLEAN : asked' = [id |-> items[i].id, item |-> items[i], play |-> play]
    /\ UNCHANGED <<items, loop_playlist, deck, shared, lanes, preloads, tasks>>

cue_or_play_item ==
    /\ asked # NoItem
    /\ Take(asked.item, asked.play)
    /\ asked' = NoItem
    /\ UNCHANGED <<items, loop_playlist, tasks>>

\* load; its play is one like any other, as it takes the lock anew.
load_clip ==
    /\ Room
    /\ \E req \in Loads, cues \in BOOLEAN :
          LET l == IF current # None THEN close(lanes) ELSE lanes
              s == [cur |-> NewClip(Unused, "none", req, "Cued"), lanes |-> open(l),
                    ok |-> cues /\ Made(open(l)), sh |-> Set("Cued", req, "none", FALSE)]
          IN  /\ Faulty(~cues)
              /\ Refresh(IF s.ok THEN s.cur ELSE None, None,
                         IF s.ok THEN s.sh ELSE Unloaded(TRUE))
              /\ lanes' = IF s.ok THEN s.lanes ELSE close(l)
    /\ UNCHANGED <<items, loop_playlist, tasks, asked>>

\* A command on the clip on air only.
Becomes(s) ==
    /\ current' = s.cur /\ shared' = s.sh /\ lanes' = s.lanes
    /\ UNCHANGED <<items, loop_playlist, next, preloading, position, preloads, tasks, asked>>

PlayNext ==         \* play while idle, and next
    /\ following(current, items, loop_playlist) # NoItem
    /\ Take(following(current, items, loop_playlist), TRUE)
    /\ UNCHANGED <<items, loop_playlist, tasks, asked>>

\* A replay at its end plays on into newer footage; a stepped clip goes back
\* to its own speed; an ended one starts again.
Played(fails) ==
    LET state == shared.state
        rate == current.req.rate
        on == state # "Playing" /\ rate > 0 /\ PlaysOn(Here, state = "Ended")
        stepped == ~on /\ current.rate # rate /\ state # "Ended"
        s == IF on THEN OffEdge(SeekTo(reopen_if_ended(play_on(Here, state = "Ended")),
                                       current.at, rate, fails))
             ELSE IF stepped THEN SeekTo(Here, current.at, rate, fails)
             ELSE IF state = "Ended"
               THEN SeekTo(OpenLanes(Here), IF rate > 0 THEN "in" ELSE "out", current.rate, fails)
             ELSE Here
    IN  Say(IF state = "Playing" THEN s ELSE Run(s, "Playing", TRUE, fails), "Playing")

play ==
    /\ current # None
    /\ \E fails \in Fails(current) : Becomes(Played(fails))

pause ==
    /\ current # None /\ shared.state = "Playing"
    /\ \E fails \in Fails(current) : Becomes(Say(Run(Here, "Cued", FALSE, fails), "Paused"))

stop ==
    /\ Room
    /\ Refresh(None, next, Unloaded(FALSE))
    /\ lanes' = close(lanes)
    /\ UNCHANGED <<items, loop_playlist, tasks, asked>>

seek ==
    /\ current # None
    /\ \E at \in Places, fails \in Fails(current) :
          Becomes(OffEdge(SeekTo(reopen_if_ended(Here), at, current.rate, fails)))

set_rate ==
    /\ current # None
    /\ \E rate \in {1, -1}, fails \in Fails(current) :
          LET ended == shared.state = "Ended"
              r == reopen_if_ended(Here)
              p == IF rate > 0 THEN play_on(r, ended) ELSE r
              q == IF p.ok THEN [p EXCEPT !.cur.req.rate = rate] ELSE p
              s == OffEdge(SeekTo(q, current.at, rate, fails))
          IN  /\ current.req.media \in Growing \/ rate = 1
              /\ Becomes(IF s.ok THEN [s EXCEPT !.sh.clip.rate = rate] ELSE s)

step ==
    /\ current # None
    /\ \E rate \in {1, -1}, fails \in Fails(current) :
          LET p == IF shared.state = "Playing" THEN Run(Here, "Cued", FALSE, fails) ELSE Here
              ended == shared.state = "Ended"
              r == reopen_if_ended(p)
              turns == r.ok /\ (current.rate # rate \/ (rate > 0 /\ PlaysOn(r, ended)))
              o == IF rate > 0 THEN play_on(r, ended) ELSE r
              t == IF turns THEN OffEdge(SeekTo(o, current.at, rate, fails)) ELSE o
          IN  \E at \in Places : Becomes(Say(IF t.ok THEN [t EXCEPT !.cur.at = at] ELSE t, "Paused"))

----------------------------------------------------------------------------
(* Players, and what handles their messages *)

PlayerMoves ==
    /\ current.serial # 0
    /\ current.running /\ ~current.eos /\ ~current.dead
    /\ \E at \in Places :
          /\ <<current.at, at>> \in (IF current.rate > 0 THEN {<<"in", "mid">>, <<"mid", "out">>}
                                     ELSE {<<"out", "mid">>, <<"mid", "in">>})
          /\ current' = [current EXCEPT !.at = at]
    /\ UNCHANGED <<items, loop_playlist, next, preloading, position, shared, lanes, preloads, tasks, asked>>

\* The end of its span: watch_player loops the clip, or has ended run.
PlayerEnds ==
    /\ current.serial # 0
    /\ current.running /\ ~current.eos /\ ~current.dead
    /\ current.at = IF current.rate > 0 THEN "out" ELSE "in"
    /\ IF current.req.end = "loop"
         THEN /\ current' = [current EXCEPT !.at = IF current.rate > 0 THEN "in" ELSE "out"]
              /\ UNCHANGED tasks
         ELSE /\ current' = [current EXCEPT !.eos = TRUE]
              /\ tasks' = tasks \cup {[kind |-> "ended", serial |-> current.serial]}
    /\ UNCHANGED <<items, loop_playlist, next, preloading, position, shared, lanes, preloads, asked>>

FootageComes ==
    /\ current.serial # 0
    /\ grows(current) /\ ~current.req.out /\ current.at = "out"
    /\ current' = [current EXCEPT !.at = "mid"]
    /\ UNCHANGED <<items, loop_playlist, next, preloading, position, shared, lanes, preloads, tasks, asked>>

\* A player fails, once: on air, in standby or on its way there.
PlayerFails ==
    /\ Fault
    /\ \/ /\ current.serial # 0 /\ ~current.dead
          /\ current' = [current EXCEPT !.dead = TRUE]
          /\ tasks' = tasks \cup {[kind |-> "failed", serial |-> current.serial]}
          /\ UNCHANGED <<next, preloads>>
       \/ /\ next # None /\ ~next.dead
          /\ next' = [next EXCEPT !.dead = TRUE]
          /\ tasks' = tasks \cup {[kind |-> "failed", serial |-> next.serial]}
          /\ UNCHANGED <<current, preloads>>
       \/ \E t \in preloads :
          /\ t.phase = "cued" /\ ~t.dead
          /\ preloads' = (preloads \ {t}) \cup {[t EXCEPT !.dead = TRUE]}
          /\ tasks' = tasks \cup {[kind |-> "failed", serial |-> t.serial]}
          /\ UNCHANGED <<current, next>>
    /\ UNCHANGED <<items, loop_playlist, preloading, position, shared, lanes, asked>>

Others(kind, serial) == tasks \ {[kind |-> kind, serial |-> serial]}
Has(kind, serial) == [kind |-> kind, serial |-> serial] \in tasks

\* The clip on air ends: into the next item, or on its last frame or black.
EndClip ==
    LET item == following(current, items, loop_playlist)
        goes == current.req.end = "next" /\ item # NoItem
        hold == [current EXCEPT !.mode = "Cued", !.running = current.running /\ current.dead]
        ends == [shared EXCEPT !.state = "Ended"]
    IN  IF goes
        THEN \E cues \in BOOLEAN, fails \in {"none", "seek", "run"} :
                LET s == take(item, TRUE, cues, fails)
                IN  /\ CanTake(item, cues, fails)
                    /\ Faulty(~cues)
                    /\ lanes' = s.lanes
                    /\ IF cues THEN Took(s, TRUE)
                       ELSE Took([s EXCEPT !.cur = hold, !.sh.state = "Ended"], FALSE)
        ELSE /\ current' = hold
             /\ shared' = ends
             /\ lanes' = IF current.req.end = "black" THEN close(lanes) ELSE lanes
             /\ position' = IF current.req.end = "next" THEN Noted(current, items) ELSE position
             /\ UNCHANGED <<next, preloading, preloads, faults>>

ended(serial) ==
    /\ Room
    /\ Has("ended", serial)
    /\ \/ /\ current.serial # serial
          /\ tasks' = Others("ended", serial)
          /\ UNCHANGED <<deck, shared, lanes, preloads, faults>>
       \/ /\ current.serial = serial
          /\ IF shared.state = "Playing" /\ grows(current) /\ ~current.req.out /\ current.rate > 0
               THEN /\ current' = [current EXCEPT !.at_edge = TRUE]
                    /\ tasks' = Others("ended", serial) \cup {[kind |-> "edge", serial |-> serial]}
                    /\ UNCHANGED <<next, preloading, position, shared, lanes, preloads, faults>>
               ELSE EndClip /\ tasks' = Others("ended", serial)
    /\ UNCHANGED <<items, loop_playlist, asked>>

AtEdge(serial) == current.serial = serial /\ current.at_edge

\* A look, every EDGE_POLL: on into new footage, or away if something moved it.
wait_at_edge(serial) ==
    /\ Has("edge", serial)
    /\ \/ /\ ~AtEdge(serial) \/ shared.state # "Playing"
          /\ tasks' = Others("edge", serial)
          /\ UNCHANGED current
       \/ /\ AtEdge(serial) /\ shared.state = "Playing" /\ current.at # "out"
          /\ \E fails \in Fails(current) :
                LET s == OffEdge(SeekTo(Here, current.at, current.rate, fails))
                IN  /\ current' = s.cur
                    /\ tasks' = Others("edge", serial) \cup
                           (IF s.ok THEN {} ELSE {[kind |-> "edge_over", serial |-> serial]})
       \/ /\ AtEdge(serial) /\ shared.state = "Playing" /\ current.at = "out"  \* EDGE_WAIT over
          /\ tasks' = Others("edge", serial) \cup {[kind |-> "edge_over", serial |-> serial]}
          /\ UNCHANGED current
    /\ UNCHANGED <<items, loop_playlist, next, preloading, position, shared, lanes, preloads, asked>>

\* No footage came: it has the lock again.
EndsAtEdge(serial) ==
    /\ Room
    /\ Has("edge_over", serial)
    /\ tasks' = Others("edge_over", serial)
    /\ IF AtEdge(serial) THEN EndClip ELSE UNCHANGED <<deck, shared, lanes, preloads, faults>>
    /\ UNCHANGED <<items, loop_playlist, asked>>

failed(serial) ==
    /\ Room
    /\ Has("failed", serial)
    /\ tasks' = Others("failed", serial)
    /\ \/ /\ next.serial = serial
          /\ next' = None
          /\ shared' = [shared EXCEPT !.next_ready = FALSE, !.error = TRUE]
          /\ UNCHANGED <<current, preloading, position, lanes, preloads>>
       \/ /\ next.serial # serial /\ current.serial = serial
          /\ Refresh(None, next, Unloaded(TRUE))
          /\ lanes' = close(lanes)
       \/ /\ serial \notin {next.serial, current.serial}
          /\ UNCHANGED <<deck, shared, lanes, preloads>>
    /\ UNCHANGED <<items, loop_playlist, asked>>

----------------------------------------------------------------------------
Init ==
    /\ acts = 0 /\ faults = 0
    /\ items = <<>> /\ loop_playlist = FALSE
    /\ current = None /\ next = None /\ preloading = NoItem /\ position = 0
    /\ shared = [state |-> "Idle", clip |-> NoRequest, item |-> "none", next_id |-> "none",
                 next_ready |-> FALSE, error |-> FALSE]
    /\ lanes = [bin |-> "none", want |-> FALSE, open |-> FALSE]
    /\ preloads = {} /\ tasks = {} /\ asked = NoItem

Commands ==
    /\ acts < MaxActs /\ acts' = acts + 1
    /\ \/ /\ set_playlist \/ Ask \/ play \/ pause \/ stop \/ seek \/ set_rate \/ step
          /\ UNCHANGED faults
       \/ load_clip
       \/ PlayNext

Handlers == \E s \in Serials :
    \/ ended(s) \/ EndsAtEdge(s)
    \/ (wait_at_edge(s) \/ failed(s)) /\ UNCHANGED faults

Next ==
    \/ Commands
    \/ /\ UNCHANGED acts
       /\ \/ Handlers \/ cue_or_play_item \/ CueEnds \/ ProgramGoes \/ PlayerFails
          \/ /\ CueLands \/ CueAgain \/ attach \/ PlayerMoves \/ PlayerEnds \/ FootageComes
             /\ UNCHANGED faults

Spec == Init /\ [][Next]_vars

----------------------------------------------------------------------------
(* Properties *)

TypeOK ==
    /\ IsFiniteSet(Used) /\ Used \subseteq Serials \cup {0}
    /\ position \in Nat
    /\ shared.state \in States
    /\ current # None =>
          /\ current.mode \in {"Cued", "Playing"} /\ current.at \in Places /\ current.req.end \in Ends
          /\ current.serial # next.serial
    /\ next # None => next.mode = "Off" /\ ~next.running /\ ~next.eos
    /\ \A t \in tasks : t.kind \in {"ended", "failed", "edge", "edge_over"}
    /\ lanes.open => lanes.want

\* What status tells is what the deck does, whatever raced with what: idle is
\* no clip and no lanes; else the clip, its item and its points are those on
\* air, and unless its player failed it runs just when said to play and has
\* lanes to show in until it has ended.
OnAirAgrees ==
    /\ (shared.state = "Idle") = (current = None)
    /\ current = None => shared.item = "none" /\ shared.clip = NoRequest /\ ~lanes.want
    /\ current # None => shared.item = current.item
    /\ current # None /\ ~current.dead =>
          /\ shared.clip = current.req
          /\ current.running = (shared.state = "Playing")
          /\ (current.mode = "Playing") = (shared.state = "Playing")
          /\ lanes.want \/ shared.state = "Ended"

\* An item that comes next is in standby, or being cued, or its cue's error
\* shows: however the playlist is edited while cues are on their way, none is
\* forgotten.
NextIsComing ==
    LET want == following(current, items, loop_playlist)
    IN  want # NoItem =>
          \/ Is(next, want)
          \/ preloading = want /\ \E t \in preloads : t.item = want
          \/ shared.error

\* A replay that says it plays on while it holds its last frame at the edge of
\* the recording has someone waiting for footage, who goes on or ends it
\* (unless its player failed).
EdgeIsWatched ==
    current # None /\ ~current.dead /\ current.at_edge /\ current.req.rate > 0 /\ shared.state = "Playing" =>
        Has("edge", current.serial) \/ Has("edge_over", current.serial)

\* The item on air taken out of the playlist, the one after it still comes
\* next: nothing is skipped or played again.
NoneSkipped ==
    \A i \in DOMAIN items :
        /\ current # None /\ current.item = items[i].id /\ current' = current
        /\ items' = RemoveAt(items, i) /\ i < Len(items)
        => shared'.next_id = items[i + 1].id
\* Every step of the transport: edits of the playlist never skip an item.
SkipsNothing == [][NoneSkipped]_vars

\* What status calls ready is cued: next_ready says "whether it's cued in the
\* background" (playout.rs:77).
NextReadyIsTrue == shared.next_ready => next # None

----------------------------------------------------------------------------
(* The transport, proved: for any playlists, media and requests              *)

\* The items of all playlists.
Items == UNION {{p[1][i] : i \in DOMAIN p[1]} : p \in Playlists}
Named(list) == \A i, j \in DOMAIN list : list[i].id = list[j].id => i = j
IsRequest(r) ==
    /\ r = [media |-> r.media, end |-> r.end, rate |-> r.rate, out |-> r.out]
    /\ r.end \in Ends /\ r.rate \in {1, -1} /\ r.out \in BOOLEAN

\* What the proofs ask of the constants: items have names of their own, each in
\* its playlist (put_playlist renames one named as another), and an end there is.
Playable ==
    /\ IsFiniteSet(Serials) /\ 0 \notin Serials
    /\ \A i \in Items : DOMAIN i = {"id", "media", "end"} /\ i.end \in Ends /\ i.id # "none"
    /\ \A p \in Playlists : p[1] \in Seq(Items) /\ p[2] \in BOOLEAN /\ Named(p[1])
    /\ \A req \in Loads : IsRequest(req)

Modes == {"Off", "Cued", "Playing"}
IsClip(c) ==
    /\ DOMAIN c = {"serial", "item", "req", "mode", "rate", "at_edge", "at", "running", "eos", "dead"}
    /\ c.serial \in Serials /\ IsRequest(c.req) /\ c.mode \in Modes /\ c.rate \in {1, -1} /\ c.at \in Places
    /\ c.at_edge \in BOOLEAN /\ c.running \in BOOLEAN /\ c.eos \in BOOLEAN /\ c.dead \in BOOLEAN
IsOnAir(c) == IsClip(c) /\ c.mode # "Off"
IsStandby(c) == IsClip(c) /\ c.mode = "Off" /\ ~c.running /\ ~c.eos /\ ~c.at_edge
IsShared(sh) ==
    /\ DOMAIN sh = {"state", "clip", "item", "next_id", "next_ready", "error"}
    /\ sh.state \in States /\ sh.error \in BOOLEAN
IsLanes(l) ==
    /\ DOMAIN l = {"bin", "want", "open"} /\ l.bin \in {"none", "live", "gone"}
    /\ l.want \in BOOLEAN /\ l.open \in BOOLEAN /\ (l.open => l.want)
IsCue(t) ==
    /\ DOMAIN t = {"serial", "item", "phase", "dead"} /\ t.serial \in Serials /\ t.item \in Items
    /\ t.phase \in {"cueing", "cued", "failed", "again"} /\ t.dead \in BOOLEAN
IsTask(t) == DOMAIN t = {"kind", "serial"} /\ t.kind \in {"ended", "failed", "edge", "edge_over"} /\ t.serial \in Serials
IsAsked(a) == DOMAIN a = {"id", "item", "play"} /\ a.item \in Items /\ a.play \in BOOLEAN
Typed ==
    /\ items \in Seq(Items) /\ loop_playlist \in BOOLEAN /\ position \in Nat
    /\ Named(items)
    /\ (current = None \/ IsOnAir(current)) /\ (next = None \/ IsStandby(next))
    /\ preloading = NoItem \/ preloading \in Items
    /\ IsShared(shared) /\ IsLanes(lanes)
    /\ \A t \in preloads : IsCue(t)
    /\ \A t \in tasks : IsTask(t)
    /\ asked = NoItem \/ IsAsked(asked)

\* Clips have serials of their own, wherever they are.
SerialsDiffer ==
    /\ current # None => current.serial # next.serial
    /\ \A t \in preloads :
          /\ t.serial \notin {current.serial, next.serial}
          /\ \A u \in preloads : u.serial = t.serial => u = t

\* Where the item on air is in the playlist was noted when it last was.
PositionIsNoted == position = Noted(current, items)

\* The item being cued is on its way to standby.
CueIsOnItsWay == preloading # NoItem => \E t \in preloads : t.item = preloading /\ t.phase # "again"

\* Only the replays of buffers wait at an edge.
EdgeGrows == current # None /\ current.at_edge => grows(current)

Deck == PositionIsNoted /\ CueIsOnItsWay /\ NextIsComing
OnAir == OnAirAgrees /\ EdgeGrows /\ EdgeIsWatched
IInv == Typed /\ SerialsDiffer /\ Deck /\ OnAir

----------------------------------------------------------------------------
(* Playlists *)

LEMMA MinIs ==
    ASSUME NEW T \in SUBSET Nat, T # {} PROVE Min(T) \in T
<1>1. PICK x \in T : \A y \in T : ~ (<<y, x>> \in OpToRel(<, Nat))
  BY NatLessThanWellFounded, WFMin
<1>2. ASSUME NEW y \in T, y < x PROVE FALSE
  <2>1. <<y, x>> \in Nat \X Nat /\ <<y, x>>[1] < <<y, x>>[2] BY <1>2
  <2>2. <<y, x>> \in OpToRel(<, Nat) BY <2>1 DEF OpToRel
  <2> QED BY <2>2, <1>1
<1>3. \A y \in T : x <= y BY <1>2
<1> QED BY <1>3 DEF Min

\* An item is found just when it is there.
LEMMA IndexIs ==
    ASSUME NEW list \in Seq(Items), NEW id
    PROVE  /\ IndexOf(id, list) \in Nat
           /\ IndexOf(id, list) # 0 => IndexOf(id, list) \in DOMAIN list /\ list[IndexOf(id, list)].id = id
           /\ IndexOf(id, list) = 0 => \A i \in DOMAIN list : list[i].id # id
<1> DEFINE T == {i \in 1..Len(list) : list[i].id = id}
<1>1. IndexOf(id, list) = IF T # {} THEN Min(T) ELSE 0 BY DEF IndexOf, SelectInSeq
<1>2. DOMAIN list = 1..Len(list) /\ Len(list) \in Nat OBVIOUS
<1>3. T \in SUBSET Nat OBVIOUS
<1>4. CASE T # {}
  <2>1. Min(T) \in T BY <1>3, <1>4, MinIs
  <2>2. Min(T) \in 1..Len(list) /\ list[Min(T)].id = id BY <2>1
  <2> QED BY <1>1, <1>2, <1>4, <2>2
<1>5. CASE T = {}
  <2>1. \A i \in DOMAIN list : list[i].id # id BY <1>2, <1>5
  <2> QED BY <1>1, <1>5, <2>1
<1> QED BY <1>4, <1>5

LEMMA NotedIs ==
    ASSUME Typed, NEW list \in Seq(Items), NEW cur PROVE Noted(cur, list) \in Nat
BY IndexIs DEF Noted, Typed

\* What follows is an item of the playlist, if any.
LEMMA FollowingIs ==
    ASSUME Typed, NEW list \in Seq(Items), NEW cur, NEW loops
    PROVE  following(cur, list, loops) = NoItem \/ following(cur, list, loops) \in Items
<1> DEFINE at == IF cur = None \/ IndexOf(cur.item, list) # 0 THEN Noted(cur, list) + 1 ELSE position
<1>1. following(cur, list, loops) =
        CASE cur # None /\ cur.item = "none" -> NoItem
          [] cur # None /\ at = 0 -> NoItem
          [] at \in DOMAIN list -> list[at]
          [] OTHER -> IF list # <<>> /\ (loops \/ cur = None) THEN list[1] ELSE NoItem
  BY DEF following
<1>2. DOMAIN list = 1..Len(list) /\ Len(list) \in Nat /\ \A i \in DOMAIN list : list[i] \in Items OBVIOUS
<1>3. list # <<>> => 1 \in DOMAIN list BY <1>2
<1> HIDE DEF at
<1> QED BY <1>1, <1>2, <1>3

LEMMA NoItemIsNone ==
    ASSUME Playable PROVE NoItem \notin Items /\ \A i \in Items : i # NoItem /\ i.id # "none" /\ IsRequest(Request(i))
<1>1. NoItem.id = "none" BY DEF NoItem
<1>2. ASSUME NEW i \in Items PROVE IsRequest(Request(i))
  BY <1>2 DEF Playable, Request, IsRequest
<1> QED BY <1>1, <1>2 DEF Playable

LEMMA NoneIsNone ==
    ASSUME Playable PROVE None.serial = 0 /\ \A c : IsClip(c) => c # None /\ c.serial # 0
BY DEF Playable, IsClip, None

----------------------------------------------------------------------------
(* Serials *)

LEMMA UsedAre ==
    ASSUME Playable, Typed PROVE Used \subseteq Serials \cup {0} /\ IsFiniteSet(Used)
<1>1. current.serial \in Serials \cup {0} /\ next.serial \in Serials \cup {0}
  BY DEF Typed, IsOnAir, IsStandby, IsClip, None
<1>2. \A t \in tasks \cup preloads : t.serial \in Serials BY DEF Typed, IsCue, IsTask
<1>3. Used \subseteq Serials \cup {0} BY <1>1, <1>2 DEF Used
<1>4. IsFiniteSet(Serials \cup {0}) BY FS_AddElement DEF Playable
<1> QED BY <1>3, <1>4, FS_Subset

\* With room there are serials for a clip and for the cue of another.
LEMMA SerialsRemain ==
    ASSUME Playable, Typed, Room, NEW x PROVE \E s \in Serials : s \notin Used \cup {x}
<1> SUFFICES ASSUME \A s \in Serials : s \in Used \cup {x} PROVE FALSE
  OBVIOUS
<1> DEFINE Taken == Used \ {0}
<1>1. Serials \subseteq Taken \cup {x} BY DEF Playable
<1>2. IsFiniteSet(Taken) BY UsedAre, FS_RemoveElement
<1>3. IsFiniteSet(Taken \cup {x}) /\ Cardinality(Taken \cup {x}) <= Cardinality(Taken) + 1 /\ Cardinality(Taken) \in Nat
  BY <1>2, FS_AddElement, FS_CardinalityType
<1>4. Cardinality(Serials) <= Cardinality(Taken \cup {x}) BY <1>1, <1>3, FS_Subset
<1>5. Cardinality(Serials) \in Nat /\ Cardinality(Taken \cup {x}) \in Nat BY <1>3, FS_CardinalityType DEF Playable
<1>6. Cardinality(Taken) + 2 <= Cardinality(Serials) BY DEF Room
<1> HIDE DEF Taken
<1> QED BY <1>3, <1>4, <1>5, <1>6

LEMMA UnusedIs ==
    ASSUME Playable, Typed, Room PROVE Unused \in Serials /\ Unused \notin Used
<1>1. \E s \in Serials \ Used : TRUE BY SerialsRemain
<1> QED BY <1>1 DEF Unused

----------------------------------------------------------------------------
(* Refreshing what comes next *)

\* Once noted, a place is where it was: what follows doesn't change with it.
LEMMA NotedTwice ==
    ASSUME position' = Noted(current', items')
    PROVE  /\ PositionIsNoted'
           /\ following(current, items, loop_playlist)' = following(current', items', loop_playlist')
<1>1. Noted(current, items)' = Noted(current', items') BY DEF Noted
<1> QED BY <1>1 DEF PositionIsNoted, following, Noted

\* What follows goes by the name of the item on air.
LEMMA SameFollows ==
    ASSUME UNCHANGED <<items, loop_playlist, position>>, (current' = None) = (current = None),
           current # None => current'.item = current.item
    PROVE  /\ following(current, items, loop_playlist)' = following(current, items, loop_playlist)
           /\ Noted(current, items)' = Noted(current, items)
<1>1. CASE current = None
  <2>1. current' = current BY <1>1
  <2> QED BY <2>1 DEF following, Noted
<1>2. CASE current # None
  BY <1>2 DEF following, Noted
<1> QED BY <1>1, <1>2

\* What a command hands refresh_next: the clip to be on air, which may come
\* from standby or be new, and what stays in standby.
Hands(cur, nx, sh, cues) ==
    /\ cur = None \/ IsOnAir(cur)
    /\ cur.serial \in {0, current.serial, next.serial} \/ cur.serial \notin Used
    /\ nx \in {None, next} /\ (cur # None => cur.serial # nx.serial)
    /\ IsShared(sh)
    /\ cues \subseteq preloads /\ \A t \in preloads \ cues : t.phase = "again"

LEMMA RefreshDoes ==
    ASSUME Playable, Typed, SerialsDiffer, CueIsOnItsWay, Room,
           NEW cur, NEW nx, NEW sh, NEW list \in Seq(Items), NEW loops, NEW cues, Hands(cur, nx, sh, cues),
           refresh_next(cur, nx, sh, list, loops, cues), items' = list, loop_playlist' = loops
    PROVE  /\ current' = cur /\ next' \in {nx, None} /\ IsShared(shared')
           /\ shared'.state = sh.state /\ shared'.clip = sh.clip /\ shared'.item = sh.item /\ shared'.error = sh.error
           /\ shared'.next_id = following(cur, list, loops).id
           /\ position' \in Nat /\ (preloading' = NoItem \/ preloading' \in Items) /\ \A t \in preloads' : IsCue(t)
           /\ SerialsDiffer' /\ Deck'
<1> DEFINE want == following(cur, list, loops)
           keep == Keeps(nx, want)
           cue == want # NoItem /\ ~keep /\ preloading # want
           taken == {cur.serial, nx.serial} \cup Used
           serial == CHOOSE s \in Serials \ taken : TRUE
           new == [serial |-> serial, item |-> want, phase |-> "cueing", dead |-> FALSE]
<1>1. /\ current' = cur /\ next' = (IF keep THEN nx ELSE None) /\ position' = Noted(cur, list)
      /\ shared' = [sh EXCEPT !.next_id = want.id, !.next_ready = keep]
      /\ preloading' = (IF cue THEN want ELSE preloading)
      /\ preloads' = (IF cue THEN cues \cup {new} ELSE cues)
  BY DEF refresh_next
<1>2. want = NoItem \/ want \in Items BY FollowingIs
<1>3. nx.serial \in Used \cup {0} /\ None.serial = 0 BY NoneIsNone DEF Hands, Used
<1>4. \E s \in Serials : s \notin taken
  <2>1. PICK s \in Serials : s \notin Used \cup {cur.serial} BY SerialsRemain
  <2> QED BY <1>3, <2>1 DEF Playable
<1>5. serial \in Serials /\ serial \notin taken BY <1>4
<1> HIDE DEF serial
<1>6. new.serial = serial /\ new.item = want /\ new.phase = "cueing" /\ (want \in Items => IsCue(new))
  BY <1>5 DEF IsCue
<1> HIDE DEF new, want, taken
<1>7. /\ IsShared(shared') /\ shared'.next_id = want.id
      /\ shared'.state = sh.state /\ shared'.clip = sh.clip /\ shared'.item = sh.item /\ shared'.error = sh.error
  BY <1>1 DEF Hands, IsShared
<1>8. position' \in Nat BY <1>1, NotedIs
<1>9. preloading' = NoItem \/ preloading' \in Items BY <1>1, <1>2 DEF Typed
<1>10. \A t \in preloads' : IsCue(t) BY <1>1, <1>2, <1>6 DEF Typed, Hands
<1>11. SerialsDiffer'
  <2>1. \A t \in preloads : t.serial \in Used BY DEF Used
  <2>2. \A t \in preloads : t.serial # 0 BY DEF Typed, IsCue, Playable
  <2>3. current' # None => current'.serial # next'.serial
    BY <1>1, NoneIsNone DEF Hands, IsOnAir
  <2>4. ASSUME NEW t \in preloads PROVE t.serial \notin {current'.serial, next'.serial}
    <3>1. t.serial # current.serial /\ t.serial # next.serial BY DEF SerialsDiffer
    <3>2. t.serial # cur.serial BY <2>1, <2>2, <3>1 DEF Hands
    <3>3. next'.serial \in {0, next.serial} BY <1>1, <1>3 DEF Hands
    <3> QED BY <1>1, <2>2, <3>1, <3>2, <3>3
  <2>5. \A t \in preloads : t.serial # serial BY <1>5, <2>1 DEF taken
  <2>6. serial # cur.serial /\ serial # nx.serial /\ serial # 0 BY <1>5 DEF taken, Playable
  <2>7. \A t, u \in preloads' : t.serial = u.serial => t = u
    BY <1>1, <1>6, <2>5 DEF SerialsDiffer, Hands
  <2>8. \A t \in preloads' : t.serial \notin {current'.serial, next'.serial}
    BY <1>1, <1>3, <1>6, <2>4, <2>6 DEF Hands
  <2> QED BY <2>3, <2>7, <2>8 DEF SerialsDiffer
<1>12. PositionIsNoted' /\ following(current, items, loop_playlist)' = want
  BY <1>1, NotedTwice DEF want
<1>13. CueIsOnItsWay'
  <2>1. CASE cue BY <1>1, <1>6, <2>1 DEF CueIsOnItsWay
  <2>2. CASE ~cue BY <1>1, <2>2 DEF CueIsOnItsWay, Hands
  <2> QED BY <2>1, <2>2
<1>14. NextIsComing'
  <2> SUFFICES ASSUME want # NoItem
               PROVE  Is(next', want) \/ (preloading' = want /\ \E t \in preloads' : t.item = want)
    BY <1>12 DEF NextIsComing, Is
  <2>1. CASE keep BY <1>1, <2>1 DEF Keeps
  <2>2. CASE ~keep /\ preloading # want BY <1>1, <1>6, <2>2
  <2>3. CASE ~keep /\ preloading = want BY <1>1, <1>13, <2>3 DEF CueIsOnItsWay
  <2> QED BY <2>1, <2>2, <2>3
<1> QED BY <1>1, <1>7, <1>8, <1>9, <1>10, <1>11, <1>12, <1>13, <1>14 DEF Deck, want

----------------------------------------------------------------------------
(* The calls of a command *)

IsState(s) ==
    /\ DOMAIN s = {"cur", "sh", "lanes", "ok"}
    /\ IsOnAir(s.cur) /\ IsShared(s.sh) /\ IsLanes(s.lanes) /\ s.ok \in BOOLEAN

\* A call leaves on air the clip that is.
Goes(s, r) ==
    /\ IsState(r)
    /\ r.cur.serial = s.cur.serial /\ r.cur.item = s.cur.item /\ r.cur.dead = s.cur.dead
    /\ r.cur.req.media = s.cur.req.media
    /\ r.sh.item = s.sh.item /\ r.sh.error = s.sh.error

\* How it runs, what its points are, and whether it's at its edge.
SameRuns(s, r) == r.cur.mode = s.cur.mode /\ r.cur.running = s.cur.running
SamePoints(s, r) == r.cur.req = s.cur.req /\ r.sh.clip = s.sh.clip
SameEdge(s, r) == r.cur.at_edge = s.cur.at_edge

LEMMA RunDoes ==
    ASSUME NEW s, IsState(s), NEW mode \in {"Cued", "Playing"}, NEW running \in BOOLEAN, NEW fails,
           NEW r, r = Run(s, mode, running, fails)
    PROVE  /\ Goes(s, r) /\ SamePoints(s, r) /\ SameEdge(s, r) /\ r.sh = s.sh /\ r.lanes = s.lanes
           /\ s.ok /\ fails # "run" => r.ok /\ r.cur.mode = mode /\ r.cur.running = running
           /\ ~s.ok => r = s
BY DEF IsState, Run, Goes, SamePoints, SameEdge, IsOnAir, IsClip, Modes

LEMMA SeekDoes ==
    ASSUME NEW s, IsState(s), NEW at \in Places, NEW rate \in {1, -1}, NEW fails,
           NEW r, r = SeekTo(s, at, rate, fails)
    PROVE  /\ Goes(s, r) /\ SameRuns(s, r) /\ SamePoints(s, r) /\ SameEdge(s, r) /\ r.sh = s.sh /\ r.lanes = s.lanes
           /\ s.ok /\ fails # "seek" => r.ok
           /\ ~s.ok => r = s
BY DEF IsState, SeekTo, Goes, SameRuns, SamePoints, SameEdge, IsOnAir, IsClip

LEMMA OffEdgeDoes ==
    ASSUME NEW s, IsState(s), NEW r, r = OffEdge(s)
    PROVE  /\ Goes(s, r) /\ SameRuns(s, r) /\ SamePoints(s, r) /\ r.sh = s.sh /\ r.lanes = s.lanes /\ r.ok = s.ok
           /\ r.ok => ~r.cur.at_edge
           /\ ~s.ok => r = s
BY DEF IsState, OffEdge, Goes, SameRuns, SamePoints, IsOnAir, IsClip

LEMMA SayDoes ==
    ASSUME NEW s, IsState(s), NEW state \in States, NEW r, r = Say(s, state)
    PROVE  /\ Goes(s, r) /\ SameRuns(s, r) /\ SamePoints(s, r) /\ SameEdge(s, r)
           /\ r.cur = s.cur /\ r.lanes = s.lanes /\ r.ok = s.ok
           /\ s.ok => r.sh.state = state
           /\ ~s.ok => r = s
BY DEF IsState, Say, Goes, SameRuns, SamePoints, SameEdge, IsShared

LEMMA EnsureDoes ==
    ASSUME NEW l, IsLanes(l)
    PROVE  /\ IsLanes(ensure(l)) /\ ensure(l).want
           /\ IsLanes(open(l)) /\ open(l).want
           /\ IsLanes(close(l)) /\ ~close(l).want
<1>1. ASSUME NEW k, IsLanes(k) PROVE IsLanes(ensure(k)) /\ ensure(k).want
  BY <1>1 DEF IsLanes, ensure
<1>2. IsLanes([l EXCEPT !.open = FALSE]) BY DEF IsLanes
<1>3. IsLanes(close(l)) /\ ~close(l).want BY DEF IsLanes, close
<1> QED BY <1>1, <1>2, <1>3 DEF open

LEMMA OpenLanesDoes ==
    ASSUME NEW s, IsState(s), NEW r, r = OpenLanes(s)
    PROVE  /\ Goes(s, r) /\ SameRuns(s, r) /\ SamePoints(s, r) /\ SameEdge(s, r) /\ r.cur = s.cur /\ r.sh = s.sh
           /\ s.ok => r.lanes.want
           /\ ~s.ok => r = s
<1>1. IsLanes(open(s.lanes)) /\ open(s.lanes).want BY EnsureDoes DEF IsState
<1>2. Made(open(s.lanes)) \in BOOLEAN BY <1>1 DEF Made, IsLanes
<1> QED BY <1>1, <1>2 DEF IsState, OpenLanes, Goes, SameRuns, SamePoints, SameEdge

LEMMA ReopenDoes ==
    ASSUME NEW s, IsState(s), NEW r, r = reopen_if_ended(s)
    PROVE  /\ Goes(s, r) /\ SamePoints(s, r) /\ SameEdge(s, r) /\ r.cur.running = s.cur.running
           /\ s.sh.state # "Ended" => r = s
           /\ s.sh.state = "Ended" /\ s.ok /\ r.ok => r.cur.mode = "Cued" /\ r.sh.state = "Paused" /\ r.lanes.want
           /\ ~r.ok => SameRuns(s, r) /\ r.sh = s.sh
           /\ ~s.ok => ~r.ok
<1>1. CASE s.sh.state # "Ended"
  BY <1>1 DEF reopen_if_ended, IsState, Goes, SamePoints, SameEdge, SameRuns
<1>2. CASE s.sh.state = "Ended"
  <2>1. PICK o : o = OpenLanes(s) OBVIOUS
  <2>2. /\ Goes(s, o) /\ SameRuns(s, o) /\ SamePoints(s, o) /\ SameEdge(s, o) /\ o.cur = s.cur /\ o.sh = s.sh
        /\ s.ok => o.lanes.want
        /\ ~s.ok => o = s
    BY <2>1, OpenLanesDoes
  <2>3. r = IF o.ok THEN [o EXCEPT !.cur.mode = "Cued", !.sh.state = "Paused"] ELSE o
    BY <1>2, <2>1 DEF reopen_if_ended
  <2>4. CASE ~o.ok BY <1>2, <2>2, <2>3, <2>4 DEF Goes, IsState
  <2>5. CASE o.ok
    <3>1. /\ DOMAIN r = DOMAIN o /\ r.cur = [o.cur EXCEPT !.mode = "Cued"] /\ r.sh = [o.sh EXCEPT !.state = "Paused"]
          /\ r.lanes = o.lanes /\ r.ok = o.ok
      BY <2>2, <2>3, <2>5 DEF Goes, IsState
    <3>2. IsOnAir(o.cur) /\ IsShared(o.sh) BY <2>2 DEF Goes, IsState
    <3>3. /\ IsOnAir(r.cur) /\ r.cur.mode = "Cued" /\ r.cur.serial = o.cur.serial /\ r.cur.item = o.cur.item
          /\ r.cur.dead = o.cur.dead /\ r.cur.req = o.cur.req /\ r.cur.at_edge = o.cur.at_edge
          /\ r.cur.running = o.cur.running
      BY <3>1, <3>2 DEF IsOnAir, IsClip, Modes
    <3>4. IsShared(r.sh) /\ r.sh.state = "Paused" /\ r.sh.clip = o.sh.clip /\ r.sh.item = o.sh.item /\ r.sh.error = o.sh.error
      BY <3>1, <3>2 DEF IsShared, States
    <3> QED BY <1>2, <2>2, <2>5, <3>1, <3>3, <3>4 DEF Goes, IsState, SamePoints, SameEdge
  <2> QED BY <2>4, <2>5
<1> QED BY <1>1, <1>2

LEMMA PlayOnDoes ==
    ASSUME NEW s, IsState(s), NEW isover \in BOOLEAN, NEW r, r = play_on(s, isover)
    PROVE  /\ Goes(s, r) /\ SameRuns(s, r) /\ SameEdge(s, r) /\ r.lanes = s.lanes /\ r.ok = s.ok
           /\ r.sh.state = s.sh.state /\ r.cur.req.rate = s.cur.req.rate
           /\ s.sh.clip = s.cur.req => r.sh.clip = r.cur.req
<1>1. CASE ~PlaysOn(s, isover)
  BY <1>1 DEF play_on, Goes, SameRuns, SameEdge
<1>2. CASE PlaysOn(s, isover)
  <2>1. /\ DOMAIN r = DOMAIN s /\ r.lanes = s.lanes /\ r.ok = s.ok
        /\ r.cur = [s.cur EXCEPT !.req = [s.cur.req EXCEPT !.out = FALSE]]
        /\ r.sh = [s.sh EXCEPT !.clip = [s.sh.clip EXCEPT !.out = FALSE]]
    BY <1>2 DEF play_on, IsState
  <2>2. PICK req : req = [s.cur.req EXCEPT !.out = FALSE] OBVIOUS
  <2>3. PICK clip : clip = [s.sh.clip EXCEPT !.out = FALSE] OBVIOUS
  <2>4. IsRequest(req) /\ req.media = s.cur.req.media /\ req.rate = s.cur.req.rate
    BY <2>2 DEF IsState, IsOnAir, IsClip, IsRequest
  <2>5. /\ IsOnAir(r.cur) /\ r.cur.req = req /\ r.cur.serial = s.cur.serial /\ r.cur.item = s.cur.item
        /\ r.cur.dead = s.cur.dead /\ r.cur.at_edge = s.cur.at_edge /\ SameRuns(s, r)
    BY <2>1, <2>2, <2>4 DEF IsState, IsOnAir, IsClip, SameRuns
  <2>6. /\ IsShared(r.sh) /\ r.sh.clip = clip /\ r.sh.state = s.sh.state /\ r.sh.item = s.sh.item
        /\ r.sh.error = s.sh.error
    BY <2>1, <2>3 DEF IsState, IsShared
  <2>7. s.sh.clip = s.cur.req => clip = req BY <2>2, <2>3
  <2> QED BY <2>1, <2>4, <2>5, <2>6, <2>7 DEF Goes, IsState, SameEdge
<1> QED BY <1>1, <1>2

----------------------------------------------------------------------------
(* Commands on the clip on air *)

\* What OnAirAgrees says of a command's state, and what is at an edge in it.
Agrees(s) ==
    ~s.cur.dead =>
        /\ s.sh.clip = s.cur.req
        /\ s.cur.running = (s.sh.state = "Playing")
        /\ (s.cur.mode = "Playing") = (s.sh.state = "Playing")
        /\ s.lanes.want \/ s.sh.state = "Ended"
PlaysAtEdge(s) == ~s.cur.dead /\ s.cur.at_edge /\ s.cur.req.rate > 0 /\ s.sh.state = "Playing"
EdgeStays(s, r) == (r.cur.at_edge => s.cur.at_edge) /\ (PlaysAtEdge(r) => PlaysAtEdge(s))

LEMMA HereIs ==
    ASSUME Typed, OnAir, current # None
    PROVE  /\ IsState(Here) /\ Here.cur = current /\ Here.sh = shared /\ Here.lanes = lanes /\ Here.ok
           /\ Goes(Here, Here) /\ Agrees(Here) /\ Here.sh.state # "Idle"
<1>1. PICK s : s = Here OBVIOUS
<1>2. DOMAIN s = {"cur", "sh", "lanes", "ok"} /\ s.cur = current /\ s.sh = shared /\ s.lanes = lanes /\ s.ok = TRUE
  BY <1>1 DEF Here
<1>3. IsState(s) BY <1>2 DEF IsState, Typed
<1>4. Goes(s, s) BY <1>3 DEF Goes
<1>5. Agrees(s) /\ s.sh.state # "Idle" BY <1>2 DEF Agrees, OnAir, OnAirAgrees
<1> QED BY <1>1, <1>2, <1>3, <1>4, <1>5

LEMMA GoesOn ==
    ASSUME NEW s, NEW r, NEW t, Goes(s, r), Goes(r, t) PROVE Goes(s, t)
BY DEF Goes

LEMMA FailsAre ==
    ASSUME Typed, current # None, NEW fails \in Fails(current)
    PROVE  fails \in {"none", "seek", "run"} /\ (~current.dead => fails = "none")
BY DEF Fails

\* A command that leaves the clip on air, and status with it.
LEMMA CommandKeeps ==
    ASSUME Playable, IInv, current # None, NEW s, Goes(Here, s), Agrees(s), s.sh.state # "Idle",
           EdgeStays(Here, s), Becomes(s)
    PROVE  IInv'
<1>1. /\ Typed /\ SerialsDiffer /\ Deck /\ OnAir /\ IsState(Here) /\ Here.cur = current /\ Here.sh = shared
      /\ current' = s.cur /\ shared' = s.sh /\ lanes' = s.lanes
      /\ UNCHANGED <<items, loop_playlist, next, preloading, position, preloads, tasks, asked>>
  BY HereIs DEF IInv, Becomes
<1>2. /\ IsOnAir(current') /\ IsShared(shared') /\ IsLanes(lanes')
      /\ current'.serial = current.serial /\ current'.item = current.item /\ current'.dead = current.dead
      /\ current'.req.media = current.req.media /\ shared'.item = shared.item /\ shared'.error = shared.error
  BY <1>1 DEF Goes, IsState
<1>3. current' # None BY <1>2, NoneIsNone DEF IsOnAir
<1>4. Typed' BY <1>1, <1>2 DEF Typed
<1>5. SerialsDiffer' BY <1>1, <1>2, <1>3 DEF SerialsDiffer
<1>6. Deck'
  <2>1. /\ following(current, items, loop_playlist)' = following(current, items, loop_playlist)
        /\ Noted(current, items)' = Noted(current, items)
    BY <1>1, <1>2, <1>3, SameFollows
  <2>2. PositionIsNoted' BY <1>1, <2>1 DEF Deck, PositionIsNoted
  <2>3. CueIsOnItsWay' BY <1>1 DEF Deck, CueIsOnItsWay
  <2>4. NextIsComing' BY <1>1, <1>2, <2>1 DEF Deck, NextIsComing, Is
  <2> QED BY <2>2, <2>3, <2>4 DEF Deck
<1>7. OnAir'
  <2>1. OnAirAgrees' BY <1>1, <1>2, <1>3 DEF OnAir, OnAirAgrees, Agrees
  <2>2. EdgeGrows' BY <1>1, <1>2, <1>3 DEF OnAir, EdgeGrows, EdgeStays, grows
  <2>3. EdgeIsWatched' BY <1>1, <1>2, <1>3 DEF OnAir, EdgeIsWatched, EdgeStays, PlaysAtEdge, Has
  <2> QED BY <2>1, <2>2, <2>3 DEF OnAir
<1> QED BY <1>4, <1>5, <1>6, <1>7 DEF IInv

LEMMA PausesKeep ==
    ASSUME Playable, IInv, pause PROVE IInv'
<1>1. Typed /\ OnAir /\ current # None /\ shared.state = "Playing" BY DEF IInv, pause
<1>2. PICK fails \in Fails(current) : Becomes(Say(Run(Here, "Cued", FALSE, fails), "Paused")) BY DEF pause
<1>3. ~current.dead => fails = "none" BY <1>1, FailsAre
<1>4. /\ IsState(Here) /\ Here.cur = current /\ Here.sh = shared /\ Here.lanes = lanes /\ Here.ok
      /\ Agrees(Here)
  BY <1>1, HereIs
<1>5. PICK r : r = Run(Here, "Cued", FALSE, fails) OBVIOUS
<1>6. /\ Goes(Here, r) /\ SamePoints(Here, r) /\ SameEdge(Here, r) /\ r.sh = Here.sh /\ r.lanes = Here.lanes
      /\ Here.ok /\ fails # "run" => r.ok /\ r.cur.mode = "Cued" /\ r.cur.running = FALSE
  <2>1. PICK no \in BOOLEAN : no = FALSE OBVIOUS
  <2>2. r = Run(Here, "Cued", no, fails) BY <1>5, <2>1
  <2> QED BY <1>4, <2>1, <2>2, RunDoes
<1>7. PICK s : s = Say(r, "Paused") OBVIOUS
<1>8. "Paused" \in States /\ IsState(r) BY <1>6 DEF States, Goes
<1>9. /\ Goes(r, s) /\ SameRuns(r, s) /\ SamePoints(r, s) /\ SameEdge(r, s) /\ s.lanes = r.lanes /\ s.ok = r.ok
      /\ (r.ok => s.sh.state = "Paused") /\ (~r.ok => s = r)
  BY <1>7, <1>8, SayDoes
<1>10. Goes(Here, s) BY <1>6, <1>9, GoesOn
<1>11. s.sh.state # "Idle" BY <1>1, <1>4, <1>6, <1>9
<1>12. Agrees(s)
  <2> SUFFICES ASSUME ~s.cur.dead
               PROVE  /\ s.sh.clip = s.cur.req
                      /\ s.cur.running = (s.sh.state = "Playing")
                      /\ (s.cur.mode = "Playing") = (s.sh.state = "Playing")
                      /\ s.lanes.want \/ s.sh.state = "Ended"
    BY DEF Agrees
  <2>1. s.cur.dead = Here.cur.dead /\ Here.cur = current BY <1>4, <1>10 DEF Goes
  <2>2. ~Here.cur.dead /\ ~current.dead BY <2>1
  <2>3. fails = "none" BY <1>3, <2>2
  <2>4. r.ok /\ r.cur.mode = "Cued" /\ r.cur.running = FALSE BY <1>4, <1>6, <2>3
  <2>5. s.cur.mode = "Cued" /\ s.cur.running = FALSE /\ s.sh.state = "Paused" BY <1>9, <2>4 DEF SameRuns
  <2>6. Here.sh.clip = Here.cur.req /\ (Here.lanes.want \/ Here.sh.state = "Ended") BY <1>4, <2>2 DEF Agrees
  <2>7. s.sh.clip = s.cur.req
    <3>1. r.cur.req = Here.cur.req /\ r.sh.clip = Here.sh.clip BY <1>6 DEF SamePoints
    <3>2. s.cur.req = r.cur.req /\ s.sh.clip = r.sh.clip BY <1>9 DEF SamePoints
    <3> QED BY <2>6, <3>1, <3>2
  <2>8. s.lanes.want
    <3>1. Here.sh.state = "Playing" BY <1>1, <1>4
    <3>2. s.lanes = Here.lanes BY <1>6, <1>9
    <3> QED BY <2>6, <3>1, <3>2
  <2> QED BY <2>5, <2>7, <2>8
<1>13. EdgeStays(Here, s)
  BY <1>3, <1>4, <1>6, <1>9, <1>10 DEF EdgeStays, PlaysAtEdge, SameEdge, SamePoints, Goes
<1> QED BY <1>1, <1>2, <1>5, <1>7, <1>10, <1>11, <1>12, <1>13, CommandKeeps

\* Calls on a player fail only when it did.
Fair(s, fails) == ~s.cur.dead => fails = "none"

LEMMA FairGoes ==
    ASSUME NEW s, NEW fails, Fair(s, fails), NEW r, Goes(s, r) PROVE Fair(r, fails)
BY DEF Fair, Goes

LEMMA HereIsFair ==
    ASSUME Typed, OnAir, current # None, NEW fails \in Fails(current) PROVE Fair(Here, fails)
BY HereIs, FailsAre DEF Fair

\* A seek, off the edge.
LEMMA SeeksOffEdge ==
    ASSUME NEW s, IsState(s), NEW fails, Fair(s, fails), NEW at \in Places, NEW rate \in {1, -1},
           NEW r, r = OffEdge(SeekTo(s, at, rate, fails))
    PROVE  /\ Goes(s, r) /\ SameRuns(s, r) /\ SamePoints(s, r) /\ r.sh = s.sh /\ r.lanes = s.lanes
           /\ Fair(r, fails)
           /\ s.ok /\ ~s.cur.dead => r.ok
           /\ r.ok => ~r.cur.at_edge
           /\ (r.cur.at_edge => s.cur.at_edge)
           /\ ~s.ok => r = s
<1>1. PICK k : k = SeekTo(s, at, rate, fails) OBVIOUS
<1>2. /\ Goes(s, k) /\ SameRuns(s, k) /\ SamePoints(s, k) /\ SameEdge(s, k) /\ k.sh = s.sh /\ k.lanes = s.lanes
      /\ s.ok /\ fails # "seek" => k.ok
      /\ ~s.ok => k = s
  BY <1>1, SeekDoes
<1>3. /\ Goes(k, r) /\ SameRuns(k, r) /\ SamePoints(k, r) /\ r.sh = k.sh /\ r.lanes = k.lanes /\ r.ok = k.ok
      /\ r.ok => ~r.cur.at_edge
      /\ ~k.ok => r = k
  BY <1>1, <1>2, OffEdgeDoes DEF Goes
<1>4. Goes(s, r) BY <1>2, <1>3, GoesOn
<1>5. SameRuns(s, r) /\ SamePoints(s, r) BY <1>2, <1>3 DEF SameRuns, SamePoints
<1>6. Fair(r, fails) BY <1>4, <1>5 DEF Fair, Goes, SamePoints
<1>7. ~s.cur.dead => fails = "none" BY DEF Fair
<1>8. (r.cur.at_edge => s.cur.at_edge)
  BY <1>2, <1>3, <1>4 DEF SameEdge, Goes, IsState
<1>9. ~s.ok => r = s BY <1>2, <1>3 DEF IsState
<1> QED BY <1>2, <1>3, <1>4, <1>5, <1>6, <1>7, <1>8, <1>9

LEMMA SeeksKeep ==
    ASSUME Playable, IInv, seek PROVE IInv'
<1>1. Typed /\ OnAir /\ current # None BY DEF IInv, seek
<1>2. PICK at \in Places, fails \in Fails(current) :
        Becomes(OffEdge(SeekTo(reopen_if_ended(Here), at, current.rate, fails)))
  BY DEF seek
<1>3. /\ IsState(Here) /\ Here.cur = current /\ Here.sh = shared /\ Here.lanes = lanes /\ Here.ok
      /\ Agrees(Here) /\ Here.sh.state # "Idle" /\ Fair(Here, fails)
  BY <1>1, HereIs, HereIsFair
<1>4. PICK r : r = reopen_if_ended(Here) OBVIOUS
<1>5. /\ Goes(Here, r) /\ SamePoints(Here, r) /\ SameEdge(Here, r) /\ r.cur.running = Here.cur.running
      /\ Here.sh.state # "Ended" => r = Here
      /\ Here.sh.state = "Ended" /\ r.ok => r.cur.mode = "Cued" /\ r.sh.state = "Paused" /\ r.lanes.want
      /\ ~r.ok => SameRuns(Here, r) /\ r.sh = Here.sh
  BY <1>3, <1>4, ReopenDoes
<1>6. Fair(r, fails) /\ IsState(r) BY <1>3, <1>5 DEF SamePoints, Goes, Fair
<1>8. PICK t : t = OffEdge(SeekTo(r, at, current.rate, fails)) OBVIOUS
<1>9. current.rate \in {1, -1} BY <1>1 DEF Typed, IsOnAir, IsClip
<1>10. /\ Goes(r, t) /\ SameRuns(r, t) /\ SamePoints(r, t) /\ t.sh = r.sh /\ t.lanes = r.lanes
       /\ r.ok /\ ~r.cur.dead => t.ok
       /\ t.ok => ~t.cur.at_edge
       /\ (t.cur.at_edge => r.cur.at_edge)
       /\ ~r.ok => t = r
  BY <1>6, <1>8, <1>9, SeeksOffEdge
<1>11. Goes(Here, t) BY <1>5, <1>10, GoesOn
<1>12. t.sh.state # "Idle" BY <1>3, <1>5, <1>10 DEF IsState
<1>13. Agrees(t)
  BY <1>3, <1>5, <1>10, <1>11 DEF Agrees, SameRuns, SamePoints, Goes
<1>14. EdgeStays(Here, t)
  BY <1>3, <1>5, <1>10, <1>11 DEF EdgeStays, PlaysAtEdge, SameEdge, SamePoints, Goes
<1> QED BY <1>1, <1>2, <1>4, <1>8, <1>11, <1>12, <1>13, <1>14, CommandKeeps

LEMMA RatesKeep ==
    ASSUME Playable, IInv, set_rate PROVE IInv'
<1>1. Typed /\ OnAir /\ current # None BY DEF IInv, set_rate
<1> DEFINE isover == shared.state = "Ended"
<1>rate. PICK rate \in {1, -1}, fails \in Fails(current) :
        LET r == reopen_if_ended(Here)
            p == IF rate > 0 THEN play_on(r, isover) ELSE r
            q == IF p.ok THEN [p EXCEPT !.cur.req.rate = rate] ELSE p
            s == OffEdge(SeekTo(q, current.at, rate, fails))
        IN  Becomes(IF s.ok THEN [s EXCEPT !.sh.clip.rate = rate] ELSE s)
  BY Zenon DEF set_rate
<1>r. PICK r : r = reopen_if_ended(Here) OBVIOUS
<1>p. PICK p : p = IF rate > 0 THEN play_on(r, isover) ELSE r OBVIOUS
<1>q. PICK q : q = IF p.ok THEN [p EXCEPT !.cur.req.rate = rate] ELSE p OBVIOUS
<1>s. PICK s : s = OffEdge(SeekTo(q, current.at, rate, fails)) OBVIOUS
<1>t. PICK t : t = IF s.ok THEN [s EXCEPT !.sh.clip.rate = rate] ELSE s BY Zenon
<1>2. /\ r = reopen_if_ended(Here)
      /\ p = IF rate > 0 THEN play_on(r, isover) ELSE r
      /\ q = IF p.ok THEN [p EXCEPT !.cur.req.rate = rate] ELSE p
      /\ s = OffEdge(SeekTo(q, current.at, rate, fails))
      /\ t = IF s.ok THEN [s EXCEPT !.sh.clip.rate = rate] ELSE s
      /\ Becomes(t)
  BY <1>rate, <1>r, <1>p, <1>q, <1>s, <1>t, ZenonT(40)
<1>3. /\ IsState(Here) /\ Here.cur = current /\ Here.sh = shared /\ Here.lanes = lanes /\ Here.ok
      /\ Agrees(Here) /\ Here.sh.state # "Idle" /\ Fair(Here, fails)
  BY <1>1, HereIs, HereIsFair
<1>4. /\ Goes(Here, r) /\ SamePoints(Here, r) /\ SameEdge(Here, r) /\ r.cur.running = Here.cur.running
      /\ Here.sh.state # "Ended" => r = Here
      /\ Here.sh.state = "Ended" /\ r.ok => r.cur.mode = "Cued" /\ r.sh.state = "Paused" /\ r.lanes.want
      /\ ~r.ok => SameRuns(Here, r) /\ r.sh = Here.sh
  <2>1. r = reopen_if_ended(Here) BY <1>2, Zenon
  <2> QED BY <1>3, <2>1, ReopenDoes
<1>5. /\ Goes(r, p) /\ SameRuns(r, p) /\ SameEdge(r, p) /\ p.lanes = r.lanes /\ p.ok = r.ok
      /\ p.sh.state = r.sh.state /\ p.cur.req.rate = r.cur.req.rate
      /\ r.sh.clip = r.cur.req => p.sh.clip = p.cur.req
  <2>1. CASE rate > 0
    <3>1. PICK e \in BOOLEAN : e = isover BY Zenon
    <3>2. IsState(r) /\ p = play_on(r, e) BY <1>2, <1>4, <2>1, <3>1, Zenon DEF Goes
    <3> QED BY <3>2, PlayOnDoes
  <2>2. CASE ~(rate > 0) BY <1>2, <1>4, <2>2 DEF Goes, SameRuns, SameEdge
  <2> QED BY <2>1, <2>2
<1>6. IsState(p) /\ IsOnAir(p.cur) /\ IsRequest(p.cur.req) BY <1>5 DEF Goes, IsState, IsOnAir, IsClip
\* The rate is first the clip's, then told.
<1>7. /\ Goes(p, q) /\ SameRuns(p, q) /\ SameEdge(p, q) /\ q.lanes = p.lanes /\ q.ok = p.ok /\ q.sh = p.sh
      /\ q.ok => q.cur.req = [p.cur.req EXCEPT !.rate = rate]
      /\ ~q.ok => q = p
  <2>1. CASE p.ok
    <3>1. PICK req : req = [p.cur.req EXCEPT !.rate = rate] OBVIOUS
    <3>2. IsRequest(req) /\ req.media = p.cur.req.media BY <1>6, <3>1 DEF IsRequest
    <3>3. /\ DOMAIN q = DOMAIN p /\ q.cur = [p.cur EXCEPT !.req = req] /\ q.sh = p.sh /\ q.lanes = p.lanes
          /\ q.ok = p.ok
      BY <1>2, <1>6, <2>1, <3>1, Zenon DEF IsState
    <3>4. /\ IsOnAir(q.cur) /\ q.cur.req = req /\ q.cur.serial = p.cur.serial /\ q.cur.item = p.cur.item
          /\ q.cur.dead = p.cur.dead /\ SameEdge(p, q) /\ SameRuns(p, q)
      BY <1>6, <3>2, <3>3 DEF IsOnAir, IsClip, SameRuns, SameEdge
    <3> QED BY <1>6, <2>1, <3>1, <3>2, <3>3, <3>4 DEF Goes, IsState
  <2>2. CASE ~p.ok BY <1>2, <1>6, <2>2, Zenon DEF Goes, SameRuns, SameEdge
  <2> QED BY <2>1, <2>2
<1>8. Goes(Here, q) /\ Fair(q, fails) /\ IsState(q) BY <1>3, <1>4, <1>5, <1>7, GoesOn, FairGoes DEF Goes
<1>9. /\ Goes(q, s) /\ SameRuns(q, s) /\ SamePoints(q, s) /\ s.sh = q.sh /\ s.lanes = q.lanes
      /\ q.ok /\ ~q.cur.dead => s.ok
      /\ s.ok => ~s.cur.at_edge
      /\ (s.cur.at_edge => q.cur.at_edge)
      /\ ~q.ok => s = q
  <2>1. current.at \in Places BY <1>1 DEF Typed, IsOnAir, IsClip
  <2>2. s = OffEdge(SeekTo(q, current.at, rate, fails)) /\ rate \in {1, -1} BY <1>2, Zenon
  <2> QED BY <1>8, <2>1, <2>2, SeeksOffEdge
<1>10. /\ Goes(s, t) /\ t.cur = s.cur /\ t.lanes = s.lanes /\ t.ok = s.ok /\ t.sh.state = s.sh.state
       /\ s.ok => t.sh.clip = [s.sh.clip EXCEPT !.rate = rate]
       /\ ~s.ok => t = s
  <2>1. CASE s.ok
    <3>1. PICK clip : clip = [s.sh.clip EXCEPT !.rate = rate] BY Zenon
    <3>2. /\ DOMAIN t = DOMAIN s /\ t.sh = [s.sh EXCEPT !.clip = clip] /\ t.cur = s.cur /\ t.lanes = s.lanes
          /\ t.ok = s.ok
      BY <1>2, <1>9, <2>1, <3>1, ZenonT(40) DEF Goes, IsState
    <3>3. IsShared(s.sh) BY <1>9 DEF Goes, IsState
    <3>4. /\ IsShared(t.sh) /\ t.sh.clip = clip /\ t.sh.state = s.sh.state /\ t.sh.item = s.sh.item
          /\ t.sh.error = s.sh.error
      BY <3>2, <3>3 DEF IsShared
    <3> QED BY <1>9, <2>1, <3>1, <3>2, <3>4 DEF Goes, IsState
  <2>2. CASE ~s.ok BY <1>2, <1>9, <2>2, Zenon DEF Goes
  <2> QED BY <2>1, <2>2
<1>11. Goes(q, t) /\ Goes(Here, t) BY <1>8, <1>9, <1>10, GoesOn
<1>12. t.sh.state # "Idle" BY <1>3, <1>4, <1>5, <1>7, <1>9, <1>10 DEF IsState
<1>13. ASSUME ~t.cur.dead PROVE t.sh.clip = t.cur.req
  <2>1. ~current.dead /\ ~q.cur.dead /\ ~s.cur.dead BY <1>3, <1>8, <1>9, <1>11, <1>13 DEF Goes
  <2>2. r.sh.clip = r.cur.req BY <1>3, <1>4, <2>1 DEF Agrees, SamePoints
  <2>3. p.sh.clip = p.cur.req BY <1>5, <2>2
  <2>4. CASE q.ok
    <3>1. s.ok BY <1>9, <2>1, <2>4
    <3>2. s.sh.clip = p.sh.clip /\ s.cur.req = [p.cur.req EXCEPT !.rate = rate] BY <1>7, <1>9, <2>4 DEF SamePoints
    <3> QED BY <1>10, <2>3, <3>1, <3>2
  <2>5. CASE ~q.ok BY <1>7, <1>9, <1>10, <2>3, <2>5
  <2> QED BY <2>4, <2>5
<1>14. Agrees(t)
  <2> SUFFICES ASSUME ~t.cur.dead
               PROVE  /\ t.cur.running = (t.sh.state = "Playing")
                      /\ (t.cur.mode = "Playing") = (t.sh.state = "Playing")
                      /\ t.lanes.want \/ t.sh.state = "Ended"
    BY <1>13 DEF Agrees
  <2>1. ~current.dead BY <1>3, <1>11 DEF Goes
  <2>2. SameRuns(r, t) /\ t.sh.state = r.sh.state /\ t.lanes = r.lanes
    BY <1>5, <1>7, <1>9, <1>10 DEF SameRuns
  <2> QED BY <1>3, <1>4, <2>1, <2>2 DEF Agrees, SameRuns
<1>15. EdgeStays(Here, t)
  <2>1. t.cur.at_edge => Here.cur.at_edge BY <1>4, <1>5, <1>7, <1>9, <1>10 DEF SameEdge
  <2>2. ASSUME PlaysAtEdge(t) PROVE FALSE
    <3>1. ~s.ok /\ ~q.cur.dead BY <1>9, <1>10, <1>11, <2>2 DEF PlaysAtEdge, Goes
    <3>2. ~q.ok /\ ~r.ok BY <1>5, <1>7, <1>9, <3>1
    <3>3. Here.sh.state = "Ended" /\ t.sh.state = r.sh.state /\ r.sh = Here.sh
      BY <1>3, <1>4, <1>5, <1>7, <1>9, <1>10, <3>2
    <3> QED BY <2>2, <3>3 DEF PlaysAtEdge
  <2> QED BY <2>1, <2>2 DEF EdgeStays
<1> QED BY <1>1, <1>2, <1>11, <1>12, <1>14, <1>15, CommandKeeps, ZenonT(40)

LEMMA StepsKeep ==
    ASSUME Playable, IInv, step PROVE IInv'
<1>1. Typed /\ OnAir /\ current # None BY DEF IInv, step
<1> DEFINE isover == shared.state = "Ended"
<1>2. PICK rate \in {1, -1}, fails \in Fails(current) :
        LET p == IF shared.state = "Playing" THEN Run(Here, "Cued", FALSE, fails) ELSE Here
            r == reopen_if_ended(p)
            turns == r.ok /\ (current.rate # rate \/ (rate > 0 /\ PlaysOn(r, isover)))
            o == IF rate > 0 THEN play_on(r, isover) ELSE r
            t == IF turns THEN OffEdge(SeekTo(o, current.at, rate, fails)) ELSE o
        IN  \E at \in Places : Becomes(Say(IF t.ok THEN [t EXCEPT !.cur.at = at] ELSE t, "Paused"))
  BY DEF step
<1>p. PICK p : p = IF shared.state = "Playing" THEN Run(Here, "Cued", FALSE, fails) ELSE Here OBVIOUS
<1>r. PICK r : r = reopen_if_ended(p) OBVIOUS
<1>turns. PICK turns \in BOOLEAN : turns = (r.ok /\ (current.rate # rate \/ (rate > 0 /\ PlaysOn(r, isover)))) OBVIOUS
<1>o. PICK o : o = IF rate > 0 THEN play_on(r, isover) ELSE r OBVIOUS
<1>t. PICK t : t = IF turns THEN OffEdge(SeekTo(o, current.at, rate, fails)) ELSE o OBVIOUS
<1>at. PICK at \in Places : Becomes(Say(IF t.ok THEN [t EXCEPT !.cur.at = at] ELSE t, "Paused"))
  BY <1>2, <1>p, <1>r, <1>turns, <1>o, <1>t
<1>u. PICK u : u = IF t.ok THEN [t EXCEPT !.cur.at = at] ELSE t OBVIOUS
<1>v. PICK v : v = Say(u, "Paused") OBVIOUS
<1>b. Becomes(v) BY <1>at, <1>u, <1>v
<1>3. /\ IsState(Here) /\ Here.cur = current /\ Here.sh = shared /\ Here.lanes = lanes /\ Here.ok
      /\ Agrees(Here) /\ Here.sh.state # "Idle" /\ Fair(Here, fails) /\ Goes(Here, Here)
  BY <1>1, HereIs, HereIsFair
\* It pauses first.
<1>4. /\ Goes(Here, p) /\ SamePoints(Here, p) /\ SameEdge(Here, p) /\ p.sh = Here.sh /\ p.lanes = Here.lanes
      /\ Here.sh.state # "Playing" => p = Here
      /\ ~Here.cur.dead => p.ok /\ (Here.sh.state = "Playing" => p.cur.mode = "Cued" /\ ~p.cur.running)
  <2>1. CASE shared.state = "Playing"
    <3>1. PICK no \in BOOLEAN : no = FALSE OBVIOUS
    <3>2. p = Run(Here, "Cued", no, fails) BY <1>p, <2>1, <3>1
    <3>3. /\ Goes(Here, p) /\ SamePoints(Here, p) /\ SameEdge(Here, p) /\ p.sh = Here.sh /\ p.lanes = Here.lanes
          /\ Here.ok /\ fails # "run" => p.ok /\ p.cur.mode = "Cued" /\ p.cur.running = no
      BY <1>3, <3>2, RunDoes
    <3>4. ~Here.cur.dead => fails = "none" BY <1>3 DEF Fair
    <3> QED BY <1>3, <2>1, <3>1, <3>3, <3>4
  <2>2. CASE shared.state # "Playing"
    <3>1. p = Here BY <1>p, <2>2
    <3> QED BY <1>3, <2>2, <3>1 DEF SamePoints, SameEdge
  <2> QED BY <2>1, <2>2
<1>5. /\ Goes(p, r) /\ SamePoints(p, r) /\ SameEdge(p, r) /\ r.cur.running = p.cur.running
      /\ p.sh.state # "Ended" => r = p
      /\ p.sh.state = "Ended" /\ p.ok /\ r.ok => r.cur.mode = "Cued" /\ r.sh.state = "Paused" /\ r.lanes.want
      /\ ~r.ok => SameRuns(p, r) /\ r.sh = p.sh
      /\ ~p.ok => ~r.ok
  <2>1. r = reopen_if_ended(p) /\ IsState(p) BY <1>r, <1>4 DEF Goes
  <2> QED BY <2>1, ReopenDoes
<1>6. /\ Goes(r, o) /\ SameRuns(r, o) /\ SameEdge(r, o) /\ o.lanes = r.lanes /\ o.ok = r.ok
      /\ o.sh.state = r.sh.state /\ o.cur.req.rate = r.cur.req.rate
      /\ r.sh.clip = r.cur.req => o.sh.clip = o.cur.req
  <2>1. CASE rate > 0
    <3>1. PICK e \in BOOLEAN : e = isover OBVIOUS
    <3>2. IsState(r) /\ o = play_on(r, e) BY <1>o, <1>5, <2>1, <3>1 DEF Goes
    <3> QED BY <3>2, PlayOnDoes
  <2>2. CASE ~(rate > 0) BY <1>o, <1>5, <2>2 DEF Goes, SameRuns, SameEdge
  <2> QED BY <2>1, <2>2
<1>7. Goes(Here, r) /\ Goes(Here, o) /\ Fair(o, fails) /\ IsState(o)
  BY <1>3, <1>4, <1>5, <1>6, GoesOn, FairGoes DEF Goes
<1>8. /\ Goes(o, t) /\ SameRuns(o, t) /\ SamePoints(o, t) /\ t.sh = o.sh /\ t.lanes = o.lanes
      /\ o.ok /\ ~o.cur.dead => t.ok
      /\ (t.cur.at_edge => o.cur.at_edge)
      /\ ~o.ok => t = o
  <2>1. CASE turns
    <3>1. current.at \in Places BY <1>1 DEF Typed, IsOnAir, IsClip
    <3>2. t = OffEdge(SeekTo(o, current.at, rate, fails)) /\ rate \in {1, -1} BY <1>2, <1>t, <2>1
    <3> QED BY <1>7, <3>1, <3>2, SeeksOffEdge
  <2>2. CASE ~turns
    <3>1. t = o BY <1>t, <2>2
    <3> QED BY <1>7, <3>1 DEF Goes, SameRuns, SamePoints
  <2> QED BY <2>1, <2>2
<1>9. /\ Goes(t, u) /\ SameRuns(t, u) /\ SamePoints(t, u) /\ SameEdge(t, u) /\ u.sh = t.sh /\ u.lanes = t.lanes /\ u.ok = t.ok
  <2>1. CASE t.ok
    <3>1. /\ DOMAIN u = DOMAIN t /\ u.sh = t.sh /\ u.lanes = t.lanes /\ u.ok = t.ok /\ u.cur = [t.cur EXCEPT !.at = at]
      BY <1>u, <1>8, <2>1 DEF Goes, IsState
    <3>2. IsOnAir(t.cur) /\ at \in Places BY <1>at, <1>8 DEF Goes, IsState
    <3>3. /\ IsOnAir(u.cur) /\ u.cur.req = t.cur.req /\ u.cur.serial = t.cur.serial /\ u.cur.item = t.cur.item
          /\ u.cur.dead = t.cur.dead /\ SameEdge(t, u) /\ SameRuns(t, u)
      BY <3>1, <3>2 DEF IsOnAir, IsClip, SameRuns, SameEdge
    <3> QED BY <1>8, <3>1, <3>3 DEF Goes, IsState, SamePoints
  <2>2. CASE ~t.ok BY <1>u, <1>8, <2>2 DEF Goes, SameRuns, SameEdge, SamePoints
  <2> QED BY <2>1, <2>2
<1>10. /\ Goes(u, v) /\ SameRuns(u, v) /\ SamePoints(u, v) /\ SameEdge(u, v) /\ v.lanes = u.lanes /\ v.ok = u.ok
       /\ u.ok => v.sh.state = "Paused"
       /\ ~u.ok => v = u
  <2>1. v = Say(u, "Paused") /\ IsState(u) /\ "Paused" \in States BY <1>v, <1>9 DEF Goes, States
  <2> QED BY <2>1, SayDoes
<1>11. Goes(o, u) /\ Goes(o, v) /\ Goes(Here, v) /\ Goes(Here, t) BY <1>7, <1>8, <1>9, <1>10, GoesOn
<1>12. v.sh.state # "Idle"
  <2>1. r.sh.state # "Idle" BY <1>3, <1>4, <1>5 DEF Goes, IsState
  <2> QED BY <1>6, <1>8, <1>9, <1>10, <2>1 DEF Goes, IsState
<1>13. SameRuns(r, v) /\ v.lanes = r.lanes BY <1>6, <1>8, <1>9, <1>10 DEF SameRuns
<1>14. ASSUME ~v.cur.dead
       PROVE  /\ ~current.dead /\ p.ok /\ Agrees(Here)
              /\ r.ok => v.ok /\ v.sh.state = "Paused"
              /\ ~r.ok => v.sh.state = r.sh.state
              /\ v.sh.clip = v.cur.req
  <2>1. ~current.dead /\ ~o.cur.dead BY <1>3, <1>7, <1>11, <1>14 DEF Goes
  <2>2. r.ok => t.ok BY <1>6, <1>8, <2>1
  <2>3. o.sh.clip = o.cur.req BY <1>3, <1>4, <1>5, <1>6, <2>1 DEF Agrees, SamePoints
  <2>4. v.sh.clip = v.cur.req BY <1>8, <1>9, <1>10, <2>3 DEF SamePoints
  <2>5. ~r.ok => t = o /\ v = u /\ u.sh = t.sh BY <1>6, <1>8, <1>9, <1>10
  <2>6. r.ok => v.sh.state = "Paused" /\ v.ok BY <1>9, <1>10, <2>2
  <2>7. ~r.ok => v.sh.state = r.sh.state BY <1>6, <2>5
  <2> QED BY <1>3, <1>4, <2>1, <2>4, <2>6, <2>7
<1>15. Agrees(v)
  <2> SUFFICES ASSUME ~v.cur.dead PROVE Agrees(v)
    BY DEF Agrees
  <2>0. v.cur.running \in BOOLEAN BY <1>10 DEF Goes, IsState, IsOnAir, IsClip
  <2>1. /\ ~Here.cur.dead /\ p.ok /\ v.sh.clip = v.cur.req
        /\ r.ok => v.sh.state = "Paused"
        /\ ~r.ok => v.sh.state = r.sh.state
    BY <1>3, <1>14
  <2>2. CASE Here.sh.state = "Playing"
    <3>1. r = p /\ p.cur.mode = "Cued" /\ ~p.cur.running BY <1>4, <1>5, <2>1, <2>2
    <3>2. v.sh.state = "Paused" /\ p.lanes.want BY <1>3, <1>4, <2>1, <2>2, <3>1 DEF Agrees
    <3> QED BY <1>13, <2>0, <2>1, <3>1, <3>2 DEF Agrees, SameRuns
  <2>3. CASE Here.sh.state = "Ended"
    <3>1. p = Here /\ ~Here.cur.running /\ Here.cur.mode # "Playing" BY <1>3, <1>4, <2>1, <2>3 DEF Agrees
    <3>2. CASE r.ok BY <1>3, <1>5, <1>13, <2>1, <2>3, <3>1, <3>2 DEF Agrees, SameRuns
    <3>3. CASE ~r.ok BY <1>4, <1>5, <1>13, <2>0, <2>1, <2>3, <3>1, <3>3 DEF Agrees, SameRuns
    <3> QED BY <3>2, <3>3
  <2>4. CASE Here.sh.state \notin {"Playing", "Ended"}
    <3>1. r = Here BY <1>4, <1>5, <2>4
    <3> QED BY <1>3, <1>13, <2>1, <2>4, <3>1 DEF Agrees, SameRuns
  <2> QED BY <2>2, <2>3, <2>4
<1>16. EdgeStays(Here, v)
  <2>1. v.cur.at_edge => Here.cur.at_edge BY <1>4, <1>5, <1>6, <1>8, <1>9, <1>10 DEF SameEdge
  <2>2. ASSUME PlaysAtEdge(v) PROVE FALSE
    <3>1. ~v.cur.dead /\ v.sh.state = "Playing" BY <2>2 DEF PlaysAtEdge
    <3>2. p.ok /\ ~r.ok /\ r.sh.state = "Playing" BY <1>14, <3>1
    <3> QED BY <1>5, <3>2
  <2> QED BY <2>1, <2>2 DEF EdgeStays
<1> QED BY <1>1, <1>b, <1>11, <1>12, <1>15, <1>16, CommandKeeps

\* However play gets there, it ends by running the clip and saying so.
LEMMA PlayFinishes ==
    ASSUME Playable, IInv, current # None, NEW fails \in Fails(current), NEW s, Goes(Here, s), s.sh.state # "Idle",
           ~s.cur.dead => /\ s.sh.clip = s.cur.req
                          /\ s.ok => s.lanes.want
                          /\ ~s.ok => Agrees(s)
                          /\ s.ok /\ s.cur.at_edge /\ s.cur.req.rate > 0 => PlaysAtEdge(Here),
           shared.state = "Playing" => SameRuns(Here, s),
           EdgeStays(Here, s),
           Becomes(Say(IF shared.state = "Playing" THEN s ELSE Run(s, "Playing", TRUE, fails), "Playing"))
    PROVE  IInv'
<1>1. Typed /\ OnAir BY DEF IInv
<1>2. /\ Here.cur = current /\ Here.sh = shared /\ Agrees(Here) /\ Fair(s, fails) /\ IsState(s)
  BY <1>1, HereIs, HereIsFair, FairGoes DEF Goes
<1>k. PICK k : k = IF shared.state = "Playing" THEN s ELSE Run(s, "Playing", TRUE, fails) OBVIOUS
<1>v. PICK v : v = Say(k, "Playing") OBVIOUS
<1>3. /\ Goes(s, k) /\ SamePoints(s, k) /\ SameEdge(s, k) /\ k.sh = s.sh /\ k.lanes = s.lanes
      /\ ~s.cur.dead /\ s.ok => k.ok /\ k.cur.mode = "Playing" /\ k.cur.running
      /\ ~s.ok => k = s
  <2>1. CASE shared.state = "Playing"
    <3>1. k = s BY <1>k, <2>1
    <3>2. ~s.cur.dead => s.cur.mode = "Playing" /\ s.cur.running
      BY <1>2, <2>1 DEF Agrees, SameRuns, Goes
    <3> QED BY <1>2, <3>1, <3>2 DEF Goes, SamePoints, SameEdge
  <2>2. CASE shared.state # "Playing"
    <3>1. PICK yes \in BOOLEAN : yes = TRUE OBVIOUS
    <3>2. k = Run(s, "Playing", yes, fails) BY <1>k, <2>2, <3>1
    <3>3. /\ Goes(s, k) /\ SamePoints(s, k) /\ SameEdge(s, k) /\ k.sh = s.sh /\ k.lanes = s.lanes
          /\ s.ok /\ fails # "run" => k.ok /\ k.cur.mode = "Playing" /\ k.cur.running = yes
          /\ ~s.ok => k = s
      BY <1>2, <3>2, RunDoes
    <3> QED BY <1>2, <3>1, <3>3 DEF Fair
  <2> QED BY <2>1, <2>2
<1>4. /\ Goes(k, v) /\ SameRuns(k, v) /\ SamePoints(k, v) /\ SameEdge(k, v) /\ v.lanes = k.lanes /\ v.ok = k.ok
      /\ k.ok => v.sh.state = "Playing"
      /\ ~k.ok => v = k
  <2>1. IsState(k) /\ "Playing" \in States BY <1>3 DEF Goes, States
  <2> QED BY <1>v, <2>1, SayDoes
<1>5. Goes(s, v) /\ Goes(Here, v) BY <1>3, <1>4, GoesOn
<1>6. v.sh.state # "Idle" BY <1>3, <1>4 DEF Goes, IsState
<1>7. SamePoints(s, v) /\ SameEdge(s, v) BY <1>3, <1>4 DEF SamePoints, SameEdge
<1>8. Agrees(v)
  <2> SUFFICES ASSUME ~v.cur.dead PROVE Agrees(v)
    BY DEF Agrees
  <2>1. ~s.cur.dead BY <1>5 DEF Goes
  <2>2. CASE s.ok
    <3>1. v.sh.state = "Playing" /\ v.cur.mode = "Playing" /\ v.cur.running /\ v.lanes.want
      BY <1>3, <1>4, <2>1, <2>2 DEF SameRuns
    <3>2. v.cur.running \in BOOLEAN BY <1>5 DEF Goes, IsState, IsOnAir, IsClip
    <3> QED BY <1>7, <2>1, <3>1, <3>2 DEF Agrees, SamePoints
  <2>3. CASE ~s.ok
    <3>1. v = s BY <1>3, <1>4, <2>3
    <3> QED BY <2>1, <2>3, <3>1
  <2> QED BY <2>2, <2>3
<1>9. EdgeStays(Here, v)
  <2>1. v.cur.at_edge => Here.cur.at_edge BY <1>7 DEF SameEdge, EdgeStays
  <2>2. ASSUME PlaysAtEdge(v) PROVE PlaysAtEdge(Here)
    <3>1. ~s.cur.dead /\ s.cur.at_edge /\ s.cur.req.rate > 0 BY <1>5, <1>7, <2>2 DEF PlaysAtEdge, Goes, SamePoints, SameEdge
    <3>2. CASE s.ok BY <3>1, <3>2
    <3>3. CASE ~s.ok BY <1>3, <1>4, <2>2, <3>3 DEF EdgeStays
    <3> QED BY <3>2, <3>3
  <2> QED BY <2>1, <2>2 DEF EdgeStays
<1>10. Becomes(v) BY <1>k, <1>v
<1> QED BY <1>5, <1>6, <1>8, <1>9, <1>10, CommandKeeps

LEMMA PlaysKeep ==
    ASSUME Playable, IInv, play PROVE IInv'
<1>1. Typed /\ OnAir /\ current # None BY DEF IInv, play
<1>2. PICK fails \in Fails(current) : Becomes(Played(fails)) BY DEF play
<1>3. /\ IsState(Here) /\ Here.cur = current /\ Here.sh = shared /\ Here.lanes = lanes /\ Here.ok
      /\ Agrees(Here) /\ Here.sh.state # "Idle" /\ Fair(Here, fails) /\ Goes(Here, Here)
  BY <1>1, HereIs, HereIsFair
<1> DEFINE state == shared.state
           rate == current.req.rate
           on == state # "Playing" /\ rate > 0 /\ PlaysOn(Here, state = "Ended")
           stepped == ~on /\ current.rate # rate /\ state # "Ended"
           s == IF on THEN OffEdge(SeekTo(reopen_if_ended(play_on(Here, state = "Ended")), current.at, rate, fails))
                ELSE IF stepped THEN SeekTo(Here, current.at, rate, fails)
                ELSE IF state = "Ended"
                  THEN SeekTo(OpenLanes(Here), IF rate > 0 THEN "in" ELSE "out", current.rate, fails)
                ELSE Here
<1>4. Becomes(Say(IF state = "Playing" THEN s ELSE Run(s, "Playing", TRUE, fails), "Playing"))
  BY <1>2, Zenon DEF Played
<1>5. current.at \in Places /\ rate \in {1, -1} /\ current.rate \in {1, -1} /\ current.at_edge \in BOOLEAN
  BY <1>1 DEF Typed, IsOnAir, IsClip, IsRequest
\* A replay at its edge plays on: it's never left there.
<1>6. ~on /\ current.at_edge /\ rate > 0 => state = "Playing"
  <2>1. current.at_edge => grows(current) BY <1>1 DEF OnAir, EdgeGrows
  <2>2. current.at_edge => PlaysOn(Here, state = "Ended") BY <1>3, <2>1 DEF PlaysOn, at_end
  <2> QED BY <2>2
<1>7. /\ Goes(Here, s) /\ s.sh.state # "Idle" /\ (shared.state = "Playing" => SameRuns(Here, s)) /\ EdgeStays(Here, s)
      /\ ~s.cur.dead => /\ s.sh.clip = s.cur.req
                        /\ s.ok => s.lanes.want
                        /\ ~s.ok => Agrees(s)
                        /\ s.ok /\ s.cur.at_edge /\ s.cur.req.rate > 0 => PlaysAtEdge(Here)
  <2>1. CASE on
    <3>e. PICK e \in BOOLEAN : e = (state = "Ended") OBVIOUS
    <3>p. PICK p : p = play_on(Here, e) OBVIOUS
    <3>r. PICK r : r = reopen_if_ended(p) OBVIOUS
    <3>s. s = OffEdge(SeekTo(r, current.at, rate, fails)) BY <2>1, <3>e, <3>p, <3>r
    <3> HIDE DEF s, on, stepped
    <3>1. /\ Goes(Here, p) /\ SameRuns(Here, p) /\ SameEdge(Here, p) /\ p.lanes = Here.lanes /\ p.ok = Here.ok
          /\ p.sh.state = Here.sh.state /\ p.cur.req.rate = Here.cur.req.rate
          /\ Here.sh.clip = Here.cur.req => p.sh.clip = p.cur.req
      <4>1. IsState(Here) BY <1>3
      <4> HIDE DEF Here
      <4> QED BY <3>p, <4>1, PlayOnDoes
    <3>2. /\ Goes(p, r) /\ SamePoints(p, r) /\ SameEdge(p, r) /\ r.cur.running = p.cur.running
          /\ p.sh.state # "Ended" => r = p
          /\ p.sh.state = "Ended" /\ p.ok /\ r.ok => r.cur.mode = "Cued" /\ r.sh.state = "Paused" /\ r.lanes.want
          /\ ~r.ok => SameRuns(p, r) /\ r.sh = p.sh
      <4>1. IsState(p) BY <3>1 DEF Goes
      <4> QED BY <3>r, <4>1, ReopenDoes
    <3>3. Goes(Here, r) /\ IsState(r) /\ Fair(r, fails) BY <1>3, <3>1, <3>2, GoesOn, FairGoes DEF Goes
    <3>4. /\ Goes(r, s) /\ SameRuns(r, s) /\ SamePoints(r, s) /\ s.sh = r.sh /\ s.lanes = r.lanes
          /\ r.ok /\ ~r.cur.dead => s.ok
          /\ s.ok => ~s.cur.at_edge
          /\ (s.cur.at_edge => r.cur.at_edge)
          /\ ~r.ok => s = r
      BY <1>5, <3>3, <3>s, SeeksOffEdge
    <3>5. Goes(Here, s) BY <3>3, <3>4, GoesOn
    <3>6. s.sh.state # "Idle" /\ state # "Playing" BY <1>3, <2>1, <3>1, <3>2, <3>4 DEF IsState, on
    <3>7. ASSUME ~s.cur.dead
          PROVE  /\ s.sh.clip = s.cur.req
                 /\ s.ok => s.lanes.want
                 /\ ~s.ok => s = r /\ Agrees(s) /\ s.sh.state # "Playing"
      <4>1. ~Here.cur.dead /\ ~r.cur.dead BY <3>3, <3>5, <3>7 DEF Goes
      <4>2. s.sh.clip = s.cur.req BY <1>3, <3>1, <3>2, <3>4, <4>1 DEF Agrees, SamePoints
      <4>3. CASE r.ok
        <5>1. s.ok BY <3>4, <4>1, <4>3
        <5>2. CASE p.sh.state = "Ended" BY <1>3, <3>1, <3>2, <3>4, <4>2, <4>3, <5>1, <5>2
        <5>3. CASE p.sh.state # "Ended"
          BY <1>3, <3>1, <3>2, <3>4, <4>1, <4>2, <5>1, <5>3 DEF Agrees
        <5> QED BY <5>2, <5>3
      <4>4. CASE ~r.ok
        <5>1. s = r /\ SameRuns(Here, s) /\ s.sh.state = Here.sh.state BY <3>1, <3>2, <3>4, <4>4 DEF SameRuns
        <5>2. p.sh.state = "Ended" BY <1>3, <3>1, <3>2, <4>4
        <5>3. ~s.ok /\ Here.sh.state = "Ended" /\ s.sh.state # "Playing" BY <3>1, <4>4, <5>1, <5>2
        <5>4. Agrees(s) BY <1>3, <4>1, <4>2, <5>1, <5>3 DEF Agrees, SameRuns
        <5> QED BY <4>2, <5>1, <5>3, <5>4
      <4> QED BY <4>3, <4>4
    <3>8. s.cur.at_edge => Here.cur.at_edge BY <3>1, <3>2, <3>4 DEF SameEdge
    <3>9. EdgeStays(Here, s)
      <4>1. ~PlaysAtEdge(s) BY <3>4, <3>7 DEF PlaysAtEdge
      <4> QED BY <3>8, <4>1 DEF EdgeStays
    <3> QED BY <3>4, <3>5, <3>6, <3>7, <3>9
  <2>2. CASE ~on /\ stepped
    <3>1. s = SeekTo(Here, current.at, rate, fails) BY <2>2
    <3>2. state # "Ended" BY <2>2
    <3> HIDE DEF s, on, stepped
    <3>3. /\ Goes(Here, s) /\ SameRuns(Here, s) /\ SamePoints(Here, s) /\ SameEdge(Here, s) /\ s.sh = Here.sh
          /\ s.lanes = Here.lanes
          /\ Here.ok /\ fails # "seek" => s.ok
      BY <1>3, <1>5, <3>1, SeekDoes
    <3>4. ~s.cur.dead => s.ok /\ ~current.dead BY <1>3, <3>3 DEF Goes, Fair
    <3>5. s.cur.at_edge /\ s.cur.req.rate > 0 => state = "Playing" /\ current.at_edge /\ rate > 0
      BY <1>3, <1>6, <2>2, <3>3 DEF SameEdge, SamePoints
    <3>6. EdgeStays(Here, s) BY <1>3, <3>3, <3>4 DEF EdgeStays, PlaysAtEdge, SameEdge, SamePoints
    <3>7. ~s.cur.dead /\ s.cur.at_edge /\ s.cur.req.rate > 0 => PlaysAtEdge(Here)
      BY <1>3, <3>4, <3>5 DEF PlaysAtEdge
    <3>8. ~s.cur.dead => s.sh.clip = s.cur.req /\ s.lanes.want
      BY <1>3, <3>2, <3>3, <3>4 DEF Agrees, SamePoints
    <3> QED BY <1>3, <3>3, <3>4, <3>6, <3>7, <3>8
  <2>3. CASE ~on /\ ~stepped /\ state = "Ended"
    <3>o. PICK o : o = OpenLanes(Here) OBVIOUS
    <3>at. PICK at \in Places : at = IF rate > 0 THEN "in" ELSE "out" BY DEF Places
    <3>1. s = SeekTo(o, at, current.rate, fails) BY <2>3, <3>o, <3>at
    <3> HIDE DEF s, on, stepped
    <3>2. /\ Goes(Here, o) /\ SameRuns(Here, o) /\ SamePoints(Here, o) /\ SameEdge(Here, o) /\ o.sh = Here.sh
          /\ o.lanes.want
      BY <1>3, <3>o, OpenLanesDoes
    <3>3. IsState(o) /\ Fair(o, fails) BY <1>3, <3>2, FairGoes DEF Goes
    <3>4. /\ Goes(o, s) /\ SameRuns(o, s) /\ SamePoints(o, s) /\ SameEdge(o, s) /\ s.sh = o.sh /\ s.lanes = o.lanes
          /\ o.ok /\ fails # "seek" => s.ok
          /\ ~o.ok => s = o
      BY <1>5, <3>1, <3>3, <3>at, SeekDoes
    <3>5. Goes(Here, s) /\ SameRuns(Here, s) /\ SamePoints(Here, s) /\ SameEdge(Here, s) /\ s.sh = Here.sh /\ s.lanes.want
      BY <3>2, <3>4, GoesOn DEF SameRuns, SamePoints, SameEdge
    <3>6. Agrees(s) BY <1>3, <3>5 DEF Agrees, SameRuns, SamePoints, Goes
    <3>7. ~(s.cur.at_edge /\ s.cur.req.rate > 0)
      BY <1>3, <1>6, <2>3, <3>5 DEF SameEdge, SamePoints
    <3>8. EdgeStays(Here, s) BY <3>5, <3>7 DEF EdgeStays, PlaysAtEdge, SameEdge
    <3> QED BY <1>3, <2>3, <3>5, <3>6, <3>7, <3>8 DEF Agrees
  <2>4. CASE ~on /\ ~stepped /\ state # "Ended"
    <3>1. s = Here BY <2>4
    <3> HIDE DEF s, on, stepped
    <3>2. EdgeStays(Here, s) /\ SameRuns(Here, s) BY <3>1 DEF EdgeStays, SameRuns
    <3>3. ~s.cur.dead => s.sh.clip = s.cur.req /\ s.lanes.want BY <1>3, <2>4, <3>1 DEF Agrees
    <3>4. ~s.cur.dead /\ s.cur.at_edge /\ s.cur.req.rate > 0 => PlaysAtEdge(Here)
      BY <1>3, <1>6, <2>4, <3>1 DEF PlaysAtEdge
    <3> QED BY <1>3, <3>1, <3>2, <3>3, <3>4
  <2> QED BY <2>1, <2>2, <2>3, <2>4, Zenon
<1> HIDE DEF s
<1> QED BY <1>1, <1>2, <1>4, <1>7, PlayFinishes

----------------------------------------------------------------------------
(* Clips put on air *)

\* What a command hands over that puts a clip on air, or leaves none there.
PutsOn(s) ==
    /\ s.cur = None \/ IsOnAir(s.cur)
    /\ IsShared(s.sh) /\ IsLanes(s.lanes)
    /\ s.cur = None => s.sh.state = "Idle" /\ s.sh.item = "none" /\ s.sh.clip = NoRequest /\ ~s.lanes.want
    /\ s.cur # None => s.sh.state # "Idle" /\ Agrees(s) /\ s.sh.item = s.cur.item /\ ~s.cur.at_edge

LEMMA SetDoes ==
    ASSUME Typed, NEW state \in States, NEW req, NEW id, NEW error \in BOOLEAN, NEW sh, sh = Set(state, req, id, error)
    PROVE  IsShared(sh) /\ sh.state = state /\ sh.clip = req /\ sh.item = id /\ sh.error = error
BY DEF Typed, IsShared, Set

LEMMA UnloadedIs ==
    ASSUME Typed, NEW error \in BOOLEAN, NEW sh, sh = Unloaded(error)
    PROVE  IsShared(sh) /\ sh.state = "Idle" /\ sh.clip = NoRequest /\ sh.item = "none" /\ sh.error = error
<1>1. "Idle" \in States /\ sh = Set("Idle", NoRequest, "none", error) BY DEF States, Unloaded
<1> QED BY <1>1, SetDoes

LEMMA PutsOnAir ==
    ASSUME Playable, Typed, NEW clip, IsStandby(clip), NEW plays \in BOOLEAN, NEW fails, ~clip.dead => fails = "none",
           NEW s, s = put_on_air(clip, plays, fails)
    PROVE  PutsOn(s) /\ (s.cur = None \/ s.cur.serial = clip.serial)
<1>l. PICK l : l = IF plays \/ shared.state # "Playing" THEN ensure(lanes) ELSE open(lanes) OBVIOUS
<1>sh. PICK sh : sh = Set(IF plays THEN "Playing" ELSE "Cued", clip.req, clip.item, FALSE) OBVIOUS
<1>o. PICK o : o = [cur |-> clip, lanes |-> l, ok |-> Made(l), sh |-> sh] OBVIOUS
<1>r. PICK r : r = IF plays THEN Run(o, "Playing", TRUE, fails)
                           ELSE SeekTo([o EXCEPT !.cur.mode = "Cued"], "in", clip.rate, fails) OBVIOUS
<1>s. s = IF r.ok THEN r ELSE [cur |-> None, sh |-> Unloaded(TRUE), lanes |-> close(l), ok |-> FALSE]
  BY <1>l, <1>sh, <1>o, <1>r DEF put_on_air
<1>1. IsLanes(l) /\ l.want /\ IsLanes(close(l)) /\ ~close(l).want
  <2>1. IsLanes(lanes) BY DEF Typed
  <2>2. IsLanes(l) /\ l.want BY <1>l, <2>1, EnsureDoes
  <2> QED BY <2>2, EnsureDoes
<1>2. /\ IsShared(sh) /\ sh.clip = clip.req /\ sh.item = clip.item
      /\ sh.state = IF plays THEN "Playing" ELSE "Cued"
  <2>1. PICK state \in States : state = IF plays THEN "Playing" ELSE "Cued" BY DEF States
  <2>2. PICK no \in BOOLEAN : no = FALSE OBVIOUS
  <2>3. sh = Set(state, clip.req, clip.item, no) BY <1>sh, <2>1, <2>2
  <2> QED BY <2>1, <2>3, SetDoes
<1>3. DOMAIN o = {"cur", "sh", "lanes", "ok"} /\ o.cur = clip /\ o.sh = sh /\ o.lanes = l /\ o.ok = Made(l) /\ Made(l) \in BOOLEAN
  <2>1. Made(l) \in BOOLEAN BY <1>1 DEF Made, IsLanes
  <2> QED BY <1>o, <2>1
<1>4. CASE r.ok /\ plays
  <2>1. r = Run(o, "Playing", TRUE, fails) BY <1>r, <1>4
  <2>2. o.ok /\ fails # "run" BY <1>3, <1>4, <2>1 DEF Run
  <2>3. r.sh = sh /\ r.lanes = l /\ r.cur = [clip EXCEPT !.mode = "Playing", !.running = TRUE]
    BY <1>3, <2>1, <2>2 DEF Run
  <2>4. /\ IsOnAir(r.cur) /\ r.cur.serial = clip.serial /\ r.cur.item = clip.item /\ r.cur.req = clip.req
        /\ r.cur.mode = "Playing" /\ r.cur.running = TRUE /\ ~r.cur.at_edge
    BY <2>3 DEF IsOnAir, IsStandby, IsClip, Modes
  <2>5. s = r /\ r.cur # None /\ sh.state = "Playing" BY <1>2, <1>4, <1>s, <2>4, NoneIsNone DEF IsOnAir
  <2> QED BY <1>1, <1>2, <2>3, <2>4, <2>5 DEF PutsOn, Agrees
<1>5. CASE r.ok /\ ~plays
  <2>q. PICK q : q = [o EXCEPT !.cur.mode = "Cued"] OBVIOUS
  <2>1. DOMAIN q = {"cur", "sh", "lanes", "ok"} /\ q.cur = [clip EXCEPT !.mode = "Cued"] /\ q.sh = sh /\ q.lanes = l /\ q.ok = Made(l)
    BY <1>3, <2>q
  <2>2. /\ IsOnAir(q.cur) /\ q.cur.serial = clip.serial /\ q.cur.item = clip.item /\ q.cur.req = clip.req
        /\ q.cur.mode = "Cued" /\ ~q.cur.running /\ ~q.cur.at_edge
    BY <2>1 DEF IsOnAir, IsStandby, IsClip, Modes
  <2>3. IsState(q) BY <1>1, <1>2, <1>3, <2>1, <2>2 DEF IsState
  <2>4. r = SeekTo(q, "in", clip.rate, fails) /\ "in" \in Places /\ clip.rate \in {1, -1}
    BY <1>5, <1>r, <2>q DEF Places, IsStandby, IsClip
  <2>5. Goes(q, r) /\ SameRuns(q, r) /\ SamePoints(q, r) /\ SameEdge(q, r) /\ r.sh = q.sh /\ r.lanes = q.lanes
    BY <2>3, <2>4, SeekDoes
  <2>6. IsOnAir(r.cur) /\ r.cur # None BY <2>5, NoneIsNone DEF Goes, IsState, IsOnAir
  <2>7. s = r /\ sh.state = "Cued" BY <1>2, <1>5, <1>s
  <2>8. r.cur.running \in BOOLEAN BY <2>6 DEF IsOnAir, IsClip
  <2> QED BY <1>1, <1>2, <2>1, <2>2, <2>5, <2>6, <2>7, <2>8 DEF PutsOn, Agrees, Goes, SameRuns, SamePoints, SameEdge
<1>6. CASE ~r.ok
  <2>1. s.cur = None /\ s.sh = Unloaded(TRUE) /\ s.lanes = close(l) BY <1>6, <1>s
  <2>2. PICK yes \in BOOLEAN : yes = TRUE OBVIOUS
  <2>3. s.sh = Unloaded(yes) BY <2>1, <2>2
  <2>4. IsShared(s.sh) /\ s.sh.state = "Idle" /\ s.sh.clip = NoRequest /\ s.sh.item = "none" BY <2>3, UnloadedIs
  <2> QED BY <1>1, <2>1, <2>4 DEF PutsOn
<1> QED BY <1>4, <1>5, <1>6

LEMMA NewClipIs ==
    ASSUME Playable, NEW serial \in Serials, NEW id, NEW req, IsRequest(req), NEW mode \in Modes,
           NEW clip, clip = NewClip(serial, id, req, mode)
    PROVE  /\ IsClip(clip) /\ clip.serial = serial /\ clip.item = id /\ clip.req = req /\ clip.mode = mode
           /\ ~clip.running /\ ~clip.eos /\ ~clip.at_edge /\ ~clip.dead
<1>1. /\ DOMAIN clip = {"serial", "item", "req", "mode", "rate", "at_edge", "at", "running", "eos", "dead"}
      /\ clip.serial = serial /\ clip.item = id /\ clip.req = req /\ clip.mode = mode /\ clip.rate = req.rate
      /\ clip.at_edge = FALSE /\ clip.at = "in" /\ clip.running = FALSE /\ clip.eos = FALSE /\ clip.dead = FALSE
  BY DEF NewClip
<1> QED BY <1>1 DEF IsClip, IsRequest, Places

\* Standby's clip or a new one goes on air, or the cue's error shows.
LEMMA TakeDoes ==
    ASSUME Playable, Typed, Room, NEW item \in Items, NEW plays \in BOOLEAN, NEW cues \in BOOLEAN, NEW fails,
           CanTake(item, cues, fails), NEW s, s = take(item, plays, cues, fails)
    PROVE  /\ cues => PutsOn(s) /\ (s.cur.serial \in {0, next.serial} \/ s.cur.serial \notin Used)
           /\ ~cues => s = [Here EXCEPT !.sh.error = TRUE, !.ok = FALSE]
<1>clip. PICK clip : clip = IF Is(next, item) THEN next
                            ELSE IF cues THEN NewClip(Unused, item.id, Request(item), "Off") ELSE None OBVIOUS
<1>s. s = IF clip = None THEN [Here EXCEPT !.sh.error = TRUE, !.ok = FALSE] ELSE put_on_air(clip, plays, fails)
  BY <1>clip DEF take
<1>1. CASE Is(next, item)
  <2>1. cues /\ fails \in Fails(next) BY <1>1 DEF CanTake
  <2>2. next # None /\ IsStandby(next) BY <1>1 DEF Is, Typed
  <2>3. ~next.dead => fails = "none" BY <2>1 DEF Fails
  <2>4. clip = next /\ s = put_on_air(next, plays, fails) BY <1>1, <1>clip, <1>s, <2>2
  <2>5. PutsOn(s) /\ (s.cur = None \/ s.cur.serial = next.serial) BY <2>2, <2>3, <2>4, PutsOnAir
  <2> QED BY <2>1, <2>5, NoneIsNone
<1>2. CASE ~Is(next, item) /\ cues
  <2>1. clip = NewClip(Unused, item.id, Request(item), "Off") /\ fails = "none" BY <1>2, <1>clip DEF CanTake
  <2>2. Unused \in Serials /\ Unused \notin Used /\ IsRequest(Request(item)) BY UnusedIs, NoItemIsNone
  <2>3. "Off" \in Modes BY DEF Modes
  <2>4. IsStandby(clip) /\ clip.serial = Unused BY <2>1, <2>2, <2>3, NewClipIs DEF IsStandby
  <2>5. s = put_on_air(clip, plays, fails) BY <1>s, <2>4, NoneIsNone DEF IsStandby
  <2>6. PutsOn(s) /\ (s.cur = None \/ s.cur.serial = clip.serial) BY <2>1, <2>4, <2>5, PutsOnAir
  <2> QED BY <1>2, <2>2, <2>4, <2>6, NoneIsNone
<1>3. CASE ~Is(next, item) /\ ~cues BY <1>3, <1>clip, <1>s
<1> QED BY <1>1, <1>2, <1>3

----------------------------------------------------------------------------
(* Steps that refresh *)

LEMMA RefreshTypes ==
    ASSUME Playable, IInv, Room,
           NEW cur, NEW nx, NEW sh, NEW list \in Seq(Items), NEW loops \in BOOLEAN, NEW cues, Hands(cur, nx, sh, cues),
           refresh_next(cur, nx, sh, list, loops, cues), items' = list, loop_playlist' = loops,
           Named(list), IsLanes(lanes'), \A t \in tasks' : IsTask(t), asked' = NoItem \/ IsAsked(asked')
    PROVE  /\ Typed' /\ SerialsDiffer' /\ Deck' /\ current' = cur
           /\ shared'.state = sh.state /\ shared'.clip = sh.clip /\ shared'.item = sh.item
<1>1. Typed /\ SerialsDiffer /\ CueIsOnItsWay BY DEF IInv, Deck
<1>2. /\ current' = cur /\ next' \in {nx, None} /\ IsShared(shared')
      /\ shared'.state = sh.state /\ shared'.clip = sh.clip /\ shared'.item = sh.item
      /\ position' \in Nat /\ (preloading' = NoItem \/ preloading' \in Items) /\ \A t \in preloads' : IsCue(t)
      /\ SerialsDiffer' /\ Deck'
  BY <1>1, RefreshDoes
<1>3. current' = None \/ IsOnAir(current') BY <1>2 DEF Hands
<1>4. next' = None \/ IsStandby(next') BY <1>1, <1>2 DEF Hands, Typed
<1>5. items' \in Seq(Items) /\ loop_playlist' \in BOOLEAN /\ Named(items') OBVIOUS
<1>6. Typed' BY <1>2, <1>3, <1>4, <1>5 DEF Typed
<1> QED BY <1>2, <1>6

LEMMA OnAirFits ==
    ASSUME NEW s, PutsOn(s), current' = s.cur, lanes' = s.lanes,
           shared'.state = s.sh.state, shared'.clip = s.sh.clip, shared'.item = s.sh.item
    PROVE  OnAir'
<1>1. CASE current' = None
  BY <1>1 DEF PutsOn, OnAir, OnAirAgrees, EdgeGrows, EdgeIsWatched
<1>2. CASE current' # None
  <2>1. /\ ~current'.at_edge /\ shared'.state # "Idle" /\ shared'.item = current'.item
    BY <1>2 DEF PutsOn
  <2>2. OnAirAgrees' BY <1>2 DEF PutsOn, OnAirAgrees, Agrees
  <2>3. EdgeGrows' /\ EdgeIsWatched' BY <1>2 DEF PutsOn, EdgeGrows, EdgeIsWatched
  <2> QED BY <2>2, <2>3 DEF OnAir
<1> QED BY <1>1, <1>2

\* A step that leaves a clip on air, or none, refreshing what comes next.
LEMMA PutsKeep ==
    ASSUME Playable, IInv, Room, NEW s, PutsOn(s), NEW nx \in {None, next},
           s.cur.serial \in {0, current.serial, next.serial} \/ s.cur.serial \notin Used,
           s.cur # None => s.cur.serial # nx.serial,
           Refresh(s.cur, nx, s.sh), lanes' = s.lanes, UNCHANGED <<items, loop_playlist>>,
           \A t \in tasks' : IsTask(t), asked' = NoItem \/ IsAsked(asked')
    PROVE  IInv'
<1>1. Typed BY DEF IInv
<1>2. refresh_next(s.cur, nx, s.sh, items, loop_playlist, preloads) BY DEF Refresh
<1>3. Hands(s.cur, nx, s.sh, preloads) BY DEF PutsOn, Hands
<1>4. items \in Seq(Items) /\ loop_playlist \in BOOLEAN /\ Named(items) BY <1>1 DEF Typed
<1>5. IsLanes(lanes') BY DEF PutsOn
<1>6. /\ Typed' /\ SerialsDiffer' /\ Deck' /\ current' = s.cur
      /\ shared'.state = s.sh.state /\ shared'.clip = s.sh.clip /\ shared'.item = s.sh.item
  BY <1>2, <1>3, <1>4, <1>5, RefreshTypes
<1>7. OnAir' BY <1>6, OnAirFits
<1> QED BY <1>6, <1>7 DEF IInv

----------------------------------------------------------------------------
(* Steps that refresh nothing *)

\* One cue goes on, as far as it has got.
CueGoesOn ==
    \E t \in preloads : \E u :
        /\ IsCue(u) /\ u.serial = t.serial /\ u.item = t.item /\ (u.phase = "again" => t.phase = "again")
        /\ preloads' = (preloads \ {t}) \cup {u}
SameClip(c, d) == d.serial = c.serial /\ d.item = c.item

LEMMA DeckStays ==
    ASSUME Playable, IInv, UNCHANGED <<items, loop_playlist, preloading>>,
           position' \in {position, Noted(current, items)},
           current' = current \/ (current # None /\ IsOnAir(current') /\ SameClip(current, current')),
           \/ next' = next
           \/ next # None /\ IsStandby(next') /\ SameClip(next, next') /\ next'.req = next.req
           \/ next' = None /\ shared'.error,
           UNCHANGED preloads \/ CueGoesOn,
           IsShared(shared'), shared.error => shared'.error, IsLanes(lanes'),
           \A t \in tasks' : IsTask(t), asked' = NoItem \/ IsAsked(asked')
    PROVE  Typed' /\ SerialsDiffer' /\ Deck'
<1>1. Typed /\ SerialsDiffer /\ Deck BY DEF IInv
<1>2. \A t \in preloads' : IsCue(t) BY <1>1 DEF Typed, CueGoesOn
<1>3. position = Noted(current, items) /\ position' = position BY <1>1 DEF Deck, PositionIsNoted
<1>4. Typed' BY <1>1, <1>2, <1>3 DEF Typed
<1>5. (current' = None) = (current = None) /\ (current # None => SameClip(current, current')) /\ current'.serial = current.serial
  BY NoneIsNone DEF IsOnAir, SameClip
<1>6. SerialsDiffer'
  <2>1. next'.serial \in {0, next.serial} BY NoneIsNone DEF SameClip
  <2>2. current' # None => current'.serial # 0 /\ current'.serial # next'.serial
    BY <1>1, <1>5, <2>1, NoneIsNone DEF SerialsDiffer, Typed, IsOnAir
  <2>3. \A t \in preloads' : \E u \in preloads : t.serial = u.serial BY DEF CueGoesOn
  <2>4. \A t \in preloads' : t.serial \notin {current'.serial, next'.serial}
    BY <1>1, <1>2, <1>5, <2>1, <2>3 DEF SerialsDiffer, IsCue, Playable
  <2>5. \A t, u \in preloads' : u.serial = t.serial => u = t BY <1>1 DEF SerialsDiffer, CueGoesOn
  <2> QED BY <2>2, <2>4, <2>5 DEF SerialsDiffer
<1>7. /\ following(current, items, loop_playlist)' = following(current, items, loop_playlist)
      /\ Noted(current, items)' = Noted(current, items)
  BY <1>3, <1>5, SameFollows DEF SameClip
<1>8. PositionIsNoted' BY <1>3, <1>7 DEF PositionIsNoted
<1>9. \A t \in preloads : \E u \in preloads' : u.item = t.item /\ (u.phase = "again" => t.phase = "again")
  BY DEF CueGoesOn
<1>10. CueIsOnItsWay' BY <1>1, <1>9 DEF Deck, CueIsOnItsWay
<1>11. NextIsComing'
  <2> DEFINE want == following(current, items, loop_playlist)
  <2> SUFFICES ASSUME want # NoItem, ~shared'.error
               PROVE  Is(next', want) \/ (preloading' = want /\ \E t \in preloads' : t.item = want)
    BY <1>7 DEF NextIsComing, Is
  <2>1. Is(next, want) \/ (preloading = want /\ \E t \in preloads : t.item = want)
    BY <1>1 DEF Deck, NextIsComing
  <2> HIDE DEF want
  <2>2. CASE Is(next, want) BY <2>2, NoneIsNone DEF Is, SameClip, IsStandby
  <2>3. CASE preloading = want /\ \E t \in preloads : t.item = want BY <1>9, <2>3
  <2> QED BY <2>1, <2>2, <2>3
<1> QED BY <1>4, <1>6, <1>8, <1>10, <1>11 DEF Deck

\* The clip on air as it was, but for where it is, or with its player failed.
LEMMA OnAirStays ==
    ASSUME Playable, IInv,
           \/ current' = current
           \/ /\ current # None /\ IsOnAir(current') /\ SameClip(current, current')
              /\ current'.req = current.req /\ current'.at_edge = current.at_edge
              /\ current'.mode = current.mode /\ current'.running = current.running
              /\ current'.dead \/ current'.dead = current.dead,
           shared'.state = shared.state, shared'.clip = shared.clip, shared'.item = shared.item,
           lanes'.want = lanes.want,
           \A serial : (Has("edge", serial) => Has("edge", serial)') /\ (Has("edge_over", serial) => Has("edge_over", serial)')
    PROVE  OnAir'
<1>1. OnAir /\ (current' = None) = (current = None) BY NoneIsNone DEF IInv, IsOnAir
<1>2. CASE current = None
  <2>1. current' = None BY <1>1, <1>2
  <2> QED BY <1>1, <1>2, <2>1 DEF OnAir, OnAirAgrees, EdgeGrows, EdgeIsWatched
<1>3. CASE current # None
  <2>1. /\ current' # None /\ current'.serial = current.serial /\ current'.item = current.item
        /\ current'.req = current.req /\ current'.at_edge = current.at_edge
        /\ current'.mode = current.mode /\ current'.running = current.running
        /\ (~current'.dead => ~current.dead)
    BY <1>1, <1>3 DEF SameClip
  <2>2. OnAirAgrees' BY <1>1, <1>3, <2>1 DEF OnAir, OnAirAgrees
  <2>3. EdgeGrows' BY <1>1, <1>3, <2>1 DEF OnAir, EdgeGrows, grows
  <2>4. EdgeIsWatched'
    <3>w. PICK w : w = current.serial OBVIOUS
    <3>1. (Has("edge", w) => Has("edge", w)') /\ (Has("edge_over", w) => Has("edge_over", w)') OBVIOUS
    <3>2. /\ Has("edge", current.serial) => [kind |-> "edge", serial |-> current'.serial] \in tasks'
          /\ Has("edge_over", current.serial) => [kind |-> "edge_over", serial |-> current'.serial] \in tasks'
      BY <2>1, <3>w, <3>1 DEF Has
    <3> QED BY <1>1, <1>3, <2>1, <3>2 DEF OnAir, EdgeIsWatched, Has
  <2> QED BY <2>2, <2>3, <2>4 DEF OnAir
<1> QED BY <1>2, <1>3

\* Handlers of an edge, where it is, stay.
LEMMA EdgesStay ==
    ASSUME tasks \subseteq tasks' PROVE \A serial : (Has("edge", serial) => Has("edge", serial)') /\ (Has("edge_over", serial) => Has("edge_over", serial)')
BY DEF Has

----------------------------------------------------------------------------
(* Commands that take, load or unload *)

LEMMA TookTypes ==
    ASSUME Playable, IInv, NEW s, Took(s, FALSE), UNCHANGED <<items, loop_playlist>>,
           s.cur = current \/ (current # None /\ IsOnAir(s.cur) /\ SameClip(current, s.cur)),
           IsShared(s.sh), s.sh.error, IsLanes(lanes'),
           \A t \in tasks' : IsTask(t), asked' = NoItem \/ IsAsked(asked')
    PROVE  Typed' /\ SerialsDiffer' /\ Deck'
<1>1. /\ current' = s.cur /\ next' = None /\ shared' = s.sh /\ UNCHANGED <<preloading, preloads>>
      /\ position' = Noted(current, items)
  BY DEF Took
<1> QED BY <1>1, DeckStays

LEMMA TakesKeep ==
    ASSUME Playable, IInv, NEW item \in Items, NEW plays \in BOOLEAN, Take(item, plays),
           UNCHANGED <<items, loop_playlist, tasks>>, asked' = NoItem \/ IsAsked(asked')
    PROVE  IInv'
<1>1. Typed /\ SerialsDiffer BY DEF IInv
<1>2. Room BY DEF Take
<1>3. PICK cues \in BOOLEAN, fails \in {"none", "seek", "run"} :
        LET s == take(item, plays, cues, fails)
        IN  CanTake(item, cues, fails) /\ Took(s, cues) /\ lanes' = s.lanes
  BY DEF Take
<1>s. PICK s : s = take(item, plays, cues, fails) OBVIOUS
<1>4. CanTake(item, cues, fails) /\ Took(s, cues) /\ lanes' = s.lanes BY <1>3, <1>s
<1>5. /\ cues => PutsOn(s) /\ (s.cur.serial \in {0, next.serial} \/ s.cur.serial \notin Used)
      /\ ~cues => s = [Here EXCEPT !.sh.error = TRUE, !.ok = FALSE]
  BY <1>1, <1>2, <1>4, <1>s, TakeDoes
<1>6. \A t \in tasks' : IsTask(t) BY <1>1 DEF Typed
<1>7. CASE cues
  <2>1. Refresh(s.cur, None, s.sh) BY <1>4, <1>7 DEF Took
  <2>2. s.cur # None => s.cur.serial # None.serial BY <1>5, <1>7, NoneIsNone DEF PutsOn, IsOnAir
  <2> QED BY <1>2, <1>4, <1>5, <1>6, <1>7, <2>1, <2>2, PutsKeep
<1>8. CASE ~cues
  <2>1. s.cur = current /\ s.sh = [shared EXCEPT !.error = TRUE] /\ s.lanes = lanes
    BY <1>5, <1>8 DEF Here
  <2>2. Took(s, FALSE) BY <1>4, <1>8
  <2>3. IsShared(s.sh) /\ s.sh.error /\ s.sh.state = shared.state /\ s.sh.clip = shared.clip /\ s.sh.item = shared.item
    BY <1>1, <2>1 DEF Typed, IsShared
  <2>4. IsLanes(lanes') BY <1>1, <1>4, <2>1 DEF Typed
  <2>5. Typed' /\ SerialsDiffer' /\ Deck' BY <1>6, <2>1, <2>2, <2>3, <2>4, TookTypes
  <2>6. current' = current /\ shared' = s.sh BY <2>1, <2>2 DEF Took
  <2>7. tasks \subseteq tasks' OBVIOUS
  <2>8. OnAir' BY <1>4, <2>1, <2>3, <2>6, <2>7, EdgesStay, OnAirStays
  <2> QED BY <2>5, <2>8 DEF IInv
<1> QED BY <1>7, <1>8

LEMMA AskedKeep ==
    ASSUME Playable, IInv, cue_or_play_item PROVE IInv'
<1>1. asked # NoItem /\ IsAsked(asked) BY DEF IInv, Typed, cue_or_play_item
<1>2. /\ Take(asked.item, asked.play) /\ asked' = NoItem /\ UNCHANGED <<items, loop_playlist, tasks>>
  BY DEF cue_or_play_item
<1>3. asked.item \in Items /\ asked.play \in BOOLEAN BY <1>1 DEF IsAsked
<1> QED BY <1>2, <1>3, TakesKeep

LEMMA NextsKeep ==
    ASSUME Playable, IInv, PlayNext PROVE IInv'
<1>1. Typed BY DEF IInv
<1>2. PICK item : item = following(current, items, loop_playlist) OBVIOUS
<1>3. PICK yes \in BOOLEAN : yes = TRUE OBVIOUS
<1>4. item # NoItem /\ Take(item, yes) /\ UNCHANGED <<items, loop_playlist, tasks, asked>>
  BY <1>2, <1>3 DEF PlayNext
<1>5. items \in Seq(Items) BY <1>1 DEF Typed
<1>6. item \in Items BY <1>1, <1>2, <1>4, <1>5, FollowingIs
<1>7. asked' = NoItem \/ IsAsked(asked') BY <1>1, <1>4 DEF Typed
<1> QED BY <1>4, <1>6, <1>7, TakesKeep

LEMMA StopsKeep ==
    ASSUME Playable, IInv, stop PROVE IInv'
<1>1. Typed BY DEF IInv
<1>sh. PICK sh : sh = Unloaded(FALSE) OBVIOUS
<1>2. IsShared(sh) /\ sh.state = "Idle" /\ sh.clip = NoRequest /\ sh.item = "none"
  <2>1. PICK no \in BOOLEAN : no = FALSE OBVIOUS
  <2>2. sh = Unloaded(no) BY <1>sh, <2>1
  <2> QED BY <1>1, <2>2, UnloadedIs
<1>3. IsLanes(close(lanes)) /\ ~close(lanes).want BY <1>1, EnsureDoes DEF Typed
<1>s. PICK s : s = [cur |-> None, sh |-> sh, lanes |-> close(lanes)] OBVIOUS
<1>4. s.cur = None /\ s.sh = sh /\ s.lanes = close(lanes) BY <1>s
<1>5. PutsOn(s) BY <1>2, <1>3, <1>4 DEF PutsOn
<1>6. Room /\ Refresh(s.cur, next, s.sh) /\ lanes' = s.lanes /\ UNCHANGED <<items, loop_playlist, tasks, asked>>
  BY <1>4, <1>sh DEF stop
<1>7. s.cur.serial = 0 BY <1>4, NoneIsNone
<1>8. (\A t \in tasks' : IsTask(t)) /\ (asked' = NoItem \/ IsAsked(asked')) BY <1>1, <1>6 DEF Typed
<1> QED BY <1>4, <1>5, <1>6, <1>7, <1>8, PutsKeep

LEMMA LoadsKeep ==
    ASSUME Playable, IInv, load_clip PROVE IInv'
<1>1. Typed /\ Room BY DEF IInv, load_clip
<1>2. PICK req \in Loads, cues \in BOOLEAN :
        LET l == IF current # None THEN close(lanes) ELSE lanes
            s == [cur |-> NewClip(Unused, "none", req, "Cued"), lanes |-> open(l),
                  ok |-> cues /\ Made(open(l)), sh |-> Set("Cued", req, "none", FALSE)]
        IN  /\ Refresh(IF s.ok THEN s.cur ELSE None, None, IF s.ok THEN s.sh ELSE Unloaded(TRUE))
            /\ lanes' = IF s.ok THEN s.lanes ELSE close(l)
  BY DEF load_clip
<1>l. PICK l : l = IF current # None THEN close(lanes) ELSE lanes OBVIOUS
<1>c. PICK clip : clip = NewClip(Unused, "none", req, "Cued") OBVIOUS
<1>h. PICK sh : sh = Set("Cued", req, "none", FALSE) OBVIOUS
<1>u. PICK un : un = Unloaded(TRUE) OBVIOUS
<1>ok. PICK ok : ok = (cues /\ Made(open(l))) OBVIOUS
<1>s. PICK s : s = [cur |-> IF ok THEN clip ELSE None, sh |-> IF ok THEN sh ELSE un,
                    lanes |-> IF ok THEN open(l) ELSE close(l)] OBVIOUS
<1>3. s.cur = (IF ok THEN clip ELSE None) /\ s.sh = (IF ok THEN sh ELSE un) /\ s.lanes = (IF ok THEN open(l) ELSE close(l))
  BY <1>s
<1>4. Refresh(s.cur, None, s.sh) /\ lanes' = s.lanes BY <1>2, <1>3, <1>l, <1>c, <1>h, <1>u, <1>ok
<1>5. /\ IsLanes(open(l)) /\ open(l).want
      /\ IsLanes(close(l)) /\ ~close(l).want
  <2>1. IsLanes(lanes) BY <1>1 DEF Typed
  <2>2. IsLanes(l) BY <1>l, <2>1, EnsureDoes
  <2> QED BY <2>2, EnsureDoes
<1>6. PICK no \in BOOLEAN : no = FALSE OBVIOUS
<1>7. IsShared(sh) /\ sh.state = "Cued" /\ sh.clip = req /\ sh.item = "none"
  <2>1. "Cued" \in States BY DEF States
  <2>2. sh = Set("Cued", req, "none", no) BY <1>h, <1>6
  <2> QED BY <1>1, <2>1, <2>2, SetDoes
<1>8. IsShared(un) /\ un.state = "Idle" /\ un.clip = NoRequest /\ un.item = "none"
  <2>1. PICK yes \in BOOLEAN : yes = TRUE OBVIOUS
  <2>2. un = Unloaded(yes) BY <1>u, <2>1
  <2> QED BY <1>1, <2>2, UnloadedIs
<1>9. /\ IsClip(clip) /\ clip.serial = Unused /\ clip.item = "none" /\ clip.req = req /\ clip.mode = "Cued"
      /\ ~clip.running /\ ~clip.at_edge /\ Unused \notin Used
  <2>1. Unused \in Serials /\ Unused \notin Used /\ IsRequest(req) /\ "Cued" \in Modes
    BY <1>1, <1>2, UnusedIs DEF Playable, Modes
  <2> QED BY <1>c, <2>1, NewClipIs
<1>10. IsOnAir(clip) /\ clip # None /\ clip.running \in BOOLEAN BY <1>9, NoneIsNone DEF IsOnAir, IsClip
<1>11. PutsOn(s)
  <2>1. CASE ok
    <3>1. s.cur = clip /\ s.sh = sh /\ s.lanes = open(l) BY <1>3, <2>1
    <3> QED BY <1>5, <1>7, <1>9, <1>10, <3>1 DEF PutsOn, Agrees
  <2>2. CASE ~ok
    <3>1. s.cur = None /\ s.sh = un /\ s.lanes = close(l) BY <1>3, <2>2
    <3> QED BY <1>5, <1>8, <3>1 DEF PutsOn
  <2> QED BY <2>1, <2>2
<1>12. (s.cur.serial = 0 \/ s.cur.serial \notin Used) /\ (s.cur # None => s.cur.serial # None.serial)
  BY <1>3, <1>9, NoneIsNone
<1>13. UNCHANGED <<items, loop_playlist, tasks, asked>> BY DEF load_clip
<1>14. (\A t \in tasks' : IsTask(t)) /\ (asked' = NoItem \/ IsAsked(asked')) BY <1>1, <1>13 DEF Typed
<1> QED BY <1>1, <1>4, <1>11, <1>12, <1>13, <1>14, PutsKeep

LEMMA AsksKeep ==
    ASSUME Playable, IInv, Ask PROVE IInv'
<1>1. Typed BY DEF IInv
<1>2. PICK i \in DOMAIN items, plays \in BOOLEAN : asked' = [id |-> items[i].id, item |-> items[i], play |-> plays]
  BY DEF Ask
<1>3. UNCHANGED <<items, loop_playlist, current, next, preloading, position, shared, lanes, preloads, tasks>>
  BY DEF Ask, deck
<1>4. items[i] \in Items BY <1>1 DEF Typed
<1>5. IsAsked(asked') BY <1>2, <1>4 DEF IsAsked
<1>6. IsShared(shared') /\ IsLanes(lanes') /\ \A t \in tasks' : IsTask(t) BY <1>1, <1>3 DEF Typed
<1>7. Typed' /\ SerialsDiffer' /\ Deck' BY <1>3, <1>5, <1>6, DeckStays
<1>8. tasks \subseteq tasks' BY <1>3
<1>9. OnAir' BY <1>3, <1>8, EdgesStay, OnAirStays
<1> QED BY <1>7, <1>9 DEF IInv

LEMMA LanesKeep ==
    ASSUME Playable, IInv, attach \/ ProgramGoes PROVE IInv'
<1>1. Typed BY DEF IInv
<1>2. UNCHANGED <<items, loop_playlist, current, next, preloading, position, shared, preloads, tasks, asked>>
  BY DEF attach, ProgramGoes, deck
<1>3. IsLanes(lanes') /\ lanes'.want = lanes.want BY <1>1 DEF Typed, IsLanes, attach, ProgramGoes
<1>4. IsShared(shared') /\ (\A t \in tasks' : IsTask(t)) /\ (asked' = NoItem \/ IsAsked(asked')) BY <1>1, <1>2 DEF Typed
<1>5. Typed' /\ SerialsDiffer' /\ Deck' BY <1>2, <1>3, <1>4, DeckStays
<1>6. tasks \subseteq tasks' BY <1>2
<1>7. OnAir' BY <1>2, <1>3, <1>6, EdgesStay, OnAirStays
<1> QED BY <1>5, <1>7 DEF IInv

----------------------------------------------------------------------------
(* Edits of the playlist, and cues off the lock *)

\* Editing leaves a clip what it is, but for its end.
LEMMA EditedIs ==
    ASSUME Playable, IsOnAir(current), NEW list \in Seq(Items), NEW cur, cur = Edited(current, list)
    PROVE  /\ IsOnAir(cur) /\ cur # None /\ SameClip(current, cur)
           /\ cur.dead = current.dead /\ cur.mode = current.mode /\ cur.running = current.running
           /\ cur.at_edge = current.at_edge /\ cur.req = [current.req EXCEPT !.end = cur.req.end]
           /\ cur.req.media = current.req.media /\ cur.req.rate = current.req.rate
<1>i. PICK item : item = list[IndexOf(current.item, list)] OBVIOUS
<1>1. cur = IF /\ current # None /\ IndexOf(current.item, list) # 0
               /\ [Request(item) EXCEPT !.end = current.req.end] = current.req
               /\ "loop" \notin {current.req.end, item.end}
            THEN [current EXCEPT !.req.end = item.end] ELSE current
  BY <1>i DEF Edited
<1>2. IsRequest(current.req) BY DEF IsOnAir, IsClip
<1>3. CASE cur = current
  <2>1. current.req = [current.req EXCEPT !.end = current.req.end] BY <1>2 DEF IsRequest
  <2> QED BY <1>3, <2>1, NoneIsNone DEF IsOnAir, SameClip
<1>4. CASE cur = [current EXCEPT !.req.end = item.end] /\ IndexOf(current.item, list) # 0
  <2>1. IndexOf(current.item, list) \in DOMAIN list BY <1>4, IndexIs
  <2>2. item \in Items BY <1>i, <2>1
  <2>3. item.end \in Ends BY <2>2 DEF Playable
  <2>r. PICK req : req = [current.req EXCEPT !.end = item.end] OBVIOUS
  <2>4. IsRequest(req) /\ req.end = item.end /\ req.media = current.req.media /\ req.rate = current.req.rate
    BY <1>2, <2>3, <2>r DEF IsRequest
  <2>5. cur = [current EXCEPT !.req = req] BY <1>4, <2>r
  <2>6. /\ IsOnAir(cur) /\ cur.serial = current.serial /\ cur.item = current.item /\ cur.req = req
        /\ cur.dead = current.dead /\ cur.mode = current.mode /\ cur.running = current.running
        /\ cur.at_edge = current.at_edge
    BY <2>4, <2>5 DEF IsOnAir, IsClip
  <2> QED BY <2>4, <2>6, <2>r, NoneIsNone DEF IsOnAir, SameClip
<1> QED BY <1>1, <1>3, <1>4

\* A refresh that leaves on air what is.
LEMMA RefreshKeeps ==
    ASSUME Playable, IInv, Room, NEW cur, NEW sh, NEW list \in Seq(Items), NEW loops \in BOOLEAN, NEW cues,
           \/ cur = current /\ sh = shared
           \/ /\ current # None /\ cur = Edited(current, list)
              /\ sh = [shared EXCEPT !.clip = [shared.clip EXCEPT !.end = cur.req.end]],
           cues \subseteq preloads, \A t \in preloads \ cues : t.phase = "again", Named(list),
           refresh_next(cur, next, sh, list, loops, cues), items' = list, loop_playlist' = loops,
           UNCHANGED <<lanes, tasks, asked>>
    PROVE  IInv'
<1>1. Typed /\ SerialsDiffer /\ OnAir BY DEF IInv
<1>2. IsShared(sh) /\ sh.state = shared.state /\ sh.item = shared.item BY <1>1 DEF Typed, IsShared
<1>3. /\ cur = None \/ IsOnAir(cur)
      /\ (cur = None) = (current = None) /\ cur.serial = current.serial
      /\ current # None =>
           /\ cur.item = current.item /\ cur.dead = current.dead /\ cur.mode = current.mode
           /\ cur.running = current.running /\ cur.at_edge = current.at_edge
           /\ cur.req.media = current.req.media /\ cur.req.rate = current.req.rate
           /\ shared.clip = current.req => sh.clip = cur.req
  <2>1. CASE cur = current /\ sh = shared BY <1>1, <2>1 DEF Typed
  <2>2. CASE current # None /\ cur = Edited(current, list) /\ sh = [shared EXCEPT !.clip = [shared.clip EXCEPT !.end = cur.req.end]]
    <3>1. IsOnAir(current) BY <1>1, <2>2 DEF Typed
    <3>2. /\ IsOnAir(cur) /\ cur # None /\ SameClip(current, cur)
          /\ cur.dead = current.dead /\ cur.mode = current.mode /\ cur.running = current.running
          /\ cur.at_edge = current.at_edge /\ cur.req = [current.req EXCEPT !.end = cur.req.end]
          /\ cur.req.media = current.req.media /\ cur.req.rate = current.req.rate
      BY <2>2, <3>1, EditedIs
    <3>3. sh.clip = [shared.clip EXCEPT !.end = cur.req.end] BY <1>1, <2>2 DEF Typed, IsShared
    <3> QED BY <2>2, <3>2, <3>3 DEF SameClip
  <2> QED BY <2>1, <2>2
<1>4. Hands(cur, next, sh, cues) BY <1>1, <1>2, <1>3 DEF Hands, SerialsDiffer
<1>5. IsLanes(lanes') /\ (\A t \in tasks' : IsTask(t)) /\ (asked' = NoItem \/ IsAsked(asked')) BY <1>1 DEF Typed
<1>6. /\ Typed' /\ SerialsDiffer' /\ Deck' /\ current' = cur
      /\ shared'.state = sh.state /\ shared'.clip = sh.clip /\ shared'.item = sh.item
  BY <1>4, <1>5, RefreshTypes
<1>7. CASE current = None
  <2>1. current' = current /\ sh = shared BY <1>3, <1>6, <1>7
  <2> QED BY <1>1, <1>6, <1>7, <2>1 DEF IInv, OnAir, OnAirAgrees, EdgeGrows, EdgeIsWatched
<1>8. CASE current # None
  <2>1. /\ current' # None /\ current'.serial = current.serial
        /\ current'.item = current.item /\ current'.dead = current.dead /\ current'.mode = current.mode
        /\ current'.running = current.running /\ current'.at_edge = current.at_edge
        /\ current'.req.media = current.req.media /\ current'.req.rate = current.req.rate
        /\ shared.clip = current.req => shared'.clip = current'.req
        /\ shared'.state = shared.state /\ shared'.item = shared.item
    BY <1>2, <1>3, <1>6, <1>8
  <2>2. OnAirAgrees' BY <1>1, <1>8, <2>1 DEF OnAir, OnAirAgrees
  <2>3. EdgeGrows' BY <1>1, <1>8, <2>1 DEF OnAir, EdgeGrows, grows
  <2>4. EdgeIsWatched' BY <1>1, <1>8, <2>1 DEF OnAir, EdgeIsWatched, Has
  <2> QED BY <1>6, <2>2, <2>3, <2>4 DEF IInv, OnAir
<1> QED BY <1>7, <1>8

LEMMA EditsKeep ==
    ASSUME Playable, IInv, set_playlist PROVE IInv'
<1>1. Typed /\ Room BY DEF IInv, set_playlist
<1>2. PICK playlist \in Playlists :
        LET list == playlist[1]
            loops == playlist[2]
            cur == Edited(current, list)
            sh == IF cur = None THEN shared ELSE [shared EXCEPT !.clip.end = cur.req.end]
        IN  items' = list /\ loop_playlist' = loops /\ refresh_next(cur, next, sh, list, loops, preloads)
  BY DEF set_playlist
<1>l. PICK list : list = playlist[1] OBVIOUS
<1>o. PICK loops : loops = playlist[2] OBVIOUS
<1>c. PICK cur : cur = Edited(current, list) OBVIOUS
<1>h. PICK sh : sh = IF cur = None THEN shared ELSE [shared EXCEPT !.clip.end = cur.req.end] OBVIOUS
<1>3. items' = list /\ loop_playlist' = loops /\ refresh_next(cur, next, sh, list, loops, preloads)
  BY <1>2, <1>l, <1>o, <1>c, <1>h
<1>4. list \in Seq(Items) /\ loops \in BOOLEAN /\ Named(list) BY <1>l, <1>o DEF Playable
<1>5. \/ cur = current /\ sh = shared
      \/ /\ current # None /\ cur = Edited(current, list)
         /\ sh = [shared EXCEPT !.clip = [shared.clip EXCEPT !.end = cur.req.end]]
  <2>1. CASE current = None BY <1>c, <1>h, <2>1 DEF Edited
  <2>2. CASE current # None
    <3>1. IsOnAir(current) BY <1>1, <2>2 DEF Typed
    <3>2. cur # None BY <1>4, <1>c, <3>1, EditedIs
    <3> QED BY <1>c, <1>h, <2>2, <3>2
  <2> QED BY <2>1, <2>2
<1>6. UNCHANGED <<lanes, tasks, asked>> BY DEF set_playlist
<1> QED BY <1>1, <1>3, <1>4, <1>5, <1>6, RefreshKeeps

LEMMA AgainKeep ==
    ASSUME Playable, IInv, CueAgain PROVE IInv'
<1>1. Typed /\ Room BY DEF IInv, CueAgain
<1>2. PICK t \in preloads : t.phase = "again" /\ refresh_next(current, next, shared, items, loop_playlist, preloads \ {t})
  BY DEF CueAgain
<1>3. UNCHANGED <<items, loop_playlist, lanes, tasks, asked>> BY DEF CueAgain
<1>4. items \in Seq(Items) /\ loop_playlist \in BOOLEAN /\ Named(items) BY <1>1 DEF Typed
<1>5. PICK cues : cues = preloads \ {t} OBVIOUS
<1>6. cues \subseteq preloads /\ \A u \in preloads \ cues : u.phase = "again" BY <1>2, <1>5
<1>7. refresh_next(current, next, shared, items, loop_playlist, cues) BY <1>2, <1>5
<1> QED BY <1>1, <1>3, <1>4, <1>6, <1>7, RefreshKeeps

LEMMA CuesKeep ==
    ASSUME Playable, IInv, CueEnds PROVE IInv'
<1>1. Typed BY DEF IInv
<1>2. PICK t \in preloads, phase \in {"cued", "failed"} :
        t.phase = "cueing" /\ preloads' = (preloads \ {t}) \cup {[t EXCEPT !.phase = phase]}
  BY DEF CueEnds
<1>3. UNCHANGED <<items, loop_playlist, current, next, preloading, position, shared, lanes, tasks, asked>>
  BY DEF CueEnds, deck
<1>4. IsCue(t) BY <1>1 DEF Typed
<1>u. PICK u : u = [t EXCEPT !.phase = phase] OBVIOUS
<1>5. IsCue(u) /\ u.serial = t.serial /\ u.item = t.item /\ u.phase # "again" BY <1>4, <1>u DEF IsCue
<1>6. CueGoesOn BY <1>2, <1>5, <1>u DEF CueGoesOn
<1>7. /\ IsShared(shared') /\ IsLanes(lanes') /\ (\A k \in tasks' : IsTask(k)) /\ (asked' = NoItem \/ IsAsked(asked'))
  BY <1>1, <1>3 DEF Typed
<1>8. Typed' /\ SerialsDiffer' /\ Deck' BY <1>3, <1>6, <1>7, DeckStays
<1>9. tasks \subseteq tasks' BY <1>3
<1>10. OnAir' BY <1>3, <1>9, EdgesStay, OnAirStays
<1> QED BY <1>8, <1>10 DEF IInv

LEMMA LandsKeep ==
    ASSUME Playable, IInv, CueLands PROVE IInv'
<1>1. Typed /\ SerialsDiffer /\ PositionIsNoted /\ CueIsOnItsWay /\ NextIsComing BY DEF IInv, Deck
<1>2. UNCHANGED <<items, loop_playlist, current, lanes, tasks, asked>> BY DEF CueLands, deck
<1>w. PICK want : want = following(current, items, loop_playlist) OBVIOUS
<1>3. PICK t \in preloads :
        LET clip == [NewClip(t.serial, t.item.id, Request(t.item), "Off") EXCEPT !.dead = t.dead]
        IN  \/ /\ preloading # t.item
               /\ preloads' = preloads \ {t}
               /\ UNCHANGED <<next, preloading, position, shared>>
            \/ /\ preloading = t.item
               /\ preloading' = NoItem
               /\ preloads' = preloads \ {t}
               /\ shared' = [shared EXCEPT !.error = TRUE]
               /\ UNCHANGED <<next, position>>
            \/ /\ preloading = t.item
               /\ preloading' = NoItem
               /\ position' = Noted(current, items)
               /\ want = t.item
               /\ next' = clip
               /\ shared' = [shared EXCEPT !.next_ready = TRUE]
               /\ preloads' = preloads \ {t}
            \/ /\ preloading = t.item /\ t.phase = "cued"
               /\ preloading' = NoItem
               /\ position' = Noted(current, items)
               /\ want # t.item
               /\ preloads' = (preloads \ {t}) \cup {[t EXCEPT !.phase = "again"]}
               /\ UNCHANGED <<next, shared>>
  BY <1>w DEF CueLands, deck
<1>4. IsCue(t) BY <1>1 DEF Typed
<1>n. PICK k : k = NewClip(t.serial, t.item.id, Request(t.item), "Off") OBVIOUS
<1>c. PICK clip : clip = [k EXCEPT !.dead = t.dead] OBVIOUS
<1>a. PICK again : again = [t EXCEPT !.phase = "again"] OBVIOUS
<1>5. IsStandby(clip) /\ clip.serial = t.serial /\ clip.item = t.item.id /\ clip.req = Request(t.item)
  <2>1. t.serial \in Serials /\ IsRequest(Request(t.item)) /\ "Off" \in Modes /\ t.dead \in BOOLEAN
    BY <1>4, NoItemIsNone DEF IsCue, Modes
  <2>2. /\ IsClip(k) /\ k.serial = t.serial /\ k.item = t.item.id /\ k.req = Request(t.item) /\ k.mode = "Off"
        /\ ~k.running /\ ~k.eos /\ ~k.at_edge
    BY <1>n, <2>1, NewClipIs
  <2> QED BY <1>c, <2>1, <2>2 DEF IsStandby, IsClip
<1>6. IsCue(again) /\ again.serial = t.serial BY <1>4, <1>a DEF IsCue
<1>7. /\ t.serial # 0 /\ t.serial # current.serial /\ t.serial # next.serial
      /\ \A u \in preloads \ {t} : u.serial # t.serial
  BY <1>1, <1>4 DEF SerialsDiffer, IsCue, Playable
<1>8. CASE preloading # t.item /\ preloads' = preloads \ {t} /\ UNCHANGED <<next, preloading, position, shared>>
  <2>1. Typed' BY <1>1, <1>2, <1>8 DEF Typed
  <2>2. SerialsDiffer' BY <1>1, <1>2, <1>8 DEF SerialsDiffer
  <2>3. /\ following(current, items, loop_playlist)' = following(current, items, loop_playlist)
        /\ Noted(current, items)' = Noted(current, items)
    BY <1>2, <1>8, SameFollows
  <2>4. PositionIsNoted' BY <1>1, <1>8, <2>3 DEF PositionIsNoted
  <2>5. CueIsOnItsWay' BY <1>1, <1>8 DEF CueIsOnItsWay
  <2>6. NextIsComing' BY <1>1, <1>8, <2>3 DEF NextIsComing, Is
  <2>7. OnAir' BY <1>2, <1>8 DEF IInv, OnAir, OnAirAgrees, EdgeGrows, EdgeIsWatched, grows, Has
  <2> QED BY <2>1, <2>2, <2>4, <2>5, <2>6, <2>7 DEF IInv, Deck
<1>9. CASE preloading' = NoItem /\ preloads' = preloads \ {t} /\ shared' = [shared EXCEPT !.error = TRUE] /\ UNCHANGED <<next, position>>
  <2>1. IsShared(shared') /\ shared'.error /\ shared'.state = shared.state /\ shared'.clip = shared.clip /\ shared'.item = shared.item
    BY <1>1, <1>9 DEF Typed, IsShared
  <2>2. Typed' BY <1>1, <1>2, <1>9, <2>1 DEF Typed
  <2>3. SerialsDiffer' BY <1>1, <1>2, <1>9 DEF SerialsDiffer
  <2>4. /\ following(current, items, loop_playlist)' = following(current, items, loop_playlist)
        /\ Noted(current, items)' = Noted(current, items)
    BY <1>2, <1>9, SameFollows
  <2>5. PositionIsNoted' BY <1>1, <1>9, <2>4 DEF PositionIsNoted
  <2>6. CueIsOnItsWay' /\ NextIsComing' BY <1>9, <2>1 DEF CueIsOnItsWay, NextIsComing
  <2>7. OnAir' BY <1>2, <2>1 DEF IInv, OnAir, OnAirAgrees, EdgeGrows, EdgeIsWatched, grows, Has
  <2> QED BY <2>2, <2>3, <2>5, <2>6, <2>7 DEF IInv, Deck
<1>10. CASE /\ preloading' = NoItem /\ position' = Noted(current, items) /\ want = t.item /\ next' = clip
            /\ shared' = [shared EXCEPT !.next_ready = TRUE] /\ preloads' = preloads \ {t}
  <2>1. IsShared(shared') /\ shared'.state = shared.state /\ shared'.clip = shared.clip /\ shared'.item = shared.item
    BY <1>1, <1>10 DEF Typed, IsShared
  <2>2. position' = position BY <1>1, <1>10 DEF PositionIsNoted
  <2>3. Typed' BY <1>1, <1>2, <1>5, <1>10, <2>1, <2>2 DEF Typed
  <2>4. SerialsDiffer' BY <1>1, <1>2, <1>5, <1>7, <1>10 DEF SerialsDiffer
  <2>5. /\ following(current, items, loop_playlist)' = want
        /\ Noted(current, items)' = Noted(current, items)
    BY <1>2, <1>w, <2>2, SameFollows
  <2>6. PositionIsNoted' BY <1>10, <2>5 DEF PositionIsNoted
  <2>7. CueIsOnItsWay' BY <1>10 DEF CueIsOnItsWay
  <2>8. Is(next', want) BY <1>5, <1>10, NoneIsNone DEF Is, IsStandby
  <2>9. NextIsComing' BY <2>5, <2>8 DEF NextIsComing, Is
  <2>10. OnAir' BY <1>2, <2>1 DEF IInv, OnAir, OnAirAgrees, EdgeGrows, EdgeIsWatched, grows, Has
  <2> QED BY <2>3, <2>4, <2>6, <2>7, <2>9, <2>10 DEF IInv, Deck
<1>11. CASE /\ preloading = t.item /\ preloading' = NoItem /\ position' = Noted(current, items) /\ want # t.item
            /\ preloads' = (preloads \ {t}) \cup {again} /\ UNCHANGED <<next, shared>>
  <2>2. position' = position BY <1>1, <1>11 DEF PositionIsNoted
  <2>3. Typed' BY <1>1, <1>2, <1>6, <1>11, <2>2 DEF Typed
  <2>4. SerialsDiffer' BY <1>1, <1>2, <1>6, <1>7, <1>11 DEF SerialsDiffer
  <2>5. /\ following(current, items, loop_playlist)' = want
        /\ Noted(current, items)' = Noted(current, items)
    BY <1>2, <1>w, <2>2, SameFollows
  <2>6. PositionIsNoted' BY <1>11, <2>5 DEF PositionIsNoted
  <2>7. CueIsOnItsWay' BY <1>11 DEF CueIsOnItsWay
  <2>8. want # NoItem => Is(next, want) \/ shared.error BY <1>1, <1>w, <1>11 DEF NextIsComing
  <2>9. NextIsComing' BY <1>11, <2>5, <2>8 DEF NextIsComing, Is
  <2>10. OnAir' BY <1>2, <1>11 DEF IInv, OnAir, OnAirAgrees, EdgeGrows, EdgeIsWatched, grows, Has
  <2> QED BY <2>3, <2>4, <2>6, <2>7, <2>9, <2>10 DEF IInv, Deck
<1> QED BY <1>3, <1>8, <1>9, <1>10, <1>11, <1>n, <1>c, <1>a

----------------------------------------------------------------------------
(* Players *)

\* A player that goes on, ends or fails; what handles its messages is there.
LEMMA PlayersStay ==
    ASSUME Playable, IInv, current # None, IsOnAir(current'), SameClip(current, current'),
           current'.req = current.req, current'.at_edge = current.at_edge,
           current'.mode = current.mode, current'.running = current.running, current'.dead \/ current'.dead = current.dead,
           UNCHANGED <<items, loop_playlist, next, preloading, position, shared, lanes, preloads, asked>>,
           tasks \subseteq tasks', \A t \in tasks' \ tasks : IsTask(t)
    PROVE  IInv'
<1>1. Typed BY DEF IInv
<1>2. /\ IsShared(shared') /\ IsLanes(lanes') /\ (\A t \in tasks' : IsTask(t)) /\ (asked' = NoItem \/ IsAsked(asked'))
  BY <1>1 DEF Typed
<1>3. Typed' /\ SerialsDiffer' /\ Deck' BY <1>2, DeckStays
<1>4. OnAir' BY EdgesStay, OnAirStays
<1> QED BY <1>3, <1>4 DEF IInv

LEMMA MovesKeep ==
    ASSUME Playable, IInv, PlayerMoves \/ PlayerEnds \/ FootageComes PROVE IInv'
<1>1. Typed BY DEF IInv
<1>2. current.serial # 0 BY DEF PlayerMoves, PlayerEnds, FootageComes
<1>3. current # None /\ IsOnAir(current) BY <1>1, <1>2, NoneIsNone DEF Typed
<1>4. UNCHANGED <<items, loop_playlist, next, preloading, position, shared, lanes, preloads, asked>>
  BY DEF PlayerMoves, PlayerEnds, FootageComes
<1>5. current' = current \/ (\E at \in Places : current' = [current EXCEPT !.at = at]) \/ current' = [current EXCEPT !.eos = TRUE]
  BY DEF PlayerMoves, PlayerEnds, FootageComes, Places
<1>6. /\ IsOnAir(current') /\ SameClip(current, current')
      /\ current'.req = current.req /\ current'.at_edge = current.at_edge
      /\ current'.mode = current.mode /\ current'.running = current.running /\ current'.dead = current.dead
  BY <1>3, <1>5 DEF IsOnAir, IsClip, SameClip
<1>7. tasks' = tasks \/ tasks' = tasks \cup {[kind |-> "ended", serial |-> current.serial]}
  BY DEF PlayerMoves, PlayerEnds, FootageComes
<1>8. IsTask([kind |-> "ended", serial |-> current.serial]) BY <1>3 DEF IsTask, IsOnAir, IsClip
<1>9. tasks \subseteq tasks' /\ \A t \in tasks' \ tasks : IsTask(t) BY <1>7, <1>8
<1> QED BY <1>3, <1>4, <1>6, <1>9, PlayersStay

LEMMA FailuresKeep ==
    ASSUME Playable, IInv, PlayerFails PROVE IInv'
<1>1. Typed BY DEF IInv
<1>2. UNCHANGED <<items, loop_playlist, preloading, position, shared, lanes, asked>> BY DEF PlayerFails
<1>f. ASSUME NEW serial \in Serials PROVE IsTask([kind |-> "failed", serial |-> serial])
  BY DEF IsTask
<1>3. CASE /\ current.serial # 0 /\ current' = [current EXCEPT !.dead = TRUE]
           /\ tasks' = tasks \cup {[kind |-> "failed", serial |-> current.serial]} /\ UNCHANGED <<next, preloads>>
  <2>1. current # None /\ IsOnAir(current) BY <1>1, <1>3, NoneIsNone DEF Typed
  <2>2. /\ IsOnAir(current') /\ SameClip(current, current') /\ current.serial \in Serials
        /\ current'.req = current.req /\ current'.at_edge = current.at_edge
        /\ current'.mode = current.mode /\ current'.running = current.running /\ current'.dead
    BY <1>3, <2>1 DEF IsOnAir, IsClip, SameClip
  <2>3. tasks \subseteq tasks' /\ \A t \in tasks' \ tasks : IsTask(t) BY <1>3, <1>f, <2>2
  <2> QED BY <1>2, <1>3, <2>1, <2>2, <2>3, PlayersStay
<1>4. ASSUME current' = current, NEW serial \in Serials, tasks' = tasks \cup {[kind |-> "failed", serial |-> serial]},
             next' = next \/ (next # None /\ IsStandby(next') /\ SameClip(next, next') /\ next'.req = next.req),
             UNCHANGED preloads \/ CueGoesOn
      PROVE  IInv'
  <2>1. tasks \subseteq tasks' /\ (\A t \in tasks' : IsTask(t)) BY <1>1, <1>4, <1>f DEF Typed
  <2>2. IsShared(shared') /\ IsLanes(lanes') /\ (asked' = NoItem \/ IsAsked(asked')) BY <1>1, <1>2 DEF Typed
  <2>3. Typed' /\ SerialsDiffer' /\ Deck' BY <1>2, <1>4, <2>1, <2>2, DeckStays
  <2>4. OnAir' BY <1>2, <1>4, <2>1, EdgesStay, OnAirStays
  <2> QED BY <2>3, <2>4 DEF IInv
<1>5. CASE /\ next # None /\ next' = [next EXCEPT !.dead = TRUE]
           /\ tasks' = tasks \cup {[kind |-> "failed", serial |-> next.serial]} /\ UNCHANGED <<current, preloads>>
  <2>1. IsStandby(next) BY <1>1, <1>5 DEF Typed
  <2>2. IsStandby(next') /\ SameClip(next, next') /\ next'.req = next.req /\ next.serial \in Serials
    BY <1>5, <2>1 DEF IsStandby, IsClip, SameClip
  <2> QED BY <1>4, <1>5, <2>2
<1>6. CASE \E t \in preloads :
             /\ preloads' = (preloads \ {t}) \cup {[t EXCEPT !.dead = TRUE]}
             /\ tasks' = tasks \cup {[kind |-> "failed", serial |-> t.serial]} /\ UNCHANGED <<current, next>>
  <2>1. PICK t \in preloads :
             /\ preloads' = (preloads \ {t}) \cup {[t EXCEPT !.dead = TRUE]}
             /\ tasks' = tasks \cup {[kind |-> "failed", serial |-> t.serial]} /\ UNCHANGED <<current, next>>
    BY <1>6
  <2>2. IsCue(t) BY <1>1 DEF Typed
  <2>u. PICK u : u = [t EXCEPT !.dead = TRUE] OBVIOUS
  <2>3. IsCue(u) /\ u.serial = t.serial /\ u.item = t.item /\ u.phase = t.phase BY <2>2, <2>u DEF IsCue
  <2>4. CueGoesOn BY <2>1, <2>3, <2>u DEF CueGoesOn
  <2>5. t.serial \in Serials BY <2>2 DEF IsCue
  <2> QED BY <1>4, <2>1, <2>4, <2>5
<1> QED BY <1>3, <1>5, <1>6 DEF PlayerFails

----------------------------------------------------------------------------
(* Ends *)

\* The clip on air ends.
LEMMA EndsKeep ==
    ASSUME Playable, IInv, Room, current # None, EndClip, UNCHANGED <<items, loop_playlist, asked>>,
           \A t \in tasks' : IsTask(t)
    PROVE  IInv'
<1>1. Typed /\ OnAir BY DEF IInv
<1>2. IsOnAir(current) /\ (asked' = NoItem \/ IsAsked(asked')) BY <1>1 DEF Typed
<1>i. PICK item : item = following(current, items, loop_playlist) OBVIOUS
<1>h. PICK hold : hold = [current EXCEPT !.mode = "Cued", !.running = current.running /\ current.dead] OBVIOUS
<1>3. /\ IsOnAir(hold) /\ SameClip(current, hold) /\ hold.mode = "Cued" /\ hold.req = current.req
      /\ hold.at_edge = current.at_edge /\ hold.dead = current.dead /\ hold.running \in BOOLEAN
      /\ ~hold.dead => ~hold.running
  <2>1. (current.running /\ current.dead) \in BOOLEAN BY <1>2 DEF IsOnAir, IsClip
  <2>2. PICK b \in BOOLEAN : b = (current.running /\ current.dead) BY <2>1
  <2>3. hold = [current EXCEPT !.mode = "Cued", !.running = b] BY <1>h, <2>2
  <2>4. /\ hold.mode = "Cued" /\ hold.req = current.req /\ hold.at_edge = current.at_edge /\ hold.dead = current.dead
        /\ hold.running = b /\ SameClip(current, hold) /\ IsOnAir(hold)
    BY <1>2, <2>3 DEF IsOnAir, IsClip, Modes, SameClip
  <2> QED BY <2>2, <2>4
\* On its last frame, or black: ended, and nothing else changes.
<1>4. ASSUME current' = hold, shared'.state = "Ended", shared'.clip = shared.clip, shared'.item = shared.item PROVE OnAir'
  <2>1. current' # None /\ current'.item = current.item BY <1>3, <1>4, NoneIsNone DEF IsOnAir, SameClip
  <2>2. OnAirAgrees' BY <1>1, <1>3, <1>4, <2>1 DEF OnAir, OnAirAgrees
  <2>3. EdgeGrows' BY <1>1, <1>3, <1>4 DEF OnAir, EdgeGrows, grows
  <2>4. EdgeIsWatched' BY <1>4 DEF EdgeIsWatched
  <2> QED BY <2>2, <2>3, <2>4 DEF OnAir
<1>5. CASE ~(current.req.end = "next" /\ item # NoItem)
  <2>1. /\ current' = hold /\ shared' = [shared EXCEPT !.state = "Ended"]
        /\ lanes' = (IF current.req.end = "black" THEN close(lanes) ELSE lanes)
        /\ position' = (IF current.req.end = "next" THEN Noted(current, items) ELSE position)
        /\ UNCHANGED <<next, preloading, preloads>>
    BY <1>5, <1>i, <1>h DEF EndClip
  <2>2. IsShared(shared') /\ shared'.state = "Ended" /\ shared'.clip = shared.clip /\ shared'.item = shared.item /\ shared'.error = shared.error
    BY <1>1, <2>1 DEF Typed, IsShared, States
  <2>3. IsLanes(lanes) /\ IsLanes(close(lanes)) BY <1>1, EnsureDoes DEF Typed
  <2>4. Typed' /\ SerialsDiffer' /\ Deck' BY <1>2, <1>3, <2>1, <2>2, <2>3, DeckStays
  <2>5. OnAir' BY <1>4, <2>1, <2>2
  <2> QED BY <2>4, <2>5, ZenonT(60) DEF IInv
<1>6. CASE current.req.end = "next" /\ item # NoItem
  <2>g. current.req.end = "next" /\ following(current, items, loop_playlist) # NoItem BY <1>6, <1>i
  <2>c. \E cues \in BOOLEAN, fails \in {"none", "seek", "run"} :
          LET s == take(following(current, items, loop_playlist), TRUE, cues, fails)
          IN  /\ CanTake(following(current, items, loop_playlist), cues, fails)
              /\ Faulty(~cues)
              /\ lanes' = s.lanes
              /\ IF cues THEN Took(s, TRUE)
                 ELSE Took([s EXCEPT !.cur = [current EXCEPT !.mode = "Cued", !.running = current.running /\ current.dead],
                                     !.sh.state = "Ended"], FALSE)
    BY <2>g, Zenon DEF EndClip
  <2>1. PICK cues \in BOOLEAN, fails \in {"none", "seek", "run"} :
          LET s == take(item, TRUE, cues, fails)
          IN  /\ CanTake(item, cues, fails)
              /\ lanes' = s.lanes
              /\ IF cues THEN Took(s, TRUE) ELSE Took([s EXCEPT !.cur = hold, !.sh.state = "Ended"], FALSE)
    BY <2>c, <1>i, <1>h, Zenon
  <2>s. PICK s : s = take(item, TRUE, cues, fails) OBVIOUS
  <2>e. PICK e : e = [s EXCEPT !.cur = hold, !.sh.state = "Ended"] OBVIOUS
  <2>2. CanTake(item, cues, fails) /\ lanes' = s.lanes /\ (cues => Took(s, TRUE)) /\ (~cues => Took(e, FALSE))
    BY <2>1, <2>s, <2>e
  <2>3. item \in Items BY <1>1, <1>6, <1>i, FollowingIs DEF Typed
  <2>4. /\ cues => PutsOn(s) /\ (s.cur.serial \in {0, next.serial} \/ s.cur.serial \notin Used)
        /\ ~cues => s = [Here EXCEPT !.sh.error = TRUE, !.ok = FALSE]
    <3>1. PICK yes \in BOOLEAN : yes = TRUE OBVIOUS
    <3>2. s = take(item, yes, cues, fails) BY <2>s, <3>1
    <3> QED BY <1>1, <2>2, <2>3, <3>2, TakeDoes
  <2>5. CASE cues
    <3>1. Refresh(s.cur, None, s.sh) BY <2>2, <2>5 DEF Took
    <3>2. s.cur # None => s.cur.serial # None.serial BY <2>4, <2>5, NoneIsNone DEF PutsOn, IsOnAir
    <3> QED BY <1>2, <2>2, <2>4, <2>5, <3>1, <3>2, PutsKeep
  <2>6. CASE ~cues
    <3>1. s.cur = current /\ s.sh = [shared EXCEPT !.error = TRUE] /\ s.lanes = lanes /\ DOMAIN s = {"cur", "sh", "lanes", "ok"}
      BY <2>4, <2>6 DEF Here
    <3>2. e.cur = hold /\ e.sh = [s.sh EXCEPT !.state = "Ended"] BY <2>e, <3>1
    <3>3. IsShared(e.sh) /\ e.sh.error /\ e.sh.state = "Ended" /\ e.sh.clip = shared.clip /\ e.sh.item = shared.item
      BY <1>1, <3>1, <3>2 DEF Typed, IsShared, States
    <3>4. IsLanes(lanes') BY <1>1, <2>2, <3>1 DEF Typed
    <3>5. Took(e, FALSE) BY <2>2, <2>6
    <3>6. Typed' /\ SerialsDiffer' /\ Deck' BY <1>2, <1>3, <3>2, <3>3, <3>4, <3>5, TookTypes
    <3>7. current' = hold /\ shared' = e.sh BY <3>2, <3>5 DEF Took
    <3>8. OnAir' BY <1>4, <3>3, <3>7
    <3> QED BY <3>6, <3>8 DEF IInv
  <2> QED BY <2>5, <2>6
<1> QED BY <1>5, <1>6

----------------------------------------------------------------------------
(* Handlers of players' messages *)

LEMMA OthersAre ==
    ASSUME NEW kind \in {"ended", "failed"}, NEW serial, Others(kind, serial) \subseteq tasks'
    PROVE  \A s : (Has("edge", s) => Has("edge", s)') /\ (Has("edge_over", s) => Has("edge_over", s)')
<1> SUFFICES ASSUME NEW s, NEW k \in {"edge", "edge_over"}, [kind |-> k, serial |-> s] \in tasks
             PROVE  [kind |-> k, serial |-> s] \in tasks'
  BY DEF Has
<1>1. PICK t : t = [kind |-> k, serial |-> s] OBVIOUS
<1>2. PICK o : o = [kind |-> kind, serial |-> serial] OBVIOUS
<1>3. t.kind # o.kind BY <1>1, <1>2
<1>4. t \in Others(kind, serial) BY <1>1, <1>2, <1>3 DEF Others
<1> QED BY <1>1, <1>4

LEMMA TaskIs ==
    ASSUME NEW kind \in {"ended", "failed", "edge", "edge_over"}, NEW serial \in Serials PROVE IsTask([kind |-> kind, serial |-> serial])
BY DEF IsTask

\* Only what handles messages changes.
LEMMA HandledKeep ==
    ASSUME Playable, IInv, UNCHANGED <<items, loop_playlist, current, next, preloading, position, shared, lanes, preloads, asked>>,
           \A t \in tasks' : IsTask(t), EdgeIsWatched'
    PROVE  IInv'
<1>1. Typed BY DEF IInv
<1>2. /\ IsShared(shared') /\ IsLanes(lanes') /\ (asked' = NoItem \/ IsAsked(asked'))
  BY <1>1 DEF Typed
<1>3. Typed' /\ SerialsDiffer' /\ Deck' BY <1>2, DeckStays
<1>4. OnAirAgrees' /\ EdgeGrows' BY DEF IInv, OnAir, OnAirAgrees, EdgeGrows, grows
<1> QED BY <1>3, <1>4 DEF IInv, OnAir

LEMMA EndedKeep ==
    ASSUME Playable, IInv, NEW serial \in Serials, ended(serial) PROVE IInv'
<1>1. Typed /\ Room /\ OnAir BY DEF IInv, ended
<1>2. UNCHANGED <<items, loop_playlist, asked>> BY DEF ended
<1>3. (\A t \in tasks : IsTask(t)) /\ Others("ended", serial) \subseteq tasks BY <1>1 DEF Typed, Others
<1>4. CASE tasks' = Others("ended", serial) /\ UNCHANGED <<deck, shared, lanes, preloads>>
  <2>1. UNCHANGED <<current, next, preloading, position, shared, lanes, preloads>> BY <1>4 DEF deck
  <2>2. \A s : (Has("edge", s) => Has("edge", s)') /\ (Has("edge_over", s) => Has("edge_over", s)') BY <1>4, OthersAre
  <2>3. OnAir' BY <2>1, <2>2, OnAirStays
  <2>4. \A t \in tasks' : IsTask(t) BY <1>3, <1>4
  <2> QED BY <1>2, <2>1, <2>3, <2>4, HandledKeep DEF OnAir
<1>5. CASE /\ current.serial = serial /\ grows(current) /\ current' = [current EXCEPT !.at_edge = TRUE]
           /\ tasks' = Others("ended", serial) \cup {[kind |-> "edge", serial |-> serial]}
           /\ UNCHANGED <<next, preloading, position, shared, lanes, preloads>>
  <2>1. current # None /\ IsOnAir(current) BY <1>1, <1>5, NoneIsNone DEF Typed, Playable
  <2>2. /\ IsOnAir(current') /\ SameClip(current, current') /\ current'.req = current.req /\ current'.dead = current.dead
        /\ current'.mode = current.mode /\ current'.running = current.running
    BY <1>5, <2>1 DEF IsOnAir, IsClip, SameClip
  <2>3. \A t \in tasks' : IsTask(t) BY <1>3, <1>5, TaskIs
  <2>4. /\ IsShared(shared') /\ IsLanes(lanes') /\ (asked' = NoItem \/ IsAsked(asked')) BY <1>1, <1>2, <1>5 DEF Typed
  <2>5. Typed' /\ SerialsDiffer' /\ Deck' BY <1>2, <1>5, <2>1, <2>2, <2>3, <2>4, DeckStays
  <2>6. current' # None BY <2>2, NoneIsNone DEF IsOnAir
  <2>7. OnAirAgrees' BY <1>1, <1>5, <2>1, <2>2, <2>6 DEF OnAir, OnAirAgrees, SameClip
  <2>8. EdgeGrows' BY <1>5, <2>2 DEF EdgeGrows, grows
  <2>9. EdgeIsWatched' BY <1>5, <2>2 DEF EdgeIsWatched, Has, SameClip
  <2> QED BY <2>5, <2>7, <2>8, <2>9 DEF IInv, OnAir
<1>6. CASE current.serial = serial /\ EndClip /\ tasks' = Others("ended", serial)
  <2>1. current # None BY <1>6, NoneIsNone DEF Playable
  <2>2. \A t \in tasks' : IsTask(t) BY <1>3, <1>6
  <2> QED BY <1>1, <1>2, <1>6, <2>1, <2>2, EndsKeep
<1> QED BY <1>4, <1>5, <1>6 DEF ended

LEMMA WaitsKeep ==
    ASSUME Playable, IInv, NEW serial \in Serials, wait_at_edge(serial) PROVE IInv'
<1>1. Typed /\ OnAir /\ EdgeIsWatched BY DEF IInv, OnAir
<1>2. UNCHANGED <<items, loop_playlist, next, preloading, position, shared, lanes, preloads, asked>> BY DEF wait_at_edge
<1>3. (\A t \in tasks : IsTask(t)) /\ Others("edge", serial) \subseteq tasks BY <1>1 DEF Typed, Others
<1>o. PICK over : over = [kind |-> "edge_over", serial |-> serial] OBVIOUS
<1>4. IsTask(over) BY <1>o, TaskIs
\* Another's handlers stay; its own goes.
<1>5. \A s : s # serial => (Has("edge", s) => [kind |-> "edge", serial |-> s] \in Others("edge", serial))
  BY DEF Has, Others
<1>6. \A s : Has("edge_over", s) => [kind |-> "edge_over", serial |-> s] \in Others("edge", serial)
  BY DEF Has, Others
<1>7. CASE (~AtEdge(serial) \/ shared.state # "Playing") /\ tasks' = Others("edge", serial) /\ UNCHANGED current
  <2>1. EdgeIsWatched' BY <1>1, <1>2, <1>5, <1>6, <1>7 DEF EdgeIsWatched, AtEdge, Has
  <2>2. \A t \in tasks' : IsTask(t) BY <1>3, <1>7
  <2> QED BY <1>2, <1>7, <2>1, <2>2, HandledKeep
<1>8. CASE AtEdge(serial) /\ tasks' = Others("edge", serial) \cup {over} /\ UNCHANGED current
  <2>1. EdgeIsWatched' BY <1>8, <1>o DEF EdgeIsWatched, AtEdge, Has
  <2>2. \A t \in tasks' : IsTask(t) BY <1>3, <1>4, <1>8
  <2> QED BY <1>2, <1>8, <2>1, <2>2, HandledKeep
<1>9. CASE /\ AtEdge(serial)
           /\ \E fails \in Fails(current) :
                LET s == OffEdge(SeekTo(Here, current.at, current.rate, fails))
                IN  current' = s.cur /\ tasks' = Others("edge", serial) \cup (IF s.ok THEN {} ELSE {over})
  <2>1. PICK fails \in Fails(current) :
                LET s == OffEdge(SeekTo(Here, current.at, current.rate, fails))
                IN  current' = s.cur /\ tasks' = Others("edge", serial) \cup (IF s.ok THEN {} ELSE {over})
    BY <1>9
  <2>s. PICK s : s = OffEdge(SeekTo(Here, current.at, current.rate, fails)) OBVIOUS
  <2>2. current' = s.cur /\ tasks' = Others("edge", serial) \cup (IF s.ok THEN {} ELSE {over}) BY <2>1, <2>s
  <2>3. current # None /\ IsOnAir(current) /\ current.serial = serial
    BY <1>1, <1>9, NoneIsNone DEF Typed, Playable, AtEdge
  <2>4. IsState(Here) /\ Here.cur = current /\ Fair(Here, fails) BY <1>1, <2>3, HereIs, HereIsFair
  <2>5. current.at \in Places /\ current.rate \in {1, -1} BY <2>3 DEF IsOnAir, IsClip
  <2>6. /\ Goes(Here, s) /\ SameRuns(Here, s) /\ SamePoints(Here, s)
        /\ s.ok => ~s.cur.at_edge
        /\ (s.cur.at_edge => Here.cur.at_edge)
    BY <2>4, <2>5, <2>s, SeeksOffEdge
  <2>7. /\ IsOnAir(current') /\ SameClip(current, current') /\ current'.req = current.req /\ current'.dead = current.dead
        /\ current'.mode = current.mode /\ current'.running = current.running
        /\ (current'.at_edge => current.at_edge)
    BY <2>2, <2>4, <2>6 DEF Goes, SameRuns, SamePoints, IsState, SameClip
  <2>8. \A t \in tasks' : IsTask(t) BY <1>3, <1>4, <2>2
  <2>9. /\ IsShared(shared') /\ IsLanes(lanes') /\ (asked' = NoItem \/ IsAsked(asked')) BY <1>1, <1>2 DEF Typed
  <2>10. Typed' /\ SerialsDiffer' /\ Deck' BY <1>2, <2>3, <2>7, <2>8, <2>9, DeckStays
  <2>11. current' # None BY <2>7, NoneIsNone DEF IsOnAir
  <2>12. OnAirAgrees' BY <1>1, <1>2, <2>3, <2>7, <2>11 DEF OnAir, OnAirAgrees, SameClip
  <2>13. EdgeGrows' BY <1>1, <2>3, <2>7 DEF OnAir, EdgeGrows, grows
  <2>14. EdgeIsWatched' BY <1>o, <2>2, <2>3, <2>6, <2>7 DEF EdgeIsWatched, Has, SameClip
  <2> QED BY <2>10, <2>12, <2>13, <2>14 DEF IInv, OnAir
<1> QED BY <1>7, <1>8, <1>9, <1>o DEF wait_at_edge

LEMMA EdgesEnd ==
    ASSUME Playable, IInv, NEW serial \in Serials, EndsAtEdge(serial) PROVE IInv'
<1>1. Typed /\ Room /\ EdgeIsWatched BY DEF IInv, OnAir, EndsAtEdge
<1>2. UNCHANGED <<items, loop_playlist, asked>> /\ tasks' = Others("edge_over", serial) BY DEF EndsAtEdge
<1>3. \A t \in tasks' : IsTask(t) BY <1>1, <1>2 DEF Typed, Others
<1>4. CASE AtEdge(serial) /\ EndClip
  <2>1. current # None BY <1>4, NoneIsNone DEF Playable, AtEdge
  <2> QED BY <1>1, <1>2, <1>3, <1>4, <2>1, EndsKeep
<1>5. CASE ~AtEdge(serial) /\ UNCHANGED <<deck, shared, lanes, preloads>>
  <2>1. UNCHANGED <<current, next, preloading, position, shared, lanes, preloads>> BY <1>5 DEF deck
  <2>2. \A s : s # serial => (Has("edge_over", s) => [kind |-> "edge_over", serial |-> s] \in tasks')
    BY <1>2 DEF Has, Others
  <2>3. \A s : Has("edge", s) => [kind |-> "edge", serial |-> s] \in tasks' BY <1>2 DEF Has, Others
  <2>4. EdgeIsWatched' BY <1>1, <1>5, <2>1, <2>2, <2>3 DEF EdgeIsWatched, AtEdge, Has
  <2> QED BY <1>2, <1>3, <2>1, <2>4, HandledKeep
<1> QED BY <1>4, <1>5 DEF EndsAtEdge

LEMMA FailedKeep ==
    ASSUME Playable, IInv, NEW serial \in Serials, failed(serial) PROVE IInv'
<1>1. Typed /\ Room /\ OnAir BY DEF IInv, failed
<1>2. UNCHANGED <<items, loop_playlist, asked>> /\ tasks' = Others("failed", serial) BY DEF failed
<1>3. \A t \in tasks' : IsTask(t) BY <1>1, <1>2 DEF Typed, Others
<1>4. \A s : (Has("edge", s) => Has("edge", s)') /\ (Has("edge_over", s) => Has("edge_over", s)') BY <1>2, OthersAre
<1>5. CASE /\ next' = None /\ shared' = [shared EXCEPT !.next_ready = FALSE, !.error = TRUE]
           /\ UNCHANGED <<current, preloading, position, lanes, preloads>>
  <2>1. IsShared(shared') /\ shared'.error /\ shared'.state = shared.state /\ shared'.clip = shared.clip /\ shared'.item = shared.item
    BY <1>1, <1>5 DEF Typed, IsShared
  <2>2. IsLanes(lanes') /\ (asked' = NoItem \/ IsAsked(asked')) BY <1>1, <1>2, <1>5 DEF Typed
  <2>3. Typed' /\ SerialsDiffer' /\ Deck' BY <1>2, <1>3, <1>5, <2>1, <2>2, DeckStays
  <2>4. OnAir' BY <1>4, <1>5, <2>1, OnAirStays
  <2> QED BY <2>3, <2>4 DEF IInv
<1>6. CASE Refresh(None, next, Unloaded(TRUE)) /\ lanes' = close(lanes)
  <2>h. PICK sh : sh = Unloaded(TRUE) OBVIOUS
  <2>1. IsShared(sh) /\ sh.state = "Idle" /\ sh.clip = NoRequest /\ sh.item = "none"
    <3>1. PICK yes \in BOOLEAN : yes = TRUE OBVIOUS
    <3>2. sh = Unloaded(yes) BY <2>h, <3>1
    <3> QED BY <1>1, <3>2, UnloadedIs
  <2>2. IsLanes(close(lanes)) /\ ~close(lanes).want BY <1>1, EnsureDoes DEF Typed
  <2>s. PICK s : s = [cur |-> None, sh |-> sh, lanes |-> close(lanes)] OBVIOUS
  <2>3. s.cur = None /\ s.sh = sh /\ s.lanes = close(lanes) BY <2>s
  <2>4. PutsOn(s) BY <2>1, <2>2, <2>3 DEF PutsOn
  <2>5. Refresh(s.cur, next, s.sh) /\ lanes' = s.lanes BY <1>6, <2>3, <2>h
  <2>6. s.cur.serial = 0 BY <2>3, NoneIsNone
  <2>7. asked' = NoItem \/ IsAsked(asked') BY <1>1, <1>2 DEF Typed
  <2> QED BY <1>1, <1>2, <1>3, <2>3, <2>4, <2>5, <2>6, <2>7, PutsKeep
<1>7. CASE UNCHANGED <<deck, shared, lanes, preloads>>
  <2>1. UNCHANGED <<current, next, preloading, position, shared, lanes, preloads>> BY <1>7 DEF deck
  <2>2. OnAir' BY <1>4, <2>1, OnAirStays
  <2> QED BY <1>2, <1>3, <2>1, <2>2, HandledKeep DEF OnAir
<1> QED BY <1>5, <1>6, <1>7 DEF failed

----------------------------------------------------------------------------
(* The transport *)

LEMMA IInvAtFirst ==
    ASSUME Playable, Init PROVE IInv
<1>1. /\ items = <<>> /\ loop_playlist = FALSE /\ current = None /\ next = None /\ preloading = NoItem /\ position = 0
      /\ shared = [state |-> "Idle", clip |-> NoRequest, item |-> "none", next_id |-> "none", next_ready |-> FALSE, error |-> FALSE]
      /\ lanes = [bin |-> "none", want |-> FALSE, open |-> FALSE] /\ preloads = {} /\ tasks = {} /\ asked = NoItem
  BY DEF Init
<1>2. items \in Seq(Items) /\ Named(items) BY <1>1 DEF Named
<1>3. IsShared(shared) /\ IsLanes(lanes) BY <1>1 DEF IsShared, IsLanes, States
<1>4. Typed BY <1>1, <1>2, <1>3 DEF Typed
<1>5. SerialsDiffer BY <1>1 DEF SerialsDiffer
<1>6. PositionIsNoted /\ CueIsOnItsWay BY <1>1 DEF PositionIsNoted, CueIsOnItsWay, Noted
<1>7. following(current, items, loop_playlist) = NoItem BY <1>1 DEF following, Noted
<1>8. NextIsComing BY <1>7 DEF NextIsComing
<1>9. OnAir BY <1>1 DEF OnAir, OnAirAgrees, EdgeGrows, EdgeIsWatched
<1> QED BY <1>4, <1>5, <1>6, <1>8, <1>9 DEF IInv, Deck

LEMMA IInvStays ==
    ASSUME Playable, IInv, [Next]_vars PROVE IInv'
<1>1. CASE Commands
  BY <1>1, EditsKeep, AsksKeep, PlaysKeep, PausesKeep, StopsKeep, SeeksKeep, RatesKeep, StepsKeep, LoadsKeep, NextsKeep
     DEF Commands
<1>2. CASE Handlers
  BY <1>2, EndedKeep, EdgesEnd, WaitsKeep, FailedKeep DEF Handlers
<1>3. CASE cue_or_play_item \/ CueEnds \/ ProgramGoes \/ PlayerFails
  BY <1>3, AskedKeep, CuesKeep, LanesKeep, FailuresKeep
<1>4. CASE CueLands \/ CueAgain \/ attach \/ PlayerMoves \/ PlayerEnds \/ FootageComes
  BY <1>4, LandsKeep, AgainKeep, LanesKeep, MovesKeep
<1>5. CASE UNCHANGED vars
  <2>1. UNCHANGED <<items, loop_playlist, current, next, preloading, position, shared, lanes, preloads, tasks, asked>>
    BY <1>5 DEF vars, deck
  <2>2. (\A t \in tasks' : IsTask(t)) BY <2>1 DEF IInv, Typed
  <2>3. EdgeIsWatched' BY <2>1 DEF IInv, OnAir, EdgeIsWatched, Has
  <2> QED BY <2>1, <2>2, <2>3, HandledKeep
<1> QED BY <1>1, <1>2, <1>3, <1>4, <1>5 DEF Next

LEMMA IInvSays ==
    ASSUME Playable, IInv PROVE TypeOK /\ OnAirAgrees /\ NextIsComing /\ EdgeIsWatched
<1>1. Typed /\ SerialsDiffer BY DEF IInv
<1>2. IsFiniteSet(Used) /\ Used \subseteq Serials \cup {0} BY <1>1, UsedAre
<1>3. position \in Nat /\ shared.state \in States /\ (lanes.open => lanes.want) BY <1>1 DEF Typed, IsShared, IsLanes
<1>4. current # None =>
        /\ current.mode \in {"Cued", "Playing"} /\ current.at \in Places /\ current.req.end \in Ends
        /\ current.serial # next.serial
  BY <1>1 DEF Typed, SerialsDiffer, IsOnAir, IsClip, Modes, IsRequest
<1>5. next # None => next.mode = "Off" /\ ~next.running /\ ~next.eos BY <1>1 DEF Typed, IsStandby
<1>6. \A t \in tasks : t.kind \in {"ended", "failed", "edge", "edge_over"} BY <1>1 DEF Typed, IsTask
<1>7. TypeOK BY <1>2, <1>3, <1>4, <1>5, <1>6 DEF TypeOK
<1> QED BY <1>7 DEF IInv, Deck, OnAir

LEMMA OnlyEdits ==
    ASSUME [Next]_vars, items' # items PROVE set_playlist
<1>1. ~(Ask \/ play \/ pause \/ stop \/ seek \/ set_rate \/ step \/ load_clip \/ PlayNext)
  <2>1. ASSUME NEW s, Becomes(s) PROVE FALSE BY <2>1 DEF Becomes
  <2>2. ~(play \/ pause \/ seek) BY <2>1, Zenon DEF play, pause, seek
  <2>4. ~set_rate
    <3> SUFFICES ASSUME set_rate PROVE FALSE
      OBVIOUS
    <3> DEFINE isover == shared.state = "Ended"
    <3>rate. PICK rate \in {1, -1}, fails \in Fails(current) :
            LET r == reopen_if_ended(Here)
                p == IF rate > 0 THEN play_on(r, isover) ELSE r
                q == IF p.ok THEN [p EXCEPT !.cur.req.rate = rate] ELSE p
                s == OffEdge(SeekTo(q, current.at, rate, fails))
            IN  Becomes(IF s.ok THEN [s EXCEPT !.sh.clip.rate = rate] ELSE s)
      BY Zenon DEF set_rate
    <3>r. PICK r : r = reopen_if_ended(Here) OBVIOUS
    <3>p. PICK p : p = IF rate > 0 THEN play_on(r, isover) ELSE r OBVIOUS
    <3>q. PICK q : q = IF p.ok THEN [p EXCEPT !.cur.req.rate = rate] ELSE p OBVIOUS
    <3>s. PICK s : s = OffEdge(SeekTo(q, current.at, rate, fails)) OBVIOUS
    <3>t. PICK t : t = IF s.ok THEN [s EXCEPT !.sh.clip.rate = rate] ELSE s BY Zenon
    <3>1. /\ r = reopen_if_ended(Here)
          /\ p = IF rate > 0 THEN play_on(r, isover) ELSE r
          /\ q = IF p.ok THEN [p EXCEPT !.cur.req.rate = rate] ELSE p
          /\ s = OffEdge(SeekTo(q, current.at, rate, fails))
          /\ t = IF s.ok THEN [s EXCEPT !.sh.clip.rate = rate] ELSE s
          /\ Becomes(t)
      BY <3>rate, <3>r, <3>p, <3>q, <3>s, <3>t, ZenonT(40)
    <3> QED BY <2>1, <3>1, Zenon
  <2>5. ~step
    <3> SUFFICES ASSUME step PROVE FALSE
      OBVIOUS
    <3>1. PICK rate \in {1, -1}, fails \in Fails(current) :
            LET p == IF shared.state = "Playing" THEN Run(Here, "Cued", FALSE, fails) ELSE Here
                isover == shared.state = "Ended"
                r == reopen_if_ended(p)
                turns == r.ok /\ (current.rate # rate \/ (rate > 0 /\ PlaysOn(r, isover)))
                o == IF rate > 0 THEN play_on(r, isover) ELSE r
                t == IF turns THEN OffEdge(SeekTo(o, current.at, rate, fails)) ELSE o
            IN  \E at \in Places : Becomes(Say(IF t.ok THEN [t EXCEPT !.cur.at = at] ELSE t, "Paused"))
      BY DEF step
    <3>2. \E s : Becomes(s) BY <3>1, Zenon
    <3> QED BY <2>1, <3>2
  <2>3. ~(Ask \/ stop \/ load_clip \/ PlayNext) BY DEF Ask, stop, load_clip, PlayNext
  <2> QED BY <2>2, <2>3, <2>4, <2>5
<1>2. \A s : ~(ended(s) \/ EndsAtEdge(s) \/ wait_at_edge(s) \/ failed(s))
  BY DEF ended, EndsAtEdge, wait_at_edge, failed
<1>3. ~(cue_or_play_item \/ CueEnds \/ ProgramGoes \/ PlayerFails)
  BY DEF cue_or_play_item, CueEnds, ProgramGoes, PlayerFails
<1>4. ~(CueLands \/ CueAgain \/ attach \/ PlayerMoves \/ PlayerEnds \/ FootageComes)
  BY DEF CueLands, CueAgain, attach, PlayerMoves, PlayerEnds, FootageComes
<1>5. ~UNCHANGED vars BY DEF vars
<1> QED BY <1>1, <1>2, <1>3, <1>4, <1>5 DEF Next, Commands, Handlers

\* A list that lost its ith element.
LEMMA RemovedIs ==
    ASSUME NEW S, NEW s \in Seq(S), NEW i \in DOMAIN s, NEW r, r = RemoveAt(s, i)
    PROVE  /\ r \in Seq(S) /\ Len(r) = Len(s) - 1
           /\ \A j \in 1..(Len(s) - 1) : r[j] = IF j < i THEN s[j] ELSE s[j + 1]
<1>1. r = SubSeq(s, 1, i - 1) \o SubSeq(s, i + 1, Len(s)) BY DEF RemoveAt
<1>2. i \in 1..Len(s) /\ Len(s) \in Nat OBVIOUS
<1>a. PICK a : a = SubSeq(s, 1, i - 1) OBVIOUS
<1>b. PICK b : b = SubSeq(s, i + 1, Len(s)) OBVIOUS
<1>3. a \in Seq(S) /\ Len(a) = i - 1 /\ \A j \in 1..(i - 1) : a[j] = s[j] BY <1>2, <1>a
<1>4. b \in Seq(S) /\ Len(b) = Len(s) - i /\ \A j \in 1..(Len(s) - i) : b[j] = s[i + j] BY <1>2, <1>b
<1>5. r = a \o b BY <1>1, <1>a, <1>b
<1>6. r \in Seq(S) /\ Len(r) = Len(a) + Len(b) /\ \A j \in 1..(Len(a) + Len(b)) : r[j] = IF j <= Len(a) THEN a[j] ELSE b[j - Len(a)]
  <2>1. a \in Seq(S) /\ b \in Seq(S) BY <1>3, <1>4
  <2> QED BY <1>5, <2>1, ConcatProperties
<1>7. Len(r) = Len(s) - 1 BY <1>2, <1>3, <1>4, <1>6
<1>8. ASSUME NEW j \in 1..(Len(s) - 1) PROVE r[j] = IF j < i THEN s[j] ELSE s[j + 1]
  <2>0. j \in 1..(Len(a) + Len(b)) /\ j \in Nat BY <1>2, <1>3, <1>4
  <2>1. CASE j < i
    <3>1. j <= Len(a) /\ j \in 1..(i - 1) BY <1>2, <1>3, <2>0, <2>1
    <3>2. r[j] = a[j] BY <1>6, <2>0, <3>1
    <3>3. a[j] = s[j] BY <1>3, <3>1
    <3> QED BY <2>1, <3>2, <3>3
  <2>2. CASE ~(j < i)
    <3>1. j - Len(a) \in 1..(Len(s) - i) /\ i + (j - Len(a)) = j + 1 /\ ~(j <= Len(a)) BY <1>2, <1>3, <2>0, <2>2
    <3>2. r[j] = b[j - Len(a)] BY <1>6, <2>0, <3>1
    <3>3. b[j - Len(a)] = s[i + (j - Len(a))] BY <1>4, <3>1
    <3> QED BY <2>2, <3>1, <3>2, <3>3
  <2> QED BY <2>1, <2>2
<1> QED BY <1>6, <1>7, <1>8

LEMMA StepSkipsNothing ==
    ASSUME Playable, IInv, [Next]_vars PROVE NoneSkipped
<1> SUFFICES ASSUME NEW i \in DOMAIN items, current # None, current.item = items[i].id, current' = current,
                    items' = RemoveAt(items, i), i < Len(items)
             PROVE  shared'.next_id = items[i + 1].id
  BY DEF NoneSkipped
<1>1. Typed /\ SerialsDiffer /\ CueIsOnItsWay /\ PositionIsNoted BY DEF IInv, Deck
<1>2. items \in Seq(Items) /\ Named(items) /\ i \in 1..Len(items) /\ Len(items) \in Nat /\ i \in Nat BY <1>1 DEF Typed
<1>3. /\ items' \in Seq(Items) /\ Len(items') = Len(items) - 1
      /\ \A j \in 1..(Len(items) - 1) : items'[j] = IF j < i THEN items[j] ELSE items[j + 1]
  <2>1. PICK r : r = RemoveAt(items, i) OBVIOUS
  <2>2. r \in Seq(Items) /\ Len(r) = Len(items) - 1 /\ \A j \in 1..(Len(items) - 1) : r[j] = IF j < i THEN items[j] ELSE items[j + 1]
    BY <1>2, <2>1, RemovedIs
  <2> QED BY <2>1, <2>2
<1>4. items' # items BY <1>2, <1>3
<1>5. set_playlist BY <1>4, OnlyEdits
<1>6. PICK cur, sh, loops : refresh_next(cur, next, sh, items', loops, preloads) BY <1>5 DEF set_playlist
<1>7. cur = current /\ shared'.next_id = following(cur, items', loops).id
  <2>1. cur = current BY <1>6 DEF refresh_next
  <2>2. PICK want : want = following(cur, items', loops) OBVIOUS
  <2>3. shared' = [sh EXCEPT !.next_id = want.id, !.next_ready = Keeps(next, want)] BY <1>6, <2>2 DEF refresh_next
  <2>4. IsShared(shared')
    <3>1. IInv' BY IInvStays
    <3> QED BY <3>1 DEF IInv, Typed
  <2>5. "next_id" \in DOMAIN sh BY <2>3, <2>4 DEF IsShared
  <2> QED BY <2>1, <2>2, <2>3, <2>5
\* It isn't in the list any more, and where it was is the next one.
<1>8. IndexOf(current.item, items') = 0
  <2> SUFFICES ASSUME IndexOf(current.item, items') # 0 PROVE FALSE
    OBVIOUS
  <2>1. PICK k \in DOMAIN items' : items'[k].id = items[i].id BY <1>3, IndexIs
  <2>2. k \in 1..(Len(items) - 1) BY <1>3
  <2>3. items'[k] = IF k < i THEN items[k] ELSE items[k + 1] BY <1>3, <2>2
  <2>4. CASE k < i
    <3>1. k \in DOMAIN items /\ items[k].id = items[i].id BY <1>2, <2>1, <2>2, <2>3, <2>4
    <3> QED BY <1>2, <2>4, <3>1 DEF Named
  <2>5. CASE ~(k < i)
    <3>1. k + 1 \in DOMAIN items /\ items[k + 1].id = items[i].id BY <1>2, <2>1, <2>2, <2>3, <2>5
    <3>2. k + 1 = i BY <1>2, <3>1 DEF Named
    <3> QED BY <1>2, <2>2, <2>5, <3>2
  <2> QED BY <2>4, <2>5
<1>9. position = i
  <2>1. IndexOf(current.item, items) \in DOMAIN items /\ items[IndexOf(current.item, items)].id = items[i].id
    BY <1>2, IndexIs
  <2>2. IndexOf(current.item, items) = i BY <1>2, <2>1 DEF Named
  <2>3. i # 0 BY <1>2
  <2> QED BY <1>1, <2>2, <2>3 DEF PositionIsNoted, Noted
<1>10. items[i] \in Items /\ current.item # "none" BY <1>2, NoItemIsNone
<1>11. i \in DOMAIN items' /\ items'[i] = items[i + 1] BY <1>2, <1>3
<1>12. following(current, items', loops) = items[i + 1]
  <2>1. position \in DOMAIN items' /\ position # 0 BY <1>2, <1>9, <1>11
  <2> QED BY <1>8, <1>9, <1>10, <1>11, <2>1 DEF following
<1> QED BY <1>7, <1>12

\* Whatever the playlists, media and requests: status agrees with the deck,
\* what comes next is coming, and a replay at its edge is watched.
THEOREM TransportIsSound ==
    ASSUME Playable PROVE Spec => [](TypeOK /\ OnAirAgrees /\ NextIsComing /\ EdgeIsWatched)
<1>1. Init => IInv BY IInvAtFirst
<1>2. IInv /\ [Next]_vars => IInv' BY IInvStays
<1>3. IInv => TypeOK /\ OnAirAgrees /\ NextIsComing /\ EdgeIsWatched BY IInvSays
<1> QED BY <1>1, <1>2, <1>3, PTL DEF Spec

\* No edit of a playlist, however long and whatever raced with it, skips or
\* repeats an item.
THEOREM NothingIsSkipped ==
    ASSUME Playable PROVE Spec => SkipsNothing
<1>1. Init => IInv BY IInvAtFirst
<1>2. IInv /\ [Next]_vars => IInv' /\ NoneSkipped BY IInvStays, StepSkipsNothing
<1> QED BY <1>1, <1>2, PTL DEF Spec, SkipsNothing
=============================================================================
