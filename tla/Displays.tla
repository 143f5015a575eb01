------------------------------ MODULE Displays ------------------------------
(* The windows of display outputs (display/mod.rs): outputs ask the window    *)
(* loop, on the main thread, to open, show and close them, one command after  *)
(* another, while screens are unplugged and come back. On macOS, where        *)
(* windows have to be put on their screen and its mode put back.              *)
EXTENDS Naturals, Sequences, SequencesExt, FiniteSets

CONSTANTS
    Legs, ScreenOf,                 \* display outputs, and the screen each is for
    Spare,                          \* screens without one
    MaxOpens, MaxFaults, MaxQueue   \* bounds: windows asked for, what goes wrong, commands that wait

VARIABLES
    leg,      \* DisplayRunning, or its start: what it is at, its window, `idle` and `visible`
    queue,    \* commands sent to the loop
    windows,  \* WindowLoop's, by id
    awake, lost, \* WindowLoop's and LOOP_LOST
    screen,   \* what is plugged in: "here", "coming" (no NSScreen yet) or "gone"
    mode,     \* the mode each is in: its own (0), or one set, by its rate over the format's
    rates,    \* the rates it has the format's size at
    opens, faults, \* counted
    given_up, \* windows whose Open took longer than REPLY_TIMEOUT
    blinked   \* screens that came back before the loop looked

vars == <<leg, queue, windows, awake, lost, screen, mode, rates, opens, faults, given_up, blinked>>

Screens == {ScreenOf[o] : o \in Legs} \cup Spare
None == [at |-> "none", id |-> 0, black |-> FALSE, visible |-> FALSE]
Without(f, x) == [y \in DOMAIN f \ {x} |-> f[y]]
Of(s) == {w \in DOMAIN windows : windows[w].screen = s}

Init ==
    /\ leg = [o \in Legs |-> None] /\ queue = <<>> /\ windows = <<>> /\ awake = FALSE /\ lost = FALSE
    /\ screen = [s \in Screens |-> "here"] /\ mode = [s \in Screens |-> 0] /\ rates = [s \in Screens |-> {1, 2}]
    /\ opens = 0 /\ faults = 0 /\ given_up = {} /\ blinked = {}

----------------------------------------------------------------------------
(* An output's leg                                                            *)

\* Hidden to start with when it hides while its channel is idle.
open(o) ==
    /\ leg[o].at = "none" /\ ~lost /\ opens < MaxOpens
    /\ \E black \in BOOLEAN :
        leg' = [leg EXCEPT ![o] = [at |-> "opening", id |-> opens + 1, black |-> black, visible |-> black]]
    /\ opens' = opens + 1
    /\ queue' = Append(queue, [kind |-> "open", leg |-> o, id |-> opens + 1, visible |-> leg'[o].black])
    /\ UNCHANGED <<windows, awake, lost, screen, mode, rates, faults, given_up, blinked>>
\* The loop didn't answer in REPLY_TIMEOUT.
TimesOut(o) ==
    /\ leg[o].at = "opening" /\ faults < MaxFaults /\ faults' = faults + 1
    /\ leg' = [leg EXCEPT ![o] = None] /\ given_up' = given_up \cup {leg[o].id}
    /\ UNCHANGED <<queue, windows, awake, lost, screen, mode, rates, opens, blinked>>
\* A status tick; the loop is told of a change only.
set_on_air(o, on_air) ==
    LET visible == on_air \/ leg[o].black IN
    /\ leg[o].at = "open" /\ visible # leg[o].visible /\ ~lost /\ Len(queue) < MaxQueue
    /\ leg' = [leg EXCEPT ![o].visible = visible]
    /\ queue' = Append(queue, [kind |-> "show", leg |-> o, id |-> leg[o].id, visible |-> visible])
    /\ UNCHANGED <<windows, awake, lost, screen, mode, rates, opens, faults, given_up, blinked>>
\* The output is dropped, or its pipeline doesn't start.
Drop(o) ==
    /\ leg[o].at = "open" /\ leg' = [leg EXCEPT ![o] = None]
    /\ queue' = IF lost THEN queue ELSE Append(queue, [kind |-> "close", leg |-> o, id |-> leg[o].id, visible |-> FALSE])
    /\ UNCHANGED <<windows, awake, lost, screen, mode, rates, opens, faults, given_up, blinked>>

----------------------------------------------------------------------------
(* The window loop                                                            *)

\* Its own rate, or else double.
best_mode(s) == CASE 1 \in rates[s] -> 1 [] 2 \in rates[s] -> 2 [] OTHER -> 0
\* What there is to put back of mode `was`: nothing, if it is in the wanted one.
set_mode(was, wanted) == IF was = wanted THEN {} ELSE {was}
\* Put on its screen, which must be there.
covers(s) == screen[s] = "here"
place(c, s) == [screen |-> s, visible |-> c.visible, shown |-> c.visible, connected |-> TRUE, on |-> s,
                wanted |-> best_mode(s), restore |-> IF best_mode(s) = 0 THEN {} ELSE set_mode(mode[s], best_mode(s))]

\* The mode is set first, and put back if there is no window after all.
Open(c) ==
    LET s == ScreenOf[c.leg]
        waits == leg[c.leg].at = "opening" /\ leg[c.leg].id = c.id
    IN
    /\ c.kind = "open"
    /\ \/ /\ covers(s)
          /\ windows' = [w \in DOMAIN windows \cup {c.id} |-> IF w = c.id THEN place(c, s) ELSE windows[w]]
          /\ awake' = TRUE /\ mode' = [mode EXCEPT ![s] = IF best_mode(s) = 0 THEN @ ELSE best_mode(s)]
          /\ leg' = IF waits THEN [leg EXCEPT ![c.leg].at = "open"] ELSE leg
          /\ UNCHANGED faults
       \/ /\ (~covers(s) \/ faults < MaxFaults) /\ faults' = IF covers(s) THEN faults + 1 ELSE faults
          /\ leg' = IF waits THEN [leg EXCEPT ![c.leg] = None] ELSE leg
          /\ UNCHANGED <<windows, awake, mode>>

\* mutant: a window is shown also while its screen is unplugged.
ShowAlways(c) ==
    /\ c.kind = "show"
    /\ windows' = [w \in DOMAIN windows |->
            IF w = c.id THEN [windows[w] EXCEPT !.visible = c.visible, !.shown = c.visible] ELSE windows[w]]
    /\ UNCHANGED <<leg, awake, mode, faults>>
Show(c) ==
    /\ c.kind = "show"
    /\ windows' = [w \in DOMAIN windows |->
            IF w # c.id THEN windows[w]
            ELSE [windows[w] EXCEPT !.visible = c.visible, !.shown = IF windows[w].connected THEN c.visible ELSE @]]
    /\ UNCHANGED <<leg, awake, mode, faults>>

\* The window closes, and then its ModeRestore is dropped.
Restored(was, restore, s) ==
    IF restore = {} \/ screen[s] = "gone" THEN was ELSE CHOOSE m \in restore : TRUE
Close(c) ==
    /\ c.kind = "close"
    /\ windows' = Without(windows, c.id)
    /\ mode' = IF c.id \notin DOMAIN windows THEN mode
               ELSE LET s == windows[c.id].screen IN [mode EXCEPT ![s] = Restored(@, windows[c.id].restore, s)]
    /\ awake' = (awake /\ windows' # <<>>) /\ UNCHANGED <<leg, faults>>

user_event ==
    /\ queue # <<>> /\ ~lost /\ queue' = Tail(queue)
    /\ LET c == Head(queue) IN Open(c) \/ Show(c) \/ Close(c)
    /\ UNCHANGED <<lost, screen, rates, opens, given_up, blinked>>

\* One window's turn in check_screens: hidden when its screen is gone, put back
\* in its mode on its screen when that returns.
online(s) == screen[s] # "gone"
Checked(st, w) ==
    LET it == st.windows[w]
        s == it.screen
        back == online(s) /\ ~it.connected
        resets == back /\ it.wanted # 0
        was == IF resets THEN Restored(st.mode[s], it.restore, s) ELSE st.mode[s]
        set == resets /\ it.wanted \in rates[s]
        put == [it EXCEPT !.restore = IF set THEN set_mode(was, it.wanted) ELSE IF resets THEN {} ELSE @]
    IN [mode |-> [st.mode EXCEPT ![s] = IF set THEN it.wanted ELSE was],
        windows |-> [st.windows EXCEPT ![w] =
            IF ~online(s) /\ it.connected THEN [it EXCEPT !.connected = FALSE, !.shown = FALSE]
            ELSE IF back /\ covers(s) THEN [put EXCEPT !.connected = TRUE, !.on = s, !.shown = it.visible]
            ELSE put]]
\* After every command, at every move the OS makes, and twice a second while
\* there are windows.
check_screens ==
    /\ ~lost
    /\ \E order \in SetToSeqs(DOMAIN windows) :
        LET all == FoldLeft(Checked, [mode |-> mode, windows |-> windows], order)
        IN mode' = all.mode /\ windows' = all.windows
    /\ <<mode, windows>>' # <<mode, windows>>
    /\ UNCHANGED <<leg, queue, awake, lost, screen, rates, opens, faults, given_up, blinked>>
\* The loop panics: its windows are forgotten, and what it was asked is dropped.
Panics ==
    /\ ~lost /\ faults < MaxFaults /\ faults' = faults + 1 /\ lost' = TRUE /\ queue' = <<>>
    /\ leg' = [o \in Legs |-> IF leg[o].at = "opening" THEN None ELSE leg[o]]
    /\ UNCHANGED <<windows, awake, screen, mode, rates, opens, given_up, blinked>>

----------------------------------------------------------------------------
(* The screens                                                                *)

\* The OS moves its windows to another screen, if there is one.
Unplug(s) ==
    /\ screen[s] = "here" /\ faults < MaxFaults /\ faults' = faults + 1
    /\ screen' = [screen EXCEPT ![s] = "gone"]
    /\ LET others == {t \in Screens \ {s} : screen[t] = "here"} IN
       windows' = [w \in DOMAIN windows |->
            IF windows[w].on = s /\ others # {} THEN [windows[w] EXCEPT !.on = CHOOSE t \in others : TRUE] ELSE windows[w]]
    /\ UNCHANGED <<leg, queue, awake, lost, mode, rates, opens, given_up, blinked>>
\* It comes back in its own mode, and NSScreen catches up later.
Plug(s) ==
    /\ screen[s] = "gone" /\ screen' = [screen EXCEPT ![s] = "coming"]
    /\ mode' = [mode EXCEPT ![s] = 0]
    /\ \E r \in {{1, 2}, {2}, {}} : rates' = [rates EXCEPT ![s] = r]
    /\ blinked' = IF \E w \in Of(s) : windows[w].connected THEN blinked \cup {s} ELSE blinked
    /\ UNCHANGED <<leg, queue, windows, awake, lost, opens, faults, given_up>>
CatchesUp(s) ==
    /\ screen[s] = "coming" /\ screen' = [screen EXCEPT ![s] = "here"]
    /\ UNCHANGED <<leg, queue, windows, awake, lost, mode, rates, opens, faults, given_up, blinked>>

Next ==
    \/ \E o \in Legs : open(o) \/ TimesOut(o) \/ set_on_air(o, TRUE) \/ set_on_air(o, FALSE) \/ Drop(o)
    \/ user_event \/ check_screens \/ Panics
    \/ \E s \in Screens \ Spare : Unplug(s) \/ Plug(s) \/ CatchesUp(s)
Spec == Init /\ [][Next]_vars

----------------------------------------------------------------------------
(* Properties                                                                 *)

\* Nothing is left to do for the loop: no command, and no window whose screen
\* changed.
Looked == queue = <<>> /\ \A w \in DOMAIN windows : windows[w].connected <=> screen[windows[w].screen] = "here"
\* A leg's window is there, and shows on its screen what the channel's state
\* asks for, also when that changed while the screen was unplugged; it never
\* stays on another screen.
ShownAsAsked ==
    ~lost /\ Looked => \A o \in Legs : leg[o].at = "open" =>
        /\ leg[o].id \in DOMAIN windows
        /\ LET w == windows[leg[o].id] IN
           /\ w.visible = leg[o].visible /\ w.shown = (w.visible /\ w.connected)
           /\ w.shown /\ w.screen \notin blinked => w.on = w.screen

\* A screen's mode is set for a window that puts its own back, and is the one
\* that window wants if the screen still has it (unless an Open that timed out
\* left another window there). Screens are kept awake for windows only.
ModesArePutBack ==
    /\ \A s \in Screens : screen[s] # "gone" /\ mode[s] # 0 => \E w \in Of(s) : windows[w].restore # {}
    /\ \A s \in Screens \ blinked, w \in DOMAIN windows :
        given_up = {} /\ Of(s) = {w} /\ screen[s] = "here" /\ windows[w].connected /\ windows[w].wanted \in rates[s] =>
            mode[s] = windows[w].wanted
    /\ awake = (windows # <<>>)

\* Every window has its leg, is about to close, or was opened for one that had
\* given up.
WindowsAreOwned ==
    ~lost => \A w \in DOMAIN windows :
        \/ \E o \in Legs : leg[o].id = w
        \/ \E i \in DOMAIN queue : queue[i].kind = "close" /\ queue[i].id = w
        \/ w \in given_up
=============================================================================
