------------------------------- MODULE Events -------------------------------
(* The event socket (ws.rs): what a client is told of a replay buffer, which  *)
(* it runs on by itself between reports (ui/src/lib/replaySpan.ts), and how   *)
(* its connection is kept or dropped. Time is in seconds, a segment's length. *)
EXTENDS Integers, Sequences

CONSTANTS
    REPLAY_DRIFT, PING_INTERVAL, SEND_TIMEOUT,
    CHANNEL_CAPACITY,
    Keep,    \* the buffer's length
    MaxTime, MaxFaults \* bounds

VARIABLES
    now,
    buffer,  \* [span, recording, error, held]: span is <<start, end>>, or {} while empty
    last,    \* what ReplayWatch sent last, with its time
    queue,   \* events the client's task hasn't taken
    missed,  \* the client lagged behind, and lost some
    view,    \* what the client was told last, with its time
    conn, heard, next_ping,
    blocked, \* since when a send waits, or none
    pong,    \* the client's answer is there to be read
    reading, \* the client reads and answers
    quiet_since, paused, \* since when it doesn't; it didn't at some time since the last ping
    faults
vars == <<now, buffer, last, queue, missed, view, conn, heard, next_ping, blocked, pong, reading, quiet_since, paused,
          faults>>

Never == -1
Larger(a, b) == IF a < b THEN b ELSE a
Empty == [span |-> <<>>, recording |-> FALSE, error |-> FALSE, held |-> FALSE]
At(b, t) == [b |-> b, now |-> t]

Init ==
    /\ now = 0 /\ buffer = Empty /\ last = At(Empty, 0) /\ queue = <<>> /\ missed = FALSE /\ view = At(Empty, 0)
    /\ conn = TRUE /\ heard = TRUE /\ next_ping = PING_INTERVAL /\ blocked = Never /\ pong = FALSE
    /\ reading = TRUE /\ quiet_since = Never /\ paused = FALSE /\ faults = 0

----------------------------------------------------------------------------
(* ReplayWatch                                                                *)

Differs(a, b) == (a - b) \notin -REPLAY_DRIFT..REPLAY_DRIFT
full(b) == b.span # <<>> /\ b.span[2] - b.span[1] + 1 >= Keep
same(b, t, then) ==
    LET was == then.b
    IN  /\ b.recording = was.recording /\ b.error = was.error /\ full(b) = full(was)
        /\ (b.span = <<>>) = (was.span = <<>>)
        /\ b.span # <<>> =>
              /\ full(b) \/ b.span[1] = was.span[1]
              /\ IF b.recording THEN ~Differs(b.span[2], was.span[2] + (t - then.now)) ELSE b.span[2] = was.span[2]
\* mutant: compared with what it was a second ago, not with what was sent.
Compared(b, t) == At(b, t)
LastSent(b, t) == IF same(b, t, last) THEN last ELSE At(b, t)

\* An event for every client: a slow one loses the oldest.
emit(event) ==
    /\ queue' = IF Len(queue) = CHANNEL_CAPACITY THEN Append(Tail(queue), event) ELSE Append(queue, event)
    /\ missed' = (missed \/ Len(queue) = CHANNEL_CAPACITY)

----------------------------------------------------------------------------
(* The buffer, each second                                                    *)

\* Its newest frame stays where it is, follows the clock or catches up with it.
Grown(b, t) ==
    IF ~b.recording THEN {b}
    ELSE IF b.span = <<>> THEN {b, [b EXCEPT !.span = <<t - 1, t>>]}
    ELSE {[b EXCEPT !.span = <<IF b.held THEN @[1] ELSE Larger(@[1], end - Keep), end>>] :
              end \in {b.span[2], b.span[2] + 1, t}}
\* What the buffer's source, people and the clips that play do to it.
Changed(b) ==
    {[b EXCEPT !.recording = ~@, !.error = FALSE],
     [b EXCEPT !.error = b.recording \/ @, !.recording = FALSE],
     [b EXCEPT !.held = b.recording /\ b.span # <<>> /\ ~@]} \ {b}

----------------------------------------------------------------------------
(* drive: one step for each branch of its select                              *)

Closes == conn' = FALSE /\ blocked' = Never /\ UNCHANGED <<heard, next_ping, pong>>
\* A send goes out at once, or waits while the client doesn't read.
Sends == blocked' = IF reading THEN Never ELSE now
ping_tick ==
    /\ conn /\ blocked = Never /\ next_ping <= now
    /\ IF ~heard THEN Closes /\ UNCHANGED paused
       ELSE /\ heard' = FALSE /\ next_ping' = now + PING_INTERVAL /\ Sends
            /\ pong' = (pong \/ reading) /\ paused' = ~reading /\ UNCHANGED conn
    /\ UNCHANGED <<now, buffer, last, queue, missed, view, reading, quiet_since, faults>>
rx_recv ==
    /\ conn /\ blocked = Never /\ queue # <<>>
    /\ queue' = Tail(queue) /\ Sends /\ view' = Head(queue)
    /\ UNCHANGED <<now, buffer, last, missed, conn, heard, next_ping, pong, reading, quiet_since, paused, faults>>
receiver_next ==
    /\ conn /\ blocked = Never /\ pong /\ pong' = FALSE /\ heard' = TRUE
    /\ UNCHANGED <<now, buffer, last, queue, missed, view, conn, next_ping, blocked, reading, quiet_since, paused, faults>>
\* A send that hasn't gone out in time closes the connection.
send_times_out ==
    /\ conn /\ blocked # Never /\ now - blocked >= SEND_TIMEOUT /\ Closes
    /\ UNCHANGED <<now, buffer, last, queue, missed, view, reading, quiet_since, paused, faults>>

----------------------------------------------------------------------------
(* The client: its lid is closed, its network goes, or it is slow             *)

Pauses ==
    /\ conn /\ reading /\ faults < MaxFaults /\ faults' = faults + 1
    /\ reading' = FALSE /\ quiet_since' = now /\ paused' = TRUE
    /\ UNCHANGED <<now, buffer, last, queue, missed, view, conn, heard, next_ping, blocked, pong>>
\* It reads what waited, with the ping there may be.
Resumes ==
    /\ conn /\ ~reading /\ reading' = TRUE /\ quiet_since' = Never /\ blocked' = Never /\ pong' = TRUE
    /\ UNCHANGED <<now, buffer, last, queue, missed, view, conn, heard, next_ping, paused, faults>>

Ready == \/ conn /\ blocked = Never /\ (next_ping <= now \/ queue # <<>> \/ pong)
         \/ conn /\ blocked # Never /\ now - blocked >= SEND_TIMEOUT
\* A second passes once nothing is left to do, and the emitter looks again.
tick ==
    /\ now < MaxTime /\ ~Ready /\ now' = now + 1
    /\ \E b \in IF faults < MaxFaults THEN Changed(buffer) \cup {buffer} ELSE {buffer} :
          /\ faults' = IF b = buffer THEN faults ELSE faults + 1
          /\ buffer' \in Grown(b, now + 1)
    /\ last' = LastSent(buffer', now + 1)
    /\ IF conn /\ ~same(buffer', now + 1, last) THEN emit(At(buffer', now + 1)) ELSE UNCHANGED <<queue, missed>>
    /\ UNCHANGED <<view, conn, heard, next_ping, blocked, pong, reading, quiet_since, paused>>

Next == ping_tick \/ rx_recv \/ receiver_next \/ send_times_out \/ Pauses \/ Resumes \/ tick
Spec == Init /\ [][Next]_vars

----------------------------------------------------------------------------
(* Properties                                                                 *)

\* What a client shows (replaySpan): the newest frame run on while it records,
\* and the oldest with it once the buffer is full.
Shown(v) ==
    IF v.b.span = <<>> \/ ~v.b.recording THEN v.b.span
    ELSE LET end == v.b.span[2] + (now - v.now) IN <<Larger(v.b.span[1], end - Keep), end>>
\* A client that takes its events shows what can be replayed: the newest frame
\* within the drift, and nothing older than a segment before what is kept.
ClientsFollow ==
    conn /\ reading /\ ~missed /\ queue = <<>> =>
        /\ (buffer.span = <<>>) = (view.b.span = <<>>)
        /\ buffer.recording = view.b.recording /\ buffer.error = view.b.error
        /\ buffer.span # <<>> /\ buffer.recording =>
              /\ ~Differs(Shown(view)[2], buffer.span[2])
              /\ Shown(view)[1] >= buffer.span[1] - REPLAY_DRIFT - 1
\* A client that is gone is dropped, though nothing is sent it.
GoneIsDropped == conn /\ ~reading => now - quiet_since <= 2 * PING_INTERVAL + SEND_TIMEOUT
\* And one that answers isn't.
AnswererStays == ~conn => paused
=============================================================================
