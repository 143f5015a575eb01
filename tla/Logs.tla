-------------------------------- MODULE Logs --------------------------------
(* A node's log lines (logs.rs): numbered and kept by whichever thread logs,  *)
(* paged back through by clients, and streamed to those that subscribe. What  *)
(* peers stream is passed on as it is, through sockets that Thumbnails has.   *)
EXTENDS Naturals, Sequences, SequencesExt

CONSTANTS
    Threads, Sockets,
    Relays,         \* the sockets of /ws/logs, which a subscription's nodes count for
    CAPACITY, LIVE_BUFFER,
    Levels,         \* of Error, Warn and Info
    MaxLines,       \* bound: lines logged
    MaxSubs         \* bound: subscriptions made

VARIABLES
    lines,      \* kept, oldest first
    next_seq,
    pushing,    \* each thread's line on its way: numbered, then kept, then broadcast
    live,       \* what was broadcast; a receiver has LIVE_BUFFER of it to fall behind
    local_level,\* of each socket, 0 until it subscribes or while it leaves this node out
    at, since,  \* what each has received, and had when it subscribed last
    out,        \* what it was sent since: lines, as their place in live, and how many were skipped
    reader,     \* a client that pages back: where it is, and what it has seen
    subs,
    raced       \* a line was kept after one with a higher number

vars == <<lines, next_seq, pushing, live, local_level, at, since, out, reader, subs, raced>>

Error == 1
Warn == 2
Info == 3
NoLine == [seq |-> 0, level |-> 0]  \* less severe is more
Idle == [line |-> NoLine, kept |-> FALSE]
Closed == 9                         \* a socket's level once it is closed

----------------------------------------------------------------------------
(* Keeping lines                                                              *)

\* A line is numbered before it is kept: another thread's may come between.
Numbers(t) ==
    /\ pushing[t] = Idle /\ next_seq <= MaxLines
    /\ \E level \in Levels :
        pushing' = [pushing EXCEPT ![t] = [line |-> [seq |-> next_seq, level |-> level], kept |-> FALSE]]
    /\ next_seq' = next_seq + 1
    /\ UNCHANGED <<lines, live, local_level, at, since, out, reader, subs, raced>>
Keeps(t) ==
    /\ pushing[t] # Idle /\ ~pushing[t].kept
    /\ lines' = Append(IF Len(lines) = CAPACITY THEN Tail(lines) ELSE lines, pushing[t].line)
    /\ raced' = (raced \/ \E l \in ToSet(lines) : l.seq > pushing[t].line.seq)
    /\ pushing' = [pushing EXCEPT ![t].kept = TRUE]
    /\ UNCHANGED <<next_seq, live, local_level, at, since, out, reader, subs>>
Sends(t) ==
    /\ pushing[t].kept
    /\ live' = Append(live, pushing[t].line) /\ pushing' = [pushing EXCEPT ![t] = Idle]
    /\ UNCHANGED <<lines, next_seq, local_level, at, since, out, reader, subs, raced>>

----------------------------------------------------------------------------
(* Paging back                                                                *)

page(before, limit, level) ==
    LET older == SelectSeq(lines, LAMBDA l : (before = 0 \/ l.seq < before) /\ l.level <= level)
        n == IF Len(older) < limit THEN Len(older) ELSE limit
    IN  SubSeq(older, Len(older) - n + 1, Len(older))
get_logs ==
    /\ ~reader.done
    /\ LET got == page(reader.before, reader.limit, reader.level) IN
       reader' = [reader EXCEPT !.before = IF got = <<>> THEN @ ELSE got[1].seq,
                                !.newest = IF got = <<>> \/ @ # 0 THEN @ ELSE got[Len(got)].seq,
                                !.seen = @ \o got, !.done = got = <<>>]
    /\ UNCHANGED <<lines, next_seq, pushing, live, local_level, at, since, out, subs, raced>>

----------------------------------------------------------------------------
(* A client's socket                                                          *)

Open(s) == local_level[s] # Closed
\* A subscription replaces the last; a node's own socket serves only it.
Subscribes(s) ==
    /\ Open(s) /\ subs < MaxSubs /\ subs' = subs + 1
    /\ \E level \in Levels, names_self \in BOOLEAN :
        /\ names_self \/ s \in Relays
        /\ local_level' = [local_level EXCEPT ![s] = IF names_self THEN level ELSE 0]
        /\ local_level' # local_level
    /\ since' = [since EXCEPT ![s] = at[s]] /\ out' = [out EXCEPT ![s] = <<>>]
    /\ UNCHANGED <<lines, next_seq, pushing, live, at, reader, raced>>
\* Past its buffer the oldest are gone, and a line stands in for them.
Behind(s) == Len(live) - at[s]
Lagged(s) == Behind(s) > LIVE_BUFFER
Receives(s) ==
    /\ Open(s) /\ Behind(s) > 0
    /\ LET now == IF Lagged(s) THEN Len(live) - LIVE_BUFFER ELSE at[s] + 1
           level == IF Lagged(s) THEN Warn ELSE live[now].level
           item == IF Lagged(s) THEN [line |-> 0, skipped |-> now - at[s]] ELSE [line |-> now, skipped |-> 0]
       IN  /\ at' = [at EXCEPT ![s] = now]
           /\ out' = (IF level > local_level[s] THEN out ELSE [out EXCEPT ![s] = Append(@, item)])
    /\ UNCHANGED <<lines, next_seq, pushing, live, local_level, since, reader, subs, raced>>
\* It is gone, or the access token changed.
Closes(s) ==
    /\ Open(s) /\ local_level' = [local_level EXCEPT ![s] = Closed] /\ out' = [out EXCEPT ![s] = <<>>]
    /\ UNCHANGED <<lines, next_seq, pushing, live, at, since, reader, subs, raced>>

Init ==
    /\ lines = <<>> /\ next_seq = 1 /\ pushing = [t \in Threads |-> Idle] /\ live = <<>>
    /\ local_level = [s \in Sockets |-> 0]
    /\ at = [s \in Sockets |-> 0] /\ since = at /\ out = [s \in Sockets |-> <<>>]
    /\ reader \in [before : {0}, newest : {0}, limit : 1..2, level : Levels, seen : {<<>>}, done : {FALSE}]
    /\ subs = 0 /\ raced = FALSE
Next ==
    \/ \E t \in Threads : Numbers(t) \/ Keeps(t) \/ Sends(t)
    \/ get_logs
    \/ \E s \in Sockets : Subscribes(s) \/ Receives(s) \/ Closes(s)
Spec == Init /\ [][Next]_vars

----------------------------------------------------------------------------
(* What must hold                                                             *)

\* A client that subscribed to warnings is sent what was logged since at its
\* level, in order and once, and told how many lines it may have missed (serve,
\* skipped): it never goes without one that nothing says of.
NoneUnsaid ==
    \A s \in Sockets : local_level[s] \in {Warn, Info} =>
        LET shown == SelectSeq(out[s], LAMBDA i : i.line # 0)
            due == {i \in since[s] + 1..at[s] : live[i].level <= local_level[s]}
            missed == due \ {shown[i].line : i \in DOMAIN shown}
        IN  /\ \A i, j \in DOMAIN shown : i < j => shown[i].line < shown[j].line
            /\ Cardinality(missed) <= FoldLeft(LAMBDA n, i : n + i.skipped, 0, out[s])
\* While threads keep their lines in the order of their numbers, a client that
\* pages back to where there is no more has seen each line that is kept, once,
\* of those it asked for (page).
PagesMeet ==
    ~raced => /\ \A i, j \in DOMAIN reader.seen : i # j => reader.seen[i].seq # reader.seen[j].seq
              /\ reader.done =>
                    \A l \in ToSet(lines) : l.seq <= reader.newest /\ l.level <= reader.level => Contains(reader.seen, l)
=============================================================================
