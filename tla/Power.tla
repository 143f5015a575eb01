-------------------------------- MODULE Power --------------------------------
(* Keeping the machine and its screens awake (power.rs), and the task that    *)
(* keeps it so while the node records or plays out (session.rs). The locks    *)
(* are taken and released on a thread of their own.                           *)
EXTENDS Naturals, Sequences

CONSTANTS
    MaxShown,  \* bound: display outputs that show at a time
    MaxSends   \* bound: changes of what is to be kept awake

VARIABLES
    busy,       \* the node records or plays out
    system, displays,  \* Wanted
    sent, held, \* the worker's queue, and the locks it holds
    sends
vars == <<busy, system, displays, sent, held, sends>>

\* Screens that are awake keep the machine awake.
locks(s, d) == [system |-> s \/ d > 0, display |-> d > 0]

\* What changes is sent with the lock held, so the worker sees it in order.
change(s, d) ==
    /\ sends < MaxSends /\ sends' = sends + 1 /\ system' = s /\ displays' = d
    /\ sent' = IF locks(s, d) # locks(system, displays) THEN Append(sent, locks(s, d)) ELSE sent
    /\ UNCHANGED <<busy, held>>
spawn_power_keeper == change(busy, displays)
keep_display_awake == displays < MaxShown /\ change(system, displays + 1)
DisplayAwakeDrops == displays > 0 /\ change(system, displays - 1)
\* The worker takes all there is: only the latest matters.
worker ==
    /\ sent # <<>> /\ held' = sent[Len(sent)] /\ sent' = <<>>
    /\ UNCHANGED <<busy, system, displays, sends>>
\* SourceManager::busy changes.
Turns == busy' = ~busy /\ UNCHANGED <<system, displays, sent, held, sends>>

Init ==
    /\ busy = FALSE /\ system = FALSE /\ displays = 0
    /\ sent = <<>> /\ held = locks(FALSE, 0) /\ sends = 0
Next == spawn_power_keeper \/ keep_display_awake \/ DisplayAwakeDrops \/ worker \/ Turns
Spec == Init /\ [][Next]_vars

----------------------------------------------------------------------------
\* The screens are awake just while one shows a display output, and the machine
\* while it is busy or a screen is, once the worker has seen what was sent.
AwakeAsWanted == sent = <<>> => held = [system |-> system \/ displays > 0, display |-> displays > 0]
=============================================================================
