------------------------------ MODULE NodeClock ------------------------------
(* The clock a node's pipelines run on (src/node/src/clock.rs): its own, or   *)
(* the one of the controller that claims it, which is used once it has        *)
(* synced, on a thread of its own.                                            *)
EXTENDS Naturals

CONSTANTS
    Controllers,
    Tells,           \* Tells[c]: the sources controller c may ask for
    MASTER_TIMEOUT

VARIABLES
    own_mode,        \* the source of this node's own mode, while a controller
    master,          \* [id, age]: who claimed it, and how long ago
    active, pending, \* the source in use, and the one that is to sync
    late,            \* those that threads still wait for, though replaced
    error,
    claimed,         \* whose UTC offset was claimed last
    bumped, seen,    \* `changed`, and the domain its follower last saw
    ptp,             \* whether PTP can start here
    tells,           \* what each controller asks for, or Nothing
    on, put,         \* this node's controller, and the mode a request sets
    wanted           \* history: the source last asked for
vars == <<own_mode, master, active, pending, late, error, claimed, bumped, seen, ptp, tells, on, put, wanted>>

Nothing == [kind |-> "nothing", of |-> "nobody"]
Local == [kind |-> "local", of |-> "this"]
Ptp == [kind |-> "ptp", of |-> "0"]
Clock(c) == [kind |-> "controller", of |-> c]
Unclaimed == [id |-> "nobody", age |-> 0]
Sources == {Local, Ptp} \cup {Clock(c) : c \in Controllers}

\* A controller's own clock is the one its nodes follow.
domain_of == IF active = Local /\ own_mode = Local THEN Clock("this") ELSE active

----------------------------------------------------------------------------

Replaced == late' = late \cup ({pending} \ {Nothing})

\* `bumps` when the caller does, whatever the clock.
follow(source, bumps) ==
    \/ /\ source = active
       /\ pending' = Nothing /\ error' = FALSE /\ Replaced
       /\ bumped' = (bumped \/ bumps) /\ UNCHANGED active
    \/ /\ source # active /\ source = pending
       /\ bumped' = (bumped \/ bumps) /\ UNCHANGED <<active, pending, late, error>>
    \/ /\ source \notin {active, pending} /\ source = Ptp /\ ~ptp
       /\ pending' = Nothing /\ error' = TRUE /\ Replaced
       /\ bumped' = (bumped \/ bumps) /\ UNCHANGED active
    \/ /\ source \notin {active, pending} /\ source = Local
       /\ pending' = Nothing /\ error' = FALSE /\ Replaced
       /\ active' = Local /\ bumped' = TRUE
    \/ /\ source \notin {active, pending} /\ source # Local /\ (source = Ptp => ptp)
       /\ pending' = source /\ error' = FALSE /\ Replaced
       /\ bumped' = (bumped \/ bumps) /\ UNCHANGED active

set_own_mode(mode) ==
    /\ own_mode' = mode /\ master' = Unclaimed
    /\ IF mode = Nothing
       THEN bumped' = TRUE /\ UNCHANGED <<active, pending, late, error, wanted>>
       ELSE follow(mode, TRUE) /\ wanted' = mode

\* mutant: the first claimer keeps the node for good.
KeptForGood(c) == master.id \notin {c, "nobody"}
\* The first claimer keeps the node until it goes quiet.
Taken(c) == master.id \notin {c, "nobody"} /\ master.age < MASTER_TIMEOUT

claim(c) ==
    /\ tells[c] # Nothing /\ own_mode = Nothing /\ ~Taken(c)
    /\ master' = [id |-> c, age |-> 0]
    /\ claimed' = c /\ wanted' = tells[c]
    /\ follow(tells[c], FALSE)
    /\ UNCHANGED <<own_mode, seen, ptp, tells, on, put>>

Goes(source) ==
    /\ pending' = Nothing /\ active' = source /\ bumped' = TRUE
await_sync ==
    /\ pending # Nothing /\ Goes(pending)
    /\ UNCHANGED <<own_mode, master, late, error, claimed, seen, ptp, tells, on, put, wanted>>

\* mutant: a thread uses its clock, though it has been replaced.
UsesIt(source) == Goes(source)
\* activate finds another's serial, synced or not.
GivesUp(source) == UNCHANGED <<active, pending, bumped>>
await_replaced ==
    /\ \E source \in late : GivesUp(source) /\ late' = late \ {source}
    /\ UNCHANGED <<own_mode, master, error, claimed, seen, ptp, tells, on, put, wanted>>

\* spawn_clock_follower: the source manager's clock follows the node's.
follower ==
    /\ bumped /\ bumped' = FALSE
    /\ seen' = domain_of
    /\ UNCHANGED <<own_mode, master, active, pending, late, error, claimed, ptp, tells, on, put, wanted>>

----------------------------------------------------------------------------
(* This node's controller, and the others *)

Enable ==
    /\ ~on /\ on' = TRUE
    /\ \E mode \in {Local, Ptp} : set_own_mode(mode)
    /\ UNCHANGED <<claimed, seen, ptp, tells, put>>
Disable ==
    /\ on /\ on' = FALSE /\ set_own_mode(Nothing)
    /\ UNCHANGED <<claimed, seen, ptp, tells, put>>

\* put_controller_clock saves the mode before the node's clock follows it.
Put ==
    /\ on /\ put = Nothing /\ put' \in {Local, Ptp}
    /\ UNCHANGED <<own_mode, master, active, pending, late, error, claimed, bumped, seen, ptp, tells, on, wanted>>
PutSaved ==
    /\ put # Nothing /\ put' = Nothing /\ set_own_mode(put)
    /\ UNCHANGED <<claimed, seen, ptp, tells, on>>

\* A controller starts, stops, or asks for another source.
Changes(c) ==
    /\ \E source \in Tells[c] \cup {Nothing} : tells' = [tells EXCEPT ![c] = source]
    /\ UNCHANGED <<own_mode, master, active, pending, late, error, claimed, bumped, seen, ptp, on, put, wanted>>

Tick ==
    /\ master # Unclaimed /\ master.age < MASTER_TIMEOUT
    /\ master' = [master EXCEPT !.age = @ + 1]
    /\ UNCHANGED <<own_mode, active, pending, late, error, claimed, bumped, seen, ptp, tells, on, put, wanted>>

Init ==
    /\ own_mode = Nothing /\ master = Unclaimed /\ active = Local /\ pending = Nothing
    /\ late = {} /\ error = FALSE /\ claimed = "nobody" /\ bumped = FALSE /\ seen = Local
    /\ ptp \in BOOLEAN /\ tells = [c \in Controllers |-> Nothing]
    /\ on = FALSE /\ put = Nothing /\ wanted = Local

Next ==
    \/ \E c \in Controllers : claim(c) \/ Changes(c)
    \/ await_sync \/ await_replaced \/ follower
    \/ Enable \/ Disable \/ Put \/ PutSaved \/ Tick

\* Controllers claim with every health check; clocks that answer sync.
Fairness ==
    /\ \A c \in Controllers : WF_vars(claim(c))
    /\ WF_vars(await_sync) /\ WF_vars(follower) /\ WF_vars(PutSaved) /\ WF_vars(Tick)

Spec == Init /\ [][Next]_vars /\ Fairness

----------------------------------------------------------------------------
(* Properties *)

TypeOK ==
    /\ own_mode \in {Nothing, Local, Ptp} /\ active \in Sources /\ pending \in Sources \cup {Nothing}
    /\ late \subseteq Sources /\ claimed \in Controllers \cup {"nobody"}

\* The clock asked for last, by the node's own mode or by the claim it took
\* last, is the one in use, or the one that is to sync, or could not be made;
\* no thread of an earlier one overrules it.
WishIsServed == (active = wanted /\ pending = Nothing) \/ pending = wanted \/ error

\* What pipelines are stamped with is the domain of the clock in use, once
\* the follower has heard of it: also when a mode changes the domain alone.
DomainIsKnown == bumped \/ seen = domain_of

\* Once a single controller goes on claiming, and this node is none, the node
\* comes to follow it: one that is gone keeps it only for a time.
Loud(c) == own_mode = Nothing /\ ~on /\ put = Nothing /\ \A d \in Controllers : (tells[d] # Nothing) <=> (d = c)
ComesToFollow ==
    \A c \in Controllers :
       (\E s \in Tells[c] : <>[](Loud(c) /\ tells[c] = s)) => <>[](active = tells[c] \/ error)

\* clock.rs:142: "UTC minus the time on the clock in use".
OffsetIsOfTheClock == \A c \in Controllers : active = Clock(c) => claimed = c

=============================================================================
