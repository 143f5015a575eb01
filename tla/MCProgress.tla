----------------------------- MODULE MCProgress -----------------------------
(* Small instances of the parts of which something must come about, checked   *)
(* in one run: each behaviour is of one part, and the others stay as they     *)
(* start.                                                                     *)
EXTENDS Naturals, FiniteSets, FiniteSetTheorems, FunctionTheorems, TLAPS

CONSTANTS
    Controllers, Tells, MASTER_TIMEOUT,     \* NodeClock's
    Ids, Urls, Keys, Homes, MaxGens, MaxActs, PruneAfterFailures    \* Controller's

VARIABLES part,
    own_mode, master, active, pending, late, error, claimed, bumped, seen, ptp, tells, on, put, wanted,
    port, upstream, bin, src, publisher, session, sends, pads, chains, blocked, restarts, locked, pre, out, shown,
    world, takes, other, rows, pins, gen, enabled, reg, relays, tokens, cancelled, enabling, lost, tasks, poll, acts
clockVars == <<own_mode, master, active, pending, late, error, claimed, bumped, seen, ptp, tells, on, put, wanted>>
liveVars == <<port, upstream, bin, src, publisher, session, sends, pads, chains, blocked, restarts, locked, pre, out, shown>>
controllerVars == <<world, takes, other, rows, pins, gen, enabled, reg, relays, tokens, cancelled, enabling, lost, tasks, poll, acts>>
vars == <<part, clockVars, liveVars, controllerVars>>

K == INSTANCE NodeClock
L == INSTANCE LiveInput WITH Formats <- {"hd", "uhd"}, MaxSessions <- 2, MaxBuilds <- 2
C == INSTANCE Controller WITH on <- enabled

\* What controllers ask for are clocks.
ASSUME TellsAssumption == Tells \in [Controllers -> SUBSET K!Sources]

AllKeys == UNION {Keys[id] : id \in Ids}

\* What the proofs ask of the constants: a node's TLS keys are its own, and
\* whoever answers at first is a node with one of its keys.
KeysAreOwn ==
    /\ IsFiniteSet(Ids) /\ MaxGens \in Nat /\ "nobody" \notin Ids
    /\ \A a, b \in Ids : a # b => Keys[a] \cap Keys[b] = {}
    /\ C!Unpinned \notin AllKeys
    /\ Homes \in [Urls -> {C!Nobody} \cup [id : Ids, key : AllKeys]]
    /\ \A url \in Urls : Homes[url] # C!Nobody => Homes[url].key \in Keys[Homes[url].id]
ASSUME KeysAssumption == KeysAreOwn

\* For the run: a controller that asks for PTP, one for its own clock; a node
\* that may change its key, another that doesn't, and an address that answers.
Clock(c) == [kind |-> "controller", of |-> c]
Asks == [c \in Controllers |-> IF c = "c1" THEN {[kind |-> "ptp", of |-> "0"]} ELSE {Clock(c)}]
KeysOf == [id \in Ids |-> IF id = "n1" THEN {"k1", "k1x"} ELSE {"k2"}]
FirstHomes == [u \in Urls |-> IF u = "u1" THEN [id |-> "n1", key |-> "k1"] ELSE [id |-> "nobody", key |-> "nobody"]]

Init ==
    /\ part \in {"clock", "live", "controller"}
    /\ K!Init /\ (part = "clock" \/ ptp)
    /\ L!Init /\ (part = "live" \/ (port = "free" /\ sends = "hd"))
    /\ C!Init /\ (part = "controller" \/ \A id \in Ids : rows[id] = C!NoNode)

InClock == part = "clock" /\ UNCHANGED <<part, liveVars, controllerVars>>
InLive == part = "live" /\ UNCHANGED <<part, clockVars, controllerVars>>
InController == part = "controller" /\ UNCHANGED <<part, clockVars, liveVars>>
Next ==
    \/ InClock /\ K!Next
    \/ InLive /\ L!Next
    \/ InController /\ C!Next

\* The fairness of NodeClock, of LiveInput and of Controller.
Fairness ==
    /\ \A c \in Controllers : WF_vars(InClock /\ K!claim(c))
    /\ WF_vars(InClock /\ K!await_sync) /\ WF_vars(InClock /\ K!follower)
    /\ WF_vars(InClock /\ K!PutSaved) /\ WF_vars(InClock /\ K!Tick)
    /\ WF_vars(InLive /\ L!Bind) /\ WF_vars(InLive /\ L!OldDropped) /\ WF_vars(InLive /\ L!forward)
    /\ \A p \in L!Pads : WF_vars(InLive /\ L!PadGone(p))
    /\ WF_vars(InLive /\ \E c \in chains : L!listed(c)) /\ WF_vars(InLive /\ \E c \in chains : L!Removes(c))
    /\ WF_vars(InLive /\ L!Stop) /\ WF_vars(InLive /\ L!Start)
    /\ WF_vars(InController /\ C!PollSteps)
    /\ \A slot \in C!Slots : WF_vars(InController /\ C!TaskSteps(slot))
Spec == Init /\ [][Next]_vars /\ Fairness

----------------------------------------------------------------------------
(* What each part's module states of it *)

\* The clock asked for last is in use, is to sync or could not be made, and its
\* domain is the one pipelines are stamped with.
ClockIsAsAsked == K!TypeOK /\ K!WishIsServed /\ K!DomainIsKnown
\* A node comes to follow the only controller that goes on claiming it.
ComesToFollow == K!ComesToFollow

\* A live source's program keeps its format, what feeds it converts into it,
\* and each publisher comes to be served, but after one without video.
LiveGoesOn == []L!Converts /\ L!FormatHolds /\ L!Served

\* Each approved node has one relay and is trusted, and a removed or dismissed
\* one is not offered again.
NodesAreKept == C!TypeOK /\ C!OneRelayEach /\ C!NotOfferedAgain /\ C!PinnedAreKnown
\* Nodes come to be listed where they answer.
Converges == C!Converges

----------------------------------------------------------------------------
(* The clock's, proved: for any controllers, whatever clocks they ask for     *)

\* Controllers tell what they may ask for, and requests set this node's own.
Told ==
    /\ tells \in [Controllers -> K!Sources \cup {K!Nothing}] /\ \A c \in Controllers : tells[c] # K!Nothing => tells[c] \in Tells[c]
    /\ put \in {K!Nothing, K!Local, K!Ptp} /\ bumped \in BOOLEAN
AsAsked == K!TypeOK /\ Told /\ K!WishIsServed /\ K!DomainIsKnown

\* No two sources are one, and nothing is none of them.
LEMMA SourcesDiffer ==
    /\ K!Nothing \notin K!Sources /\ K!Local \in K!Sources /\ K!Ptp \in K!Sources
    /\ K!Local # K!Ptp /\ K!Local # K!Nothing /\ K!Ptp # K!Nothing
BY DEF K!Sources, K!Nothing, K!Local, K!Ptp, K!Clock

\* To follow a source, by a claim or as the node's own mode, is to use it, to
\* wait for it or to say it can't be; the follower hears of a domain that changes.
LEMMA FollowServes ==
    ASSUME AsAsked, NEW source \in K!Sources, NEW bumps \in BOOLEAN, K!follow(source, bumps),
           wanted' = source, seen' = seen, own_mode' = own_mode \/ bumps
    PROVE  /\ active' \in K!Sources /\ pending' \in K!Sources \cup {K!Nothing} /\ late' \subseteq K!Sources
           /\ K!WishIsServed' /\ K!DomainIsKnown'
<1>1. active' \in K!Sources /\ pending' \in K!Sources \cup {K!Nothing} /\ late' \subseteq K!Sources
  BY SourcesDiffer DEF AsAsked, K!TypeOK, K!follow, K!Replaced
<1>2. K!WishIsServed'
  BY DEF K!follow, K!WishIsServed
<1>3. bumped' \/ (active' = active /\ own_mode' = own_mode /\ ~bumped)
  <2>1. CASE active' = K!Local /\ bumped' = TRUE BY <2>1
  <2>2. CASE bumped' = (bumped \/ bumps) /\ active' = active BY <2>2, Zenon
  <2> QED BY <2>1, <2>2 DEF K!follow
<1>4. K!DomainIsKnown'
  BY <1>3 DEF AsAsked, Told, K!DomainIsKnown, K!domain_of
<1> QED BY <1>1, <1>2, <1>4

\* A mode that is set, or taken back as the controller is switched off.
LEMMA ModeServes ==
    ASSUME AsAsked, NEW mode \in {K!Nothing, K!Local, K!Ptp}, K!set_own_mode(mode), UNCHANGED <<claimed, seen, ptp, tells>>,
           put' \in {K!Nothing, K!Local, K!Ptp}
    PROVE  AsAsked'
<1>1. CASE mode = K!Nothing
  <2>1. own_mode' = K!Nothing /\ bumped' = TRUE /\ UNCHANGED <<active, pending, late, error, wanted>>
    BY <1>1 DEF K!set_own_mode
  <2>2. K!TypeOK' /\ Told' BY <2>1 DEF AsAsked, K!TypeOK, Told
  <2>3. K!WishIsServed' BY <2>1 DEF AsAsked, K!WishIsServed
  <2>4. K!DomainIsKnown' BY <2>1 DEF K!DomainIsKnown
  <2> QED BY <2>2, <2>3, <2>4 DEF AsAsked
<1>2. CASE mode # K!Nothing
  <2>1. own_mode' = mode /\ K!follow(mode, TRUE) /\ wanted' = mode /\ mode \in K!Sources
    BY <1>2, SourcesDiffer DEF K!set_own_mode
  <2>2. /\ active' \in K!Sources /\ pending' \in K!Sources \cup {K!Nothing} /\ late' \subseteq K!Sources
        /\ K!WishIsServed' /\ K!DomainIsKnown'
    BY <2>1, FollowServes
  <2>3. bumped' \in BOOLEAN BY <2>1 DEF K!follow, AsAsked, Told
  <2>4. K!TypeOK' /\ Told' BY <2>1, <2>2, <2>3 DEF AsAsked, K!TypeOK, Told
  <2> QED BY <2>2, <2>4 DEF AsAsked
<1> QED BY <1>1, <1>2

LEMMA AsAskedAtFirst ==
    ASSUME K!Init PROVE AsAsked
BY SourcesDiffer DEF K!Init, AsAsked, K!TypeOK, Told, K!WishIsServed, K!DomainIsKnown, K!domain_of

\* Each step leaves the clock asked for in use, on its way or given up.
LEMMA AsAskedStays ==
    ASSUME AsAsked, [K!Next]_(K!vars) PROVE AsAsked'
<1>1. ASSUME NEW c \in Controllers, K!claim(c) PROVE AsAsked'
  <2>1. tells[c] \in K!Sources /\ K!follow(tells[c], FALSE) /\ wanted' = tells[c] /\ UNCHANGED <<own_mode, seen, ptp, tells, put>>
        /\ claimed' = c
    BY <1>1 DEF K!claim, AsAsked, Told
  <2>2. /\ active' \in K!Sources /\ pending' \in K!Sources \cup {K!Nothing} /\ late' \subseteq K!Sources
        /\ K!WishIsServed' /\ K!DomainIsKnown'
    BY <2>1, FollowServes
  <2>3. bumped' \in BOOLEAN BY <2>1 DEF K!follow, AsAsked, Told
  <2>4. K!TypeOK' /\ Told' BY <2>1, <2>2, <2>3 DEF AsAsked, K!TypeOK, Told
  <2> QED BY <2>2, <2>4 DEF AsAsked
<1>2. ASSUME NEW c \in Controllers, K!Changes(c) PROVE AsAsked'
  <2>1. PICK source \in Tells[c] \cup {K!Nothing} : tells' = [tells EXCEPT ![c] = source]
    BY <1>2 DEF K!Changes
  <2>2. source \in K!Sources \cup {K!Nothing} /\ (source # K!Nothing => source \in Tells[c])
    BY <2>1, TellsAssumption
  <2>3. Told' BY <1>2, <2>1, <2>2 DEF K!Changes, AsAsked, Told
  <2>4. K!TypeOK' BY <1>2 DEF K!Changes, AsAsked, K!TypeOK
  <2>5. K!WishIsServed' /\ K!DomainIsKnown' BY <1>2 DEF K!Changes, AsAsked, K!WishIsServed, K!DomainIsKnown, K!domain_of
  <2> QED BY <2>3, <2>4, <2>5 DEF AsAsked
<1>3. ASSUME K!await_sync PROVE AsAsked'
  \* The one that was to sync is in use, and it is the one asked for last.
  <2>1. pending # K!Nothing /\ active' = pending /\ pending' = K!Nothing /\ bumped' = TRUE
        /\ UNCHANGED <<own_mode, late, error, claimed, seen, ptp, tells, put, wanted>>
    BY <1>3 DEF K!await_sync, K!Goes
  <2>2. K!TypeOK' /\ Told' BY <2>1 DEF AsAsked, K!TypeOK, Told
  <2>3. K!WishIsServed' BY <2>1 DEF AsAsked, K!WishIsServed
  <2>4. K!DomainIsKnown' BY <2>1 DEF K!DomainIsKnown
  <2> QED BY <2>2, <2>3, <2>4 DEF AsAsked
<1>4. ASSUME K!await_replaced PROVE AsAsked'
  <2>1. late' \subseteq late /\ UNCHANGED <<active, pending, bumped, own_mode, error, claimed, seen, tells, put, wanted>>
    BY <1>4 DEF K!await_replaced, K!GivesUp
  <2> QED BY <2>1 DEF AsAsked, K!TypeOK, Told, K!WishIsServed, K!DomainIsKnown, K!domain_of
<1>5. ASSUME K!follower PROVE AsAsked'
  BY <1>5 DEF K!follower, AsAsked, K!TypeOK, Told, K!WishIsServed, K!DomainIsKnown, K!domain_of
<1>6. ASSUME K!Enable PROVE AsAsked'
  <2>1. PICK mode \in {K!Local, K!Ptp} : K!set_own_mode(mode) BY <1>6 DEF K!Enable
  <2>2. UNCHANGED <<claimed, seen, ptp, tells, put>> /\ put \in {K!Nothing, K!Local, K!Ptp} BY <1>6 DEF K!Enable, AsAsked, Told
  <2> QED BY <2>1, <2>2, ModeServes
<1>7. ASSUME K!Disable PROVE AsAsked'
  <2>1. K!set_own_mode(K!Nothing) /\ UNCHANGED <<claimed, seen, ptp, tells, put>> /\ put \in {K!Nothing, K!Local, K!Ptp}
    BY <1>7 DEF K!Disable, AsAsked, Told
  <2> QED BY <2>1, ModeServes
<1>8. ASSUME K!Put PROVE AsAsked'
  BY <1>8 DEF K!Put, AsAsked, K!TypeOK, Told, K!WishIsServed, K!DomainIsKnown, K!domain_of
<1>9. ASSUME K!PutSaved PROVE AsAsked'
  <2>1. put \in {K!Nothing, K!Local, K!Ptp} /\ put' = K!Nothing /\ K!set_own_mode(put) /\ UNCHANGED <<claimed, seen, ptp, tells>>
    BY <1>9 DEF K!PutSaved, AsAsked, Told
  <2> QED BY <2>1, ModeServes
<1>10. ASSUME K!Tick \/ UNCHANGED K!vars PROVE AsAsked'
  <2>1. UNCHANGED <<own_mode, active, pending, late, error, claimed, bumped, seen, tells, put, wanted>>
    BY <1>10 DEF K!Tick, K!vars
  <2> QED BY <2>1 DEF AsAsked, K!TypeOK, Told, K!WishIsServed, K!DomainIsKnown, K!domain_of
<1> QED BY <1>1, <1>2, <1>3, <1>4, <1>5, <1>6, <1>7, <1>8, <1>9, <1>10 DEF K!Next

\* The clock asked for last is used, waited for or given up, and pipelines are
\* stamped with its domain (NodeClock::follow, activate).
THEOREM ClockIsKept == Spec => []ClockIsAsAsked
<1>1. Init => AsAsked
  BY AsAskedAtFirst DEF Init
<1>2. AsAsked /\ [Next]_vars => AsAsked'
  <2> SUFFICES ASSUME AsAsked, [Next]_vars PROVE AsAsked'
    OBVIOUS
  <2>1. [K!Next]_(K!vars)
    BY DEF Next, vars, InClock, InLive, InController, clockVars, K!vars
  <2> QED BY <2>1, AsAskedStays
<1>3. AsAsked => ClockIsAsAsked
  BY DEF AsAsked, ClockIsAsAsked
<1> QED BY <1>1, <1>2, <1>3, PTL DEF Spec

----------------------------------------------------------------------------
(* The controller's, proved: for any nodes, keys and addresses               *)

\* Who answers at an address, a row of the table, and what a registry lists.
Answers == {C!Nobody} \cup {w \in [id : Ids, key : AllKeys] : w.key \in Keys[w.id]}
Row(id) == [url : Urls, key : Keys[id] \cup {C!Unpinned}]
Statuses == {"unchecked", "offline", "access_denied", "other_node", "key_changed", "failing", "other_version", "ok"}
Listed(id, n) == [url : Urls, key : Keys[id] \cup {C!Unpinned}, status : Statuses, relay : 1..n]
Seen(id) == [url : Urls, key : Keys[id], fails : Nat]
IsRegistry(r, n) ==
    /\ DOMAIN r = {"entries", "found", "ignored"}
    /\ DOMAIN r.entries = Ids /\ \A id \in Ids : r.entries[id] \in {C!NoNode} \cup Listed(id, n)
    /\ DOMAIN r.found = Ids /\ \A id \in Ids : r.found[id] \in {C!NoNode} \cup Seen(id)

\* A request or announcement at work on a node, a deletion, and a relay that is
\* about to start.
Ops == {"announced", "add_by_url", "approve_found", "pair_approved", "pin"}
Works(t, n) ==
    /\ t \in [g : 1..n, op : Ops, step : {"known", "pair", "approve", "row", "entry"}, id : Ids, url : Urls, key : AllKeys]
    /\ t.key \in Keys[t.id]
Deletes(t, n) == t \in [g : 1..n, op : {"delete_node"}, step : {"delete"}, id : Ids, url : {"none"}, key : {"none"}]
Relays(t, n) == t \in [op : Ops, step : {"relay"}, relay : 1..n]

\* What a round of the health poller looked up.
Partial(S) == UNION {[D -> S] : D \in SUBSET Ids}
Rounds ==
    [step : {"round"}, found : Partial(Urls), heard : Partial(Answers),
     entries : Partial([url : Urls, key : AllKeys \cup {C!Unpinned, C!Asked}]), results : Partial(Statuses)]

RowsTyped == DOMAIN rows = Ids /\ \A id \in Ids : rows[id] \in {C!NoNode} \cup Row(id)
RegistriesTyped == DOMAIN reg = 0..MaxGens /\ \A g \in 0..MaxGens : IsRegistry(reg[g], tokens)
TasksTyped ==
    /\ DOMAIN tasks = C!Slots
    /\ \A s \in C!Slots : tasks[s] = C!NoTask \/ Works(tasks[s], gen) \/ Deletes(tasks[s], gen) \/ Relays(tasks[s], tokens)
PollTyped == poll \in {[step |-> "idle"]} \cup Rounds
Typed ==
    /\ world \in [Urls -> Answers] /\ RowsTyped /\ RegistriesTyped /\ TasksTyped /\ PollTyped
    /\ pins \subseteq AllKeys
    /\ gen \in 0..MaxGens /\ enabled \in BOOLEAN /\ enabling \in BOOLEAN
    /\ ~(enabled /\ enabling) /\ (enabled \/ enabling => gen # 0)
    /\ tokens \in Nat /\ relays \subseteq 1..tokens /\ cancelled \subseteq 1..tokens /\ lost \subseteq 1..tokens

\* Whichever of its registries: also an older one, which late requests write to.
NoneOfferedAgain(r) == \A id \in C!Offered(r) : id \notin C!Known(r) /\ r.found[id].key \notin r.ignored
IInv ==
    /\ Typed /\ C!OneRelayEach /\ C!PinnedAreKnown
    /\ \A g \in 0..MaxGens : NoneOfferedAgain(reg[g])

----------------------------------------------------------------------------
(* What the records and the operators on a registry are                       *)

\* The relays that tasks are about to start.
Starts(t) == t.op # "none" /\ t.step = "relay"
Starting == {tasks[s].relay : s \in {s \in C!Slots : Starts(tasks[s])}}
Wanted == IF enabled \/ enabling THEN {reg[gen].entries[id].relay : id \in C!Known(reg[gen])} ELSE {}
NoneShared == \A a, b \in C!Known(reg[gen]) : reg[gen].entries[a].relay = reg[gen].entries[b].relay => a = b

LEMMA OneRelayEachIs ==
    /\ C!OneRelayEach <=> ((relays \cup Starting) \ cancelled) \ lost = Wanted /\ NoneShared
    /\ C!OneRelayEach' <=> ((relays' \cup Starting') \ cancelled') \ lost' = Wanted' /\ NoneShared'
BY DEF C!OneRelayEach, C!Going, Starting, Starts, Wanted, NoneShared

\* A listed node is no free place, nor is one that was found.
LEMMA PlacesDiffer ==
    ASSUME NEW id, NEW n PROVE (\A e \in Listed(id, n) : e # C!NoNode) /\ (\A f \in Seen(id) : f # C!NoNode)
<1>1. ASSUME NEW e \in Listed(id, n) PROVE e # C!NoNode
  <2>1. DOMAIN e = {"url", "key", "status", "relay"} BY DEF Listed
  <2>2. DOMAIN C!NoNode = {"url"} BY DEF C!NoNode
  <2> QED BY <2>1, <2>2
<1>2. ASSUME NEW f \in Seen(id) PROVE f # C!NoNode
  <2>1. DOMAIN f = {"url", "key", "fails"} BY DEF Seen
  <2>2. DOMAIN C!NoNode = {"url"} BY DEF C!NoNode
  <2> QED BY <2>1, <2>2
<1> QED BY <1>1, <1>2

LEMMA RowsDiffer ==
    ASSUME NEW id PROVE \A r \in Row(id) : r # C!NoNode
<1> SUFFICES ASSUME NEW r \in Row(id) PROVE r # C!NoNode
  OBVIOUS
<1>1. DOMAIN r = {"url", "key"} BY DEF Row
<1>2. DOMAIN C!NoNode = {"url"} BY DEF C!NoNode
<1> QED BY <1>1, <1>2

\* What a registry holds stays a registry's as more tokens are made.
LEMMA RegistryGrows ==
    ASSUME NEW r, NEW n \in Nat, NEW m \in Nat, n <= m, IsRegistry(r, n) PROVE IsRegistry(r, m)
<1>1. \A id : Listed(id, n) \subseteq Listed(id, m) BY DEF Listed
<1> QED BY <1>1 DEF IsRegistry

\* The task that a guard reads is the one its step says.
LEMMA TaskIs ==
    ASSUME Typed, NEW s \in C!Slots, tasks[s].op # "none"
    PROVE  /\ tasks[s].step \in {"known", "pair", "approve", "row", "entry"} => Works(tasks[s], gen)
           /\ tasks[s].step = "delete" => Deletes(tasks[s], gen)
           /\ tasks[s].step = "relay" => Relays(tasks[s], tokens)
<1> DEFINE t == tasks[s]
<1>1. t = C!NoTask \/ Works(t, gen) \/ Deletes(t, gen) \/ Relays(t, tokens) BY DEF Typed, TasksTyped
<1> HIDE DEF t
<1>2. CASE t = C!NoTask
  <2>1. t.op = "none" BY <1>2 DEF C!NoTask
  <2> QED BY <2>1 DEF t
<1>3. CASE Works(t, gen) BY <1>3 DEF Works, t
<1>4. CASE Deletes(t, gen) BY <1>4 DEF Deletes, t
<1>5. CASE Relays(t, tokens) BY <1>5 DEF Relays, t
<1> QED BY <1>1, <1>2, <1>3, <1>4, <1>5

LEMMA EmptyIs == \A n \in Nat : IsRegistry(C!Empty, n) /\ NoneOfferedAgain(C!Empty) /\ C!Known(C!Empty) = {}
BY DEF C!Empty, IsRegistry, NoneOfferedAgain, C!Known, C!Offered

\* An approval: the node is listed, under its relay or a new one, and is no
\* longer waiting for one.
LEMMA UpsertedIs ==
    ASSUME KeysAreOwn, NEW n \in Nat, NEW r, IsRegistry(r, n), NoneOfferedAgain(r), NEW id \in Ids, NEW url \in Urls,
           NEW key \in Keys[id], NEW token, token \in 1..n \/ id \in C!Known(r)
    PROVE  /\ IsRegistry(C!Upserted(r, id, url, key, token), n)
           /\ NoneOfferedAgain(C!Upserted(r, id, url, key, token))
           /\ C!Known(C!Upserted(r, id, url, key, token)) = C!Known(r) \cup {id}
           /\ \A i \in Ids : i # id => C!Upserted(r, id, url, key, token).entries[i] = r.entries[i]
           /\ C!Upserted(r, id, url, key, token).entries[id].key = key
           /\ C!Upserted(r, id, url, key, token).entries[id].relay = IF id \in C!Known(r) THEN r.entries[id].relay ELSE token
<1> DEFINE u == C!Upserted(r, id, url, key, token)
           e == IF r.entries[id] = C!NoNode THEN C!Entry(url, key, token)
                ELSE [r.entries[id] EXCEPT !.url = url, !.key = key]
<1>1. /\ DOMAIN u = {"entries", "found", "ignored"}
      /\ u.entries = [r.entries EXCEPT ![id] = e] /\ u.found = [r.found EXCEPT ![id] = C!NoNode] /\ u.ignored = r.ignored
  <2>1. DOMAIN r = {"entries", "found", "ignored"} BY DEF IsRegistry
  <2>2. DOMAIN u = {"entries", "found", "ignored"} BY <2>1 DEF C!Upserted
  <2>3. u.entries = [r.entries EXCEPT ![id] = e] BY <2>1 DEF C!Upserted
  <2>4. u.found = [r.found EXCEPT ![id] = C!NoNode] BY <2>1 DEF C!Upserted
  <2>5. u.ignored = r.ignored BY <2>1 DEF C!Upserted
  <2> QED BY <2>2, <2>3, <2>4, <2>5
<1>2. e \in Listed(id, n) /\ e.key = key /\ e.relay = IF r.entries[id] # C!NoNode THEN r.entries[id].relay ELSE token
  <2>1. CASE r.entries[id] = C!NoNode
    <3>1. token \in 1..n BY <2>1 DEF C!Known
    <3> QED BY <2>1, <3>1 DEF C!Entry, Listed, Statuses
  <2>2. CASE r.entries[id] # C!NoNode
    <3>1. r.entries[id] \in Listed(id, n) BY <2>2 DEF IsRegistry
    <3> QED BY <2>2, <3>1 DEF Listed
  <2> QED BY <2>1, <2>2
<1>3. e # C!NoNode BY <1>2, PlacesDiffer
<1> HIDE DEF u, e
<1>4. DOMAIN u.entries = Ids /\ u.entries[id] = e /\ \A i \in Ids : i # id => u.entries[i] = r.entries[i]
  BY <1>1 DEF IsRegistry
<1>5. DOMAIN u.found = Ids /\ u.found[id] = C!NoNode /\ \A i \in Ids : i # id => u.found[i] = r.found[i]
  BY <1>1 DEF IsRegistry
<1>6. IsRegistry(u, n)
  BY <1>1, <1>2, <1>4, <1>5 DEF IsRegistry
<1>7. C!Known(u) = C!Known(r) \cup {id} BY <1>3, <1>4 DEF C!Known
<1>8. NoneOfferedAgain(u)
  <2> SUFFICES ASSUME NEW i \in C!Offered(u) PROVE i \notin C!Known(u) /\ u.found[i].key \notin u.ignored
    BY DEF NoneOfferedAgain
  <2>1. i \in C!Offered(r) /\ i # id /\ u.found[i] = r.found[i] BY <1>5 DEF C!Offered
  <2> QED BY <2>1, <1>1, <1>7 DEF NoneOfferedAgain
<1>9. r.entries[id] # C!NoNode <=> id \in C!Known(r) BY DEF C!Known
<1> QED BY <1>2, <1>4, <1>6, <1>7, <1>8, <1>9 DEF u

\* A node that is found, or found again, is offered unless it was approved or
\* dismissed meanwhile.
LEMMA SetFoundIs ==
    ASSUME NEW n \in Nat, NEW r, IsRegistry(r, n), NoneOfferedAgain(r), NEW id \in Ids, NEW url \in Urls, NEW key \in Keys[id]
    PROVE  /\ IsRegistry(C!SetFound(r, id, url, key), n)
           /\ NoneOfferedAgain(C!SetFound(r, id, url, key))
           /\ C!SetFound(r, id, url, key).entries = r.entries
<1> DEFINE f == [url |-> url, key |-> key, fails |-> 0]
           u == [r EXCEPT !.found[id] = f]
<1>1. CASE key \in r.ignored \/ id \in C!Known(r) BY <1>1 DEF C!SetFound
<1>2. CASE key \notin r.ignored /\ id \notin C!Known(r)
  <2>1. C!SetFound(r, id, url, key) = u BY <1>2 DEF C!SetFound
  <2>2. f \in Seen(id) /\ f.key = key BY DEF Seen
  <2>3. /\ DOMAIN u = {"entries", "found", "ignored"} /\ u.found = [r.found EXCEPT ![id] = f]
        /\ u.entries = r.entries /\ u.ignored = r.ignored
    BY DEF IsRegistry
  <2> HIDE DEF u, f
  <2>4. DOMAIN u.found = Ids /\ u.found[id] = f /\ \A i \in Ids : i # id => u.found[i] = r.found[i]
    BY <2>3 DEF IsRegistry
  <2>5. IsRegistry(u, n) BY <2>2, <2>3, <2>4 DEF IsRegistry
  <2>6. NoneOfferedAgain(u)
    <3> SUFFICES ASSUME NEW i \in C!Offered(u) PROVE i \notin C!Known(u) /\ u.found[i].key \notin u.ignored
      BY DEF NoneOfferedAgain
    <3>1. CASE i = id BY <3>1, <1>2, <2>2, <2>3, <2>4 DEF C!Known
    <3>2. CASE i # id
      <4>1. i \in C!Offered(r) /\ u.found[i] = r.found[i] BY <3>2, <2>4 DEF C!Offered
      <4> QED BY <4>1, <2>3 DEF NoneOfferedAgain, C!Known
    <3> QED BY <3>1, <3>2
  <2> QED BY <2>1, <2>3, <2>5, <2>6
<1> QED BY <1>1, <1>2

\* One that doesn't answer is offered until it has failed too often.
LEMMA FoundFailsIs ==
    ASSUME NEW n \in Nat, NEW r, IsRegistry(r, n), NoneOfferedAgain(r), NEW id \in Ids
    PROVE  /\ IsRegistry(C!FoundFails(r, id), n)
           /\ NoneOfferedAgain(C!FoundFails(r, id))
           /\ C!FoundFails(r, id).entries = r.entries
<1> DEFINE f == IF r.found[id].fails + 1 >= PruneAfterFailures THEN C!NoNode
                ELSE [r.found[id] EXCEPT !.fails = r.found[id].fails + 1]
           u == [r EXCEPT !.found[id] = f]
<1>1. CASE id \notin C!Offered(r) BY <1>1 DEF C!FoundFails
<1>2. CASE id \in C!Offered(r)
  <2>1. C!FoundFails(r, id) = u BY <1>2 DEF C!FoundFails, IsRegistry
  <2>2. r.found[id] \in Seen(id) BY <1>2 DEF IsRegistry, C!Offered
  <2>3. f = C!NoNode \/ (f \in Seen(id) /\ f.key = r.found[id].key)
    <3>1. [r.found[id] EXCEPT !.fails = r.found[id].fails + 1] \in Seen(id) BY <2>2 DEF Seen
    <3>2. [r.found[id] EXCEPT !.fails = r.found[id].fails + 1].key = r.found[id].key BY <2>2 DEF Seen
    <3> QED BY <3>1, <3>2
  <2>4. /\ DOMAIN u = {"entries", "found", "ignored"} /\ u.found = [r.found EXCEPT ![id] = f]
        /\ u.entries = r.entries /\ u.ignored = r.ignored
    BY DEF IsRegistry
  <2> HIDE DEF u, f
  <2>5. DOMAIN u.found = Ids /\ u.found[id] = f /\ \A i \in Ids : i # id => u.found[i] = r.found[i]
    BY <2>4 DEF IsRegistry
  <2>6. IsRegistry(u, n) BY <2>3, <2>4, <2>5 DEF IsRegistry
  <2>7. NoneOfferedAgain(u)
    <3> SUFFICES ASSUME NEW i \in C!Offered(u) PROVE i \notin C!Known(u) /\ u.found[i].key \notin u.ignored
      BY DEF NoneOfferedAgain
    <3>1. i \in C!Offered(r) /\ u.found[i].key = r.found[i].key BY <1>2, <2>3, <2>5 DEF C!Offered
    <3> QED BY <3>1, <2>4 DEF NoneOfferedAgain, C!Known
  <2> QED BY <2>1, <2>4, <2>6, <2>7
<1> QED BY <1>1, <1>2

\* A node that is taken off the list, or dismissed as found: its key is
\* ignored, and no other is.
LEMMA RemovedIs ==
    ASSUME KeysAreOwn, NEW n \in Nat, NEW r, IsRegistry(r, n), NoneOfferedAgain(r), NEW id \in C!Known(r)
    PROVE  /\ IsRegistry(C!Removed(r, id), n)
           /\ NoneOfferedAgain(C!Removed(r, id))
           /\ C!Known(C!Removed(r, id)) = C!Known(r) \ {id}
           /\ \A i \in Ids : i # id => C!Removed(r, id).entries[i] = r.entries[i]
<1> DEFINE u == C!Removed(r, id)
           k == r.entries[id].key
<1>1. id \in Ids /\ r.entries[id] \in Listed(id, n) BY DEF C!Known, IsRegistry
<1>2. k \in Keys[id] \cup {C!Unpinned} BY <1>1 DEF Listed
<1>3. /\ DOMAIN u = {"entries", "found", "ignored"} /\ u.entries = [r.entries EXCEPT ![id] = C!NoNode]
      /\ u.found = r.found /\ u.ignored = r.ignored \cup ({k} \ {C!Unpinned})
  <2>1. DOMAIN r = {"entries", "found", "ignored"} BY DEF IsRegistry
  <2> QED BY <2>1 DEF C!Removed
<1> HIDE DEF u, k
<1>4. DOMAIN u.entries = Ids /\ u.entries[id] = C!NoNode /\ \A i \in Ids : i # id => u.entries[i] = r.entries[i]
  BY <1>1, <1>3 DEF IsRegistry
<1>5. IsRegistry(u, n) BY <1>3, <1>4 DEF IsRegistry
<1>6. C!Known(u) = C!Known(r) \ {id} BY <1>4 DEF C!Known
<1>7. NoneOfferedAgain(u)
  <2> SUFFICES ASSUME NEW i \in C!Offered(u) PROVE i \notin C!Known(u) /\ u.found[i].key \notin u.ignored
    BY DEF NoneOfferedAgain
  <2>1. i \in C!Offered(r) /\ u.found[i] = r.found[i] /\ i \in Ids BY <1>3 DEF C!Offered
  <2>2. i \notin C!Known(r) /\ r.found[i].key \notin r.ignored BY <2>1 DEF NoneOfferedAgain
  <2>3. r.found[i] \in Seen(i) BY <2>1 DEF C!Offered, IsRegistry
  <2>4. r.found[i].key \in Keys[i] BY <2>3 DEF Seen
  <2>5. i # id BY <2>2
  <2>6. r.found[i].key \notin {k} \ {C!Unpinned} BY <1>1, <1>2, <2>1, <2>4, <2>5 DEF KeysAreOwn
  <2> QED BY <1>3, <1>6, <2>1, <2>2, <2>6
<1> QED BY <1>4, <1>5, <1>6, <1>7 DEF u
LEMMA IgnoredIs ==
    ASSUME KeysAreOwn, NEW n \in Nat, NEW r, IsRegistry(r, n), NoneOfferedAgain(r), NEW id \in C!Offered(r)
    PROVE  /\ IsRegistry(C!Ignored(r, id), n)
           /\ NoneOfferedAgain(C!Ignored(r, id))
           /\ C!Ignored(r, id).entries = r.entries
<1> DEFINE u == C!Ignored(r, id)
           k == r.found[id].key
<1>1. id \in Ids /\ r.found[id] \in Seen(id) BY DEF C!Offered, IsRegistry
<1>2. k \in Keys[id] BY <1>1 DEF Seen
<1>3. /\ DOMAIN u = {"entries", "found", "ignored"} /\ u.entries = r.entries
      /\ u.found = [r.found EXCEPT ![id] = C!NoNode] /\ u.ignored = r.ignored \cup {k}
  <2>1. DOMAIN r = {"entries", "found", "ignored"} BY DEF IsRegistry
  <2> QED BY <2>1 DEF C!Ignored
<1> HIDE DEF u, k
<1>4. DOMAIN u.found = Ids /\ u.found[id] = C!NoNode /\ \A i \in Ids : i # id => u.found[i] = r.found[i]
  BY <1>1, <1>3 DEF IsRegistry
<1>5. IsRegistry(u, n) BY <1>3, <1>4 DEF IsRegistry
<1>6. NoneOfferedAgain(u)
  <2> SUFFICES ASSUME NEW i \in C!Offered(u) PROVE i \notin C!Known(u) /\ u.found[i].key \notin u.ignored
    BY DEF NoneOfferedAgain
  <2>1. i \in C!Offered(r) /\ u.found[i] = r.found[i] /\ i \in Ids /\ i # id BY <1>4 DEF C!Offered
  <2>2. i \notin C!Known(r) /\ r.found[i].key \notin r.ignored BY <2>1 DEF NoneOfferedAgain
  <2>3. r.found[i] \in Seen(i) BY <2>1 DEF C!Offered, IsRegistry
  <2>4. r.found[i].key \in Keys[i] BY <2>3 DEF Seen
  <2>5. r.found[i].key # k BY <1>1, <1>2, <2>1, <2>4 DEF KeysAreOwn
  <2> QED BY <1>3, <2>1, <2>2, <2>5 DEF C!Known
<1> QED BY <1>3, <1>5, <1>6 DEF u

----------------------------------------------------------------------------
(* Steps that leave the nodes listed as they are *)

\* A task that goes on, begins or ends, but starts no relay.
LEMMA TaskGoesOn ==
    ASSUME Typed, NEW slot \in C!Slots, NEW t, tasks' = [tasks EXCEPT ![slot] = t],
           t = C!NoTask \/ Works(t, gen) \/ Deletes(t, gen),
           tasks[slot].op # "none" => tasks[slot].step # "relay", UNCHANGED <<gen, tokens>>
    PROVE  TasksTyped' /\ Starting' = Starting
<1>1. DOMAIN tasks' = C!Slots /\ tasks'[slot] = t /\ \A s \in C!Slots : s # slot => tasks'[s] = tasks[s]
  BY DEF Typed, TasksTyped
<1>2. TasksTyped' BY <1>1 DEF Typed, TasksTyped
<1>3. ~Starts(t)
  <2>1. CASE t = C!NoTask
    <3>1. t.op = "none" BY <2>1 DEF C!NoTask
    <3> QED BY <3>1 DEF Starts
  <2>2. CASE Works(t, gen) BY <2>2 DEF Works, Starts
  <2>3. CASE Deletes(t, gen) BY <2>3 DEF Deletes, Starts
  <2> QED BY <2>1, <2>2, <2>3
<1>4. ~Starts(tasks[slot]) BY DEF Starts
<1>5. \A s \in C!Slots : Starts(tasks'[s]) <=> Starts(tasks[s])
  BY <1>1, <1>3, <1>4
<1>6. \A s \in C!Slots : Starts(tasks[s]) => tasks'[s].relay = tasks[s].relay
  BY <1>1, <1>4
<1>7. Starting' = Starting BY <1>5, <1>6 DEF Starting
<1> QED BY <1>2, <1>7

\* The same nodes listed, with the same keys and relays, whichever registry.
SameListed(g) ==
    /\ C!Known(reg[g])' = C!Known(reg[g])
    /\ \A id \in C!Known(reg[g]) : /\ reg'[g].entries[id].relay = reg[g].entries[id].relay
                                 /\ reg'[g].entries[id].key = reg[g].entries[id].key

LEMMA ListedStay ==
    ASSUME IInv, TasksTyped', Starting' = Starting, (world \in [Urls -> Answers])', RowsTyped', PollTyped',
           RegistriesTyped', UNCHANGED <<pins, gen, enabled, relays, tokens, cancelled, enabling, lost>>,
           \A g \in 0..MaxGens : NoneOfferedAgain(reg'[g]) /\ SameListed(g)
    PROVE  IInv'
<1>1. gen \in 0..MaxGens BY DEF IInv, Typed
<1>2. SameListed(gen) BY <1>1
<1>3. /\ C!Known(reg[gen])' = C!Known(reg[gen])
      /\ \A id \in C!Known(reg[gen]) : reg'[gen].entries[id].relay = reg[gen].entries[id].relay
  BY <1>2 DEF SameListed
<1>4. Wanted' = Wanted
  <2>1. {reg'[gen].entries[id].relay : id \in C!Known(reg[gen])'} = {reg[gen].entries[id].relay : id \in C!Known(reg[gen])}
    BY <1>3
  <2> QED BY <2>1 DEF Wanted
<1>5. NoneShared => NoneShared' BY <1>3 DEF NoneShared
<1>6. C!OneRelayEach'
  BY <1>4, <1>5, OneRelayEachIs DEF IInv
<1>7. C!PinnedAreKnown' BY <1>2 DEF IInv, C!PinnedAreKnown, C!Going, SameListed
<1>8. Typed' BY DEF IInv, Typed
<1> QED BY <1>6, <1>7, <1>8 DEF IInv

\* A step of one task, of the network or of the poller, which the registry
\* doesn't hear of.
LEMMA RegistryStays ==
    ASSUME IInv, UNCHANGED <<pins, gen, enabled, reg, relays, tokens, cancelled, enabling, lost>>, TasksTyped', Starting' = Starting,
           (world \in [Urls -> Answers])', RowsTyped', PollTyped'
    PROVE  IInv'
<1>1. RegistriesTyped' BY DEF IInv, Typed, RegistriesTyped
<1>2. \A g \in 0..MaxGens : NoneOfferedAgain(reg'[g]) /\ SameListed(g)
  BY DEF IInv, SameListed, C!Known
<1> QED BY <1>1, <1>2, ListedStay

\* A registry that is written, but for what is listed.
LEMMA RegistryIsWritten ==
    ASSUME IInv, NEW g \in 0..MaxGens, NEW r, C!Registers(g, r), IsRegistry(r, tokens), NoneOfferedAgain(r),
           r.entries = reg[g].entries, UNCHANGED <<pins, gen, enabled, relays, tokens, cancelled, enabling, lost>>,
           TasksTyped', Starting' = Starting, (world \in [Urls -> Answers])', RowsTyped', PollTyped'
    PROVE  IInv'
<1>1. DOMAIN reg' = 0..MaxGens /\ reg'[g] = r /\ \A h \in 0..MaxGens : h # g => reg'[h] = reg[h]
  BY DEF IInv, Typed, RegistriesTyped, C!Registers
<1>2. RegistriesTyped' BY <1>1 DEF IInv, Typed, RegistriesTyped
<1>3. \A h \in 0..MaxGens : NoneOfferedAgain(reg'[h]) /\ SameListed(h)
  <2> SUFFICES ASSUME NEW h \in 0..MaxGens PROVE NoneOfferedAgain(reg'[h]) /\ SameListed(h)
    OBVIOUS
  <2>1. NoneOfferedAgain(reg'[h]) BY <1>1 DEF IInv
  <2>2. reg'[h].entries = reg[h].entries BY <1>1
  <2> QED BY <2>1, <2>2 DEF SameListed, C!Known
<1> QED BY <1>2, <1>3, ListedStay

----------------------------------------------------------------------------
(* Requests and announcements *)

\* A task at work that comes to another step, or to its end.
LEMMA WorkGoesOn ==
    ASSUME IInv, NEW slot \in C!Slots, Works(tasks[slot], gen), NEW step \in {"known", "pair", "approve", "row", "entry"},
           C!Goes(slot, step) \/ C!Ends(slot), UNCHANGED <<gen, tokens>>
    PROVE  TasksTyped' /\ Starting' = Starting
<1> DEFINE t == tasks[slot]
<1>1. tasks[slot].step # "relay" BY DEF Works
<1>2. CASE C!Goes(slot, step)
  <2>1. tasks' = [tasks EXCEPT ![slot] = [t EXCEPT !.step = step]] BY <1>2 DEF C!Goes
  <2>2. Works([t EXCEPT !.step = step], gen)
    <3> DEFINE u == [t EXCEPT !.step = step]
    <3>1. t \in [g : 1..gen, op : Ops, step : {"known", "pair", "approve", "row", "entry"}, id : Ids, url : Urls, key : AllKeys]
      BY DEF Works
    <3> HIDE DEF t
    <3>2. u \in [g : 1..gen, op : Ops, step : {"known", "pair", "approve", "row", "entry"}, id : Ids, url : Urls, key : AllKeys]
      BY <3>1
    <3>3. u.key = t.key /\ u.id = t.id BY <3>1
    <3> QED BY <3>2, <3>3 DEF Works, t
  <2> QED BY <1>1, <2>1, <2>2, TaskGoesOn DEF IInv
<1>3. CASE C!Ends(slot)
  <2>1. tasks' = [tasks EXCEPT ![slot] = C!NoTask] BY <1>3 DEF C!Ends
  <2> QED BY <1>1, <2>1, TaskGoesOn DEF IInv
<1> QED BY <1>2, <1>3

\* A task that begins where none was.
LEMMA WorkBegins ==
    ASSUME IInv, NEW slot \in C!Slots, NEW t, C!Begin(slot, t), Works(t, gen) \/ Deletes(t, gen), UNCHANGED <<gen, tokens>>
    PROVE  TasksTyped' /\ Starting' = Starting
<1>1. tasks[slot].op = "none" /\ tasks' = [tasks EXCEPT ![slot] = t] BY DEF C!Begin, C!NoTask
<1> QED BY <1>1, TaskGoesOn DEF IInv

\* Who answers at an address is a node with a key of its own.
LEMMA AnswerIs ==
    ASSUME KeysAreOwn, Typed, NEW url \in Urls
    PROVE  /\ world[url] \in Answers
           /\ world[url] # C!Nobody => /\ world[url].id \in Ids /\ world[url].key \in AllKeys
                                     /\ world[url].key \in Keys[world[url].id]
           /\ \A id \in Ids : world[url].id = id => world[url] # C!Nobody
BY DEF KeysAreOwn, Typed, Answers, C!Nobody

LEMMA AnnouncedKeeps ==
    ASSUME KeysAreOwn, IInv, NEW url \in Urls, C!Announced(url) PROVE IInv'
<1> DEFINE t == C!Task("announced", "known", world[url].id, url, world[url].key)
<1>1. enabled /\ gen \in 1..gen BY DEF C!Announced, IInv, Typed
<1>2. Works(t, gen)
  <2>1. world[url].id \in Ids /\ world[url].key \in AllKeys /\ world[url].key \in Keys[world[url].id]
    BY AnswerIs DEF C!Announced, IInv
  <2> QED BY <1>1, <2>1 DEF Works, C!Task, Ops
<1>3. url \in C!Slots /\ C!Begin(url, t) BY DEF C!Announced, C!Slots
<1>4. TasksTyped' /\ Starting' = Starting BY <1>2, <1>3, WorkBegins DEF C!Announced
<1>5. UNCHANGED <<world, rows, poll>> BY DEF C!Announced, C!network, C!switch
<1>6. (world \in [Urls -> Answers])' /\ RowsTyped' /\ PollTyped' BY <1>5 DEF IInv, Typed, RowsTyped, PollTyped
<1> QED BY <1>4, <1>6, RegistryStays DEF C!Announced, C!switch

\* What mDNS announces is offered, or moves the node it is, when it has its key.
LEMMA announcedKeeps ==
    ASSUME KeysAreOwn, IInv, NEW slot \in C!Slots, C!announced(slot) PROVE IInv'
<1> DEFINE t == tasks[slot]
           known == reg[t.g].entries[t.id]
<1>1. Works(t, gen) BY TaskIs DEF C!announced, IInv
<1>2. t.g \in 1..gen /\ t.id \in Ids /\ t.url \in Urls /\ t.key \in Keys[t.id] BY <1>1 DEF Works
<1>3. gen \in 0..MaxGens /\ MaxGens \in Nat /\ tokens \in Nat BY DEF IInv, Typed, KeysAreOwn
<1>4. t.g \in 0..MaxGens BY <1>2, <1>3
<1>5. C!Goes(slot, "approve") \/ C!Ends(slot) BY DEF C!announced
<1>6. TasksTyped' /\ Starting' = Starting
  BY <1>1, <1>5, WorkGoesOn DEF C!announced
<1>7. (world \in [Urls -> Answers])' /\ RowsTyped' /\ PollTyped'
  BY DEF C!announced, C!network, C!switch, IInv, Typed, RowsTyped, PollTyped
<1>8. CASE known = C!NoNode
  <2> DEFINE r == C!SetFound(reg[t.g], t.id, t.url, t.key)
  <2>1. C!Registers(t.g, r) BY <1>8 DEF C!announced
  <2>2. IsRegistry(reg[t.g], tokens) /\ NoneOfferedAgain(reg[t.g]) BY <1>4 DEF IInv, Typed, RegistriesTyped
  <2>3. IsRegistry(r, tokens) /\ NoneOfferedAgain(r) /\ r.entries = reg[t.g].entries
    BY <1>2, <1>3, <2>2, SetFoundIs
  <2> HIDE DEF r, t
  <2> QED BY <1>4, <1>6, <1>7, <2>1, <2>3, RegistryIsWritten DEF C!announced, C!switch
<1>9. CASE known # C!NoNode
  <2>1. UNCHANGED reg BY <1>9 DEF C!announced
  <2> QED BY <1>6, <1>7, <2>1, RegistryStays DEF C!announced, C!switch
<1> QED BY <1>8, <1>9

LEMMA add_by_urlKeeps ==
    ASSUME IInv, NEW slot \in C!Slots, C!add_by_url(slot) PROVE IInv'
<1>1. Works(tasks[slot], gen) BY TaskIs DEF C!add_by_url, IInv
<1>2. C!Goes(slot, "pair") \/ C!Ends(slot) BY DEF C!add_by_url
<1>3. TasksTyped' /\ Starting' = Starting BY <1>1, <1>2, WorkGoesOn DEF C!add_by_url
<1>4. (world \in [Urls -> Answers])' /\ RowsTyped' /\ PollTyped'
  BY DEF C!add_by_url, C!network, C!switch, IInv, Typed, RowsTyped, PollTyped
<1> QED BY <1>3, <1>4, RegistryStays DEF C!add_by_url, C!switch

LEMMA pairKeeps ==
    ASSUME IInv, NEW slot \in C!Slots, C!pair(slot) PROVE IInv'
<1>1. Works(tasks[slot], gen) BY TaskIs DEF C!pair, IInv
<1>2. C!Goes(slot, "approve") \/ C!Ends(slot) BY DEF C!pair
<1>3. TasksTyped' /\ Starting' = Starting BY <1>1, <1>2, WorkGoesOn DEF C!pair
<1>4. (world \in [Urls -> Answers])' /\ RowsTyped' /\ PollTyped'
  BY DEF C!pair, IInv, Typed, RowsTyped, PollTyped
<1> QED BY <1>3, <1>4, RegistryStays DEF C!pair, C!switch

LEMMA approveKeeps ==
    ASSUME IInv, NEW slot \in C!Slots, C!approve(slot) PROVE IInv'
<1>1. Works(tasks[slot], gen) BY TaskIs DEF C!approve, IInv
<1>2. C!Goes(slot, "row") \/ C!Ends(slot) BY DEF C!approve
<1>3. TasksTyped' /\ Starting' = Starting BY <1>1, <1>2, WorkGoesOn DEF C!approve
<1>4. (world \in [Urls -> Answers])' /\ RowsTyped' /\ PollTyped'
  BY DEF C!approve, C!network, C!switch, IInv, Typed, RowsTyped, PollTyped
<1> QED BY <1>3, <1>4, RegistryStays DEF C!approve, C!switch

LEMMA node_upsertKeeps ==
    ASSUME IInv, NEW slot \in C!Slots, C!node_upsert(slot) PROVE IInv'
<1> DEFINE t == tasks[slot]
<1>1. Works(t, gen) BY TaskIs DEF C!node_upsert, IInv
<1>2. TasksTyped' /\ Starting' = Starting BY <1>1, WorkGoesOn DEF C!node_upsert
<1>3. RowsTyped'
  <2>1. rows' = [rows EXCEPT ![t.id] = [url |-> t.url, key |-> t.key]] BY DEF C!node_upsert
  <2>2. t.id \in Ids /\ [url |-> t.url, key |-> t.key] \in Row(t.id) BY <1>1 DEF Works, Row
  <2> QED BY <2>1, <2>2 DEF IInv, Typed, RowsTyped
<1>4. (world \in [Urls -> Answers])' /\ PollTyped' BY DEF C!node_upsert, C!network, C!switch, IInv, Typed, PollTyped
<1> QED BY <1>2, <1>3, <1>4, RegistryStays DEF C!node_upsert, C!switch

LEMMA node_deleteKeeps ==
    ASSUME IInv, NEW slot \in C!Slots, C!node_delete(slot) PROVE IInv'
<1> DEFINE t == tasks[slot]
<1>1. Deletes(t, gen) BY TaskIs DEF C!node_delete, IInv
<1>2. TasksTyped' /\ Starting' = Starting
  <2>1. tasks' = [tasks EXCEPT ![slot] = C!NoTask] /\ t.step # "relay" BY <1>1 DEF C!node_delete, C!Ends, Deletes
  <2> QED BY <2>1, TaskGoesOn DEF C!node_delete, IInv
<1>3. RowsTyped' BY DEF C!node_delete, IInv, Typed, RowsTyped
<1>4. (world \in [Urls -> Answers])' /\ PollTyped' BY DEF C!node_delete, C!network, C!switch, IInv, Typed, PollTyped
<1> QED BY <1>2, <1>3, <1>4, RegistryStays DEF C!node_delete, C!switch

----------------------------------------------------------------------------
(* Steps that change which nodes are listed, or which relays run *)

LEMMA StartingIs ==
    ASSUME Typed PROVE Starting \subseteq 1..tokens
<1> SUFFICES ASSUME NEW s \in C!Slots, Starts(tasks[s]) PROVE tasks[s].relay \in 1..tokens
  BY DEF Starting
<1>1. Relays(tasks[s], tokens) BY TaskIs DEF Starts
<1> QED BY <1>1 DEF Relays

\* The invariant's parts for a registry that is written and keys that are
\* pinned, under as many tokens as there are then.
LEMMA RegistriesStay ==
    ASSUME IInv, NEW g \in 0..MaxGens, NEW r, C!Registers(g, r), tokens' \in Nat, tokens <= tokens', IsRegistry(r, tokens'),
           NoneOfferedAgain(r)
    PROVE  /\ RegistriesTyped' /\ \A h \in 0..MaxGens : NoneOfferedAgain(reg'[h])
           /\ reg'[g] = r /\ \A h \in 0..MaxGens : h # g => reg'[h] = reg[h]
<1>1. DOMAIN reg' = 0..MaxGens /\ reg'[g] = r /\ \A h \in 0..MaxGens : h # g => reg'[h] = reg[h]
  BY DEF IInv, Typed, RegistriesTyped, C!Registers
<1>2. \A h \in 0..MaxGens : IsRegistry(reg[h], tokens')
  BY RegistryGrows DEF IInv, Typed, RegistriesTyped
<1>3. RegistriesTyped' BY <1>1, <1>2 DEF RegistriesTyped
<1>4. \A h \in 0..MaxGens : NoneOfferedAgain(reg'[h]) BY <1>1 DEF IInv
<1> QED BY <1>1, <1>3, <1>4

\* What an id more makes of the relays that a registry's entries have.
LEMMA OneRelayMore ==
    ASSUME NEW f, NEW g, NEW ids, NEW all, NEW new, NEW relay, all = ids \cup {new}, g[new].relay = relay,
           \A i \in ids : g[i] = f[i]
    PROVE  {g[i].relay : i \in all} = {f[i].relay : i \in ids} \cup {relay}
<1>1. ASSUME NEW i \in all PROVE g[i].relay \in {f[j].relay : j \in ids} \cup {relay}
  <2>1. CASE i = new BY <2>1
  <2>2. CASE i \in ids BY <2>2
  <2> QED BY <2>1, <2>2
<1>2. ASSUME NEW i \in ids PROVE f[i].relay \in {g[j].relay : j \in all}
  <2>1. i \in all /\ g[i].relay = f[i].relay OBVIOUS
  <2> QED BY <2>1
<1>3. relay \in {g[j].relay : j \in all}
  <2>1. new \in all /\ g[new].relay = relay OBVIOUS
  <2> QED BY <2>1
<1> QED BY <1>1, <1>2, <1>3

\* An id more with a relay of its own leaves every entry with its own.
LEMMA StillTheirOwn ==
    ASSUME NEW f, NEW g, NEW ids, NEW all, NEW new, NEW relay, all = ids \cup {new}, g[new].relay = relay,
           \A i \in ids : g[i] = f[i],
           \A i \in ids : f[i].relay # relay,
           \A i, j \in ids : f[i].relay = f[j].relay => i = j
    PROVE  \A i, j \in all : g[i].relay = g[j].relay => i = j
<1> SUFFICES ASSUME NEW i \in all, NEW j \in all, g[i].relay = g[j].relay PROVE i = j
  OBVIOUS
<1>1. \A k \in ids : g[k].relay = f[k].relay /\ g[k].relay # relay OBVIOUS
<1>2. CASE i \in ids /\ j \in ids BY <1>1, <1>2
<1>3. CASE i = new \/ j = new BY <1>1, <1>3
<1> QED BY <1>2, <1>3

\* The entry of an approved node: the one it had, or a new one with a relay,
\* which is cancelled if its controller is off by then.
LEMMA upsertKeeps ==
    ASSUME KeysAreOwn, IInv, NEW slot \in C!Slots, C!upsert(slot) PROVE IInv'
<1> DEFINE t == tasks[slot]
           old == reg[t.g]
           token == tokens + 1
           r == C!Upserted(old, t.id, t.url, t.key, token)
           new == t.id \notin C!Known(old)
<1>1. Works(t, gen) BY TaskIs DEF C!upsert, IInv
<1>2. t.g \in 1..gen /\ t.id \in Ids /\ t.url \in Urls /\ t.key \in Keys[t.id] /\ t.op \in Ops BY <1>1 DEF Works
<1>3. gen \in 0..MaxGens /\ MaxGens \in Nat /\ tokens \in Nat /\ t.g \in 0..MaxGens
  <2>1. gen \in 0..MaxGens /\ MaxGens \in Nat /\ tokens \in Nat BY DEF IInv, Typed, KeysAreOwn
  <2> QED BY <1>2, <2>1
<1>4. C!Registers(t.g, r) /\ UNCHANGED <<world, rows, gen, enabled, relays, enabling, lost, poll>> /\ pins' = C!PinnedBy(old, t.id, t.key)
  BY DEF C!upsert, C!network, C!switch
<1>5. tokens' = (IF new THEN token ELSE tokens)
  BY DEF C!upsert
<1>6. tokens' \in Nat /\ tokens <= tokens' BY <1>3, <1>5
<1>7. IsRegistry(old, tokens) /\ NoneOfferedAgain(old) BY <1>3 DEF IInv, Typed, RegistriesTyped
<1>8. IsRegistry(old, tokens') BY <1>3, <1>6, <1>7, RegistryGrows
<1>9. token \in 1..tokens' \/ t.id \in C!Known(old) BY <1>3, <1>5
<1>10. /\ IsRegistry(r, tokens') /\ NoneOfferedAgain(r) /\ C!Known(r) = C!Known(old) \cup {t.id}
       /\ \A i \in Ids : i # t.id => r.entries[i] = old.entries[i]
       /\ r.entries[t.id].key = t.key
       /\ r.entries[t.id].relay = IF t.id \in C!Known(old) THEN old.entries[t.id].relay ELSE token
  <2> HIDE DEF old, token, t
  <2> QED BY <1>2, <1>6, <1>7, <1>8, <1>9, UpsertedIs
<1>11. /\ RegistriesTyped' /\ \A h \in 0..MaxGens : NoneOfferedAgain(reg'[h])
       /\ reg'[t.g] = r /\ \A h \in 0..MaxGens : h # t.g => reg'[h] = reg[h]
  <2> HIDE DEF r, t
  <2> QED BY <1>3, <1>4, <1>6, <1>10, RegistriesStay
<1>12. pins' \subseteq AllKeys
  BY <1>2, <1>4 DEF C!PinnedBy, AllKeys, IInv, Typed
<1>13. C!PinnedAreKnown'
  <2> SUFFICES ASSUME enabled \/ enabling, gen = 1, NEW id \in C!Known(reg[gen])'
               PROVE  (reg[gen].entries[id].key)' \in pins' \cup {C!Unpinned}
    BY <1>4 DEF C!PinnedAreKnown, C!Going
  <2>1. t.g = gen /\ gen' = gen /\ reg'[gen'] = r BY <1>2, <1>3, <1>4, <1>11
  <2>2. id \in C!Known(r) /\ id \in Ids BY <2>1 DEF C!Known
  <2>3. CASE id = t.id
    <3>1. r.entries[id].key = t.key BY <1>10, <2>3
    <3> QED BY <1>4, <2>1, <3>1 DEF C!PinnedBy
  <2>4. CASE id # t.id
    <3>1. r.entries[id] = old.entries[id] /\ id \in C!Known(old) BY <1>10, <2>2, <2>4
    <3>2. old.entries[id].key \in pins \cup {C!Unpinned} BY <2>1, <3>1 DEF IInv, C!PinnedAreKnown, C!Going
    <3>3. old.entries[id] \in Listed(id, tokens) BY <1>7, <3>1, <2>2 DEF IsRegistry, C!Known
    <3>4. old.entries[id].key \in Keys[id] \cup {C!Unpinned} BY <3>3 DEF Listed
    <3>5. t.id \in C!Known(old) => old.entries[t.id].key \in Keys[t.id] \cup {C!Unpinned}
      BY <1>2, <1>7 DEF IsRegistry, C!Known, Listed
    <3>6. Keys[id] \cap Keys[t.id] = {} BY <1>2, <2>2, <2>4 DEF KeysAreOwn
    <3>7. old.entries[id].key \in pins' \cup {C!Unpinned}
      BY <1>4, <3>2, <3>4, <3>5, <3>6 DEF C!PinnedBy
    <3> QED BY <2>1, <3>1, <3>7
  <2> QED BY <2>3, <2>4
<1>14. TasksTyped' /\ cancelled' \subseteq 1..tokens' /\ C!OneRelayEach'
  <2>1. UNCHANGED <<gen, enabled, enabling, lost>> /\ gen \in 0..MaxGens BY <1>3, <1>4
  <2>2. /\ relays \subseteq 1..tokens /\ cancelled \subseteq 1..tokens /\ lost \subseteq 1..tokens
        /\ Starting \subseteq 1..tokens
    BY StartingIs DEF IInv, Typed
  <2>3. ((relays \cup Starting) \ cancelled) \ lost = Wanted /\ NoneShared BY OneRelayEachIs DEF IInv
  <2>4. CASE ~new
    <3>1. C!Ends(slot) /\ UNCHANGED <<tokens, cancelled>> BY <2>4 DEF C!upsert
    <3>2. TasksTyped' /\ Starting' = Starting BY <1>1, <1>4, <3>1, WorkGoesOn
    <3>3. C!Known(r) = C!Known(old) /\ \A id \in C!Known(old) : r.entries[id].relay = old.entries[id].relay
      BY <1>10, <2>4, Zenon DEF C!Known
    <3>4. /\ C!Known(reg'[gen]) = C!Known(reg[gen])
          /\ \A id \in C!Known(reg[gen]) : reg'[gen].entries[id].relay = reg[gen].entries[id].relay
      BY <1>3, <1>11, <3>3
    <3>5. NoneShared' BY <2>1, <2>3, <3>4 DEF NoneShared
    <3>6. Wanted' = Wanted
      <4>1. {reg'[gen].entries[id].relay : id \in C!Known(reg'[gen])} = {reg[gen].entries[id].relay : id \in C!Known(reg[gen])}
        BY <3>4
      <4> QED BY <2>1, <4>1 DEF Wanted
    <3>7. C!OneRelayEach' BY <1>4, <2>3, <3>1, <3>2, <3>5, <3>6, OneRelayEachIs
    <3> QED BY <2>2, <3>1, <3>2, <3>7
  <2>5. CASE new
    <3> DEFINE u == [op |-> t.op, step |-> "relay", relay |-> token]
    <3>1. /\ tokens' = token /\ tasks' = [tasks EXCEPT ![slot] = u]
          /\ cancelled' = IF (enabled \/ enabling) /\ t.g = gen THEN cancelled ELSE cancelled \cup {token}
      BY <2>5 DEF C!upsert, C!Going
    <3>2. token \notin 1..tokens /\ 1..tokens \subseteq 1..tokens' /\ token \in 1..tokens' BY <1>3, <3>1
    <3>3. DOMAIN tasks' = C!Slots /\ tasks'[slot] = u /\ \A s \in C!Slots : s # slot => tasks'[s] = tasks[s]
      BY <3>1 DEF IInv, Typed, TasksTyped
    <3>4. Relays(u, tokens') BY <1>2, <3>2 DEF Relays
    <3>5. TasksTyped'
      <4> SUFFICES ASSUME NEW s \in C!Slots, s # slot
                   PROVE (tasks[s] = C!NoTask \/ Works(tasks[s], gen) \/ Deletes(tasks[s], gen) \/ Relays(tasks[s], tokens'))
        BY <2>1, <3>3, <3>4 DEF TasksTyped
      <4>1. Relays(tasks[s], tokens) => Relays(tasks[s], tokens') BY <3>2 DEF Relays
      <4> QED BY <4>1 DEF IInv, Typed, TasksTyped
    <3>6. Starting' = Starting \cup {token}
      <4>1. ~Starts(t) /\ Starts(u) /\ u.relay = token
        <5>1. "none" \notin Ops BY DEF Ops
        <5> QED BY <1>1, <1>2, <5>1 DEF Starts, Works
      <4> HIDE DEF u, t
      <4>2. \A s \in C!Slots : Starts(tasks'[s]) <=> (s = slot \/ Starts(tasks[s])) BY <3>3, <4>1
      <4>3. \A s \in C!Slots : Starts(tasks[s]) => s # slot /\ tasks'[s] = tasks[s] BY <3>3, <4>1 DEF t
      <4> QED BY <3>3, <4>1, <4>2, <4>3 DEF Starting
    <3>7. C!Known(r) = C!Known(old) \cup {t.id} /\ r.entries[t.id].relay = token
          /\ \A i \in C!Known(old) : i # t.id /\ r.entries[i] = old.entries[i]
      BY <1>10, <2>5, Zenon DEF C!Known
    <3>8. \A id \in C!Known(reg[gen]) : reg[gen].entries[id].relay \in 1..tokens
      BY <2>1 DEF IInv, Typed, RegistriesTyped, IsRegistry, C!Known, Listed
    <3>9. NoneShared'
      <4> SUFFICES ASSUME NEW a \in C!Known(reg'[gen]), NEW b \in C!Known(reg'[gen]),
                          reg'[gen].entries[a].relay = reg'[gen].entries[b].relay
                   PROVE  a = b
        BY <2>1 DEF NoneShared
      <4>1. CASE t.g # gen BY <1>11, <2>1, <2>3, <4>1 DEF NoneShared
      <4>2. CASE t.g = gen
        <5>1. reg'[gen] = r /\ old = reg[gen] BY <1>11, <4>2
        <5>2. \A i \in C!Known(old) : old.entries[i].relay # token
          <6> TAKE i \in C!Known(old)
          <6>1. old.entries[i].relay \in 1..tokens BY <3>8, <5>1
          <6> QED BY <3>2, <6>1
        <5>3. \A i, j \in C!Known(old) : old.entries[i].relay = old.entries[j].relay => i = j
          BY <2>3, <5>1 DEF NoneShared
        <5>4. \A i, j \in C!Known(r) : r.entries[i].relay = r.entries[j].relay => i = j
          <6> HIDE DEF r, old, t, token
          <6> QED BY <3>7, <5>2, <5>3, StillTheirOwn
        <5> QED BY <5>1, <5>4
      <4> QED BY <4>1, <4>2
    <3>10. ((relays' \cup Starting') \ cancelled') \ lost' = Wanted'
      <4>1. CASE (enabled \/ enabling) /\ t.g = gen
        <5>1. reg'[gen] = r /\ old = reg[gen] BY <1>11, <4>1
        <5>2. {r.entries[id].relay : id \in C!Known(r)} = {old.entries[id].relay : id \in C!Known(old)} \cup {token}
          <6> HIDE DEF r, old, t, token
          <6> QED BY <3>7, OneRelayMore
        <5>3. Wanted' = Wanted \cup {token} BY <2>1, <4>1, <5>1, <5>2 DEF Wanted
        <5> QED BY <1>4, <2>2, <2>3, <3>1, <3>2, <3>6, <4>1, <5>3
      <4>2. CASE ~((enabled \/ enabling) /\ t.g = gen)
        <5>1. Wanted' = Wanted BY <1>11, <2>1, <4>2 DEF Wanted
        <5> QED BY <1>4, <2>2, <2>3, <3>1, <3>2, <3>6, <4>2, <5>1
      <4> QED BY <4>1, <4>2
    <3>11. cancelled' \subseteq 1..tokens' BY <2>2, <3>1, <3>2
    <3> QED BY <3>5, <3>9, <3>10, <3>11, OneRelayEachIs
  <2> QED BY <2>4, <2>5
<1>15. RowsTyped' /\ PollTyped' /\ (world \in [Urls -> Answers])' BY <1>4 DEF IInv, Typed, RowsTyped, PollTyped
<1>16. relays' \subseteq 1..tokens'
  <2>1. relays \subseteq 1..tokens /\ relays' = relays BY <1>4 DEF IInv, Typed
  <2> QED BY <1>3, <1>6, <2>1
<1>17. Typed' BY <1>4, <1>6, <1>11, <1>12, <1>14, <1>15, <1>16 DEF IInv, Typed
<1> QED BY <1>11, <1>13, <1>14, <1>17 DEF IInv

LEMMA RelayStartsKeeps ==
    ASSUME IInv, NEW slot \in C!Slots, C!RelayStarts(slot) PROVE IInv'
<1> DEFINE t == tasks[slot]
<1>1. Starts(t) /\ Relays(t, tokens) BY TaskIs DEF C!RelayStarts, Starts, IInv
<1>2. /\ relays' = relays \cup {t.relay} /\ tasks' = [tasks EXCEPT ![slot] = C!NoTask]
      /\ UNCHANGED <<world, rows, pins, gen, enabled, reg, tokens, cancelled, enabling, lost, poll>>
  BY DEF C!RelayStarts, C!Ends, C!network, C!switch
<1>3. DOMAIN tasks' = C!Slots /\ tasks'[slot] = C!NoTask /\ \A s \in C!Slots : s # slot => tasks'[s] = tasks[s]
  BY <1>2 DEF IInv, Typed, TasksTyped
<1>4. TasksTyped' BY <1>2, <1>3 DEF IInv, Typed, TasksTyped
<1>5. relays' \cup Starting' = relays \cup Starting
  <2> HIDE DEF t
  <2>1. t.relay \in Starting BY <1>1 DEF Starting, t
  <2>2. ~Starts(C!NoTask) BY DEF Starts, C!NoTask
  <2>3. Starting' \subseteq Starting BY <1>3, <2>2 DEF Starting
  <2>4. Starting \subseteq Starting' \cup {t.relay}
    <3> SUFFICES ASSUME NEW s \in C!Slots, Starts(tasks[s]) PROVE tasks[s].relay \in Starting' \cup {t.relay}
      BY DEF Starting
    <3>1. CASE s = slot BY <3>1 DEF t
    <3>2. CASE s # slot BY <1>3, <3>2 DEF Starting
    <3> QED BY <3>1, <3>2
  <2> QED BY <1>2, <2>1, <2>3, <2>4
<1>6. C!OneRelayEach'
  <2>1. Wanted' = Wanted /\ (NoneShared => NoneShared') BY <1>2 DEF Wanted, NoneShared, C!Known
  <2> QED BY <1>2, <1>5, <2>1, OneRelayEachIs DEF IInv
<1>7. relays' \subseteq 1..tokens BY <1>1, <1>2 DEF Relays, IInv, Typed
<1>8. Typed' BY <1>2, <1>4, <1>7 DEF IInv, Typed, RowsTyped, RegistriesTyped, PollTyped
<1>9. C!PinnedAreKnown' /\ \A g \in 0..MaxGens : NoneOfferedAgain(reg'[g])
  BY <1>2 DEF IInv, C!PinnedAreKnown, C!Going, C!Known
<1> QED BY <1>6, <1>8, <1>9 DEF IInv

\* A cancelled relay's loop comes to its end.
LEMMA RelayEndsKeeps ==
    ASSUME IInv, C!RelayEnds PROVE IInv'
<1>1. PICK x \in relays \cap cancelled : relays' = relays \ {x} BY DEF C!RelayEnds
<1>2. UNCHANGED <<world, rows, pins, gen, enabled, reg, tokens, cancelled, enabling, lost, tasks, poll>> BY DEF C!RelayEnds, C!network, C!switch
<1>3. C!OneRelayEach'
  <2>1. Wanted' = Wanted /\ (NoneShared => NoneShared') /\ Starting' = Starting
    BY <1>2 DEF Wanted, NoneShared, C!Known, Starting
  <2>2. ((relays' \cup Starting') \ cancelled') \ lost' = ((relays \cup Starting) \ cancelled) \ lost BY <1>1, <1>2, <2>1
  <2> QED BY <2>1, <2>2, OneRelayEachIs DEF IInv
<1>4. Typed' BY <1>1, <1>2 DEF IInv, Typed, RowsTyped, RegistriesTyped, TasksTyped, PollTyped
<1>5. C!PinnedAreKnown' /\ \A g \in 0..MaxGens : NoneOfferedAgain(reg'[g])
  BY <1>2 DEF IInv, C!PinnedAreKnown, C!Going, C!Known
<1> QED BY <1>3, <1>4, <1>5 DEF IInv

\* Switched off: all its relays are cancelled, and it trusts nobody.
LEMMA DisableKeeps ==
    ASSUME IInv, C!Disable PROVE IInv'
<1>1. /\ enabled /\ ~enabling /\ enabled' = FALSE /\ pins' = {} /\ poll' = [step |-> "idle"]
      /\ cancelled' = cancelled \cup {reg[gen].entries[id].relay : id \in C!Known(reg[gen])}
      /\ UNCHANGED <<world, rows, gen, reg, relays, tokens, enabling, lost, tasks>>
  BY DEF C!Disable, C!network, C!switch, IInv, Typed
<1>2. C!OneRelayEach'
  <2>1. Wanted = {reg[gen].entries[id].relay : id \in C!Known(reg[gen])} /\ Wanted' = {} BY <1>1 DEF Wanted
  <2>2. Starting' = Starting /\ (NoneShared => NoneShared') BY <1>1 DEF Starting, NoneShared, C!Known
  <2>3. ((relays' \cup Starting') \ cancelled') \ lost' = {} BY <1>1, <2>1, <2>2, OneRelayEachIs DEF IInv
  <2> QED BY <2>1, <2>2, <2>3, OneRelayEachIs DEF IInv
<1>3. cancelled' \subseteq 1..tokens
  <2>1. gen \in 0..MaxGens BY DEF IInv, Typed
  <2>2. \A id \in C!Known(reg[gen]) : reg[gen].entries[id].relay \in 1..tokens
    BY <2>1 DEF IInv, Typed, RegistriesTyped, IsRegistry, C!Known, Listed
  <2> QED BY <1>1, <2>2 DEF IInv, Typed
<1>4. Typed' BY <1>1, <1>3 DEF IInv, Typed, RowsTyped, RegistriesTyped, TasksTyped, PollTyped
<1>5. C!PinnedAreKnown' /\ \A g \in 0..MaxGens : NoneOfferedAgain(reg'[g])
  BY <1>1 DEF IInv, C!PinnedAreKnown, C!Going
<1> QED BY <1>2, <1>4, <1>5 DEF IInv

\* As many new tokens as there are rows, one each.
LEMMA TokensThere ==
    ASSUME NEW there, IsFiniteSet(there), NEW n \in Nat
    PROVE  /\ Cardinality(there) \in Nat
           /\ \E f \in [there -> n + 1..n + Cardinality(there)] : \A a, b \in there : f[a] = f[b] => a = b
<1> DEFINE c == Cardinality(there)
<1>1. c \in Nat /\ ExistsBijection(1..c, there) BY FS_CardinalityType
<1>2. ExistsBijection(there, 1..c) BY <1>1, Fun_ExistsBijSymmetric
<1>3. PICK g : g \in Bijection(there, 1..c) BY <1>2, Fun_ExistsBij
<1>4. g \in [there -> 1..c] /\ \A a, b \in there : g[a] = g[b] => a = b
  BY <1>3 DEF Bijection, Injection, IsInjective
<1> DEFINE f == [i \in there |-> n + g[i]]
<1> HIDE DEF c
<1>5. f \in [there -> n + 1..n + c] BY <1>1, <1>4
<1>6. \A a, b \in there : f[a] = f[b] => a = b
  <2> SUFFICES ASSUME NEW a \in there, NEW b \in there, f[a] = f[b] PROVE a = b
    OBVIOUS
  <2>1. g[a] \in 1..c /\ g[b] \in 1..c BY <1>4
  <2>2. n + g[a] = n + g[b] OBVIOUS
  <2>3. g[a] = g[b] BY <1>1, <2>1, <2>2
  <2> QED BY <1>4, <2>3
<1> QED BY <1>1, <1>5, <1>6 DEF c

\* Controller counts as here.
LEMMA CountedHere == \A S : C!Cardinality(S) = Cardinality(S)
BY DEF C!Cardinality, Cardinality

\* As it is switched on: the rows' nodes are listed, each with a new relay, and
\* trusted.
LEMMA EnableKeeps ==
    ASSUME KeysAreOwn, IInv, C!Enable PROVE IInv'
<1> DEFINE there == {id \in Ids : rows[id] # C!NoNode}
           n == C!Cardinality(there)
           One(f) == \A a, b \in there : f[a] = f[b] => a = b
           token == CHOOSE f \in [there -> tokens + 1..tokens + n] : One(f)
           e == [id \in Ids |-> IF id \in there THEN C!Entry(rows[id].url, rows[id].key, token[id]) ELSE C!NoNode]
           r == [C!Empty EXCEPT !.entries = e]
<1>1. /\ ~enabled /\ ~enabling /\ gen < MaxGens /\ gen' = gen + 1 /\ enabling' = TRUE
      /\ C!Registers(gen + 1, r)
      /\ pins' = pins \cup ({rows[id].key : id \in there} \ {C!Unpinned})
      /\ relays' = relays \cup {token[id] : id \in there}
      /\ tokens' = tokens + n
      /\ UNCHANGED <<world, rows, enabled, cancelled, lost, tasks, poll>>
  BY DEF C!Enable, C!Going, C!network, C!switch
<1>2. gen \in 0..MaxGens /\ MaxGens \in Nat /\ tokens \in Nat BY DEF IInv, Typed, KeysAreOwn
<1>3. IsFiniteSet(there)
  <2>1. IsFiniteSet(Ids) /\ there \in SUBSET Ids BY DEF KeysAreOwn
  <2> QED BY <2>1, FS_Subset
<1>4. n \in Nat /\ \E f \in [there -> tokens + 1..tokens + n] : One(f)
  <2>1. n = Cardinality(there) BY CountedHere
  <2> HIDE DEF n, there
  <2>2. \E f \in [there -> tokens + 1..tokens + Cardinality(there)] : \A a, b \in there : f[a] = f[b] => a = b
    BY <1>2, <1>3, TokensThere
  <2>3. Cardinality(there) \in Nat BY <1>3, FS_CardinalityType
  <2> QED BY <2>1, <2>2, <2>3
<1>5. token \in [there -> tokens + 1..tokens + n] /\ One(token)
  <2> HIDE DEF there, n, One
  <2> QED BY <1>4
<1>6. \A id \in there : rows[id] \in Row(id) BY DEF IInv, Typed, RowsTyped
<1> HIDE DEF n, token
<1>7. \A id \in there : token[id] \in 1..tokens' /\ token[id] \notin 1..tokens /\ token[id] # 0
  <2> SUFFICES ASSUME NEW id \in there PROVE token[id] \in 1..tokens' /\ token[id] \notin 1..tokens /\ token[id] # 0
    OBVIOUS
  <2>1. token[id] \in tokens + 1..tokens + n BY <1>5
  <2> QED BY <1>1, <1>2, <1>4, <2>1
<1>8. /\ DOMAIN r = {"entries", "found", "ignored"} /\ r.entries = e
      /\ r.found = [id \in Ids |-> C!NoNode] /\ r.ignored = {}
  BY DEF C!Empty
<1>9. \A id \in there : e[id] \in Listed(id, tokens') /\ e[id].relay = token[id] /\ e[id].key = rows[id].key
  <2> SUFFICES ASSUME NEW id \in there
               PROVE  e[id] \in Listed(id, tokens') /\ e[id].relay = token[id] /\ e[id].key = rows[id].key
    OBVIOUS
  <2>1. e[id] = [url |-> rows[id].url, key |-> rows[id].key, status |-> "unchecked", relay |-> token[id]]
    BY DEF C!Entry
  <2>2. rows[id].url \in Urls /\ rows[id].key \in Keys[id] \cup {C!Unpinned} BY <1>6 DEF Row
  <2>3. token[id] \in 1..tokens' BY <1>7
  <2>4. "unchecked" \in Statuses BY DEF Statuses
  <2> HIDE DEF e
  <2> QED BY <2>1, <2>2, <2>3, <2>4 DEF Listed
<1>10. \A id \in Ids : id \notin there => e[id] = C!NoNode OBVIOUS
<1>11. DOMAIN e = Ids OBVIOUS
<1> HIDE DEF e, r
<1>12. C!Known(r) = there
  <2>1. \A id \in there : id \in Ids /\ e[id] # C!NoNode BY <1>9, PlacesDiffer
  <2> QED BY <1>8, <1>10, <2>1 DEF C!Known
<1>13. IsRegistry(r, tokens') /\ NoneOfferedAgain(r)
  <2>1. IsRegistry(r, tokens') BY <1>8, <1>9, <1>10, <1>11 DEF IsRegistry
  <2>2. C!Offered(r) = {} BY <1>8 DEF C!Offered
  <2> QED BY <2>1, <2>2 DEF NoneOfferedAgain
<1>14. tokens' \in Nat /\ tokens <= tokens' BY <1>1, <1>2, <1>4
<1>15. gen + 1 \in 0..MaxGens /\ gen' \in 0..MaxGens /\ gen' # 0 BY <1>1, <1>2
<1>16. /\ RegistriesTyped' /\ \A h \in 0..MaxGens : NoneOfferedAgain(reg'[h])
       /\ reg'[gen + 1] = r
  BY <1>1, <1>13, <1>14, <1>15, RegistriesStay
<1>17. reg'[gen'] = r BY <1>1, <1>16
<1>18. C!OneRelayEach'
  <2>1. Wanted' = {r.entries[id].relay : id \in C!Known(r)} BY <1>1, <1>17 DEF Wanted
  <2>2. Wanted' = {token[id] : id \in there} BY <1>8, <1>9, <1>12, <2>1
  <2>3. NoneShared' BY <1>5, <1>8, <1>9, <1>12, <1>17 DEF NoneShared
  <2>4. ((relays \cup Starting) \ cancelled) \ lost = {} BY <1>1, OneRelayEachIs DEF IInv, Wanted
  <2>5. Starting' = Starting BY <1>1 DEF Starting
  <2>6. cancelled \subseteq 1..tokens /\ lost \subseteq 1..tokens BY DEF IInv, Typed
  <2>7. ((relays' \cup Starting') \ cancelled') \ lost' = {token[id] : id \in there}
    BY <1>1, <1>7, <2>4, <2>5, <2>6
  <2> QED BY <2>2, <2>3, <2>7, OneRelayEachIs
<1>19. C!PinnedAreKnown'
  BY <1>1, <1>8, <1>9, <1>12, <1>17 DEF C!PinnedAreKnown, C!Going
<1>20. pins' \subseteq AllKeys
  <2>1. \A id \in there : rows[id].key \in AllKeys \cup {C!Unpinned} BY <1>6 DEF Row, AllKeys
  <2> QED BY <1>1, <2>1 DEF IInv, Typed
<1>21. relays' \subseteq 1..tokens' /\ cancelled' \subseteq 1..tokens' /\ lost' \subseteq 1..tokens'
  <2>1. relays \subseteq 1..tokens /\ cancelled \subseteq 1..tokens /\ lost \subseteq 1..tokens BY DEF IInv, Typed
  <2>2. 1..tokens \subseteq 1..tokens' BY <1>2, <1>14
  <2> QED BY <1>1, <1>7, <2>1, <2>2
<1>22. TasksTyped'
  <2> SUFFICES ASSUME NEW s \in C!Slots
               PROVE  (tasks[s] = C!NoTask \/ Works(tasks[s], gen') \/ Deletes(tasks[s], gen') \/ Relays(tasks[s], tokens'))
    BY <1>1 DEF IInv, Typed, TasksTyped
  <2>1. 1..gen \subseteq 1..gen' /\ 1..tokens \subseteq 1..tokens' BY <1>1, <1>2, <1>14
  <2>2. Works(tasks[s], gen) => Works(tasks[s], gen') BY <2>1 DEF Works
  <2>3. Deletes(tasks[s], gen) => Deletes(tasks[s], gen') BY <2>1 DEF Deletes
  <2>4. Relays(tasks[s], tokens) => Relays(tasks[s], tokens') BY <2>1 DEF Relays
  <2> QED BY <2>2, <2>3, <2>4 DEF IInv, Typed, TasksTyped
<1>23. Typed'
  BY <1>1, <1>14, <1>15, <1>16, <1>20, <1>21, <1>22 DEF IInv, Typed, RowsTyped, PollTyped
<1> QED BY <1>16, <1>18, <1>19, <1>23 DEF IInv

\* Once it is on, or failed to be, its nodes are those it listed as it began.
LEMMA EnableEndsKeeps ==
    ASSUME IInv, C!EnableEnds \/ C!EnableFails PROVE IInv'
<1>1. enabling /\ enabling' = FALSE /\ ~enabled
      /\ UNCHANGED <<world, rows, pins, gen, reg, relays, tokens, cancelled, tasks, poll>>
  BY DEF C!EnableEnds, C!EnableFails, C!network, IInv, Typed
<1>2. gen \in 0..MaxGens /\ gen # 0 BY <1>1 DEF IInv, Typed
<1>3. /\ Wanted = {reg[gen].entries[id].relay : id \in C!Known(reg[gen])} /\ NoneShared
      /\ ((relays \cup Starting) \ cancelled) \ lost = Wanted
  BY <1>1, OneRelayEachIs DEF IInv, Wanted
<1>4. NoneShared' /\ Starting' = Starting BY <1>1, <1>3 DEF NoneShared, C!Known, Starting
<1>5. C!OneRelayEach' /\ lost' \subseteq 1..tokens /\ enabled' \in BOOLEAN
  <2>1. CASE C!EnableEnds
    <3>1. enabled' = TRUE /\ lost' = lost BY <2>1 DEF C!EnableEnds
    <3>2. Wanted' = Wanted BY <1>1, <1>3, <3>1 DEF Wanted, C!Known
    <3>3. C!OneRelayEach' BY <1>1, <1>3, <1>4, <3>1, <3>2, OneRelayEachIs
    <3> QED BY <3>1, <3>3 DEF IInv, Typed
  <2>2. CASE C!EnableFails
    <3>1. enabled' = enabled /\ lost' = lost \cup Wanted BY <1>3, <2>2 DEF C!EnableFails
    <3>2. Wanted' = {} BY <1>1, <3>1 DEF Wanted
    <3>3. C!OneRelayEach' BY <1>1, <1>3, <1>4, <3>1, <3>2, OneRelayEachIs
    <3>4. \A id \in C!Known(reg[gen]) : reg[gen].entries[id].relay \in 1..tokens
      BY <1>2 DEF IInv, Typed, RegistriesTyped, IsRegistry, C!Known, Listed
    <3> QED BY <1>1, <1>3, <3>1, <3>3, <3>4 DEF IInv, Typed
  <2> QED BY <2>1, <2>2
<1>6. Typed' BY <1>1, <1>2, <1>5 DEF IInv, Typed, RowsTyped, RegistriesTyped, TasksTyped, PollTyped
<1>7. C!PinnedAreKnown' /\ \A g \in 0..MaxGens : NoneOfferedAgain(reg'[g])
  BY <1>1 DEF IInv, C!PinnedAreKnown, C!Going
<1> QED BY <1>5, <1>6, <1>7 DEF IInv

\* A request that asks a node for its pairing leaves the lists to its later steps.
LEMMA PairingBegins ==
    ASSUME IInv, enabled, NEW slot \in {"a", "b"}, NEW op \in {"add_by_url", "approve_found", "pair_approved"},
           NEW step \in {"known", "pair"}, NEW id \in Ids, NEW url \in Urls, NEW key \in Keys[id],
           C!Begin(slot, C!Task(op, step, id, url, key)),
           UNCHANGED <<world, rows, pins, gen, enabled, reg, relays, tokens, cancelled, enabling, lost, poll>>
    PROVE  IInv'
<1>1. slot \in C!Slots /\ key \in AllKeys /\ gen \in 1..gen
  <2>1. gen \in Nat /\ gen # 0 BY DEF IInv, Typed
  <2> QED BY <2>1 DEF C!Slots, AllKeys
<1>2. Works(C!Task(op, step, id, url, key), gen) BY <1>1 DEF Works, C!Task, Ops
<1>3. TasksTyped' /\ Starting' = Starting BY <1>1, <1>2, WorkBegins
<1>4. (world \in [Urls -> Answers])' /\ RowsTyped' /\ PollTyped' BY DEF IInv, Typed, RowsTyped, PollTyped
<1> QED BY <1>3, <1>4, RegistryStays

\* delete_node up to its first wait: the node is off the list, its key ignored
\* and trusted no more, and its relay cancelled.
LEMMA DeletionBegins ==
    ASSUME KeysAreOwn, IInv, enabled, NEW slot \in {"a", "b"}, NEW id \in C!Known(reg[gen]),
           C!Begin(slot, C!Task("delete_node", "delete", id, "none", "none")),
           C!Registers(gen, C!Removed(reg[gen], id)), pins' = pins \ {reg[gen].entries[id].key},
           cancelled' = C!Cancels(reg[gen], id),
           UNCHANGED <<world, rows, gen, enabled, relays, tokens, enabling, lost, poll>>
    PROVE  IInv'
<1> DEFINE old == reg[gen]
           r == C!Removed(old, id)
           k == old.entries[id].key
           x == old.entries[id].relay
<1>1. gen \in 0..MaxGens /\ gen \in 1..gen /\ tokens \in Nat
  <2>1. gen \in 0..MaxGens /\ gen # 0 /\ tokens \in Nat /\ MaxGens \in Nat BY DEF IInv, Typed, KeysAreOwn
  <2>2. gen \in 1..gen BY <2>1
  <2> QED BY <2>1, <2>2
<1>2. IsRegistry(old, tokens) /\ NoneOfferedAgain(old) BY <1>1 DEF IInv, Typed, RegistriesTyped
<1>3. id \in Ids /\ old.entries[id] \in Listed(id, tokens) BY <1>2 DEF C!Known, IsRegistry
<1>4. k \in Keys[id] \cup {C!Unpinned} /\ x \in 1..tokens BY <1>3 DEF Listed
<1>5. /\ IsRegistry(r, tokens) /\ NoneOfferedAgain(r) /\ C!Known(r) = C!Known(old) \ {id}
      /\ \A i \in Ids : i # id => r.entries[i] = old.entries[i]
  <2> HIDE DEF old
  <2> QED BY <1>1, <1>2, RemovedIs DEF old
<1> HIDE DEF r
<1>6. /\ RegistriesTyped' /\ \A h \in 0..MaxGens : NoneOfferedAgain(reg'[h])
      /\ reg'[gen] = r
  <2>1. C!Registers(gen, r) BY DEF r
  <2>2. tokens' \in Nat /\ tokens <= tokens' /\ IsRegistry(r, tokens') BY <1>1, <1>5
  <2> QED BY <1>1, <1>5, <2>1, <2>2, RegistriesStay
<1>7. TasksTyped' /\ Starting' = Starting
  <2>1. Deletes(C!Task("delete_node", "delete", id, "none", "none"), gen) BY <1>1, <1>3 DEF Deletes, C!Task
  <2>2. slot \in C!Slots BY DEF C!Slots
  <2> QED BY <2>1, <2>2, WorkBegins
<1>8. C!OneRelayEach'
  <2>1. cancelled' = cancelled \cup {x} BY DEF C!Cancels
  <2>2. ((relays \cup Starting) \ cancelled) \ lost = Wanted /\ NoneShared BY OneRelayEachIs DEF IInv
  <2>3. \A i \in C!Known(old) \ {id} : r.entries[i].relay = old.entries[i].relay /\ old.entries[i].relay # x
    <3> SUFFICES ASSUME NEW i \in C!Known(old), i # id
                 PROVE  r.entries[i].relay = old.entries[i].relay /\ old.entries[i].relay # x
      OBVIOUS
    <3>1. i \in Ids BY DEF C!Known
    <3> QED BY <1>5, <2>2, <3>1 DEF NoneShared
  <2>4. Wanted = {old.entries[i].relay : i \in C!Known(old)} BY DEF Wanted
  <2>5. Wanted' = {r.entries[i].relay : i \in C!Known(old) \ {id}} BY <1>5, <1>6 DEF Wanted
  <2>6. Wanted' = Wanted \ {x} BY <2>3, <2>4, <2>5
  <2>7. NoneShared'
    <3> SUFFICES ASSUME NEW a \in C!Known(r), NEW b \in C!Known(r), r.entries[a].relay = r.entries[b].relay PROVE a = b
      BY <1>6 DEF NoneShared
    <3>1. a \in C!Known(old) /\ b \in C!Known(old) /\ old.entries[a].relay = old.entries[b].relay BY <1>5, <2>3
    <3> QED BY <2>2, <3>1 DEF NoneShared
  <2> QED BY <1>7, <2>1, <2>2, <2>6, <2>7, OneRelayEachIs
<1>9. C!PinnedAreKnown'
  <2> SUFFICES ASSUME gen = 1, NEW i \in C!Known(r) PROVE r.entries[i].key \in pins' \cup {C!Unpinned}
    BY <1>6 DEF C!PinnedAreKnown, C!Going
  <2>1. i \in Ids /\ i # id /\ i \in C!Known(old) /\ r.entries[i] = old.entries[i] BY <1>5 DEF C!Known
  <2>2. old.entries[i].key \in pins \cup {C!Unpinned} BY <2>1 DEF IInv, C!PinnedAreKnown, C!Going
  <2>3. old.entries[i] \in Listed(i, tokens) BY <1>2, <2>1 DEF IsRegistry, C!Known
  <2>4. old.entries[i].key \in Keys[i] \cup {C!Unpinned} BY <2>3 DEF Listed
  <2>5. Keys[i] \cap Keys[id] = {} BY <1>3, <2>1 DEF KeysAreOwn
  <2> QED BY <1>4, <2>1, <2>2, <2>4, <2>5
<1>10. cancelled' \subseteq 1..tokens BY <1>4 DEF C!Cancels, IInv, Typed
<1>11. Typed' BY <1>6, <1>7, <1>10 DEF IInv, Typed, RowsTyped, PollTyped
<1> QED BY <1>6, <1>8, <1>9, <1>11 DEF IInv

LEMMA RequestKeeps ==
    ASSUME KeysAreOwn, IInv, C!Request PROVE IInv'
<1> DEFINE r == reg[gen]
           slot == IF "a" \in {s \in {"a", "b"} : tasks[s] = C!NoTask} THEN "a" ELSE "b"
<1>1. enabled /\ slot \in {"a", "b"} /\ UNCHANGED <<world, rows, gen, enabled, relays, tokens, enabling, lost, poll>>
  BY DEF C!Request, C!network, C!switch
<1>2. gen \in 0..MaxGens /\ tokens \in Nat BY DEF IInv, Typed
<1>3. IsRegistry(r, tokens) /\ NoneOfferedAgain(r) BY <1>2 DEF IInv, Typed, RegistriesTyped
<1> HIDE DEF slot, r
<1>4. CASE UNCHANGED <<reg, pins, cancelled>> /\ \E url \in Urls :
              world[url] # C!Nobody /\ C!Begin(slot, C!Task("add_by_url", "known", world[url].id, url, world[url].key))
  <2>1. PICK url \in Urls : world[url] # C!Nobody /\ C!Begin(slot, C!Task("add_by_url", "known", world[url].id, url, world[url].key))
    BY <1>4
  <2>2. world[url].id \in Ids /\ world[url].key \in Keys[world[url].id] BY <2>1, AnswerIs DEF IInv
  <2> QED BY <1>1, <1>4, <2>1, <2>2, PairingBegins
<1>5. CASE UNCHANGED <<reg, pins, cancelled>> /\ \E id \in C!Offered(r) :
              C!Begin(slot, C!Task("approve_found", "pair", id, r.found[id].url, r.found[id].key))
  <2>1. PICK id \in C!Offered(r) : C!Begin(slot, C!Task("approve_found", "pair", id, r.found[id].url, r.found[id].key))
    BY <1>5
  <2>2. id \in Ids /\ r.found[id] \in Seen(id) BY <1>3 DEF C!Offered, IsRegistry
  <2>3. r.found[id].url \in Urls /\ r.found[id].key \in Keys[id] BY <2>2 DEF Seen
  <2> QED BY <1>1, <1>5, <2>1, <2>2, <2>3, PairingBegins
<1>6. CASE UNCHANGED <<reg, pins, cancelled>> /\ \E id \in C!Known(r) :
              /\ r.entries[id].key # C!Unpinned
              /\ C!Begin(slot, C!Task("pair_approved", "pair", id, r.entries[id].url, r.entries[id].key))
  <2>1. PICK id \in C!Known(r) : /\ r.entries[id].key # C!Unpinned
                               /\ C!Begin(slot, C!Task("pair_approved", "pair", id, r.entries[id].url, r.entries[id].key))
    BY <1>6
  <2>2. id \in Ids /\ r.entries[id] \in Listed(id, tokens) BY <1>3 DEF C!Known, IsRegistry
  <2>3. r.entries[id].url \in Urls /\ r.entries[id].key \in Keys[id] BY <2>1, <2>2 DEF Listed
  <2> QED BY <1>1, <1>6, <2>1, <2>2, <2>3, PairingBegins
<1>7. CASE \E id \in C!Known(r) :
              /\ C!Begin(slot, C!Task("delete_node", "delete", id, "none", "none"))
              /\ C!Registers(gen, C!Removed(r, id))
              /\ pins' = pins \ {r.entries[id].key}
              /\ cancelled' = C!Cancels(r, id)
  BY <1>1, <1>7, DeletionBegins DEF r
<1>8. CASE UNCHANGED <<tasks, pins, cancelled>> /\ \E id \in C!Offered(r) : C!Registers(gen, C!Ignored(r, id))
  <2>1. PICK id \in C!Offered(r) : C!Registers(gen, C!Ignored(r, id)) BY <1>8
  <2>2. IsRegistry(C!Ignored(r, id), tokens) /\ NoneOfferedAgain(C!Ignored(r, id)) /\ C!Ignored(r, id).entries = r.entries
    BY <1>2, <1>3, IgnoredIs
  <2>3. TasksTyped' /\ Starting' = Starting /\ (world \in [Urls -> Answers])' /\ RowsTyped' /\ PollTyped'
    BY <1>1, <1>8 DEF IInv, Typed, TasksTyped, Starting, RowsTyped, PollTyped
  <2> QED BY <1>1, <1>2, <1>8, <2>1, <2>2, <2>3, RegistryIsWritten DEF r
<1> QED BY <1>4, <1>5, <1>6, <1>7, <1>8 DEF C!Request, r, slot

----------------------------------------------------------------------------
(* The network and the health poller *)

\* Nodes that move, go or change their key answer with one of their own.
LEMMA NodeChangesKeeps ==
    ASSUME KeysAreOwn, IInv, C!NodeChanges PROVE IInv'
<1>1. UNCHANGED <<rows, pins, gen, enabled, reg, relays, tokens, cancelled, enabling, lost, tasks, poll>>
  BY DEF C!NodeChanges, C!switch
<1>2. PICK id \in Ids :
          \/ \E url \in Urls, key \in Keys[id] :
                world' = [u \in Urls |-> IF u \in C!At(id) THEN C!Nobody
                                         ELSE IF u = url THEN [id |-> id, key |-> key] ELSE world[u]]
          \/ \E url \in C!At(id) : world' = [world EXCEPT ![url] = C!Nobody]
          \/ world' = world
  BY DEF C!NodeChanges
<1>3. world \in [Urls -> Answers] BY DEF IInv, Typed
<1>4. (world \in [Urls -> Answers])'
  <2>1. ASSUME NEW url \in Urls, NEW key \in Keys[id],
               world' = [u \in Urls |-> IF u \in C!At(id) THEN C!Nobody
                                        ELSE IF u = url THEN [id |-> id, key |-> key] ELSE world[u]]
        PROVE  world' \in [Urls -> Answers]
    <3>1. key \in AllKeys BY DEF AllKeys
    <3>2. [id |-> id, key |-> key] \in Answers BY <3>1 DEF Answers
    <3>3. C!Nobody \in Answers BY DEF Answers
    <3> HIDE DEF Answers
    <3> QED BY <1>3, <2>1, <3>2, <3>3
  <2>2. C!Nobody \in Answers BY DEF Answers
  <2>3. ASSUME NEW url \in C!At(id), world' = [world EXCEPT ![url] = C!Nobody] PROVE world' \in [Urls -> Answers]
    BY <1>3, <2>2, <2>3
  <2> QED BY <1>2, <1>3, <2>1, <2>3
<1>5. TasksTyped' /\ Starting' = Starting /\ RowsTyped' /\ PollTyped'
  BY <1>1 DEF IInv, Typed, TasksTyped, Starting, RowsTyped, PollTyped
<1> QED BY <1>1, <1>4, <1>5, RegistryStays

\* A round's notes stay notes as one is added, or only some are left.
LEMMA PartialIs ==
    ASSUME NEW X, NEW f \in Partial(X)
    PROVE  /\ DOMAIN f \subseteq Ids /\ \A i \in DOMAIN f : f[i] \in X
           /\ \A i \in Ids, x \in X : C!Noted(f, i, x) \in Partial(X)
           /\ \A left \in SUBSET DOMAIN f : [i \in left |-> f[i]] \in Partial(X)
<1>1. PICK D \in SUBSET Ids : f \in [D -> X] BY DEF Partial
<1>2. DOMAIN f = D /\ \A i \in D : f[i] \in X BY <1>1
<1>3. ASSUME NEW i \in Ids, NEW x \in X PROVE C!Noted(f, i, x) \in Partial(X)
  <2>1. C!Noted(f, i, x) \in [D \cup {i} -> X] BY <1>2 DEF C!Noted
  <2>2. D \cup {i} \in SUBSET Ids OBVIOUS
  <2> QED BY <2>1, <2>2 DEF Partial
<1>4. ASSUME NEW left \in SUBSET DOMAIN f PROVE [i \in left |-> f[i]] \in Partial(X)
  <2>1. [i \in left |-> f[i]] \in [left -> X] BY <1>2
  <2>2. left \in SUBSET Ids BY <1>2
  <2> QED BY <2>1, <2>2 DEF Partial
<1> QED BY <1>2, <1>3, <1>4

\* A round that goes on: what it noted stays of its kind.
LEMMA RoundsAre ==
    ASSUME NEW round \in Rounds
    PROVE  /\ \A f \in Partial(Urls) : [round EXCEPT !.found = f] \in Rounds
           /\ \A h \in Partial(Answers) : [round EXCEPT !.heard = h] \in Rounds
           /\ \A e \in Partial([url : Urls, key : AllKeys \cup {C!Unpinned, C!Asked}]) : [round EXCEPT !.entries = e] \in Rounds
           /\ \A x \in Partial(Statuses) : [round EXCEPT !.results = x] \in Rounds
           /\ round.found \in Partial(Urls) /\ round.heard \in Partial(Answers)
           /\ round.entries \in Partial([url : Urls, key : AllKeys \cup {C!Unpinned, C!Asked}])
           /\ round.results \in Partial(Statuses)
<1> DEFINE F == Partial(Urls)
           H == Partial(Answers)
           E == Partial([url : Urls, key : AllKeys \cup {C!Unpinned, C!Asked}])
           X == Partial(Statuses)
<1>1. round \in [step : {"round"}, found : F, heard : H, entries : E, results : X] BY DEF Rounds
<1> HIDE DEF F, H, E, X
<1>2. round.found \in F /\ round.heard \in H /\ round.entries \in E /\ round.results \in X BY <1>1
<1>3. \A f \in F : [round EXCEPT !.found = f] \in [step : {"round"}, found : F, heard : H, entries : E, results : X] BY <1>1
<1>4. \A h \in H : [round EXCEPT !.heard = h] \in [step : {"round"}, found : F, heard : H, entries : E, results : X] BY <1>1
<1>5. \A e \in E : [round EXCEPT !.entries = e] \in [step : {"round"}, found : F, heard : H, entries : E, results : X] BY <1>1
<1>6. \A x \in X : [round EXCEPT !.results = x] \in [step : {"round"}, found : F, heard : H, entries : E, results : X] BY <1>1
<1> QED BY <1>2, <1>3, <1>4, <1>5, <1>6 DEF F, H, E, X, Rounds

\* What every step of the poller leaves alone, but for a registry's written.
LEMMA PollStays ==
    ASSUME IInv, NEW p, C!Polls(p), p \in {[step |-> "idle"]} \cup Rounds
    PROVE  /\ (world \in [Urls -> Answers])' /\ RowsTyped' /\ PollTyped' /\ UNCHANGED <<gen, enabled, relays, tokens, cancelled, enabling, lost>>
           /\ enabled /\ gen \in 0..MaxGens /\ tokens \in Nat
BY DEF C!Polls, C!network, C!switch, IInv, Typed, RowsTyped, PollTyped

LEMMA TasksStay ==
    ASSUME IInv, UNCHANGED <<tasks, gen, tokens>> PROVE TasksTyped' /\ Starting' = Starting
BY DEF IInv, Typed, TasksTyped, Starting

LEMMA PollIs == ASSUME IInv, poll.step = "round" PROVE poll \in Rounds
<1>1. [step |-> "idle"].step # "round" OBVIOUS
<1> QED BY <1>1 DEF IInv, Typed, PollTyped

LEMMA PollBeginsKeeps ==
    ASSUME IInv, C!PollBegins PROVE IInv'
<1> DEFINE r == reg[gen]
           f == [id \in C!Offered(r) |-> r.found[id].url]
           h == [id \in {} |-> C!Nobody]
           e == [id \in C!Known(r) |-> [url |-> r.entries[id].url, key |-> r.entries[id].key]]
           x == [id \in {} |-> "ok"]
           p == [step |-> "round", found |-> f, heard |-> h, entries |-> e, results |-> x]
<1>1. C!Polls(p) /\ UNCHANGED <<reg, pins, tasks>> BY DEF C!PollBegins
<1>2. gen \in 0..MaxGens BY DEF IInv, Typed
<1>3. IsRegistry(r, tokens) BY <1>2 DEF IInv, Typed, RegistriesTyped
<1>4. f \in Partial(Urls)
  <2>1. C!Offered(r) \in SUBSET Ids BY DEF C!Offered
  <2>2. \A id \in C!Offered(r) : r.found[id].url \in Urls BY <1>3 DEF C!Offered, IsRegistry, Seen
  <2>3. f \in [C!Offered(r) -> Urls] BY <2>2
  <2> QED BY <2>1, <2>3 DEF Partial
<1>5. e \in Partial([url : Urls, key : AllKeys \cup {C!Unpinned, C!Asked}])
  <2>1. C!Known(r) \in SUBSET Ids BY DEF C!Known
  <2>2. \A id \in C!Known(r) : r.entries[id].url \in Urls /\ r.entries[id].key \in AllKeys \cup {C!Unpinned, C!Asked}
    BY <1>3 DEF C!Known, IsRegistry, Listed, AllKeys
  <2>3. e \in [C!Known(r) -> [url : Urls, key : AllKeys \cup {C!Unpinned, C!Asked}]] BY <2>2
  <2> QED BY <2>1, <2>3 DEF Partial
<1>6. h \in Partial(Answers) /\ x \in Partial(Statuses)
  <2>1. {} \in SUBSET Ids OBVIOUS
  <2>2. h \in [{} -> Answers] /\ x \in [{} -> Statuses] OBVIOUS
  <2> QED BY <2>1, <2>2 DEF Partial
<1> HIDE DEF f, h, e, x
<1>7. p \in Rounds BY <1>4, <1>5, <1>6 DEF Rounds
<1> HIDE DEF p
<1> QED BY <1>1, <1>7, PollStays, TasksStay, RegistryStays

LEMMA FoundAnswersKeeps ==
    ASSUME IInv, C!FoundAnswers PROVE IInv'
<1>1. poll \in Rounds /\ UNCHANGED <<reg, pins, tasks>> BY PollIs DEF C!FoundAnswers
<1>2. PICK id \in DOMAIN poll.found : C!Polls([poll EXCEPT !.heard = C!Noted(poll.heard, id, world[poll.found[id]])])
  BY DEF C!FoundAnswers
<1>3. poll.found \in Partial(Urls) /\ poll.heard \in Partial(Answers) BY <1>1, RoundsAre
<1>4. id \in Ids /\ poll.found[id] \in Urls BY <1>3, PartialIs
<1>5. world[poll.found[id]] \in Answers BY <1>4 DEF IInv, Typed
<1>6. C!Noted(poll.heard, id, world[poll.found[id]]) \in Partial(Answers) BY <1>3, <1>4, <1>5, PartialIs
<1>7. [poll EXCEPT !.heard = C!Noted(poll.heard, id, world[poll.found[id]])] \in Rounds BY <1>1, <1>6, RoundsAre
<1> QED BY <1>1, <1>2, <1>7, PollStays, TasksStay, RegistryStays

\* An answer of a node that was found offers it, and counts only for itself.
LEMMA check_foundKeeps ==
    ASSUME KeysAreOwn, IInv, C!check_found PROVE IInv'
<1>1. poll \in Rounds /\ DOMAIN poll.heard = DOMAIN poll.found /\ UNCHANGED <<pins, tasks>>
  BY PollIs DEF C!check_found
<1> DEFINE r(id) == IF poll.heard[id].id = id THEN C!SetFound(reg[gen], id, poll.found[id], poll.heard[id].key)
                    ELSE C!FoundFails(reg[gen], id)
           left(id) == DOMAIN poll.found \ {id}
           f(id) == [i \in left(id) |-> poll.found[i]]
           h(id) == [i \in left(id) |-> poll.heard[i]]
<1>2. PICK id \in DOMAIN poll.found :
          C!Registers(gen, r(id)) /\ C!Polls([poll EXCEPT !.found = f(id), !.heard = h(id)])
  BY DEF C!check_found
<1>3. poll.found \in Partial(Urls) /\ poll.heard \in Partial(Answers) BY <1>1, RoundsAre
<1>4. id \in Ids /\ poll.found[id] \in Urls /\ poll.heard[id] \in Answers BY <1>1, <1>3, PartialIs
<1>5. f(id) \in Partial(Urls) /\ h(id) \in Partial(Answers)
  <2>1. left(id) \in SUBSET DOMAIN poll.found /\ left(id) \in SUBSET DOMAIN poll.heard BY <1>1
  <2> HIDE DEF left
  <2> QED BY <1>3, <2>1, PartialIs
<1>6. [poll EXCEPT !.found = f(id), !.heard = h(id)] \in Rounds
  <2> DEFINE p == [poll EXCEPT !.found = f(id)]
  <2> HIDE DEF f, h
  <2>1. p \in Rounds BY <1>1, <1>5, RoundsAre
  <2>2. [p EXCEPT !.heard = h(id)] \in Rounds
    <3> HIDE DEF p
    <3> QED BY <1>5, <2>1, RoundsAre
  <2> QED BY <2>2
<1>7. gen \in 0..MaxGens /\ tokens \in Nat BY DEF IInv, Typed
<1>8. IsRegistry(reg[gen], tokens) /\ NoneOfferedAgain(reg[gen]) BY <1>7 DEF IInv, Typed, RegistriesTyped
<1>9. IsRegistry(r(id), tokens) /\ NoneOfferedAgain(r(id)) /\ r(id).entries = reg[gen].entries
  <2>1. CASE poll.heard[id].id = id
    <3>1. poll.heard[id].key \in Keys[id] BY <1>4, <2>1 DEF Answers, C!Nobody, KeysAreOwn
    <3> QED BY <1>4, <1>7, <1>8, <2>1, <3>1, SetFoundIs
  <2>2. CASE poll.heard[id].id # id BY <1>4, <1>7, <1>8, <2>2, FoundFailsIs
  <2> QED BY <2>1, <2>2
<1> HIDE DEF r, f, h
<1>10. /\ (world \in [Urls -> Answers])' /\ RowsTyped' /\ PollTyped' /\ UNCHANGED <<gen, enabled, relays, tokens, cancelled, enabling, lost>>
  BY <1>2, <1>6, PollStays
<1>11. TasksTyped' /\ Starting' = Starting BY <1>1, <1>10, TasksStay
<1> QED BY <1>1, <1>2, <1>7, <1>9, <1>10, <1>11, RegistryIsWritten

\* A node approved before TLS: the key that answers there is to be pinned.
LEMMA pinKeeps ==
    ASSUME KeysAreOwn, IInv, C!pin PROVE IInv'
<1>1. poll \in Rounds /\ UNCHANGED <<reg, pins>> BY PollIs DEF C!pin, C!Checking
<1> DEFINE url(id) == poll.entries[id].url
           p(id) == [poll EXCEPT !.entries = [poll.entries EXCEPT ![id] = [poll.entries[id] EXCEPT !.key = C!Asked]]]
<1>2. PICK id \in DOMAIN poll.entries :
          /\ world[url(id)].id = id
          /\ C!Begin("pin", C!Task("pin", "approve", id, url(id), world[url(id)].key))
          /\ C!Polls(p(id))
  BY DEF C!pin, C!Pinning
<1>3. poll.entries \in Partial([url : Urls, key : AllKeys \cup {C!Unpinned, C!Asked}]) BY <1>1, RoundsAre
<1>4. id \in Ids /\ poll.entries[id] \in [url : Urls, key : AllKeys \cup {C!Unpinned, C!Asked}] BY <1>3, PartialIs
<1>5. url(id) \in Urls BY <1>4
<1>6. p(id) \in Rounds
  <2> DEFINE e == [poll.entries EXCEPT ![id] = [poll.entries[id] EXCEPT !.key = C!Asked]]
  <2>1. e = C!Noted(poll.entries, id, [poll.entries[id] EXCEPT !.key = C!Asked])
    <3>1. DOMAIN poll.entries = DOMAIN poll.entries \cup {id} BY <1>2
    <3> QED BY <3>1 DEF C!Noted
  <2>2. [poll.entries[id] EXCEPT !.key = C!Asked] \in [url : Urls, key : AllKeys \cup {C!Unpinned, C!Asked}] BY <1>4
  <2>3. e \in Partial([url : Urls, key : AllKeys \cup {C!Unpinned, C!Asked}])
    <3> HIDE DEF e
    <3> QED BY <1>3, <1>4, <2>1, <2>2, PartialIs
  <2> HIDE DEF e
  <2>4. [poll EXCEPT !.entries = e] \in Rounds BY <1>1, <2>3, RoundsAre
  <2> QED BY <2>4 DEF e
<1> HIDE DEF p
<1>7. /\ (world \in [Urls -> Answers])' /\ RowsTyped' /\ PollTyped' /\ UNCHANGED <<gen, enabled, relays, tokens, cancelled, enabling, lost>>
      /\ enabled /\ gen \in 0..MaxGens
  BY <1>2, <1>6, PollStays
<1>8. gen \in 1..gen
  <2>1. gen # 0 /\ MaxGens \in Nat BY <1>7 DEF IInv, Typed, KeysAreOwn
  <2> QED BY <1>7, <2>1
<1> HIDE DEF url
<1>9. Works(C!Task("pin", "approve", id, url(id), world[url(id)].key), gen)
  <2>1. world[url(id)].key \in Keys[id] /\ world[url(id)].key \in AllKeys
    BY <1>2, <1>4, <1>5, AnswerIs DEF IInv
  <2> QED BY <1>4, <1>5, <1>8, <2>1 DEF Works, C!Task, Ops
<1>10. TasksTyped' /\ Starting' = Starting
  <2>1. "pin" \in C!Slots BY DEF C!Slots
  <2> QED BY <1>2, <1>7, <1>9, <2>1, WorkBegins
<1> QED BY <1>1, <1>7, <1>10, RegistryStays

LEMMA CheckAnswersKeeps ==
    ASSUME IInv, C!CheckAnswers PROVE IInv'
<1>1. poll \in Rounds /\ UNCHANGED <<reg, pins, tasks>> BY PollIs DEF C!CheckAnswers, C!Checking
<1>2. PICK id \in DOMAIN poll.entries :
          C!Polls([poll EXCEPT !.results = C!Noted(poll.results, id, C!check(id, poll.entries[id].url, poll.entries[id].key))])
  BY DEF C!CheckAnswers
<1>3. poll.entries \in Partial([url : Urls, key : AllKeys \cup {C!Unpinned, C!Asked}]) /\ poll.results \in Partial(Statuses)
  BY <1>1, RoundsAre
<1>4. id \in Ids BY <1>3, PartialIs
<1>5. C!check(id, poll.entries[id].url, poll.entries[id].key) \in Statuses BY DEF C!check, Statuses
<1>6. C!Noted(poll.results, id, C!check(id, poll.entries[id].url, poll.entries[id].key)) \in Partial(Statuses)
  BY <1>3, <1>4, <1>5, PartialIs
<1>7. [poll EXCEPT !.results = C!Noted(poll.results, id, C!check(id, poll.entries[id].url, poll.entries[id].key))] \in Rounds
  BY <1>1, <1>6, RoundsAre
<1> QED BY <1>1, <1>2, <1>7, PollStays, TasksStay, RegistryStays

\* The results of a round change how the nodes are that are still listed.
LEMMA PollEndsKeeps ==
    ASSUME IInv, C!PollEnds PROVE IInv'
<1> DEFINE old == reg[gen]
           checked == DOMAIN poll.results \cap C!Known(old)
           e == [id \in Ids |-> IF id \in checked THEN [old.entries[id] EXCEPT !.status = poll.results[id]] ELSE old.entries[id]]
           r == [old EXCEPT !.entries = e]
<1>1. poll \in Rounds /\ C!Registers(gen, r) /\ C!Polls([step |-> "idle"]) /\ UNCHANGED <<pins, tasks>>
  BY PollIs DEF C!PollEnds, C!Checking
<1>2. /\ (world \in [Urls -> Answers])' /\ RowsTyped' /\ PollTyped' /\ UNCHANGED <<gen, enabled, relays, tokens, cancelled, enabling, lost>>
      /\ gen \in 0..MaxGens /\ tokens \in Nat
  BY <1>1, PollStays
<1>3. IsRegistry(old, tokens) /\ NoneOfferedAgain(old) BY <1>2 DEF IInv, Typed, RegistriesTyped
<1>4. \A id \in DOMAIN poll.results : poll.results[id] \in Statuses
  <2>1. poll.results \in Partial(Statuses) BY <1>1, RoundsAre
  <2> QED BY <2>1, PartialIs
<1>5. /\ DOMAIN r = {"entries", "found", "ignored"} /\ r.entries = e /\ r.found = old.found /\ r.ignored = old.ignored
  BY <1>3 DEF IsRegistry
<1>6. \A id \in Ids : id \notin checked => e[id] = old.entries[id] OBVIOUS
<1>7. \A id \in checked : /\ e[id] \in Listed(id, tokens) /\ e[id].relay = old.entries[id].relay
                         /\ e[id].key = old.entries[id].key /\ old.entries[id] # C!NoNode
  <2> SUFFICES ASSUME NEW id \in checked
               PROVE  /\ e[id] \in Listed(id, tokens) /\ e[id].relay = old.entries[id].relay
                      /\ e[id].key = old.entries[id].key /\ old.entries[id] # C!NoNode
    OBVIOUS
  <2>1. id \in Ids /\ old.entries[id] \in Listed(id, tokens) /\ old.entries[id] # C!NoNode
    BY <1>3 DEF C!Known, IsRegistry
  <2>2. e[id] = [old.entries[id] EXCEPT !.status = poll.results[id]] BY <2>1
  <2>3. poll.results[id] \in Statuses BY <1>4
  <2> HIDE DEF e
  <2> QED BY <2>1, <2>2, <2>3 DEF Listed
<1>8. DOMAIN e = Ids OBVIOUS
<1> HIDE DEF e, r
<1>9. IsRegistry(r, tokens)
  <2>1. \A id \in Ids : e[id] \in {C!NoNode} \cup Listed(id, tokens) BY <1>3, <1>6, <1>7 DEF IsRegistry
  <2> QED BY <1>3, <1>5, <1>8, <2>1 DEF IsRegistry
<1>10. C!Known(r) = C!Known(old)
  <2>1. \A id \in Ids : e[id] = C!NoNode <=> old.entries[id] = C!NoNode BY <1>6, <1>7, PlacesDiffer
  <2> QED BY <1>5, <2>1 DEF C!Known
<1>11. NoneOfferedAgain(r) BY <1>3, <1>5, <1>10 DEF NoneOfferedAgain, C!Offered
<1>12. /\ RegistriesTyped' /\ \A h \in 0..MaxGens : NoneOfferedAgain(reg'[h])
       /\ reg'[gen] = r /\ \A h \in 0..MaxGens : h # gen => reg'[h] = reg[h]
  <2>1. tokens' \in Nat /\ tokens <= tokens' /\ IsRegistry(r, tokens') BY <1>2, <1>9
  <2> QED BY <1>1, <1>2, <1>11, <2>1, RegistriesStay
<1>13. \A h \in 0..MaxGens : SameListed(h)
  <2>1. SameListed(gen)
    <3>1. \A id \in C!Known(old) : r.entries[id].relay = old.entries[id].relay /\ r.entries[id].key = old.entries[id].key
      BY <1>5, <1>6, <1>7 DEF C!Known
    <3>2. C!Known(reg[gen])' = C!Known(old) BY <1>2, <1>10, <1>12 DEF C!Known
    <3>3. reg'[gen] = r BY <1>12
    <3> QED BY <3>1, <3>2, <3>3 DEF SameListed
  <2>2. \A h \in 0..MaxGens : h # gen => SameListed(h) BY <1>12 DEF SameListed, C!Known
  <2> QED BY <2>1, <2>2
<1>14. TasksTyped' /\ Starting' = Starting BY <1>1, <1>2, TasksStay
<1> QED BY <1>1, <1>2, <1>12, <1>13, <1>14, ListedStay

----------------------------------------------------------------------------
(* The invariant holds at first, and every step keeps it                      *)

LEMMA IInvAtFirst ==
    ASSUME KeysAreOwn, C!Init PROVE IInv
<1>1. world \in [Urls -> Answers]
  <2>1. \A url \in Urls : Homes[url] \in Answers
    <3> SUFFICES ASSUME NEW url \in Urls, Homes[url] # C!Nobody PROVE Homes[url] \in Answers
      BY DEF Answers
    <3> QED BY DEF KeysAreOwn, Answers
  <2> QED BY <2>1 DEF C!Init, KeysAreOwn
<1>2. RowsTyped
  <2>1. CASE rows = [i \in Ids |-> C!NoNode] BY <2>1 DEF RowsTyped
  <2>2. CASE \E url \in Urls : rows = [i \in Ids |-> IF i = Homes[url].id THEN [url |-> url, key |-> C!Unpinned] ELSE C!NoNode]
    BY <2>2 DEF RowsTyped, Row
  <2> QED BY <2>1, <2>2 DEF C!Init
<1>3. gen = 0 /\ enabled = FALSE /\ tokens = 0 /\ relays = {} /\ cancelled = {} /\ enabling = FALSE /\ lost = {}
      /\ pins = {} /\ reg = [g \in 0..MaxGens |-> C!Empty]
      /\ tasks = [s \in C!Slots |-> C!NoTask] /\ poll = [step |-> "idle"] /\ MaxGens \in Nat
  BY DEF C!Init, KeysAreOwn
<1>4. RegistriesTyped /\ \A g \in 0..MaxGens : NoneOfferedAgain(reg[g])
  BY <1>3, EmptyIs DEF RegistriesTyped
<1>5. TasksTyped BY <1>3 DEF TasksTyped
<1>6. Typed
  <2>1. pins \subseteq AllKeys /\ relays \subseteq 1..tokens /\ cancelled \subseteq 1..tokens /\ lost \subseteq 1..tokens /\ tokens \in Nat BY <1>3
  <2>2. gen \in 0..MaxGens
    <3>1. gen = 0 /\ MaxGens \in Nat BY <1>3
    <3> QED BY <3>1
  <2>3. enabled \in BOOLEAN /\ enabling \in BOOLEAN /\ ~enabled /\ ~enabling BY <1>3, Zenon
  <2>4. PollTyped BY <1>3 DEF PollTyped
  <2> QED BY <1>1, <1>2, <1>4, <1>5, <2>1, <2>2, <2>3, <2>4 DEF Typed
<1>7. C!OneRelayEach
  <2>1. ~Starts(C!NoTask) BY DEF Starts, C!NoTask
  <2>2. Starting = {} BY <1>3, <2>1 DEF Starting
  <2>3. Wanted = {} BY <1>3 DEF Wanted
  <2>4. reg[gen] = C!Empty BY <1>3
  <2>5. C!Known(C!Empty) = {} BY EmptyIs
  <2>6. NoneShared BY <2>4, <2>5 DEF NoneShared
  <2> QED BY <1>3, <2>2, <2>3, <2>6, OneRelayEachIs
<1>8. C!PinnedAreKnown BY <1>3 DEF C!PinnedAreKnown, C!Going
<1> QED BY <1>4, <1>6, <1>7, <1>8 DEF IInv

\* A step of a request, of an announcement, of the poller, of a relay or of a
\* node leaves each listed node its relay and its trust.
LEMMA IInvStays ==
    ASSUME KeysAreOwn, IInv, [C!Next]_(C!vars) PROVE IInv'
<1>1. ASSUME UNCHANGED C!vars PROVE IInv'
  <2>1. UNCHANGED <<world, rows, pins, gen, enabled, reg, relays, tokens, cancelled, enabling, lost, tasks, poll>> BY <1>1 DEF C!vars, C!network, C!switch
  <2>2. (world \in [Urls -> Answers])' /\ RowsTyped' /\ PollTyped' BY <2>1 DEF IInv, Typed, RowsTyped, PollTyped
  <2> QED BY <2>1, <2>2, TasksStay, RegistryStays
<1>2. ASSUME NEW slot \in C!Slots, C!TaskSteps(slot) PROVE IInv'
  BY <1>2, announcedKeeps, add_by_urlKeeps, pairKeeps, approveKeeps, node_upsertKeeps, upsertKeeps, RelayStartsKeeps,
     node_deleteKeeps DEF C!TaskSteps
<1>3. ASSUME C!PollSteps PROVE IInv'
  BY <1>3, PollBeginsKeeps, FoundAnswersKeeps, check_foundKeeps, pinKeeps, CheckAnswersKeeps, PollEndsKeeps DEF C!PollSteps
<1> QED BY <1>1, <1>2, <1>3, EnableKeeps, EnableEndsKeeps, DisableKeeps, RequestKeeps, RelayEndsKeeps, NodeChangesKeeps, AnnouncedKeeps
           DEF C!Next

\* Each approved node has one relay and is trusted, and one that was removed or
\* dismissed isn't offered again (NodeRegistry::upsert, remove, set_found).
THEOREM NodesStayKept == Spec => []NodesAreKept
<1>1. Init => IInv
  BY KeysAssumption, IInvAtFirst DEF Init
<1>2. IInv /\ [Next]_vars => IInv'
  <2> SUFFICES ASSUME IInv, [Next]_vars PROVE IInv'
    OBVIOUS
  <2>1. [C!Next]_(C!vars)
    BY DEF Next, vars, InClock, InLive, InController, controllerVars, C!vars, C!network, C!switch
  <2> QED BY <2>1, KeysAssumption, IInvStays
<1>3. IInv => NodesAreKept
  BY DEF IInv, Typed, C!TypeOK, AllKeys, C!NotOfferedAgain, NoneOfferedAgain, NodesAreKept
<1> QED BY <1>1, <1>2, <1>3, PTL DEF Spec
=============================================================================
