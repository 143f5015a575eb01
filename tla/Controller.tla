----------------------------- MODULE Controller -----------------------------
(* A controller's nodes (src/node/src/controller/): how one that announces    *)
(* itself, or is added by address, gets approved, moved, checked, dismissed   *)
(* and removed, while the controller is switched off and on and nodes change  *)
(* address, key or version.  Each request and announcement reads the          *)
(* registry, asks the network with no lock held, and only then writes the     *)
(* nodes table and the registry, one after the other.                         *)
EXTENDS Naturals, FiniteSets

CONSTANTS Ids, Urls,
    Homes,      \* who answers where at first
    Keys,       \* Keys[id]: the TLS keys the node may come to have
    MaxGens,    \* times the controller is enabled
    MaxActs,    \* requests, switches and changes of the network and its nodes
    PruneAfterFailures

VARIABLES
    world,      \* who answers at each address: [id, key], or Nobody
    takes,      \* the nodes that take this controller's token
    other,      \* the nodes that run another version
    rows,       \* the nodes table
    pins,       \* the keys trusted, whichever controller pinned them
    gen, on,    \* this controller, of those enabled so far, and if it is on
    reg,        \* the registry of each
    relays,     \* the relays that run, by their tokens
    tokens,     \* how many tokens were made
    cancelled,
    enabling,   \* it is being switched on: its registry is filled, and not in use
    lost,       \* relays of one that failed to be: nothing can cancel them
    tasks,      \* requests, announcements and the pinning of an old node
    poll,       \* the round of the health poller
    acts
network == <<world, takes, other>>
switch == <<enabling, lost>>
vars == <<network, rows, pins, gen, on, reg, relays, tokens, cancelled, switch, tasks, poll, acts>>

Nobody == [id |-> "nobody", key |-> "nobody"]
NoNode == [url |-> "none"]
NoTask == [op |-> "none"]
Unpinned == "unpinned"            \* the key of a node approved before TLS
Asked == "asked"                  \* such a key, once a round has asked for it
Slots == {"a", "b", "pin"} \cup Urls

Acts == acts < MaxActs /\ acts' = acts + 1

Empty == [entries |-> [id \in Ids |-> NoNode], found |-> [id \in Ids |-> NoNode], ignored |-> {}]
Known(r) == {id \in Ids : r.entries[id] # NoNode}
Offered(r) == {id \in Ids : r.found[id] # NoNode}
Entry(url, key, token) == [url |-> url, key |-> key, status |-> "unchecked", relay |-> token]

----------------------------------------------------------------------------
(* NodeRegistry *)

\* An update keeps the running relay.
Upserted(r, id, url, key, token) ==
    [r EXCEPT !.found[id] = NoNode,
              !.entries[id] = IF @ = NoNode THEN Entry(url, key, token)
                              ELSE [@ EXCEPT !.url = url, !.key = key]]
\* ... and the key it replaces is trusted no more.
PinnedBy(r, id, key) ==
    LET old == IF id \in Known(r) THEN {r.entries[id].key} ELSE {}
    IN  (pins \ (old \ {key})) \cup ({key} \ {Unpinned})

\* mutant: what was found is listed though it was approved meanwhile.
SetFoundAnyway(r, id, url, key) ==
    IF key \in r.ignored THEN r
    ELSE [r EXCEPT !.found[id] = [url |-> url, key |-> key, fails |-> 0]]
SetFound(r, id, url, key) ==
    IF key \in r.ignored \/ id \in Known(r) THEN r
    ELSE [r EXCEPT !.found[id] = [url |-> url, key |-> key, fails |-> 0]]

FoundFails(r, id) ==
    LET fails == r.found[id].fails + 1
    IN  IF id \notin Offered(r) THEN r
        ELSE [r EXCEPT !.found[id] = IF fails >= PruneAfterFailures THEN NoNode ELSE [@ EXCEPT !.fails = fails]]

\* mutant: a removed node's relay goes on.
Forgets(r, id) == cancelled
\* NodeRegistry::remove cancels the relay of the entry it takes out.
Cancels(r, id) == cancelled \cup {r.entries[id].relay}

Removed(r, id) ==
    [r EXCEPT !.entries[id] = NoNode, !.ignored = @ \cup ({r.entries[id].key} \ {Unpinned})]
Ignored(r, id) == [r EXCEPT !.found[id] = NoNode, !.ignored = @ \cup {r.found[id].key}]

Registers(g, r) == reg' = [reg EXCEPT ![g] = r]

----------------------------------------------------------------------------
(* Enabling and disabling *)

\* This controller's token isn't cancelled.
Going == on \/ enabling

\* The rows' nodes come back unchecked, their keys pinned, each with a relay,
\* which runs from here on.  The slot is locked until the end.
Enable ==
    LET there == {id \in Ids : rows[id] # NoNode}
        token == CHOOSE f \in [there -> tokens + 1..tokens + Cardinality(there)] :
                     \A a, b \in there : f[a] = f[b] => a = b
    IN  /\ ~Going /\ gen < MaxGens
        /\ gen' = gen + 1 /\ enabling' = TRUE
        /\ Registers(gen + 1, [Empty EXCEPT !.entries = [id \in Ids |->
               IF id \in there THEN Entry(rows[id].url, rows[id].key, token[id]) ELSE NoNode]])
        /\ pins' = pins \cup ({rows[id].key : id \in there} \ {Unpinned})
        /\ relays' = relays \cup {token[id] : id \in there}
        /\ tokens' = tokens + Cardinality(there)
        /\ UNCHANGED <<network, rows, on, cancelled, lost, tasks, poll, acts>>

\* Its clock mode is read from the database, the poller starts, and it fills the
\* slot ...
EnableEnds ==
    /\ enabling
    /\ enabling' = FALSE /\ on' = TRUE
    /\ UNCHANGED <<network, rows, pins, gen, reg, relays, tokens, cancelled, lost, tasks, poll, acts>>
\* ... or reading it fails, or the request is dropped meanwhile: the keys stay
\* pinned and the relays run on, of a registry nobody has.
EnableFails ==
    /\ enabling
    /\ enabling' = FALSE
    /\ lost' = lost \cup {reg[gen].entries[id].relay : id \in Known(reg[gen])}
    /\ UNCHANGED <<network, rows, pins, gen, on, reg, relays, tokens, cancelled, tasks, poll, acts>>

\* Its tokens are cancelled.  A round of its poller goes on, but only its own
\* registry hears of it, which nothing reads any more.
Disable ==
    /\ on /\ Acts
    /\ on' = FALSE /\ pins' = {} /\ poll' = [step |-> "idle"]
    /\ cancelled' = cancelled \cup {reg[gen].entries[id].relay : id \in Known(reg[gen])}
    /\ UNCHANGED <<network, rows, gen, reg, relays, tokens, switch, tasks>>

RelayEnds ==
    /\ \E t \in relays \cap cancelled : relays' = relays \ {t}
    /\ UNCHANGED <<network, rows, pins, gen, on, reg, tokens, cancelled, switch, tasks, poll, acts>>

----------------------------------------------------------------------------
(* Requests and announcements: each is a task, at a step *)

Task(op, step, id, url, key) == [g |-> gen, op |-> op, step |-> step, id |-> id, url |-> url, key |-> key]
Begin(slot, task) == tasks[slot] = NoTask /\ tasks' = [tasks EXCEPT ![slot] = task]
Goes(slot, step) == tasks' = [tasks EXCEPT ![slot].step = step]
Ends(slot) == tasks' = [tasks EXCEPT ![slot] = NoTask]

\* mDNS announces an address, and who answers there says who it is.
Announced(url) ==
    /\ on /\ world[url] # Nobody
    /\ Begin(url, Task("announced", "known", world[url].id, url, world[url].key))
    /\ UNCHANGED <<network, rows, pins, gen, on, reg, relays, tokens, cancelled, switch, poll, acts>>

\* The operator's requests, up to their first wait.
Request ==
    LET r == reg[gen]
        free == {s \in {"a", "b"} : tasks[s] = NoTask}
        slot == IF "a" \in free THEN "a" ELSE "b"
    IN  /\ on /\ free # {} /\ Acts
        /\ \/ /\ \/ \E url \in Urls :                             \* post_node
                    /\ world[url] # Nobody
                    /\ Begin(slot, Task("add_by_url", "known", world[url].id, url, world[url].key))
                 \/ \E id \in Offered(r) :                        \* post_approve_found
                    Begin(slot, Task("approve_found", "pair", id, r.found[id].url, r.found[id].key))
                 \/ \E id \in Known(r) :                          \* post_pairing
                    /\ r.entries[id].key # Unpinned
                    /\ Begin(slot, Task("pair_approved", "pair", id, r.entries[id].url, r.entries[id].key))
              /\ UNCHANGED <<reg, pins, cancelled>>
           \/ \E id \in Known(r) :                                \* delete_node
              /\ Begin(slot, Task("delete_node", "delete", id, "none", "none"))
              /\ Registers(gen, Removed(r, id))
              /\ pins' = pins \ {r.entries[id].key}
              /\ cancelled' = Cancels(r, id)
           \/ \E id \in Offered(r) :                              \* delete_found_node
              /\ Registers(gen, Ignored(r, id))
              /\ UNCHANGED <<tasks, pins, cancelled>>
        /\ UNCHANGED <<network, rows, gen, on, relays, tokens, switch, poll>>

\* mutant: a node that is known is left where it is.
StaysPut(known, t) == FALSE
\* An announcement moves a node only with its pinned key.
Moved(known, t) == known.key = t.key /\ known.url # t.url

announced(slot) ==
    LET t == tasks[slot]
        known == reg[t.g].entries[t.id]
    IN  /\ t.op = "announced" /\ t.step = "known"
        /\ IF known # NoNode /\ Moved(known, t) THEN Goes(slot, "approve") ELSE Ends(slot)
        /\ IF known = NoNode THEN Registers(t.g, SetFound(reg[t.g], t.id, t.url, t.key)) ELSE UNCHANGED reg
        /\ UNCHANGED <<network, rows, pins, gen, on, relays, tokens, cancelled, switch, poll, acts>>

\* A node that is approved with another key is refused.
add_by_url(slot) ==
    LET t == tasks[slot]
        known == reg[t.g].entries[t.id]
    IN  /\ t.op = "add_by_url" /\ t.step = "known"
        /\ IF known # NoNode /\ known.key \notin {Unpinned, t.key} THEN Ends(slot) ELSE Goes(slot, "pair")
        /\ UNCHANGED <<network, rows, pins, gen, on, reg, relays, tokens, cancelled, switch, poll, acts>>

\* The node at the address, if it still holds that key, takes the token or is
\* given it with the right pairing code.
pair(slot) ==
    LET t == tasks[slot]
    IN  /\ t.op # "none" /\ t.step = "pair"
        /\ \/ /\ world[t.url].key = t.key
              /\ takes' = takes \cup {t.id}
              /\ IF t.op = "pair_approved" THEN Ends(slot) ELSE Goes(slot, "approve")
           \/ /\ world[t.url].key # t.key \/ t.id \notin takes
              /\ Ends(slot) /\ UNCHANGED takes
        /\ UNCHANGED <<world, other, rows, pins, gen, on, reg, relays, tokens, cancelled, switch, poll, acts>>

\* approve: from the check that its controller is on ...
approve(slot) ==
    LET t == tasks[slot]
    IN  /\ t.op # "none" /\ t.step = "approve"
        /\ IF Going /\ t.g = gen THEN Goes(slot, "row") ELSE Ends(slot)
        /\ UNCHANGED <<network, rows, pins, gen, on, reg, relays, tokens, cancelled, switch, poll, acts>>
\* ... through the row ...
node_upsert(slot) ==
    LET t == tasks[slot]
    IN  /\ t.op # "none" /\ t.step = "row"
        /\ rows' = [rows EXCEPT ![t.id] = [url |-> t.url, key |-> t.key]]
        /\ Goes(slot, "entry")
        /\ UNCHANGED <<network, pins, gen, on, reg, relays, tokens, cancelled, switch, poll, acts>>
\* ... and the entry, to the relay of a new one.
upsert(slot) ==
    LET t == tasks[slot]
        new == t.id \notin Known(reg[t.g])
        token == tokens + 1
    IN  /\ t.op # "none" /\ t.step = "entry"
        /\ Registers(t.g, Upserted(reg[t.g], t.id, t.url, t.key, token))
        /\ pins' = PinnedBy(reg[t.g], t.id, t.key)
        /\ IF new
             THEN /\ tokens' = token
                  /\ cancelled' = IF Going /\ t.g = gen THEN cancelled ELSE cancelled \cup {token}
                  /\ tasks' = [tasks EXCEPT ![slot] = [op |-> t.op, step |-> "relay", relay |-> token]]
             ELSE Ends(slot) /\ UNCHANGED <<tokens, cancelled>>
        /\ UNCHANGED <<network, rows, gen, on, relays, switch, poll, acts>>
RelayStarts(slot) ==
    LET t == tasks[slot]
    IN  /\ t.op # "none" /\ t.step = "relay"
        /\ relays' = relays \cup {t.relay}
        /\ Ends(slot)
        /\ UNCHANGED <<network, rows, pins, gen, on, reg, tokens, cancelled, switch, poll, acts>>

node_delete(slot) ==
    LET t == tasks[slot]
    IN  /\ t.op # "none" /\ t.step = "delete"
        /\ rows' = [rows EXCEPT ![t.id] = NoNode]
        /\ Ends(slot)
        /\ UNCHANGED <<network, pins, gen, on, reg, relays, tokens, cancelled, switch, poll, acts>>

TaskSteps(slot) ==
    \/ announced(slot) \/ add_by_url(slot) \/ pair(slot) \/ approve(slot)
    \/ node_upsert(slot) \/ upsert(slot) \/ RelayStarts(slot) \/ node_delete(slot)

----------------------------------------------------------------------------
(* The health poller *)

\* What the node at url answers to a check of id, and else why it didn't.
check(id, url, key) ==
    LET there == world[url]
    IN  CASE there = Nobody -> "offline"
          [] there.key \in pins /\ there.id \notin takes -> "access_denied"
          [] there.id # id -> "other_node"
          [] key \notin {Unpinned, Asked, there.key} /\ there.key \notin pins -> "key_changed"
          [] there.key \notin pins -> "failing"
          [] id \in other -> "other_version"
          [] OTHER -> "ok"

Noted(answers, id, answer) == [i \in DOMAIN answers \cup {id} |-> IF i = id THEN answer ELSE answers[i]]
Polls(changes) ==
    /\ on /\ poll' = changes
    /\ UNCHANGED <<network, rows, gen, on, relays, tokens, cancelled, switch, acts>>

\* A round looks at what is listed then: found nodes are asked who they are.
PollBegins ==
    LET r == reg[gen]
    IN  /\ poll.step = "idle"
        /\ Polls([step |-> "round",
                  found |-> [id \in Offered(r) |-> r.found[id].url],
                  heard |-> [id \in {} |-> Nobody],
                  entries |-> [id \in Known(r) |-> [url |-> r.entries[id].url, key |-> r.entries[id].key]],
                  results |-> [id \in {} |-> "ok"]])
        /\ UNCHANGED <<reg, pins, tasks>>
FoundAnswers ==
    /\ poll.step = "round"
    /\ \E id \in DOMAIN poll.found \ DOMAIN poll.heard :
          Polls([poll EXCEPT !.heard = Noted(@, id, world[poll.found[id]])])
    /\ UNCHANGED <<reg, pins, tasks>>
\* Once all have answered, each answer is noted, or the failure counted.
check_found ==
    /\ poll.step = "round" /\ DOMAIN poll.heard = DOMAIN poll.found
    /\ \E id \in DOMAIN poll.found :
          /\ Registers(gen, IF poll.heard[id].id = id
                              THEN SetFound(reg[gen], id, poll.found[id], poll.heard[id].key)
                              ELSE FoundFails(reg[gen], id))
          /\ LET left == DOMAIN poll.found \ {id}
             IN  Polls([poll EXCEPT !.found = [i \in left |-> @[i]], !.heard = [i \in left |-> @[i]]])
    /\ UNCHANGED <<pins, tasks>>
\* A node approved before TLS is trusted once, where it was then.
Checking == poll.step = "round" /\ DOMAIN poll.found = {}
Pinning == {id \in DOMAIN poll.entries : poll.entries[id].key = Unpinned}
pin ==
    /\ Checking
    /\ \E id \in Pinning :
          LET url == poll.entries[id].url
          IN  /\ world[url].id = id
              /\ Begin("pin", Task("pin", "approve", id, url, world[url].key))
              /\ Polls([poll EXCEPT !.entries[id].key = Asked])
    /\ UNCHANGED <<reg, pins>>
CheckAnswers ==
    /\ Checking /\ tasks["pin"] = NoTask
    /\ \E id \in DOMAIN poll.entries \ DOMAIN poll.results :
          /\ id \in Pinning => world[poll.entries[id].url].id # id
          /\ Polls([poll EXCEPT !.results = Noted(@, id, check(id, poll.entries[id].url, poll.entries[id].key))])
    /\ UNCHANGED <<reg, pins, tasks>>
\* record_success and record_failure of all under one lock, if still listed.
PollEnds ==
    LET checked == DOMAIN poll.results \cap Known(reg[gen])
    IN  /\ Checking /\ DOMAIN poll.results = DOMAIN poll.entries
        /\ Registers(gen, [reg[gen] EXCEPT !.entries = [id \in Ids |->
               IF id \in checked THEN [@[id] EXCEPT !.status = poll.results[id]] ELSE @[id]]])
        /\ Polls([step |-> "idle"])
        /\ UNCHANGED <<pins, tasks>>

PollSteps == PollBegins \/ FoundAnswers \/ check_found \/ pin \/ CheckAnswers \/ PollEnds

----------------------------------------------------------------------------
(* The network: nodes move, go, come back, are reinstalled or updated, and    *)
(* pair with another controller.                                              *)

At(id) == {url \in Urls : world[url].id = id}
NodeChanges ==
    /\ Acts
    /\ \E id \in Ids :
          \/ \E url \in Urls, key \in Keys[id] :
                /\ world[url] = Nobody
                /\ world' = [u \in Urls |-> IF u \in At(id) THEN Nobody
                                            ELSE IF u = url THEN [id |-> id, key |-> key] ELSE world[u]]
                /\ takes' \in IF At(id) = {} THEN {takes, takes \ {id}}
                             ELSE IF \E u \in At(id) : world[u].key = key THEN {takes} ELSE {takes \ {id}}
                /\ UNCHANGED other
          \/ \E url \in At(id) : world' = [world EXCEPT ![url] = Nobody] /\ UNCHANGED <<takes, other>>
          \/ takes' = takes \ {id} /\ UNCHANGED <<world, other>>
          \/ other' = (other \cup {id}) \ (other \cap {id}) /\ UNCHANGED <<world, takes>>
    /\ UNCHANGED <<rows, pins, gen, on, reg, relays, tokens, cancelled, switch, tasks, poll>>

----------------------------------------------------------------------------

\* One node may have been approved before TLS.
Init ==
    /\ world = Homes
    /\ takes = {} /\ other = {}
    /\ rows \in {[i \in Ids |-> NoNode]} \cup
          {[i \in Ids |-> IF i = Homes[url].id THEN [url |-> url, key |-> Unpinned] ELSE NoNode] : url \in Urls}
    /\ pins = {} /\ gen = 0 /\ on = FALSE
    /\ reg = [g \in 0..MaxGens |-> Empty]
    /\ relays = {} /\ tokens = 0 /\ cancelled = {}
    /\ enabling = FALSE /\ lost = {}
    /\ tasks = [s \in Slots |-> NoTask]
    /\ poll = [step |-> "idle"]
    /\ acts = 0

Next ==
    \/ Enable \/ EnableEnds \/ EnableFails \/ Disable \/ Request \/ RelayEnds \/ NodeChanges \/ PollSteps
    \/ \E url \in Urls : Announced(url)
    \/ \E slot \in Slots : TaskSteps(slot)

\* Tasks run and the poller's interval comes round.  Nothing is asked of the
\* announcements: each is followed once, and its errors are only logged.
Fairness ==
    /\ WF_vars(PollSteps)
    /\ \A slot \in Slots : WF_vars(TaskSteps(slot))
Spec == Init /\ [][Next]_vars /\ Fairness

----------------------------------------------------------------------------
(* Properties *)

TypeOK ==
    /\ pins \subseteq UNION {Keys[id] : id \in Ids}
    /\ relays \subseteq 1..tokens /\ cancelled \subseteq 1..tokens /\ lost \subseteq 1..tokens
    /\ gen \in 0..MaxGens

\* Each node of the controller has one relay, running or about to, that isn't
\* cancelled, and no relay runs on for a node that was removed, however often
\* it is removed and approved again.  Only those that a failed switching on
\* left behind run beside them.
OneRelayEach ==
    LET live == (relays \cup {tasks[s].relay : s \in {s \in Slots : tasks[s].op # "none" /\ tasks[s].step = "relay"}}) \ cancelled
        r == reg[gen]
    IN  /\ live \ lost = (IF Going THEN {r.entries[id].relay : id \in Known(r)} ELSE {})
        /\ \A a, b \in Known(r) : r.entries[a].relay = r.entries[b].relay => a = b

\* A node is never both approved and waiting for it, and one that was removed
\* or dismissed isn't offered again, whatever was asked before.
NotOfferedAgain ==
    LET r == reg[gen]
    IN  \A id \in Offered(r) : id \notin Known(r) /\ r.found[id].key \notin r.ignored

\* The keys of all approved nodes are trusted.
PinnedAreKnown ==
    Going /\ gen = 1 => \A id \in Known(reg[gen]) : reg[gen].entries[id].key \in pins \cup {Unpinned}

\* Once the network and the operator rest, each approved node is listed with
\* what its address answers to the last check of it ...
Checked == \A id \in Known(reg[gen]) : LET e == reg[gen].entries[id] IN e.status = check(id, e.url, e.key)
\* ... and, if whoever answers goes on announcing itself, at the address where
\* its key does.  A single announcement may come before an approval that was
\* under way with the address it had.
Followed == \A id \in Known(reg[gen]), url \in Urls :
    LET e == reg[gen].entries[id] IN world[url].id = id /\ world[url].key = e.key => e.url = url
Announces(url) == []<>(on /\ world[url] # Nobody => tasks[url] # NoTask)
Converges ==
    /\ <>[](on => Checked)
    /\ (\A url \in Urls : Announces(url)) => <>[](on => Followed)
=============================================================================
