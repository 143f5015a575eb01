------------------------------- MODULE Access -------------------------------
(* The node's access token, pairing code and sign-in links: what the service  *)
(* holds in memory, what the database they are read from at its start holds,  *)
(* and the two other processes that write that database, the app opened from  *)
(* the desktop (a sign-in link) and the command that makes new ones (reset).  *)
(* A controller that changes its token changes it on its nodes first, each    *)
(* with the old token.  What a token or a code is made of, and pairing a node *)
(* again (Controller), are left out.                                          *)
EXTENDS Naturals, Sequences, FiniteSets

CONSTANTS
    Tokens,          \* tokens that people set
    Peers,           \* the controller's nodes
    Slots,           \* requests to the service under way at a time
    PairingAttempts, \* PAIRING_ATTEMPTS
    KeptLinks,       \* sign-in links kept, 8 in the code
    MaxCodes, MaxSecrets, MaxActs, MaxFaults    \* bounds

VARIABLES
    token, code,            \* AccessToken: the token, and Pairing [id, failures]
    stored, stored_code,    \* node_config's CONFIG_KEY and PAIRING_KEY
    links,                  \* node_config's LINKS_KEY: [secret, fresh], the oldest first
    tasks,                  \* what each request, and the app, is at
    peer_token,             \* the token each of the controller's nodes has
    codes, secrets,         \* pairing codes and links made so far
    signed_in,              \* how often each link has signed a browser in
    tries,                  \* wrong tries of each code since the service started
    behind,                 \* nodes someone was told may not follow this one's token
    loose,                  \* stores overlapped or were given up, or a reset waits for a restart
    acts, faults
vars == <<token, code, stored, stored_code, links, tasks, peer_token, codes, secrets, signed_in, tries,
          behind, loose, acts, faults>>

None == "none"
Made == "made"      \* the token a node makes itself
Reset == "reset"    \* a token the reset command makes
App == "app"        \* the other process that makes links
Actors == Slots \cup {App}
Codes == 1..MaxCodes
Secrets == 1..MaxSecrets
Idle == [kind |-> "idle", at |-> "done"]

At(a, at) == tasks[a].at = at
Goes(a, at) == tasks' = [tasks EXCEPT ![a].at = at]
Ends(a) == tasks' = [tasks EXCEPT ![a] = Idle]
Begins(a, task) == tasks[a] = Idle /\ acts < MaxActs /\ acts' = acts + 1 /\ tasks' = [tasks EXCEPT ![a] = task]
\* The database's write lock: each write waits for the transaction that has it.
CanWrite == ~\E a \in Actors : At(a, "commit")
DatabaseFails == faults < MaxFaults /\ faults' = faults + 1
Midway(a) == \E b \in Actors \ {a} : At(b, "set") \/ At(b, "set_code")

tokenVars == <<token, stored, peer_token, behind>>
codeVars == <<code, stored_code, codes, tries>>
linkVars == <<links, secrets, signed_in>>

----------------------------------------------------------------------------
(* Pairing: with the right code, the token a controller sends becomes ours    *)

Full == code.failures >= PairingAttempts
\* attempt, and where post_pair goes with what it says.
Attempt(a, right) ==
    /\ At(a, "attempt")
    /\ IF ~Full /\ right THEN Goes(a, "store") /\ UNCHANGED <<code, tries>>
       ELSE IF Full THEN Ends(a) /\ UNCHANGED <<code, tries>>
       ELSE /\ code' = [code EXCEPT !.failures = @ + 1]
            /\ tries' = [tries EXCEPT ![code.id] = @ + 1]
            /\ IF code.failures + 1 >= PairingAttempts THEN Goes(a, "renew") ELSE Ends(a)
    /\ UNCHANGED <<tokenVars, stored_code, codes, linkVars, loose, acts, faults>>

\* renew_pairing_code: the old code stays when the new one can't be stored.
renew_pairing_code(a) ==
    /\ At(a, "renew") /\ CanWrite
    /\ \/ /\ codes < MaxCodes /\ codes' = codes + 1 /\ stored_code' = codes'
          /\ tasks' = [tasks EXCEPT ![a] = [kind |-> "renewing", at |-> "set_code", code |-> codes']]
          /\ loose' = (loose \/ Midway(a)) /\ UNCHANGED faults
       \/ DatabaseFails /\ Ends(a) /\ UNCHANGED <<stored_code, codes, loose>>
    /\ UNCHANGED <<tokenVars, code, tries, linkVars, acts>>
set_pairing_code(a) ==
    /\ At(a, "set_code") /\ code' = [id |-> tasks[a].code, failures |-> 0]
    /\ Ends(a) /\ UNCHANGED <<tokenVars, stored_code, codes, tries, linkVars, loose, acts, faults>>

----------------------------------------------------------------------------
(* Changing the token                                                         *)

\* put_access_token asks each node, with the token had when the request came.
PeerAnswers(a, p) ==
    LET task == tasks[a]
        accepts == peer_token[p] = task.bearer
        Answers(failed) == tasks' = [tasks EXCEPT ![a].left = @ \ {p},
                ![a].at = IF task.left = {p} THEN "store" ELSE "peers",
                ![a].failed = IF failed THEN @ \cup {p} ELSE @]
    IN  /\ At(a, "peers") /\ p \in task.left
        /\ \/ accepts /\ peer_token' = [peer_token EXCEPT ![p] = task.token] /\ Answers(FALSE) /\ UNCHANGED faults
           \/ ~accepts /\ Answers(TRUE) /\ UNCHANGED <<peer_token, faults>>
           \/ /\ faults < MaxFaults /\ faults' = faults + 1 /\ Answers(TRUE)
              /\ peer_token' \in {peer_token} \cup
                    IF accepts THEN {[peer_token EXCEPT ![p] = task.token]} ELSE {}
        /\ UNCHANGED <<token, stored, behind, codeVars, linkVars, loose, acts>>

\* The nodes whoever asked was told of: those that failed, or all where only
\* this node's token changes or the request fails after they were asked.
Told(task, failed) == IF task.kind = "put" /\ ~failed THEN task.failed ELSE Peers
\* store: the database first, then memory.
store(a) ==
    /\ At(a, "store") /\ CanWrite
    /\ \/ /\ stored' = tasks[a].token /\ Goes(a, "set") /\ behind' = behind \cup Told(tasks[a], FALSE)
          /\ loose' = (loose \/ Midway(a)) /\ UNCHANGED faults
       \/ DatabaseFails /\ Ends(a) /\ behind' = behind \cup Told(tasks[a], TRUE) /\ UNCHANGED <<stored, loose>>
    /\ UNCHANGED <<token, peer_token, codeVars, linkVars, acts>>
set(a) ==
    /\ At(a, "set") /\ token' = tasks[a].token
    /\ IF tasks[a].kind = "pair" THEN Goes(a, "renew") ELSE Ends(a)
    /\ UNCHANGED <<stored, peer_token, behind, codeVars, linkVars, loose, acts, faults>>

\* A request may be given up at any await, its answer unseen.
RequestDropped(a) ==
    /\ tasks[a] # Idle /\ ~At(a, "commit") /\ faults < MaxFaults /\ faults' = faults + 1
    /\ loose' = (loose \/ At(a, "set") \/ At(a, "set_code"))
    /\ behind' = IF tasks[a].kind = "put" THEN Peers ELSE behind
    /\ Ends(a) /\ UNCHANGED <<token, stored, peer_token, codeVars, linkVars, acts>>

----------------------------------------------------------------------------
(* Sign-in links                                                              *)

Current(ls) == SelectSeq(ls, LAMBDA l : l.fresh)
LastOf(ls) == IF Len(ls) > KeptLinks THEN SubSeq(ls, Len(ls) - KeptLinks + 1, Len(ls)) ELSE ls
Holds(ls, secret) == \E i \in DOMAIN ls : ls[i].secret = secret
Without(ls, secret) == SelectSeq(ls, LAMBDA l : l.secret # secret)
\* mutant: a transaction that takes no write lock before it reads.
Deferred == TRUE
\* update_links begins with BEGIN IMMEDIATE: no other writes until it commits.
CanBegin == CanWrite
update_links(a) ==
    /\ At(a, "begin") /\ CanBegin
    /\ tasks' = [tasks EXCEPT ![a].at = "commit", ![a].read = Current(links)]
    /\ UNCHANGED <<tokenVars, codeVars, linkVars, loose, acts, faults>>
\* make_sign_in_link and take_sign_in_link, and get_sign_in_link's answer.
commit(a) ==
    LET task == tasks[a]
        there == Holds(task.read, task.secret)
    IN  /\ At(a, "commit") /\ Ends(a)
        /\ IF task.kind = "make"
           THEN /\ links' = LastOf(Append(task.read, [secret |-> task.secret, fresh |-> TRUE]))
                /\ UNCHANGED signed_in
           ELSE /\ links' = Without(task.read, task.secret)
                /\ signed_in' = IF there /\ token # None THEN [signed_in EXCEPT ![task.secret] = @ + 1] ELSE signed_in
        /\ UNCHANGED <<tokenVars, codeVars, secrets, loose, acts, faults>>
Expires(i) ==
    /\ links[i].fresh /\ links' = [links EXCEPT ![i].fresh = FALSE]
    /\ UNCHANGED <<tokenVars, codeVars, secrets, signed_in, tasks, loose, acts, faults>>

----------------------------------------------------------------------------
(* Requests, the app, the command and the service's start                     *)

\* Tokens set are not the one the node has: two changes at once, one of them
\* to the present token, may leave a node behind that neither lists.
Request(a) ==
    /\ token # None
    /\ \/ \E t \in Tokens \ {token} : Begins(a, [kind |-> "pair", at |-> "attempt", token |-> t])
       \/ \E t \in Tokens \ {token} : Begins(a, [kind |-> "put_node", at |-> "store", token |-> t])
       \/ \E t \in Tokens \ {token} : Begins(a, [kind |-> "put", at |-> "peers", token |-> t, bearer |-> token,
                                       left |-> Peers, failed |-> {}])
       \/ \E s \in 1..secrets : Begins(a, [kind |-> "open", at |-> "begin", secret |-> s, read |-> <<>>])
    /\ UNCHANGED <<tokenVars, codeVars, linkVars, loose, faults>>
\* The menu bar's link, or the app's once the service has stored its token.
MakesLink(a) ==
    /\ secrets < MaxSecrets /\ secrets' = secrets + 1 /\ stored # None
    /\ Begins(a, [kind |-> "make", at |-> "begin", secret |-> secrets', read |-> <<>>])
    /\ UNCHANGED <<tokenVars, codeVars, links, signed_in, loose, faults>>

\* run_command's reset: the service keeps what it has until it restarts.
reset ==
    /\ acts < MaxActs /\ acts' = acts + 1 /\ CanWrite /\ stored # None /\ codes < MaxCodes
    /\ stored' = Reset /\ codes' = codes + 1 /\ stored_code' = codes' /\ loose' = TRUE /\ behind' = Peers
    /\ UNCHANGED <<token, peer_token, code, tries, linkVars, tasks, faults>>

\* load reads what is stored, or makes it the first time the node starts.
load ==
    /\ token = None /\ CanWrite
    /\ stored' = IF stored = None THEN Made ELSE stored
    /\ token' = stored'
    /\ IF stored_code = 0 THEN codes < MaxCodes /\ codes' = codes + 1 /\ stored_code' = codes'
       ELSE UNCHANGED <<codes, stored_code>>
    /\ code' = [id |-> stored_code', failures |-> 0]
    /\ tries' = [c \in Codes |-> 0] /\ loose' = FALSE
    /\ UNCHANGED <<peer_token, behind, linkVars, tasks, acts, faults>>
\* The service stops: its requests and what it holds in memory are gone, and
\* a transaction it hasn't committed is rolled back.
Stops ==
    /\ token # None /\ faults < MaxFaults /\ faults' = faults + 1
    /\ token' = None /\ code' = [id |-> 0, failures |-> 0]
    /\ tasks' = [a \in Actors |-> IF a = App THEN tasks[a] ELSE Idle]
    /\ behind' = IF \E a \in Slots : tasks[a].kind = "put" THEN Peers ELSE behind
    /\ UNCHANGED <<stored, stored_code, codes, tries, peer_token, linkVars, loose, acts>>

Init ==
    /\ token = None /\ code = [id |-> 0, failures |-> 0] /\ stored = None /\ stored_code = 0 /\ links = <<>>
    /\ tasks = [a \in Actors |-> Idle] /\ peer_token = [p \in Peers |-> Made]
    /\ codes = 0 /\ secrets = 0 /\ signed_in = [s \in Secrets |-> 0] /\ tries = [c \in Codes |-> 0]
    /\ behind = {} /\ loose = FALSE /\ acts = 0 /\ faults = 0
Next ==
    \/ load \/ Stops \/ reset
    \/ \E a \in Slots : Request(a) \/ RequestDropped(a)
    \/ \E a \in Actors :
        \/ \E right \in BOOLEAN : Attempt(a, right)
        \/ renew_pairing_code(a) \/ set_pairing_code(a) \/ store(a) \/ set(a)
        \/ \E p \in Peers : PeerAnswers(a, p)
        \/ update_links(a) \/ commit(a) \/ MakesLink(a)
    \/ \E i \in DOMAIN links : Expires(i)
Spec == Init /\ [][Next]_vars

----------------------------------------------------------------------------
\* What memory and the database hold are tokens, codes and links.
TypeOK ==
    /\ token \in Tokens \cup {None, Made, Reset} /\ stored \in Tokens \cup {None, Made, Reset}
    /\ code.id \in 0..MaxCodes /\ code.failures \in 0..PairingAttempts /\ stored_code \in 0..MaxCodes
    /\ Len(links) <= KeptLinks /\ behind \subseteq Peers /\ loose \in BOOLEAN

\* A sign-in link signs one browser in, once, whatever other links the app
\* and other requests make and open at the same time.
LinksSignInOnce == \A s \in Secrets : signed_in[s] <= 1

\* A pairing code has at most PAIRING_ATTEMPTS wrong tries before it lets
\* nobody in, also while a new one is being stored or could not be.
CodesRunOut == \A c \in Codes : tries[c] <= PairingAttempts

\* The service answers by the token and the code that a restart would bring
\* back, whatever failed, except after stores that overlapped or were given
\* up midway and after a reset that still waits for a restart.
AsStored ==
    token # None /\ ~loose /\ (\A a \in Slots : tasks[a].at \notin {"set", "set_code"})
        => token = stored /\ code.id = stored_code

\* Once no change is under way, each of the controller's nodes takes the
\* controller's token, except those somebody was told of.
PeersFollow ==
    token # None /\ ~loose /\ (\A a \in Slots : tasks[a].kind \notin {"put", "pair", "put_node"})
        => \A p \in Peers \ behind : peer_token[p] = token
=============================================================================
