------------------------------ MODULE Screens ------------------------------
(* Screens picked through the desktop's portal (sources/portal.rs): the       *)
(* dialog that asks for one, what is kept of each source's choice, the build  *)
(* that opens it, and the task that saves the choices.  `choices` and         *)
(* `failed` are two locks: what holds one while it waits for the other has a  *)
(* step between them.                                                         *)
EXTENDS Naturals, FiniteSets, FiniteSetTheorems, TLAPS

CONSTANTS
    Sources,    \* sources that capture a screen through the portal
    Displays,   \* the node's screens
    MaxDialogs, \* dialogs opened
    MaxTokens,  \* restore tokens the desktop issues
    MaxDeletes, \* sources deleted
    MaxFaults   \* restarts of the node, requests dropped, screens that stop

VARIABLES
    rows,       \* the configured sources
    choices,    \* each source's token and generation
    pending,    \* sessions just chosen that no build has taken yet
    asking,     \* sources whose dialog is open, or about to be
    failed,     \* sources whose last choice failed
    lock,       \* who holds `choices` and `failed` for longer than a step
    dialogs,    \* each dialog asked for, and what came of it
    retains,    \* deletions on their way to forget what is not in a list
    changed,    \* the saver is notified
    saver,      \* the choices it is saving
    stored,     \* the choices saved
    signed_in,  \* there is a desktop
    honoured,   \* the restore tokens it honours
    issued,
    running,    \* the stream a source's monitor shows
    opening,    \* the token a build restores, off every lock
    restored,   \* the next one, when the desktop has used it
    rescan,     \* a scan is due
    lost,       \* tokens used of which the next was never kept or saved
    faults

kept == <<choices, pending, asking, failed, lock>>
desktop == <<signed_in, honoured, issued>>
builds == <<running, opening, restored, rescan>>
vars == <<rows, kept, dialogs, retains, changed, saver, stored, lost, desktop, builds, faults>>

Token == [display : Displays, n : 1..MaxTokens]
NoToken == [display |-> "none", n |-> 0]
NoChoice == [token |-> NoToken, generation |-> 0]
Free(l) == lock[l] = "none"
Issue(display) == [display |-> display, n |-> issued + 1]
Fault == faults < MaxFaults /\ faults' = faults + 1

----------------------------------------------------------------------------
(* The dialog *)

\* The request marks the dialog open and rescans, so a failed source tells ...
begin_choice(s) ==
    /\ s \in rows \ asking /\ signed_in
    /\ \E d \in 1..MaxDialogs :
        /\ dialogs[d].at = "none" /\ \A e \in 1..(d - 1) : dialogs[e].at # "none"
        /\ dialogs' = [dialogs EXCEPT ![d] = [source |-> s, at |-> "begun", token |-> NoToken]]
    /\ asking' = asking \cup {s}
    /\ rescan' = TRUE
    /\ UNCHANGED <<rows, choices, pending, failed, lock, retains, changed, saver, stored, lost, desktop, running, opening, restored, faults>>

Dialog(d, from, to) == dialogs[d].at = from /\ dialogs' = [dialogs EXCEPT ![d].at = to]

\* ... and a task of its own opens the dialog.
choose(d) ==
    /\ Dialog(d, "begun", "open")
    /\ UNCHANGED <<rows, kept, retains, changed, saver, stored, lost, desktop, builds, faults>>

\* The client goes away while its request rescans: no dialog opens.
RequestDropped(d) ==
    /\ Dialog(d, "begun", "over") /\ Fault
    /\ UNCHANGED <<rows, kept, retains, changed, saver, stored, lost, desktop, builds>>

\* Someone picks a screen, or nobody does in time.
Answered(d) ==
    /\ \/ \E display \in Displays :
            /\ issued < MaxTokens
            /\ dialogs[d].at = "open"
            /\ dialogs' = [dialogs EXCEPT ![d] = [dialogs[d] EXCEPT !.at = "answered", !.token = Issue(display)]]
            /\ honoured' = honoured \cup {Issue(display)} /\ issued' = issued + 1
       \/ Dialog(d, "open", "answered") /\ UNCHANGED <<honoured, issued>>
    /\ asking' = asking \ {dialogs[d].source}
    /\ UNCHANGED <<rows, choices, pending, failed, lock, retains, changed, saver, stored, lost, signed_in, builds, faults>>

\* end_choice takes `failed` and, with a session, `choices` while it holds it.
end_choice(d) ==
    LET s == dialogs[d].source IN
    /\ Free("failed")
    /\ \/ /\ dialogs[d].token = NoToken
          /\ Dialog(d, "answered", "over")
          /\ failed' = failed \cup {s} /\ rescan' = TRUE
          /\ UNCHANGED lock
       \/ /\ dialogs[d].token # NoToken
          /\ Dialog(d, "answered", "chosen")
          /\ failed' = failed \ {s}
          /\ lock' = [lock EXCEPT !.failed = "dialog"]
          /\ UNCHANGED rescan
    /\ UNCHANGED <<rows, choices, pending, asking, retains, changed, saver, stored, lost, desktop, running, opening, restored, faults>>

\* The last step of end_choice and the rescan after it.
chosen(d) ==
    LET s == dialogs[d].source IN
    /\ Dialog(d, "chosen", "over") /\ Free("choices")
    /\ choices' = [choices EXCEPT ![s] = [token |-> dialogs[d].token, generation |-> @.generation + 1]]
    /\ pending' = [pending EXCEPT ![s] = dialogs[d].token]
    /\ changed' = TRUE
    /\ lock' = [lock EXCEPT !.failed = "none"]
    /\ rescan' = TRUE
    /\ UNCHANGED <<rows, asking, failed, retains, saver, stored, lost, desktop, running, opening, restored, faults>>

----------------------------------------------------------------------------
(* Deletion *)

\* The rows left are listed, then what is of no source in the list goes: the
\* choices and sessions first, and with `choices` held, the failures.
delete_configured_source(s) ==
    /\ s \in rows /\ Cardinality(Sources \ rows) < MaxDeletes /\ retains = {}
    /\ rows' = rows \ {s}
    /\ retains' = {rows'}
    /\ UNCHANGED <<kept, dialogs, changed, saver, stored, lost, desktop, builds, faults>>

retain ==
    /\ Free("choices") /\ retains # {}
    /\ \E list \in retains :
        /\ choices' = [s \in Sources |-> IF s \in list THEN choices[s] ELSE NoChoice]
        /\ pending' = [s \in Sources |-> IF s \in list THEN pending[s] ELSE NoToken]
        /\ lock' = [lock EXCEPT !.choices = IF choices' = choices THEN "retain" ELSE "forgets"]
    /\ UNCHANGED <<rows, asking, failed, dialogs, retains, changed, saver, stored, lost, desktop, builds, faults>>

retained ==
    /\ ~Free("choices") /\ Free("failed")
    /\ \E list \in retains : failed' = failed \cap list
    /\ retains' = {} /\ rescan' = TRUE
    /\ changed' = (changed \/ lock.choices = "forgets")
    /\ lock' = [lock EXCEPT !.choices = "none"]
    /\ UNCHANGED <<rows, choices, pending, asking, dialogs, saver, stored, lost, desktop, running, opening, restored, faults>>

----------------------------------------------------------------------------
(* Builds *)

\* Both sides of a scan's comparison read the choices there are now.
fingerprint(s) == choices[s].generation
Keeps(s) == running[s] # NoToken /\ fingerprint(s) = fingerprint(s)

\* A scan keeps what is as configured and rebuilds the rest: with the session
\* just chosen, or one restored from the token.  Without either, it fails.
Scan ==
    /\ rescan /\ Free("choices") /\ \A s \in Sources : opening[s] = NoToken
    /\ rescan' = FALSE
    /\ LET built == {s \in rows : ~Keeps(s)} IN
        /\ running' = [s \in Sources |-> IF s \in built THEN pending[s] ELSE IF s \in rows THEN running[s] ELSE NoToken]
        /\ pending' = [s \in Sources |-> IF s \in built THEN NoToken ELSE pending[s]]
        /\ opening' = [s \in Sources |-> IF s \in built /\ pending[s] = NoToken /\ signed_in THEN choices[s].token ELSE NoToken]
    /\ UNCHANGED <<rows, choices, asking, failed, lock, dialogs, retains, changed, saver, stored, lost, desktop, restored, faults>>

\* What a start leaves for the next: its token, which is another.
Unchanged(s, token) ==      \* mutant: the next token is not kept
    UNCHANGED <<choices, changed>>
set_token(s, token) ==
    /\ choices' = [choices EXCEPT ![s].token = token]
    /\ changed' = TRUE

\* The desktop restores the session, which uses the token up.  Of one it honours
\* no more it asks, and someone may pick a screen before the build gives up.
restore(s) ==
    /\ opening[s] # NoToken /\ restored[s] = NoToken /\ issued < MaxTokens
    /\ \E display \in Displays :
        /\ opening[s] \in honoured => display = opening[s].display
        /\ restored' = [restored EXCEPT ![s] = Issue(display)]
        /\ honoured' = (honoured \ {opening[s]}) \cup {Issue(display)}
    /\ issued' = issued + 1
    /\ UNCHANGED <<rows, kept, dialogs, retains, changed, saver, stored, lost, signed_in, running, opening, rescan, faults>>

Ends(s) == opening' = [opening EXCEPT ![s] = NoToken] /\ restored' = [restored EXCEPT ![s] = NoToken]

\* No answer in time, no screen shared, or its stream doesn't open: the next
\* token goes with the build, and it is tried again with the one there was.
restore_fails(s) ==
    /\ opening[s] # NoToken
    /\ Ends(s)
    /\ lost' = IF restored[s] = NoToken THEN lost ELSE lost \cup {opening[s]}
    /\ rescan' = TRUE
    /\ UNCHANGED <<rows, kept, dialogs, retains, changed, saver, stored, desktop, running, faults>>

\* The build goes on, and its next token is kept.
open(s) ==
    /\ restored[s] # NoToken /\ Free("choices")
    /\ set_token(s, restored[s])
    /\ running' = [running EXCEPT ![s] = restored[s]]
    /\ Ends(s)
    /\ UNCHANGED <<rows, pending, asking, failed, lock, dialogs, retains, saver, stored, lost, desktop, rescan, faults>>

\* A monitor fails, which a rescan finds.
ScreenStops(s) ==
    /\ running[s] # NoToken /\ Fault
    /\ running' = [running EXCEPT ![s] = NoToken]
    /\ rescan' = TRUE
    /\ UNCHANGED <<rows, kept, dialogs, retains, changed, saver, stored, lost, desktop, opening, restored>>

SignsIn ==
    /\ ~signed_in /\ signed_in' = TRUE
    /\ rescan' = TRUE       \* as one comes for failed sources
    /\ UNCHANGED <<rows, kept, dialogs, retains, changed, saver, stored, lost, honoured, issued, running, opening, restored, faults>>

----------------------------------------------------------------------------
(* Saving *)

\* The saver takes its notification, then the choices there are.
Woken ==
    /\ changed /\ saver = {} /\ Free("choices")
    /\ changed' = FALSE /\ saver' = {choices}
    /\ UNCHANGED <<rows, kept, dialogs, retains, stored, lost, desktop, builds, faults>>

screencasts_set ==
    /\ saver # {} /\ saver' = {}
    /\ stored' = CHOOSE all \in saver : TRUE
    /\ UNCHANGED <<rows, kept, dialogs, retains, changed, lost, desktop, builds, faults>>

\* The node goes down and starts on the choices saved.
Restart ==
    /\ Fault
    /\ lost' = lost \cup {stored[s].token : s \in {r \in Sources : stored[r].token # choices[r].token \/ restored[r] # NoToken}}
    /\ choices' = stored
    /\ pending' = [s \in Sources |-> NoToken] /\ asking' = {} /\ failed' = {}
    /\ lock' = [choices |-> "none", failed |-> "none"]
    /\ dialogs' = [d \in 1..MaxDialogs |-> IF dialogs[d].at = "none" THEN dialogs[d] ELSE [dialogs[d] EXCEPT !.at = "over"]]
    /\ retains' = {} /\ changed' = FALSE /\ saver' = {}
    /\ running' = [s \in Sources |-> NoToken] /\ opening' = running' /\ restored' = running' /\ rescan' = TRUE
    /\ UNCHANGED <<rows, stored, desktop>>

----------------------------------------------------------------------------
Init ==
    /\ rows = Sources
    /\ choices = [s \in Sources |-> NoChoice] /\ stored = choices
    /\ pending = [s \in Sources |-> NoToken] /\ running = pending /\ opening = pending /\ restored = pending
    /\ asking = {} /\ failed = {} /\ lock = [choices |-> "none", failed |-> "none"]
    /\ dialogs = [d \in 1..MaxDialogs |-> [source |-> CHOOSE s \in Sources : TRUE, at |-> "none", token |-> NoToken]]
    /\ retains = {} /\ changed = FALSE /\ saver = {} /\ lost = {}
    /\ signed_in = FALSE /\ honoured = {} /\ issued = 0
    /\ rescan = TRUE /\ faults = 0

Next ==
    \/ \E s \in Sources : begin_choice(s) \/ delete_configured_source(s) \/ ScreenStops(s)
    \/ \E s \in Sources : restore(s) \/ restore_fails(s) \/ open(s)
    \/ \E d \in 1..MaxDialogs : choose(d) \/ RequestDropped(d) \/ Answered(d) \/ end_choice(d) \/ chosen(d)
    \/ retain \/ retained \/ Scan \/ SignsIn \/ Woken \/ screencasts_set \/ Restart

\* Locks are handed on, tasks and scans go on, and a restore ends, if only by
\* its timeout; nobody has to answer a dialog.
Fairness ==
    /\ \A s \in Sources : WF_vars(restore(s) \/ restore_fails(s)) /\ WF_vars(open(s))
    /\ \A d \in 1..MaxDialogs : WF_vars(choose(d)) /\ WF_vars(end_choice(d)) /\ WF_vars(chosen(d))
    /\ WF_vars(retain) /\ WF_vars(retained) /\ WF_vars(Scan) /\ WF_vars(Woken) /\ WF_vars(screencasts_set)
Spec == Init /\ [][Next]_vars /\ Fairness

----------------------------------------------------------------------------
TypeOK ==
    /\ rows \subseteq Sources /\ asking \subseteq Sources /\ failed \subseteq Sources
    /\ choices \in [Sources -> [token : Token \cup {NoToken}, generation : 0..MaxDialogs]]
    /\ stored \in [Sources -> [token : Token \cup {NoToken}, generation : 0..MaxDialogs]]
    /\ pending \in [Sources -> Token \cup {NoToken}]
    /\ running \in [Sources -> Token \cup {NoToken}]
    /\ opening \in [Sources -> Token \cup {NoToken}] /\ restored \in [Sources -> Token \cup {NoToken}]
    /\ lock.choices \in {"none", "retain", "forgets"} /\ lock.failed \in {"none", "dialog"}
    /\ honoured \subseteq Token

\* A change of a choice is saved, or on its way to be: notified, being saved,
\* or about to be notified by who holds the lock.
ChangesAreSaved ==
    stored = choices \/ changed \/ choices \in saver \/ lock.choices = "forgets"

\* Only one dialog for a source is on the node's display.
OneDialogEach ==
    \A d, e \in 1..MaxDialogs :
        dialogs[d].at = "open" /\ dialogs[e].at = "open" /\ dialogs[d].source = dialogs[e].source => d = e

\* A source's next build is restored without a dialog: the token kept is one
\* the desktop still honours.  Or it is being used, by the source's own build,
\* which has the next one to keep; or it is lost: used by a restore that then
\* failed, or by one of which the node went down before the next was saved.
Used(s) == restored[s] # NoToken /\ choices[s].token = opening[s]
TokenIsHonoured ==
    \A s \in Sources : choices[s].token # NoToken /\ choices[s].token \notin lost /\ ~Used(s) => choices[s].token \in honoured

\* "Its session is used by the next build, which the new generation makes
\* happen" (portal.rs:116): a session chosen does not wait for ever.
ChosenIsUsed == \A s \in Sources : pending[s] # NoToken ~> pending[s] = NoToken

\* "Forget sources that no longer exist" (portal.rs:166): a deletion that has
\* begun to forget comes to its end.
ForgettingEnds == ~Free("choices") ~> Free("choices")

----------------------------------------------------------------------------
(* The dialogs and tokens, proved: for any sources, screens and counts *)

\* What the proofs ask of the constants.
Counted == MaxDialogs \in Nat /\ MaxTokens \in Nat

Stages == {"none", "begun", "open", "answered", "chosen", "over"}
Choice == [token : Token \cup {NoToken}, generation : Nat]
IsDialog(g) ==
    /\ DOMAIN g = {"source", "at", "token"} /\ g.at \in Stages /\ g.token \in Token \cup {NoToken}
    /\ g.at # "none" => g.source \in Sources
    /\ g.at \in {"none", "begun", "open"} => g.token = NoToken

DialogsTyped == DOMAIN dialogs = 1..MaxDialogs /\ \A d \in 1..MaxDialogs : IsDialog(dialogs[d])
KeptTyped ==
    /\ choices \in [Sources -> Choice] /\ stored \in [Sources -> Choice]
    /\ saver = {} \/ \E c \in [Sources -> Choice] : saver = {c}
    /\ DOMAIN lock = {"choices", "failed"}
    /\ lock.choices \in {"none", "retain", "forgets"} /\ lock.failed \in {"none", "dialog"}
Typed ==
    /\ rows \subseteq Sources /\ asking \subseteq Sources /\ failed \subseteq Sources
    /\ pending \in [Sources -> Token \cup {NoToken}]
    /\ running \in [Sources -> Token \cup {NoToken}]
    /\ opening \in [Sources -> Token \cup {NoToken}] /\ restored \in [Sources -> Token \cup {NoToken}]
    /\ honoured \subseteq Token /\ issued \in Nat
    /\ DialogsTyped /\ KeptTyped

\* A generation counts choices: of no more dialogs than are over.
Over == {d \in 1..MaxDialogs : dialogs[d].at = "over"}
CountsChoices(c) == \A s \in Sources : c[s].generation <= Cardinality(Over)
Generations == CountsChoices(choices) /\ CountsChoices(stored) /\ \A c \in saver : CountsChoices(c)

\* What is being saved is what there is, unless another change is to come.
SaverIsLast == changed \/ lock.choices = "forgets" \/ (saver = {} /\ stored = choices) \/ choices \in saver

\* A source whose dialog is open, or is about to be, is asking, and has no other.
Asks(d) == dialogs[d].at \in {"begun", "open"}
AskingHasOne ==
    /\ \A d \in 1..MaxDialogs : Asks(d) => dialogs[d].source \in asking
    /\ \A d, e \in 1..MaxDialogs : Asks(d) /\ Asks(e) /\ dialogs[d].source = dialogs[e].source => d = e

\* Wherever a source's token may come back from.
Holds(s, t) ==
    \/ choices[s].token = t \/ stored[s].token = t \/ opening[s] = t \/ restored[s] = t
    \/ \E c \in saver : c[s].token = t
    \/ \E d \in 1..MaxDialogs : dialogs[d].at # "none" /\ dialogs[d].source = s /\ dialogs[d].token = t
HeldWasIssued == \A s \in Sources, t \in Token : Holds(s, t) => t.n <= issued
HeldByOne == \A s, r \in Sources, t \in Token : Holds(s, t) /\ Holds(r, t) => s = r

\* A token just chosen is nobody's yet, and no build's.
Live(d) == dialogs[d].at \in {"answered", "chosen"} /\ dialogs[d].token # NoToken
LiveIsOwn ==
    \A d \in 1..MaxDialogs : Live(d) =>
        /\ dialogs[d].token \in honoured
        /\ \A s \in Sources : dialogs[d].token \notin {choices[s].token, opening[s], restored[s]}
        /\ \A e \in 1..MaxDialogs : Live(e) /\ dialogs[e].token = dialogs[d].token => d = e

\* What a build has to keep is honoured.
NextIsHonoured == \A s \in Sources : restored[s] # NoToken => restored[s] \in honoured /\ opening[s] # NoToken

IInv ==
    /\ Typed /\ Generations /\ SaverIsLast /\ AskingHasOne
    /\ HeldWasIssued /\ HeldByOne /\ LiveIsOwn /\ NextIsHonoured /\ TokenIsHonoured

----------------------------------------------------------------------------
(* Typed stays *)

LEMMA NoTokenIsNone == NoToken \notin Token /\ \A t \in Token : t # NoToken /\ t.n \in Nat
BY DEF NoToken, Token

\* A dialog goes on, and the others stay as they are.
LEMMA DialogGoes ==
    ASSUME DialogsTyped, NEW d \in 1..MaxDialogs, NEW from, NEW to \in {"open", "answered", "chosen", "over"},
           Dialog(d, from, to), from # "none", to = "open" => dialogs[d].token = NoToken
    PROVE  /\ DialogsTyped'
           /\ dialogs[d].at = from /\ dialogs'[d].at = to /\ dialogs[d].source \in Sources
           /\ dialogs'[d].source = dialogs[d].source /\ dialogs'[d].token = dialogs[d].token
           /\ \A e \in 1..MaxDialogs : e # d => dialogs'[e] = dialogs[e]
<1>1. IsDialog(dialogs[d]) /\ d \in DOMAIN dialogs BY DEF DialogsTyped
<1>2. dialogs[d].at = from /\ dialogs' = [dialogs EXCEPT ![d] = [dialogs[d] EXCEPT !.at = to]]
  BY DEF Dialog
<1> DEFINE new == [dialogs[d] EXCEPT !.at = to]
<1>3. /\ DOMAIN new = {"source", "at", "token"} /\ new.at = to
      /\ new.source = dialogs[d].source /\ new.token = dialogs[d].token
  BY <1>1 DEF IsDialog
<1>4. IsDialog(new)
  BY <1>1, <1>2, <1>3 DEF IsDialog, Stages
<1> HIDE DEF new
<1>5. dialogs' = [dialogs EXCEPT ![d] = new] BY <1>2 DEF new
<1>6. /\ dialogs'[d] = new /\ DOMAIN dialogs' = 1..MaxDialogs
      /\ \A e \in 1..MaxDialogs : e # d => dialogs'[e] = dialogs[e]
  BY <1>5 DEF DialogsTyped
<1>7. DialogsTyped' BY <1>4, <1>6 DEF DialogsTyped
<1>8. dialogs[d].source \in Sources BY <1>1, <1>2 DEF IsDialog
<1> QED BY <1>2, <1>3, <1>6, <1>7, <1>8

\* A request's dialog, and one that is answered.
LEMMA DialogIsNew ==
    ASSUME DialogsTyped, NEW d \in 1..MaxDialogs, NEW new, IsDialog(new), dialogs' = [dialogs EXCEPT ![d] = new]
    PROVE  DialogsTyped' /\ dialogs'[d] = new /\ \A e \in 1..MaxDialogs : e # d => dialogs'[e] = dialogs[e]
BY DEF DialogsTyped

LEMMA Begins ==
    ASSUME Typed, NEW s \in Sources, begin_choice(s)
    PROVE  \E d \in 1..MaxDialogs :
              /\ dialogs[d].at = "none" /\ dialogs'[d] = [source |-> s, at |-> "begun", token |-> NoToken]
              /\ DialogsTyped' /\ \A e \in 1..MaxDialogs : e # d => dialogs'[e] = dialogs[e]
<1>1. PICK d \in 1..MaxDialogs :
        dialogs[d].at = "none" /\ dialogs' = [dialogs EXCEPT ![d] = [source |-> s, at |-> "begun", token |-> NoToken]]
  BY DEF begin_choice
<1>2. PICK new : new = [source |-> s, at |-> "begun", token |-> NoToken] OBVIOUS
<1>3. IsDialog(new)
  BY <1>2 DEF IsDialog, Stages
<1>4. DialogsTyped BY DEF Typed
<1>5. dialogs' = [dialogs EXCEPT ![d] = new] BY <1>1, <1>2
<1>6. DialogsTyped' /\ dialogs'[d] = new /\ \A e \in 1..MaxDialogs : e # d => dialogs'[e] = dialogs[e]
  BY <1>3, <1>4, <1>5, DialogIsNew
<1> QED BY <1>1, <1>2, <1>6

LEMMA IssueIsToken ==
    ASSUME Counted, Typed, issued < MaxTokens, NEW display \in Displays
    PROVE  Issue(display) \in Token /\ Issue(display) # NoToken /\ Issue(display).n = issued + 1
<1>1. issued \in Nat /\ MaxTokens \in Nat BY DEF Typed, Counted
<1>2. issued + 1 \in 1..MaxTokens BY <1>1
<1>3. Issue(display) \in Token BY <1>2 DEF Issue, Token
<1> QED BY <1>3, NoTokenIsNone DEF Issue

LEMMA AnsweredDoes ==
    ASSUME Counted, Typed, NEW d \in 1..MaxDialogs, Answered(d)
    PROVE  /\ DialogsTyped' /\ dialogs[d].at = "open" /\ dialogs'[d].at = "answered"
           /\ dialogs[d].source \in Sources /\ dialogs'[d].source = dialogs[d].source
           /\ \A e \in 1..MaxDialogs : e # d => dialogs'[e] = dialogs[e]
           /\ \/ dialogs'[d].token = NoToken /\ UNCHANGED <<honoured, issued>>
              \/ \E t \in Token : /\ dialogs'[d].token = t /\ t.n = issued + 1 /\ issued' = issued + 1
                                  /\ honoured' = honoured \cup {t}
<1>0. DialogsTyped /\ IsDialog(dialogs[d]) BY DEF Typed, DialogsTyped
<1>1. CASE Dialog(d, "open", "answered") /\ UNCHANGED <<honoured, issued>>
  <2>1. dialogs[d].at = "open" BY <1>1 DEF Dialog
  <2>2. dialogs[d].token = NoToken BY <1>0, <2>1 DEF IsDialog
  <2> QED BY <1>0, <1>1, <2>2, DialogGoes
<1>2. CASE ~(Dialog(d, "open", "answered") /\ UNCHANGED <<honoured, issued>>)
  <2>1. PICK display \in Displays :
          /\ issued < MaxTokens /\ dialogs[d].at = "open"
          /\ dialogs' = [dialogs EXCEPT ![d] = [dialogs[d] EXCEPT !.at = "answered", !.token = Issue(display)]]
          /\ honoured' = honoured \cup {Issue(display)} /\ issued' = issued + 1
    BY <1>2 DEF Answered
  <2>2. PICK t \in Token : t = Issue(display) /\ t.n = issued + 1 BY <2>1, IssueIsToken
  <2>3. PICK new : new = [dialogs[d] EXCEPT !.at = "answered", !.token = t] OBVIOUS
  <2>4. /\ DOMAIN new = {"source", "at", "token"} /\ new.at = "answered" /\ new.token = t
        /\ new.source = dialogs[d].source
    BY <1>0, <2>3 DEF IsDialog
  <2>5. dialogs[d].source \in Sources BY <1>0, <2>1 DEF IsDialog
  <2>6. IsDialog(new) BY <2>4, <2>5 DEF IsDialog, Stages
  <2>7. dialogs' = [dialogs EXCEPT ![d] = new] BY <2>1, <2>2, <2>3
  <2>8. DialogsTyped' /\ dialogs'[d] = new /\ \A e \in 1..MaxDialogs : e # d => dialogs'[e] = dialogs[e]
    BY <1>0, <2>6, <2>7, DialogIsNew
  <2> QED BY <2>1, <2>2, <2>4, <2>5, <2>8
<1> QED BY <1>1, <1>2

\* What the last step of a choice does to the choices.
LEMMA ChosenDoes ==
    ASSUME Typed, NEW d \in 1..MaxDialogs, chosen(d)
    PROVE  /\ DialogsTyped' /\ dialogs[d].at = "chosen" /\ dialogs'[d].at = "over"
           /\ dialogs[d].source \in Sources /\ dialogs'[d].source = dialogs[d].source
           /\ dialogs[d].token \in Token \cup {NoToken} /\ dialogs'[d].token = dialogs[d].token
           /\ \A e \in 1..MaxDialogs : e # d => dialogs'[e] = dialogs[e]
           /\ choices' \in [Sources -> Choice]
           /\ choices'[dialogs[d].source].token = dialogs[d].token
           /\ choices'[dialogs[d].source].generation = choices[dialogs[d].source].generation + 1
           /\ \A s \in Sources : s # dialogs[d].source => choices'[s] = choices[s]
<1>0. DialogsTyped /\ IsDialog(dialogs[d]) BY DEF Typed, DialogsTyped
<1>1. Dialog(d, "chosen", "over") BY DEF chosen
<1>2. /\ DialogsTyped' /\ dialogs[d].at = "chosen" /\ dialogs'[d].at = "over" /\ dialogs[d].source \in Sources
      /\ dialogs'[d].source = dialogs[d].source /\ dialogs'[d].token = dialogs[d].token
      /\ \A e \in 1..MaxDialogs : e # d => dialogs'[e] = dialogs[e]
  BY <1>0, <1>1, DialogGoes
<1>3. PICK s \in Sources : s = dialogs[d].source BY <1>2
<1>4. dialogs[d].token \in Token \cup {NoToken} BY <1>0 DEF IsDialog
<1>5. choices \in [Sources -> Choice] /\ choices[s] \in Choice BY <1>3 DEF Typed, KeptTyped
<1>6. choices' = [choices EXCEPT ![s] = [token |-> dialogs[d].token, generation |-> choices[s].generation + 1]]
  BY <1>3 DEF chosen
<1>7. [token |-> dialogs[d].token, generation |-> choices[s].generation + 1] \in Choice
  BY <1>4, <1>5 DEF Choice
<1>8. /\ choices' \in [Sources -> Choice] /\ choices'[s].token = dialogs[d].token
      /\ choices'[s].generation = choices[s].generation + 1
      /\ \A r \in Sources : r # s => choices'[r] = choices[r]
  BY <1>3, <1>5, <1>6, <1>7
<1> QED BY <1>2, <1>3, <1>4, <1>8

\* A restore has the next token, which nobody held.
LEMMA RestoreDoes ==
    ASSUME Counted, Typed, NEW s \in Sources, restore(s)
    PROVE  /\ opening[s] \in Token /\ opening' = opening /\ restored[s] = NoToken
           /\ \E t \in Token :
                /\ t.n = issued + 1 /\ issued' = issued + 1
                /\ honoured' = (honoured \ {opening[s]}) \cup {t}
                /\ restored' \in [Sources -> Token \cup {NoToken}]
                /\ restored'[s] = t /\ \A r \in Sources : r # s => restored'[r] = restored[r]
<1>1. /\ opening \in [Sources -> Token \cup {NoToken}] /\ restored \in [Sources -> Token \cup {NoToken}]
      /\ opening[s] # NoToken /\ restored[s] = NoToken /\ opening' = opening
  BY DEF Typed, restore
<1>2. PICK display \in Displays :
        /\ restored' = [restored EXCEPT ![s] = Issue(display)]
        /\ honoured' = (honoured \ {opening[s]}) \cup {Issue(display)}
  BY DEF restore
<1>3. issued < MaxTokens /\ issued' = issued + 1 BY DEF restore
<1>4. PICK t \in Token : t = Issue(display) /\ t.n = issued + 1 BY <1>3, IssueIsToken
<1>5. /\ restored' \in [Sources -> Token \cup {NoToken}]
      /\ restored'[s] = t /\ \A r \in Sources : r # s => restored'[r] = restored[r]
  BY <1>1, <1>2, <1>4
<1> QED BY <1>1, <1>2, <1>3, <1>4, <1>5

LEMMA EndsDoes ==
    ASSUME Typed, NEW s \in Sources, Ends(s)
    PROVE  /\ opening' \in [Sources -> Token \cup {NoToken}] /\ restored' \in [Sources -> Token \cup {NoToken}]
           /\ opening'[s] = NoToken /\ restored'[s] = NoToken
           /\ \A r \in Sources : r # s => opening'[r] = opening[r] /\ restored'[r] = restored[r]
BY DEF Ends, Typed

\* A build that ends well keeps the next token.
LEMMA OpenDoes ==
    ASSUME Typed, NEW s \in Sources, open(s)
    PROVE  /\ Ends(s) /\ restored[s] \in Token /\ changed' = TRUE
           /\ running' \in [Sources -> Token \cup {NoToken}]
           /\ choices' \in [Sources -> Choice]
           /\ choices'[s].token = restored[s] /\ choices'[s].generation = choices[s].generation
           /\ \A r \in Sources : r # s => choices'[r] = choices[r]
<1>1. /\ restored \in [Sources -> Token \cup {NoToken}] /\ running \in [Sources -> Token \cup {NoToken}]
      /\ choices \in [Sources -> Choice]
  BY DEF Typed, KeptTyped
<1>2. restored[s] # NoToken /\ Ends(s) /\ changed' = TRUE BY DEF open, set_token
<1>3. PICK t \in Token : t = restored[s] BY <1>1, <1>2
<1>4. running' = [running EXCEPT ![s] = t] /\ choices' = [choices EXCEPT ![s].token = t]
  BY <1>3 DEF open, set_token
<1>5. running' \in [Sources -> Token \cup {NoToken}] BY <1>1, <1>4
<1>6. PICK new : new = [choices[s] EXCEPT !.token = t] OBVIOUS
<1>7. choices[s] \in Choice BY <1>1
<1>8. new \in Choice /\ new.token = t /\ new.generation = choices[s].generation
  BY <1>6, <1>7 DEF Choice
<1>9. choices' = [choices EXCEPT ![s] = new] BY <1>4, <1>6
<1>10. /\ choices' \in [Sources -> Choice]
       /\ choices'[s].token = t /\ choices'[s].generation = choices[s].generation
       /\ \A r \in Sources : r # s => choices'[r] = choices[r]
  BY <1>1, <1>8, <1>9
<1> QED BY <1>2, <1>3, <1>5, <1>10

LEMMA RetainDoes ==
    ASSUME Typed, retain
    PROVE  /\ choices' \in [Sources -> Choice] /\ pending' \in [Sources -> Token \cup {NoToken}]
           /\ \A s \in Sources : choices'[s] = choices[s] \/ choices'[s] = NoChoice
           /\ lock.choices = "none" /\ KeptTyped'
           /\ lock'.choices = "forgets" \/ (lock'.choices = "retain" /\ choices' = choices)
<1>1. PICK list \in retains :
        /\ choices' = [s \in Sources |-> IF s \in list THEN choices[s] ELSE NoChoice]
        /\ pending' = [s \in Sources |-> IF s \in list THEN pending[s] ELSE NoToken]
        /\ lock' = [lock EXCEPT !.choices = IF choices' = choices THEN "retain" ELSE "forgets"]
  BY DEF retain
<1>2. NoChoice \in Choice BY DEF NoChoice, Choice
<1>3. choices \in [Sources -> Choice] /\ pending \in [Sources -> Token \cup {NoToken}]
  BY DEF Typed, KeptTyped
<1>4. choices' \in [Sources -> Choice] BY <1>1, <1>2, <1>3
<1>5. pending' \in [Sources -> Token \cup {NoToken}] BY <1>1, <1>3
<1>6. \A s \in Sources : choices'[s] = choices[s] \/ choices'[s] = NoChoice BY <1>1
<1>7. lock.choices = "none" /\ UNCHANGED <<stored, saver>> BY DEF retain, Free
<1>8. DOMAIN lock = {"choices", "failed"} /\ lock.failed \in {"none", "dialog"} BY DEF Typed, KeptTyped
<1>9. /\ DOMAIN lock' = {"choices", "failed"} /\ lock'.failed = lock.failed
      /\ lock'.choices = IF choices' = choices THEN "retain" ELSE "forgets"
  BY <1>1, <1>8
<1>10. KeptTyped' BY <1>4, <1>7, <1>8, <1>9 DEF KeptTyped, Typed
<1> QED BY <1>4, <1>5, <1>6, <1>7, <1>9, <1>10

LEMMA ScanDoes ==
    ASSUME Typed, Scan
    PROVE  /\ running' \in [Sources -> Token \cup {NoToken}] /\ pending' \in [Sources -> Token \cup {NoToken}]
           /\ opening' \in [Sources -> Token \cup {NoToken}]
           /\ \A s \in Sources : opening'[s] = choices[s].token \/ opening'[s] = NoToken
<1>1. PICK built : built = {s \in rows : ~Keeps(s)} OBVIOUS
<1>2. /\ running' = [s \in Sources |-> IF s \in built THEN pending[s] ELSE IF s \in rows THEN running[s] ELSE NoToken]
      /\ pending' = [s \in Sources |-> IF s \in built THEN NoToken ELSE pending[s]]
      /\ opening' = [s \in Sources |-> IF s \in built /\ pending[s] = NoToken /\ signed_in THEN choices[s].token ELSE NoToken]
  BY <1>1 DEF Scan
<1>3. /\ pending \in [Sources -> Token \cup {NoToken}] /\ running \in [Sources -> Token \cup {NoToken}]
      /\ \A s \in Sources : choices[s].token \in Token \cup {NoToken}
  BY DEF Typed, KeptTyped, Choice
<1>4. running' \in [Sources -> Token \cup {NoToken}] BY <1>2, <1>3
<1>5. pending' \in [Sources -> Token \cup {NoToken}] BY <1>2, <1>3
<1>6. \A s \in Sources : opening'[s] = choices[s].token \/ opening'[s] = NoToken BY <1>2
<1>7. opening' \in [Sources -> Token \cup {NoToken}]
  <2> SUFFICES ASSUME NEW s \in Sources PROVE opening'[s] \in Token \cup {NoToken} BY <1>2
  <2> QED BY <1>3, <1>6
<1> QED BY <1>4, <1>5, <1>6, <1>7

LEMMA SaverHas ==
    ASSUME Typed, saver # {} PROVE (CHOOSE all \in saver : TRUE) \in [Sources -> Choice] /\ saver = {CHOOSE all \in saver : TRUE}
<1>1. PICK c \in [Sources -> Choice] : saver = {c} BY DEF Typed, KeptTyped
<1>2. (CHOOSE all \in saver : TRUE) \in saver BY <1>1
<1> QED BY <1>1, <1>2

\* A restart leaves no dialog open.
LEMMA RestartDoes ==
    ASSUME Typed, Restart
    PROVE  /\ DialogsTyped' /\ KeptTyped'
           /\ \A d \in 1..MaxDialogs : /\ dialogs'[d].at = IF dialogs[d].at = "none" THEN "none" ELSE "over"
                                       /\ dialogs'[d].source = dialogs[d].source /\ dialogs'[d].token = dialogs[d].token
<1>1. dialogs' = [d \in 1..MaxDialogs |-> IF dialogs[d].at = "none" THEN dialogs[d] ELSE [dialogs[d] EXCEPT !.at = "over"]]
  BY DEF Restart
<1>2. ASSUME NEW d \in 1..MaxDialogs
      PROVE  /\ IsDialog(dialogs'[d]) /\ dialogs'[d].at = IF dialogs[d].at = "none" THEN "none" ELSE "over"
             /\ dialogs'[d].source = dialogs[d].source /\ dialogs'[d].token = dialogs[d].token
  <2>1. IsDialog(dialogs[d]) BY DEF Typed, DialogsTyped
  <2>2. CASE dialogs[d].at = "none" BY <1>1, <2>1, <2>2
  <2>3. CASE dialogs[d].at # "none"
    <3>1. PICK new : new = [dialogs[d] EXCEPT !.at = "over"] OBVIOUS
    <3>2. /\ DOMAIN new = {"source", "at", "token"} /\ new.at = "over"
          /\ new.source = dialogs[d].source /\ new.token = dialogs[d].token
      BY <2>1, <3>1 DEF IsDialog
    <3>3. IsDialog(new) BY <2>1, <2>3, <3>2 DEF IsDialog, Stages
    <3>4. dialogs'[d] = new BY <1>1, <2>3, <3>1
    <3> QED BY <2>3, <3>2, <3>3, <3>4
  <2> QED BY <2>2, <2>3
<1>3. DOMAIN dialogs' = 1..MaxDialogs BY <1>1
<1>4. DialogsTyped' BY <1>2, <1>3 DEF DialogsTyped
<1>5. KeptTyped'
  <2>1. /\ choices' = stored /\ stored' = stored /\ saver' = {}
        /\ lock' = [choices |-> "none", failed |-> "none"] BY DEF Restart
  <2> QED BY <2>1 DEF Typed, KeptTyped
<1> QED BY <1>2, <1>4, <1>5

LEMMA TypedStays ==
    ASSUME Counted, Typed, [Next]_vars PROVE Typed'
<1>0. DialogsTyped /\ KeptTyped BY DEF Typed
<1>1. ASSUME NEW s \in Sources, begin_choice(s) PROVE Typed'
  <2>1. DialogsTyped' BY <1>1, Begins
  <2>2. asking' = asking \cup {s} BY <1>1 DEF begin_choice
  <2>3. UNCHANGED <<rows, choices, pending, failed, lock, saver, stored, lost, honoured, issued, running, opening, restored>>
    BY <1>1 DEF begin_choice, desktop
  <2> QED BY <2>1, <2>2, <2>3 DEF Typed, KeptTyped
<1>2. ASSUME NEW s \in Sources, delete_configured_source(s) PROVE Typed'
  <2>1. rows' \subseteq rows /\ UNCHANGED <<kept, dialogs, saver, stored, lost, desktop, builds>>
    BY <1>2 DEF delete_configured_source
  <2> QED BY <2>1 DEF kept, desktop, builds, Typed, KeptTyped, DialogsTyped
<1>3. ASSUME NEW s \in Sources, restore(s) \/ restore_fails(s) \/ open(s) PROVE Typed'
  <2>1. CASE restore(s)
    <3>1. PICK t \in Token : /\ issued' = issued + 1 /\ honoured' = (honoured \ {opening[s]}) \cup {t}
                             /\ restored' \in [Sources -> Token \cup {NoToken}] /\ opening' = opening
      BY <2>1, RestoreDoes
    <3>2. honoured' \subseteq Token /\ issued' \in Nat BY <3>1 DEF Typed
    <3>3. UNCHANGED <<rows, kept, dialogs, saver, stored, running>> BY <2>1 DEF restore
    <3> QED BY <3>1, <3>2, <3>3 DEF kept, Typed, KeptTyped, DialogsTyped
  <2>2. CASE restore_fails(s)
    <3>1. Ends(s) /\ UNCHANGED <<rows, kept, dialogs, saver, stored, desktop, running>> BY <2>2 DEF restore_fails
    <3>2. /\ opening' \in [Sources -> Token \cup {NoToken}]
          /\ restored' \in [Sources -> Token \cup {NoToken}]
      BY <3>1, EndsDoes
    <3> QED BY <3>1, <3>2 DEF kept, desktop, Typed, KeptTyped, DialogsTyped
  <2>3. CASE open(s)
    <3>1. UNCHANGED <<rows, pending, asking, failed, lock, dialogs, saver, stored, desktop>> BY <2>3 DEF open
    <3>2. /\ Ends(s) /\ running' \in [Sources -> Token \cup {NoToken}] /\ choices' \in [Sources -> Choice]
      BY <2>3, OpenDoes
    <3>3. /\ opening' \in [Sources -> Token \cup {NoToken}]
          /\ restored' \in [Sources -> Token \cup {NoToken}]
      BY <3>2, EndsDoes
    <3> QED BY <3>1, <3>2, <3>3 DEF desktop, Typed, KeptTyped, DialogsTyped
  <2> QED BY <1>3, <2>1, <2>2, <2>3
<1>4. ASSUME NEW s \in Sources, ScreenStops(s) PROVE Typed'
  <2>1. running' = [running EXCEPT ![s] = NoToken]
        /\ UNCHANGED <<rows, kept, dialogs, saver, stored, desktop, opening, restored>>
    BY <1>4 DEF ScreenStops
  <2>2. running' \in [Sources -> Token \cup {NoToken}] BY <2>1 DEF Typed
  <2> QED BY <2>1, <2>2 DEF kept, desktop, Typed, KeptTyped, DialogsTyped
<1>5. ASSUME NEW d \in 1..MaxDialogs, choose(d) \/ RequestDropped(d) PROVE Typed'
  <2>1. Dialog(d, "begun", "open") \/ Dialog(d, "begun", "over") BY <1>5 DEF choose, RequestDropped
  <2>2. dialogs[d].at = "begun" BY <2>1 DEF Dialog
  <2>3. dialogs[d].token = NoToken BY <1>0, <2>2 DEF DialogsTyped, IsDialog
  <2>4. DialogsTyped' BY <1>0, <2>1, <2>3, DialogGoes
  <2>5. UNCHANGED <<rows, kept, saver, stored, lost, desktop, builds>> BY <1>5 DEF choose, RequestDropped
  <2> QED BY <2>4, <2>5 DEF kept, desktop, builds, Typed, KeptTyped
<1>6. ASSUME NEW d \in 1..MaxDialogs, Answered(d) PROVE Typed'
  <2>1. DialogsTyped' BY <1>6, AnsweredDoes
  <2>2. honoured' \subseteq Token /\ issued' \in Nat BY <1>6, AnsweredDoes DEF Typed
  <2>3. asking' \subseteq asking /\ UNCHANGED <<rows, choices, pending, failed, lock, saver, stored, lost, builds>>
    BY <1>6 DEF Answered
  <2> QED BY <2>1, <2>2, <2>3 DEF builds, Typed, KeptTyped
<1>7. ASSUME NEW d \in 1..MaxDialogs, end_choice(d) PROVE Typed'
  <2>1. Dialog(d, "answered", "over") \/ Dialog(d, "answered", "chosen") BY <1>7 DEF end_choice
  <2>2. DialogsTyped' /\ dialogs[d].source \in Sources BY <1>0, <2>1, DialogGoes
  <2>3. failed' \subseteq failed \cup {dialogs[d].source} BY <1>7 DEF end_choice
  <2>4. lock' = lock \/ lock' = [lock EXCEPT !.failed = "dialog"] BY <1>7 DEF end_choice
  <2>5. UNCHANGED <<rows, choices, pending, asking, saver, stored, desktop, running, opening, restored>>
    BY <1>7 DEF end_choice
  <2>6. KeptTyped' BY <1>0, <2>4, <2>5 DEF KeptTyped
  <2> QED BY <2>2, <2>3, <2>5, <2>6 DEF desktop, Typed
<1>8. ASSUME NEW d \in 1..MaxDialogs, chosen(d) PROVE Typed'
  <2>1. PICK s \in Sources, t \in Token \cup {NoToken} : s = dialogs[d].source /\ t = dialogs[d].token
    BY <1>8, ChosenDoes
  <2>2. DialogsTyped' /\ choices' \in [Sources -> Choice] BY <1>8, ChosenDoes
  <2>3. pending' = [pending EXCEPT ![s] = t] /\ lock' = [lock EXCEPT !.failed = "none"]
        /\ UNCHANGED <<rows, asking, failed, saver, stored, desktop, running, opening, restored>>
    BY <1>8, <2>1 DEF chosen
  <2>4. pending' \in [Sources -> Token \cup {NoToken}] BY <2>3 DEF Typed
  <2>5. KeptTyped' BY <1>0, <2>2, <2>3 DEF KeptTyped
  <2> QED BY <2>2, <2>3, <2>4, <2>5 DEF desktop, Typed
<1>9. ASSUME retain PROVE Typed'
  <2>1. UNCHANGED <<rows, asking, failed, dialogs, lost, desktop, builds>> BY <1>9 DEF retain
  <2>2. pending' \in [Sources -> Token \cup {NoToken}] /\ KeptTyped' BY <1>9, RetainDoes
  <2> QED BY <2>1, <2>2 DEF desktop, builds, Typed, DialogsTyped
<1>10. ASSUME retained PROVE Typed'
  <2>1. failed' \subseteq failed /\ lock' = [lock EXCEPT !.choices = "none"]
        /\ UNCHANGED <<rows, choices, pending, asking, dialogs, saver, stored, desktop, running, opening, restored>>
    BY <1>10 DEF retained
  <2>2. KeptTyped' BY <1>0, <2>1 DEF KeptTyped
  <2> QED BY <2>1, <2>2 DEF desktop, Typed, DialogsTyped
<1>11. ASSUME Scan PROVE Typed'
  <2>1. /\ running' \in [Sources -> Token \cup {NoToken}] /\ pending' \in [Sources -> Token \cup {NoToken}]
        /\ opening' \in [Sources -> Token \cup {NoToken}]
    BY <1>11, ScanDoes
  <2>2. UNCHANGED <<rows, choices, asking, failed, lock, dialogs, saver, stored, desktop, restored>>
    BY <1>11 DEF Scan
  <2> QED BY <2>1, <2>2 DEF desktop, Typed, KeptTyped, DialogsTyped
<1>12. ASSUME SignsIn PROVE Typed'
  BY <1>12 DEF SignsIn, kept, Typed, KeptTyped, DialogsTyped
<1>13. ASSUME Woken PROVE Typed'
  <2>1. saver' = {choices} /\ UNCHANGED <<rows, kept, dialogs, stored, lost, desktop, builds>>
    BY <1>13 DEF Woken
  <2>2. KeptTyped' BY <1>0, <2>1 DEF KeptTyped, kept
  <2> QED BY <2>1, <2>2 DEF kept, desktop, builds, Typed, DialogsTyped
<1>14. ASSUME screencasts_set PROVE Typed'
  <2>1. PICK c \in [Sources -> Choice] : c = CHOOSE all \in saver : TRUE
    BY <1>14, SaverHas DEF screencasts_set
  <2>2. stored' = c /\ saver' = {} /\ UNCHANGED <<rows, kept, dialogs, lost, desktop, builds>>
    BY <1>14, <2>1 DEF screencasts_set
  <2>3. KeptTyped' BY <1>0, <2>2 DEF KeptTyped, kept
  <2> QED BY <2>2, <2>3 DEF kept, desktop, builds, Typed, DialogsTyped
<1>15. ASSUME Restart PROVE Typed'
  <2>1. DialogsTyped' /\ KeptTyped' BY <1>15, RestartDoes
  <2>2. /\ pending' = [s \in Sources |-> NoToken] /\ running' = pending' /\ opening' = running'
        /\ restored' = running' /\ asking' = {} /\ failed' = {} /\ UNCHANGED <<rows, desktop>>
    BY <1>15 DEF Restart
  <2> QED BY <2>1, <2>2 DEF desktop, Typed
<1>16. ASSUME UNCHANGED vars PROVE Typed'
  BY <1>16 DEF vars, kept, desktop, builds, Typed, KeptTyped, DialogsTyped
<1> QED BY <1>1, <1>2, <1>3, <1>4, <1>5, <1>6, <1>7, <1>8, <1>9, <1>10, <1>11, <1>12, <1>13, <1>14, <1>15, <1>16 DEF Next

----------------------------------------------------------------------------
(* Generations, the saver and the dialogs asked *)

\* The dialogs that are over stay over, and each makes one choice.
LEMMA OverStays ==
    ASSUME Counted, Typed, [Next]_vars, NEW d \in Over PROVE d \in Over'
<1>0. d \in 1..MaxDialogs /\ dialogs[d].at = "over" /\ DialogsTyped BY DEF Over, Typed
<1> SUFFICES dialogs'[d].at = "over" BY <1>0 DEF Over
<1>1. ASSUME NEW s \in Sources, begin_choice(s) PROVE dialogs'[d].at = "over"
  BY <1>0, <1>1, Begins
<1>2. ASSUME NEW e \in 1..MaxDialogs, NEW from \in {"begun", "answered", "chosen"}, NEW to, Dialog(e, from, to),
             to \in {"open", "over", "chosen"}, to = "open" => from = "begun"
      PROVE  dialogs'[d].at = "over"
  <2>1. dialogs[e].at = from BY <1>2 DEF Dialog
  <2>2. to = "open" => dialogs[e].token = NoToken BY <1>0, <1>2, <2>1 DEF DialogsTyped, IsDialog
  <2>3. \A g \in 1..MaxDialogs : g # e => dialogs'[g] = dialogs[g] BY <1>0, <1>2, <2>2, DialogGoes
  <2> QED BY <1>0, <1>2, <2>1, <2>3
<1>3. ASSUME NEW e \in 1..MaxDialogs, choose(e) \/ RequestDropped(e) \/ end_choice(e) \/ chosen(e)
      PROVE  dialogs'[d].at = "over"
  BY <1>2, <1>3 DEF choose, RequestDropped, end_choice, chosen
<1>4. ASSUME NEW e \in 1..MaxDialogs, Answered(e) PROVE dialogs'[d].at = "over"
  BY <1>0, <1>4, AnsweredDoes
<1>5. ASSUME Restart PROVE dialogs'[d].at = "over"
  BY <1>0, <1>5, RestartDoes
<1>6. ASSUME UNCHANGED dialogs PROVE dialogs'[d].at = "over"
  BY <1>0, <1>6
<1>7. CASE \/ \E s \in Sources : delete_configured_source(s) \/ ScreenStops(s)
          \/ \E s \in Sources : restore(s) \/ restore_fails(s) \/ open(s)
  BY <1>6, <1>7 DEF delete_configured_source, restore, restore_fails, open, ScreenStops
<1>8. CASE retain \/ retained \/ Scan \/ SignsIn \/ Woken \/ screencasts_set \/ UNCHANGED vars
  BY <1>6, <1>8 DEF retain, retained, Scan, SignsIn, Woken, screencasts_set, vars
<1> QED BY <1>1, <1>3, <1>4, <1>5, <1>7, <1>8 DEF Next

LEMMA OverIsFinite ==
    ASSUME Counted
    PROVE  IsFiniteSet(Over) /\ Cardinality(Over) \in Nat /\ Cardinality(Over) <= MaxDialogs
<1>1. IsFiniteSet(1..MaxDialogs) /\ Cardinality(1..MaxDialogs) = MaxDialogs
  <2>1. 1 \in Int /\ MaxDialogs \in Int BY DEF Counted
  <2>2. IsFiniteSet(1..MaxDialogs)
        /\ Cardinality(1..MaxDialogs) = IF 1 > MaxDialogs THEN 0 ELSE MaxDialogs - 1 + 1
    BY <2>1, FS_Interval
  <2> QED BY <2>2 DEF Counted
<1>2. Over \subseteq 1..MaxDialogs BY DEF Over
<1>3. IsFiniteSet(Over) /\ Cardinality(Over) <= Cardinality(1..MaxDialogs) BY <1>1, <1>2, FS_Subset
<1> QED BY <1>1, <1>3, FS_CardinalityType

LEMMA OverGrows ==
    ASSUME Counted, Typed, [Next]_vars
    PROVE  /\ Cardinality(Over) \in Nat /\ Cardinality(Over') \in Nat /\ Cardinality(Over) <= Cardinality(Over')
           /\ \A d \in Over' : d \notin Over => Cardinality(Over) + 1 <= Cardinality(Over')
<1>1. Over \subseteq Over' BY OverStays
<1>2. IsFiniteSet(Over) /\ Cardinality(Over) \in Nat BY OverIsFinite
<1>3. IsFiniteSet(Over')
  <2>1. IsFiniteSet(1..MaxDialogs) BY FS_Interval DEF Counted
  <2>2. Over' \subseteq 1..MaxDialogs BY DEF Over
  <2> QED BY <2>1, <2>2, FS_Subset
<1>4. Cardinality(Over') \in Nat /\ Cardinality(Over) <= Cardinality(Over')
  BY <1>1, <1>3, FS_Subset, FS_CardinalityType
<1>5. ASSUME NEW d \in Over', d \notin Over PROVE Cardinality(Over) + 1 <= Cardinality(Over')
  <2>1. IsFiniteSet(Over \cup {d}) /\ Cardinality(Over \cup {d}) = Cardinality(Over) + 1
    BY <1>2, <1>5, FS_AddElement
  <2>2. Over \cup {d} \subseteq Over' BY <1>1, <1>5
  <2>3. Cardinality(Over \cup {d}) <= Cardinality(Over') BY <1>3, <2>2, FS_Subset
  <2> QED BY <2>1, <2>3
<1> QED BY <1>2, <1>4, <1>5

LEMMA GenerationsStay ==
    ASSUME Counted, Typed, Generations, [Next]_vars PROVE Generations'
<1> USE DEF Generations, CountsChoices
<1>0. /\ Cardinality(Over) \in Nat /\ Cardinality(Over') \in Nat /\ Cardinality(Over) <= Cardinality(Over')
      /\ \A d \in Over' : d \notin Over => Cardinality(Over) + 1 <= Cardinality(Over')
  BY OverGrows
\* What was counted still is, and nothing else is saved or being saved.
<1>1. ASSUME NEW c \in [Sources -> Choice], \A s \in Sources : c[s].generation <= Cardinality(Over)
      PROVE  \A s \in Sources : c[s].generation <= Cardinality(Over')
  <2> SUFFICES ASSUME NEW s \in Sources PROVE c[s].generation <= Cardinality(Over') OBVIOUS
  <2>1. PICK n : n = c[s].generation OBVIOUS
  <2>2. n \in Nat BY <1>1, <2>1 DEF Choice
  <2>3. n <= Cardinality(Over) BY <1>1, <2>1
  <2>4. n <= Cardinality(Over') BY <1>0, <2>2, <2>3
  <2> QED BY <2>1, <2>4
<1>2. choices \in [Sources -> Choice] /\ stored \in [Sources -> Choice] /\ \A c \in saver : c \in [Sources -> Choice]
  BY DEF Typed, KeptTyped
<1>3. ASSUME choices' = choices, stored' = stored, saver' \subseteq saver \cup {choices} PROVE Generations'
  BY <1>1, <1>2, <1>3
<1>4. ASSUME NEW s \in Sources, begin_choice(s) \/ delete_configured_source(s) \/ ScreenStops(s) PROVE Generations'
  BY <1>3, <1>4 DEF begin_choice, delete_configured_source, ScreenStops, kept
<1>5. ASSUME NEW d \in 1..MaxDialogs, choose(d) \/ RequestDropped(d) \/ Answered(d) \/ end_choice(d) PROVE Generations'
  BY <1>3, <1>5 DEF choose, RequestDropped, Answered, end_choice, kept
<1>6. CASE retained \/ Scan \/ SignsIn \/ Woken \/ UNCHANGED vars
  BY <1>3, <1>6 DEF retained, Scan, SignsIn, Woken, kept, vars
<1>12. ASSUME NEW s \in Sources, restore(s) \/ restore_fails(s) PROVE Generations'
  BY <1>3, <1>12 DEF restore, restore_fails, kept
<1>7. ASSUME NEW s \in Sources, open(s) PROVE Generations'
  <2>1. UNCHANGED <<stored, saver>> BY <1>7 DEF open
  <2>2. \A r \in Sources : choices'[r].generation = choices[r].generation BY <1>7, OpenDoes
  <2> QED BY <1>1, <1>2, <2>1, <2>2
<1>8. ASSUME NEW d \in 1..MaxDialogs, chosen(d) PROVE Generations'
  <2>1. UNCHANGED <<stored, saver>> BY <1>8 DEF chosen
  <2>2. PICK s \in Sources : /\ choices'[s].generation = choices[s].generation + 1
                             /\ \A r \in Sources : r # s => choices'[r] = choices[r]
    BY <1>8, ChosenDoes
  <2>3. d \in Over' /\ d \notin Over BY <1>8, ChosenDoes DEF Over
  <2>4. choices'[s].generation <= Cardinality(Over')
    <3>1. PICK n : n = choices[s].generation OBVIOUS
    <3>2. n \in Nat BY <1>2, <3>1 DEF Choice
    <3>3. n <= Cardinality(Over) BY <3>1
    <3>4. Cardinality(Over) + 1 <= Cardinality(Over') BY <1>0, <2>3
    <3>5. n + 1 <= Cardinality(Over') BY <1>0, <3>2, <3>3, <3>4
    <3> QED BY <2>2, <3>1, <3>5
  <2>5. \A r \in Sources : choices'[r].generation <= Cardinality(Over') BY <1>1, <1>2, <2>2, <2>4
  <2> QED BY <1>1, <1>2, <2>1, <2>5
<1>9. ASSUME retain PROVE Generations'
  <2>1. UNCHANGED <<stored, saver>> BY <1>9 DEF retain
  <2>2. \A s \in Sources : choices'[s] = choices[s] \/ choices'[s] = NoChoice BY <1>9, RetainDoes
  <2>3. NoChoice.generation <= Cardinality(Over') BY <1>0 DEF NoChoice
  <2> QED BY <1>1, <1>2, <2>1, <2>2, <2>3
<1>10. ASSUME screencasts_set PROVE Generations'
  <2>1. PICK c \in saver : stored' = c /\ saver' = {} BY <1>10, SaverHas DEF screencasts_set
  <2>2. choices' = choices BY <1>10 DEF screencasts_set, kept
  <2> QED BY <1>1, <1>2, <2>1, <2>2
<1>11. ASSUME Restart PROVE Generations'
  <2>1. choices' = stored /\ stored' = stored /\ saver' = {} BY <1>11 DEF Restart
  <2> QED BY <1>1, <1>2, <2>1
<1> QED BY <1>4, <1>5, <1>6, <1>7, <1>8, <1>9, <1>10, <1>11, <1>12 DEF Next

\* What is being saved goes on to be the last, or is followed by another.
LEMMA SaverStaysLast ==
    ASSUME Counted, Typed, SaverIsLast, [Next]_vars PROVE SaverIsLast'
<1>1. ASSUME UNCHANGED <<choices, lock, changed, saver, stored>> PROVE SaverIsLast'
  BY <1>1 DEF SaverIsLast
<1>2. ASSUME NEW s \in Sources, begin_choice(s) \/ delete_configured_source(s) \/ ScreenStops(s) PROVE SaverIsLast'
  BY <1>1, <1>2 DEF begin_choice, delete_configured_source, ScreenStops, kept
<1>3. ASSUME NEW d \in 1..MaxDialogs, choose(d) \/ RequestDropped(d) \/ Answered(d) PROVE SaverIsLast'
  BY <1>1, <1>3 DEF choose, RequestDropped, Answered, kept
<1>4. CASE Scan \/ SignsIn \/ UNCHANGED vars
  BY <1>1, <1>4 DEF Scan, SignsIn, kept, vars
<1>5. ASSUME NEW s \in Sources, restore(s) \/ restore_fails(s) \/ open(s) PROVE SaverIsLast'
  <2>1. CASE restore(s) \/ restore_fails(s) BY <1>1, <2>1 DEF restore, restore_fails, kept
  <2>2. CASE open(s) BY <2>2, OpenDoes DEF SaverIsLast
  <2> QED BY <1>5, <2>1, <2>2
<1>6. ASSUME NEW d \in 1..MaxDialogs, end_choice(d) PROVE SaverIsLast'
  <2>1. DOMAIN lock = {"choices", "failed"} BY DEF Typed, KeptTyped
  <2>2. lock' = lock \/ lock' = [lock EXCEPT !.failed = "dialog"] BY <1>6 DEF end_choice
  <2>3. lock'.choices = lock.choices BY <2>1, <2>2
  <2>4. UNCHANGED <<choices, changed, saver, stored>> BY <1>6 DEF end_choice
  <2> QED BY <2>3, <2>4 DEF SaverIsLast
<1>7. ASSUME NEW d \in 1..MaxDialogs, chosen(d) PROVE SaverIsLast'
  BY <1>7 DEF chosen, SaverIsLast
<1>8. ASSUME retain PROVE SaverIsLast'
  <2>1. lock.choices = "none" /\ (lock'.choices = "forgets" \/ choices' = choices) BY <1>8, RetainDoes
  <2>2. UNCHANGED <<changed, saver, stored>> BY <1>8 DEF retain
  <2> QED BY <2>1, <2>2 DEF SaverIsLast
<1>9. ASSUME retained PROVE SaverIsLast'
  <2>1. changed' = (changed \/ lock.choices = "forgets") /\ UNCHANGED <<choices, saver, stored>>
    BY <1>9 DEF retained
  <2> QED BY <2>1 DEF SaverIsLast
<1>10. ASSUME Woken PROVE SaverIsLast'
  <2>1. saver' = {choices} /\ choices' = choices BY <1>10 DEF Woken, kept
  <2> QED BY <2>1 DEF SaverIsLast
<1>11. ASSUME screencasts_set PROVE SaverIsLast'
  <2>1. PICK c : stored' = c /\ saver = {c} /\ saver' = {} BY <1>11, SaverHas DEF screencasts_set
  <2>2. UNCHANGED <<choices, lock, changed>> BY <1>11 DEF screencasts_set, kept
  <2> QED BY <2>1, <2>2 DEF SaverIsLast
<1>12. ASSUME Restart PROVE SaverIsLast'
  BY <1>12 DEF Restart, SaverIsLast
<1> QED BY <1>2, <1>3, <1>4, <1>5, <1>6, <1>7, <1>8, <1>9, <1>10, <1>11, <1>12 DEF Next

LEMMA AskingStays ==
    ASSUME Counted, Typed, AskingHasOne, [Next]_vars PROVE AskingHasOne'
<1> USE DEF AskingHasOne, Asks
<1>0. DialogsTyped BY DEF Typed
<1>1. ASSUME NEW s \in Sources, begin_choice(s) PROVE AskingHasOne'
  <2>1. PICK d \in 1..MaxDialogs : /\ dialogs'[d] = [source |-> s, at |-> "begun", token |-> NoToken]
                                   /\ \A e \in 1..MaxDialogs : e # d => dialogs'[e] = dialogs[e]
    BY <1>1, Begins
  <2>2. s \notin asking /\ asking' = asking \cup {s} BY <1>1 DEF begin_choice
  <2>3. dialogs'[d].source = s BY <2>1
  <2> QED BY <2>1, <2>2, <2>3
\* A dialog that goes on was asking before, or asks no more.
<1>2. ASSUME asking' = asking,
             \A d \in 1..MaxDialogs : Asks(d)' => Asks(d) /\ dialogs'[d].source = dialogs[d].source
      PROVE  AskingHasOne'
  BY <1>2
<1>3. ASSUME NEW d \in 1..MaxDialogs, choose(d) PROVE AskingHasOne'
  <2>1. Dialog(d, "begun", "open") /\ asking' = asking BY <1>3 DEF choose, kept
  <2>2. dialogs[d].at = "begun" BY <2>1 DEF Dialog
  <2>3. dialogs[d].token = NoToken BY <1>0, <2>2 DEF DialogsTyped, IsDialog
  <2>4. dialogs'[d].source = dialogs[d].source /\ \A e \in 1..MaxDialogs : e # d => dialogs'[e] = dialogs[e]
    BY <1>0, <2>1, <2>3, DialogGoes
  <2> QED BY <1>2, <2>1, <2>2, <2>4
<1>4. ASSUME NEW d \in 1..MaxDialogs, RequestDropped(d) \/ end_choice(d) \/ chosen(d) PROVE AskingHasOne'
  <2>1. Dialog(d, "begun", "over") \/ Dialog(d, "answered", "over") \/ Dialog(d, "answered", "chosen") \/ Dialog(d, "chosen", "over")
    BY <1>4 DEF RequestDropped, end_choice, chosen
  <2>2. /\ dialogs'[d].at \in {"over", "chosen"}
        /\ \A e \in 1..MaxDialogs : e # d => dialogs'[e] = dialogs[e]
    BY <1>0, <2>1, DialogGoes
  <2>3. asking' = asking BY <1>4 DEF RequestDropped, end_choice, chosen, kept
  <2> QED BY <1>2, <2>2, <2>3
<1>5. ASSUME NEW d \in 1..MaxDialogs, Answered(d) PROVE AskingHasOne'
  <2>1. /\ dialogs[d].at = "open" /\ dialogs'[d].at = "answered"
        /\ \A e \in 1..MaxDialogs : e # d => dialogs'[e] = dialogs[e]
    BY <1>5, AnsweredDoes
  <2>2. asking' = asking \ {dialogs[d].source} BY <1>5 DEF Answered
  <2> QED BY <2>1, <2>2
<1>6. ASSUME Restart PROVE AskingHasOne'
  BY <1>6, RestartDoes
<1>7. ASSUME NEW s \in Sources, delete_configured_source(s) \/ ScreenStops(s) \/ restore(s) \/ restore_fails(s) \/ open(s) PROVE AskingHasOne'
  BY <1>2, <1>7 DEF delete_configured_source, restore, restore_fails, open, ScreenStops, kept
<1>8. CASE retain \/ retained \/ Scan \/ SignsIn \/ Woken \/ screencasts_set \/ UNCHANGED vars
  BY <1>2, <1>8 DEF retain, retained, Scan, SignsIn, Woken, screencasts_set, kept, vars
<1> QED BY <1>1, <1>3, <1>4, <1>5, <1>6, <1>7, <1>8 DEF Next

----------------------------------------------------------------------------
(* Tokens *)

\* A step that issues nothing leaves a source no token it didn't hold.
NoneMoves == issued' = issued /\ \A s \in Sources, t \in Token : Holds(s, t)' => Holds(s, t)
\* One that does, gives one source the next.
OneIsIssued ==
    /\ issued' = issued + 1
    /\ \E s \in Sources, u \in Token :
          /\ u.n = issued + 1
          /\ \A r \in Sources, t \in Token : Holds(r, t)' => Holds(r, t) \/ (r = s /\ t = u)

LEMMA TokensGo ==
    ASSUME Counted, Typed, [Next]_vars PROVE NoneMoves \/ OneIsIssued
<1>0. DialogsTyped BY DEF Typed
\* What the choices, builds and dialogs show, they showed before.
<1>1. ASSUME issued' = issued, stored' = stored, saver' \subseteq saver \cup {choices},
             \A s \in Sources : choices'[s] = choices[s] \/ choices'[s] = NoChoice,
             \A s \in Sources : opening'[s] \in {opening[s], choices[s].token, NoToken},
             \A s \in Sources : restored'[s] \in {restored[s], NoToken},
             \A d \in 1..MaxDialogs : dialogs'[d].at # "none" /\ dialogs'[d].token # NoToken =>
                dialogs[d].at # "none" /\ dialogs'[d].source = dialogs[d].source /\ dialogs'[d].token = dialogs[d].token
      PROVE  NoneMoves
  <2> SUFFICES ASSUME NEW s \in Sources, NEW t \in Token, Holds(s, t)' PROVE Holds(s, t)
    BY <1>1 DEF NoneMoves
  <2>0. t # NoToken BY NoTokenIsNone
  <2>1. CASE choices'[s].token = t BY <1>1, <2>0, <2>1 DEF Holds, NoChoice
  <2>2. CASE stored'[s].token = t BY <1>1, <2>2 DEF Holds
  <2>3. CASE opening'[s] = t BY <1>1, <2>0, <2>3 DEF Holds
  <2>6. CASE restored'[s] = t BY <1>1, <2>0, <2>6 DEF Holds
  <2>4. CASE \E c \in saver' : c[s].token = t
    <3>1. PICK c \in saver \cup {choices} : c[s].token = t BY <1>1, <2>4
    <3> QED BY <3>1 DEF Holds
  <2>5. CASE \E d \in 1..MaxDialogs : dialogs'[d].at # "none" /\ dialogs'[d].source = s /\ dialogs'[d].token = t
    <3>1. PICK d \in 1..MaxDialogs : dialogs'[d].at # "none" /\ dialogs'[d].source = s /\ dialogs'[d].token = t
      BY <2>5
    <3>2. dialogs[d].at # "none" /\ dialogs[d].source = s /\ dialogs[d].token = t BY <1>1, <2>0, <3>1
    <3> QED BY <3>2 DEF Holds
  <2> QED BY <2>1, <2>2, <2>3, <2>4, <2>5, <2>6 DEF Holds
<1>2. ASSUME NEW s \in Sources, begin_choice(s) PROVE NoneMoves
  <2>1. PICK d \in 1..MaxDialogs : /\ dialogs'[d] = [source |-> s, at |-> "begun", token |-> NoToken]
                                   /\ \A e \in 1..MaxDialogs : e # d => dialogs'[e] = dialogs[e]
    BY <1>2, Begins
  <2>2. dialogs'[d].token = NoToken BY <2>1
  <2>3. UNCHANGED <<choices, opening, restored, stored, saver, issued>> BY <1>2 DEF begin_choice, desktop
  <2> QED BY <1>1, <2>1, <2>2, <2>3
<1>3. ASSUME NEW s \in Sources, delete_configured_source(s) \/ ScreenStops(s) PROVE NoneMoves
  <2>1. UNCHANGED <<choices, opening, restored, stored, saver, issued, dialogs>>
    BY <1>3 DEF delete_configured_source, ScreenStops, kept, desktop, builds
  <2> QED BY <1>1, <2>1
<1>4. ASSUME NEW d \in 1..MaxDialogs, choose(d) \/ RequestDropped(d) \/ end_choice(d) PROVE NoneMoves
  <2>1. \/ Dialog(d, "begun", "open") \/ Dialog(d, "begun", "over")
        \/ Dialog(d, "answered", "over") \/ Dialog(d, "answered", "chosen")
    BY <1>4 DEF choose, RequestDropped, end_choice
  <2>2. dialogs[d].at = "begun" => dialogs[d].token = NoToken BY <1>0 DEF DialogsTyped, IsDialog
  <2>3. Dialog(d, "begun", "open") => dialogs[d].token = NoToken BY <2>2 DEF Dialog
  <2>4. /\ dialogs[d].at # "none" /\ dialogs'[d].source = dialogs[d].source /\ dialogs'[d].token = dialogs[d].token
        /\ \A e \in 1..MaxDialogs : e # d => dialogs'[e] = dialogs[e]
    BY <1>0, <2>1, <2>3, DialogGoes
  <2>5. UNCHANGED <<choices, opening, restored, stored, saver, issued>>
    BY <1>4 DEF choose, RequestDropped, end_choice, kept, desktop, builds
  <2> QED BY <1>1, <2>4, <2>5
<1>5. ASSUME NEW d \in 1..MaxDialogs, Answered(d) PROVE NoneMoves \/ OneIsIssued
  <2>1. /\ dialogs[d].at = "open" /\ dialogs[d].source \in Sources /\ dialogs'[d].source = dialogs[d].source
        /\ \A e \in 1..MaxDialogs : e # d => dialogs'[e] = dialogs[e]
    BY <1>5, AnsweredDoes
  <2>2. UNCHANGED <<choices, opening, restored, stored, saver>> BY <1>5 DEF Answered, builds
  <2>3. CASE dialogs'[d].token = NoToken /\ issued' = issued BY <1>1, <2>1, <2>2, <2>3
  <2>4. CASE ~(dialogs'[d].token = NoToken /\ issued' = issued)
    <3>1. PICK u \in Token : dialogs'[d].token = u /\ u.n = issued + 1 /\ issued' = issued + 1
      BY <1>5, <2>4, AnsweredDoes
    <3>2. ASSUME NEW r \in Sources, NEW t \in Token, Holds(r, t)'
          PROVE  Holds(r, t) \/ (r = dialogs[d].source /\ t = u)
      <4>1. CASE \E e \in 1..MaxDialogs : dialogs'[e].at # "none" /\ dialogs'[e].source = r /\ dialogs'[e].token = t
        <5>1. PICK e \in 1..MaxDialogs : dialogs'[e].at # "none" /\ dialogs'[e].source = r /\ dialogs'[e].token = t
          BY <4>1
        <5>2. CASE e = d BY <2>1, <3>1, <5>1, <5>2
        <5>3. CASE e # d BY <2>1, <5>1, <5>3 DEF Holds
        <5> QED BY <5>2, <5>3
      <4>2. CASE ~\E e \in 1..MaxDialogs : dialogs'[e].at # "none" /\ dialogs'[e].source = r /\ dialogs'[e].token = t
        BY <2>2, <3>2, <4>2 DEF Holds
      <4> QED BY <4>1, <4>2
    <3> QED BY <2>1, <3>1, <3>2 DEF OneIsIssued
  <2> QED BY <2>3, <2>4
<1>6. ASSUME NEW d \in 1..MaxDialogs, chosen(d) PROVE NoneMoves
  <2>1. PICK s \in Sources : s = dialogs[d].source BY <1>6, ChosenDoes
  <2>2. /\ dialogs[d].at = "chosen" /\ dialogs'[d].source = s
        /\ dialogs'[d].token = dialogs[d].token /\ \A e \in 1..MaxDialogs : e # d => dialogs'[e] = dialogs[e]
        /\ choices'[s].token = dialogs[d].token /\ \A r \in Sources : r # s => choices'[r] = choices[r]
    BY <1>6, <2>1, ChosenDoes
  <2>3. UNCHANGED <<opening, restored, stored, saver, issued>> BY <1>6 DEF chosen, desktop
  <2> SUFFICES ASSUME NEW r \in Sources, NEW t \in Token, Holds(r, t)' PROVE Holds(r, t)
    BY <2>3 DEF NoneMoves
  <2>4. CASE choices'[r].token = t
    <3>1. CASE r = s BY <2>1, <2>2, <2>4, <3>1 DEF Holds
    <3>2. CASE r # s BY <2>2, <2>4, <3>2 DEF Holds
    <3> QED BY <3>1, <3>2
  <2>5. CASE \E e \in 1..MaxDialogs : dialogs'[e].at # "none" /\ dialogs'[e].source = r /\ dialogs'[e].token = t
    <3>1. PICK e \in 1..MaxDialogs : dialogs'[e].at # "none" /\ dialogs'[e].source = r /\ dialogs'[e].token = t
      BY <2>5
    <3>2. dialogs[e].at # "none" /\ dialogs[e].source = r /\ dialogs[e].token = t BY <2>1, <2>2, <3>1
    <3> QED BY <3>2 DEF Holds
  <2> QED BY <2>3, <2>4, <2>5 DEF Holds
<1>7. ASSUME NEW s \in Sources, restore(s) PROVE OneIsIssued
  <2>1. UNCHANGED <<choices, opening, dialogs, stored, saver>> BY <1>7 DEF restore, kept
  <2>2. PICK u \in Token : /\ u.n = issued + 1 /\ issued' = issued + 1 /\ restored'[s] = u
                           /\ \A r \in Sources : r # s => restored'[r] = restored[r]
    BY <1>7, RestoreDoes
  <2>3. ASSUME NEW r \in Sources, NEW t \in Token, Holds(r, t)' PROVE Holds(r, t) \/ (r = s /\ t = u)
    <3>1. CASE restored'[r] = t BY <2>2, <3>1 DEF Holds
    <3> QED BY <2>1, <2>3, <3>1 DEF Holds
  <2> QED BY <2>2, <2>3 DEF OneIsIssued
<1>13. ASSUME NEW s \in Sources, restore_fails(s) PROVE NoneMoves
  <2>1. Ends(s) /\ UNCHANGED <<choices, dialogs, stored, saver, issued>> BY <1>13 DEF restore_fails, kept, desktop
  <2> QED BY <1>1, <2>1, EndsDoes
<1>14. ASSUME NEW s \in Sources, open(s) PROVE NoneMoves
  <2>1. UNCHANGED <<dialogs, stored, saver, issued>> BY <1>14 DEF open, desktop
  <2>2. /\ opening'[s] = NoToken /\ restored'[s] = NoToken
        /\ \A r \in Sources : r # s => opening'[r] = opening[r] /\ restored'[r] = restored[r]
    BY <1>14, OpenDoes, EndsDoes
  <2>3. choices'[s].token = restored[s] /\ \A r \in Sources : r # s => choices'[r] = choices[r]
    BY <1>14, OpenDoes
  <2> SUFFICES ASSUME NEW r \in Sources, NEW t \in Token, Holds(r, t)' PROVE Holds(r, t)
    BY <2>1 DEF NoneMoves
  <2>4. t # NoToken BY NoTokenIsNone
  <2>5. CASE choices'[r].token = t BY <2>3, <2>5 DEF Holds
  <2>6. CASE opening'[r] = t \/ restored'[r] = t BY <2>2, <2>4, <2>6 DEF Holds
  <2> QED BY <2>1, <2>5, <2>6 DEF Holds
<1>8. ASSUME retain PROVE NoneMoves
  <2>1. \A s \in Sources : choices'[s] = choices[s] \/ choices'[s] = NoChoice BY <1>8, RetainDoes
  <2>2. UNCHANGED <<opening, restored, stored, saver, issued, dialogs>> BY <1>8 DEF retain, builds, desktop
  <2> QED BY <1>1, <2>1, <2>2
<1>9. ASSUME Scan PROVE NoneMoves
  <2>1. \A s \in Sources : opening'[s] = choices[s].token \/ opening'[s] = NoToken BY <1>9, ScanDoes
  <2>2. UNCHANGED <<choices, restored, stored, saver, issued, dialogs>> BY <1>9 DEF Scan, desktop
  <2> QED BY <1>1, <2>1, <2>2
<1>10. CASE retained \/ SignsIn \/ Woken \/ UNCHANGED vars
  <2>1. /\ UNCHANGED <<choices, opening, restored, stored, issued, dialogs>> /\ saver' \subseteq saver \cup {choices}
    BY <1>10 DEF retained, SignsIn, Woken, kept, desktop, builds, vars
  <2> QED BY <1>1, <2>1
<1>11. ASSUME screencasts_set PROVE NoneMoves
  <2>1. PICK c \in saver : stored' = c /\ saver' = {} BY <1>11, SaverHas DEF screencasts_set
  <2>2. UNCHANGED <<choices, opening, restored, issued, dialogs>> BY <1>11 DEF screencasts_set, kept, builds, desktop
  <2> QED BY <2>1, <2>2 DEF NoneMoves, Holds
<1>12. ASSUME Restart PROVE NoneMoves
  <2>1. choices' = stored /\ stored' = stored /\ saver' = {} /\ issued' = issued BY <1>12 DEF Restart, desktop
  <2>2. \A s \in Sources : opening'[s] = NoToken /\ restored'[s] = NoToken BY <1>12 DEF Restart
  <2>3. \A d \in 1..MaxDialogs : /\ dialogs'[d].at # "none" => dialogs[d].at # "none"
                                 /\ dialogs'[d].source = dialogs[d].source /\ dialogs'[d].token = dialogs[d].token
    BY <1>12, RestartDoes
  <2> SUFFICES ASSUME NEW r \in Sources, NEW t \in Token, Holds(r, t)' PROVE Holds(r, t)
    BY <2>1 DEF NoneMoves
  <2> QED BY <2>1, <2>2, <2>3, NoTokenIsNone DEF Holds
<1> QED BY <1>2, <1>3, <1>4, <1>5, <1>6, <1>7, <1>8, <1>9, <1>10, <1>11, <1>12, <1>13, <1>14 DEF Next

\* Tokens are issued in turn, so one that is new is no other source's.
LEMMA TokensStayOwn ==
    ASSUME Counted, Typed, HeldWasIssued, HeldByOne, [Next]_vars PROVE HeldWasIssued' /\ HeldByOne'
<1>0. issued \in Nat BY DEF Typed
<1>1. CASE NoneMoves
  BY <1>1 DEF NoneMoves, HeldWasIssued, HeldByOne
<1>2. CASE OneIsIssued
  <2>1. PICK s \in Sources, u \in Token :
          /\ u.n = issued + 1
          /\ \A r \in Sources, t \in Token : Holds(r, t)' => Holds(r, t) \/ (r = s /\ t = u)
    BY <1>2 DEF OneIsIssued
  <2>2. issued' = issued + 1 BY <1>2 DEF OneIsIssued
  <2>3. ASSUME NEW r \in Sources, NEW t \in Token, Holds(r, t)' PROVE t.n <= issued'
    <3>1. t.n \in Nat BY NoTokenIsNone
    <3>2. CASE Holds(r, t)
      <4>1. t.n <= issued BY <3>2 DEF HeldWasIssued
      <4> QED BY <1>0, <2>2, <3>1, <4>1
    <3>3. CASE t = u BY <1>0, <2>1, <2>2, <3>3
    <3> QED BY <2>1, <2>3, <3>2, <3>3
  <2>4. ASSUME NEW r \in Sources PROVE ~Holds(r, u)
    <3>1. Holds(r, u) => u.n <= issued BY DEF HeldWasIssued
    <3> QED BY <1>0, <2>1, <3>1
  <2>5. ASSUME NEW r \in Sources, NEW q \in Sources, NEW t \in Token, Holds(r, t)', Holds(q, t)' PROVE r = q
    <3>1. CASE t = u BY <2>1, <2>4, <2>5, <3>1
    <3>2. CASE t # u BY <2>1, <2>5, <3>2 DEF HeldByOne
    <3> QED BY <3>1, <3>2
  <2>6. HeldWasIssued' BY <2>3 DEF HeldWasIssued
  <2>7. HeldByOne' BY <2>5 DEF HeldByOne
  <2> QED BY <2>6, <2>7
<1> QED BY <1>1, <1>2, TokensGo

\* What is live has been issued, and to no build.
LEMMA LiveWasIssued ==
    ASSUME Typed, HeldWasIssued, NEW d \in 1..MaxDialogs, Live(d)
    PROVE  dialogs[d].token \in Token /\ dialogs[d].source \in Sources /\ dialogs[d].token.n <= issued
<1>1. IsDialog(dialogs[d]) BY DEF Typed, DialogsTyped
<1>2. dialogs[d].token \in Token /\ dialogs[d].source \in Sources /\ dialogs[d].at # "none"
  BY <1>1 DEF Live, IsDialog
<1>3. Holds(dialogs[d].source, dialogs[d].token) BY <1>2 DEF Holds
<1> QED BY <1>2, <1>3 DEF HeldWasIssued

LEMMA LiveStaysOwn ==
    ASSUME Counted, Typed, HeldWasIssued, LiveIsOwn, [Next]_vars PROVE LiveIsOwn'
<1>0. DialogsTyped BY DEF Typed
\* What is live was, and the choices and builds have only what they had.
<1>1. ASSUME honoured' = honoured,
             \A s \in Sources : choices'[s] = choices[s] \/ choices'[s] = NoChoice,
             \A s \in Sources : opening'[s] \in {opening[s], choices[s].token, NoToken},
             \A s \in Sources : restored'[s] \in {restored[s], NoToken},
             \A d \in 1..MaxDialogs : Live(d)' => Live(d) /\ dialogs'[d].token = dialogs[d].token
      PROVE  LiveIsOwn'
  <2> SUFFICES ASSUME NEW d \in 1..MaxDialogs, Live(d)'
               PROVE  /\ dialogs'[d].token \in honoured'
                      /\ \A s \in Sources : dialogs'[d].token \notin {choices'[s].token, opening'[s], restored'[s]}
                      /\ \A e \in 1..MaxDialogs : Live(e)' /\ dialogs'[e].token = dialogs'[d].token => d = e
    BY DEF LiveIsOwn
  <2>1. Live(d) /\ dialogs'[d].token = dialogs[d].token /\ dialogs[d].token # NoToken BY <1>1 DEF Live
  <2>2. dialogs'[d].token \in honoured' BY <1>1, <2>1 DEF LiveIsOwn
  <2>3. ASSUME NEW s \in Sources PROVE dialogs'[d].token \notin {choices'[s].token, opening'[s], restored'[s]}
    <3>1. dialogs[d].token \notin {choices[s].token, opening[s], restored[s]} BY <2>1 DEF LiveIsOwn
    <3>2. NoChoice.token = NoToken BY DEF NoChoice
    <3> QED BY <1>1, <2>1, <3>1, <3>2
  <2>4. \A e \in 1..MaxDialogs : Live(e)' /\ dialogs'[e].token = dialogs'[d].token => d = e
    BY <1>1, <2>1 DEF LiveIsOwn
  <2> QED BY <2>2, <2>3, <2>4
<1>2. ASSUME NEW s \in Sources, begin_choice(s) PROVE LiveIsOwn'
  <2>1. PICK d \in 1..MaxDialogs : /\ dialogs'[d] = [source |-> s, at |-> "begun", token |-> NoToken]
                                   /\ \A e \in 1..MaxDialogs : e # d => dialogs'[e] = dialogs[e]
    BY <1>2, Begins
  <2>2. dialogs'[d].at = "begun" BY <2>1
  <2>3. \A e \in 1..MaxDialogs : Live(e)' => Live(e) /\ dialogs'[e].token = dialogs[e].token
    BY <2>1, <2>2 DEF Live
  <2>4. UNCHANGED <<choices, opening, restored, honoured>> BY <1>2 DEF begin_choice, desktop
  <2> QED BY <1>1, <2>3, <2>4
<1>3. ASSUME NEW s \in Sources, delete_configured_source(s) \/ ScreenStops(s) PROVE LiveIsOwn'
  <2>1. UNCHANGED <<choices, opening, restored, honoured, dialogs>>
    BY <1>3 DEF delete_configured_source, ScreenStops, kept, desktop, builds
  <2> QED BY <1>1, <2>1 DEF Live
<1>4. ASSUME NEW d \in 1..MaxDialogs, choose(d) \/ RequestDropped(d) \/ end_choice(d) PROVE LiveIsOwn'
  <2>1. \/ Dialog(d, "begun", "open") \/ Dialog(d, "begun", "over")
        \/ Dialog(d, "answered", "over") \/ Dialog(d, "answered", "chosen")
    BY <1>4 DEF choose, RequestDropped, end_choice
  <2>2. dialogs[d].at = "begun" => dialogs[d].token = NoToken BY <1>0 DEF DialogsTyped, IsDialog
  <2>3. Dialog(d, "begun", "open") => dialogs[d].token = NoToken BY <2>2 DEF Dialog
  <2>4. /\ dialogs'[d].at \in {"open", "over"} \/ (dialogs[d].at = "answered" /\ dialogs'[d].at = "chosen")
        /\ dialogs'[d].token = dialogs[d].token
        /\ \A e \in 1..MaxDialogs : e # d => dialogs'[e] = dialogs[e]
    BY <1>0, <2>1, <2>3, DialogGoes
  <2>5. \A e \in 1..MaxDialogs : Live(e)' => Live(e) /\ dialogs'[e].token = dialogs[e].token
    BY <2>4 DEF Live
  <2>6. UNCHANGED <<choices, opening, restored, honoured>>
    BY <1>4 DEF choose, RequestDropped, end_choice, kept, desktop, builds
  <2> QED BY <1>1, <2>5, <2>6
<1>5. ASSUME NEW d \in 1..MaxDialogs, Answered(d) PROVE LiveIsOwn'
  <2>1. /\ dialogs[d].at = "open" /\ dialogs[d].source \in Sources
        /\ \A e \in 1..MaxDialogs : e # d => dialogs'[e] = dialogs[e]
    BY <1>5, AnsweredDoes
  <2>2. UNCHANGED <<choices, opening, restored>> BY <1>5 DEF Answered, builds
  <2>3. CASE dialogs'[d].token = NoToken /\ honoured' = honoured
    <3>1. \A e \in 1..MaxDialogs : Live(e)' => Live(e) /\ dialogs'[e].token = dialogs[e].token
      BY <2>1, <2>3 DEF Live
    <3> QED BY <1>1, <2>2, <2>3, <3>1
  <2>4. CASE ~(dialogs'[d].token = NoToken /\ honoured' = honoured)
    <3>1. PICK u \in Token : dialogs'[d].token = u /\ u.n = issued + 1 /\ honoured' = honoured \cup {u}
      BY <1>5, <2>4, AnsweredDoes
    <3>2. issued \in Nat BY DEF Typed
    <3>3. ASSUME NEW s \in Sources PROVE u \notin {choices[s].token, opening[s], restored[s]}
      <4>1. Holds(s, u) => u.n <= issued BY DEF HeldWasIssued
      <4>2. ~Holds(s, u) BY <3>1, <3>2, <4>1
      <4> QED BY <4>2 DEF Holds
    <3>4. ASSUME NEW e \in 1..MaxDialogs, Live(e) PROVE dialogs[e].token # u
      <4>1. dialogs[e].token \in Token /\ dialogs[e].token.n <= issued BY <3>4, LiveWasIssued
      <4> QED BY <3>1, <3>2, <4>1
    <3> SUFFICES ASSUME NEW e \in 1..MaxDialogs, Live(e)'
                 PROVE  /\ dialogs'[e].token \in honoured'
                        /\ \A s \in Sources : dialogs'[e].token \notin {choices'[s].token, opening'[s], restored'[s]}
                        /\ \A g \in 1..MaxDialogs : Live(g)' /\ dialogs'[g].token = dialogs'[e].token => e = g
      BY DEF LiveIsOwn
    <3>5. \A g \in 1..MaxDialogs : g # d /\ Live(g)' => Live(g) /\ dialogs'[g].token = dialogs[g].token
      BY <2>1 DEF Live
    <3>6. CASE e = d
      BY <2>2, <3>1, <3>3, <3>4, <3>5, <3>6
    <3>7. CASE e # d
      <4>1. Live(e) /\ dialogs'[e].token = dialogs[e].token BY <3>5, <3>7
      <4>2. /\ dialogs[e].token \in honoured
            /\ \A s \in Sources : dialogs[e].token \notin {choices[s].token, opening[s], restored[s]}
            /\ \A g \in 1..MaxDialogs : Live(g) /\ dialogs[g].token = dialogs[e].token => e = g
        BY <4>1 DEF LiveIsOwn
      <4> QED BY <2>2, <3>1, <3>4, <3>5, <4>1, <4>2
    <3> QED BY <3>6, <3>7
  <2> QED BY <2>3, <2>4
<1>6. ASSUME NEW d \in 1..MaxDialogs, chosen(d) PROVE LiveIsOwn'
  <2>1. PICK s \in Sources : s = dialogs[d].source BY <1>6, ChosenDoes
  <2>2. /\ dialogs[d].at = "chosen" /\ dialogs'[d].at = "over" /\ \A e \in 1..MaxDialogs : e # d => dialogs'[e] = dialogs[e]
        /\ choices'[s].token = dialogs[d].token /\ \A r \in Sources : r # s => choices'[r] = choices[r]
    BY <1>6, <2>1, ChosenDoes
  <2>3. UNCHANGED <<opening, restored, honoured>> BY <1>6 DEF chosen, desktop
  <2> SUFFICES ASSUME NEW e \in 1..MaxDialogs, Live(e)'
               PROVE  /\ dialogs'[e].token \in honoured'
                      /\ \A r \in Sources : dialogs'[e].token \notin {choices'[r].token, opening'[r], restored'[r]}
                      /\ \A g \in 1..MaxDialogs : Live(g)' /\ dialogs'[g].token = dialogs'[e].token => e = g
    BY DEF LiveIsOwn
  <2>4. e # d /\ Live(e) /\ dialogs'[e].token = dialogs[e].token /\ dialogs[e].token # NoToken BY <2>2 DEF Live
  <2>5. /\ dialogs[e].token \in honoured
        /\ \A r \in Sources : dialogs[e].token \notin {choices[r].token, opening[r], restored[r]}
        /\ \A g \in 1..MaxDialogs : Live(g) /\ dialogs[g].token = dialogs[e].token => e = g
    BY <2>4 DEF LiveIsOwn
  <2>6. dialogs[d].token # dialogs[e].token BY <2>2, <2>4, <2>5 DEF Live
  <2>7. \A g \in 1..MaxDialogs : Live(g)' => Live(g) /\ dialogs'[g].token = dialogs[g].token
    BY <2>2 DEF Live
  <2>8. \A r \in Sources : choices'[r].token # dialogs[e].token BY <2>2, <2>5, <2>6
  <2> QED BY <2>3, <2>4, <2>5, <2>7, <2>8
<1>7. ASSUME NEW s \in Sources, restore(s) PROVE LiveIsOwn'
  <2>1. UNCHANGED <<choices, opening, dialogs>> BY <1>7 DEF restore, kept
  <2>2. PICK u \in Token : /\ u.n = issued + 1 /\ honoured' = (honoured \ {opening[s]}) \cup {u}
                           /\ restored'[s] = u /\ \A r \in Sources : r # s => restored'[r] = restored[r]
    BY <1>7, RestoreDoes
  <2>3. issued \in Nat BY DEF Typed
  <2> SUFFICES ASSUME NEW e \in 1..MaxDialogs, Live(e)
               PROVE  /\ dialogs[e].token \in honoured'
                      /\ \A r \in Sources : dialogs[e].token \notin {choices[r].token, opening[r], restored'[r]}
                      /\ \A g \in 1..MaxDialogs : Live(g) /\ dialogs[g].token = dialogs[e].token => e = g
    BY <2>1 DEF LiveIsOwn, Live
  <2>4. /\ dialogs[e].token \in honoured
        /\ \A r \in Sources : dialogs[e].token \notin {choices[r].token, opening[r], restored[r]}
        /\ \A g \in 1..MaxDialogs : Live(g) /\ dialogs[g].token = dialogs[e].token => e = g
    BY DEF LiveIsOwn
  <2>5. dialogs[e].token \in Token /\ dialogs[e].token.n <= issued BY LiveWasIssued
  <2>6. dialogs[e].token # u BY <2>2, <2>3, <2>5
  <2> QED BY <2>2, <2>4, <2>6
<1>12. ASSUME NEW s \in Sources, restore_fails(s) PROVE LiveIsOwn'
  <2>1. Ends(s) /\ UNCHANGED <<choices, honoured, dialogs>> BY <1>12 DEF restore_fails, kept, desktop
  <2> QED BY <1>1, <2>1, EndsDoes DEF Live
<1>13. ASSUME NEW s \in Sources, open(s) PROVE LiveIsOwn'
  <2>1. UNCHANGED <<honoured, dialogs>> BY <1>13 DEF open, desktop
  <2>2. /\ opening'[s] = NoToken /\ restored'[s] = NoToken
        /\ \A r \in Sources : r # s => opening'[r] = opening[r] /\ restored'[r] = restored[r]
    BY <1>13, OpenDoes, EndsDoes
  <2>3. choices'[s].token = restored[s] /\ \A r \in Sources : r # s => choices'[r] = choices[r]
    BY <1>13, OpenDoes
  <2> SUFFICES ASSUME NEW e \in 1..MaxDialogs, Live(e)
               PROVE  /\ dialogs[e].token \in honoured
                      /\ \A r \in Sources : dialogs[e].token \notin {choices'[r].token, opening'[r], restored'[r]}
                      /\ \A g \in 1..MaxDialogs : Live(g) /\ dialogs[g].token = dialogs[e].token => e = g
    BY <2>1 DEF LiveIsOwn, Live
  <2>4. /\ dialogs[e].token \in honoured
        /\ \A r \in Sources : dialogs[e].token \notin {choices[r].token, opening[r], restored[r]}
        /\ \A g \in 1..MaxDialogs : Live(g) /\ dialogs[g].token = dialogs[e].token => e = g
    BY DEF LiveIsOwn
  <2>5. dialogs[e].token # NoToken BY DEF Live
  <2> QED BY <2>2, <2>3, <2>4, <2>5
<1>8. ASSUME retain PROVE LiveIsOwn'
  <2>1. \A s \in Sources : choices'[s] = choices[s] \/ choices'[s] = NoChoice BY <1>8, RetainDoes
  <2>2. UNCHANGED <<opening, restored, honoured, dialogs>> BY <1>8 DEF retain, builds, desktop
  <2> QED BY <1>1, <2>1, <2>2 DEF Live
<1>9. ASSUME Scan PROVE LiveIsOwn'
  <2>1. \A s \in Sources : opening'[s] = choices[s].token \/ opening'[s] = NoToken BY <1>9, ScanDoes
  <2>2. UNCHANGED <<choices, restored, honoured, dialogs>> BY <1>9 DEF Scan, desktop
  <2> QED BY <1>1, <2>1, <2>2 DEF Live
<1>10. CASE retained \/ SignsIn \/ Woken \/ screencasts_set \/ UNCHANGED vars
  <2>1. UNCHANGED <<choices, opening, restored, honoured, dialogs>>
    BY <1>10 DEF retained, SignsIn, Woken, screencasts_set, kept, desktop, builds, vars
  <2> QED BY <1>1, <2>1 DEF Live
<1>11. ASSUME Restart PROVE LiveIsOwn'
  BY <1>11, RestartDoes DEF LiveIsOwn, Live
<1> QED BY <1>2, <1>3, <1>4, <1>5, <1>6, <1>7, <1>8, <1>9, <1>10, <1>11, <1>12, <1>13 DEF Next

\* Only its own source's build uses a token up, and has the next one then.
LEMMA NextStaysHonoured ==
    ASSUME Counted, Typed, HeldByOne, NextIsHonoured, [Next]_vars PROVE NextIsHonoured'
<1>1. ASSUME UNCHANGED <<opening, restored>>, honoured \subseteq honoured' PROVE NextIsHonoured'
  BY <1>1 DEF NextIsHonoured
<1>2. ASSUME NEW s \in Sources, begin_choice(s) \/ delete_configured_source(s) \/ ScreenStops(s) PROVE NextIsHonoured'
  BY <1>1, <1>2 DEF begin_choice, delete_configured_source, ScreenStops, desktop, builds
<1>3. ASSUME NEW d \in 1..MaxDialogs, choose(d) \/ RequestDropped(d) \/ end_choice(d) \/ chosen(d) PROVE NextIsHonoured'
  BY <1>1, <1>3 DEF choose, RequestDropped, end_choice, chosen, desktop, builds
<1>4. ASSUME NEW d \in 1..MaxDialogs, Answered(d) PROVE NextIsHonoured'
  <2>1. honoured \subseteq honoured' BY <1>4, AnsweredDoes
  <2> QED BY <1>1, <1>4, <2>1 DEF Answered, builds
<1>5. ASSUME NEW s \in Sources, restore(s) PROVE NextIsHonoured'
  <2>1. opening[s] \in Token /\ opening' = opening BY <1>5, RestoreDoes
  <2>2. PICK u \in Token : /\ honoured' = (honoured \ {opening[s]}) \cup {u} /\ restored'[s] = u
                           /\ \A r \in Sources : r # s => restored'[r] = restored[r]
    BY <1>5, RestoreDoes
  <2> SUFFICES ASSUME NEW r \in Sources, restored'[r] # NoToken PROVE restored'[r] \in honoured' /\ opening[r] # NoToken
    BY <2>1 DEF NextIsHonoured
  <2>3. CASE r = s BY <2>1, <2>2, <2>3, NoTokenIsNone
  <2>4. CASE r # s
    <3>1. restored'[r] = restored[r] BY <2>2, <2>4
    <3>2. restored[r] \in honoured /\ opening[r] # NoToken BY <3>1 DEF NextIsHonoured
    <3>3. Holds(s, opening[s]) /\ (restored[r] = opening[s] => Holds(r, opening[s])) BY DEF Holds
    <3>4. restored[r] # opening[s] BY <2>1, <2>4, <3>3 DEF HeldByOne
    <3> QED BY <2>2, <3>1, <3>2, <3>4
  <2> QED BY <2>3, <2>4
<1>6. ASSUME NEW s \in Sources, restore_fails(s) \/ open(s) PROVE NextIsHonoured'
  <2>1. Ends(s) /\ honoured' = honoured BY <1>6 DEF restore_fails, open, desktop
  <2> QED BY <2>1, EndsDoes DEF NextIsHonoured
<1>7. ASSUME Scan PROVE NextIsHonoured'
  <2>1. \A s \in Sources : opening[s] = NoToken BY <1>7 DEF Scan
  <2>2. \A s \in Sources : restored'[s] = NoToken BY <1>7, <2>1 DEF Scan, NextIsHonoured
  <2> QED BY <2>2 DEF NextIsHonoured
<1>8. CASE retain \/ retained \/ SignsIn \/ Woken \/ screencasts_set \/ UNCHANGED vars
  BY <1>1, <1>8 DEF retain, retained, SignsIn, Woken, screencasts_set, desktop, builds, vars
<1>9. ASSUME Restart PROVE NextIsHonoured'
  BY <1>9 DEF Restart, NextIsHonoured
<1> QED BY <1>2, <1>3, <1>4, <1>5, <1>6, <1>7, <1>8, <1>9 DEF Next

LEMMA TokenStaysHonoured ==
    ASSUME Counted, Typed, HeldByOne, LiveIsOwn, NextIsHonoured, TokenIsHonoured, [Next]_vars PROVE TokenIsHonoured'
<1>1. ASSUME lost' = lost, honoured \subseteq honoured', UNCHANGED <<opening, restored>>,
             \A s \in Sources : choices'[s] = choices[s] \/ choices'[s] = NoChoice
      PROVE  TokenIsHonoured'
  <2>1. NoChoice.token = NoToken BY DEF NoChoice
  <2> SUFFICES ASSUME NEW s \in Sources, choices'[s].token # NoToken, choices'[s].token \notin lost, ~Used(s)'
               PROVE  choices'[s].token \in honoured'
    BY <1>1 DEF TokenIsHonoured
  <2>2. choices'[s] = choices[s] BY <1>1, <2>1
  <2>3. ~Used(s) BY <1>1, <2>2 DEF Used
  <2> QED BY <1>1, <2>2, <2>3 DEF TokenIsHonoured
<1>2. ASSUME NEW s \in Sources, begin_choice(s) \/ delete_configured_source(s) \/ ScreenStops(s) PROVE TokenIsHonoured'
  BY <1>1, <1>2 DEF begin_choice, delete_configured_source, ScreenStops, kept, desktop, builds
<1>3. ASSUME NEW d \in 1..MaxDialogs, choose(d) \/ RequestDropped(d) \/ end_choice(d) PROVE TokenIsHonoured'
  BY <1>1, <1>3 DEF choose, RequestDropped, end_choice, kept, desktop, builds
<1>4. ASSUME NEW d \in 1..MaxDialogs, Answered(d) PROVE TokenIsHonoured'
  <2>1. honoured \subseteq honoured' BY <1>4, AnsweredDoes
  <2> QED BY <1>1, <1>4, <2>1 DEF Answered, builds
<1>5. ASSUME NEW d \in 1..MaxDialogs, chosen(d) PROVE TokenIsHonoured'
  <2>1. PICK s \in Sources : s = dialogs[d].source BY <1>5, ChosenDoes
  <2>2. /\ dialogs[d].at = "chosen" /\ choices'[s].token = dialogs[d].token
        /\ \A r \in Sources : r # s => choices'[r] = choices[r]
    BY <1>5, <2>1, ChosenDoes
  <2>3. UNCHANGED <<lost, honoured, opening, restored>> BY <1>5 DEF chosen, desktop
  <2>4. dialogs[d].token # NoToken => dialogs[d].token \in honoured BY <2>2 DEF LiveIsOwn, Live
  <2> SUFFICES ASSUME NEW r \in Sources, choices'[r].token # NoToken, choices'[r].token \notin lost, ~Used(r)'
               PROVE  choices'[r].token \in honoured
    BY <2>3 DEF TokenIsHonoured
  <2>5. CASE r = s BY <2>2, <2>4, <2>5
  <2>6. CASE r # s
    <3>1. choices'[r] = choices[r] BY <2>2, <2>6
    <3>2. ~Used(r) BY <2>3, <3>1 DEF Used
    <3> QED BY <3>1, <3>2 DEF TokenIsHonoured
  <2> QED BY <2>5, <2>6
\* The source's own token is in use; no other holds it.
<1>6. ASSUME NEW s \in Sources, restore(s) PROVE TokenIsHonoured'
  <2>1. opening[s] \in Token /\ opening' = opening /\ UNCHANGED <<choices, lost>> BY <1>6, RestoreDoes DEF restore, kept
  <2>2. PICK u \in Token : /\ honoured' = (honoured \ {opening[s]}) \cup {u} /\ restored'[s] = u
                           /\ \A r \in Sources : r # s => restored'[r] = restored[r]
    BY <1>6, RestoreDoes
  <2> SUFFICES ASSUME NEW r \in Sources, choices[r].token # NoToken, choices[r].token \notin lost, ~Used(r)'
               PROVE  choices[r].token \in honoured'
    BY <2>1 DEF TokenIsHonoured
  <2>3. CASE r = s
    <3>1. choices[s].token # opening[s] BY <2>1, <2>2, <2>3, NoTokenIsNone DEF Used
    <3>2. ~Used(s) BY <3>1 DEF Used
    <3> QED BY <2>2, <2>3, <3>1, <3>2 DEF TokenIsHonoured
  <2>4. CASE r # s
    <3>1. ~Used(r) BY <2>1, <2>2, <2>4 DEF Used
    <3>2. Holds(s, opening[s]) /\ (choices[r].token = opening[s] => Holds(r, opening[s])) BY DEF Holds
    <3>3. choices[r].token # opening[s] BY <2>1, <2>4, <3>2 DEF HeldByOne
    <3> QED BY <2>2, <3>1, <3>3 DEF TokenIsHonoured
  <2> QED BY <2>3, <2>4
<1>7. ASSUME NEW s \in Sources, restore_fails(s) PROVE TokenIsHonoured'
  <2>1. Ends(s) /\ UNCHANGED <<choices, honoured>> BY <1>7 DEF restore_fails, kept, desktop
  <2>2. lost \subseteq lost' /\ (restored[s] # NoToken => opening[s] \in lost') BY <1>7 DEF restore_fails
  <2> SUFFICES ASSUME NEW r \in Sources, choices[r].token # NoToken, choices[r].token \notin lost', ~Used(r)'
               PROVE  choices[r].token \in honoured
    BY <2>1 DEF TokenIsHonoured
  <2>3. ~Used(r)
    <3>1. CASE r = s BY <2>2, <3>1 DEF Used
    <3>2. CASE r # s BY <2>1, <3>2, EndsDoes DEF Used
    <3> QED BY <3>1, <3>2
  <2> QED BY <2>2, <2>3 DEF TokenIsHonoured
<1>8. ASSUME NEW s \in Sources, open(s) PROVE TokenIsHonoured'
  <2>1. Ends(s) /\ restored[s] \in Token /\ UNCHANGED <<lost, honoured>> BY <1>8, OpenDoes DEF open, desktop
  <2>2. choices'[s].token = restored[s] /\ \A r \in Sources : r # s => choices'[r] = choices[r]
    BY <1>8, OpenDoes
  <2>3. restored[s] \in honoured BY <2>1, NoTokenIsNone DEF NextIsHonoured
  <2> SUFFICES ASSUME NEW r \in Sources, choices'[r].token # NoToken, choices'[r].token \notin lost, ~Used(r)'
               PROVE  choices'[r].token \in honoured
    BY <2>1 DEF TokenIsHonoured
  <2>4. CASE r = s BY <2>2, <2>3, <2>4
  <2>5. CASE r # s
    <3>1. choices'[r] = choices[r] BY <2>2, <2>5
    <3>2. ~Used(r) BY <2>1, <2>5, <3>1, EndsDoes DEF Used
    <3> QED BY <3>1, <3>2 DEF TokenIsHonoured
  <2> QED BY <2>4, <2>5
<1>9. ASSUME Scan PROVE TokenIsHonoured'
  <2>1. \A s \in Sources : restored[s] = NoToken BY <1>9 DEF Scan, NextIsHonoured
  <2>2. UNCHANGED <<choices, lost, honoured>> BY <1>9 DEF Scan, desktop
  <2> QED BY <2>1, <2>2 DEF TokenIsHonoured, Used
<1>10. ASSUME retain PROVE TokenIsHonoured'
  <2>1. \A s \in Sources : choices'[s] = choices[s] \/ choices'[s] = NoChoice BY <1>10, RetainDoes
  <2> QED BY <1>1, <1>10, <2>1 DEF retain, desktop, builds
<1>11. CASE retained \/ SignsIn \/ Woken \/ screencasts_set \/ UNCHANGED vars
  BY <1>1, <1>11 DEF retained, SignsIn, Woken, screencasts_set, kept, desktop, builds, vars
\* The token saved is the one kept, or is lost.
<1>12. ASSUME Restart PROVE TokenIsHonoured'
  <2>1. choices' = stored /\ honoured' = honoured BY <1>12 DEF Restart, desktop
  <2>2. /\ lost \subseteq lost'
        /\ \A s \in Sources : stored[s].token # choices[s].token \/ restored[s] # NoToken => stored[s].token \in lost'
    BY <1>12 DEF Restart
  <2> SUFFICES ASSUME NEW s \in Sources, stored[s].token # NoToken, stored[s].token \notin lost'
               PROVE  stored[s].token \in honoured
    BY <2>1 DEF TokenIsHonoured
  <2>3. stored[s].token = choices[s].token /\ restored[s] = NoToken BY <2>2
  <2>4. ~Used(s) BY <2>3 DEF Used
  <2> QED BY <2>2, <2>3, <2>4 DEF TokenIsHonoured
<1> QED BY <1>2, <1>3, <1>4, <1>5, <1>6, <1>7, <1>8, <1>9, <1>10, <1>11, <1>12 DEF Next

----------------------------------------------------------------------------
LEMMA IInvAtFirst ==
    ASSUME Counted, Init PROVE IInv
<1>1. NoChoice \in Choice /\ NoChoice.token = NoToken /\ NoChoice.generation = 0 BY DEF NoChoice, Choice
<1>2. \A d \in 1..MaxDialogs : dialogs[d].at = "none" /\ dialogs[d].token = NoToken /\ IsDialog(dialogs[d])
  BY DEF Init, IsDialog, Stages
<1>3. choices \in [Sources -> Choice] /\ stored = choices /\ \A s \in Sources : choices[s] = NoChoice
  BY <1>1 DEF Init
<1>4. KeptTyped BY <1>3 DEF Init, KeptTyped
<1>5. DialogsTyped BY <1>2 DEF Init, DialogsTyped
<1>6. Typed BY <1>4, <1>5 DEF Init, Typed
<1>7. Generations BY <1>1, <1>3, OverIsFinite DEF Init, Generations, CountsChoices
<1>8. SaverIsLast /\ AskingHasOne BY <1>2, <1>3 DEF Init, SaverIsLast, AskingHasOne, Asks
<1>9. \A s \in Sources, t \in Token : ~Holds(s, t)
  BY <1>1, <1>2, <1>3, NoTokenIsNone DEF Init, Holds
<1>10. HeldWasIssued /\ HeldByOne BY <1>9 DEF HeldWasIssued, HeldByOne
<1>11. LiveIsOwn /\ NextIsHonoured /\ TokenIsHonoured
  BY <1>1, <1>2, <1>3 DEF Init, LiveIsOwn, Live, NextIsHonoured, TokenIsHonoured
<1> QED BY <1>6, <1>7, <1>8, <1>10, <1>11 DEF IInv

LEMMA IInvStays ==
    ASSUME Counted, IInv, [Next]_vars PROVE IInv'
BY TypedStays, GenerationsStay, SaverStaysLast, AskingStays, TokensStayOwn, LiveStaysOwn, NextStaysHonoured, TokenStaysHonoured DEF IInv

LEMMA IInvSays ==
    ASSUME Counted, IInv PROVE TypeOK /\ ChangesAreSaved /\ OneDialogEach /\ TokenIsHonoured
<1>1. ASSUME NEW c \in [Sources -> Choice], CountsChoices(c)
      PROVE  c \in [Sources -> [token : Token \cup {NoToken}, generation : 0..MaxDialogs]]
  <2>1. ASSUME NEW s \in Sources PROVE c[s] \in [token : Token \cup {NoToken}, generation : 0..MaxDialogs]
    <3>1. PICK n \in Nat : n = c[s].generation BY DEF Choice
    <3>2. n <= Cardinality(Over) BY <1>1, <3>1 DEF CountsChoices
    <3>3. n \in 0..MaxDialogs BY <3>2, OverIsFinite DEF Counted
    <3>4. c[s] \in Choice OBVIOUS
    <3> QED BY <3>1, <3>3, <3>4 DEF Choice
  <2> QED BY <2>1
<1>2. TypeOK BY <1>1 DEF IInv, Typed, KeptTyped, Generations, TypeOK
<1>3. ChangesAreSaved BY DEF IInv, SaverIsLast, ChangesAreSaved
<1>4. OneDialogEach BY DEF IInv, AskingHasOne, Asks, OneDialogEach
<1> QED BY <1>2, <1>3, <1>4 DEF IInv

\* A source has at most one dialog on the display, what is chosen is saved or
\* on its way to be, and the token kept restores the screen but for one lost,
\* whatever choices, deletions, restores, failures of those, saves and restarts
\* come in which order (Screencasts::begin_choice, end_choice, retain, open,
\* set_token and the saver).
THEOREM ScreensStaySound ==
    ASSUME Counted PROVE Spec => [](TypeOK /\ ChangesAreSaved /\ OneDialogEach /\ TokenIsHonoured)
<1>1. Init => IInv BY IInvAtFirst
<1>2. IInv /\ [Next]_vars => IInv' BY IInvStays
<1>3. IInv => TypeOK /\ ChangesAreSaved /\ OneDialogEach /\ TokenIsHonoured BY IInvSays
<1> QED BY <1>1, <1>2, <1>3, PTL DEF Spec
=============================================================================
