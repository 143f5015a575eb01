--------------------------- MODULE MonitorLife ---------------------------
(***************************************************************************)
(* What the rest of the node may assume of the monitor a source has in     *)
(* place: there is at most one, each is a new one, it may fail at any      *)
(* time, and a failed one is not repaired but replaced.  (The pipeline of  *)
(* one replaced may run on until its recordings have ended.)               *)
(* SourceManager provides it; Recording relies on it.                      *)
(***************************************************************************)
EXTENDS Naturals

CONSTANT Sources    \* source ids

VARIABLES monitor,  \* source -> its monitor, numbered as they come; 0: none
          made,     \* source -> monitors it has had
          broken    \* sources whose monitor has failed

vars == <<monitor, made, broken>>

Init ==
    /\ monitor = [r \in Sources |-> 0]
    /\ made = [r \in Sources |-> 0]
    /\ broken = {}

(* Those of the sources in S come, together.                               *)
Starts(S) ==
    /\ \A r \in S : monitor[r] = 0
    /\ made' = [r \in Sources |-> IF r \in S THEN made[r] + 1 ELSE made[r]]
    /\ monitor' = [r \in Sources |-> IF r \in S THEN made[r] + 1 ELSE monitor[r]]
    /\ UNCHANGED broken

Fails(r) ==
    /\ monitor[r] # 0
    /\ broken' = broken \cup {r}
    /\ UNCHANGED <<monitor, made>>

(* Those of the sources in S go: they went away, changed or failed, or all *)
(* do, with the process.                                                   *)
Go(S) ==
    /\ monitor' = [r \in Sources |-> IF r \in S THEN 0 ELSE monitor[r]]
    /\ broken' = broken \ S
    /\ UNCHANGED made

Next ==
    \/ \E r \in Sources : Fails(r)
    \/ \E S \in SUBSET Sources : Starts(S) \/ Go(S)

Spec == Init /\ [][Next]_vars
==========================================================================
