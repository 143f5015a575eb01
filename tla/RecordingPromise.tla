------------------------ MODULE RecordingPromise ------------------------
(***************************************************************************)
(* What a node promises of its recordings, without monitors, legs, locks,  *)
(* database or restarts in sight: a source is held by at most one take at  *)
(* a time, from the moment its start is accepted until its stop begins; a  *)
(* take moves forward only, and what has begun to start or to stop comes   *)
(* to an end.  Recording implements it.                                    *)
(***************************************************************************)
CONSTANTS Sources,    \* what can be recorded
          Sessions,   \* ids of recordings, each used once
          NoSession   \* nobody holds the source

VARIABLES holder,     \* source -> the take that holds it, or NoSession
          take        \* session -> how far its take has come

vars == <<holder, take>>

Takes == {"none", "starting", "rolling", "closing", "ended"}

TypeOK ==
    /\ holder \in [Sources -> Sessions \cup {NoSession}]
    /\ take \in [Sessions -> Takes]

Init ==
    /\ holder = [r \in Sources |-> NoSession]
    /\ take = [s \in Sessions |-> "none"]

(* The sources after the takes in S let go of theirs. *)
Released(S) == [r \in Sources |-> IF holder[r] \in S THEN NoSession ELSE holder[r]]

Moved(S, t) == [s \in Sessions |-> IF s \in S THEN t ELSE take[s]]

(* A start is accepted: the source was free. *)
Accept(s, r) ==
    /\ take[s] = "none"
    /\ holder[r] = NoSession
    /\ holder' = [holder EXCEPT ![r] = s]
    /\ take' = [take EXCEPT ![s] = "starting"]

(* Every output has started. *)
Roll(s) ==
    /\ take[s] = "starting"
    /\ take' = [take EXCEPT ![s] = "rolling"]
    /\ UNCHANGED holder

(* It could not start. *)
Abandon(s) ==
    /\ take[s] = "starting"
    /\ take' = [take EXCEPT ![s] = "ended"]
    /\ holder' = Released({s})

(* Stops begin, of one take or of all those on the sources a rescan replaces: *)
(* the sources are free again.                                                *)
Close(S) ==
    /\ S # {}
    /\ \A s \in S : take[s] = "rolling"
    /\ take' = Moved(S, "closing")
    /\ holder' = Released(S)

(* Its files are closed and its outcome is known. *)
End(s) ==
    /\ take[s] = "closing"
    /\ take' = [take EXCEPT ![s] = "ended"]
    /\ UNCHANGED holder

(* The node is gone, and with it all that was under way. *)
Lose ==
    /\ holder' = [r \in Sources |-> NoSession]
    /\ take' = [s \in Sessions |-> IF take[s] = "none" THEN "none" ELSE "ended"]

Next ==
    \/ \E s \in Sessions, r \in Sources : Accept(s, r)
    \/ \E s \in Sessions : Roll(s) \/ Abandon(s) \/ End(s)
    \/ \E S \in SUBSET Sessions : Close(S)
    \/ Lose

SafetySpec == Init /\ [][Next]_vars

Fairness == \A s \in Sessions : WF_vars(Roll(s) \/ Abandon(s)) /\ WF_vars(End(s))

Spec == SafetySpec /\ Fairness
=========================================================================
