-------------------------- MODULE SchedulerProofs --------------------------
(***************************************************************************)
(* What TLAPS proves of Scheduler, for any schedules, rules and targets    *)
(* and whatever the bounds.                                                *)
(***************************************************************************)
EXTENDS Scheduler, FiniteSetTheorems, WellFoundedInduction, TLAPS

(* The constants, and the values things begin with, are well typed. *)
LEMMA BasicTypes ==
  /\ Lead \in Nat \ {0} /\ Idle \in Nat \ {0} /\ Grace \in Nat \ {0} /\ Kept \in Nat \ {0}
  /\ MaxTime \in Nat /\ Times \subseteq Nat /\ 0 \in Times
  /\ NoRow \in Rows /\ Deleted \in Saves /\ Free \in Works /\ NoRequest \in Requests
<1>1. Times \subseteq Nat /\ 0 \in Times
  BY TimesAssumption DEF Times
<1>2. NoRow \in Rows
  BY DEF NoRow, Rows, Statuses
<1>3. Deleted \in Saves
  BY <1>1, TimesAssumption DEF Deleted, Saves
<1>4. Free \in Works
  BY <1>1, <1>2, <1>3 DEF Free, Works
<1>5. NoRequest \in Requests
  BY TimesAssumption DEF NoRequest, Requests
<1> QED BY <1>1, <1>2, <1>3, <1>4, <1>5, TimesAssumption

-----------------------------------------------------------------------------
(* What the operators return. *)

LEMMA EarliestIs ==
  ASSUME NEW T \in SUBSET Nat, T # {}
  PROVE  Earliest(T) \in T /\ \A y \in T : Earliest(T) <= y
<1>1. \E x \in T : \A y \in T : ~ (<<y, x>> \in OpToRel(<, Nat))
  BY NatLessThanWellFounded, WFMin
<1>2. \E x \in T : \A y \in T : x <= y
  <2>1. PICK x \in T : \A y \in T : ~ (<<y, x>> \in OpToRel(<, Nat))
    BY <1>1
  <2>2. ASSUME NEW y \in T, y < x
        PROVE  FALSE
    <3>1. <<y, x>> \in Nat \X Nat /\ <<y, x>>[1] < <<y, x>>[2]
      BY <2>2
    <3>2. <<y, x>> \in OpToRel(<, Nat)
      BY <3>1 DEF OpToRel
    <3> QED BY <3>2, <2>1
  <2> QED BY <2>2
<1> QED BY <1>2 DEF Earliest, Min

LEMMA RuleTypes ==
  ASSUME NEW r \in Rules
  PROVE  /\ r.starts \subseteq Times /\ r.duration \in Nat
         /\ \A u \in Times : window_end(r, u) \in Nat
<1>1. r.starts \subseteq Times /\ r.duration \in Nat
  BY TimesAssumption DEF Times
<1> QED BY <1>1, BasicTypes DEF window_end

(* The next look is no later than asked and no later than a lead before the   *)
(* next start.                                                                *)
LEMMA LookAgainIs ==
  ASSUME NEW E \in Saves, NEW t \in Times, NEW until \in Nat
  PROVE  /\ look_again(E, t, until) \in Nat
         /\ look_again(E, t, until) <= until
         /\ E.enabled => \A v \in E.rule.starts : v > t + Lead =>
                                                  look_again(E, t, until) <= v - Lead
<1> DEFINE after == next_after(E.rule, t + Lead)
           T == {until} \cup (IF ~E.enabled THEN {} ELSE {u - Lead : u \in after})
<1>1. E.rule \in Rules /\ E.rule.starts \subseteq Times /\ Times \subseteq Nat /\ t \in Nat
  BY RuleTypes, BasicTypes DEF Saves
<1>2. after \subseteq {s \in E.rule.starts : s > t + Lead}
  BY DEF next_after
<1>3. T \in SUBSET Nat /\ T # {}
  <2>1. ASSUME NEW u \in after
        PROVE  u - Lead \in Nat
    <3>1. u \in Nat /\ u > t + Lead
      BY <1>1, <1>2
    <3> HIDE DEF after
    <3> QED BY <3>1, <1>1, BasicTypes
  <2> HIDE DEF after
  <2> QED BY <2>1
<1>4. Earliest(T) \in T /\ \A y \in T : Earliest(T) <= y
  BY <1>3, EarliestIs
<1>5. look_again(E, t, until) = Earliest(T)
  BY DEF look_again
<1>6. ASSUME E.enabled, NEW v \in E.rule.starts, v > t + Lead
      PROVE  look_again(E, t, until) <= v - Lead
  <2> DEFINE L == {s \in E.rule.starts : s > t + Lead}
  <2>1. L \in SUBSET Nat /\ L # {}
    BY <1>1, <1>6
  <2>2. Earliest(L) \in L /\ \A y \in L : Earliest(L) <= y
    BY <2>1, EarliestIs
  <2>3. Earliest(L) \in after
    BY <2>2 DEF next_after
  <2>4. Earliest(L) - Lead \in T
    BY <2>3, <1>6
  <2>5. Earliest(L) \in Nat /\ Earliest(L) <= v /\ v \in Nat /\ Earliest(T) \in Nat
    BY <2>1, <2>2, <1>1, <1>3, <1>4, <1>6
  <2>6. Earliest(T) <= Earliest(L) - Lead
    BY <2>4, <1>4
  <2> HIDE DEF L, T
  <2> QED BY <2>5, <2>6, <1>5, BasicTypes
<1> QED BY <1>3, <1>4, <1>5, <1>6

(* What is pruned is over, and a row is there from Kept occurrences later.    *)
LEMMA PrunedIs ==
  ASSUME NEW table \in [Runs -> Rows], NEW s \in Schedules, NEW i \in pruned(table, s)
  PROVE  /\ i \in Runs /\ i[1] = s /\ table[i].status \notin {"none", "running"}
         /\ \E x \in Times : i[2] + Kept <= x /\ table[<<s, x>>] # NoRow
<1> DEFINE newer == {u \in Times : u > i[2] /\ table[<<s, u>>] # NoRow}
<1>1. i \in Runs /\ i[1] = s /\ table[i].status \notin {"none", "running"}
  BY DEF pruned
<1>2. Cardinality(newer) >= Kept
  BY DEF pruned
<1>3. i[2] \in Nat /\ Times \subseteq Nat
  BY <1>1, BasicTypes DEF Runs
<1>4. SUFFICES ASSUME \A x \in newer : x < i[2] + Kept
               PROVE  FALSE
  BY <1>1, <1>3, BasicTypes
<1> DEFINE room == (i[2] + 1)..(i[2] + Kept - 1)
<1>5. newer \subseteq room
  <2>1. ASSUME NEW x \in newer
        PROVE  x \in room
    <3>1. x \in Nat /\ x > i[2] /\ x < i[2] + Kept
      BY <1>3, <1>4, <2>1
    <3> HIDE DEF newer
    <3> QED BY <3>1, <1>3, BasicTypes
  <2> QED BY <2>1
<1>6. IsFiniteSet(room) /\ Cardinality(room) = Kept - 1
  <2> HIDE DEF newer
  <2>1. i[2] + 1 \in Int /\ i[2] + Kept - 1 \in Int
    BY <1>3, BasicTypes
  <2>2. /\ IsFiniteSet(room)
        /\ Cardinality(room) = IF i[2] + 1 > i[2] + Kept - 1 THEN 0
                               ELSE (i[2] + Kept - 1) - (i[2] + 1) + 1
    BY <2>1, FS_Interval
  <2> QED BY <2>2, <1>3, BasicTypes
<1>7. Cardinality(newer) \in Nat /\ Cardinality(newer) <= Cardinality(room)
  BY <1>5, <1>6, FS_Subset, FS_CardinalityType
<1> QED BY <1>2, <1>6, <1>7, BasicTypes

LEMMA InsertIs ==
  ASSUME rows \in [Runs -> Rows], NEW i \in Runs, NEW row \in Rows, schedule_run_insert(i, row)
  PROVE  LET table == [rows EXCEPT ![i] = row]
         IN  /\ rows' \in [Runs -> Rows] /\ table \in [Runs -> Rows]
             /\ \A j \in Runs : \/ rows'[j] = table[j] /\ j \notin pruned(table, i[1])
                                \/ rows'[j] = NoRow /\ j \in pruned(table, i[1])
  BY BasicTypes DEF schedule_run_insert

LEMMA UpdateIs ==
  ASSUME rows \in [Runs -> Rows], NEW i \in Runs, NEW row \in Rows, schedule_run_update(i, row)
  PROVE  /\ rows' \in [Runs -> Rows]
         /\ \A j \in Runs \ {i} : rows'[j] = rows[j]
         /\ rows[i] = NoRow => rows'[i] = NoRow
         /\ rows[i] # NoRow => rows'[i] = row
  BY DEF schedule_run_update

LEMMA NewRunType ==
  ASSUME NEW E \in Saves, NEW u \in Times, NEW st \in Statuses
  PROVE  /\ new_run(E.rule, u, st) \in Rows
         /\ new_run(E.rule, u, st) = [status |-> st, end |-> new_run(E.rule, u, st).end,
                                      ok |-> {}, failed |-> {}]
         /\ new_run(E.rule, u, st).end # 0 => new_run(E.rule, u, st).end = window_end(E.rule, u)
<1>1. E.rule \in Rules /\ E.rule.duration \in Nat /\ u \in Nat
  BY RuleTypes, BasicTypes DEF Saves
<1> QED BY <1>1 DEF new_run, Rows, window_end

LEMMA DueIs ==
  ASSUME NEW E \in Saves, NEW s \in Schedules, NEW t \in Int, NEW u \in due(s, E, t)
  PROVE  /\ E.enabled /\ u \in Times /\ <<s, u>> \in Runs /\ u \in E.rule.starts
         /\ u \in latest_at_or_before(E.rule, t + Lead) /\ u <= t + Lead
         /\ window_end(E.rule, u) > E.saved /\ rows[<<s, u>>] = NoRow
<1>1. E.rule \in Rules /\ E.rule.starts \subseteq Times
  BY RuleTypes DEF Saves
<1> QED BY <1>1 DEF due, latest_at_or_before, Runs

LEMMA ListedIs ==
  ASSUME work \in Works, NEW e \in work.list
  PROVE  /\ Listed(e) \in Works /\ e[1] \in Schedules /\ e[2] \in Saves
         /\ Listed(e).stage = "list" /\ Listed(e).list = work.list \ {e}
         /\ Listed(e).by = work.by /\ Listed(e).now = work.now /\ Listed(e).runs = work.runs
         /\ Listed(e).next = look_again(e[2], work.now, work.next)
<1>1. e[1] \in Schedules /\ e[2] \in Saves /\ work.now \in Times /\ work.next \in Nat
  BY DEF Works
<1>2. look_again(e[2], work.now, work.next) \in Nat
  BY <1>1, LookAgainIs
<1> QED BY <1>1, <1>2, BasicTypes DEF Listed, Works

-----------------------------------------------------------------------------
(* Types. *)

LEMMA InitIsTyped == Init => TypeOK
<1> SUFFICES ASSUME Init PROVE TypeOK
  OBVIOUS
<1>1. work = Free /\ work.by = "nobody" /\ work.stage = "free"
  BY DEF Init, Free
<1>2. request = NoRequest /\ request.stage = "idle"
  BY DEF Init, NoRequest
<1>3. schedules \in [Schedules -> Saves] /\ rows \in [Runs -> Rows] /\ begun \in [Runs -> Nat]
  BY BasicTypes DEF Init
<1>4. on \in [Targets -> Runs \cup {Nobody, Person}]
  BY DEF Init
<1>5. now \in Times /\ up \in BOOLEAN /\ woken \in BOOLEAN /\ next \in Nat /\ loose = {}
  BY BasicTypes DEF Init
<1> QED BY <1>1, <1>2, <1>3, <1>4, <1>5, BasicTypes DEF TypeOK, Stopping

LEMMA TypeStopSaves ==
  ASSUME TypeOK, WorkIsShaped, StopSaves
  PROVE  TypeOK'
<1>1. work.id \in Runs /\ work \in Works
  BY DEF StopSaves, WorkIsShaped, Stopping, TypeOK
<1>2. [work.run EXCEPT !.status = IF work.run.failed # {} THEN "partial" ELSE "done"] \in Rows
  BY <1>1 DEF Works, Rows, Statuses
<1>3. rows' \in [Runs -> Rows]
  BY <1>1, <1>2, UpdateIs DEF StopSaves, TypeOK
<1>4. After \in Works /\ (After.by = "nobody" <=> After.stage = "free") /\ After.by # "request"
  BY <1>1, BasicTypes DEF After, Works, Free, TypeOK
<1>5. request' \in Requests /\ (work.by # "loop" => request'.stage # "stopping")
  BY DEF StopSaves, TypeOK, Requests, NoRequest
<1>6. work.by = "loop" => request.stage # "stopping" /\ request' = request /\ woken' = woken
  BY DEF StopSaves, TypeOK
<1> QED BY <1>3, <1>4, <1>5, <1>6 DEF StopSaves, TypeOK, counts, ghosts

(* A run whose stop isn't saved: the lock is free again. *)
LEMMA StopSaveFailsIs ==
  ASSUME TypeOK, StopSaveFails
  PROVE  /\ up /\ work.stage = "stopped" /\ work' = Free
         /\ UNCHANGED <<now, up, schedules, rows, on, woken, begun, loose>>
         /\ \/ work.by = "loop" /\ next' = now + Idle /\ failed' = TRUE /\ request' = request
            \/ work.by = "request" /\ request' = NoRequest /\ UNCHANGED <<next, failed>>
  BY DEF StopSaveFails, TickFails, tables, ghosts

LEMMA TypeNext ==
  ASSUME TypeOK, WorkIsShaped, StartsWhatIsDue, [Next]_vars
  PROVE  TypeOK'
<1> USE BasicTypes
<1>0. work \in Works /\ request \in Requests /\ now \in Times
  BY DEF TypeOK
<1>1. ASSUME TickBegins
      PROVE  TypeOK'
  <2> DEFINE over == {i \in Running : rows[i].end <= now}
             ends == {now + Idle} \cup {rows[i].end : i \in Running \ over}
  <2>1. ends \in SUBSET Nat /\ ends # {} /\ over \subseteq Runs
    BY DEF TypeOK, Running, Rows
  <2>2. Earliest(ends) \in Nat
    BY <2>1, EarliestIs
  <2>3. {<<i, rows[i]>> : i \in over} \in SUBSET (Runs \X Rows)
    BY <2>1 DEF TypeOK
  <2>4. work' = [Free EXCEPT !.by = "loop", !.stage = "ends", !.now = now,
                             !.runs = {<<i, rows[i]>> : i \in over}, !.next = Earliest(ends)]
    BY <1>1 DEF TickBegins
  <2> HIDE DEF over, ends
  <2>5. work' \in Works /\ work'.by = "loop" /\ work'.stage = "ends"
    BY <2>2, <2>3, <2>4, <1>0 DEF Works, Free
  <2> QED BY <1>1, <2>5 DEF TickBegins, TypeOK, tables, ghosts, Free
<1>2. ASSUME TickStops
      PROVE  TypeOK'
  <2>1. PICK r \in work.runs :
           work' = [work EXCEPT !.stage = "stop", !.id = r[1], !.run = r[2], !.runs = @ \ {r}]
    BY <1>2 DEF TickStops
  <2>2. r[1] \in Runs /\ r[2] \in Rows /\ work.runs \ {r} \in SUBSET (Runs \X Rows)
    BY <1>0 DEF Works
  <2>3. work' \in Works /\ work'.stage = "stop" /\ work'.by = work.by
    BY <2>1, <2>2, <1>0 DEF Works, Stopping
  <2>4. work.by = "loop"
    BY <1>2 DEF TickStops, WorkIsShaped
  <2> QED BY <1>2, <2>3, <2>4 DEF TickStops, TypeOK, tables, loop, ghosts
<1>3. ASSUME StopCalls
      PROVE  TypeOK'
  <2>1. work' = [work EXCEPT !.stage = "stopped"] /\ work.id \in Runs /\ work.by # "nobody"
    BY <1>3 DEF StopCalls, WorkIsShaped, Stopping, TypeOK
  <2>2. work' \in Works /\ work'.stage = "stopped" /\ work'.by = work.by
    BY <2>1, <1>0 DEF Works, Stopping
  <2> DEFINE stops == work.run.ok \cap (Recorded \cup StopAtEnd)
  <2>3. PICK fail \in SUBSET stops :
           /\ on' = [t \in Targets |->
                         IF t \in stops \ fail /\ (t \in Channels \/ on[t] = work.id)
                         THEN Nobody ELSE on[t]]
           /\ loose' = loose \cup {<<t, work.id>> : t \in fail}
    BY <1>3 DEF StopCalls
  <2>4. stops \subseteq Targets
    BY <1>0 DEF Works, Rows
  <2> HIDE DEF stops
  <2>5. on' \in [Targets -> Runs \cup {Nobody, Person}] /\ loose' \subseteq Targets \X Runs
    BY <2>1, <2>3, <2>4 DEF TypeOK
  <2> QED BY <1>3, <2>1, <2>2, <2>5 DEF StopCalls, TypeOK, tables, loop, Stopping
<1>4. ASSUME StopSaves
      PROVE  TypeOK'
  BY <1>4, TypeStopSaves
<1>5. ASSUME schedules_list
      PROVE  TypeOK'
  <2> DEFINE list == {<<s, schedules[s]>> : s \in {s \in Schedules : schedules[s].exists}}
  <2>1. list \in SUBSET (Schedules \X Saves)
    BY DEF TypeOK
  <2>2. work' = [work EXCEPT !.stage = "list", !.list = list] /\ work.by = "loop"
    BY <1>5 DEF schedules_list, WorkIsShaped
  <2> HIDE DEF list
  <2>3. work' \in Works /\ work'.stage = "list" /\ work'.by = "loop"
    BY <2>1, <2>2, <1>0 DEF Works
  <2> QED BY <1>5, <2>2, <2>3 DEF schedules_list, TypeOK, tables, loop, ghosts
<1>6. ASSUME NEW e \in work.list, NothingDue(e)
      PROVE  TypeOK'
  <2>0. work' = Listed(e) /\ work.by = "loop"
    BY <1>6 DEF NothingDue, WorkIsShaped
  <2>1. work' \in Works /\ work'.stage = "list" /\ work'.by = work.by
    BY <2>0, <1>0, ListedIs
  <2> QED BY <1>6, <2>1 DEF NothingDue, TypeOK, tables, loop, ghosts, WorkIsShaped
<1>7. ASSUME NEW e \in work.list, NEW u \in Times, ComesDue(e, u)
      PROVE  TypeOK'
  <2> DEFINE i == <<e[1], u>>
             open == work.now < window_end(e[2].rule, u)
             row == new_run(e[2].rule, u, IF open THEN "running" ELSE "skipped")
             started == [work EXCEPT !.stage = "record", !.id = i, !.run = row, !.rule = e[2]]
  <2>1. work.by = "loop" /\ e[1] \in Schedules /\ e[2] \in Saves /\ i \in Runs
    BY <1>7, <1>0 DEF ComesDue, WorkIsShaped, Works, Runs
  <2>2. row \in Rows
    BY <2>1, NewRunType DEF Statuses
  <2>3. CASE ~Insertable(i)
    <3>1. work' = Free /\ next' = now + Idle /\ UNCHANGED <<rows, begun>>
      BY <1>7, <2>3 DEF ComesDue, TickFails
    <3>2. next' \in Nat
      BY <3>1, <1>0
    <3> QED BY <1>7, <2>1, <3>1, <3>2 DEF ComesDue, TypeOK, Free
  <2>4. CASE Insertable(i)
    <3>1. /\ schedule_run_insert(i, row)
          /\ begun' = IF open THEN [begun EXCEPT ![i] = @ + 1] ELSE begun
          /\ work' = IF open THEN started ELSE Listed(e)
          /\ next' = next
      BY <1>7, <2>4 DEF ComesDue
    <3>2. rows' \in [Runs -> Rows] /\ begun' \in [Runs -> Nat]
      <4> HIDE DEF i, row, open
      <4>1. rows' \in [Runs -> Rows]
        BY <3>1, <2>1, <2>2, InsertIs DEF TypeOK
      <4> QED BY <3>1, <2>1, <4>1 DEF TypeOK
    <3> HIDE DEF i, row, open
    <3>3. started \in Works /\ started.stage = "record" /\ started.by = "loop"
      BY <2>1, <2>2, <1>0 DEF Works, Starting
    <3>4. Listed(e) \in Works /\ Listed(e).stage = "list" /\ Listed(e).by = "loop"
      BY <1>0, <2>1, ListedIs DEF Works
    <3> HIDE DEF started
    <3>5. work' \in Works /\ work'.stage \in {"list", "record"} /\ work'.by = "loop"
      BY <3>1, <3>3, <3>4
    <3> QED BY <1>7, <2>1, <3>1, <3>2, <3>5 DEF ComesDue, TypeOK
  <2> QED BY <2>3, <2>4
<1>8. ASSUME RecordCalls
      PROVE  TypeOK'
  <2> DEFINE can == {t \in Recorded : on[t] = Nobody}
  <2>1. PICK unheard \in SUBSET can, unreached \in SUBSET can :
           /\ on' = [t \in Targets |-> IF t \in can \ unreached THEN work.id ELSE on[t]]
           /\ loose' = loose \cup {<<t, work.id>> : t \in unheard}
           /\ work' = [work EXCEPT !.stage = "play",
                          !.run.ok = can \ (unheard \cup unreached),
                          !.run.failed = (Recorded \ can) \cup unheard \cup unreached]
    BY <1>8 DEF RecordCalls
  <2>2. can \subseteq Targets /\ Recorded \subseteq Targets /\ work.id \in Runs /\ work.by = "loop"
    BY <1>8 DEF RecordCalls, Targets, WorkIsShaped, Starting
  <2> HIDE DEF can
  <2>3. work' \in Works /\ work'.stage = "play" /\ work'.by = "loop"
    BY <2>1, <2>2, <1>0 DEF Works, Rows, Starting
  <2>4. on' \in [Targets -> Runs \cup {Nobody, Person}] /\ loose' \subseteq Targets \X Runs
    BY <2>1, <2>2 DEF TypeOK
  <2> QED BY <1>8, <2>2, <2>3, <2>4 DEF RecordCalls, TypeOK, tables, loop
<1>9. ASSUME PlayCalls
      PROVE  TypeOK'
  <2>1. PICK unheard \in SUBSET Channels, unreached \in SUBSET Channels :
           /\ on' = [t \in Targets |-> IF t \in Channels \ unreached THEN work.id ELSE on[t]]
           /\ loose' = loose \cup {<<t, work.id>> : t \in unheard}
           /\ work' = [work EXCEPT !.stage = "save",
                          !.run.ok = @ \cup (Channels \ (unheard \cup unreached)),
                          !.run.failed = @ \cup unheard \cup unreached]
    BY <1>9 DEF PlayCalls
  <2>2. Channels \subseteq Targets /\ work.id \in Runs /\ work.by = "loop"
    BY <1>9 DEF PlayCalls, Targets, WorkIsShaped, Starting
  <2>3. work' \in Works /\ work'.stage = "save" /\ work'.by = "loop"
    <3> DEFINE ok == work.run.ok \cup (Channels \ (unheard \cup unreached))
               lost == work.run.failed \cup unheard \cup unreached
               r == [work.run EXCEPT !.ok = ok, !.failed = lost]
    <3>1. work \in Works /\ work.run \in Rows BY <1>0 DEF Works
    <3>2. ok \in SUBSET Targets /\ lost \in SUBSET Targets BY <2>2, <3>1 DEF Rows
    <3>3. work' = [work EXCEPT !.stage = "save", !.run = r]
      <4>1. DOMAIN work = {"by", "stage", "now", "next", "runs", "list", "run", "id", "rule"} BY <3>1 DEF Works
      <4>2. DOMAIN work.run = {"status", "end", "ok", "failed"} BY <3>1 DEF Rows
      <4> QED BY <2>1, <4>1, <4>2
    <3> HIDE DEF ok, lost
    <3>4. r \in Rows BY <3>1, <3>2 DEF Rows
    <3> HIDE DEF r
    <3>5. "save" \in Starting BY DEF Starting
    <3>6. work' \in Works /\ work'.stage = "save" /\ work'.by = work.by BY <3>1, <3>3, <3>4, <3>5 DEF Works
    <3> QED BY <2>2, <3>6
  <2>4. on' \in [Targets -> Runs \cup {Nobody, Person}] /\ loose' \subseteq Targets \X Runs
    BY <2>1, <2>2 DEF TypeOK
  <2> QED BY <1>9, <2>2, <2>3, <2>4 DEF PlayCalls, TypeOK, tables, loop
<1>10. ASSUME StartSaves, StartsWhatIsDue
       PROVE  TypeOK'
  <2> DEFINE row == [work.run EXCEPT !.status = status(work.run)]
  <2>1. work.by = "loop" /\ work.id \in Runs /\ <<work.id[1], work.rule>> \in work.list
    BY <1>10 DEF StartSaves, WorkIsShaped, Starting, StartsWhatIsDue
  <2>2. row \in Rows /\ work.run.ok \in SUBSET Targets
    BY <1>0 DEF Works, Rows, status, Statuses
  <2> HIDE DEF row
  <2>3. CASE /\ schedule_run_update(work.id, row)
             /\ work' = Listed(<<work.id[1], work.rule>>)
             /\ loose' = loose \cup {<<t, work.id>> : t \in
                           {t \in work.run.ok : work.run.end = 0 \/ rows[work.id] = NoRow}}
             /\ next' = next
    <3>1. rows' \in [Runs -> Rows]
      BY <2>1, <2>2, <2>3, UpdateIs DEF TypeOK
    <3>2. work' \in Works /\ work'.stage = "list" /\ work'.by = "loop"
      BY <2>1, <2>3, <1>0, ListedIs DEF Works
    <3>3. loose' \subseteq Targets \X Runs
      BY <2>1, <2>2, <2>3 DEF TypeOK
    <3> QED BY <1>10, <2>1, <2>3, <3>1, <3>2, <3>3 DEF StartSaves, TypeOK
  <2>4. CASE /\ TickFails /\ rows' = rows
             /\ loose' = loose \cup {<<t, work.id>> : t \in work.run.ok}
    <3>1. work' = Free /\ next' \in Nat
      BY <2>4, <1>0 DEF TickFails
    <3>2. loose' \subseteq Targets \X Runs
      BY <2>1, <2>2, <2>4 DEF TypeOK
    <3> QED BY <1>10, <2>1, <2>4, <3>1, <3>2 DEF StartSaves, TypeOK, Free
  <2>5. \/ /\ schedule_run_update(work.id, row)
           /\ work' = Listed(<<work.id[1], work.rule>>)
           /\ loose' = loose \cup {<<t, work.id>> : t \in
                         {t \in work.run.ok : work.run.end = 0 \/ rows[work.id] = NoRow}}
           /\ next' = next
        \/ /\ TickFails /\ rows' = rows
           /\ loose' = loose \cup {<<t, work.id>> : t \in work.run.ok}
    BY <1>10 DEF StartSaves, row
  <2> QED BY <2>3, <2>4, <2>5
<1>11. ASSUME TickEnds
       PROVE  TypeOK'
  BY <1>11, <1>0 DEF TickEnds, TypeOK, tables, ghosts, Works, Free, WorkIsShaped
<1>12. ASSUME NEW s \in Schedules, NEW rule \in Rules, NEW enabled \in BOOLEAN,
              save_schedule(s, rule, enabled)
       PROVE  TypeOK'
  BY <1>12, <1>0 DEF save_schedule, TypeOK, ghosts, Saves
<1>13. ASSUME NEW s \in Schedules, NEW kind \in {"stop", "delete"}, RequestStop(s, kind)
       PROVE  TypeOK'
  BY <1>13, <1>0 DEF RequestStop, TypeOK, tables, loop, ghosts, Requests, NoRequest
<1>14. ASSUME stop_now
       PROVE  TypeOK'
  <2>1. CASE UNCHANGED work /\ request' \in {NoRequest, [request EXCEPT !.stage = "delete"]}
    <3>1. request' \in Requests /\ request'.stage # "stopping" /\ request.stage = "lock"
      BY <1>14, <2>1, <1>0 DEF stop_now, Requests, NoRequest
    <3> QED BY <1>14, <2>1, <3>1 DEF stop_now, TypeOK, tables, loop, ghosts, counts
  <2>2. ASSUME NEW i \in Running,
               work' = [Free EXCEPT !.by = "request", !.stage = "stop", !.id = i, !.run = rows[i]],
               request' = [request EXCEPT !.stage = "stopping"]
        PROVE  TypeOK'
    <3>1. i \in Runs /\ rows[i] \in Rows
      BY DEF Running, TypeOK
    <3>2. work' \in Works /\ work'.by = "request" /\ work'.stage = "stop"
      BY <2>2, <3>1 DEF Works, Free, Stopping
    <3>3. request' \in Requests /\ request'.stage = "stopping"
      BY <2>2, <1>0 DEF Requests
    <3> QED BY <1>14, <3>2, <3>3 DEF stop_now, TypeOK, tables, loop, ghosts, counts, Stopping
  <2> QED BY <1>14, <2>1, <2>2 DEF stop_now
<1>15. ASSUME delete_schedule
       PROVE  TypeOK'
  BY <1>15, <1>0 DEF delete_schedule, TypeOK, counts, NoRequest, Running, Requests
<1>16. ASSUME DropRequest
       PROVE  TypeOK'
  BY <1>16, <1>0 DEF DropRequest, TypeOK, tables, loop, ghosts, counts, NoRequest, Free
<1>17. ASSUME NEW t \in Recorded, PersonStops(t)
       PROVE  TypeOK'
  BY <1>17 DEF PersonStops, TypeOK, tables, loop, ghosts, counts
<1>18. ASSUME NEW t \in Recorded, PersonStarts(t)
       PROVE  TypeOK'
  BY <1>18 DEF PersonStarts, TypeOK, tables, loop, ghosts
<1>19. ASSUME TimePasses
       PROVE  TypeOK'
  BY <1>19, <1>0 DEF TimePasses, TypeOK, tables, loop, ghosts, counts, Times
<1>20. ASSUME Crash
       PROVE  TypeOK'
  <2> DEFINE ok == IF work.stage \in {"play", "save"} THEN work.run.ok ELSE {}
  <2>1. ok \subseteq Targets /\ (ok # {} => work.id \in Runs)
    BY <1>0 DEF Works, Rows, WorkIsShaped, Starting
  <2>2. loose' = loose \cup {<<t, work.id>> : t \in ok}
    BY <1>20 DEF Crash
  <2> HIDE DEF ok
  <2>3. loose' \subseteq Targets \X Runs
    BY <2>1, <2>2 DEF TypeOK
  <2>4. work' = Free /\ request' = NoRequest /\ UNCHANGED <<now, tables, on, next, begun>>
    BY <1>20 DEF Crash
  <2>5. work'.by = "nobody" /\ work'.stage = "free" /\ request'.stage = "idle"
    BY <2>4 DEF Free, NoRequest
  <2>6. up' = FALSE /\ woken' = FALSE
    BY <1>20 DEF Crash
  <2> QED BY <2>3, <2>4, <2>5, <2>6 DEF TypeOK, tables
<1>21. ASSUME Restart
       PROVE  TypeOK'
  BY <1>21, <1>0 DEF Restart, TypeOK, tables, ghosts, counts
<1>22. CASE UNCHANGED vars
  BY <1>22 DEF vars, tables, loop, ghosts, counts, TypeOK
<1>23. ASSUME StopSaveFails
       PROVE  TypeOK'
  <2>1. work' = Free /\ UNCHANGED <<now, up, schedules, rows, on, woken, begun, loose>>
    BY <1>23, StopSaveFailsIs
  <2>2. next' \in Nat /\ request' \in Requests /\ request'.stage # "stopping"
    <3>1. CASE work.by = "loop" /\ next' = now + Idle /\ request' = request
      BY <3>1, <1>0 DEF TypeOK
    <3>2. CASE request' = NoRequest /\ next' = next
      BY <3>2 DEF TypeOK, NoRequest, Requests
    <3> QED BY <1>23, <3>1, <3>2, StopSaveFailsIs
  <2>3. work' \in Works /\ work'.by = "nobody" /\ work'.stage = "free"
    BY <2>1, <1>0 DEF Free
  <2> QED BY <2>1, <2>2, <2>3 DEF TypeOK
<1> QED BY <1>23, <1>1, <1>2, <1>3, <1>4, <1>5, <1>6, <1>7, <1>8, <1>9, <1>10, <1>11, <1>12, <1>13,
           <1>14, <1>15, <1>16, <1>17, <1>18, <1>19, <1>20, <1>21, <1>22 DEF Next

-----------------------------------------------------------------------------
(* What the lock's holder does, and the targets. *)

LEMMA FreeIs ==
  /\ Free.by = "nobody" /\ Free.stage = "free" /\ Free.now = 0 /\ Free.next = 0
  /\ Free.runs = {} /\ Free.list = {} /\ Free.run = NoRow
  BY DEF Free

LEMMA TimeTypes ==
  ASSUME TypeOK
  PROVE  /\ now \in Nat /\ next \in Nat /\ work.now \in Nat /\ work.next \in Nat /\ Tick \in Nat
         /\ \A s \in Schedules : schedules[s] \in Saves /\ schedules[s].saved \in Nat
         /\ \A e \in work.list : e[1] \in Schedules /\ e[2] \in Saves /\ e[2].saved \in Nat
         /\ \A s \in Schedules : \A E \in Known(s) : E \in Saves
<1>1. now \in Nat /\ next \in Nat /\ work.now \in Nat /\ work.next \in Nat /\ Tick \in Nat
  BY BasicTypes DEF TypeOK, Works, Tick
<1>2. \A s \in Schedules : schedules[s] \in Saves /\ schedules[s].saved \in Nat
  BY BasicTypes DEF TypeOK, Saves
<1>3. \A e \in work.list : e[1] \in Schedules /\ e[2] \in Saves
  BY DEF TypeOK, Works
<1>4. \A e \in work.list : e[2].saved \in Nat
  BY <1>3, BasicTypes DEF Saves
<1>5. \A s \in Schedules : \A E \in Known(s) : E \in Saves
  BY <1>2, <1>3 DEF Known
<1> QED BY <1>1, <1>2, <1>3, <1>4, <1>5

Control == WorkIsShaped /\ StopsWhatRuns /\ StartsWhatIsDue /\ NothingForgotten

(* What neither takes the lock nor lets it go changes nothing of this. *)
LEMMA ControlHolds ==
  ASSUME TypeOK, Control, work' = work, rows' = rows, loose \subseteq loose',
         woken => woken', now' \in Nat, now <= now', up => up',
         \A t \in Targets, i \in Runs : on'[t] = i => on[t] = i
  PROVE  Control'
<1>0. Recorded \cup StopAtEnd \subseteq Targets /\ now \in Nat /\ work.now \in Nat
  BY ChannelsAssumption, TimeTypes DEF Targets
<1>1. WorkIsShaped'
  BY <1>0 DEF Control, WorkIsShaped
<1>2. StopsWhatRuns'
  <2>1. work.stage = "stopped" => work.id \in Runs
    BY DEF Control, WorkIsShaped, Stopping
  <2>2. work.stage = "stopped" =>
          \A t \in Recorded \cup StopAtEnd : on'[t] = work.id => <<t, work.id>> \in loose'
    BY <2>1, <1>0 DEF Control, StopsWhatRuns
  <2> QED BY <2>2 DEF Control, StopsWhatRuns
<1>3. StartsWhatIsDue'
  BY <1>0 DEF Control, StartsWhatIsDue, WorkIsShaped
<1>4. NothingForgotten'
  BY <1>0 DEF Control, NothingForgotten
<1> QED BY <1>1, <1>2, <1>3, <1>4 DEF Control

(* Once the lock is free, all that counts is that nothing is forgotten. *)
LEMMA ControlFreed ==
  ASSUME work' = Free, NothingForgotten'
  PROVE  Control'
  BY FreeIs DEF Control, WorkIsShaped, StopsWhatRuns, StartsWhatIsDue, Starting, Stopping

LEMMA ControlTickBegins ==
  ASSUME TypeOK, Control, TickBegins
  PROVE  Control'
<1> DEFINE over == {i \in Running : rows[i].end <= now}
           ends == {now + Idle} \cup {rows[i].end : i \in Running \ over}
<1>1. /\ work' = [Free EXCEPT !.by = "loop", !.stage = "ends", !.now = now,
                              !.runs = {<<i, rows[i]>> : i \in over}, !.next = Earliest(ends)]
      /\ work = Free /\ up /\ UNCHANGED <<now, up, tables, on, loose>>
  BY DEF TickBegins, ghosts
<1>2. ends \in SUBSET Nat /\ ends # {} /\ now + Idle \in ends
  BY TimeTypes, BasicTypes DEF TypeOK, Running, Rows
<1>3. Earliest(ends) <= now + Idle
  BY <1>2, EarliestIs
<1>4. \A r \in {<<i, rows[i]>> : i \in over} :
         r[1] \in Runs /\ r[2] = rows[r[1]] /\ r[2].status = "running"
  BY DEF Running
<1>5. \A q, r \in {<<i, rows[i]>> : i \in over} : q[1] = r[1] => q = r
  OBVIOUS
<1> DEFINE runs == {<<i, rows[i]>> : i \in over}
<1>6. /\ work'.by = "loop" /\ work'.stage = "ends" /\ work'.now = now /\ work'.next <= now + Idle
      /\ work'.list = {} /\ work'.runs = runs
  BY <1>1, <1>3, FreeIs DEF Free
<1> HIDE DEF over, ends
<1>7. WorkIsShaped'
  BY <1>1, <1>6, FreeIs, TimeTypes DEF WorkIsShaped, Starting, Stopping
<1>8. StopsWhatRuns'
  BY <1>1, <1>4, <1>5, <1>6 DEF StopsWhatRuns, Stopping, tables
<1>9. StartsWhatIsDue'
  BY <1>6 DEF StartsWhatIsDue, Starting
<1>10. NothingForgotten'
  BY <1>1, FreeIs DEF Control, NothingForgotten, tables
<1> QED BY <1>7, <1>8, <1>9, <1>10 DEF Control

LEMMA ControlTickStops ==
  ASSUME TypeOK, Control, TickStops
  PROVE  Control'
<1>1. PICK r \in work.runs :
         work' = [work EXCEPT !.stage = "stop", !.id = r[1], !.run = r[2], !.runs = @ \ {r}]
  BY DEF TickStops
<1>2. r[1] \in Runs /\ r[2] \in Rows /\ r[2].status = "running" /\ rows[r[1]] \in {NoRow, r[2]}
  BY DEF TypeOK, Works, Control, StopsWhatRuns
<1>3. /\ work'.by = work.by /\ work'.stage = "stop" /\ work'.now = work.now /\ work'.next = work.next
      /\ work'.list = work.list /\ work'.runs = work.runs \ {r} /\ work'.id = r[1] /\ work'.run = r[2]
  BY <1>1 DEF TypeOK, Works
<1>4. up /\ work.by = "loop" /\ work.stage = "ends" /\ UNCHANGED <<now, up, rows, on, loose>>
  BY DEF TickStops, WorkIsShaped, Control, tables, ghosts
<1>5. WorkIsShaped'
  BY <1>2, <1>3, <1>4 DEF Control, WorkIsShaped, Starting, Stopping
<1>6. StopsWhatRuns'
  BY <1>2, <1>3, <1>4 DEF Control, StopsWhatRuns, Stopping
<1>7. StartsWhatIsDue'
  BY <1>3 DEF StartsWhatIsDue, Starting
<1>8. NothingForgotten'
  BY <1>3, <1>4 DEF Control, NothingForgotten
<1> QED BY <1>5, <1>6, <1>7, <1>8 DEF Control

LEMMA ControlStopCalls ==
  ASSUME TypeOK, Control, StopCalls
  PROVE  Control'
<1> DEFINE stops == work.run.ok \cap (Recorded \cup StopAtEnd)
<1>1. PICK fail \in SUBSET stops :
         /\ on' = [t \in Targets |->
                       IF t \in stops \ fail /\ (t \in Channels \/ on[t] = work.id)
                       THEN Nobody ELSE on[t]]
         /\ loose' = loose \cup {<<t, work.id>> : t \in fail}
  BY DEF StopCalls
<1>2. work.id \in Runs /\ work.run.status = "running" /\ rows[work.id] \in {NoRow, work.run}
  BY DEF StopCalls, Control, WorkIsShaped, StopsWhatRuns, Stopping
<1>3. /\ work'.by = work.by /\ work'.stage = "stopped" /\ work'.now = work.now
      /\ work'.next = work.next /\ work'.list = work.list /\ work'.runs = work.runs
      /\ work'.id = work.id /\ work'.run = work.run
  BY DEF StopCalls, TypeOK, Works
<1>4. up /\ work.stage = "stop" /\ UNCHANGED <<now, up, rows>>
  BY DEF StopCalls, tables
<1>5. Recorded \cup StopAtEnd \subseteq Targets
  BY ChannelsAssumption DEF Targets
<1>6. \A t \in Targets, i \in Runs : on'[t] = i => on[t] = i
  BY <1>1, PeopleAssumption
<1>7. \A t \in Recorded \cup StopAtEnd : on'[t] = work.id => <<t, work.id>> \in loose'
  <2> SUFFICES ASSUME NEW t \in Recorded \cup StopAtEnd, on'[t] = work.id,
                      <<t, work.id>> \notin loose'
               PROVE  FALSE
    OBVIOUS
  <2>1. on[t] = work.id /\ <<t, work.id>> \notin loose /\ t \notin fail
    BY <1>1, <1>2, <1>5, <1>6
  <2>2. rows[work.id].status = "running" /\ t \in rows[work.id].ok
    BY <2>1, <1>2, <1>4 DEF Control, NothingForgotten
  <2>3. t \in stops
    BY <2>2, <1>2 DEF NoRow
  <2> HIDE DEF stops
  <2>4. on'[t] = Nobody
    BY <2>1, <2>3, <1>1, <1>5
  <2> QED BY <2>4, <1>2, PeopleAssumption
<1> HIDE DEF stops
<1>8. WorkIsShaped'
  BY <1>2, <1>3, <1>4 DEF Control, WorkIsShaped, Starting, Stopping, TypeOK
<1>9. StopsWhatRuns'
  BY <1>3, <1>4, <1>7 DEF Control, StopsWhatRuns, Stopping
<1>10. StartsWhatIsDue'
  BY <1>3 DEF StartsWhatIsDue, Starting
<1>11. NothingForgotten'
  BY <1>1, <1>3, <1>4, <1>5, <1>6 DEF Control, NothingForgotten
<1> QED BY <1>8, <1>9, <1>10, <1>11 DEF Control

LEMMA SavedRunIs ==
  ASSUME TypeOK, Control, StopSaves
  PROVE  LET row == [work.run EXCEPT !.status = IF work.run.failed # {} THEN "partial" ELSE "done"]
         IN  /\ work.id \in Runs /\ row \in Rows /\ row.status \in {"partial", "done"}
             /\ rows' \in [Runs -> Rows]
             /\ \A j \in Runs \ {work.id} : rows'[j] = rows[j]
             /\ rows[work.id] = NoRow => rows'[work.id] = NoRow
             /\ rows[work.id] # NoRow => rows'[work.id] = row
<1> DEFINE row == [work.run EXCEPT !.status = IF work.run.failed # {} THEN "partial" ELSE "done"]
<1>1. work.id \in Runs /\ row \in Rows /\ row.status \in {"partial", "done"}
  BY DEF StopSaves, Control, WorkIsShaped, Stopping, TypeOK, Works, Rows, Statuses
<1>2. schedule_run_update(work.id, row) /\ rows \in [Runs -> Rows]
  BY DEF StopSaves, TypeOK
<1> HIDE DEF row
<1>3. /\ rows' \in [Runs -> Rows]
      /\ \A j \in Runs \ {work.id} : rows'[j] = rows[j]
      /\ rows[work.id] = NoRow => rows'[work.id] = NoRow
      /\ rows[work.id] # NoRow => rows'[work.id] = row
  BY <1>1, <1>2, UpdateIs
<1> QED BY <1>1, <1>3 DEF row

LEMMA ControlStopSaves ==
  ASSUME TypeOK, Control, StopSaves
  PROVE  Control'
<1>1. /\ work.id \in Runs /\ rows' \in [Runs -> Rows]
      /\ \A j \in Runs \ {work.id} : rows'[j] = rows[j]
      /\ rows'[work.id].status # "running"
  <2>1. NoRow.status # "running"
    BY DEF NoRow
  <2> QED BY <2>1, SavedRunIs
<1>2. up /\ work.stage = "stopped" /\ work' = After /\ UNCHANGED <<now, up, on, loose>>
  BY DEF StopSaves, ghosts
<1>3. \A t \in Recorded \cup StopAtEnd : on[t] = work.id => <<t, work.id>> \in loose
  BY <1>2 DEF Control, StopsWhatRuns
<1>4. NothingForgotten'
  <2> SUFFICES ASSUME NEW t \in Recorded \cup StopAtEnd, NEW i \in Runs,
                      on[t] = i, <<t, i>> \notin loose
               PROVE  rows'[i].status = "running" /\ t \in rows'[i].ok
    BY <1>2 DEF NothingForgotten
  <2>1. i # work.id
    BY <1>3
  <2> QED BY <2>1, <1>1, <1>2 DEF Control, NothingForgotten
<1>5. CASE work.by = "loop"
  <2>1. work' = [work EXCEPT !.stage = "ends", !.run = NoRow, !.id = <<>>]
    BY <1>2, <1>5 DEF After
  <2>2. /\ work'.by = work.by /\ work'.stage = "ends" /\ work'.now = work.now
        /\ work'.next = work.next /\ work'.list = work.list /\ work'.runs = work.runs
    BY <2>1 DEF TypeOK, Works
  <2>3. WorkIsShaped'
    BY <2>2, <1>2, <1>5 DEF Control, WorkIsShaped, Starting, Stopping
  <2>4. StopsWhatRuns'
    <3>1. \A r \in work.runs : r[1] \in Runs /\ r[1] # work.id
      BY <1>2 DEF Control, StopsWhatRuns, Stopping, TypeOK, Works
    <3> QED BY <3>1, <2>2, <1>1 DEF Control, StopsWhatRuns, Stopping
  <2>5. StartsWhatIsDue'
    BY <2>2 DEF StartsWhatIsDue, Starting
  <2> QED BY <2>3, <2>4, <2>5, <1>4 DEF Control
<1>6. CASE work.by # "loop"
  BY <1>2, <1>4, <1>6, ControlFreed DEF After
<1> QED BY <1>5, <1>6

LEMMA ControlList ==
  ASSUME TypeOK, Control, schedules_list
  PROVE  Control'
<1> DEFINE list == {<<s, schedules[s]>> : s \in {s \in Schedules : schedules[s].exists}}
<1>1. /\ up /\ work.stage = "ends" /\ work.runs = {} /\ work' = [work EXCEPT !.stage = "list", !.list = list]
      /\ UNCHANGED <<now, up, rows, on, loose>>
  BY DEF schedules_list, tables, ghosts
<1>2. /\ work'.by = work.by /\ work'.stage = "list" /\ work'.now = work.now
      /\ work'.next = work.next /\ work'.list = list /\ work'.runs = {}
  BY <1>1 DEF TypeOK, Works
<1>3. \A e, f \in list : e[1] = f[1] => e = f
  OBVIOUS
<1> HIDE DEF list
<1>4. WorkIsShaped'
  BY <1>1, <1>2, <1>3 DEF Control, WorkIsShaped, Starting, Stopping
<1>5. StopsWhatRuns'
  BY <1>2 DEF StopsWhatRuns, Stopping
<1>6. StartsWhatIsDue'
  BY <1>2 DEF StartsWhatIsDue, Starting
<1>7. NothingForgotten'
  BY <1>1, <1>2 DEF Control, NothingForgotten
<1> QED BY <1>4, <1>5, <1>6, <1>7 DEF Control

(* A tick that is done with an entry of its list, once nothing is forgotten.  *)
LEMMA ControlListed ==
  ASSUME TypeOK, Control, NEW e \in work.list, work' = Listed(e), up, UNCHANGED <<now, up>>,
         NothingForgotten'
  PROVE  Control'
<1>0. /\ e[2] \in Saves /\ work.now \in Times /\ work.next \in Nat /\ work \in Works
  BY TimeTypes DEF TypeOK, Works
<1>1. work'.stage = "list" /\ work'.list = work.list \ {e} /\ work'.by = work.by
      /\ work'.now = work.now /\ work'.runs = work.runs
      /\ work'.next = look_again(e[2], work.now, work.next)
  BY <1>0, ListedIs
<1>2. work'.next \in Nat /\ work'.next <= work.next
  BY <1>0, <1>1, LookAgainIs
<1>3. work.by = "loop" /\ work.runs = {}
  BY DEF Control, WorkIsShaped, Starting, Stopping
<1>4. WorkIsShaped'
  BY <1>0, <1>1, <1>2, <1>3, TimeTypes, BasicTypes DEF Control, WorkIsShaped, Starting, Stopping
<1>5. StopsWhatRuns'
  BY <1>1, <1>3 DEF StopsWhatRuns, Stopping
<1>6. StartsWhatIsDue'
  BY <1>1 DEF StartsWhatIsDue, Starting
<1> QED BY <1>4, <1>5, <1>6 DEF Control

LEMMA ControlNothingDue ==
  ASSUME TypeOK, Control, NEW e \in work.list, NothingDue(e)
  PROVE  Control'
<1>1. work' = Listed(e) /\ up /\ work.stage = "list" /\ UNCHANGED <<now, up, rows, on, loose>>
  BY DEF NothingDue, tables, ghosts
<1>2. NothingForgotten'
  BY <1>1 DEF Control, NothingForgotten
<1> QED BY <1>1, <1>2, ControlListed

(* What an occurrence's row is, and what else is pruned with it.              *)
LEMMA ComesDueIs ==
  ASSUME TypeOK, Control, NEW e \in work.list, NEW u \in Times, ComesDue(e, u),
         Insertable(<<e[1], u>>)
  PROVE  LET i == <<e[1], u>>
             open == work.now < window_end(e[2].rule, u)
             row == new_run(e[2].rule, u, IF open THEN "running" ELSE "skipped")
             table == [rows EXCEPT ![i] = row]
         IN  /\ i \in Runs /\ row \in Rows /\ row # NoRow
             /\ row.status = IF open THEN "running" ELSE "skipped"
             /\ row.ok = {} /\ row = [row EXCEPT !.ok = {}, !.failed = {}]
             /\ row.end # 0 => row.end = window_end(e[2].rule, u)
             /\ rows[i] = NoRow /\ schedules[e[1]].exists /\ table \in [Runs -> Rows]
             /\ rows' \in [Runs -> Rows]
             /\ \A j \in Runs : \/ rows'[j] = table[j] /\ j \notin pruned(table, e[1])
                                \/ rows'[j] = NoRow /\ j \in pruned(table, e[1])
             /\ open => rows'[i] = row
<1> DEFINE i == <<e[1], u>>
           open == work.now < window_end(e[2].rule, u)
           st == IF open THEN "running" ELSE "skipped"
           row == new_run(e[2].rule, u, st)
           table == [rows EXCEPT ![i] = row]
<1>0. e[1] \in Schedules /\ e[2] \in Saves
  BY TimeTypes
<1>1. u \in due(e[1], e[2], work.now) /\ work.now \in Int
  BY TimeTypes DEF ComesDue
<1>2. i \in Runs
  BY <1>0 DEF Runs
<1>3. rows[i] = NoRow /\ schedules[e[1]].exists
  BY DEF Insertable
<1>4. /\ row \in Rows /\ row = [status |-> st, end |-> row.end, ok |-> {}, failed |-> {}]
      /\ row.end # 0 => row.end = window_end(e[2].rule, u)
  BY <1>0, NewRunType DEF Statuses
<1> HIDE DEF row, open
<1>5. row.status = st /\ row.ok = {} /\ row = [row EXCEPT !.ok = {}, !.failed = {}]
  <2>1. row.status = st /\ row.ok = {} /\ row.failed = {}
    BY <1>4
  <2> HIDE DEF st
  <2>2. row = [row EXCEPT !.ok = {}, !.failed = {}]
    BY <1>4, <2>1 DEF Rows
  <2> QED BY <2>1, <2>2
<1>6. row # NoRow
  BY <1>5 DEF NoRow
<1>7. schedule_run_insert(i, row) /\ rows \in [Runs -> Rows]
  BY DEF ComesDue, TypeOK, row, open
<1>8. /\ rows' \in [Runs -> Rows] /\ table \in [Runs -> Rows]
      /\ \A j \in Runs : \/ rows'[j] = table[j] /\ j \notin pruned(table, i[1])
                         \/ rows'[j] = NoRow /\ j \in pruned(table, i[1])
  BY <1>2, <1>4, <1>7, InsertIs
<1>9. open => rows'[i] = row
  <2> SUFFICES ASSUME open PROVE rows'[i] = row
    OBVIOUS
  <2>1. table[i].status = "running"
    BY <1>2, <1>5, <1>7
  <2> HIDE DEF table
  <2>2. i \notin pruned(table, i[1])
    BY <2>1, <1>8, <1>0, <1>2, PrunedIs
  <2> QED BY <2>2, <1>2, <1>7, <1>8 DEF table
<1>10. i[1] = e[1]
  OBVIOUS
<1> HIDE DEF i, open, table
<1>11. /\ i \in Runs /\ row \in Rows /\ row # NoRow
       /\ row.status = st
       /\ row.ok = {} /\ row = [row EXCEPT !.ok = {}, !.failed = {}]
       /\ row.end # 0 => row.end = window_end(e[2].rule, u)
       /\ rows[i] = NoRow /\ schedules[e[1]].exists /\ table \in [Runs -> Rows]
       /\ rows' \in [Runs -> Rows]
       /\ \A j \in Runs : \/ rows'[j] = table[j] /\ j \notin pruned(table, e[1])
                          \/ rows'[j] = NoRow /\ j \in pruned(table, e[1])
       /\ open => rows'[i] = row
  BY <1>2, <1>3, <1>4, <1>5, <1>6, <1>8, <1>9, <1>10
<1> QED BY <1>11 DEF i, open, row, table

LEMMA ControlComesDue ==
  ASSUME TypeOK, Control, NEW e \in work.list, NEW u \in Times, ComesDue(e, u)
  PROVE  Control'
<1> DEFINE i == <<e[1], u>>
           open == work.now < window_end(e[2].rule, u)
           row == new_run(e[2].rule, u, IF open THEN "running" ELSE "skipped")
           table == [rows EXCEPT ![i] = row]
<1>0. /\ work \in Works /\ e[2] \in Saves /\ e[1] \in Schedules /\ work.now \in Int
      /\ up /\ work.stage = "list" /\ u \in due(e[1], e[2], work.now)
      /\ UNCHANGED <<now, up, schedules, on, woken, loose>>
  BY TimeTypes DEF TypeOK, ComesDue
<1>1. u \in latest_at_or_before(e[2].rule, work.now + Lead)
  BY <1>0, DueIs
<1>2. CASE ~Insertable(i)
  <2>1. work' = Free /\ rows' = rows
    BY <1>2 DEF ComesDue, TickFails
  <2>2. NothingForgotten'
    BY <2>1, <1>0 DEF Control, NothingForgotten
  <2> QED BY <2>1, <2>2, ControlFreed
<1>3. CASE Insertable(i)
  <2>1. /\ i \in Runs /\ row \in Rows /\ row # NoRow
        /\ row.status = IF open THEN "running" ELSE "skipped"
        /\ row.ok = {} /\ row = [row EXCEPT !.ok = {}, !.failed = {}]
        /\ row.end # 0 => row.end = window_end(e[2].rule, u)
        /\ rows[i] = NoRow /\ table \in [Runs -> Rows]
        /\ \A j \in Runs : \/ rows'[j] = table[j] /\ j \notin pruned(table, e[1])
                           \/ rows'[j] = NoRow /\ j \in pruned(table, e[1])
        /\ open => rows'[i] = row
    BY <1>3, ComesDueIs
  <2>2. work' = IF open THEN [work EXCEPT !.stage = "record", !.id = i, !.run = row, !.rule = e[2]]
                ELSE Listed(e)
    BY <1>3 DEF ComesDue
  <2>3. i[1] = e[1] /\ i[2] = u /\ e = <<e[1], e[2]>>
    BY DEF TypeOK, Works
  <2>4. open <=> work.now < window_end(e[2].rule, u)
    OBVIOUS
  <2> HIDE DEF i, open, row, table
  <2>5. \A j \in Runs : j # i /\ rows[j].status = "running" => rows'[j] = rows[j]
    <3> SUFFICES ASSUME NEW j \in Runs, j # i, rows[j].status = "running"
                 PROVE  rows'[j] = rows[j]
      OBVIOUS
    <3>1. table[j] = rows[j]
      BY DEF table, TypeOK
    <3>2. j \notin pruned(table, e[1])
      BY <3>1, <2>1, <1>0, PrunedIs
    <3> QED BY <3>1, <3>2, <2>1
  <2>6. NothingForgotten'
    <3> SUFFICES ASSUME NEW t \in Recorded \cup StopAtEnd, NEW j \in Runs,
                        on[t] = j, <<t, j>> \notin loose
                 PROVE  rows'[j].status = "running" /\ t \in rows'[j].ok
      BY <1>0 DEF NothingForgotten
    <3>1. rows[j].status = "running" /\ t \in rows[j].ok
      BY <1>0 DEF Control, NothingForgotten
    <3>2. j # i
      BY <3>1, <2>1 DEF NoRow
    <3> QED BY <3>1, <3>2, <2>5
  <2>7. CASE ~open
    BY <2>2, <2>6, <2>7, <1>0, ControlListed
  <2>8. CASE open
    <3>1. /\ work'.by = work.by /\ work'.stage = "record" /\ work'.now = work.now
          /\ work'.next = work.next /\ work'.list = work.list /\ work'.runs = work.runs
          /\ work'.id = i /\ work'.run = row /\ work'.rule = e[2]
      BY <2>2, <2>8, <1>0 DEF Works
    <3>2. work.by = "loop" /\ work.runs = {}
      BY <1>0 DEF Control, WorkIsShaped, Stopping
    <3>3. WorkIsShaped'
      BY <3>1, <3>2, <2>1, <2>8, <1>0 DEF Control, WorkIsShaped, Starting, Stopping
    <3>4. StopsWhatRuns'
      BY <3>1, <3>2 DEF StopsWhatRuns, Stopping
    <3>5. StartsWhatIsDue'
      BY <3>1, <2>1, <2>3, <2>4, <2>8, <1>0, <1>1 DEF StartsWhatIsDue, latest_at_or_before
    <3> QED BY <3>3, <3>4, <3>5, <2>6 DEF Control
  <2> QED BY <2>7, <2>8
<1> QED BY <1>2, <1>3

LEMMA ControlRecordCalls ==
  ASSUME TypeOK, Control, RecordCalls
  PROVE  Control'
<1> DEFINE can == {t \in Recorded : on[t] = Nobody}
<1>1. PICK unheard \in SUBSET can, unreached \in SUBSET can :
         /\ on' = [t \in Targets |-> IF t \in can \ unreached THEN work.id ELSE on[t]]
         /\ loose' = loose \cup {<<t, work.id>> : t \in unheard}
         /\ work' = [work EXCEPT !.stage = "play",
                        !.run.ok = can \ (unheard \cup unreached),
                        !.run.failed = (Recorded \ can) \cup unheard \cup unreached]
  BY DEF RecordCalls
<1>2. /\ up /\ work.stage = "record" /\ work.by = "loop" /\ work.id \in Runs /\ work.run \in Rows
      /\ work.run.status = "running" /\ work.runs = {}
      /\ UNCHANGED <<now, up, rows, woken>>
  BY DEF RecordCalls, Control, WorkIsShaped, Starting, Stopping, TypeOK, Works, tables, loop
<1>3. /\ work'.by = work.by /\ work'.stage = "play" /\ work'.now = work.now
      /\ work'.next = work.next /\ work'.list = work.list /\ work'.runs = work.runs
      /\ work'.id = work.id /\ work'.rule = work.rule
      /\ work'.run = [work.run EXCEPT !.ok = can \ (unheard \cup unreached),
                                      !.failed = (Recorded \ can) \cup unheard \cup unreached]
  BY <1>1 DEF TypeOK, Works
<1>4. /\ work'.run.ok = can \ (unheard \cup unreached) /\ work'.run.status = "running"
      /\ work'.run.end = work.run.end
      /\ [work'.run EXCEPT !.ok = {}, !.failed = {}] = [work.run EXCEPT !.ok = {}, !.failed = {}]
  BY <1>2, <1>3 DEF Rows
<1>5. Recorded \cup StopAtEnd \subseteq Targets
  BY ChannelsAssumption DEF Targets
<1>6. \A t \in Recorded \cup StopAtEnd : on[t] = work.id => <<t, work.id>> \in loose
  <2> SUFFICES ASSUME NEW t \in Recorded \cup StopAtEnd, on[t] = work.id,
                      <<t, work.id>> \notin loose
               PROVE  FALSE
    OBVIOUS
  <2>1. t \in rows[work.id].ok
    BY <1>2 DEF Control, NothingForgotten
  <2>2. rows[work.id].ok = {}
    <3>1. rows[work.id] \in {NoRow, [work.run EXCEPT !.ok = {}, !.failed = {}]}
      BY <1>2 DEF Control, StartsWhatIsDue, Starting
    <3>2. [work.run EXCEPT !.ok = {}, !.failed = {}].ok = {} /\ NoRow.ok = {}
      BY <1>2 DEF Rows, NoRow
    <3> QED BY <3>1, <3>2
  <2> QED BY <2>1, <2>2
<1>7. \A t \in Recorded \cup StopAtEnd :
         on'[t] = work.id /\ <<t, work.id>> \notin loose' => t \in can \ (unheard \cup unreached)
  BY <1>1, <1>5, <1>6
<1>8. \A t \in Targets, i \in Runs : i # work.id /\ on'[t] = i => on[t] = i
  BY <1>1
<1> HIDE DEF can
<1>9. WorkIsShaped'
  BY <1>2, <1>3, <1>4 DEF Control, WorkIsShaped, Starting, Stopping
<1>10. StopsWhatRuns'
  BY <1>2, <1>3 DEF StopsWhatRuns, Stopping
<1>11. StartsWhatIsDue'
  BY <1>2, <1>3, <1>4, <1>7 DEF Control, StartsWhatIsDue, Starting
<1>12. NothingForgotten'
  BY <1>1, <1>2, <1>3, <1>5, <1>8 DEF Control, NothingForgotten
<1> QED BY <1>9, <1>10, <1>11, <1>12 DEF Control

LEMMA ControlPlayCalls ==
  ASSUME TypeOK, Control, PlayCalls
  PROVE  Control'
<1>1. PICK unheard \in SUBSET Channels, unreached \in SUBSET Channels :
         /\ on' = [t \in Targets |-> IF t \in Channels \ unreached THEN work.id ELSE on[t]]
         /\ loose' = loose \cup {<<t, work.id>> : t \in unheard}
         /\ work' = [work EXCEPT !.stage = "save",
                        !.run.ok = @ \cup (Channels \ (unheard \cup unreached)),
                        !.run.failed = @ \cup unheard \cup unreached]
  BY DEF PlayCalls
<1>2. /\ up /\ work.stage = "play" /\ work.by = "loop" /\ work.id \in Runs /\ work.run \in Rows
      /\ work.run.status = "running" /\ work.runs = {}
      /\ UNCHANGED <<now, up, rows, woken>>
  BY DEF PlayCalls, Control, WorkIsShaped, Starting, Stopping, TypeOK, Works, tables, loop
<1>3. /\ work'.by = work.by /\ work'.stage = "save" /\ work'.now = work.now
      /\ work'.next = work.next /\ work'.list = work.list /\ work'.runs = work.runs
      /\ work'.id = work.id /\ work'.rule = work.rule
      /\ work'.run = [work.run EXCEPT !.ok = @ \cup (Channels \ (unheard \cup unreached)),
                                      !.failed = @ \cup unheard \cup unreached]
  BY <1>1 DEF TypeOK, Works
<1>4. /\ work'.run.ok = work.run.ok \cup (Channels \ (unheard \cup unreached)) /\ work'.run.status = "running"
      /\ work'.run.end = work.run.end
      /\ [work'.run EXCEPT !.ok = {}, !.failed = {}] = [work.run EXCEPT !.ok = {}, !.failed = {}]
  BY <1>2, <1>3 DEF Rows
<1>5. Recorded \cup StopAtEnd \subseteq Targets /\ Channels \subseteq Targets
  BY ChannelsAssumption DEF Targets
<1>6. \A t \in Recorded \cup StopAtEnd :
         on'[t] = work.id /\ <<t, work.id>> \notin loose' => t \in work'.run.ok
  <2>1. \A t \in Recorded \cup StopAtEnd :
           on[t] = work.id /\ <<t, work.id>> \notin loose => t \in work.run.ok
    BY <1>2 DEF Control, StartsWhatIsDue, Starting
  <2> QED BY <2>1, <1>1, <1>4, <1>5
<1>7. \A t \in Targets, i \in Runs : i # work.id /\ on'[t] = i => on[t] = i
  BY <1>1
<1>8. WorkIsShaped'
  BY <1>2, <1>3, <1>4 DEF Control, WorkIsShaped, Starting, Stopping
<1>9. StopsWhatRuns'
  BY <1>2, <1>3 DEF StopsWhatRuns, Stopping
<1>10. StartsWhatIsDue'
  BY <1>2, <1>3, <1>4, <1>6 DEF Control, StartsWhatIsDue, Starting
<1>11. NothingForgotten'
  BY <1>1, <1>2, <1>3, <1>5, <1>7 DEF Control, NothingForgotten
<1> QED BY <1>8, <1>9, <1>10, <1>11 DEF Control

(* What saving a run that was started does: to its row, or nothing but that   *)
(* the tick fails.                                                            *)
StartIsSaved ==
    /\ work' = Listed(<<work.id[1], work.rule>>)
    /\ loose' = loose \cup {<<t, work.id>> : t \in
                   {t \in work.run.ok : work.run.end = 0 \/ rows[work.id] = NoRow}}
    /\ UNCHANGED <<next, failed>>
    /\ \A j \in Runs \ {work.id} : rows'[j] = rows[j]
    /\ rows[work.id] = NoRow => rows'[work.id] = NoRow
    /\ rows[work.id] # NoRow =>
          rows'[work.id] = [work.run EXCEPT !.status = status(work.run)]

StartIsLost ==
    TickFails /\ UNCHANGED rows /\ loose' = loose \cup {<<t, work.id>> : t \in work.run.ok}

LEMMA StartSavesIs ==
  ASSUME TypeOK, Control, StartSaves
  PROVE  /\ up /\ work.by = "loop" /\ work.id \in Runs /\ work.runs = {} /\ work.run \in Rows
         /\ <<work.id[1], work.rule>> \in work.list
         /\ status(work.run) # "none"
         /\ status(work.run) = "running" => work.run.end # 0
         /\ work.run.ok # {} /\ work.run.end # 0 => status(work.run) = "running"
         /\ UNCHANGED <<now, up, schedules, on, woken, begun>>
         /\ StartIsSaved \/ StartIsLost
<1>1. /\ up /\ work.by = "loop" /\ work.id \in Runs /\ work.runs = {} /\ work.run \in Rows
      /\ <<work.id[1], work.rule>> \in work.list
      /\ UNCHANGED <<now, up, schedules, on, woken, begun>>
  BY DEF StartSaves, Control, WorkIsShaped, StartsWhatIsDue, Starting, Stopping, TypeOK, Works
<1>2. /\ status(work.run) \in Statuses \ {"none"}
      /\ status(work.run) = "running" => work.run.end # 0
      /\ work.run.ok # {} /\ work.run.end # 0 => status(work.run) = "running"
  BY DEF status, Statuses
<1> DEFINE row == [work.run EXCEPT !.status = status(work.run)]
<1>3. row \in Rows
  BY <1>1, <1>2 DEF Rows
<1>4. CASE StartIsLost
  BY <1>1, <1>2, <1>4
<1>5. CASE /\ schedule_run_update(work.id, row)
           /\ work' = Listed(<<work.id[1], work.rule>>)
           /\ loose' = loose \cup {<<t, work.id>> : t \in
                         {t \in work.run.ok : work.run.end = 0 \/ rows[work.id] = NoRow}}
           /\ UNCHANGED <<next, failed>>
  <2> HIDE DEF row
  <2>1. /\ \A j \in Runs \ {work.id} : rows'[j] = rows[j]
        /\ rows[work.id] = NoRow => rows'[work.id] = NoRow
        /\ rows[work.id] # NoRow => rows'[work.id] = row
    BY <1>1, <1>3, <1>5, UpdateIs DEF TypeOK
  <2> QED BY <1>1, <1>2, <1>5, <2>1 DEF StartIsSaved, row
<1> QED BY <1>4, <1>5 DEF StartSaves, StartIsLost

LEMMA ControlStartSaves ==
  ASSUME TypeOK, Control, StartSaves
  PROVE  Control'
<1>1. /\ up /\ work.by = "loop" /\ work.id \in Runs /\ work.run \in Rows
      /\ <<work.id[1], work.rule>> \in work.list
      /\ work.run.ok # {} /\ work.run.end # 0 => status(work.run) = "running"
      /\ UNCHANGED <<now, up, schedules, on, woken, begun>>
  BY StartSavesIs
<1>2. \A t \in Recorded \cup StopAtEnd :
         on[t] = work.id /\ <<t, work.id>> \notin loose => t \in work.run.ok
  BY DEF StartSaves, Control, StartsWhatIsDue, Starting
<1>3. CASE StartIsSaved
  <2>1. NothingForgotten'
    <3> SUFFICES ASSUME NEW t \in Recorded \cup StopAtEnd, NEW i \in Runs,
                        on[t] = i, <<t, i>> \notin loose'
                 PROVE  rows'[i].status = "running" /\ t \in rows'[i].ok
      BY <1>1 DEF NothingForgotten
    <3>1. <<t, i>> \notin loose
      BY <1>3 DEF StartIsSaved
    <3>2. CASE i # work.id
      BY <1>3, <3>1, <3>2 DEF StartIsSaved, Control, NothingForgotten
    <3>3. CASE i = work.id
      <4>1. t \in work.run.ok
        BY <1>2, <3>1, <3>3
      <4>2. work.run.end # 0 /\ rows[work.id] # NoRow
        BY <4>1, <1>3, <3>3 DEF StartIsSaved
      <4>3. rows'[i] = [work.run EXCEPT !.status = "running"]
        BY <4>1, <4>2, <1>1, <1>3, <3>3 DEF StartIsSaved
      <4> QED BY <4>1, <4>3, <1>1 DEF Rows
    <3> QED BY <3>2, <3>3
  <2> QED BY <2>1, <1>1, <1>3, ControlListed DEF StartIsSaved
<1>4. CASE StartIsLost
  <2>1. /\ work' = Free /\ rows' = rows
        /\ \A t \in work.run.ok : <<t, work.id>> \in loose'
        /\ loose \subseteq loose'
    BY <1>4 DEF StartIsLost, TickFails
  <2>2. NothingForgotten'
    <3> SUFFICES ASSUME NEW t \in Recorded \cup StopAtEnd, NEW i \in Runs,
                        on[t] = i, <<t, i>> \notin loose'
                 PROVE  rows'[i].status = "running" /\ t \in rows'[i].ok
      BY <1>1 DEF NothingForgotten
    <3>0. <<t, i>> \notin loose
      BY <2>1
    <3>1. i # work.id
      BY <3>0, <2>1, <1>2
    <3> QED BY <3>0, <3>1, <2>1 DEF Control, NothingForgotten
  <2> QED BY <2>1, <2>2, ControlFreed
<1> QED BY <1>3, <1>4, StartSavesIs

LEMMA ControlTickEnds ==
  ASSUME TypeOK, Control, TickEnds
  PROVE  Control'
<1>1. work' = Free /\ work.stage = "list" /\ UNCHANGED <<rows, on, loose>>
  BY DEF TickEnds, tables, ghosts
<1>2. NothingForgotten'
  BY <1>1 DEF Control, NothingForgotten
<1> QED BY <1>1, <1>2, ControlFreed

LEMMA ControlStopNow ==
  ASSUME TypeOK, Control, stop_now
  PROVE  Control'
<1>0. up /\ work = Free /\ UNCHANGED <<now, up, rows, on, woken, loose>>
  BY DEF stop_now, Control, WorkIsShaped, TypeOK, tables, loop, ghosts
<1>1. CASE UNCHANGED work
  BY <1>0, <1>1, ControlHolds, TimeTypes
<1>2. ASSUME NEW i \in Running,
             work' = [Free EXCEPT !.by = "request", !.stage = "stop", !.id = i, !.run = rows[i]]
      PROVE  Control'
  <2>1. i \in Runs /\ rows[i].status = "running"
    BY DEF Running
  <2>2. /\ work'.by = "request" /\ work'.stage = "stop" /\ work'.id = i /\ work'.run = rows[i]
        /\ work'.runs = {} /\ work'.list = {}
    BY <1>2 DEF Free
  <2>3. WorkIsShaped'
    BY <1>0, <2>1, <2>2 DEF WorkIsShaped, Starting, Stopping
  <2>4. StopsWhatRuns'
    BY <1>0, <2>1, <2>2 DEF StopsWhatRuns, Stopping
  <2>5. StartsWhatIsDue'
    BY <2>2 DEF StartsWhatIsDue, Starting
  <2>6. NothingForgotten'
    BY <1>0, FreeIs DEF Control, NothingForgotten
  <2> QED BY <2>3, <2>4, <2>5, <2>6 DEF Control
<1> QED BY <1>1, <1>2 DEF stop_now

LEMMA DeleteIs ==
  ASSUME TypeOK, delete_schedule
  PROVE  LET s == request.schedule
         IN  /\ s \in Schedules /\ up /\ woken' = TRUE
             /\ schedules' = [schedules EXCEPT ![s] = Deleted]
             /\ \A i \in Runs : /\ i[1] = s => rows'[i] = NoRow /\ begun'[i] = 0
                                /\ i[1] # s => rows'[i] = rows[i] /\ begun'[i] = begun[i]
             /\ loose \subseteq loose'
             /\ \A t \in Targets, i \in Running :
                   i[1] = s /\ t \in rows[i].ok => <<t, i>> \in loose'
             /\ UNCHANGED <<now, up, on, next, work, failed>>
<1>1. request.schedule \in Schedules
  BY DEF TypeOK, Requests
<1>2. \A t \in Targets, i \in Running :
         i[1] = request.schedule /\ t \in rows[i].ok => <<t, i>> \in loose'
  <2> SUFFICES ASSUME NEW t \in Targets, NEW i \in Running,
                      i[1] = request.schedule, t \in rows[i].ok
               PROVE  <<t, i>> \in loose'
    OBVIOUS
  <2>1. <<t, i>> \in {p \in Targets \X Running : p[2][1] = request.schedule /\ p[1] \in rows[p[2]].ok}
    OBVIOUS
  <2> QED BY <2>1 DEF delete_schedule
<1> QED BY <1>1, <1>2 DEF delete_schedule, counts

LEMMA ControlDelete ==
  ASSUME TypeOK, Control, delete_schedule
  PROVE  Control'
<1> DEFINE s == request.schedule
<1>1. /\ up /\ woken' = TRUE
      /\ \A i \in Runs : rows'[i] = rows[i] \/ rows'[i] = NoRow
      /\ \A i \in Runs : i[1] # s => rows'[i] = rows[i]
      /\ \A t \in Targets, i \in Running : i[1] = s /\ t \in rows[i].ok => <<t, i>> \in loose'
      /\ loose \subseteq loose' /\ UNCHANGED <<now, up, on, work>>
  BY DeleteIs
<1>2. Recorded \cup StopAtEnd \subseteq Targets
  BY ChannelsAssumption DEF Targets
<1> HIDE DEF s
<1>3. WorkIsShaped'
  BY <1>1 DEF Control, WorkIsShaped
<1>4. StopsWhatRuns'
  <2>1. \A r \in work.runs : r[1] \in Runs
    BY DEF TypeOK, Works
  <2>2. work.stage \in Stopping => work.id \in Runs
    BY DEF Control, WorkIsShaped
  <2> QED BY <1>1, <2>1, <2>2 DEF Control, StopsWhatRuns
<1>5. StartsWhatIsDue'
  <2>1. work.stage \in Starting => work.id \in Runs
    BY DEF Control, WorkIsShaped
  <2> QED BY <1>1, <2>1 DEF Control, StartsWhatIsDue
<1>6. NothingForgotten'
  <2> SUFFICES ASSUME NEW t \in Recorded \cup StopAtEnd, NEW i \in Runs,
                      on[t] = i, <<t, i>> \notin loose'
               PROVE  \/ rows'[i].status = "running" /\ t \in rows'[i].ok
                      \/ work.id = i /\ work.stage \in {"play", "save"}
    BY <1>1 DEF NothingForgotten
  <2>1. \/ rows[i].status = "running" /\ t \in rows[i].ok
        \/ work.id = i /\ work.stage \in {"play", "save"}
    BY <1>1 DEF Control, NothingForgotten
  <2>2. rows[i].status = "running" /\ t \in rows[i].ok => i[1] # s
    BY <1>1, <1>2 DEF Running
  <2> QED BY <2>1, <2>2, <1>1
<1> QED BY <1>3, <1>4, <1>5, <1>6 DEF Control

LEMMA ControlDropRequest ==
  ASSUME TypeOK, Control, DropRequest
  PROVE  Control'
<1>0. UNCHANGED <<now, up, rows, on, woken, loose>>
  BY DEF DropRequest, tables, loop, ghosts
<1>1. CASE work.by = "request"
  <2>1. work' = Free /\ work.stage \notin {"play", "save"}
    BY <1>1 DEF DropRequest, TypeOK, Stopping
  <2>2. NothingForgotten'
    BY <1>0, <2>1 DEF Control, NothingForgotten
  <2> QED BY <2>1, <2>2, ControlFreed
<1>2. CASE work.by # "request"
  <2>1. work' = work
    BY <1>2 DEF DropRequest
  <2> QED BY <1>0, <2>1, ControlHolds, TimeTypes
<1> QED BY <1>1, <1>2

LEMMA ControlStopSaveFails ==
  ASSUME TypeOK, Control, StopSaveFails
  PROVE  Control'
<1>1. work.stage = "stopped" /\ work' = Free /\ UNCHANGED <<rows, on, loose>>
  BY StopSaveFailsIs
<1>2. NothingForgotten'
  BY <1>1 DEF Control, NothingForgotten
<1> QED BY <1>1, <1>2, ControlFreed

LEMMA ControlCrash ==
  ASSUME TypeOK, Control, Crash
  PROVE  Control'
<1>1. /\ work' = Free /\ UNCHANGED <<rows, on>> /\ loose \subseteq loose'
      /\ work.stage \in {"play", "save"} =>
            \A t \in work.run.ok : <<t, work.id>> \in loose'
  BY DEF Crash, tables
<1>2. work.stage \in {"play", "save"} =>
         \A t \in Recorded \cup StopAtEnd :
             on[t] = work.id /\ <<t, work.id>> \notin loose => t \in work.run.ok
  BY DEF Control, StartsWhatIsDue, Starting
<1>3. NothingForgotten'
  <2> SUFFICES ASSUME NEW t \in Recorded \cup StopAtEnd, NEW i \in Runs,
                      on[t] = i, <<t, i>> \notin loose'
               PROVE  rows'[i].status = "running" /\ t \in rows'[i].ok
    BY <1>1 DEF NothingForgotten
  <2>1. <<t, i>> \notin loose /\ ~(work.stage \in {"play", "save"} /\ i = work.id)
    BY <1>1, <1>2
  <2> QED BY <2>1, <1>1 DEF Control, NothingForgotten
<1> QED BY <1>1, <1>3, ControlFreed

LEMMA ControlNext ==
  ASSUME TypeOK, Control, [Next]_vars
  PROVE  Control'
<1>0. now \in Nat /\ now <= now
  BY TimeTypes
<1>1. ASSUME NEW s \in Schedules, NEW rule \in Rules, NEW enabled \in BOOLEAN,
             save_schedule(s, rule, enabled)
      PROVE  Control'
  <2>1. up /\ UNCHANGED <<now, up, rows, on, work, loose>> /\ woken'
    BY <1>1 DEF save_schedule, ghosts
  <2> QED BY <2>1, <1>0, ControlHolds
<1>2. ASSUME NEW s \in Schedules, NEW kind \in {"stop", "delete"}, RequestStop(s, kind)
      PROVE  Control'
  <2>1. up /\ UNCHANGED <<now, up, rows, on, work, loose, woken>>
    BY <1>2 DEF RequestStop, tables, loop, ghosts
  <2> QED BY <2>1, <1>0, ControlHolds
<1>3. ASSUME NEW t \in Recorded, PersonStops(t) \/ PersonStarts(t)
      PROVE  Control'
  <2>1. UNCHANGED <<now, up, rows, work, loose, woken>>
    BY <1>3 DEF PersonStops, PersonStarts, tables, loop, ghosts
  <2>2. \A r \in Targets, i \in Runs : on'[r] = i => on[r] = i
    BY <1>3, PeopleAssumption DEF PersonStops, PersonStarts, TypeOK
  <2>3. up => up'
    BY <2>1
  <2> QED BY <2>1, <2>2, <2>3, <1>0, ControlHolds
<1>4. ASSUME TimePasses
      PROVE  Control'
  <2>1. now' = now + 1 /\ UNCHANGED <<up, rows, on, work, loose, woken>>
    BY <1>4 DEF TimePasses, tables, loop, ghosts
  <2>2. now' \in Nat /\ now <= now' /\ (up => up')
    BY <2>1, <1>0
  <2> QED BY <2>1, <2>2, ControlHolds
<1>5. ASSUME Restart
      PROVE  Control'
  <2>1. ~up /\ up' = TRUE /\ UNCHANGED <<now, rows, on, work, loose, woken>>
    BY <1>5 DEF Restart, tables, ghosts
  <2>2. work = Free /\ work' = Free
    BY <2>1 DEF Control, WorkIsShaped
  <2>3. NothingForgotten'
    BY <2>1 DEF Control, NothingForgotten
  <2> QED BY <2>2, <2>3, ControlFreed
<1>6. CASE UNCHANGED vars
  <2>1. UNCHANGED <<now, up, rows, on, work, loose, woken>>
    BY <1>6 DEF vars, tables, loop, ghosts
  <2> QED BY <2>1, <1>0, ControlHolds
<1> QED BY <1>1, <1>2, <1>3, <1>4, <1>5, <1>6, ControlTickBegins, ControlTickStops,
           ControlStopCalls, ControlStopSaves, ControlList, ControlNothingDue, ControlComesDue,
           ControlRecordCalls, ControlPlayCalls, ControlStartSaves, ControlTickEnds,
           ControlStopNow, ControlDelete, ControlDropRequest, ControlStopSaveFails, ControlCrash
        DEF Next

-----------------------------------------------------------------------------
(* The rows, those pruned, and the occurrences that were begun. *)

History == RowsHaveCome /\ PrunedIsPast /\ OncePerOccurrence

(* Steps that neither insert a row nor change a schedule. *)
Steady ==
    /\ UNCHANGED <<schedules, begun>>
    /\ \A j \in Runs : rows'[j] = NoRow <=> rows[j] = NoRow
    /\ Tick <= Tick'
    /\ \A s \in Schedules : Known(s)' \subseteq Known(s)

LEMMA HistoryHolds ==
  ASSUME TypeOK, TypeOK', History, Steady
  PROVE  History'
<1>0. /\ \A i \in Runs : i[1] \in Schedules /\ i[2] \in Nat
      /\ Tick \in Nat /\ Tick' \in Nat /\ Tick <= Tick'
      /\ Lead \in Nat /\ Kept \in Nat /\ Times \subseteq Nat
  <2>1. \A i \in Runs : i[1] \in Schedules /\ i[2] \in Nat
    BY BasicTypes DEF Runs
  <2>2. Tick \in Nat
    BY TimeTypes
  <2>3. Tick' \in Nat
    BY BasicTypes DEF TypeOK, Works, Tick
  <2> QED BY <2>1, <2>2, <2>3, BasicTypes DEF Steady
<1>1. RowsHaveCome'
  <2> SUFFICES ASSUME NEW i \in Runs
               PROVE  /\ ~schedules'[i[1]].exists => rows'[i] = NoRow /\ begun'[i] = 0
                      /\ rows'[i] # NoRow => /\ i[2] <= Tick' + Lead
                                             /\ \A E \in Known(i[1])' : RowIsOf(E, i[2])
    BY DEF RowsHaveCome, RowIsOf
  <2>1. ~schedules'[i[1]].exists => rows'[i] = NoRow /\ begun'[i] = 0
    BY DEF Steady, History, RowsHaveCome
  <2>2. rows'[i] # NoRow => i[2] <= Tick + Lead /\ \A E \in Known(i[1]) : RowIsOf(E, i[2])
    BY DEF Steady, History, RowsHaveCome
  <2>3. Known(i[1])' \subseteq Known(i[1])
    BY <1>0 DEF Steady
  <2> QED BY <2>1, <2>2, <2>3, <1>0
<1>2. PrunedIsPast'
  <2> SUFFICES ASSUME NEW i \in Runs, begun'[i] > 0, rows'[i] = NoRow
               PROVE  /\ i[2] + Kept \in Times /\ i[2] + Kept <= Tick' + Lead
                      /\ \A E \in Known(i[1])' : PassedFor(E, i[2])'
    BY DEF PrunedIsPast, PassedFor
  <2>1. /\ i[2] + Kept \in Times /\ i[2] + Kept <= Tick + Lead
        /\ \A E \in Known(i[1]) : PassedFor(E, i[2])
    BY DEF Steady, History, PrunedIsPast
  <2>2. Known(i[1])' \subseteq Known(i[1])
    BY <1>0 DEF Steady
  <2>3. ASSUME NEW E \in Known(i[1])'
        PROVE  PassedFor(E, i[2])'
    <3>1. PassedFor(E, i[2])
      BY <2>1, <2>2
    <3>2. E \in Saves
      BY <2>2, <1>0, TimeTypes
    <3>3. E.rule.starts \subseteq Nat
      BY <3>2, RuleTypes, BasicTypes DEF Saves
    <3> QED BY <3>1, <3>3, <1>0 DEF PassedFor
  <2> QED BY <2>1, <2>3, <1>0
<1>3. OncePerOccurrence'
  BY DEF Steady, History, OncePerOccurrence
<1> QED BY <1>1, <1>2, <1>3 DEF History

(* An occurrence with a row Kept later is passed, whether that row is of the  *)
(* schedule as it is or from before it was saved so.                          *)
LEMMA PassedBy ==
  ASSUME TypeOK, WindowsClose, NEW E \in Saves, NEW u \in Times, NEW x \in Times,
         u + Kept <= x, x <= Tick + Lead, RowIsOf(E, x)
  PROVE  PassedFor(E, u)
<1>0. Tick \in Times /\ Tick \in Nat /\ E.saved \in Times /\ E.saved \in Nat /\ u \in Nat /\ x \in Nat
  BY BasicTypes DEF TypeOK, Works, Saves, Tick
<1>1. u + Kept \in Times
  BY <1>0, BasicTypes DEF Times
<1>2. E.rule \in Rules /\ E.rule.starts \subseteq Nat /\ window_end(E.rule, u) \in Nat
  BY RuleTypes, BasicTypes DEF Saves
<1> SUFFICES ASSUME u \in E.rule.starts, window_end(E.rule, u) > E.saved
             PROVE  \E v \in E.rule.starts : u < v /\ v <= Tick + Lead
  BY DEF PassedFor
<1>3. CASE x \in E.rule.starts
  BY <1>3, <1>0, BasicTypes
<1>4. CASE x <= E.saved + Lead
  <2> DEFINE t == IF E.saved <= Tick THEN E.saved ELSE Tick
  <2>1. t \in Times /\ t \in Nat /\ t <= E.saved /\ t <= Tick /\ x <= t + Lead
    BY <1>0, <1>4, BasicTypes
  <2> HIDE DEF t
  <2>2. u + Kept <= t + Lead /\ window_end(E.rule, u) > t
    BY <2>1, <1>0, <1>2, BasicTypes
  <2>3. \E v \in E.rule.starts : u < v /\ v <= t + Lead
    BY <1>1, <1>2, <2>1, <2>2 DEF WindowsClose
  <2> QED BY <2>1, <2>3, <1>0, <1>2, BasicTypes
<1> QED BY <1>3, <1>4 DEF RowIsOf

(* Nothing that is due was begun before. *)
LEMMA DueIsNew ==
  ASSUME TypeOK, Control, History, NEW e \in work.list, NEW u \in due(e[1], e[2], work.now)
  PROVE  /\ begun[<<e[1], u>>] = 0 /\ ~PassedFor(e[2], u)
         /\ <<e[1], u>> \in Runs /\ e[2] \in Known(e[1]) /\ work.by = "loop" /\ Tick = work.now
         /\ u \in e[2].rule.starts /\ u <= Tick + Lead /\ rows[<<e[1], u>>] = NoRow
<1>1. e[1] \in Schedules /\ e[2] \in Saves /\ work.now \in Nat
  BY TimeTypes
<1>2. work.by = "loop" /\ Tick = work.now
  BY DEF Control, WorkIsShaped, Tick
<1>3. e[2] \in Known(e[1])
  BY DEF Known
<1>4. /\ <<e[1], u>> \in Runs /\ u \in e[2].rule.starts /\ u <= work.now + Lead
      /\ u \in latest_at_or_before(e[2].rule, work.now + Lead)
      /\ window_end(e[2].rule, u) > e[2].saved /\ rows[<<e[1], u>>] = NoRow
  BY <1>1, DueIs
<1>5. e[2].rule.starts \subseteq Nat /\ u \in Nat
  BY <1>1, <1>4, RuleTypes, BasicTypes DEF Saves
<1>6. ~PassedFor(e[2], u)
  <2> SUFFICES ASSUME NEW v \in e[2].rule.starts, u < v, v <= work.now + Lead
               PROVE  FALSE
    BY <1>2, <1>4 DEF PassedFor
  <2>1. v <= u
    BY <1>4 DEF latest_at_or_before
  <2> QED BY <2>1, <1>5
<1>7. begun[<<e[1], u>>] = 0
  <2>1. begun[<<e[1], u>>] \in Nat
    BY <1>4 DEF TypeOK
  <2>2. <<e[1], u>>[1] = e[1] /\ <<e[1], u>>[2] = u
    OBVIOUS
  <2> DEFINE i == <<e[1], u>>
  <2>3. i \in Runs /\ i[1] = e[1] /\ i[2] = u /\ rows[i] = NoRow
    BY <1>4, <2>2
  <2> HIDE DEF i
  <2>4. ~(begun[i] > 0)
    BY <2>3, <1>3, <1>6 DEF History, PrunedIsPast
  <2> QED BY <2>1, <2>4 DEF i
<1> QED BY <1>2, <1>3, <1>4, <1>6, <1>7

(* Of the schedule whose occurrence comes due, as listed or as it is now, the *)
(* occurrence is one or is from before that was saved.                        *)
LEMMA DueIsOf ==
  ASSUME TypeOK, Control, ListIsRecent, NEW e \in work.list, NEW u \in due(e[1], e[2], work.now),
         NEW E \in Known(e[1])
  PROVE  RowIsOf(E, u)
<1>0. /\ e[1] \in Schedules /\ e[2] \in Saves /\ work.now \in Nat /\ work.by = "loop"
      /\ u \in e[2].rule.starts /\ u <= work.now + Lead /\ u \in Nat
  <2>1. e[1] \in Schedules /\ e[2] \in Saves /\ work.now \in Nat /\ work.now \in Int
    BY TimeTypes
  <2>2. u \in e[2].rule.starts /\ u <= work.now + Lead /\ u \in Times
    <3>1. u \in due(e[1], e[2], work.now)
      OBVIOUS
    <3> QED BY <2>1, <3>1, DueIs
  <2>3. work.by = "loop"
    BY DEF Control, WorkIsShaped
  <2> QED BY <2>1, <2>2, <2>3, BasicTypes
<1>1. CASE E = e[2]
  BY <1>0, <1>1 DEF RowIsOf
<1>2. CASE E # e[2]
  <2>1. E = schedules[e[1]] /\ E.exists
    <3>1. \A f \in work.list : f[1] = e[1] => f = e
      BY DEF Control, WorkIsShaped
    <3> QED BY <3>1, <1>2 DEF Known
  <2>2. schedules[e[1]].saved >= work.now
    BY <2>1, <1>2 DEF ListIsRecent
  <2>3. E.saved \in Nat
    BY <2>1, <1>0, TimeTypes
  <2> QED BY <2>1, <2>2, <2>3, <1>0, BasicTypes DEF RowIsOf
<1> QED BY <1>1, <1>2

LEMMA HistoryComesDue ==
  ASSUME WindowsClose, TypeOK, TypeOK', Control, ListIsRecent, History,
         NEW e \in work.list, NEW u \in Times, ComesDue(e, u), Insertable(<<e[1], u>>)
  PROVE  History' /\ rows'[<<e[1], u>>] # NoRow
<1> DEFINE i == <<e[1], u>>
           open == work.now < window_end(e[2].rule, u)
           row == new_run(e[2].rule, u, IF open THEN "running" ELSE "skipped")
           table == [rows EXCEPT ![i] = row]
<1>1. /\ i \in Runs /\ row \in Rows /\ row # NoRow /\ schedules[e[1]].exists
      /\ rows[i] = NoRow /\ table \in [Runs -> Rows]
      /\ \A j \in Runs : \/ rows'[j] = table[j] /\ j \notin pruned(table, e[1])
                         \/ rows'[j] = NoRow /\ j \in pruned(table, e[1])
      /\ open => rows'[i] = row
  BY ComesDueIs
<1>2. /\ begun' = IF open THEN [begun EXCEPT ![i] = @ + 1] ELSE begun
      /\ work' = IF open THEN [work EXCEPT !.stage = "record", !.id = i, !.run = row, !.rule = e[2]]
                 ELSE Listed(e)
      /\ UNCHANGED <<now, schedules>> /\ u \in due(e[1], e[2], work.now)
      /\ work.stage = "list"
  BY DEF ComesDue
<1>3. /\ begun[i] = 0 /\ ~PassedFor(e[2], u) /\ e[2] \in Known(e[1])
      /\ work.by = "loop" /\ Tick = work.now /\ u <= Tick + Lead
  BY <1>2, DueIsNew
<1>4. i[1] = e[1] /\ i[2] = u /\ e[1] \in Schedules /\ e[2] \in Saves /\ work \in Works
  BY TimeTypes DEF TypeOK
<1>5. work'.by = "loop" /\ work'.now = work.now /\ work'.list \subseteq work.list
  <2> HIDE DEF i, row, open
  <2>1. CASE open
    BY <2>1, <1>2, <1>3, <1>4 DEF Works
  <2>2. CASE ~open
    BY <2>2, <1>2, <1>3, <1>4, ListedIs
  <2> QED BY <2>1, <2>2
<1>6. Tick' = Tick /\ \A s \in Schedules : Known(s)' \subseteq Known(s)
  BY <1>2, <1>3, <1>5 DEF Tick, Known
<1> HIDE DEF i, open, row, table
<1>7. \A E \in Known(e[1]) : RowIsOf(E, u)
  BY <1>2, DueIsOf
<1>8. \A j \in Runs : j[1] \in Schedules /\ j[2] \in Times /\ j = <<j[1], j[2]>>
  BY DEF Runs
<1>9. \A j \in Runs : table[j] # NoRow /\ j[1] = e[1] =>
          /\ j[2] <= Tick + Lead /\ \A E \in Known(e[1]) : RowIsOf(E, j[2])
  <2> SUFFICES ASSUME NEW j \in Runs, table[j] # NoRow, j[1] = e[1]
               PROVE  j[2] <= Tick + Lead /\ \A E \in Known(e[1]) : RowIsOf(E, j[2])
    OBVIOUS
  <2>1. CASE j = i
    BY <2>1, <1>3, <1>4, <1>7
  <2>2. CASE j # i
    <3>1. rows[j] # NoRow
      BY <2>2, <1>1 DEF table, TypeOK
    <3> QED BY <3>1 DEF History, RowsHaveCome
  <2> QED BY <2>1, <2>2
(* What is pruned now is passed. *)
<1>10. \A j \in pruned(table, e[1]) :
          /\ j \in Runs /\ j[1] = e[1]
          /\ j[2] + Kept \in Times /\ j[2] + Kept <= Tick + Lead
          /\ \A E \in Known(e[1]) : PassedFor(E, j[2])
  <2> SUFFICES ASSUME NEW j \in pruned(table, e[1])
               PROVE  /\ j \in Runs /\ j[1] = e[1]
                      /\ j[2] + Kept \in Times /\ j[2] + Kept <= Tick + Lead
                      /\ \A E \in Known(e[1]) : PassedFor(E, j[2])
    OBVIOUS
  <2>1. j \in Runs /\ j[1] = e[1]
    BY <1>1, <1>4, PrunedIs
  <2>2. PICK x \in Times : j[2] + Kept <= x /\ table[<<e[1], x>>] # NoRow
    BY <1>1, <1>4, PrunedIs
  <2>3. <<e[1], x>> \in Runs /\ <<e[1], x>>[1] = e[1] /\ <<e[1], x>>[2] = x
    BY <1>4 DEF Runs
  <2>4. x <= Tick + Lead /\ \A E \in Known(e[1]) : RowIsOf(E, x)
    BY <2>2, <2>3, <1>9
  <2>5. j[2] \in Times /\ Tick \in Nat
    BY <2>1, <1>8, TimeTypes
  <2>6. j[2] + Kept \in Times /\ j[2] + Kept <= Tick + Lead
    BY <2>2, <2>4, <2>5, BasicTypes DEF Times
  <2>7. \A E \in Known(e[1]) : PassedFor(E, j[2])
    BY <2>2, <2>4, <2>5, <1>4, TimeTypes, PassedBy
  <2> QED BY <2>1, <2>6, <2>7
<1>11. i \notin pruned(table, e[1]) /\ rows'[i] = row
  BY <1>1, <1>3, <1>4, <1>10 DEF table, TypeOK
<1>12. \A j \in Runs : j # i => begun'[j] = begun[j] /\ table[j] = rows[j]
  BY <1>1, <1>2 DEF TypeOK, table
<1>13. RowsHaveCome'
  <2> SUFFICES ASSUME NEW j \in Runs
               PROVE  /\ ~schedules[j[1]].exists => rows'[j] = NoRow /\ begun'[j] = 0
                      /\ rows'[j] # NoRow => /\ j[2] <= Tick + Lead
                                             /\ \A E \in Known(j[1])' : RowIsOf(E, j[2])
    BY <1>2, <1>6 DEF RowsHaveCome, RowIsOf
  <2>1. CASE j = i
    BY <2>1, <1>1, <1>3, <1>4, <1>6, <1>7
  <2>2. CASE j # i
    BY <2>2, <1>1, <1>6, <1>8, <1>12 DEF History, RowsHaveCome
  <2> QED BY <2>1, <2>2
<1>14. PrunedIsPast'
  <2> SUFFICES ASSUME NEW j \in Runs, begun'[j] > 0, rows'[j] = NoRow
               PROVE  /\ j[2] + Kept \in Times /\ j[2] + Kept <= Tick + Lead
                      /\ \A E \in Known(j[1]) : PassedFor(E, j[2])
    <3>1. \A j \in Runs : \A E \in Known(j[1]) : PassedFor(E, j[2]) => PassedFor(E, j[2])'
      BY <1>6 DEF PassedFor
    <3> QED BY <3>1, <1>6, <1>8 DEF PrunedIsPast, PassedFor
  <2>1. j # i
    BY <1>1, <1>11
  <2>2. begun[j] > 0
    BY <2>1, <1>12
  <2>3. CASE rows[j] = NoRow
    BY <2>2, <2>3 DEF History, PrunedIsPast
  <2>4. CASE rows[j] # NoRow
    <3>1. j \in pruned(table, e[1])
      BY <2>1, <2>4, <1>1, <1>12
    <3> QED BY <3>1, <1>10
  <2> QED BY <2>3, <2>4
<1>15. OncePerOccurrence'
  BY <1>1, <1>2, <1>3 DEF History, OncePerOccurrence, TypeOK
<1> QED BY <1>1, <1>11, <1>13, <1>14, <1>15 DEF History, i

LEMMA HistorySave ==
  ASSUME WindowsClose, TypeOK, TypeOK', Control, History,
         NEW s \in Schedules, NEW rule \in Rules, NEW enabled \in BOOLEAN,
         save_schedule(s, rule, enabled)
  PROVE  History'
<1> DEFINE new == [saved |-> now, enabled |-> enabled, rule |-> rule, exists |-> TRUE]
<1>1. /\ schedules' = [schedules EXCEPT ![s] = new]
      /\ UNCHANGED <<now, rows, work, begun>>
  BY DEF save_schedule, ghosts
<1>2. new \in Saves /\ new.saved = now /\ now \in Nat /\ now \in Times /\ new.exists
  BY BasicTypes DEF TypeOK, Saves
<1> HIDE DEF new
<1>3. Tick' = Tick /\ Tick \in Nat /\ Tick <= now
  BY <1>1, TimeTypes DEF Tick, Control, WorkIsShaped
<1>4. \A i \in Runs : i[1] \in Schedules /\ i[2] \in Times
  BY DEF Runs
<1>5. \A r \in Schedules : \A E \in Known(r)' : E \in Known(r) \/ (r = s /\ E = new)
  <2> SUFFICES ASSUME NEW r \in Schedules, NEW E \in Known(r)'
               PROVE  E \in Known(r) \/ (r = s /\ E = new)
    OBVIOUS
  <2>1. schedules'[s] = new /\ (r # s => schedules'[r] = schedules[r])
    BY <1>1 DEF TypeOK
  <2>2. CASE E \in {e[2] : e \in {e \in work.list : e[1] = r}}
    BY <2>2 DEF Known
  <2>3. CASE E = schedules'[r] /\ schedules'[r].exists
    BY <2>1, <2>3 DEF Known
  <2> QED BY <2>2, <2>3, <1>1 DEF Known
<1>6. RowsHaveCome'
  <2> SUFFICES ASSUME NEW i \in Runs
               PROVE  /\ ~schedules'[i[1]].exists => rows[i] = NoRow /\ begun[i] = 0
                      /\ rows[i] # NoRow => /\ i[2] <= Tick + Lead
                                            /\ \A E \in Known(i[1])' : RowIsOf(E, i[2])
    BY <1>1, <1>3 DEF RowsHaveCome, RowIsOf
  <2>1. ~schedules'[i[1]].exists => rows[i] = NoRow /\ begun[i] = 0
    BY <1>1, <1>2, <1>4 DEF History, RowsHaveCome, TypeOK
  <2>2. rows[i] # NoRow => i[2] <= Tick + Lead /\ \A E \in Known(i[1]) : RowIsOf(E, i[2])
    BY DEF History, RowsHaveCome
  <2>3. i[2] \in Nat /\ i[2] <= Tick + Lead => RowIsOf(new, i[2])
    BY <1>2, <1>3, BasicTypes DEF RowIsOf
  <2>4. i[2] \in Nat
    BY <1>4, BasicTypes
  <2> QED BY <2>1, <2>2, <2>3, <2>4, <1>4, <1>5
<1>7. PrunedIsPast'
  <2> SUFFICES ASSUME NEW i \in Runs, begun[i] > 0, rows[i] = NoRow
               PROVE  /\ i[2] + Kept \in Times /\ i[2] + Kept <= Tick + Lead
                      /\ \A E \in Known(i[1])' : PassedFor(E, i[2])
    BY <1>1, <1>3 DEF PrunedIsPast, PassedFor
  <2>1. /\ i[2] + Kept \in Times /\ i[2] + Kept <= Tick + Lead
        /\ \A E \in Known(i[1]) : PassedFor(E, i[2])
    BY DEF History, PrunedIsPast
  <2>2. PassedFor(new, i[2])
    <3>0. i[2] \in Times /\ i[2] \in Nat /\ Kept \in Nat
      BY <1>4, BasicTypes
    <3>1. i[2] + Kept <= i[2] + Kept /\ i[2] \in Times /\ i[2] + Kept \in Nat
      BY <3>0
    <3>2. RowIsOf(new, i[2] + Kept)
      BY <2>1, <3>1, <1>2, <1>3, BasicTypes DEF RowIsOf
    <3> QED BY <2>1, <3>1, <3>2, <1>2, PassedBy
  <2> QED BY <2>1, <2>2, <1>4, <1>5
<1>8. OncePerOccurrence'
  BY <1>1 DEF History, OncePerOccurrence
<1> QED BY <1>6, <1>7, <1>8 DEF History

LEMMA HistoryDelete ==
  ASSUME TypeOK, TypeOK', Control, History, delete_schedule
  PROVE  History'
<1> DEFINE s == request.schedule
<1>1. /\ s \in Schedules
      /\ schedules' = [schedules EXCEPT ![s] = Deleted]
      /\ \A i \in Runs : /\ i[1] = s => rows'[i] = NoRow /\ begun'[i] = 0
                         /\ i[1] # s => rows'[i] = rows[i] /\ begun'[i] = begun[i]
      /\ UNCHANGED <<now, work>>
  BY DeleteIs
<1> HIDE DEF s
<1>2. Tick' = Tick
  BY <1>1 DEF Tick
<1>3. \A i \in Runs : i[1] \in Schedules
  BY DEF Runs
<1>4. \A r \in Schedules : r # s => Known(r)' = Known(r) /\ schedules'[r] = schedules[r]
  BY <1>1 DEF Known, TypeOK
<1>5. RowsHaveCome'
  <2> SUFFICES ASSUME NEW i \in Runs
               PROVE  /\ ~schedules'[i[1]].exists => rows'[i] = NoRow /\ begun'[i] = 0
                      /\ rows'[i] # NoRow => /\ i[2] <= Tick + Lead
                                             /\ \A E \in Known(i[1])' : RowIsOf(E, i[2])
    BY <1>2 DEF RowsHaveCome, RowIsOf
  <2> QED BY <1>1, <1>3, <1>4 DEF History, RowsHaveCome
<1>6. PrunedIsPast'
  <2> SUFFICES ASSUME NEW i \in Runs, begun'[i] > 0, rows'[i] = NoRow
               PROVE  /\ i[2] + Kept \in Times /\ i[2] + Kept <= Tick + Lead
                      /\ \A E \in Known(i[1])' : PassedFor(E, i[2])
    BY <1>2 DEF PrunedIsPast, PassedFor
  <2>1. i[1] # s
    BY <1>1
  <2> QED BY <2>1, <1>1, <1>3, <1>4 DEF History, PrunedIsPast
<1>7. OncePerOccurrence'
  BY <1>1 DEF History, OncePerOccurrence
<1> QED BY <1>5, <1>6, <1>7 DEF History

(* The lock's holder goes on with its list or some of it, or is done with it. *)
SameWork ==
    /\ work'.by = work.by /\ work'.now = work.now /\ work'.list \subseteq work.list
    /\ woken => woken'

OtherWork == work'.by # "loop" /\ work'.list = {}

LEMMA SteadyIs ==
  ASSUME TypeOK, TypeOK', Control, ListIsRecent, UNCHANGED <<schedules, begun>>,
         \A j \in Runs : rows'[j] = NoRow <=> rows[j] = NoRow,
         now <= now', SameWork \/ OtherWork
  PROVE  Steady /\ ListIsRecent'
<1>1. Tick <= Tick'
  <2>1. now \in Nat /\ now' \in Nat /\ work.now \in Nat
    BY BasicTypes DEF TypeOK, Works
  <2>2. work.by = "loop" => work.now <= now
    BY DEF Control, WorkIsShaped
  <2> QED BY <2>1, <2>2 DEF Tick, SameWork, OtherWork
<1>2. \A s \in Schedules : Known(s)' \subseteq Known(s)
  BY DEF Known, SameWork, OtherWork
<1>3. ListIsRecent'
  BY DEF ListIsRecent, SameWork, OtherWork
<1> QED BY <1>1, <1>2, <1>3 DEF Steady

LEMMA SteadyNext ==
  ASSUME TypeOK, TypeOK', Control, ListIsRecent, [Next]_vars
  PROVE  \/ Steady /\ ListIsRecent'
         \/ \E e \in work.list, u \in Times : ComesDue(e, u) /\ Insertable(<<e[1], u>>)
         \/ \E s \in Schedules, rule \in Rules, enabled \in BOOLEAN : save_schedule(s, rule, enabled)
         \/ delete_schedule
<1>0. work \in Works /\ now <= now /\ now \in Nat
  BY TimeTypes DEF TypeOK
<1>1. ASSUME TickBegins
      PROVE  Steady /\ ListIsRecent'
  <2>1. /\ work'.by = "loop" /\ work'.now = now /\ work'.list = {} /\ work = Free
        /\ UNCHANGED <<now, schedules, rows, begun>>
    BY <1>1 DEF TickBegins, Free, tables, ghosts
  <2>2. Tick = now /\ Tick' = now
    BY <2>1, FreeIs DEF Tick
  <2>3. \A s \in Schedules : Known(s)' \subseteq Known(s)
    BY <2>1 DEF Known
  <2>4. ListIsRecent'
    BY <2>1 DEF ListIsRecent
  <2> QED BY <2>1, <2>2, <2>3, <2>4, <1>0 DEF Steady
<1>2. ASSUME TickStops \/ StopCalls \/ RecordCalls \/ PlayCalls
      PROVE  Steady /\ ListIsRecent'
  <2>1. UNCHANGED <<now, schedules, rows, begun, woken>>
    BY <1>2 DEF TickStops, StopCalls, RecordCalls, PlayCalls, tables, loop, ghosts
  <2>2. work'.by = work.by /\ work'.now = work.now /\ work'.list = work.list
    <3>1. CASE TickStops
      BY <3>1, <1>0 DEF TickStops, Works
    <3>2. CASE StopCalls
      BY <3>2, <1>0 DEF StopCalls, Works
    <3>3. CASE RecordCalls
      BY <3>3, <1>0 DEF RecordCalls, Works
    <3>4. CASE PlayCalls
      BY <3>4, <1>0 DEF PlayCalls, Works
    <3> QED BY <1>2, <3>1, <3>2, <3>3, <3>4
  <2>3. SameWork
    BY <2>1, <2>2 DEF SameWork
  <2> QED BY <2>1, <2>3, <1>0, SteadyIs
<1>3. ASSUME StopSaves
      PROVE  Steady /\ ListIsRecent'
  <2>1. \A j \in Runs : rows'[j] = NoRow <=> rows[j] = NoRow
    <3>1. NoRow.status = "none"
      BY DEF NoRow
    <3> QED BY <1>3, <3>1, SavedRunIs
  <2>2. SameWork \/ OtherWork
    <3>1. work.by = "loop" => SameWork
      BY <1>3, <1>0 DEF StopSaves, After, SameWork, Works
    <3>2. work.by # "loop" => OtherWork
      BY <1>3, FreeIs DEF StopSaves, After, OtherWork
    <3> QED BY <3>1, <3>2
  <2>3. UNCHANGED <<now, schedules, begun>>
    BY <1>3 DEF StopSaves, ghosts
  <2> QED BY <2>1, <2>2, <2>3, <1>0, SteadyIs
<1>4. ASSUME schedules_list
      PROVE  Steady /\ ListIsRecent'
  <2> DEFINE list == {<<s, schedules[s]>> : s \in {s \in Schedules : schedules[s].exists}}
  <2>1. /\ work' = [work EXCEPT !.stage = "list", !.list = list]
        /\ UNCHANGED <<now, schedules, rows, begun>>
        /\ work.stage = "ends"
    BY <1>4 DEF schedules_list, tables, ghosts
  <2>2. work'.by = work.by /\ work'.now = work.now /\ work'.list = list
    BY <2>1, <1>0 DEF Works
  <2>3. \A e \in list : e[1] \in Schedules /\ e[2] = schedules[e[1]] /\ e[2].exists
    OBVIOUS
  <2> HIDE DEF list
  <2>4. Tick' = Tick
    BY <2>1, <2>2 DEF Tick
  <2>5. \A s \in Schedules : Known(s)' \subseteq Known(s)
    BY <2>1, <2>2, <2>3 DEF Known
  <2>6. ListIsRecent'
    BY <2>1, <2>2, <2>3 DEF ListIsRecent
  <2> QED BY <2>1, <2>4, <2>5, <2>6, TimeTypes DEF Steady
<1>5. ASSUME NEW e \in work.list, NothingDue(e)
      PROVE  Steady /\ ListIsRecent'
  <2>1. work' = Listed(e) /\ UNCHANGED <<now, schedules, rows, begun, woken>>
    BY <1>5 DEF NothingDue, tables, loop, ghosts
  <2>2. SameWork
    BY <2>1, <1>0, ListedIs DEF SameWork
  <2> QED BY <2>1, <2>2, <1>0, SteadyIs
<1>6. ASSUME NEW e \in work.list, NEW u \in Times, ComesDue(e, u), ~Insertable(<<e[1], u>>)
      PROVE  Steady /\ ListIsRecent'
  <2>1. work' = Free /\ UNCHANGED <<now, schedules, rows, begun>>
    BY <1>6 DEF ComesDue, TickFails
  <2>2. OtherWork
    BY <2>1, FreeIs DEF OtherWork
  <2> QED BY <2>1, <2>2, <1>0, SteadyIs
<1>7. ASSUME StartSaves
      PROVE  Steady /\ ListIsRecent'
  <2>0. /\ <<work.id[1], work.rule>> \in work.list /\ work.id \in Runs /\ work.run \in Rows
        /\ status(work.run) # "none" /\ UNCHANGED <<now, schedules, woken, begun>>
    BY <1>7, StartSavesIs
  <2>1. CASE StartIsSaved
    <3>1. SameWork
      BY <2>0, <2>1, <1>0, ListedIs DEF StartIsSaved, SameWork
    <3>2. [work.run EXCEPT !.status = status(work.run)] # NoRow
      <4>1. [work.run EXCEPT !.status = status(work.run)].status = status(work.run)
        BY <2>0 DEF Rows
      <4> QED BY <4>1, <2>0 DEF NoRow
    <3>3. \A j \in Runs : rows'[j] = NoRow <=> rows[j] = NoRow
      BY <2>1, <3>2 DEF StartIsSaved
    <3> QED BY <2>0, <3>1, <3>3, <1>0, SteadyIs
  <2>2. CASE StartIsLost
    <3>1. OtherWork /\ rows' = rows
      BY <2>2, FreeIs DEF StartIsLost, TickFails, OtherWork
    <3> QED BY <2>0, <3>1, <1>0, SteadyIs
  <2> QED BY <1>7, <2>1, <2>2, StartSavesIs
<1>8. ASSUME TickEnds \/ StopSaveFails \/ Crash
      PROVE  Steady /\ ListIsRecent'
  <2>1. OtherWork /\ UNCHANGED <<now, schedules, rows, begun>>
    <3>1. CASE TickEnds \/ Crash
      BY <3>1, FreeIs DEF TickEnds, Crash, OtherWork, tables, ghosts
    <3>2. CASE StopSaveFails
      BY <3>2, FreeIs, StopSaveFailsIs DEF OtherWork
    <3> QED BY <1>8, <3>1, <3>2
  <2> QED BY <2>1, <1>0, SteadyIs
<1>9. ASSUME \/ \E s \in Schedules, kind \in {"stop", "delete"} : RequestStop(s, kind)
             \/ \E t \in Recorded : PersonStops(t) \/ PersonStarts(t)
             \/ TimePasses \/ Restart \/ UNCHANGED vars
      PROVE  Steady /\ ListIsRecent'
  <2>1. SameWork /\ UNCHANGED <<schedules, rows, begun>>
    BY <1>9 DEF RequestStop, PersonStops, PersonStarts, TimePasses, Restart, vars, SameWork,
                tables, loop, ghosts
  <2>2. now <= now'
    BY <1>9, <1>0 DEF RequestStop, PersonStops, PersonStarts, TimePasses, Restart, vars
  <2> QED BY <2>1, <2>2, SteadyIs
<1>10. ASSUME stop_now \/ DropRequest
       PROVE  Steady /\ ListIsRecent'
  <2>1. UNCHANGED <<now, schedules, rows, begun, woken>>
    BY <1>10 DEF stop_now, DropRequest, tables, loop, ghosts
  <2>2. CASE work' = work
    BY <2>1, <2>2, <1>0, SteadyIs DEF SameWork
  <2>3. CASE work' # work
    <3>1. OtherWork
      BY <1>10, <2>3, FreeIs DEF stop_now, DropRequest, OtherWork, Free
    <3> QED BY <2>1, <3>1, <1>0, SteadyIs
  <2> QED BY <2>2, <2>3
<1> QED BY <1>1, <1>2, <1>3, <1>4, <1>5, <1>6, <1>7, <1>8, <1>9, <1>10 DEF Next

LEMMA RecentNext ==
  ASSUME WindowsClose, TypeOK, TypeOK', Control, ListIsRecent, History, [Next]_vars
  PROVE  ListIsRecent' /\ History'
<1>0. work \in Works
  BY DEF TypeOK
<1>1. CASE Steady /\ ListIsRecent'
  BY <1>1, HistoryHolds
<1>2. ASSUME NEW e \in work.list, NEW u \in Times, ComesDue(e, u), Insertable(<<e[1], u>>)
      PROVE  ListIsRecent' /\ History'
  <2>1. History'
    BY <1>2, HistoryComesDue
  <2>2. UNCHANGED <<schedules, woken>>
    BY <1>2 DEF ComesDue
  <2>3. work'.list \subseteq work.list /\ work'.now = work.now
    <3> DEFINE i == <<e[1], u>>
               open == work.now < window_end(e[2].rule, u)
               row == new_run(e[2].rule, u, IF open THEN "running" ELSE "skipped")
               started == [work EXCEPT !.stage = "record", !.id = i, !.run = row, !.rule = e[2]]
    <3>1. work' = IF open THEN started ELSE Listed(e)
      BY <1>2 DEF ComesDue
    <3> HIDE DEF i, open, row
    <3>2. started.list = work.list /\ started.now = work.now
      BY <1>0 DEF Works
    <3>3. Listed(e).list \subseteq work.list /\ Listed(e).now = work.now
      BY <1>0, ListedIs
    <3> HIDE DEF started
    <3> QED BY <3>1, <3>2, <3>3
  <2>4. ListIsRecent'
    BY <2>2, <2>3 DEF ListIsRecent
  <2> QED BY <2>1, <2>4
<1>3. ASSUME NEW s \in Schedules, NEW rule \in Rules, NEW enabled \in BOOLEAN,
             save_schedule(s, rule, enabled)
      PROVE  ListIsRecent' /\ History'
  <2>1. History'
    BY <1>3, HistorySave
  <2>2. /\ schedules' = [schedules EXCEPT ![s] = [saved |-> now, enabled |-> enabled,
                                                  rule |-> rule, exists |-> TRUE]]
        /\ work' = work /\ woken' = TRUE
    BY <1>3 DEF save_schedule
  <2>3. work.list # {} => work.now <= now
    BY DEF Control, WorkIsShaped
  <2>4. ASSUME NEW e \in work.list
        PROVE  /\ e[2].exists
               /\ schedules'[e[1]].exists => schedules'[e[1]] = e[2] \/ schedules'[e[1]].saved >= work.now
               /\ schedules'[e[1]].saved >= work.now \/ ~schedules'[e[1]].exists \/ schedules'[e[1]] = e[2]
    <3>1. e[1] \in Schedules /\ now \in Nat /\ work.now \in Nat
      BY TimeTypes
    <3>2. CASE e[1] = s
      BY <3>1, <3>2, <2>2, <2>3 DEF ListIsRecent, TypeOK
    <3>3. CASE e[1] # s
      BY <3>1, <3>3, <2>2 DEF ListIsRecent, TypeOK
    <3> QED BY <3>2, <3>3
  <2>5. ListIsRecent'
    BY <2>2, <2>4 DEF ListIsRecent
  <2> QED BY <2>1, <2>5
<1>4. ASSUME delete_schedule
      PROVE  ListIsRecent' /\ History'
  <2>1. History'
    BY <1>4, HistoryDelete
  <2>2. /\ request.schedule \in Schedules /\ work' = work /\ woken' = TRUE
        /\ schedules' = [schedules EXCEPT ![request.schedule] = Deleted]
    BY <1>4, DeleteIs
  <2>3. ASSUME NEW e \in work.list
        PROVE  /\ e[2].exists
               /\ \/ schedules'[e[1]] = e[2]
                  \/ schedules'[e[1]].exists => schedules'[e[1]].saved >= work.now
    <3>1. e[1] \in Schedules
      BY TimeTypes
    <3> QED BY <3>1, <2>2 DEF ListIsRecent, TypeOK, Deleted
  <2>4. ListIsRecent'
    BY <2>2, <2>3 DEF ListIsRecent
  <2> QED BY <2>1, <2>4
<1> QED BY <1>1, <1>2, <1>3, <1>4, SteadyNext

-----------------------------------------------------------------------------
(* What is due while the loop sleeps. *)

LEMMA QuietHolds ==
  ASSUME TypeOK, Steady, NEW s \in Schedules, NEW t \in Int, Quiet(s, t)
  PROVE  Quiet(s, t)'
<1> SUFFICES ASSUME schedules'[s].exists, NEW u \in due(s, schedules[s], t)'
             PROVE  FALSE
  BY DEF Quiet
<1>1. schedules' = schedules /\ \A j \in Runs : rows'[j] = NoRow <=> rows[j] = NoRow
  BY DEF Steady
<1>2. schedules[s] \in Saves
  BY TimeTypes
<1>3. schedules[s].enabled /\ u \in latest_at_or_before(schedules[s].rule, t + Lead)
      /\ window_end(schedules[s].rule, u) > schedules[s].saved /\ rows'[<<s, u>>] = NoRow
  BY <1>1 DEF due
<1>4. <<s, u>> \in Runs
  <2>1. schedules[s].rule.starts \subseteq Times
    BY <1>2, RuleTypes DEF Saves
  <2> QED BY <2>1, <1>3 DEF latest_at_or_before, Runs
<1>5. u \in due(s, schedules[s], t)
  BY <1>1, <1>3, <1>4 DEF due
<1> QED BY <1>1, <1>5 DEF Quiet

LEMMA QuietUntilHolds ==
  ASSUME TypeOK, TypeOK', Steady, now <= now', next' = next,
         \A s \in Schedules : QuietUntil(s, now, next)
  PROVE  \A s \in Schedules : QuietUntil(s, now, next)'
<1>1. now \in Nat /\ now' \in Nat /\ next \in Nat
  BY BasicTypes DEF TypeOK
<1> SUFFICES ASSUME NEW s \in Schedules, NEW t \in Int, now' <= t, t < next'
             PROVE  Quiet(s, t)'
  BY DEF QuietUntil
<1>2. Quiet(s, t)
  BY <1>1 DEF QuietUntil
<1> QED BY <1>2, QuietHolds

Sleeping == up /\ work.by # "loop" /\ ~woken /\ ~failed

LEMMA SleepHolds ==
  ASSUME TypeOK, TypeOK', SleepIsQuiet, Steady, rows' = rows, now <= now', next' = next,
         Sleeping' => Sleeping
  PROVE  SleepIsQuiet'
<1> SUFFICES ASSUME Sleeping'
             PROVE  /\ \A s \in Schedules : QuietUntil(s, now, next)'
                    /\ \A i \in Running' : next' <= now' \/ next' <= rows'[i].end + Idle
  BY DEF SleepIsQuiet, Sleeping
<1>1. /\ \A s \in Schedules : QuietUntil(s, now, next)
      /\ \A i \in Running : next <= now \/ next <= rows[i].end + Idle
  BY DEF SleepIsQuiet, Sleeping
<1>2. now \in Nat /\ now' \in Nat /\ next \in Nat
  BY BasicTypes DEF TypeOK
<1> QED BY <1>1, <1>2, QuietUntilHolds DEF Running

LEMMA SleepNext ==
  ASSUME TypeOK, TypeOK', Control, Control', SleepIsQuiet, TickIsQuiet, ListIsRecent, [Next]_vars
  PROVE  SleepIsQuiet'
<1>0. /\ now \in Nat /\ now <= now /\ next \in Nat /\ work.now \in Nat /\ work.next \in Nat
      /\ work \in Works
  BY TimeTypes DEF TypeOK
<1>1. CASE ~Sleeping'
  BY <1>1 DEF SleepIsQuiet, Sleeping
<1>2. ASSUME Sleeping', TickEnds
      PROVE  SleepIsQuiet'
  <2>1. /\ work.by = "loop" /\ work.stage = "list" /\ work.list = {} /\ work.runs = {}
        /\ next' = work.next /\ ~woken /\ UNCHANGED <<now, schedules, rows, begun>>
        /\ work.now <= now
    BY <1>2 DEF TickEnds, Control, WorkIsShaped, Stopping, Sleeping, tables, ghosts
  <2>2. /\ \A s \in Schedules : QuietUntil(s, work.now, work.next)
        /\ \A i \in Running : work.next <= rows[i].end + Idle
    BY <2>1 DEF TickIsQuiet, Starting, Stopping
  <2>3. Steady
    <3>1. OtherWork
      BY <1>2, FreeIs DEF TickEnds, OtherWork
    <3> QED BY <3>1, <2>1, <1>0, SteadyIs
  <2>4. ASSUME NEW s \in Schedules, NEW t \in Int, now <= t, t < work.next
        PROVE  Quiet(s, t)'
    <3>1. Quiet(s, t)
      BY <2>1, <2>2, <2>4, <1>0 DEF QuietUntil
    <3> QED BY <3>1, <2>3, QuietHolds
  <2> QED BY <2>1, <2>2, <2>4, <1>0 DEF SleepIsQuiet, QuietUntil, Running
<1>3. ASSUME Sleeping', Restart
      PROVE  SleepIsQuiet'
  <2>1. next' = now /\ now' = now
    BY <1>3 DEF Restart
  <2> QED BY <2>1, <1>0 DEF SleepIsQuiet, QuietUntil
<1>12. CASE StopSaveFails /\ work.by = "loop"
  BY <1>12, StopSaveFailsIs DEF SleepIsQuiet
<1>13. ASSUME Sleeping', StopSaveFails, work.by # "loop"
       PROVE  SleepIsQuiet'
  <2>1. UNCHANGED <<now, up, schedules, rows, next, woken, begun, failed>>
    BY <1>13, StopSaveFailsIs
  <2>2. Steady
    <3>1. OtherWork
      BY <1>13, FreeIs, StopSaveFailsIs DEF OtherWork
    <3> QED BY <3>1, <2>1, <1>0, SteadyIs
  <2> QED BY <2>1, <2>2, <1>0, <1>13, SleepHolds DEF Sleeping
<1>4. ASSUME Sleeping', StopCalls \/ stop_now \/ DropRequest \/ TimePasses \/ UNCHANGED vars
             \/ (\E s \in Schedules, kind \in {"stop", "delete"} : RequestStop(s, kind))
             \/ (\E t \in Recorded : PersonStops(t) \/ PersonStarts(t))
      PROVE  SleepIsQuiet'
  <2>1. UNCHANGED <<up, schedules, rows, next, woken, begun, failed>>
    BY <1>4 DEF StopCalls, stop_now, DropRequest, TimePasses, RequestStop, PersonStops, PersonStarts,
                vars, tables, loop, ghosts, counts
  <2>2. now <= now'
    <3>1. CASE TimePasses
      BY <3>1, <1>0 DEF TimePasses
    <3>2. CASE now' = now
      BY <3>2, <1>0
    <3> QED BY <1>4, <3>1, <3>2 DEF StopCalls, stop_now, DropRequest, RequestStop, PersonStops,
                                    PersonStarts, vars
  <2>3. work.by # "loop"
    <3>1. CASE StopCalls
      BY <3>1, <1>4, <1>0 DEF StopCalls, Works, Sleeping
    <3>2. CASE stop_now
      BY <3>2, FreeIs DEF stop_now, Control, WorkIsShaped, TypeOK
    <3>3. CASE DropRequest
      BY <3>3, <1>4 DEF DropRequest, Sleeping
    <3>4. CASE work' = work
      BY <3>4, <1>4 DEF Sleeping
    <3> QED BY <3>1, <3>2, <3>3, <3>4, <1>4 DEF TimePasses, RequestStop, PersonStops, PersonStarts, vars
  <2>4. Steady
    <3>1. OtherWork
      BY <1>4 DEF OtherWork, Sleeping, Control, WorkIsShaped
    <3> QED BY <3>1, <2>1, <2>2, SteadyIs
  <2> QED BY <2>1, <2>2, <2>3, <2>4, <1>4, SleepHolds DEF Sleeping
(* The other steps leave the loop at work, woken or failed, or the process down. *)
<1>5. TickBegins => work'.by = "loop"
  BY DEF TickBegins, Free
<1>6. TickStops \/ schedules_list \/ RecordCalls \/ PlayCalls => work'.by = "loop"
  <2>1. TickStops => work'.by = "loop"
    BY <1>0 DEF TickStops, Control, WorkIsShaped, Works
  <2>2. schedules_list => work'.by = "loop"
    BY <1>0 DEF schedules_list, Control, WorkIsShaped, Works
  <2>3. RecordCalls => work'.by = "loop"
    BY <1>0 DEF RecordCalls, Control, WorkIsShaped, Starting, Works
  <2>4. PlayCalls => work'.by = "loop"
    BY <1>0 DEF PlayCalls, Control, WorkIsShaped, Starting, Works
  <2> QED BY <2>1, <2>2, <2>3, <2>4
<1>7. StopSaves => work'.by = "loop" \/ woken'
  BY <1>0 DEF StopSaves, After, Works
<1>8. ASSUME NEW e \in work.list, NothingDue(e) \/ \E u \in Times : ComesDue(e, u)
      PROVE  work'.by = "loop" \/ failed'
  <2>1. Listed(e).by = "loop"
    BY <1>0, ListedIs DEF Control, WorkIsShaped
  <2>2. CASE NothingDue(e)
    BY <2>1, <2>2 DEF NothingDue
  <2>3. ASSUME NEW u \in Times, ComesDue(e, u)
        PROVE  work'.by = "loop" \/ failed'
    <3>1. CASE ~Insertable(<<e[1], u>>)
      BY <2>3, <3>1 DEF ComesDue, TickFails
    <3>2. CASE Insertable(<<e[1], u>>)
      <4> DEFINE i == <<e[1], u>>
                 open == work.now < window_end(e[2].rule, u)
                 row == new_run(e[2].rule, u, IF open THEN "running" ELSE "skipped")
                 started == [work EXCEPT !.stage = "record", !.id = i, !.run = row, !.rule = e[2]]
      <4>1. work' = IF open THEN started ELSE Listed(e)
        BY <2>3, <3>2 DEF ComesDue
      <4> HIDE DEF i, open, row
      <4>2. started.by = "loop"
        BY <1>0 DEF Works, Control, WorkIsShaped
      <4> HIDE DEF started
      <4> QED BY <4>1, <4>2, <2>1
    <3> QED BY <3>1, <3>2
  <2> QED BY <1>8, <2>2, <2>3
<1>9. StartSaves => work'.by = "loop" \/ failed'
  <2> SUFFICES ASSUME StartSaves PROVE work'.by = "loop" \/ failed'
    OBVIOUS
  <2>1. work.by = "loop" /\ <<work.id[1], work.rule>> \in work.list
    BY StartSavesIs
  <2>2. StartIsSaved => work'.by = "loop"
    BY <2>1, <1>0, ListedIs DEF StartIsSaved
  <2>3. StartIsLost => failed'
    BY DEF StartIsLost, TickFails
  <2> QED BY <2>2, <2>3, StartSavesIs
<1>10. (\E s \in Schedules, rule \in Rules, enabled \in BOOLEAN : save_schedule(s, rule, enabled))
       \/ delete_schedule => woken'
  BY DEF save_schedule, delete_schedule
<1>11. Crash => ~up'
  BY DEF Crash
<1> QED BY <1>1, <1>2, <1>3, <1>4, <1>5, <1>6, <1>7, <1>8, <1>9, <1>10, <1>11, <1>12, <1>13
        DEF Next, Sleeping

(* What is due of a schedule before the next look was due as the tick began.  *)
LEMMA ListedIsQuiet ==
  ASSUME TypeOK, NEW e \in work.list, NEW t \in Int, work.now <= t, t < Listed(e).next,
         NEW u \in due(e[1], e[2], t)'
  PROVE  /\ u \in latest_at_or_before(e[2].rule, work.now + Lead) /\ e[2].enabled
         /\ window_end(e[2].rule, u) > e[2].saved /\ rows'[<<e[1], u>>] = NoRow
         /\ u \in Times
<1>0. /\ e[2] \in Saves /\ work \in Works /\ work.now \in Times /\ work.now \in Nat
      /\ work.next \in Nat
  BY TimeTypes DEF TypeOK, Works
<1>1. e[2].rule.starts \subseteq Times /\ Times \subseteq Nat /\ Lead \in Nat
  BY <1>0, RuleTypes, BasicTypes DEF Saves
<1>2. /\ u \in latest_at_or_before(e[2].rule, t + Lead) /\ e[2].enabled
      /\ window_end(e[2].rule, u) > e[2].saved /\ rows'[<<e[1], u>>] = NoRow
  BY DEF due
<1>3. Listed(e).next = look_again(e[2], work.now, work.next)
  BY <1>0, ListedIs
<1>4. /\ look_again(e[2], work.now, work.next) \in Nat
      /\ \A v \in e[2].rule.starts : v > work.now + Lead =>
                                       look_again(e[2], work.now, work.next) <= v - Lead
  BY <1>0, <1>2, LookAgainIs
<1>5. \A v \in e[2].rule.starts : v <= t + Lead => v <= work.now + Lead
  <2> SUFFICES ASSUME NEW v \in e[2].rule.starts, v <= t + Lead, v > work.now + Lead
               PROVE  FALSE
    BY <1>0, <1>1
  <2>1. Listed(e).next <= v - Lead /\ v \in Nat /\ Listed(e).next \in Nat
    BY <1>1, <1>3, <1>4
  <2> QED BY <2>1, <1>1
<1>6. u \in e[2].rule.starts /\ u <= t + Lead
      /\ \A v \in e[2].rule.starts : v <= t + Lead => v <= u
  BY <1>2 DEF latest_at_or_before
<1>7. \A v \in e[2].rule.starts : v <= work.now + Lead => v <= t + Lead
  <2> SUFFICES ASSUME NEW v \in e[2].rule.starts, v <= work.now + Lead
               PROVE  v <= t + Lead
    OBVIOUS
  <2>1. v \in Nat
    BY <1>1
  <2> QED BY <2>1, <1>0, <1>1
<1>8. u \in latest_at_or_before(e[2].rule, work.now + Lead)
  BY <1>5, <1>6, <1>7 DEF latest_at_or_before
<1> QED BY <1>1, <1>2, <1>6, <1>8

(* So a tick that has dealt with what was due then has for as long as it      *)
(* sleeps.                                                                    *)
LEMMA QuietListed ==
  ASSUME TypeOK, NEW e \in work.list, schedules'[e[1]] = e[2], work'.next = Listed(e).next,
         work'.now = work.now,
         \A u \in latest_at_or_before(e[2].rule, work.now + Lead) :
             e[2].enabled /\ window_end(e[2].rule, u) > e[2].saved => rows'[<<e[1], u>>] # NoRow
  PROVE  QuietUntil(e[1], work.now, work.next)'
<1> SUFFICES ASSUME NEW t \in Int, work.now <= t, t < Listed(e).next
             PROVE  due(e[1], schedules[e[1]], t)' = {}
  BY DEF QuietUntil, Quiet
<1>1. due(e[1], e[2], t)' = {}
  <2> SUFFICES ASSUME NEW u \in due(e[1], e[2], t)'
               PROVE  FALSE
    OBVIOUS
  <2> QED BY ListedIsQuiet
<1> QED BY <1>1 DEF due

(* The running rows of a tick end, or are dealt with, before the next look.   *)
RunsAreSeen ==
    \A i \in Running :
        \/ work.next <= rows[i].end + Idle
        \/ work.stage \in Starting \cup Stopping /\ work.id = i
        \/ \E r \in work.runs : r[1] = i

(* The schedules a tick is done with.                                         *)
ListIsDone ==
    ~woken /\ work.stage \in {"list"} \cup Starting =>
        \A s \in Schedules :
            (\A e \in work.list : e[1] # s) => QuietUntil(s, work.now, work.next)

LEMMA TickIsQuietIs == TickIsQuiet <=> (work.by = "loop" => RunsAreSeen /\ ListIsDone)
  BY DEF TickIsQuiet, RunsAreSeen, ListIsDone

LEMMA RunsHold ==
  ASSUME RunsAreSeen, \A i \in Running' : i \in Running /\ rows'[i].end = rows[i].end,
         work'.next = work.next, work'.runs = work.runs, work'.id = work.id,
         work.stage \in Starting \cup Stopping => work'.stage \in Starting \cup Stopping
  PROVE  RunsAreSeen'
  BY DEF RunsAreSeen

LEMMA DoneHolds ==
  ASSUME TypeOK, ListIsDone, Steady, woken => woken', work'.list = work.list,
         work'.now = work.now, work'.next = work.next,
         work'.stage \in {"list"} \cup Starting => work.stage \in {"list"} \cup Starting
  PROVE  ListIsDone'
<1> SUFFICES ASSUME ~woken', work'.stage \in {"list"} \cup Starting,
                    NEW s \in Schedules, \A e \in work.list : e[1] # s,
                    NEW t \in Int, work.now <= t, t < work.next
             PROVE  Quiet(s, t)'
  BY DEF ListIsDone, QuietUntil
<1>1. Quiet(s, t)
  BY DEF ListIsDone, QuietUntil
<1> QED BY <1>1, QuietHolds

(* A tick that is done with an entry. *)
LEMMA DoneListed ==
  ASSUME TypeOK, Control, ListIsRecent, ListIsDone, NEW e \in work.list, work' = Listed(e),
         UNCHANGED <<schedules, woken>>, work.stage \in {"list"} \cup Starting,
         \A i \in Runs : i[1] # e[1] /\ rows[i] # NoRow => rows'[i] # NoRow,
         ~woken => \A u \in latest_at_or_before(e[2].rule, work.now + Lead) :
             e[2].enabled /\ window_end(e[2].rule, u) > e[2].saved => rows'[<<e[1], u>>] # NoRow
  PROVE  ListIsDone'
<1>0. /\ work \in Works /\ e[1] \in Schedules /\ e[2] \in Saves
      /\ work.now \in Times /\ work.now \in Nat /\ work.next \in Nat
  BY TimeTypes DEF TypeOK, Works
<1>1. /\ work'.list = work.list \ {e} /\ work'.now = work.now /\ work'.next = Listed(e).next
      /\ work'.next = look_again(e[2], work.now, work.next)
  BY <1>0, ListedIs
<1>2. work'.next <= work.next /\ work'.next \in Nat
  BY <1>0, <1>1, LookAgainIs
<1> SUFFICES ASSUME ~woken, NEW s \in Schedules, \A f \in work.list \ {e} : f[1] # s
             PROVE  QuietUntil(s, work.now, work.next)'
  BY <1>1 DEF ListIsDone
<1>3. CASE s = e[1]
  <2>1. schedules[e[1]] = e[2]
    BY DEF ListIsRecent
  <2> QED BY <2>1, <1>1, <1>3, QuietListed
<1>4. CASE s # e[1]
  <2>1. QuietUntil(s, work.now, work.next)
    BY <1>4 DEF ListIsDone
  <2> SUFFICES ASSUME NEW t \in Int, work.now <= t, t < work'.next,
                      schedules[s].exists, NEW u \in due(s, schedules[s], t)'
               PROVE  FALSE
    BY <1>1 DEF QuietUntil, Quiet
  <2>2. due(s, schedules[s], t) = {}
    BY <2>1, <1>0, <1>2 DEF QuietUntil, Quiet
  <2>3. /\ schedules[s].enabled /\ u \in latest_at_or_before(schedules[s].rule, t + Lead)
        /\ window_end(schedules[s].rule, u) > schedules[s].saved /\ rows'[<<s, u>>] = NoRow
    BY DEF due
  <2>4. <<s, u>> \in Runs
    <3>1. schedules[s].rule.starts \subseteq Times
      BY TimeTypes, RuleTypes DEF Saves
    <3> QED BY <3>1, <2>3 DEF latest_at_or_before, Runs
  <2>5. rows[<<s, u>>] = NoRow
    BY <2>3, <2>4, <1>4
  <2> QED BY <2>2, <2>3, <2>5 DEF due
<1> QED BY <1>3, <1>4

(* ... of its runs, whose rows are as they were but for those not running.    *)
LEMMA RunsListed ==
  ASSUME TypeOK, RunsAreSeen, NEW e \in work.list, work' = Listed(e), work.runs = {},
         TypeOK', work.next <= work.now + Idle,
         \A i \in Running' : \/ i \in Running /\ rows'[i].end = rows[i].end
                                 /\ ~(work.stage \in Starting \cup Stopping /\ work.id = i)
                             \/ rows'[i].end > work.now
  PROVE  RunsAreSeen'
<1>0. /\ work \in Works /\ e[2] \in Saves
      /\ work.now \in Times /\ work.now \in Nat /\ work.next \in Nat
  BY TimeTypes DEF TypeOK, Works
<1>1. work'.next = look_again(e[2], work.now, work.next)
  BY <1>0, ListedIs
<1>2. work'.next <= work.next /\ work'.next \in Nat
  BY <1>0, <1>1, LookAgainIs
<1> SUFFICES ASSUME NEW i \in Running'
             PROVE  work'.next <= rows'[i].end + Idle
  BY DEF RunsAreSeen
<1>3. rows'[i].end \in Nat
  BY DEF Running, TypeOK, Rows
<1>4. CASE rows'[i].end > work.now
  BY <1>0, <1>2, <1>3, <1>4, BasicTypes
<1>5. CASE /\ i \in Running /\ rows'[i].end = rows[i].end
           /\ ~(work.stage \in Starting \cup Stopping /\ work.id = i)
  <2>1. work.next <= rows[i].end + Idle
    BY <1>5 DEF RunsAreSeen
  <2> QED BY <2>1, <1>0, <1>2, <1>3, <1>5, BasicTypes
<1> QED BY <1>4, <1>5

LEMMA TickComesDue ==
  ASSUME TypeOK, TypeOK', Control, ListIsRecent, RunsAreSeen, ListIsDone,
         NEW e \in work.list, NEW u \in Times, ComesDue(e, u), Insertable(<<e[1], u>>),
         rows'[<<e[1], u>>] # NoRow
  PROVE  RunsAreSeen' /\ ListIsDone'
<1> DEFINE i == <<e[1], u>>
           open == work.now < window_end(e[2].rule, u)
           row == new_run(e[2].rule, u, IF open THEN "running" ELSE "skipped")
           table == [rows EXCEPT ![i] = row]
           started == [work EXCEPT !.stage = "record", !.id = i, !.run = row, !.rule = e[2]]
<1>0. /\ work \in Works /\ e[1] \in Schedules /\ e[2] \in Saves
      /\ work.now \in Nat /\ work.now \in Int /\ work.next \in Nat
      /\ work.by = "loop" /\ work.next <= work.now + Idle /\ work.runs = {} /\ work.stage = "list"
  BY TimeTypes, SMTT(30) DEF TypeOK, Works, ComesDue, Control, WorkIsShaped, Stopping
<1>1. /\ i \in Runs /\ row.status = IF open THEN "running" ELSE "skipped"
      /\ rows[i] = NoRow /\ table \in [Runs -> Rows]
      /\ \A j \in Runs : \/ rows'[j] = table[j] /\ j \notin pruned(table, e[1])
                         \/ rows'[j] = NoRow /\ j \in pruned(table, e[1])
  BY ComesDueIs
<1>2. /\ work' = IF open THEN started ELSE Listed(e)
      /\ UNCHANGED <<schedules, woken>> /\ u \in due(e[1], e[2], work.now)
  BY DEF ComesDue
<1>3. u \in latest_at_or_before(e[2].rule, work.now + Lead)
  BY <1>0, <1>2, DueIs
<1>4. i[1] = e[1] /\ i[2] = u
  OBVIOUS
<1> HIDE DEF i, open, row, table
<1>5. \A j \in Runs : j # i => table[j] = rows[j]
  BY DEF table, TypeOK
<1>6. \A j \in Runs : j[1] # e[1] => rows'[j] = rows[j]
  <2>1. \A j \in pruned(table, e[1]) : j[1] = e[1]
    BY <1>0, <1>1, PrunedIs
  <2> QED BY <2>1, <1>1, <1>4, <1>5
<1>7. table[i] = row
  BY <1>1 DEF table, TypeOK
<1>8. NoRow.status # "running"
  BY DEF NoRow
<1>9. \A j \in Running' : j # i => j \in Running /\ rows'[j] = rows[j]
  BY <1>1, <1>5, <1>8 DEF Running
<1>10. CASE open
  <2>1. /\ work'.by = work.by /\ work'.stage = "record" /\ work'.now = work.now
        /\ work'.next = work.next /\ work'.list = work.list /\ work'.runs = work.runs /\ work'.id = i
    BY <1>0, <1>2, <1>10 DEF Works
  <2>2. RunsAreSeen'
    BY <2>1, <1>0, <1>9 DEF RunsAreSeen, Starting, Stopping
  <2>3. ListIsDone'
    <3> SUFFICES ASSUME ~woken, NEW s \in Schedules, \A f \in work.list : f[1] # s,
                        NEW t \in Int, work.now <= t, t < work.next,
                        schedules[s].exists, NEW w \in due(s, schedules[s], t)'
                 PROVE  FALSE
      BY <2>1, <1>2 DEF ListIsDone, QuietUntil, Quiet
    <3>1. due(s, schedules[s], t) = {}
      BY <1>0 DEF ListIsDone, QuietUntil, Quiet
    <3>2. /\ schedules[s].enabled /\ w \in latest_at_or_before(schedules[s].rule, t + Lead)
          /\ window_end(schedules[s].rule, w) > schedules[s].saved /\ rows'[<<s, w>>] = NoRow
      BY <1>2 DEF due
    <3>3. <<s, w>> \in Runs /\ <<s, w>>[1] = s
      <4>1. schedules[s].rule.starts \subseteq Times
        BY TimeTypes, RuleTypes DEF Saves
      <4> QED BY <4>1, <3>2 DEF latest_at_or_before, Runs
    <3>4. rows[<<s, w>>] = NoRow
      BY <3>2, <3>3, <1>6
    <3> QED BY <3>1, <3>2, <3>4 DEF due
  <2> QED BY <2>2, <2>3
<1>11. CASE ~open
  <2>1. work' = Listed(e)
    BY <1>2, <1>11
  <2>2. i \notin Running'
    <3>1. rows'[i] = row \/ rows'[i] = NoRow
      BY <1>1, <1>7
    <3> QED BY <3>1, <1>1, <1>8, <1>11 DEF Running
  <2>3. RunsAreSeen'
    BY <2>1, <2>2, <1>0, <1>9, RunsListed DEF Starting, Stopping
  <2>4. \A w \in latest_at_or_before(e[2].rule, work.now + Lead) : w = u
    <3>1. e[2].rule.starts \subseteq Nat
      BY <1>0, RuleTypes, BasicTypes DEF Saves
    <3> QED BY <3>1, <1>3 DEF latest_at_or_before
  <2>5. ListIsDone'
    BY <2>1, <2>4, <1>0, <1>2, <1>6, DoneListed
  <2> QED BY <2>3, <2>5
<1> QED BY <1>10, <1>11

LEMMA TickNext ==
  ASSUME WindowsClose, TypeOK, TypeOK', Control, ListIsRecent, History, TickIsQuiet, [Next]_vars
  PROVE  TickIsQuiet'
<1>0. /\ work \in Works /\ now \in Nat /\ work.now \in Nat /\ work.next \in Nat
      /\ work.by = "loop" => RunsAreSeen /\ ListIsDone
  BY TimeTypes, TickIsQuietIs DEF TypeOK
<1> SUFFICES ASSUME work'.by = "loop" PROVE RunsAreSeen' /\ ListIsDone'
  BY DEF TickIsQuiet, RunsAreSeen, ListIsDone
<1>1. CASE TickBegins
  <2> DEFINE over == {i \in Running : rows[i].end <= now}
             ends == {now + Idle} \cup {rows[i].end : i \in Running \ over}
             runs == {<<i, rows[i]>> : i \in over}
  <2>1. /\ work' = [Free EXCEPT !.by = "loop", !.stage = "ends", !.now = now,
                               !.runs = runs, !.next = Earliest(ends)]
        /\ rows' = rows
    BY <1>1 DEF TickBegins, tables
  <2>2. work'.stage = "ends" /\ work'.runs = runs /\ work'.next = Earliest(ends)
    BY <2>1 DEF Free
  <2>3. ends \in SUBSET Nat /\ ends # {}
    BY <1>0, BasicTypes DEF TypeOK, Running, Rows
  <2>4. ListIsDone'
    BY <2>2 DEF ListIsDone, Starting
  <2>5. RunsAreSeen'
    <3> SUFFICES ASSUME NEW i \in Running
                 PROVE  work'.next <= rows[i].end + Idle \/ \E r \in runs : r[1] = i
      BY <2>1, <2>2 DEF RunsAreSeen, Running
    <3>1. CASE i \in over
      <4>1. <<i, rows[i]>> \in runs /\ <<i, rows[i]>>[1] = i
        BY <3>1
      <4> QED BY <4>1
    <3>2. CASE i \notin over
      <4>1. rows[i].end \in ends
        BY <3>2
      <4>2. Earliest(ends) <= rows[i].end /\ Earliest(ends) \in Nat /\ rows[i].end \in Nat
        BY <4>1, <2>3, EarliestIs
      <4> QED BY <4>2, <2>2, BasicTypes
    <3> QED BY <3>1, <3>2
  <2> QED BY <2>4, <2>5
<1>2. CASE TickStops
  <2>1. PICK r \in work.runs :
           work' = [work EXCEPT !.stage = "stop", !.id = r[1], !.run = r[2], !.runs = @ \ {r}]
    BY <1>2 DEF TickStops
  <2>2. /\ work'.stage = "stop" /\ work'.id = r[1] /\ work'.runs = work.runs \ {r}
        /\ work'.next = work.next /\ work.by = "loop" /\ work.stage = "ends" /\ rows' = rows
    BY <1>0, <1>2, <2>1 DEF Works, TickStops, Control, WorkIsShaped, tables
  <2>3. RunsAreSeen'
    BY <2>2, <1>0 DEF RunsAreSeen, Running, Starting, Stopping
  <2>4. ListIsDone'
    BY <2>2 DEF ListIsDone, Starting
  <2> QED BY <2>3, <2>4
<1>3. CASE StopCalls
  <2>1. /\ work'.stage = "stopped" /\ work'.id = work.id /\ work'.runs = work.runs
        /\ work'.next = work.next /\ work'.by = work.by /\ work.stage = "stop" /\ rows' = rows
    BY <1>0, <1>3 DEF Works, StopCalls, tables
  <2>2. RunsAreSeen'
    BY <2>1, <1>0, RunsHold DEF Running, Starting, Stopping
  <2>3. ListIsDone'
    BY <2>1 DEF ListIsDone, Starting
  <2> QED BY <2>2, <2>3
<1>4. CASE StopSaves
  <2>1. /\ work.id \in Runs /\ \A j \in Runs \ {work.id} : rows'[j] = rows[j]
        /\ rows'[work.id].status # "running"
    <3>1. NoRow.status # "running"
      BY DEF NoRow
    <3> QED BY <1>4, <3>1, SavedRunIs
  <2>2. work.by = "loop" /\ work' = [work EXCEPT !.stage = "ends", !.run = NoRow, !.id = <<>>]
    BY <1>4, FreeIs DEF StopSaves, After
  <2>3. work'.stage = "ends" /\ work'.next = work.next /\ work'.runs = work.runs
    BY <2>2, <1>0 DEF Works
  <2>4. RunsAreSeen'
    BY <2>1, <2>2, <2>3, <1>0 DEF RunsAreSeen, Running
  <2>5. ListIsDone'
    BY <2>3 DEF ListIsDone, Starting
  <2> QED BY <2>4, <2>5
<1>5. CASE schedules_list
  <2> DEFINE list == {<<s, schedules[s]>> : s \in {s \in Schedules : schedules[s].exists}}
  <2>1. /\ work' = [work EXCEPT !.stage = "list", !.list = list] /\ work.stage = "ends"
        /\ work.runs = {} /\ work.by = "loop" /\ UNCHANGED <<schedules, rows>>
    BY <1>5 DEF schedules_list, tables, Control, WorkIsShaped
  <2>2. work'.list = list /\ work'.next = work.next /\ work'.runs = {}
    BY <2>1, <1>0 DEF Works
  <2>3. RunsAreSeen'
    BY <2>1, <2>2, <1>0 DEF RunsAreSeen, Running, Starting, Stopping
  <2>4. ListIsDone'
    <3> SUFFICES ASSUME NEW s \in Schedules, \A e \in list : e[1] # s
                 PROVE  ~schedules[s].exists
      BY <2>1, <2>2 DEF ListIsDone, QuietUntil, Quiet
    <3>1. schedules[s].exists => <<s, schedules[s]>> \in list
      OBVIOUS
    <3> QED BY <3>1
  <2> QED BY <2>3, <2>4
<1>6. ASSUME NEW e \in work.list, NothingDue(e)
      PROVE  RunsAreSeen' /\ ListIsDone'
  <2>1. /\ work' = Listed(e) /\ work.stage = "list" /\ due(e[1], e[2], work.now) = {}
        /\ UNCHANGED <<schedules, rows, woken>> /\ work.by = "loop"
        /\ work.runs = {} /\ work.next <= work.now + Idle
    BY <1>6 DEF NothingDue, tables, loop, Control, WorkIsShaped, Stopping
  <2>2. RunsAreSeen'
    BY <2>1, <1>0, RunsListed DEF Running, Starting, Stopping
  <2>3. \A u \in latest_at_or_before(e[2].rule, work.now + Lead) :
           e[2].enabled /\ window_end(e[2].rule, u) > e[2].saved => rows'[<<e[1], u>>] # NoRow
    <3> SUFFICES ASSUME NEW u \in latest_at_or_before(e[2].rule, work.now + Lead), e[2].enabled,
                        window_end(e[2].rule, u) > e[2].saved, rows[<<e[1], u>>] = NoRow
                 PROVE  FALSE
      BY <2>1 DEF tables
    <3>1. u \in due(e[1], e[2], work.now)
      BY DEF due
    <3> QED BY <3>1, <2>1
  <2>4. ListIsDone'
    BY <2>1, <2>3, <1>0, DoneListed
  <2> QED BY <2>2, <2>4
<1>7. ASSUME NEW e \in work.list, NEW u \in Times, ComesDue(e, u)
      PROVE  RunsAreSeen' /\ ListIsDone'
  <2>1. work.by = "loop"
    BY <1>7 DEF ComesDue, Control, WorkIsShaped
  <2>2. Insertable(<<e[1], u>>)
    BY <1>7, FreeIs DEF ComesDue, TickFails
  <2>3. rows'[<<e[1], u>>] # NoRow
    BY <1>7, <2>2, HistoryComesDue
  <2> QED BY <1>0, <1>7, <2>1, <2>2, <2>3, TickComesDue
<1>8. CASE RecordCalls \/ PlayCalls
  <2>1. /\ work.by = "loop" /\ work.stage \in Starting
        /\ UNCHANGED <<now, schedules, rows, begun, woken>>
    BY <1>8 DEF RecordCalls, PlayCalls, Control, WorkIsShaped, Starting, tables, loop, ghosts
  <2>2. /\ work'.stage \in Starting /\ work'.id = work.id /\ work'.runs = work.runs
        /\ work'.next = work.next /\ work'.list = work.list /\ work'.now = work.now
    <3>1. CASE RecordCalls
      BY <3>1, <1>0 DEF RecordCalls, Works, Starting
    <3>2. CASE PlayCalls
      BY <3>2, <1>0 DEF PlayCalls, Works, Starting
    <3> QED BY <1>8, <3>1, <3>2
  <2>3. Steady
    <3>1. SameWork
      BY <2>1, <2>2 DEF SameWork
    <3> QED BY <3>1, <2>1, <1>0, SteadyIs
  <2>4. RunsAreSeen'
    BY <2>1, <2>2, <1>0, RunsHold DEF Running
  <2>5. ListIsDone'
    BY <2>1, <2>2, <2>3, <1>0, DoneHolds
  <2> QED BY <2>4, <2>5
<1>9. CASE StartSaves
  <2> DEFINE e == <<work.id[1], work.rule>>
  <2>1. /\ work.by = "loop" /\ work.id \in Runs /\ work.run \in Rows /\ work.runs = {}
        /\ e \in work.list /\ status(work.run) # "none"
        /\ status(work.run) = "running" => work.run.end # 0
        /\ UNCHANGED <<schedules, woken>>
    BY <1>9, StartSavesIs
  <2>2. StartIsSaved
    BY <1>9, FreeIs, StartSavesIs DEF StartIsLost, TickFails
  <2>3. /\ work.stage \in Starting /\ work.next <= work.now + Idle
        /\ work.id[2] \in latest_at_or_before(work.rule.rule, work.now + Lead)
        /\ rows[work.id] # NoRow \/ woken
        /\ work.run.end # 0 => work.run.end > work.now
    <3>1. work.stage \in Starting
      BY <1>9 DEF StartSaves, Starting
    <3>2. [work.run EXCEPT !.ok = {}, !.failed = {}] # NoRow
      <4>1. [work.run EXCEPT !.ok = {}, !.failed = {}].status = "running"
        BY <2>1, <3>1 DEF Rows, Control, WorkIsShaped
      <4> QED BY <4>1 DEF NoRow
    <3> QED BY <2>1, <3>1, <3>2 DEF Control, WorkIsShaped, StartsWhatIsDue
  <2>4. LET row == [work.run EXCEPT !.status = status(work.run)]
        IN  row.status = status(work.run) /\ row.end = work.run.end /\ row # NoRow
    <3>1. [work.run EXCEPT !.status = status(work.run)].status = status(work.run)
      BY <2>1 DEF Rows
    <3>2. [work.run EXCEPT !.status = status(work.run)].end = work.run.end
      BY <2>1 DEF Rows
    <3> QED BY <3>1, <3>2, <2>1 DEF NoRow
  <2>5. RunsAreSeen'
    <3> SUFFICES ASSUME NEW i \in Running'
                 PROVE  \/ i \in Running /\ rows'[i].end = rows[i].end /\ i # work.id
                        \/ rows'[i].end > work.now
      BY <2>1, <2>2, <2>3, <1>0, RunsListed DEF StartIsSaved
    <3>1. CASE i # work.id
      BY <3>1, <2>2 DEF StartIsSaved, Running
    <3>2. CASE i = work.id
      <4>1. rows'[i].status = "running" /\ NoRow.status # "running"
        BY DEF Running, NoRow
      <4>2. rows'[i] = [work.run EXCEPT !.status = status(work.run)]
        BY <3>2, <4>1, <2>1, <2>2 DEF StartIsSaved
      <4> QED BY <4>1, <4>2, <2>1, <2>3, <2>4
    <3> QED BY <3>1, <3>2
  <2>6. \A i \in Runs : rows[i] # NoRow => rows'[i] # NoRow
    BY <2>2, <2>4 DEF StartIsSaved
  <2>7. ~woken => \A u \in latest_at_or_before(e[2].rule, work.now + Lead) :
           rows'[<<e[1], u>>] # NoRow
    <3> SUFFICES ASSUME ~woken, NEW u \in latest_at_or_before(work.rule.rule, work.now + Lead)
                 PROVE  rows'[<<work.id[1], u>>] # NoRow
      OBVIOUS
    <3>1. work.rule \in Saves
      BY <1>0 DEF Works
    <3>2. u = work.id[2]
      <4>1. work.rule.rule.starts \subseteq Nat
        BY <3>1, RuleTypes, BasicTypes DEF Saves
      <4> QED BY <4>1, <2>3 DEF latest_at_or_before
    <3>3. work.id = <<work.id[1], work.id[2]>>
      BY <2>1 DEF Runs
    <3> QED BY <3>2, <3>3, <2>1, <2>3, <2>6
  <2>8. ListIsDone'
    <3> HIDE DEF e
    <3>1. work' = Listed(e)
      BY <2>2 DEF StartIsSaved, e
    <3> QED BY <3>1, <2>1, <2>3, <2>6, <2>7, <1>0, DoneListed
  <2> QED BY <2>5, <2>8
<1>10. ASSUME NEW s \in Schedules, NEW rule \in Rules, NEW enabled \in BOOLEAN,
              save_schedule(s, rule, enabled)
       PROVE  RunsAreSeen' /\ ListIsDone'
  <2>1. woken' /\ work' = work /\ rows' = rows
    BY <1>10 DEF save_schedule
  <2> QED BY <2>1, <1>0, RunsHold DEF ListIsDone, Running
<1>11. CASE delete_schedule
  <2>1. /\ woken' /\ work' = work
        /\ \A i \in Runs : rows'[i] = NoRow \/ rows'[i] = rows[i]
    BY <1>11, DeleteIs
  <2>2. \A i \in Running' : i \in Running /\ rows'[i].end = rows[i].end
    BY <2>1 DEF Running, NoRow
  <2> QED BY <2>1, <2>2, <1>0, RunsHold DEF ListIsDone
<1>12. CASE \/ \E s \in Schedules, kind \in {"stop", "delete"} : RequestStop(s, kind)
            \/ \E t \in Recorded : PersonStops(t) \/ PersonStarts(t)
            \/ TimePasses \/ Restart \/ UNCHANGED vars
            \/ (stop_now /\ work' = work) \/ (DropRequest /\ work' = work)
  <2>1. UNCHANGED <<schedules, rows, woken, begun>> /\ work' = work
    BY <1>12 DEF RequestStop, PersonStops, PersonStarts, TimePasses, Restart, stop_now, DropRequest,
                 vars, tables, loop, ghosts
  <2>2. now <= now'
    <3>1. CASE TimePasses
      BY <3>1, <1>0 DEF TimePasses
    <3>2. CASE now' = now
      BY <3>2, <1>0
    <3> QED BY <1>12, <3>1, <3>2 DEF RequestStop, PersonStops, PersonStarts, Restart, stop_now,
                                     DropRequest, vars
  <2>3. Steady
    BY <2>1, <2>2, SteadyIs DEF SameWork
  <2> QED BY <2>1, <2>3, <1>0, RunsHold, DoneHolds DEF Running
(* The others give the lock to a request, or to no one.                       *)
<1>13. TickEnds \/ StopSaveFails \/ Crash => FALSE
  BY FreeIs, StopSaveFailsIs DEF TickEnds, Crash
<1>14. stop_now \/ DropRequest => work' = work
  BY FreeIs DEF stop_now, DropRequest, Free
<1> QED BY <1>1, <1>2, <1>3, <1>4, <1>5, <1>6, <1>7, <1>8, <1>9, <1>10, <1>11, <1>12, <1>13, <1>14
        DEF Next

-----------------------------------------------------------------------------
(* Whatever the rules are: an occurrence's row is as its run is.              *)

LEMMA InitIsControlled == Init => TypeOK /\ Control
<1> SUFFICES ASSUME Init PROVE Control
  BY InitIsTyped
<1>1. work = Free /\ \A t \in Targets : on[t] = Nobody
  BY DEF Init
<1>2. NothingForgotten
  BY <1>1, PeopleAssumption, ChannelsAssumption DEF NothingForgotten, Targets
<1> QED BY <1>1, <1>2, FreeIs DEF Control, WorkIsShaped, StopsWhatRuns, StartsWhatIsDue,
                                 Starting, Stopping, Init

LEMMA TypedAndControlled == Spec => [](TypeOK /\ Control)
<1>1. TypeOK /\ Control /\ [Next]_vars => (TypeOK /\ Control)'
  BY TypeNext, ControlNext DEF Control
<1> QED BY InitIsControlled, <1>1, PTL DEF Spec

(* The scheduler's state is well typed. *)
THEOREM TypeCorrect == Spec => []TypeOK
  BY TypedAndControlled, PTL

(* What a run started and is to stop is on a running row, until it is stopped *)
(* (scheduler.rs:8), whatever crashes, is deleted, or is done by people.      *)
THEOREM RunsAreAccounted == Spec => []Accounted
<1>1. TypeOK /\ Control => Accounted
  BY DEF Accounted, Control
<1> QED BY <1>1, TypedAndControlled, PTL

LEMMA FinalNext ==
  ASSUME TypeOK, Control, [Next]_vars,
         NEW i \in Runs, rows[i].status \in Statuses \ {"none", "running"}
  PROVE  rows'[i] \in {rows[i], NoRow}
<1>0. rows[i] # NoRow /\ rows[i].status # "running" /\ [work.run EXCEPT !.ok = {}, !.failed = {}].status = work.run.status
  BY DEF NoRow, TypeOK, Works, Rows
<1>1. CASE UNCHANGED rows
  BY <1>1
<1>2. CASE StopSaves
  <2>1. work.id \in Runs /\ \A j \in Runs \ {work.id} : rows'[j] = rows[j]
    BY <1>2, SavedRunIs
  <2>2. work.stage = "stopped"
    BY <1>2 DEF StopSaves
  <2>3. rows[work.id] \in {NoRow, work.run} /\ work.run.status = "running"
    BY <2>2 DEF Control, StopsWhatRuns, WorkIsShaped, Stopping
  <2> QED BY <2>1, <2>3, <1>0
<1>3. ASSUME NEW e \in work.list, NEW u \in Times, ComesDue(e, u)
      PROVE  rows'[i] \in {rows[i], NoRow}
  <2>1. CASE ~Insertable(<<e[1], u>>)
    BY <1>3, <2>1 DEF ComesDue
  <2>2. CASE Insertable(<<e[1], u>>)
    <3>1. rows[<<e[1], u>>] = NoRow
      BY <2>2 DEF Insertable
    <3>2. \E row : schedule_run_insert(<<e[1], u>>, row)
      BY <1>3, <2>2 DEF ComesDue
    <3>3. PICK row : schedule_run_insert(<<e[1], u>>, row)
      BY <3>2
    <3>4. i # <<e[1], u>>
      BY <3>1, <1>0
    <3> DEFINE table == [rows EXCEPT ![<<e[1], u>>] = row]
    <3>5. table[i] = rows[i]
      BY <3>4 DEF TypeOK
    <3>6. rows'[i] = NoRow \/ rows'[i] = table[i]
      BY <3>3 DEF schedule_run_insert
    <3> QED BY <3>5, <3>6
  <2> QED BY <2>1, <2>2
<1>4. CASE StartSaves
  <2>1. work.stage \in Starting
    BY <1>4 DEF StartSaves, Starting
  <2>2. rows[work.id] = NoRow \/ rows[work.id].status = "running"
    BY <2>1, <1>0 DEF Control, WorkIsShaped, StartsWhatIsDue
  <2>3. work.id \in Runs
    BY <2>1 DEF Control, WorkIsShaped
  <2>4. i # work.id
    BY <2>2, <1>0
  <2> QED BY <1>4, <2>3, <2>4 DEF StartSaves, schedule_run_update, TypeOK
<1>5. CASE delete_schedule
  BY <1>5 DEF delete_schedule
<1>6. UNCHANGED vars => UNCHANGED rows
  BY DEF vars, tables
<1> QED BY <1>1, <1>2, <1>3, <1>4, <1>5, <1>6
        DEF Next, TickBegins, TickStops, StopCalls, StopSaveFails, schedules_list, NothingDue, RecordCalls,
            PlayCalls, TickEnds, save_schedule, RequestStop, stop_now, DropRequest, PersonStops,
            PersonStarts, TimePasses, Crash, Restart, tables

(* What a row says in the end stays: a run that is over doesn't run again.    *)
THEOREM FinalRowsStay == Spec => FinalStays
<1>1. TypeOK /\ Control /\ [Next]_vars
      => [\A i \in Runs : rows[i].status \in Statuses \ {"none", "running"}
             => rows'[i] \in {rows[i], NoRow}]_vars
  BY FinalNext
<1> QED BY <1>1, TypedAndControlled, PTL DEF Spec, FinalStays

-----------------------------------------------------------------------------
(* Where windows close before their rows are pruned: nothing runs twice, and  *)
(* nothing due is slept through.                                              *)

LEMMA InitIsInvariant == Init => IInv
<1> SUFFICES ASSUME Init PROVE IInv
  OBVIOUS
<1>1. TypeOK /\ Control
  BY InitIsControlled
<1>2. /\ work = Free /\ work.by # "loop" /\ work.list = {}
      /\ \A s \in Schedules : schedules[s] = Deleted
      /\ \A i \in Runs : rows[i] = NoRow /\ begun[i] = 0 /\ i[1] \in Schedules
  BY FreeIs DEF Init, Free, Runs
<1>3. ~Deleted.exists /\ NoRow.status # "running"
  BY DEF Deleted, NoRow
<1>4. ListIsRecent /\ TickIsQuiet
  BY <1>2 DEF ListIsRecent, TickIsQuiet
<1>5. RowsHaveCome /\ PrunedIsPast /\ OncePerOccurrence
  BY <1>2, <1>3 DEF RowsHaveCome, PrunedIsPast, OncePerOccurrence
<1>6. SleepIsQuiet
  BY <1>2, <1>3 DEF SleepIsQuiet, QuietUntil, Quiet, Running
<1> QED BY <1>1, <1>4, <1>5, <1>6 DEF IInv, Control

LEMMA NextKeepsInvariant ==
  ASSUME WindowsClose, IInv, [Next]_vars
  PROVE  IInv'
<1>1. TypeOK /\ Control /\ History
  BY DEF IInv, Control, History
<1>2. TypeOK' /\ Control'
  BY <1>1, TypeNext, ControlNext DEF Control
<1>3. ListIsRecent' /\ History'
  BY <1>1, <1>2, RecentNext DEF IInv
<1>4. SleepIsQuiet' /\ TickIsQuiet'
  BY <1>1, <1>2, SleepNext, TickNext DEF IInv
<1> QED BY <1>2, <1>3, <1>4 DEF IInv, Control, History

LEMMA Invariant ==
  ASSUME WindowsClose
  PROVE  Spec => []IInv
<1>1. IInv /\ [Next]_vars => IInv'
  BY NextKeepsInvariant
<1> QED BY InitIsInvariant, <1>1, PTL DEF Spec

(* "inserted before anything starts, so it can't run twice" (scheduler.rs:7): *)
(* through crashes, failed writes, edits of the schedule and pruned rows.     *)
THEOREM NothingRunsTwice ==
  ASSUME WindowsClose
  PROVE  Spec => []OncePerOccurrence
<1>1. IInv => OncePerOccurrence
  BY DEF IInv
<1> QED BY <1>1, Invariant, PTL

(* The loop never sleeps while a schedule is due or a run is long over.       *)
THEOREM NothingIsSleptThrough ==
  ASSUME WindowsClose
  PROVE  Spec => []NothingDueAsleep
<1>1. IInv => NothingDueAsleep
  <2> SUFFICES ASSUME IInv, Asleep, ~failed PROVE NothingDueAsleep
    BY DEF NothingDueAsleep
  <2>1. /\ up /\ work = Free /\ work.by # "loop" /\ ~woken /\ now < next
        /\ now \in Nat /\ next \in Nat
    BY FreeIs, TimeTypes DEF Asleep, IInv
  <2>2. /\ \A s \in Schedules : QuietUntil(s, now, next)
        /\ \A i \in Running : next <= now \/ next <= rows[i].end + Idle
    BY <2>1 DEF IInv, SleepIsQuiet
  <2>3. \A s \in Schedules : schedules[s].exists => due(s, schedules[s], now) = {}
    BY <2>1, <2>2 DEF QuietUntil, Quiet
  <2>4. \A i \in Running : rows[i].end + Idle > now
    <3> SUFFICES ASSUME NEW i \in Running PROVE rows[i].end + Idle > now
      OBVIOUS
    <3>1. rows[i].end \in Nat /\ Idle \in Nat
      BY BasicTypes DEF IInv, TypeOK, Running, Rows
    <3> QED BY <3>1, <2>1, <2>2
  <2> QED BY <2>3, <2>4 DEF NothingDueAsleep
<1> QED BY <1>1, Invariant, PTL
==========================================================================
