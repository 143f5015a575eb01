----------------------- MODULE SourceManagerProofs -----------------------
(***************************************************************************)
(* What TLAPS proves of SourceManager, for any sources, codecs and clients *)
(* and whatever the bounds.                                                *)
(***************************************************************************)
EXTENDS SourceManager, FiniteSetTheorems, TLAPS

(* The values a source, a Work and a buffer begin with are well typed. *)
LEMMA NoneTypes ==
  /\ NoLeg \in Legs /\ NoJob \in Jobs /\ NoWork \in Works /\ NoReplay \in Replays
  /\ Emptied \in [codec : Codecs \cup {NoCodec}, clock : Nat, lists : BOOLEAN]
<1>1. 0 \in 0..MaxIndexes
  BY ConstantsAssumption
<1>2. NoLeg \in Legs
  BY <1>1 DEF NoLeg, Legs
<1>3. NoJob \in Jobs
  BY <1>1, <1>2 DEF NoJob, Jobs
<1>4. NoWork \in Works
  BY <1>1, <1>2, <1>3 DEF NoWork, Works, Stages
<1>5. NoReplay \in Replays
  BY <1>1, <1>2 DEF NoReplay, Replays
<1> QED BY <1>2, <1>3, <1>4, <1>5 DEF Emptied

LEMMA FinishedType ==
  ASSUME NEW w \in Workers
  PROVE  /\ Finished(w) \in Works
         /\ Finished(w) = [NoWork EXCEPT !.stage = Finished(w).stage]
         /\ Finished(w).stage \in {"asked", "idle"}
  BY NoneTypes DEF Finished, Works, Stages, NoWork

(* What syncing the buffers leaves of them, and what it starts: only legs of  *)
(* buffers that are not starting and whose source has a monitor or gets one.  *)
LEMMA ResyncedIs ==
  ASSUME NEW b \in [Sources -> Replays], NEW m \in [Sources -> Nat],
         NEW added \in SUBSET Sources
  PROVE  LET s == Resynced(b, m, added)
         IN  /\ s.buffers \in [Sources -> Replays]
             /\ s.drop \in [Sources -> Legs]
             /\ s.starts \in SUBSET Sources
             /\ \A r \in Sources :
                  IF out_of_sync(b[r], m[r], r \in added)
                  THEN /\ s.buffers[r] = [b[r] EXCEPT !.leg = NoLeg,
                                                      !.starting = (r \in s.starts)]
                       /\ s.drop[r] = b[r].leg
                       /\ r \in s.starts <=> (r \in added \/ m[r] # 0)
                  ELSE s.buffers[r] = b[r] /\ s.drop[r] = NoLeg /\ r \notin s.starts
<1> DEFINE s == Resynced(b, m, added)
           off == {r \in Sources : out_of_sync(b[r], m[r], r \in added)}
           fed == {r \in off : r \in added \/ m[r] # 0}
<1>1. s.starts = fed
  BY DEF Resynced
<1>2. s.buffers = [r \in Sources |->
                     IF r \in off THEN [b[r] EXCEPT !.leg = NoLeg, !.starting = (r \in fed)]
                     ELSE b[r]]
  BY DEF Resynced
<1>3. s.drop = [r \in Sources |-> IF r \in off THEN b[r].leg ELSE NoLeg]
  BY DEF Resynced
<1>4. ASSUME NEW r \in Sources, NEW x \in BOOLEAN
      PROVE  /\ [b[r] EXCEPT !.leg = NoLeg, !.starting = x] \in Replays
             /\ b[r].leg \in Legs
  BY NoneTypes DEF Replays
<1>5. s.buffers \in [Sources -> Replays]
  <2>1. ASSUME NEW r \in Sources PROVE s.buffers[r] \in Replays
    <3>1. (r \in fed) \in BOOLEAN
      OBVIOUS
    <3> HIDE DEF fed, off
    <3> QED BY <1>2, <1>4, <3>1
  <2> HIDE DEF s
  <2>2. s.buffers = [r \in Sources |-> s.buffers[r]]
    BY <1>2
  <2> QED BY <2>1, <2>2
<1>6. s.drop \in [Sources -> Legs]
  BY <1>3, <1>4, NoneTypes
<1> HIDE DEF s
<1> QED BY <1>1, <1>2, <1>3, <1>5, <1>6 DEF s

(* A planned job, source by source.                                           *)
IsPlanned(job, b, ids, added, starts) ==
    /\ job \in [Sources -> Jobs]
    /\ \A r \in Sources :
         /\ job[r].todo \in SUBSET {"monitor", "replay"}
         /\ "monitor" \in job[r].todo <=> r \in added
         /\ "replay" \in job[r].todo <=> r \in starts
         /\ job[r].source = IF r \in added THEN ids[r] ELSE 0
         /\ job[r].index = IF r \in starts THEN b[r].index ELSE 0
         /\ r \in starts => job[r].codec = b[r].codec
         /\ job[r].monitor = 0 /\ job[r].leg = NoLeg

LEMMA PlannedIs ==
  ASSUME NEW b \in [Sources -> Replays], NEW m \in [Sources -> Nat], NEW ids \in [Sources -> Nat],
         NEW clocks \in [Sources -> Nat], NEW added \in SUBSET Sources,
         NEW starts \in SUBSET Sources, NEW clears \in SUBSET Sources
  PROVE  IsPlanned(Planned(b, m, ids, clocks, added, starts, clears), b, ids, added, starts)
<1> DEFINE job == Planned(b, m, ids, clocks, added, starts, clears)
           todo(r) == (IF r \in added THEN {"monitor"} ELSE {})
                        \cup (IF r \in starts THEN {"replay"} ELSE {})
           source(r) == IF r \in added THEN ids[r] ELSE 0
           on_index(r) == IF r \in starts THEN b[r].index ELSE 0
           codec(r) == IF r \in starts THEN b[r].codec ELSE NoCodec
           feed(r) == IF r \in added THEN 0 ELSE m[r]
           clear(r) == (r \in clears)
           J(r) == [todo |-> todo(r), source |-> source(r), monitor |-> 0, clock |-> clocks[r],
                    index |-> on_index(r), codec |-> codec(r), feed |-> feed(r), clear |-> clear(r),
                    leg |-> NoLeg]
<1>1. ASSUME NEW r \in Sources
      PROVE  /\ todo(r) \in SUBSET {"monitor", "replay"}
             /\ "monitor" \in todo(r) <=> r \in added
             /\ "replay" \in todo(r) <=> r \in starts
             /\ source(r) \in Nat /\ clocks[r] \in Nat /\ feed(r) \in Nat
             /\ on_index(r) \in 0..MaxIndexes /\ codec(r) \in Codecs \cup {NoCodec}
             /\ clear(r) \in BOOLEAN
  <2>1. b[r].index \in 0..MaxIndexes /\ b[r].codec \in Codecs \cup {NoCodec}
    BY DEF Replays
  <2>2. on_index(r) \in 0..MaxIndexes /\ codec(r) \in Codecs \cup {NoCodec}
    BY <2>1, ConstantsAssumption
  <2>3. source(r) \in Nat /\ clocks[r] \in Nat /\ feed(r) \in Nat
    OBVIOUS
  <2>4. clear(r) \in BOOLEAN
    OBVIOUS
  <2>5. /\ todo(r) \in SUBSET {"monitor", "replay"}
        /\ "monitor" \in todo(r) <=> r \in added
        /\ "replay" \in todo(r) <=> r \in starts
    OBVIOUS
  <2> HIDE DEF on_index, codec, source, feed, clear, todo
  <2> QED BY <2>2, <2>3, <2>4, <2>5
<1>2. ASSUME NEW r \in Sources, r \in added \cup starts PROVE job[r] = J(r)
  BY <1>2 DEF Planned
<1>3. ASSUME NEW r \in Sources, r \notin added \cup starts PROVE job[r] = NoJob
  BY <1>3 DEF Planned
<1>4. job = [r \in Sources |-> job[r]]
  BY DEF Planned
<1> HIDE DEF job, todo, source, on_index, codec, feed, clear
<1>5. ASSUME NEW r \in Sources PROVE job[r] \in Jobs
  <2>1. J(r) \in Jobs
    BY <1>1, NoneTypes, ConstantsAssumption DEF Jobs
  <2> QED BY <1>2, <1>3, <2>1, NoneTypes
<1>6. job \in [Sources -> Jobs]
  BY <1>4, <1>5
<1>7. ASSUME NEW r \in Sources
      PROVE  /\ job[r].todo \in SUBSET {"monitor", "replay"}
             /\ "monitor" \in job[r].todo <=> r \in added
             /\ "replay" \in job[r].todo <=> r \in starts
             /\ job[r].source = source(r)
             /\ job[r].index = on_index(r)
             /\ r \in starts => job[r].codec = codec(r)
             /\ job[r].monitor = 0 /\ job[r].leg = NoLeg
  <2>1. CASE r \in added \cup starts
    <3>1. job[r] = J(r)
      BY <1>2, <2>1
    <3>2. /\ J(r).todo = todo(r) /\ J(r).source = source(r) /\ J(r).index = on_index(r)
          /\ J(r).codec = codec(r) /\ J(r).monitor = 0 /\ J(r).leg = NoLeg
      OBVIOUS
    <3> HIDE DEF J
    <3> QED BY <3>1, <3>2, <1>1
  <2>2. CASE r \notin added \cup starts
    BY <1>3, <2>2 DEF NoJob, source, on_index
  <2> QED BY <2>1, <2>2
<1> QED BY <1>6, <1>7 DEF source, on_index, codec, job, IsPlanned

LEMMA TypeInit == Init => TypeOK
  BY NoneTypes, ConstantsAssumption DEF Init, TypeOK, NoWork

(* A step that gives one task another Work. *)
WorkTyped ==
    /\ work \in [Workers -> Works]
    /\ \A w \in Workers : /\ work[w].locked => work[w].stage \notin {"idle", "deleted", "asked"}
                          /\ work[w].stage = "read" => work[w].locked

(* ... and what it does to all else. *)
RestTyped ==
    /\ wanted \in [Sources -> Nat] /\ unheard \in SUBSET Sources
    /\ sources \in [Sources -> [listed : BOOLEAN, id : Nat, version : Nat]]
    /\ monitor \in [Sources -> Nat] /\ made \in [Sources -> Nat]
    /\ broken \in SUBSET Sources
    /\ running \in [Sources -> SUBSET Nat] /\ torn \in [Sources -> SUBSET Nat]
    /\ on \in [Sources -> Nat] /\ clock \in Nat
    /\ recorded \in SUBSET Sources
    /\ replay \in [Sources -> Replays]
    /\ index \in [Indexes -> [codec : Codecs \cup {NoCodec}, clock : Nat, lists : BOOLEAN]]
    /\ indexes \in 0..MaxIndexes
    /\ disk \in [Sources -> SUBSET Indexes]
    /\ edits \in Nat /\ fails \in Nat

LEMMA TypesAre == (TypeOK <=> RestTyped /\ WorkTyped) /\ (RestTyped' /\ WorkTyped' => TypeOK')
  BY DEF TypeOK, RestTyped, WorkTyped

LEMMA TypeWork ==
  ASSUME WorkTyped, NEW w \in Workers, NEW x \in Works,
         work' = [work EXCEPT ![w] = x],
         x.locked => x.stage \notin {"idle", "deleted", "asked"},
         x.stage = "read" => x.locked
  PROVE  WorkTyped'
  BY DEF WorkTyped

LEMMA TypeRequests ==
  ASSUME TypeOK, NEW w \in Workers,
         \/ \E r \in Sources, version \in 1..MaxEdits : EditSource(w, r, version)
         \/ \E r \in Sources : DeleteSource(w, r)
         \/ DropRequest(w) \/ set_clock(w) \/ ReadConfigs(w)
  PROVE  TypeOK'
<1> USE DEF life, pipes, buffer, counts
<1>0. RestTyped /\ WorkTyped
  BY TypesAre
<1>1. ASSUME NEW x \in Works PROVE \A st \in Stages : [x EXCEPT !.stage = st] \in Works
  BY DEF Works
<1>2. work[w] \in Works
  BY <1>0 DEF WorkTyped
<1>3. ASSUME NEW r \in Sources, NEW version \in 1..MaxEdits, EditSource(w, r, version)
      PROVE  TypeOK'
  <2>1. WorkTyped'
    <3>1. CASE UNCHANGED work
      BY <3>1, <1>0 DEF WorkTyped
    <3>2. CASE work' = [work EXCEPT ![w].stage = "asked"]
      <4>1. work' = [work EXCEPT ![w] = [work[w] EXCEPT !.stage = "asked"]]
        BY <3>2
      <4>2. [work[w] EXCEPT !.stage = "asked"] \in Works
        BY <1>1, <1>2 DEF Stages
      <4>3. work[w].stage = "idle" /\ ~work[w].locked
        BY <1>0, <1>3 DEF EditSource, WorkTyped
      <4>4. [work[w] EXCEPT !.stage = "asked"].locked = work[w].locked
        BY <1>2 DEF Works
      <4>5. [work[w] EXCEPT !.stage = "asked"].stage = "asked"
        BY <1>2 DEF Works
      <4> QED BY <4>1, <4>2, <4>3, <4>4, <4>5, <1>0, TypeWork
    <3> QED BY <3>1, <3>2, <1>3 DEF EditSource
  <2>2. RestTyped'
    BY <1>0, <1>3 DEF RestTyped, EditSource
  <2> QED BY <2>1, <2>2, TypesAre
<1>4. ASSUME NEW r \in Sources, DeleteSource(w, r) PROVE TypeOK'
  <2>1. WorkTyped'
    <3> DEFINE x == [work[w] EXCEPT !.stage = "deleted", !.deleted = {r}]
    <3>1. work' = [work EXCEPT ![w] = x]
      BY <1>4 DEF DeleteSource
    <3>2. x \in Works /\ x.stage = "deleted" /\ x.locked = work[w].locked
      BY <1>2 DEF Works, Stages
    <3> QED BY <3>1, <3>2, <1>0, <1>4, TypeWork DEF WorkTyped, DeleteSource
  <2>2. RestTyped'
    BY <1>0, <1>4 DEF RestTyped, DeleteSource
  <2> QED BY <2>1, <2>2, TypesAre
<1>5. ASSUME DropRequest(w) PROVE TypeOK'
  <2>1. WorkTyped'
    <3> DEFINE x == IF work[w].stage = "deleted" THEN NoWork ELSE [work[w] EXCEPT !.then = FALSE]
    <3>1. work' = [work EXCEPT ![w] = x]
      BY <1>5 DEF DropRequest
    <3>2. x \in Works
      BY <1>2, NoneTypes DEF Works
    <3>3. (x.locked => x.stage \notin {"idle", "deleted", "asked"}) /\ (x.stage = "read" => x.locked)
      BY <1>0, <1>2 DEF Works, NoWork, WorkTyped
    <3> HIDE DEF x
    <3> QED BY <3>1, <3>2, <3>3, <1>0, TypeWork DEF WorkTyped
  <2>2. RestTyped'
    BY <1>0, <1>5, <1>2 DEF RestTyped, DropRequest, Works
  <2> QED BY <2>1, <2>2, TypesAre
<1>6. ASSUME set_clock(w) PROVE TypeOK'
  <2>1. WorkTyped'
    <3> DEFINE x == [work[w] EXCEPT !.stage = IF needs_rescan' THEN "asked" ELSE "idle"]
    <3>1. work' = [work EXCEPT ![w] = x]
      BY <1>6 DEF set_clock
    <3>2. x \in Works /\ x.stage \in {"asked", "idle"} /\ x.locked = work[w].locked
      BY <1>2 DEF Works, Stages
    <3> QED BY <3>1, <3>2, <1>0, <1>6, TypeWork DEF WorkTyped, set_clock
  <2>2. RestTyped'
    BY <1>0, <1>6 DEF RestTyped, set_clock
  <2> QED BY <2>1, <2>2, TypesAre
<1>7. ASSUME ReadConfigs(w) PROVE TypeOK'
  <2>1. WorkTyped'
    <3> DEFINE x == [work[w] EXCEPT !.stage = "read", !.locked = TRUE, !.configs = wanted]
    <3>1. work' = [work EXCEPT ![w] = x]
      BY <1>7 DEF ReadConfigs
    <3>2. x \in Works /\ x.stage = "read" /\ x.locked = TRUE
      BY <1>0, <1>2 DEF Works, Stages, RestTyped
    <3> QED BY <3>1, <3>2, <1>0, TypeWork DEF WorkTyped
  <2>2. RestTyped'
    BY <1>0, <1>7 DEF RestTyped, ReadConfigs
  <2> QED BY <2>1, <2>2, TypesAre
<1> QED BY <1>3, <1>4, <1>5, <1>6, <1>7

(* A rebuild's list: what it keeps, what goes and what is to be started.      *)
Kept(w) == {r \in Sources : /\ work[w].configs[r] # 0 /\ sources[r].listed
                            /\ unchanged(r, work[w].configs[r])}
Gone(w) == {r \in Sources : sources[r].listed} \ Kept(w)
Added(w) == {r \in Sources : work[w].configs[r] # 0} \ Kept(w)
Left(w) == [r \in Sources |-> IF r \in Gone(w) THEN 0 ELSE monitor[r]]
Legless(w) == [r \in Sources |-> IF r \in Gone(w) THEN [replay[r] EXCEPT !.leg = NoLeg]
                                 ELSE replay[r]]

(* A Work as it is planned: the monitors of added and the legs of starts.     *)
Plans(x, added, starts) ==
    /\ ~x.then /\ x.deleted = {}
    /\ \A r \in Sources :
         /\ x.gone[r] = 0
         /\ x.drop[r] \in {NoLeg, replay[r].leg}
         /\ x.job[r].todo \in SUBSET {"monitor", "replay"}
         /\ "monitor" \in x.job[r].todo <=> r \in added
         /\ "replay" \in x.job[r].todo <=> r \in starts
         /\ x.job[r].source = IF r \in added THEN sources[r].id + 1 ELSE 0
         /\ r \notin starts => x.job[r].index = 0
         /\ x.job[r].monitor = 0 /\ x.job[r].leg = NoLeg

(* What scan does, source by source, in a Work that starts the legs of starts. *)
Scanned(w, starts, x) ==
    /\ work[w].stage = "read" /\ work[w].locked
    /\ \A r \in Sources :
         /\ sources'[r] = IF r \in Added(w)
                          THEN [listed |-> TRUE, id |-> sources[r].id + 1,
                                version |-> work[w].configs[r]]
                          ELSE IF r \in Kept(w) THEN sources[r]
                          ELSE [listed |-> FALSE, id |-> sources[r].id, version |-> 0]
         /\ monitor'[r] = IF r \in Gone(w) THEN 0 ELSE monitor[r]
         /\ replay'[r].index = replay[r].index /\ replay'[r].codec = replay[r].codec
         /\ \/ replay'[r].leg = NoLeg
            \/ replay'[r].leg = replay[r].leg /\ r \notin Gone(w)
         /\ r \in starts => /\ replay[r].index # 0 /\ ~replay[r].starting
                            /\ replay'[r].starting /\ replay'[r].leg = NoLeg
                            /\ x.job[r].index = replay[r].index
         /\ r \notin starts => replay'[r].starting = replay[r].starting
    /\ work' = [work EXCEPT ![w] = x]
    /\ \/ x.stage = "planned" /\ x.locked
       \/ x = Finished(w) /\ Added(w) = {} /\ starts = {}
    /\ Plans(x, Added(w), starts)
    /\ UNCHANGED <<wanted, unheard, made, indexes>>
    /\ broken' = broken \ Gone(w)

LEMMA ScanIs ==
  ASSUME RestTyped, WorkTyped, NEW w \in Workers, scan(w)
  PROVE  /\ \E starts \in SUBSET Sources, x \in Works : Scanned(w, starts, x)
         /\ RestTyped'
<1> DEFINE configs == work[w].configs
           clocks == [r \in Sources |-> IF r \in Added(w) THEN clock ELSE on[r]]
           ids == [r \in Sources |-> sources[r].id + 1]
           synced == Resynced(Legless(w), Left(w), Added(w))
           drop == [r \in Sources |-> IF r \in Gone(w) THEN replay[r].leg ELSE synced.drop[r]]
           job == Planned(replay, Left(w), ids, clocks, Added(w), synced.starts, {})
           empty == is_empty(drop, job)
           planned == [NoWork EXCEPT !.stage = "planned", !.locked = TRUE, !.drop = drop, !.job = job]
           x == IF empty THEN Finished(w) ELSE planned
<1>1. /\ work[w].stage = "read"
      /\ sources' = [r \in Sources |->
            IF r \in Added(w) THEN [listed |-> TRUE, id |-> ids[r], version |-> configs[r]]
            ELSE IF r \in Kept(w) THEN sources[r]
            ELSE [listed |-> FALSE, id |-> sources[r].id, version |-> 0]]
      /\ monitor' = Left(w)
      /\ broken' = broken \ Gone(w)
      /\ on' = [r \in Sources |-> IF r \in Gone(w) THEN 0 ELSE on[r]]
      /\ recorded' \in SUBSET recorded
      /\ torn' = [r \in Sources |-> IF r \in Gone(w) THEN torn[r] \cup ({monitor[r]} \ {0})
                                    ELSE torn[r]]
      /\ running' = running
      /\ replay' = synced.buffers
      /\ work' = [work EXCEPT ![w] = x]
      /\ UNCHANGED <<wanted, unheard, made, clock, buffer, counts>>
  BY Zenon DEF scan, Kept, Gone, Added, Left, Legless
<1>2. /\ Added(w) \in SUBSET Sources /\ Gone(w) \in SUBSET Sources
      /\ Left(w) \in [Sources -> Nat] /\ Legless(w) \in [Sources -> Replays]
      /\ configs \in [Sources -> Nat] /\ clocks \in [Sources -> Nat] /\ ids \in [Sources -> Nat]
  <2>1. configs \in [Sources -> Nat]
    BY DEF WorkTyped, Works
  <2>2. \A r \in Sources : [replay[r] EXCEPT !.leg = NoLeg] \in Replays /\ replay[r] \in Replays
    BY NoneTypes DEF RestTyped, Replays
  <2> QED BY <2>1, <2>2 DEF Added, Gone, Left, Legless, RestTyped
<1> HIDE DEF empty, x, planned, clocks, ids
<1>3. /\ synced.buffers \in [Sources -> Replays]
      /\ synced.drop \in [Sources -> Legs]
      /\ synced.starts \in SUBSET Sources
      /\ \A r \in Sources :
           IF out_of_sync(Legless(w)[r], Left(w)[r], r \in Added(w))
           THEN /\ synced.buffers[r] = [Legless(w)[r] EXCEPT !.leg = NoLeg,
                                                      !.starting = (r \in synced.starts)]
                /\ synced.drop[r] = Legless(w)[r].leg
                /\ r \in synced.starts <=> (r \in Added(w) \/ Left(w)[r] # 0)
           ELSE synced.buffers[r] = Legless(w)[r] /\ synced.drop[r] = NoLeg /\ r \notin synced.starts
  BY <1>2, ResyncedIs
<1> HIDE DEF synced
<1>4. IsPlanned(job, replay, ids, Added(w), synced.starts)
  <2>1. /\ replay \in [Sources -> Replays] /\ {} \in SUBSET Sources
        /\ Left(w) \in [Sources -> Nat] /\ ids \in [Sources -> Nat]
        /\ clocks \in [Sources -> Nat] /\ Added(w) \in SUBSET Sources
        /\ synced.starts \in SUBSET Sources
    BY <1>2, <1>3 DEF RestTyped
  <2> QED BY <2>1, PlannedIs
<1>5. /\ drop \in [Sources -> Legs]
      /\ \A r \in Sources : drop[r] \in {NoLeg, replay[r].leg}
  <2>1. \A r \in Sources : replay[r].leg \in Legs
    BY DEF RestTyped, Replays
  <2>2. ASSUME NEW r \in Sources PROVE drop[r] \in {NoLeg, replay[r].leg}
    <3>1. CASE r \in Gone(w)
      BY <3>1
    <3>2. CASE r \notin Gone(w)
      BY <3>2, <1>3 DEF Legless
    <3> QED BY <3>1, <3>2
  <2> QED BY <2>1, <2>2, <1>3
<1> HIDE DEF drop, job
<1>6. ASSUME NEW r \in Sources
      PROVE  /\ replay'[r].index = replay[r].index /\ replay'[r].codec = replay[r].codec
             /\ \/ replay'[r].leg = NoLeg
                \/ replay'[r].leg = replay[r].leg /\ r \notin Gone(w)
             /\ r \in synced.starts => /\ replay[r].index # 0 /\ ~replay[r].starting
                                       /\ replay'[r].starting /\ replay'[r].leg = NoLeg
             /\ r \notin synced.starts => replay'[r].starting = replay[r].starting
  <2> DEFINE b == Legless(w)[r]
  <2>1. b \in Replays /\ replay[r] \in Replays
    BY <1>2 DEF RestTyped
  <2>2. /\ b.index = replay[r].index /\ b.codec = replay[r].codec /\ b.starting = replay[r].starting
        /\ b.leg = IF r \in Gone(w) THEN NoLeg ELSE replay[r].leg
    BY <2>1 DEF Legless, Replays
  <2>3. replay'[r] = synced.buffers[r]
    BY <1>1
  <2> HIDE DEF b
  <2>4. CASE out_of_sync(b, Left(w)[r], r \in Added(w))
    <3>1. synced.buffers[r] = [b EXCEPT !.leg = NoLeg, !.starting = (r \in synced.starts)]
      BY <2>4, <1>3 DEF b
    <3>2. b.index # 0 /\ ~b.starting
      BY <2>4 DEF out_of_sync
    <3>3. /\ synced.buffers[r].index = b.index /\ synced.buffers[r].codec = b.codec
          /\ synced.buffers[r].leg = NoLeg /\ synced.buffers[r].starting = (r \in synced.starts)
      BY <3>1, <2>1 DEF Replays
    <3>4. b.starting \in BOOLEAN /\ replay[r].starting \in BOOLEAN
      BY <2>1 DEF Replays
    <3>5. r \in synced.starts => replay'[r].starting
      BY <3>3, <2>3
    <3>6. r \notin synced.starts => replay'[r].starting = replay[r].starting
      BY <3>2, <3>3, <3>4, <2>2, <2>3
    <3> QED BY <3>2, <3>3, <3>5, <3>6, <2>2, <2>3
  <2>5. CASE ~out_of_sync(b, Left(w)[r], r \in Added(w))
    <3>1. synced.buffers[r] = b /\ r \notin synced.starts
      BY <2>5, <1>3 DEF b
    <3> QED BY <3>1, <2>2, <2>3
  <2> QED BY <2>4, <2>5
<1>7. /\ planned \in Works /\ planned.stage = "planned" /\ planned.locked /\ ~planned.then
      /\ planned.deleted = {} /\ planned.drop = drop /\ planned.job = job
      /\ \A r \in Sources : planned.gone[r] = 0
  <2>1. NoWork \in Works /\ ~NoWork.then /\ NoWork.deleted = {} /\ \A r \in Sources : NoWork.gone[r] = 0
    BY NoneTypes DEF NoWork
  <2>2. /\ planned \in Works /\ planned.stage = "planned" /\ planned.locked = TRUE
        /\ planned.drop = drop /\ planned.job = job /\ planned.then = NoWork.then
        /\ planned.deleted = NoWork.deleted /\ planned.gone = NoWork.gone
    BY <2>1, <1>4, <1>5 DEF planned, Works, IsPlanned, Stages
  <2> QED BY <2>1, <2>2
<1>8. /\ Finished(w) \in Works
      /\ ~Finished(w).then /\ ~Finished(w).locked /\ Finished(w).deleted = {}
      /\ \A r \in Sources : /\ Finished(w).gone[r] = 0 /\ Finished(w).drop[r] = NoLeg
                             /\ Finished(w).job[r] = NoJob
  BY FinishedType DEF Finished, NoWork
<1>9. RestTyped'
  <2>1. indexes' = indexes /\ index' = index /\ disk' = disk /\ edits' = edits /\ fails' = fails
        /\ wanted' = wanted /\ unheard' = unheard /\ made' = made /\ clock' = clock
    BY <1>1 DEF buffer, counts
  <2>2. sources' \in [Sources -> [listed : BOOLEAN, id : Nat, version : Nat]]
    BY <1>1, <1>2 DEF RestTyped
  <2>3. monitor' \in [Sources -> Nat] /\ replay' \in [Sources -> Replays] /\ broken' \in SUBSET Sources
        /\ on' \in [Sources -> Nat] /\ recorded' \in SUBSET Sources
    BY <1>1, <1>2, <1>3 DEF RestTyped
  <2>4. torn' \in [Sources -> SUBSET Nat] /\ running' \in [Sources -> SUBSET Nat]
    BY <1>1 DEF RestTyped
  <2> QED BY <2>1, <2>2, <2>3, <2>4 DEF RestTyped
<1>10. /\ x \in Works
       /\ \/ x.stage = "planned" /\ x.locked
          \/ x = Finished(w) /\ Added(w) = {} /\ synced.starts = {}
       /\ Plans(x, Added(w), synced.starts)
       /\ \A r \in Sources : r \in synced.starts => x.job[r].index = replay[r].index
  <2>1. CASE empty
    <3>1. \A r \in Sources : job[r] = NoJob
      BY <2>1 DEF empty, is_empty
    <3>2. \A r \in Sources : r \notin Added(w) /\ r \notin synced.starts
      BY <3>1, <1>4 DEF NoJob, IsPlanned
    <3>3. Added(w) = {} /\ synced.starts = {}
      BY <3>2, <1>2, <1>3
    <3>4. x = Finished(w)
      BY <2>1 DEF x
    <3>5. Plans(x, Added(w), synced.starts)
      BY <3>2, <3>4, <1>8 DEF Plans, NoJob
    <3> QED BY <3>3, <3>4, <3>5, <1>8
  <2>2. CASE ~empty
    <3>1. x = planned
      BY <2>2 DEF x
    <3>2. Plans(x, Added(w), synced.starts)
      <4>1. \A r \in Sources : ids[r] = sources[r].id + 1
        BY DEF ids
      <4> QED BY <3>1, <4>1, <1>4, <1>5, <1>7 DEF Plans, IsPlanned
    <3> QED BY <3>1, <3>2, <1>4, <1>7 DEF IsPlanned
  <2> QED BY <2>1, <2>2
<1>11. work[w].locked
  BY <1>1 DEF WorkTyped
<1>12. \A r \in Sources :
         /\ sources'[r] = IF r \in Added(w)
                          THEN [listed |-> TRUE, id |-> sources[r].id + 1,
                                version |-> work[w].configs[r]]
                          ELSE IF r \in Kept(w) THEN sources[r]
                          ELSE [listed |-> FALSE, id |-> sources[r].id, version |-> 0]
         /\ monitor'[r] = IF r \in Gone(w) THEN 0 ELSE monitor[r]
  BY <1>1 DEF Left, ids
<1>13. Scanned(w, synced.starts, x)
  BY <1>1, <1>6, <1>10, <1>11, <1>12 DEF Scanned, buffer
<1>14. synced.starts \in SUBSET Sources /\ x \in Works
  BY <1>3, <1>10
<1> QED BY <1>9, <1>13, <1>14

(* What set_replay does, source by source, in a Work that starts the legs of  *)
(* starts; a buffer without an index has nothing started.                     *)
ReplaySet(w, r, starts, x) ==
    /\ work[w].stage = "idle"
    /\ indexes' = IF replay[r].index = 0 THEN indexes + 1 ELSE indexes
    /\ replay[r].index = 0 => r \in starts
    /\ \A q \in Sources :
         /\ replay'[q].index = IF q = r /\ replay[r].index = 0 THEN indexes + 1 ELSE replay[q].index
         /\ \/ replay'[q].leg = NoLeg
            \/ replay'[q].leg = replay[q].leg /\ replay'[q].codec = replay[q].codec
         /\ q \in starts => /\ (q = r /\ replay[r].index = 0) \/ (replay[q].index # 0 /\ ~replay[q].starting)
                            /\ replay'[q].starting /\ replay'[q].leg = NoLeg
                            /\ x.job[q].index = replay'[q].index
         /\ q \notin starts => replay'[q].starting = replay[q].starting
    /\ \/ /\ work' = [work EXCEPT ![w] = x]
          /\ x.stage = "planned" /\ ~x.locked /\ Plans(x, {}, starts)
       \/ UNCHANGED work /\ starts = {}
    /\ UNCHANGED <<wanted, unheard, sources, life>>

LEMMA SetReplayIs ==
  ASSUME RestTyped, WorkTyped, NEW w \in Workers, NEW r \in Sources, NEW c \in Codecs,
         set_replay(w, r, c),
         replay[r].index = 0 => replay[r].leg = NoLeg /\ ~replay[r].starting
  PROVE  /\ \E starts \in SUBSET Sources, x \in Works : ReplaySet(w, r, starts, x)
         /\ RestTyped'
<1> DEFINE new == replay[r].index = 0
           anew == replay[r].codec # c
           set == [replay EXCEPT ![r] =
                     [index |-> IF new THEN indexes + 1 ELSE @.index, codec |-> c,
                      leg |-> IF anew THEN NoLeg ELSE @.leg, starting |-> @.starting]]
           synced == Resynced(set, monitor, {})
           fresh == IF new THEN {r} \ synced.starts ELSE {}
           starts == synced.starts \cup fresh
           drop == [q \in Sources |-> IF q = r /\ anew THEN replay[r].leg ELSE synced.drop[q]]
           job == Planned(set, monitor, monitor, on, {}, starts, fresh)
           empty == is_empty(drop, job)
           x == [NoWork EXCEPT !.stage = "planned", !.drop = drop, !.job = job]
<1>1. /\ work[w].stage = "idle" /\ edits' = edits + 1
      /\ new => indexes < MaxIndexes
      /\ indexes' = IF new THEN indexes + 1 ELSE indexes
      /\ replay' = [q \in Sources |-> IF q \in fresh THEN [synced.buffers[q] EXCEPT !.starting = TRUE]
                                      ELSE synced.buffers[q]]
      /\ work' = IF empty THEN work ELSE [work EXCEPT ![w] = x]
      /\ UNCHANGED <<wanted, unheard, sources, life, on, clock, recorded, index, disk, fails>>
  BY DEF set_replay
<1>2. /\ set \in [Sources -> Replays]
      /\ \A q \in Sources : q # r => set[q] = replay[q]
      /\ set[r].index = IF new THEN indexes + 1 ELSE replay[r].index
      /\ set[r].codec = c /\ set[r].starting = replay[r].starting
      /\ set[r].leg = IF anew THEN NoLeg ELSE replay[r].leg
  <2>1. /\ replay[r].index \in 0..MaxIndexes /\ replay[r].leg \in Legs /\ replay[r].starting \in BOOLEAN
        /\ replay \in [Sources -> Replays] /\ indexes \in 0..MaxIndexes
    BY DEF RestTyped, Replays
  <2>2. (IF new THEN indexes + 1 ELSE replay[r].index) \in 0..MaxIndexes
    <3>1. MaxIndexes \in Nat BY ConstantsAssumption
    <3>2. CASE new
      <4>1. indexes \in 0..MaxIndexes /\ indexes < MaxIndexes BY <1>1, <2>1, <3>2
      <4>2. indexes + 1 \in 0..MaxIndexes BY <3>1, <4>1
      <4> QED BY <3>2, <4>2
    <3>3. CASE ~new BY <2>1, <3>3
    <3> QED BY <3>2, <3>3
  <2>3. (IF anew THEN NoLeg ELSE replay[r].leg) \in Legs
    BY <2>1, NoneTypes
  <2> DEFINE at == IF new THEN indexes + 1 ELSE replay[r].index
             leg == IF anew THEN NoLeg ELSE replay[r].leg
             buf == [index |-> at, codec |-> c, leg |-> leg, starting |-> replay[r].starting]
  <2>4. set = [replay EXCEPT ![r] = buf]
    BY <2>1
  <2> HIDE DEF at, leg, set
  <2>5. buf \in Replays
    BY <2>1, <2>2, <2>3 DEF Replays, at, leg
  <2>6. set[r] = buf
    BY <2>1, <2>4
  <2> QED BY <2>1, <2>4, <2>5, <2>6 DEF at, leg
<1>3. monitor \in [Sources -> Nat] /\ on \in [Sources -> Nat] /\ {} \in SUBSET Sources
  BY DEF RestTyped
<1> HIDE DEF set
<1>4. /\ synced.buffers \in [Sources -> Replays]
      /\ synced.drop \in [Sources -> Legs]
      /\ synced.starts \in SUBSET Sources
      /\ \A q \in Sources :
           IF out_of_sync(set[q], monitor[q], q \in {})
           THEN /\ synced.buffers[q] = [set[q] EXCEPT !.leg = NoLeg, !.starting = (q \in synced.starts)]
                /\ synced.drop[q] = set[q].leg
                /\ q \in synced.starts <=> (q \in {} \/ monitor[q] # 0)
           ELSE synced.buffers[q] = set[q] /\ synced.drop[q] = NoLeg /\ q \notin synced.starts
  BY <1>2, <1>3, ResyncedIs
<1> HIDE DEF synced
<1>5. starts \in SUBSET Sources /\ fresh \in SUBSET Sources /\ (new => r \in starts) /\ fresh \subseteq starts
      /\ fresh \cap synced.starts = {}
  BY <1>4
<1>6. IsPlanned(job, set, monitor, {}, starts)
  <2> HIDE DEF starts, fresh
  <2> QED BY <1>2, <1>3, <1>5, PlannedIs
<1>7. ASSUME NEW q \in Sources
      PROVE  /\ replay'[q] \in Replays
             /\ replay'[q].index = set[q].index /\ replay'[q].codec = set[q].codec
             /\ replay'[q].leg \in {NoLeg, set[q].leg}
             /\ q \in starts => /\ q \in fresh \/ (set[q].index # 0 /\ ~set[q].starting)
                                /\ replay'[q].starting /\ replay'[q].leg = NoLeg
             /\ q \notin starts => replay'[q].starting = set[q].starting
  <2> DEFINE b == synced.buffers[q]
  <2>1. set[q] \in Replays /\ b \in Replays
    BY <1>2, <1>4
  <2>2. /\ b.index = set[q].index /\ b.codec = set[q].codec /\ b.leg \in {NoLeg, set[q].leg}
        /\ q \in synced.starts => /\ set[q].index # 0 /\ ~set[q].starting
                                  /\ b.starting /\ b.leg = NoLeg
        /\ q \notin synced.starts => b.starting = set[q].starting
    <3>1. CASE out_of_sync(set[q], monitor[q], q \in {})
      <4>1. b = [set[q] EXCEPT !.leg = NoLeg, !.starting = (q \in synced.starts)]
        BY <1>4, <3>1
      <4>2. set[q].index # 0 /\ ~set[q].starting /\ set[q].starting \in BOOLEAN
        BY <3>1, <2>1 DEF out_of_sync, Replays
      <4>3. b.index = set[q].index /\ b.codec = set[q].codec /\ b.leg = NoLeg
            /\ b.starting = (q \in synced.starts)
        BY <4>1, <2>1 DEF Replays
      <4> HIDE DEF b
      <4>4. q \in synced.starts => b.starting
        BY <4>3
      <4>5. q \notin synced.starts => b.starting = set[q].starting
        BY <4>2, <4>3
      <4> QED BY <4>2, <4>3, <4>4, <4>5
    <3>2. CASE ~out_of_sync(set[q], monitor[q], q \in {})
      BY <1>4, <3>2
    <3> QED BY <3>1, <3>2
  <2>3. q \in fresh => b.leg = NoLeg
    <3>1. SUFFICES ASSUME q \in fresh PROVE b.leg = NoLeg
      OBVIOUS
    <3>2. q = r /\ new
      BY <3>1
    <3>3. set[q].leg = NoLeg
      BY <3>2, <1>2
    <3> QED BY <2>2, <3>3
  <2>4. CASE q \in fresh
    <3>1. replay'[q] = [b EXCEPT !.starting = TRUE]
      BY <2>4, <1>1
    <3> HIDE DEF b, starts, fresh
    <3>2. replay'[q] \in Replays /\ replay'[q].starting = TRUE /\ replay'[q].leg = b.leg
          /\ replay'[q].index = b.index /\ replay'[q].codec = b.codec
      BY <3>1, <2>1 DEF Replays
    <3> QED BY <3>2, <2>2, <2>3, <2>4, <1>5
  <2>5. CASE q \notin fresh
    <3>1. replay'[q] = b
      BY <2>5, <1>1
    <3>2. q \in starts <=> q \in synced.starts
      BY <2>5
    <3> HIDE DEF b, starts, fresh
    <3> QED BY <3>1, <3>2, <2>1, <2>2
  <2> QED BY <2>4, <2>5
<1>8. ASSUME NEW q \in Sources
      PROVE  drop[q] \in {NoLeg, replay[q].leg} /\ drop[q] \in Legs
  <2>1. replay[q].leg \in Legs /\ set[q].leg \in {NoLeg, replay[q].leg}
    BY <1>2 DEF RestTyped, Replays
  <2>2. synced.drop[q] \in {NoLeg, set[q].leg}
    BY <1>4
  <2> QED BY <2>1, <2>2, NoneTypes
<1>9. drop \in [Sources -> Legs]
  BY <1>8
<1> HIDE DEF drop, job, starts, fresh
<1>10. /\ x \in Works /\ x.stage = "planned" /\ ~x.locked /\ Plans(x, {}, starts)
  <2>1. /\ NoWork \in Works /\ NoWork.then = FALSE /\ NoWork.deleted = {} /\ NoWork.locked = FALSE
        /\ \A q \in Sources : NoWork.gone[q] = 0
    BY NoneTypes DEF NoWork
  <2>2. /\ x \in Works /\ x.stage = "planned" /\ x.locked = NoWork.locked
        /\ x.drop = drop /\ x.job = job /\ x.then = NoWork.then
        /\ x.deleted = NoWork.deleted /\ x.gone = NoWork.gone
    BY <2>1, <1>6, <1>9 DEF Works, Stages, IsPlanned
  <2> HIDE DEF x
  <2> QED BY <2>1, <2>2, <1>6, <1>8 DEF Plans, IsPlanned
<1>11. empty => starts = {}
  <2>1. SUFFICES ASSUME empty PROVE \A q \in Sources : q \notin starts
    BY <1>5
  <2>2. \A q \in Sources : job[q] = NoJob
    BY <2>1 DEF is_empty
  <2> HIDE DEF empty
  <2> QED BY <2>2, <1>6 DEF IsPlanned, NoJob
<1>12. RestTyped'
  <2>1. replay' \in [Sources -> Replays]
    BY <1>1, <1>7
  <2>2. indexes' \in 0..MaxIndexes
    BY <1>1, ConstantsAssumption DEF RestTyped
  <2> QED BY <1>1, <2>1, <2>2 DEF RestTyped, life, pipes
<1> HIDE DEF empty, x
<1>13. ReplaySet(w, r, starts, x)
  <2>1. ASSUME NEW q \in Sources
        PROVE  /\ replay'[q].index = IF q = r /\ replay[r].index = 0 THEN indexes + 1 ELSE replay[q].index
               /\ \/ replay'[q].leg = NoLeg
                  \/ replay'[q].leg = replay[q].leg /\ replay'[q].codec = replay[q].codec
               /\ q \in starts => /\ (q = r /\ replay[r].index = 0) \/ (replay[q].index # 0 /\ ~replay[q].starting)
                                  /\ replay'[q].starting /\ replay'[q].leg = NoLeg
                                  /\ x.job[q].index = replay'[q].index
               /\ q \notin starts => replay'[q].starting = replay[q].starting
    <3>1. x.job = job
      BY NoneTypes DEF x, Works
    <3>2. q \in starts => x.job[q].index = set[q].index
      BY <3>1, <1>6 DEF IsPlanned
    <3>3. q \in fresh => q = r /\ new
      BY DEF fresh
    <3>4. CASE q = r
      BY <3>2, <3>3, <3>4, <1>2, <1>7
    <3>5. CASE q # r
      BY <3>2, <3>3, <3>5, <1>2, <1>7
    <3> QED BY <3>4, <3>5
  <2> QED BY <2>1, <1>1, <1>5, <1>10, <1>11 DEF ReplaySet
<1> QED BY <1>5, <1>10, <1>12, <1>13, SMTT(30)

-----------------------------------------------------------------------------
(* The inductive invariant. *)

LEMMA InvInit == Init => IInv
<1> SUFFICES ASSUME Init PROVE IInv
  OBVIOUS
<1>1. TypeOK
  BY TypeInit
<1>2. \A w \in Workers : /\ ~work[w].locked /\ ~work[w].then /\ work[w].stage = "idle"
                         /\ \A r \in Sources : /\ work[w].job[r] = NoJob /\ work[w].drop[r] = NoLeg
                                                /\ work[w].gone[r] = 0
  BY DEF Init, NoWork
<1>3. RebuildIsHeldOnce
  BY <1>2 DEF RebuildIsHeldOnce
<1>4. \A w \in Workers, r \in Sources : MonitorJob(w, r) /\ LegJob(w, r)
  BY <1>2 DEF MonitorJob, LegJob, NoJob, Init
<1>5. \A r \in Sources : Starters(r) = {}
  BY <1>2 DEF Starters, Starting
<1>6. ASSUME NEW r \in Sources
      PROVE SourceIsListed(r) /\ BufferFits(r) /\ BufferHasItsStarter(r) /\ ListFollows(r)
  <2>1. replay[r].index = 0 /\ replay[r].starting = FALSE /\ replay[r].leg = NoLeg
    BY DEF Init, NoReplay
  <2>2. SourceIsListed(r)
    BY DEF Init, SourceIsListed
  <2>3. BufferFits(r)
    BY <2>1 DEF Init, BufferFits
  <2>4. BufferHasItsStarter(r)
    BY <2>1, <1>5 DEF BufferHasItsStarter
  <2>5. ListFollows(r)
    BY <1>2 DEF Init, ListFollows
  <2> QED BY <2>2, <2>3, <2>4, <2>5
<1>7. LegIsRight
  BY DEF Init, LegIsRight, NoReplay
<1> QED BY <1>1, <1>3, <1>4, <1>6, <1>7 DEF IInv

(* The invariant, taken apart. *)
LEMMA InvIs ==
  ASSUME IInv
  PROVE  /\ RestTyped /\ WorkTyped /\ RebuildIsHeldOnce /\ LegIsRight
         /\ \A w \in Workers, r \in Sources : MonitorJob(w, r) /\ LegJob(w, r)
         /\ \A r \in Sources : /\ SourceIsListed(r) /\ BufferFits(r)
                                /\ BufferHasItsStarter(r) /\ ListFollows(r)
  BY TypesAre DEF IInv

LEMMA InvOf ==
  ASSUME RestTyped', WorkTyped', RebuildIsHeldOnce', LegIsRight',
         \A w \in Workers, r \in Sources : MonitorJob(w, r)' /\ LegJob(w, r)',
         \A r \in Sources : /\ SourceIsListed(r)' /\ BufferFits(r)'
                            /\ BufferHasItsStarter(r)' /\ ListFollows(r)'
  PROVE  IInv'
  BY TypesAre DEF IInv

(* A buffer keeps its starter as long as the same Works are to start its leg. *)
LEMMA StarterStays ==
  ASSUME NEW r \in Sources, BufferHasItsStarter(r),
         replay'[r].index = replay[r].index, replay'[r].starting = replay[r].starting,
         replay[r].starting => replay'[r].leg = NoLeg,
         \A v \in Workers : replay[r].index # 0 =>
            (Starting(v)' /\ work'[v].job[r].index = replay[r].index
               <=> Starting(v) /\ work[v].job[r].index = replay[r].index)
  PROVE  BufferHasItsStarter(r)'
<1>1. Starters(r)' = Starters(r)
  BY DEF Starters
<1> QED BY <1>1 DEF BufferHasItsStarter

(* What no step but a Work's own changes of the jobs there are: a request or  *)
(* a rebuild that goes on, or is dropped, before it has one.                  *)
Unplanned(w) ==
    /\ \A v \in Workers \ {w} : work'[v] = work[v]
    /\ ~Starting(w) /\ ~Starting(w)'
    /\ \E x \in {NoWork, work[w]} : /\ work'[w].job = x.job
                                    /\ work'[w].drop = x.drop
                                    /\ work'[w].gone = x.gone

LEMMA InvUnplanned ==
  ASSUME IInv, RestTyped', WorkTyped', RebuildIsHeldOnce', NEW w \in Workers, Unplanned(w),
         \A r \in Sources : ListFollows(r)',
         UNCHANGED <<sources, monitor, made, replay, indexes>>
  PROVE  IInv'
<1> USE InvIs
<1>1. ASSUME NEW v \in Workers, NEW r \in Sources PROVE MonitorJob(v, r)' /\ LegJob(v, r)'
  <2>1. CASE v # w
    BY <2>1, <1>1 DEF Unplanned, MonitorJob, LegJob, Starting
  <2>2. CASE /\ v = w /\ work'[w].job = NoWork.job /\ work'[w].drop = NoWork.drop
             /\ work'[w].gone = NoWork.gone
    <3>1. work'[v].job[r] = NoJob /\ work'[v].drop[r] = NoLeg /\ work'[v].gone[r] = 0
      BY <2>2 DEF NoWork
    <3>2. indexes' \in Nat
      BY ConstantsAssumption DEF RestTyped
    <3> QED BY <3>1, <3>2 DEF MonitorJob, LegJob, NoJob
  <2>3. CASE v = w /\ work'[w].job = work[w].job /\ work'[w].drop = work[w].drop /\ work'[w].gone = work[w].gone
    BY <2>3, <1>1 DEF Unplanned, MonitorJob, LegJob
  <2> QED BY <2>1, <2>2, <2>3 DEF Unplanned
<1>2. ASSUME NEW r \in Sources PROVE BufferHasItsStarter(r)'
  <2>1. \A v \in Workers : Starting(v)' /\ work'[v].job[r].index = replay[r].index
               <=> Starting(v) /\ work[v].job[r].index = replay[r].index
    BY DEF Unplanned, Starting
  <2>2. replay[r].starting => replay'[r].leg = NoLeg
    BY DEF BufferHasItsStarter
  <2> QED BY <2>1, <2>2, StarterStays
<1>3. LegIsRight'
  BY DEF LegIsRight
<1>4. \A r \in Sources : SourceIsListed(r)' /\ BufferFits(r)'
  BY DEF SourceIsListed, BufferFits
<1> QED BY <1>1, <1>2, <1>3, <1>4, InvOf

(* A change that its rebuild is still to come for is followed, or was given   *)
(* up with its request.                                                       *)
LEMMA ListStillFollows ==
  ASSUME NEW w \in Workers, NEW r \in Sources, ListFollows(r),
         \A v \in Workers \ {w} : work'[v] = work[v],
         work[w].stage # "asked", work[w].stage # "read", work'[w].stage # "read",
         \/ work'[w].stage = "asked"
         \/ /\ r \in unheard => r \in unheard'
            /\ (work[w].stage = "deleted" \/ work[w].then) /\ r \in work[w].deleted
                 => \/ r \in unheard'
                    \/ (work'[w].stage = "deleted" \/ work'[w].then) /\ r \in work'[w].deleted,
         UNCHANGED sources, wanted'[r] = wanted[r]
  PROVE  ListFollows(r)'
<1>1. CASE work'[w].stage = "asked"
  BY <1>1 DEF ListFollows, Awaited
<1>2. CASE work'[w].stage # "asked"
  <2>1. CASE r \in unheard
    BY <1>2, <2>1 DEF ListFollows
  <2>2. CASE \E v \in Workers : work[v].stage = "asked"
    <3>1. PICK v \in Workers : work[v].stage = "asked"
      BY <2>2
    <3>2. v # w /\ work'[v] = work[v]
      BY <3>1
    <3> QED BY <3>1, <3>2 DEF ListFollows, Awaited
  <2>5. CASE \E v \in Workers : (work[v].stage = "deleted" \/ work[v].then) /\ r \in work[v].deleted
    <3>1. PICK v \in Workers : (work[v].stage = "deleted" \/ work[v].then) /\ r \in work[v].deleted
      BY <2>5
    <3>2. CASE v = w
      BY <1>2, <3>1, <3>2 DEF ListFollows, Awaited
    <3>3. CASE v # w
      BY <3>1, <3>3 DEF ListFollows, Awaited
    <3> QED BY <3>2, <3>3
  <2>3. CASE \E v \in Workers : work[v].stage = "read" /\ work[v].configs[r] = wanted[r]
    <3>1. PICK v \in Workers : work[v].stage = "read" /\ work[v].configs[r] = wanted[r]
      BY <2>3
    <3>2. v # w /\ work'[v] = work[v]
      BY <3>1
    <3> QED BY <3>1, <3>2 DEF ListFollows
  <2>4. CASE (\A v \in Workers : work[v].stage # "read") /\ sources[r].version = wanted[r]
    <3>1. \A v \in Workers : work'[v].stage # "read"
      BY <2>4
    <3> QED BY <3>1, <2>4 DEF ListFollows
  <2> QED BY <2>1, <2>2, <2>3, <2>4, <2>5 DEF ListFollows, Awaited
<1> QED BY <1>1, <1>2

LEMMA InvRequests ==
  ASSUME IInv, NEW w \in Workers,
         \/ \E r \in Sources, version \in 1..MaxEdits : EditSource(w, r, version)
         \/ \E r \in Sources : DeleteSource(w, r)
         \/ DropRequest(w) \/ set_clock(w)
  PROVE  IInv'
<1> USE InvIs DEF life, pipes, buffer, counts
<1>0. RestTyped' /\ WorkTyped'
  BY TypeRequests, TypesAre DEF IInv, TypeOK, RestTyped, WorkTyped
<1>1. work[w] \in Works
  BY DEF WorkTyped
<1>2. ASSUME NEW r \in Sources, NEW version \in 1..MaxEdits, EditSource(w, r, version)
      PROVE  IInv'
  <2>1. /\ work[w].stage = "idle" /\ ~work[w].locked
        /\ UNCHANGED <<sources, monitor, made, replay, indexes>>
        /\ wanted' = [wanted EXCEPT ![r] = version]
        /\ \/ work' = [work EXCEPT ![w].stage = "asked"] /\ unheard' = unheard \ {r}
           \/ unheard' = unheard \cup {r} /\ UNCHANGED work
    BY <1>2 DEF EditSource, WorkTyped
  <2>2. CASE work' = [work EXCEPT ![w].stage = "asked"]
    <3>1. /\ \A v \in Workers \ {w} : work'[v] = work[v]
          /\ work'[w] = [work[w] EXCEPT !.stage = "asked"]
      BY <2>2 DEF WorkTyped
    <3>2. /\ work'[w].stage = "asked" /\ work'[w].locked = work[w].locked /\ work'[w].then = work[w].then
          /\ work'[w].job = work[w].job /\ work'[w].drop = work[w].drop /\ work'[w].gone = work[w].gone
      BY <3>1, <1>1 DEF Works
    <3>3. Unplanned(w)
      BY <3>1, <3>2, <2>1 DEF Unplanned, Starting
    <3>4. RebuildIsHeldOnce'
      <4>1. ~work[w].then BY <2>1 DEF RebuildIsHeldOnce
      <4>2. \A v \in Workers : work'[v].locked = work[v].locked /\ work'[v].then = work[v].then BY <3>1, <3>2
      <4>3. \A v \in Workers : work'[v].then => work'[v].stage = work[v].stage BY <3>1, <4>1, <4>2
      <4> QED BY <4>2, <4>3 DEF RebuildIsHeldOnce
    <3>5. \A q \in Sources : ListFollows(q)'
      BY <3>2 DEF ListFollows, Awaited
    <3> QED BY <3>3, <3>4, <3>5, <2>1, <1>0, InvUnplanned
  <2>3. CASE unheard' = unheard \cup {r} /\ UNCHANGED work
    <3>1. Unplanned(w)
      BY <2>1, <2>3 DEF Unplanned, Starting
    <3>2. RebuildIsHeldOnce'
      BY <2>3 DEF RebuildIsHeldOnce
    <3>3. ASSUME NEW q \in Sources PROVE ListFollows(q)'
      <4>1. CASE q = r
        BY <2>3, <4>1 DEF ListFollows
      <4>2. CASE q # r
        <5>1. wanted'[q] = wanted[q]
          BY <2>1, <4>2 DEF RestTyped
        <5> QED BY <5>1, <2>1, <2>3, ListStillFollows
      <4> QED BY <4>1, <4>2
    <3> QED BY <3>1, <3>2, <3>3, <2>1, <1>0, InvUnplanned
  <2> QED BY <2>1, <2>2, <2>3
<1>3. ASSUME NEW r \in Sources, DeleteSource(w, r) PROVE IInv'
  <2>1. /\ work[w].stage = "idle" /\ ~work[w].locked /\ ~work[w].then
        /\ UNCHANGED <<sources, monitor, made, replay, indexes, unheard>>
        /\ wanted' = [wanted EXCEPT ![r] = 0]
        /\ work' = [work EXCEPT ![w].stage = "deleted", ![w].deleted = {r}]
    BY <1>3 DEF DeleteSource, WorkTyped, RebuildIsHeldOnce
  <2>2. /\ \A v \in Workers \ {w} : work'[v] = work[v]
        /\ work'[w] = [work[w] EXCEPT !.stage = "deleted", !.deleted = {r}]
    BY <2>1 DEF WorkTyped
  <2>3. /\ work'[w].stage = "deleted" /\ work'[w].locked = work[w].locked /\ work'[w].then = work[w].then
        /\ work'[w].deleted = {r}
        /\ work'[w].job = work[w].job /\ work'[w].drop = work[w].drop /\ work'[w].gone = work[w].gone
    BY <2>2, <1>1 DEF Works
  <2>4. Unplanned(w)
    BY <2>1, <2>2, <2>3 DEF Unplanned, Starting
  <2>5. RebuildIsHeldOnce'
    <3>1. \A v \in Workers : work'[v].locked = work[v].locked /\ work'[v].then = work[v].then BY <2>2, <2>3
    <3>2. \A v \in Workers : work'[v].then => work'[v].stage = work[v].stage BY <2>1, <2>2, <3>1
    <3> QED BY <3>1, <3>2 DEF RebuildIsHeldOnce
  <2>6. ASSUME NEW q \in Sources PROVE ListFollows(q)'
    <3>1. CASE q = r
      BY <3>1, <2>3 DEF ListFollows, Awaited
    <3>2. CASE q # r
      <4>1. wanted'[q] = wanted[q]
        BY <2>1, <3>2 DEF RestTyped
      <4> QED BY <4>1, <2>1, <2>2, <2>3, ListStillFollows
    <3> QED BY <3>1, <3>2
  <2> QED BY <2>1, <2>4, <2>5, <2>6, <1>0, InvUnplanned
<1>4. ASSUME DropRequest(w) PROVE IInv'
  <2>1. /\ unheard' = unheard \cup work[w].deleted
        /\ UNCHANGED <<sources, monitor, made, replay, indexes, wanted>>
        /\ \/ work[w].stage = "deleted" /\ work' = [work EXCEPT ![w] = NoWork]
           \/ /\ work[w].stage # "deleted" /\ work[w].then
              /\ work' = [work EXCEPT ![w] = [work[w] EXCEPT !.then = FALSE]]
    BY <1>4 DEF DropRequest
  <2>2. CASE work[w].stage = "deleted" /\ work' = [work EXCEPT ![w] = NoWork]
    <3>1. /\ \A v \in Workers \ {w} : work'[v] = work[v]
          /\ work'[w] = NoWork
      BY <2>2 DEF WorkTyped
    <3>2. work'[w].stage = "idle" /\ ~work'[w].locked /\ ~work'[w].then
      BY <3>1 DEF NoWork
    <3>3. Unplanned(w)
      BY <2>2, <3>1, <3>2 DEF Unplanned, Starting
    <3>4. RebuildIsHeldOnce'
      BY <3>1, <3>2 DEF RebuildIsHeldOnce
    <3>5. ASSUME NEW q \in Sources PROVE ListFollows(q)'
      BY <2>1, <2>2, <3>1, <3>2, ListStillFollows
    <3> QED BY <2>1, <3>3, <3>4, <3>5, <1>0, InvUnplanned
  <2>3. CASE /\ work[w].stage # "deleted" /\ work[w].then
             /\ work' = [work EXCEPT ![w] = [work[w] EXCEPT !.then = FALSE]]
    <3>1. /\ \A v \in Workers \ {w} : work'[v] = work[v]
          /\ work'[w] = [work[w] EXCEPT !.then = FALSE]
      BY <2>3 DEF WorkTyped
    <3>2. /\ work'[w].stage = work[w].stage /\ work'[w].locked = work[w].locked /\ ~work'[w].then
          /\ work'[w].job = work[w].job /\ work'[w].drop = work[w].drop /\ work'[w].gone = work[w].gone
      BY <3>1, <1>1 DEF Works
    <3>3. RebuildIsHeldOnce'
      BY <3>1, <3>2 DEF RebuildIsHeldOnce
    <3>4. \A v \in Workers : /\ Starting(v)' = Starting(v) /\ work'[v].locked = work[v].locked
                              /\ work'[v].job = work[v].job /\ work'[v].drop = work[v].drop
                              /\ work'[v].gone = work[v].gone
      BY <3>1, <3>2 DEF Starting
    <3>5. \A v \in Workers, r \in Sources : MonitorJob(v, r)' /\ LegJob(v, r)'
      BY <3>4, <2>1 DEF MonitorJob, LegJob
    <3>6. ASSUME NEW r \in Sources PROVE BufferHasItsStarter(r)'
      <4>1. replay[r].starting => replay'[r].leg = NoLeg
        BY <2>1 DEF BufferHasItsStarter
      <4> QED BY <4>1, <3>4, <2>1, StarterStays
    <3>7. ASSUME NEW q \in Sources PROVE ListFollows(q)'
      <4>1. work[w].stage \notin {"asked", "read"}
        BY <2>3 DEF RebuildIsHeldOnce
      <4> QED BY <4>1, <2>1, <2>3, <3>1, <3>2, ListStillFollows
    <3>8. LegIsRight' /\ \A r \in Sources : SourceIsListed(r)' /\ BufferFits(r)'
      BY <2>1 DEF LegIsRight, SourceIsListed, BufferFits
    <3> QED BY <3>3, <3>5, <3>6, <3>7, <3>8, <1>0, InvOf
  <2> QED BY <2>1, <2>2, <2>3
<1>5. ASSUME set_clock(w) PROVE IInv'
  <2> DEFINE st == IF needs_rescan' THEN "asked" ELSE "idle"
  <2>1. /\ work[w].stage = "idle" /\ ~work[w].locked /\ ~work[w].then
        /\ UNCHANGED <<sources, monitor, made, replay, indexes, unheard, wanted>>
        /\ work' = [work EXCEPT ![w].stage = st] /\ st \in {"asked", "idle"}
    BY <1>5 DEF set_clock, WorkTyped, RebuildIsHeldOnce
  <2> HIDE DEF st
  <2>2. /\ \A v \in Workers \ {w} : work'[v] = work[v]
        /\ work'[w] = [work[w] EXCEPT !.stage = st]
    BY <2>1 DEF WorkTyped
  <2>3. /\ work'[w].stage = st /\ work'[w].locked = work[w].locked /\ work'[w].then = work[w].then
        /\ work'[w].deleted = work[w].deleted
        /\ work'[w].job = work[w].job /\ work'[w].drop = work[w].drop /\ work'[w].gone = work[w].gone
    BY <2>2, <1>1 DEF Works
  <2>4. Unplanned(w)
    BY <2>1, <2>2, <2>3 DEF Unplanned, Starting
  <2>5. RebuildIsHeldOnce'
    BY <2>1, <2>2, <2>3 DEF RebuildIsHeldOnce
  <2>6. ASSUME NEW q \in Sources PROVE ListFollows(q)'
    BY <2>1, <2>2, <2>3, ListStillFollows
  <2> QED BY <2>1, <2>4, <2>5, <2>6, <1>0, InvUnplanned
<1> QED BY <1>2, <1>3, <1>4, <1>5

(* A rebuild takes REBUILD and reads the configured sources: none is unheard   *)
(* of any more, and every list is of what it read.                            *)
LEMMA InvReadConfigs ==
  ASSUME IInv, NEW w \in Workers, ReadConfigs(w)
  PROVE  IInv'
<1> USE InvIs DEF life, pipes, buffer, counts
<1>0. RestTyped' /\ WorkTyped'
  BY TypeRequests, TypesAre DEF IInv, TypeOK, RestTyped, WorkTyped
<1>1. work[w] \in Works /\ ~work[w].then
  BY DEF WorkTyped, RebuildIsHeldOnce, ReadConfigs
<1>2. /\ work[w].stage = "asked" /\ \A v \in Workers : ~work[v].locked
      /\ work' = [work EXCEPT ![w] = [work[w] EXCEPT !.stage = "read", !.locked = TRUE,
                                                     !.configs = wanted]]
      /\ UNCHANGED <<wanted, sources, monitor, made, replay, indexes>>
  BY DEF ReadConfigs, rebuild_free
<1>3. /\ \A v \in Workers \ {w} : work'[v] = work[v]
      /\ work'[w] = [work[w] EXCEPT !.stage = "read", !.locked = TRUE, !.configs = wanted]
  BY <1>2 DEF WorkTyped
<1>4. /\ work'[w].stage = "read" /\ work'[w].locked /\ ~work'[w].then /\ work'[w].configs = wanted
      /\ work'[w].job = work[w].job /\ work'[w].drop = work[w].drop /\ work'[w].gone = work[w].gone
  BY <1>1, <1>3 DEF Works
<1>5. Unplanned(w)
  BY <1>2, <1>3, <1>4 DEF Unplanned, Starting
<1>6. RebuildIsHeldOnce'
  BY <1>2, <1>3, <1>4 DEF RebuildIsHeldOnce
<1>7. ASSUME NEW q \in Sources PROVE ListFollows(q)'
  BY <1>2, <1>4 DEF ListFollows
<1> QED BY <1>0, <1>2, <1>5, <1>6, <1>7, InvUnplanned

LEMMA InvRecover ==
  ASSUME IInv, Recover
  PROVE  IInv'
<1> USE InvIs DEF life, pipes, buffer, counts
<1> DEFINE w == Recovery
           x == [work[w] EXCEPT !.stage = "asked"]
<1>1. w \in Workers /\ work[w] \in Works
  BY DEF WorkTyped, Workers
<1>2. /\ work[w].stage = "idle" /\ ~work[w].locked
      /\ work' = [work EXCEPT ![w] = x]
      /\ UNCHANGED <<wanted, unheard, sources, life, on, clock, recorded, replay, buffer, counts>>
  BY <1>1 DEF Recover, WorkTyped
<1> HIDE DEF w
<1>3. /\ x \in Works /\ x.stage = "asked" /\ x.locked = work[w].locked /\ x.then = work[w].then
      /\ x.job = work[w].job /\ x.drop = work[w].drop /\ x.gone = work[w].gone
  BY <1>1 DEF Works, Stages
<1> HIDE DEF x
<1>4. WorkTyped'
  BY <1>1, <1>2, <1>3, TypeWork
<1>5. RestTyped'
  BY <1>2 DEF RestTyped
<1>6. /\ \A v \in Workers \ {w} : work'[v] = work[v]
      /\ work'[w] = x
  BY <1>1, <1>2 DEF WorkTyped
<1>7. Unplanned(w)
  BY <1>2, <1>3, <1>6 DEF Unplanned, Starting
<1>8. RebuildIsHeldOnce'
  BY <1>2, <1>3, <1>6 DEF RebuildIsHeldOnce
<1>9. ASSUME NEW q \in Sources PROVE ListFollows(q)'
  BY <1>1, <1>3, <1>6 DEF ListFollows, Awaited
<1> QED BY <1>1, <1>2, <1>4, <1>5, <1>7, <1>8, <1>9, InvUnplanned

(* A Work goes on: its jobs keep the buffers they are for, and only a monitor *)
(* it is to start is started.                                                 *)
LEMMA JobsChange ==
  ASSUME IInv, RestTyped', NEW w \in Workers, NEW x \in Works, work' = [work EXCEPT ![w] = x],
         Starting(w), x.stage = "stopped", x.locked = work[w].locked, x.then = work[w].then,
         x.deleted = work[w].deleted,
         \A r \in Sources : /\ x.job[r].index = work[w].job[r].index
                            /\ MonitorJob(w, r)' /\ LegJob(w, r)'
                            /\ made'[r] = made[r] \/ work[w].job[r].source # 0,
         UNCHANGED <<wanted, unheard, sources, monitor, replay, indexes>>
  PROVE  IInv'
<1> USE InvIs
<1>1. /\ \A v \in Workers \ {w} : work'[v] = work[v]
      /\ work'[w] = x
  BY DEF WorkTyped
<1>2. WorkTyped'
  BY <1>1, TypeWork
<1>3. RebuildIsHeldOnce'
  BY <1>1 DEF RebuildIsHeldOnce
<1>4. ASSUME NEW v \in Workers, NEW r \in Sources PROVE MonitorJob(v, r)' /\ LegJob(v, r)'
  <2>1. CASE v = w
    BY <2>1
  <2>2. CASE v # w
    <3>1. work'[v] = work[v]
      BY <1>1, <2>2
    <3>2. CASE made'[r] = made[r]
      <4>1. MonitorJob(v, r)' BY <3>1, <3>2 DEF MonitorJob, Starting
      <4>2. LegJob(v, r)' BY <3>1 DEF LegJob, Starting
      <4> QED BY <4>1, <4>2
    <3>3. CASE work[w].job[r].source # 0
      <4>1. work[v].job[r].source = 0
        BY <2>2, <3>3 DEF MonitorJob, RebuildIsHeldOnce
      <4>2. work[v].job[r].monitor = 0 /\ "monitor" \notin work[v].job[r].todo
        BY <4>1 DEF MonitorJob
      <4>3. MonitorJob(v, r)' BY <3>1, <4>1, <4>2 DEF MonitorJob, Starting
      <4>4. LegJob(v, r)' BY <3>1 DEF LegJob, Starting
      <4> QED BY <4>3, <4>4
    <3> QED BY <3>2, <3>3
  <2> QED BY <2>1, <2>2
<1>5. ASSUME NEW r \in Sources PROVE BufferHasItsStarter(r)'
  <2>1. \A v \in Workers : Starting(v)' /\ work'[v].job[r].index = replay[r].index
               <=> Starting(v) /\ work[v].job[r].index = replay[r].index
    BY <1>1 DEF Starting
  <2>2. replay[r].starting => replay'[r].leg = NoLeg
    BY DEF BufferHasItsStarter
  <2> QED BY <2>1, <2>2, StarterStays
<1>6. ASSUME NEW r \in Sources PROVE ListFollows(r)'
  BY <1>1, ListStillFollows DEF Starting
<1>7. LegIsRight' /\ \A r \in Sources : SourceIsListed(r)' /\ BufferFits(r)'
  BY DEF LegIsRight, SourceIsListed, BufferFits
<1> QED BY <1>2, <1>3, <1>4, <1>5, <1>6, <1>7, InvOf

LEMMA OneJobChanges ==
  ASSUME IInv, RestTyped', NEW w \in Workers, NEW r \in Sources, NEW j \in Jobs,
         work[w].stage = "stopped",
         work' = [work EXCEPT ![w] = [work[w] EXCEPT !.job = [work[w].job EXCEPT ![r] = j]]],
         j.index = work[w].job[r].index, j.codec = work[w].job[r].codec,
         j.source = work[w].job[r].source, j.todo \subseteq work[w].job[r].todo,
         "monitor" \in j.todo => j.monitor = 0,
         j.monitor # 0 => j.source # 0 /\ j.monitor = made'[r],
         j.leg # NoLeg => /\ j.leg.index # 0 /\ j.leg.monitor # 0
                          /\ j.leg.index = j.index /\ j.leg.codec = j.codec,
         made'[r] = made[r] \/ j.source # 0,
         \A q \in Sources \ {r} : made'[q] = made[q],
         UNCHANGED <<wanted, unheard, sources, monitor, replay, indexes>>
  PROVE  IInv'
<1> USE InvIs
<1> DEFINE jobs == [work[w].job EXCEPT ![r] = j]
           x == [work[w] EXCEPT !.job = jobs]
<1>1. work[w] \in Works /\ work[w].job \in [Sources -> Jobs]
  BY DEF WorkTyped, Works
<1>2. jobs \in [Sources -> Jobs] /\ jobs[r] = j /\ \A q \in Sources \ {r} : jobs[q] = work[w].job[q]
  BY <1>1
<1> HIDE DEF jobs
<1>3. /\ x \in Works /\ x.stage = work[w].stage /\ x.locked = work[w].locked
      /\ x.then = work[w].then /\ x.deleted = work[w].deleted /\ x.job = jobs
      /\ x.drop = work[w].drop /\ x.gone = work[w].gone
  BY <1>1, <1>2 DEF Works
<1>4. work' = [work EXCEPT ![w] = x]
  BY DEF jobs
<1> HIDE DEF x
<1>5. work'[w] = x
  BY <1>4 DEF WorkTyped
<1>6. Starting(w)' /\ Starting(w)
  BY <1>3, <1>5 DEF Starting
<1>7. ASSUME NEW q \in Sources
      PROVE  /\ x.job[q].index = work[w].job[q].index
             /\ MonitorJob(w, q)' /\ LegJob(w, q)'
             /\ made'[q] = made[q] \/ work[w].job[q].source # 0
  <2>1. /\ work'[w].job[q] = jobs[q] /\ work'[w].drop = work[w].drop /\ work'[w].gone = work[w].gone
        /\ work'[w].locked = work[w].locked
    BY <1>3, <1>5
  <2>2. CASE q = r
    <3>1. MonitorJob(w, q) /\ LegJob(w, q)
      OBVIOUS
    <3>2. work'[w].job[q] = j
      BY <1>2, <2>1, <2>2
    <3>3. MonitorJob(w, q)'
      BY <3>1, <3>2, <2>1, <2>2, <1>6 DEF MonitorJob
    <3>4. LegJob(w, q)'
      BY <3>1, <3>2, <2>1, <2>2, <1>6 DEF LegJob
    <3> QED BY <3>3, <3>4, <2>2, <1>2, <1>3
  <2>3. CASE q # r
    <3>1. MonitorJob(w, q) /\ LegJob(w, q) /\ work'[w].job[q] = work[w].job[q] /\ made'[q] = made[q]
      BY <1>2, <2>1, <2>3
    <3>2. monitor' = monitor /\ sources' = sources /\ indexes' = indexes
      OBVIOUS
    <3>3. MonitorJob(w, q)'
      BY <3>1, <3>2, <2>1, <1>6 DEF MonitorJob
    <3>4. LegJob(w, q)'
      BY <3>1, <3>2, <2>1, <1>6 DEF LegJob
    <3> QED BY <3>1, <3>3, <3>4, <2>3, <1>2, <1>3
  <2> QED BY <2>2, <2>3
<1>8. /\ x \in Works /\ x.stage = "stopped" /\ x.locked = work[w].locked
      /\ x.then = work[w].then /\ x.deleted = work[w].deleted
      /\ UNCHANGED <<wanted, unheard, sources, monitor, replay, indexes>>
  BY <1>3
<1>9. \A q \in Sources : /\ x.job[q].index = work[w].job[q].index
                         /\ MonitorJob(w, q)' /\ LegJob(w, q)'
                         /\ made'[q] = made[q] \/ work[w].job[q].source # 0
  BY <1>7
<1> QED BY <1>4, <1>6, <1>8, <1>9, JobsChange

LEMMA InvStartMonitor ==
  ASSUME IInv, NEW w \in Workers, NEW r \in Sources,
         StartMonitor(w, r) \/ StartMonitorFails(w, r)
  PROVE  IInv'
<1> USE InvIs DEF life, pipes, buffer, counts
<1> DEFINE job == work[w].job[r]
<1>1. /\ work[w] \in Works /\ work[w].job \in [Sources -> Jobs] /\ job \in Jobs
      /\ made \in [Sources -> Nat] /\ made[r] \in Nat
  BY DEF WorkTyped, Works, RestTyped
<1>2. /\ work[w].stage = "stopped" /\ "monitor" \in job.todo
      /\ job.source # 0 /\ job.monitor = 0
  BY DEF StartMonitor, StartMonitorFails, MonitorJob
<1>3. LegJob(w, r) /\ job.leg # NoLeg => /\ job.leg.index # 0 /\ job.leg.monitor # 0
                                       /\ job.leg.index = job.index /\ job.leg.codec = job.codec
  BY <1>2 DEF LegJob, Starting
<1>4. CASE StartMonitor(w, r)
  <2> DEFINE j == [job EXCEPT !.todo = job.todo \ {"monitor"}, !.monitor = made[r] + 1]
  <2>0. job.todo \ {"monitor"} \in SUBSET {"monitor", "replay"} /\ made[r] + 1 \in Nat
    BY <1>1 DEF Jobs
  <2>1. /\ j \in Jobs /\ j.todo = job.todo \ {"monitor"} /\ j.monitor = made[r] + 1
        /\ j.index = job.index /\ j.codec = job.codec /\ j.source = job.source /\ j.leg = job.leg
    <3> HIDE DEF job
    <3> QED BY <1>1, <2>0 DEF Jobs
  <2>2. work' = [work EXCEPT ![w] = [work[w] EXCEPT !.job = [work[w].job EXCEPT ![r] = j]]]
    BY <1>1, <1>4 DEF StartMonitor
  <2>3. /\ made' = [made EXCEPT ![r] = made[r] + 1]
        /\ UNCHANGED <<wanted, unheard, sources, monitor, replay, indexes>>
    BY <1>4 DEF StartMonitor
  <2>4. made'[r] = made[r] + 1 /\ \A q \in Sources \ {r} : made'[q] = made[q]
    BY <1>1, <2>3
  <2>5. RestTyped'
    BY <1>1, <1>4 DEF RestTyped, StartMonitor
  <2> HIDE DEF j, job
  <2>6. LegJob(w, r) BY DEF job
  <2>7. j.todo \subseteq job.todo /\ "monitor" \notin j.todo BY <2>1
  <2>8. j.source # 0 /\ j.monitor = made'[r] BY <1>2, <2>1, <2>4
  <2>9. j.leg # NoLeg => /\ j.leg.index # 0 /\ j.leg.monitor # 0
                         /\ j.leg.index = j.index /\ j.leg.codec = j.codec
    BY <1>3, <2>1, <2>6
  <2> QED BY <1>2, <2>1, <2>2, <2>3, <2>4, <2>5, <2>7, <2>8, <2>9, OneJobChanges DEF job
<1>5. CASE StartMonitorFails(w, r)
  <2> DEFINE j == [job EXCEPT !.todo = job.todo \ {"monitor"}]
  <2>1. /\ j \in Jobs /\ j.todo = job.todo \ {"monitor"} /\ j.monitor = 0
        /\ j.index = job.index /\ j.codec = job.codec /\ j.source = job.source /\ j.leg = job.leg
    BY <1>1, <1>2 DEF Jobs
  <2>2. work' = [work EXCEPT ![w] = [work[w] EXCEPT !.job = [work[w].job EXCEPT ![r] = j]]]
    BY <1>1, <1>5 DEF StartMonitorFails
  <2>3. UNCHANGED <<wanted, unheard, sources, monitor, replay, indexes, made>>
    BY <1>5 DEF StartMonitorFails
  <2>4. RestTyped'
    BY <1>5 DEF RestTyped, StartMonitorFails
  <2> HIDE DEF j
  <2> QED BY <1>2, <1>3, <2>1, <2>2, <2>3, <2>4, OneJobChanges
<1> QED BY <1>4, <1>5

(* A leg starts, fails to, or has nothing to record from. *)
LEMMA InvStartReplay ==
  ASSUME IInv, NEW w \in Workers, NEW r \in Sources,
         StartReplay(w, r) \/ StartReplayFails(w, r) \/ ClearReplay(w, r)
  PROVE  IInv'
<1> USE InvIs DEF life, pipes, buffer, counts
<1> DEFINE job == work[w].job[r]
           m == resolve(job)
           leg == [index |-> job.index, codec |-> job.codec, monitor |-> m, failed |-> FALSE]
<1>1. /\ work[w] \in Works /\ work[w].job \in [Sources -> Jobs] /\ job \in Jobs
  BY DEF WorkTyped, Works
<1>2. /\ work[w].stage = "stopped" /\ job.todo = {"replay"} /\ job.index # 0
      /\ job.monitor # 0 => job.source # 0 /\ job.monitor = made[r]
  BY ZenonT(40) DEF StartReplay, StartReplayFails, ClearReplay, ToStart, MonitorJob, LegJob
<1>3. job.leg # NoLeg => /\ job.leg.index # 0 /\ job.leg.monitor # 0
                         /\ job.leg.index = job.index /\ job.leg.codec = job.codec
  BY <1>2 DEF LegJob, Starting
<1>4. job.index \in Indexes /\ job.codec \in Codecs \cup {NoCodec} /\ job.clock \in Nat /\ m \in Nat
  BY <1>1, <1>2, ConstantsAssumption DEF Jobs, Indexes, resolve
<1>5. leg \in Legs /\ leg.index = job.index /\ leg.codec = job.codec /\ leg.monitor = m
  BY <1>1, <1>4 DEF Legs, Jobs
<1>6. ASSUME NEW j \in Jobs, RestTyped',
             work' = [work EXCEPT ![w] = [work[w] EXCEPT !.job = [work[w].job EXCEPT ![r] = j]]],
             j.todo = {}, j.monitor = job.monitor, j.source = job.source, j.index = job.index,
             j.codec = job.codec,
             j.leg = job.leg \/ (m # 0 /\ j.leg = leg),
             UNCHANGED <<wanted, unheard, sources, monitor, replay, indexes, made>>
      PROVE  IInv'
  <2> HIDE DEF leg, m
  <2>1. j.leg # NoLeg => /\ j.leg.index # 0 /\ j.leg.monitor # 0
                         /\ j.leg.index = j.index /\ j.leg.codec = j.codec
    BY <1>2, <1>3, <1>5, <1>6
  <2> QED BY <1>2, <1>6, <2>1, OneJobChanges
<1>7. Cleared(r, job) => /\ index' \in [Indexes -> [codec : Codecs \cup {NoCodec}, clock : Nat, lists : BOOLEAN]]
                        /\ disk' \in [Sources -> SUBSET Indexes]
                        /\ indexes' = indexes
  <2>1. SUFFICES ASSUME Cleared(r, job)
                 PROVE  /\ index' \in [Indexes -> [codec : Codecs \cup {NoCodec}, clock : Nat, lists : BOOLEAN]]
                        /\ disk' \in [Sources -> SUBSET Indexes]
                        /\ indexes' = indexes
    OBVIOUS
  <2> DEFINE e == [codec |-> job.codec, clock |-> job.clock, lists |-> ~stale(job) /\ index[job.index].lists]
  <2>2. index' = [index EXCEPT ![job.index] = e]
    BY <2>1 DEF Cleared
  <2>3. (~stale(job) /\ index[job.index].lists) \in BOOLEAN
    BY DEF stale
  <2>4. e \in [codec : Codecs \cup {NoCodec}, clock : Nat, lists : BOOLEAN]
    BY <1>4, <2>3
  <2> HIDE DEF e
  <2>5. index \in [Indexes -> [codec : Codecs \cup {NoCodec}, clock : Nat, lists : BOOLEAN]]
    BY DEF RestTyped
  <2>6. index' \in [Indexes -> [codec : Codecs \cup {NoCodec}, clock : Nat, lists : BOOLEAN]]
    BY <2>2, <2>4, <2>5
  <2>7. disk' \in [Sources -> SUBSET Indexes] /\ indexes' = indexes
    BY <2>1 DEF Cleared, RestTyped
  <2> QED BY <2>6, <2>7
<1>8. CASE StartReplay(w, r)
  <2> DEFINE j == [job EXCEPT !.todo = {}, !.leg = leg]
  <2>1. /\ m # 0 /\ Cleared(r, job)
        /\ UNCHANGED <<wanted, unheard, sources, life, on, clock, recorded, replay, counts>>
        /\ work' = [work EXCEPT ![w].job[r].todo = {}, ![w].job[r].leg = leg]
    BY <1>8 DEF StartReplay
  <2> HIDE DEF leg, m
  <2>2. /\ j \in Jobs /\ j.todo = {} /\ j.monitor = job.monitor /\ j.index = job.index
        /\ j.codec = job.codec /\ j.source = job.source /\ j.leg = leg
    BY <1>1, <1>5 DEF Jobs
  <2>3. work' = [work EXCEPT ![w] = [work[w] EXCEPT !.job = [work[w].job EXCEPT ![r] = j]]]
    BY <1>1, <2>1
  <2>4. RestTyped'
    BY <1>7, <2>1 DEF RestTyped
  <2>5. UNCHANGED <<wanted, unheard, sources, monitor, replay, indexes, made>>
    BY <1>7, <2>1
  <2> HIDE DEF j
  <2> QED BY <1>6, <2>1, <2>2, <2>3, <2>4, <2>5
<1>9. CASE StartReplayFails(w, r) \/ ClearReplay(w, r)
  <2> DEFINE j == [job EXCEPT !.todo = {}]
  <2>1. /\ work' = [work EXCEPT ![w].job[r].todo = {}]
        /\ UNCHANGED <<wanted, unheard, sources, life, on, clock, recorded, replay>>
        /\ edits' = edits
        /\ (fails' = fails + 1 \/ fails' = fails)
    BY <1>9 DEF StartReplayFails, ClearReplay
  <2>2. /\ index' \in [Indexes -> [codec : Codecs \cup {NoCodec}, clock : Nat, lists : BOOLEAN]]
        /\ disk' \in [Sources -> SUBSET Indexes]
        /\ indexes' = indexes
    <3>1. CASE Cleared(r, job)
      BY <3>1, <1>7
    <3>2. CASE UNCHANGED buffer
      BY <3>2 DEF RestTyped
    <3>3. CASE ClearReplay(w, r)
      BY <3>3, NoneTypes DEF RestTyped, ClearReplay
    <3> QED BY <3>1, <3>2, <3>3, <1>9 DEF StartReplayFails
  <2> HIDE DEF leg, m
  <2>3. /\ j \in Jobs /\ j.todo = {} /\ j.monitor = job.monitor /\ j.index = job.index
        /\ j.codec = job.codec /\ j.source = job.source /\ j.leg = job.leg
    BY <1>1 DEF Jobs
  <2>4. work' = [work EXCEPT ![w] = [work[w] EXCEPT !.job = [work[w].job EXCEPT ![r] = j]]]
    BY <1>1, <2>1
  <2>5. RestTyped'
    BY <2>1, <2>2 DEF RestTyped
  <2>6. UNCHANGED <<wanted, unheard, sources, monitor, replay, indexes, made>>
    BY <2>1, <2>2
  <2>7. j.leg = job.leg \/ (m # 0 /\ j.leg = leg)
    BY <2>3
  <2> HIDE DEF j, job
  <2> QED BY <1>6, <2>3, <2>4, <2>5, <2>6, <2>7
<1> QED BY <1>8, <1>9

LEMMA LetGoType ==
  ASSUME RestTyped, NEW w \in Workers, NEW of \in [Sources -> 0..MaxIndexes], LetGo(w, of)
  PROVE  /\ index' \in [Indexes -> [codec : Codecs \cup {NoCodec}, clock : Nat, lists : BOOLEAN]]
         /\ disk' \in [Sources -> SUBSET Indexes]
         /\ indexes' = indexes
<1> DEFINE last == {r \in Sources : of[r] # 0 /\ ~HeldWithout(of[r], w)}
<1>1. /\ index' = [i \in Indexes |-> IF \E r \in last : of[r] = i THEN Emptied ELSE index[i]]
      /\ disk' = [r \in Sources |-> IF r \in last THEN {} ELSE disk[r]]
      /\ indexes' = indexes
  BY DEF LetGo
<1> HIDE DEF last
<1> QED BY <1>1, NoneTypes DEF RestTyped

LEMMA InvRunDrops ==
  ASSUME IInv, NEW w \in Workers, RunDrops(w)
  PROVE  IInv'
<1> USE InvIs DEF life, pipes, buffer, counts
<1> DEFINE drop == [r \in Sources |-> NoLeg]
           gone == [r \in Sources |-> 0]
           x == [work[w] EXCEPT !.stage = "stopped", !.drop = drop, !.gone = gone]
<1>1. /\ work[w] \in Works /\ work[w].gone \in [Sources -> 0..MaxIndexes]
      /\ drop \in [Sources -> Legs] /\ gone \in [Sources -> 0..MaxIndexes]
  BY NoneTypes, ConstantsAssumption DEF WorkTyped, Works
<1>2. /\ work[w].stage = "planned" /\ LetGo(w, work[w].gone)
      /\ work' = [work EXCEPT ![w] = x]
      /\ UNCHANGED <<wanted, unheard, sources, life, on, clock, recorded, replay, counts>>
  BY DEF RunDrops
<1>3. \A r \in Sources : drop[r] = NoLeg /\ gone[r] = 0
  OBVIOUS
<1> HIDE DEF drop, gone
<1>4. /\ x \in Works /\ x.stage = "stopped" /\ x.locked = work[w].locked
      /\ x.then = work[w].then /\ x.deleted = work[w].deleted
      /\ x.job = work[w].job /\ x.drop = drop /\ x.gone = gone
  BY <1>1 DEF Works, Stages
<1> HIDE DEF x
<1>5. work'[w] = x
  BY <1>2 DEF WorkTyped
<1>6. RestTyped' /\ indexes' = indexes
  BY <1>1, <1>2, LetGoType DEF RestTyped
<1>7. ASSUME NEW r \in Sources PROVE MonitorJob(w, r)' /\ LegJob(w, r)'
  <2>1. Starting(w) /\ Starting(w)' /\ indexes \in Nat
    BY <1>2, <1>4, <1>5, ConstantsAssumption DEF Starting, RestTyped
  <2>2. MonitorJob(w, r)'
    BY <1>2, <1>4, <1>5, <2>1 DEF MonitorJob
  <2>3. LegJob(w, r)'
    BY <1>3, <1>4, <1>5, <1>6, <2>1 DEF LegJob
  <2> QED BY <2>2, <2>3
<1>8. /\ Starting(w)
      /\ UNCHANGED <<wanted, unheard, sources, monitor, replay, indexes, made>>
  BY <1>2, <1>6 DEF Starting
<1> QED BY <1>2, <1>4, <1>6, <1>7, <1>8, JobsChange

LEMMA InvDropRejected ==
  ASSUME IInv, NEW w \in Workers, DropRejected(w)
  PROVE  IInv'
<1> USE InvIs DEF life, pipes, buffer, counts
<1> DEFINE of == [r \in Sources |-> work[w].job[r].index]
<1>1. of \in [Sources -> 0..MaxIndexes]
  BY DEF WorkTyped, Works, Jobs
<1>2. /\ work[w].stage = "applied" /\ LetGo(w, of)
      /\ work' = [work EXCEPT ![w] = Finished(w)]
      /\ UNCHANGED <<wanted, unheard, sources, life, on, clock, recorded, replay, counts>>
  BY DEF DropRejected
<1> HIDE DEF of
<1>3. RestTyped' /\ indexes' = indexes
  BY <1>1, <1>2, LetGoType DEF RestTyped
<1>4. /\ Finished(w) \in Works /\ Finished(w).stage = (IF work[w].then THEN "asked" ELSE "idle")
      /\ ~Finished(w).then /\ ~Finished(w).locked /\ Finished(w).job = NoWork.job
      /\ Finished(w).drop = NoWork.drop /\ Finished(w).gone = NoWork.gone
  BY FinishedType, NoneTypes DEF Finished, NoWork
<1>5. WorkTyped'
  BY <1>2, <1>4, TypeWork
<1>6. /\ \A v \in Workers \ {w} : work'[v] = work[v]
      /\ work'[w] = Finished(w)
  BY <1>2 DEF WorkTyped
<1>7. Unplanned(w)
  BY <1>2, <1>4, <1>6 DEF Unplanned, Starting
<1>8. RebuildIsHeldOnce'
  BY <1>4, <1>6 DEF RebuildIsHeldOnce
<1>9. ASSUME NEW q \in Sources PROVE ListFollows(q)'
  <2>1. CASE work[w].then
    BY <1>4, <1>6, <2>1 DEF ListFollows, Awaited
  <2>2. CASE ~work[w].then
    BY <1>2, <1>4, <1>6, <2>2, ListStillFollows
  <2> QED BY <2>1, <2>2
<1> QED BY <1>2, <1>3, <1>5, <1>7, <1>8, <1>9, InvUnplanned

(* What only pipelines and recordings change has no part in the invariant. *)
LEMMA InvSame ==
  ASSUME IInv, RestTyped',
         UNCHANGED <<wanted, unheard, sources, monitor, made, replay, indexes, work>>
  PROVE  IInv'
<1> USE InvIs
<1>1. WorkTyped' /\ RebuildIsHeldOnce' /\ LegIsRight'
  BY DEF WorkTyped, RebuildIsHeldOnce, LegIsRight
<1>2. \A w \in Workers, r \in Sources : MonitorJob(w, r)' /\ LegJob(w, r)'
  BY DEF MonitorJob, LegJob, Starting
<1>3. ASSUME NEW r \in Sources
      PROVE  SourceIsListed(r)' /\ BufferFits(r)' /\ BufferHasItsStarter(r)' /\ ListFollows(r)'
  <2>1. BufferHasItsStarter(r)'
    BY DEF BufferHasItsStarter, Starters, Starting
  <2>2. ListFollows(r)'
    BY DEF ListFollows, Awaited
  <2> QED BY <2>1, <2>2 DEF SourceIsListed, BufferFits
<1> QED BY <1>1, <1>2, <1>3, InvOf

(* A leg that runs has an index to record into. *)
LEMMA LiveLegsAre ==
  ASSUME IInv, NEW r \in Sources, NEW leg \in LiveLegs(r)
  PROVE  leg.index \in Indexes
<1> USE InvIs
<1>1. \A w \in Workers : work[w].drop[r] \in Legs /\ work[w].job[r].leg \in Legs
  BY DEF WorkTyped, Works, Jobs
<1>2. replay[r].leg \in Legs
  BY DEF RestTyped, Replays
<1>3. /\ leg # NoLeg
      /\ \/ leg = replay[r].leg
         \/ \E w \in Workers : leg \in {work[w].drop[r], work[w].job[r].leg}
  BY DEF LiveLegs
<1>4. leg \in Legs /\ leg.index # 0
  <2>1. CASE leg = replay[r].leg
    BY <1>2, <1>3, <2>1 DEF BufferFits
  <2>2. CASE \E w \in Workers : leg \in {work[w].drop[r], work[w].job[r].leg}
    BY <1>1, <1>3, <2>2 DEF LegJob
  <2> QED BY <1>3, <2>1, <2>2
<1> QED BY <1>4, ConstantsAssumption DEF Legs, Indexes

LEMMA InvTearDown ==
  ASSUME IInv, NEW r \in Sources, NEW m \in torn[r], TearDown(r, m)
  PROVE  IInv'
<1>1. RestTyped'
  BY InvIs DEF RestTyped, TearDown, buffer, counts
<1> QED BY <1>1, InvSame DEF TearDown, buffer

LEMMA InvPipelines ==
  ASSUME IInv, NEW r \in Sources,
         \/ MonitorFails(r) \/ LegFails(r)
         \/ \E leg \in LiveLegs(r) : SegmentCloses(r, leg)
         \/ StartRecording(r) \/ StopRecording(r)
  PROVE  IInv'
<1> USE InvIs DEF life, pipes, buffer, counts
<1>1. CASE MonitorFails(r)
  <2>1. RestTyped'
    BY <1>1 DEF RestTyped, MonitorFails
  <2> QED BY <1>1, <2>1, InvSame DEF MonitorFails
<1>2. CASE StartRecording(r)
  <2>1. RestTyped'
    BY <1>2 DEF RestTyped, StartRecording
  <2> QED BY <1>2, <2>1, InvSame DEF StartRecording
<1>3. CASE StopRecording(r)
  <2>1. RestTyped'
    BY <1>3 DEF RestTyped, StopRecording
  <2> QED BY <1>3, <2>1, InvSame DEF StopRecording
<1>4. ASSUME NEW leg \in LiveLegs(r), SegmentCloses(r, leg) PROVE IInv'
  <2>1. leg.index \in Indexes
    BY LiveLegsAre
  <2>2. index' \in [Indexes -> [codec : Codecs \cup {NoCodec}, clock : Nat, lists : BOOLEAN]]
    <3>1. index' = [index EXCEPT ![leg.index] = [index[leg.index] EXCEPT !.lists = TRUE]]
      BY <1>4 DEF SegmentCloses
    <3>2. /\ index \in [Indexes -> [codec : Codecs \cup {NoCodec}, clock : Nat, lists : BOOLEAN]]
          /\ index[leg.index] \in [codec : Codecs \cup {NoCodec}, clock : Nat, lists : BOOLEAN]
      BY <2>1 DEF RestTyped
    <3>3. [index[leg.index] EXCEPT !.lists = TRUE]
             \in [codec : Codecs \cup {NoCodec}, clock : Nat, lists : BOOLEAN]
      BY <3>2
    <3> QED BY <3>1, <3>2, <3>3
  <2>3. disk' \in [Sources -> SUBSET Indexes]
    <3>1. PICK over \in SUBSET (disk[r] \ {leg.index}) :
             disk' = [disk EXCEPT ![r] = (@ \ over) \cup {leg.index}]
      BY <1>4 DEF SegmentCloses
    <3>2. (disk[r] \ over) \cup {leg.index} \in SUBSET Indexes
      BY <2>1 DEF RestTyped
    <3> QED BY <3>1, <3>2 DEF RestTyped
  <2>4. RestTyped'
    BY <1>4, <2>2, <2>3 DEF RestTyped, SegmentCloses
  <2> QED BY <1>4, <2>4, InvSame DEF SegmentCloses
<1>5. CASE LegFails(r)
  <2> DEFINE leg == [replay[r].leg EXCEPT !.failed = TRUE]
  <2>1. /\ replay' = [replay EXCEPT ![r] = [replay[r] EXCEPT !.leg = leg]] /\ fails' = fails + 1
        /\ UNCHANGED <<wanted, unheard, sources, life, on, clock, recorded, buffer, work, edits>>
        /\ replay[r].leg # NoLeg
    BY <1>5 DEF LegFails, recording
  <2>2. replay[r] \in Replays /\ replay[r].leg \in Legs /\ replay[r].leg.index # 0
    BY <2>1 DEF RestTyped, Replays, BufferFits
  <2>3. /\ leg \in Legs /\ leg.index = replay[r].leg.index /\ leg.codec = replay[r].leg.codec
        /\ leg.monitor = replay[r].leg.monitor
    BY <2>2 DEF Legs
  <2>4. leg # NoLeg
    BY <2>2, <2>3 DEF NoLeg
  <2> HIDE DEF leg
  <2>5. /\ [replay[r] EXCEPT !.leg = leg] \in Replays
        /\ [replay[r] EXCEPT !.leg = leg].leg = leg
        /\ [replay[r] EXCEPT !.leg = leg].index = replay[r].index
        /\ [replay[r] EXCEPT !.leg = leg].codec = replay[r].codec
        /\ [replay[r] EXCEPT !.leg = leg].starting = replay[r].starting
    BY <2>2, <2>3 DEF Replays
  <2>6. /\ replay'[r].leg = leg /\ replay'[r].index = replay[r].index
        /\ replay'[r].codec = replay[r].codec /\ replay'[r].starting = replay[r].starting
        /\ \A q \in Sources \ {r} : replay'[q] = replay[q]
    BY <2>1, <2>5 DEF RestTyped
  <2>7. RestTyped'
    BY <2>1, <2>5 DEF RestTyped
  <2>8. WorkTyped' /\ RebuildIsHeldOnce'
    BY <2>1 DEF WorkTyped, RebuildIsHeldOnce
  <2>9. \A w \in Workers, q \in Sources : MonitorJob(w, q)' /\ LegJob(w, q)'
    BY <2>1 DEF MonitorJob, LegJob, Starting
  <2>10. LegIsRight'
    BY <2>1, <2>3, <2>4, <2>6 DEF LegIsRight
  <2>11. ASSUME NEW q \in Sources
         PROVE SourceIsListed(q)' /\ BufferFits(q)' /\ BufferHasItsStarter(q)' /\ ListFollows(q)'
    <3>1. SourceIsListed(q)'
      BY <2>1 DEF SourceIsListed
    <3>2. BufferFits(q)'
      BY <2>1, <2>2, <2>3, <2>6 DEF BufferFits
    <3>3. replay'[q].index = replay[q].index /\ replay'[q].starting = replay[q].starting
      BY <2>6
    <3>4. replay[q].starting => replay'[q].leg = NoLeg
      BY <2>1, <2>6 DEF BufferHasItsStarter
    <3>5. BufferHasItsStarter(q)'
      BY <2>1, <3>3, <3>4, StarterStays DEF Starting
    <3>6. ListFollows(q)'
      BY <2>1 DEF ListFollows, Awaited
    <3> QED BY <3>1, <3>2, <3>5, <3>6
  <2> QED BY <2>7, <2>8, <2>9, <2>10, <2>11, InvOf
<1> QED BY <1>1, <1>2, <1>3, <1>4, <1>5

(* A buffer that goes takes its leg and its index along in a Work that starts *)
(* nothing; its rebuild follows.                                              *)
LEMMA InvRemoveReplay ==
  ASSUME IInv, NEW w \in Workers, NEW r \in Sources, RemoveReplay(w, r)
  PROVE  IInv'
<1> USE InvIs DEF life, pipes, buffer, counts
<1> DEFINE drop == [NoWork.drop EXCEPT ![r] = replay[r].leg]
           gone == [NoWork.gone EXCEPT ![r] = replay[r].index]
           asked == [NoWork EXCEPT !.stage = "asked"]
           removal == [NoWork EXCEPT !.stage = "planned", !.then = TRUE,
                                     !.deleted = work[w].deleted, !.drop = drop, !.gone = gone]
           x == IF replay[r].index = 0 THEN asked ELSE removal
<1>1. /\ work[w].stage \in {"idle", "deleted"}
      /\ replay' = [replay EXCEPT ![r] = NoReplay]
      /\ work' = [work EXCEPT ![w] = x]
      /\ UNCHANGED <<wanted, unheard, sources, life, on, clock, recorded, buffer, fails>>
      /\ edits' \in {edits, edits + 1}
  BY NoneTypes DEF RemoveReplay, Works
<1>2. /\ work[w] \in Works /\ ~work[w].locked /\ ~work[w].then
      /\ replay[r] \in Replays /\ replay[r].leg \in Legs /\ replay[r].index \in 0..MaxIndexes
  BY <1>1 DEF WorkTyped, RebuildIsHeldOnce, RestTyped, Replays
<1>3. /\ NoWork.drop \in [Sources -> Legs] /\ NoWork.gone \in [Sources -> 0..MaxIndexes]
      /\ ~NoWork.locked /\ NoWork.then = FALSE
      /\ \A q \in Sources : NoWork.drop[q] = NoLeg /\ NoWork.gone[q] = 0 /\ NoWork.job[q] = NoJob
  BY NoneTypes, ConstantsAssumption DEF NoWork
<1>4. /\ drop \in [Sources -> Legs] /\ gone \in [Sources -> 0..MaxIndexes]
      /\ \A q \in Sources : drop[q] \in {NoLeg, replay[q].leg}
      /\ \A q \in Sources : gone[q] \in {0, replay[q].index}
  <2>1. drop \in [Sources -> Legs] /\ \A q \in Sources : drop[q] \in {NoLeg, replay[q].leg}
    BY <1>2, <1>3
  <2>2. gone \in [Sources -> 0..MaxIndexes] /\ \A q \in Sources : gone[q] \in {0, replay[q].index}
    BY <1>2, <1>3
  <2> HIDE DEF drop, gone
  <2> QED BY <2>1, <2>2
<1> HIDE DEF drop, gone
<1>5. /\ asked \in Works /\ asked.stage = "asked" /\ ~asked.locked /\ ~asked.then
      /\ asked.drop = NoWork.drop /\ asked.gone = NoWork.gone /\ asked.job = NoWork.job
  BY <1>3, NoneTypes DEF Works, Stages
<1>6. /\ removal \in Works /\ removal.stage = "planned" /\ ~removal.locked /\ removal.then
      /\ removal.deleted = work[w].deleted
      /\ removal.drop = drop /\ removal.gone = gone /\ removal.job = NoWork.job
  BY <1>2, <1>3, <1>4, NoneTypes DEF Works, Stages
<1> HIDE DEF asked, removal
<1>7. /\ x \in Works /\ ~x.locked /\ x.stage \in {"asked", "planned"} /\ x.job = NoWork.job
      /\ x.stage = "planned" => x.then /\ x.deleted = work[w].deleted
      /\ x.then => x.stage = "planned"
      /\ \A q \in Sources : /\ x.drop[q] \in {NoLeg, replay[q].leg}
                             /\ x.gone[q] \in {0, replay[q].index}
  <2>1. CASE replay[r].index = 0
    BY <2>1, <1>3, <1>5
  <2>2. CASE replay[r].index # 0
    <3>1. x = removal
      BY <2>2
    <3> QED BY <3>1, <1>4, <1>6
  <2> QED BY <2>1, <2>2
<1> HIDE DEF x
<1>8. /\ \A v \in Workers \ {w} : work'[v] = work[v]
      /\ work'[w] = x
  BY <1>1 DEF WorkTyped
<1>9. WorkTyped'
  BY <1>1, <1>7, TypeWork
<1>10. RestTyped'
  <2>1. replay' \in [Sources -> Replays]
    BY <1>1, NoneTypes DEF RestTyped
  <2> QED BY <1>1, <2>1 DEF RestTyped
<1>11. RebuildIsHeldOnce'
  BY <1>7, <1>8 DEF RebuildIsHeldOnce
<1>12. ASSUME NEW v \in Workers, NEW q \in Sources PROVE MonitorJob(v, q)' /\ LegJob(v, q)'
  <2>1. CASE v = w
    <3>1. work'[v].job[q] = NoJob
      BY <1>3, <1>7, <1>8, <2>1
    <3>2. /\ work'[v].gone[q] \in {0, replay[q].index}
          /\ work'[v].drop[q] \in {NoLeg, replay[q].leg}
      BY <1>7, <1>8, <2>1
    <3>3. indexes \in Nat /\ 0 <= indexes /\ replay[q].index <= indexes
      BY ConstantsAssumption DEF BufferFits, RestTyped
    <3>4. work'[v].gone[q] <= indexes
      BY <3>2, <3>3
    <3>5. work'[v].drop[q] # NoLeg => work'[v].drop[q].index # 0
      BY <3>2 DEF BufferFits
    <3> QED BY <3>1, <3>3, <3>4, <3>5, <1>1 DEF MonitorJob, LegJob, NoJob
  <2>2. CASE v # w
    BY <1>1, <1>8, <2>2, <1>12 DEF MonitorJob, LegJob, Starting
  <2> QED BY <2>1, <2>2
<1>13. /\ replay'[r] = NoReplay
       /\ \A q \in Sources \ {r} : replay'[q] = replay[q]
  BY <1>1 DEF RestTyped
<1>14. NoReplay.leg = NoLeg /\ NoReplay.index = 0 /\ ~NoReplay.starting
  BY DEF NoReplay
<1>15. LegIsRight'
  BY <1>1, <1>13, <1>14 DEF LegIsRight
<1>16. ASSUME NEW q \in Sources
       PROVE SourceIsListed(q)' /\ BufferFits(q)' /\ BufferHasItsStarter(q)' /\ ListFollows(q)'
  <2>1. SourceIsListed(q)'
    BY <1>1 DEF SourceIsListed
  <2>2. BufferFits(q)'
    <3>1. indexes \in Nat
      BY ConstantsAssumption DEF RestTyped
    <3> QED BY <1>1, <1>13, <1>14, <3>1 DEF BufferFits
  <2>3. BufferHasItsStarter(q)'
    <3>1. CASE q = r
      <4>1. replay'[q].index = 0 /\ ~replay'[q].starting
        BY <1>13, <1>14, <3>1
      <4> QED BY <4>1 DEF BufferHasItsStarter, Starters
    <3>2. CASE q # r
      <4>1. ~Starting(w) /\ work'[w].job[q].index = 0
        BY <1>1, <1>3, <1>7, <1>8 DEF Starting, NoJob
      <4>2. \A v \in Workers : replay[q].index # 0 =>
               (Starting(v)' /\ work'[v].job[q].index = replay[q].index
                  <=> Starting(v) /\ work[v].job[q].index = replay[q].index)
        BY <1>8, <4>1 DEF Starting
      <4>3. replay[q].starting => replay'[q].leg = NoLeg
        BY <1>13, <3>2 DEF BufferHasItsStarter
      <4> QED BY <1>13, <3>2, <4>2, <4>3, StarterStays
    <3> QED BY <3>1, <3>2
  <2>4. ListFollows(q)'
    BY <1>1, <1>2, <1>7, <1>8, ListStillFollows
  <2> QED BY <2>1, <2>2, <2>3, <2>4
<1> QED BY <1>9, <1>10, <1>11, <1>12, <1>15, <1>16, InvOf

(* An index in no buffer's leg is in no buffer. *)
LEMMA NoIndexNoLeg ==
  ASSUME IInv, NEW r \in Sources, replay[r].index = 0
  PROVE  replay[r].leg = NoLeg /\ ~replay[r].starting
  BY InvIs DEF BufferFits, LegIsRight

LEMMA InvSetReplay ==
  ASSUME IInv, NEW w \in Workers, NEW r \in Sources, NEW c \in Codecs, set_replay(w, r, c)
  PROVE  IInv'
<1> USE InvIs DEF life, pipes
<1>1. RestTyped' /\ \E starts \in SUBSET Sources, x \in Works : ReplaySet(w, r, starts, x)
  BY NoIndexNoLeg, SetReplayIs
<1>2. PICK starts \in SUBSET Sources, x \in Works : ReplaySet(w, r, starts, x)
  BY <1>1
<1>3. /\ work[w].stage = "idle" /\ ~work[w].locked /\ ~work[w].then
      /\ UNCHANGED <<wanted, unheard, sources, monitor, made>>
  BY <1>2 DEF ReplaySet, WorkTyped, RebuildIsHeldOnce
<1>4. /\ indexes \in Nat /\ indexes' \in Nat /\ indexes <= indexes'
      /\ \A q \in Sources : /\ replay[q].index \in Nat /\ replay[q].index <= indexes
                             /\ replay'[q].index <= indexes'
  <2>1. indexes \in Nat /\ \A q \in Sources : replay[q].index \in Nat /\ replay[q].index <= indexes
    BY ConstantsAssumption DEF RestTyped, Replays, BufferFits
  <2>2. indexes' = IF replay[r].index = 0 THEN indexes + 1 ELSE indexes
    BY <1>2 DEF ReplaySet
  <2>3. ASSUME NEW q \in Sources PROVE replay'[q].index <= indexes'
    <3>1. replay'[q].index = IF q = r /\ replay[r].index = 0 THEN indexes + 1 ELSE replay[q].index
      BY <1>2 DEF ReplaySet
    <3> QED BY <2>1, <2>2, <3>1
  <2> QED BY <2>1, <2>2, <2>3
<1>5. ASSUME NEW q \in Sources
      PROVE /\ replay'[q].leg # NoLeg => /\ replay'[q].leg = replay[q].leg
                                         /\ replay'[q].codec = replay[q].codec
                                         /\ replay'[q].index = replay[q].index
            /\ q \notin starts => /\ replay'[q].index = replay[q].index
                                  /\ replay'[q].starting = replay[q].starting
            /\ q \in starts => /\ replay'[q].index # 0 /\ replay'[q].starting /\ replay'[q].leg = NoLeg
                               /\ x.job[q].index = replay'[q].index
                               /\ (replay'[q].index = replay[q].index /\ ~replay[q].starting)
                                    \/ replay'[q].index = indexes + 1
  <2>1. /\ replay'[q].index = IF q = r /\ replay[r].index = 0 THEN indexes + 1 ELSE replay[q].index
        /\ \/ replay'[q].leg = NoLeg
           \/ replay'[q].leg = replay[q].leg /\ replay'[q].codec = replay[q].codec
        /\ q \in starts => /\ (q = r /\ replay[r].index = 0) \/ (replay[q].index # 0 /\ ~replay[q].starting)
                           /\ replay'[q].starting /\ replay'[q].leg = NoLeg
                           /\ x.job[q].index = replay'[q].index
        /\ q \notin starts => replay'[q].starting = replay[q].starting
        /\ replay[r].index = 0 => r \in starts
    BY <1>2 DEF ReplaySet
  <2>2. CASE q \in starts
    BY <1>4, <2>1, <2>2
  <2>3. CASE q \notin starts
    BY <2>1, <2>3
  <2> QED BY <2>2, <2>3
<1>6. LegIsRight'
  BY <1>3, <1>5 DEF LegIsRight
<1>7. ASSUME NEW q \in Sources PROVE SourceIsListed(q)' /\ BufferFits(q)'
  <2>1. SourceIsListed(q)'
    BY <1>3 DEF SourceIsListed
  <2>2. BufferFits(q)'
    BY <1>4, <1>5 DEF BufferFits
  <2> QED BY <2>1, <2>2
<1>8. CASE UNCHANGED work /\ starts = {}
  <2>1. WorkTyped' /\ RebuildIsHeldOnce'
    BY <1>8 DEF WorkTyped, RebuildIsHeldOnce
  <2>2. ASSUME NEW v \in Workers, NEW q \in Sources PROVE MonitorJob(v, q)' /\ LegJob(v, q)'
    <3>1. work[v].job[q].index \in Nat /\ work[v].gone[q] \in Nat
      BY ConstantsAssumption DEF WorkTyped, Works, Jobs
    <3>2. MonitorJob(v, q)'
      BY <1>3, <1>8, <2>2 DEF MonitorJob, Starting
    <3>3. LegJob(v, q)'
      BY <1>4, <1>8, <2>2, <3>1 DEF LegJob, Starting
    <3> QED BY <3>2, <3>3
  <2>3. ASSUME NEW q \in Sources PROVE BufferHasItsStarter(q)' /\ ListFollows(q)'
    <3>1. replay[q].starting => replay'[q].leg = NoLeg
      BY <1>5 DEF BufferHasItsStarter
    <3>2. BufferHasItsStarter(q)'
      BY <1>5, <1>8, <3>1, StarterStays DEF Starting
    <3>3. ListFollows(q)'
      BY <1>3, <1>8 DEF ListFollows, Awaited
    <3> QED BY <3>2, <3>3
  <2> QED BY <1>1, <1>6, <1>7, <2>1, <2>2, <2>3, InvOf
<1>9. CASE work' = [work EXCEPT ![w] = x] /\ x.stage = "planned" /\ ~x.locked /\ Plans(x, {}, starts)
  <2>1. WorkTyped'
    BY <1>9, TypeWork
  <2>2. /\ \A v \in Workers \ {w} : work'[v] = work[v]
        /\ work'[w] = x /\ Starting(w)' /\ ~Starting(w)
    BY <1>3, <1>9 DEF WorkTyped, Starting
  <2>3. RebuildIsHeldOnce'
    BY <1>9, <2>2 DEF RebuildIsHeldOnce
  <2>4. ASSUME NEW q \in Sources
        PROVE  /\ ~x.then /\ x.gone[q] = 0 /\ x.drop[q] \in {NoLeg, replay[q].leg}
               /\ "monitor" \notin x.job[q].todo
               /\ "replay" \in x.job[q].todo <=> q \in starts
               /\ x.job[q].source = 0 /\ x.job[q].monitor = 0 /\ x.job[q].leg = NoLeg
               /\ q \notin starts => x.job[q].index = 0
    BY <1>9 DEF Plans
  <2>5. ASSUME NEW v \in Workers, NEW q \in Sources PROVE MonitorJob(v, q)' /\ LegJob(v, q)'
    <3>1. CASE v = w
      <4>1. MonitorJob(v, q)'
        BY <2>2, <2>4, <3>1 DEF MonitorJob
      <4>2. work'[v].job[q].index <= indexes'
        BY <1>4, <1>5, <2>2, <2>4, <3>1
      <4>3. LegJob(v, q)'
        BY <1>4, <1>5, <2>2, <2>4, <3>1, <4>2 DEF LegJob, BufferFits
      <4> QED BY <4>1, <4>3
    <3>2. CASE v # w
      <4>1. work[v].job[q].index \in Nat /\ work[v].gone[q] \in Nat /\ work'[v] = work[v]
        BY <2>2, <3>2, ConstantsAssumption DEF WorkTyped, Works, Jobs
      <4>2. MonitorJob(v, q)'
        BY <1>3, <2>5, <4>1 DEF MonitorJob, Starting
      <4>3. LegJob(v, q)'
        BY <1>4, <2>5, <4>1 DEF LegJob, Starting
      <4> QED BY <4>2, <4>3
    <3> QED BY <3>1, <3>2
  <2>6. ASSUME NEW q \in Sources PROVE BufferHasItsStarter(q)'
    <3>1. CASE q \in starts
      <4>1. ASSUME NEW v \in Workers \ {w}
            PROVE ~(Starting(v)' /\ work'[v].job[q].index = replay'[q].index)
        <5>1. work'[v] = work[v] /\ work[v].job[q].index <= indexes /\ work[v].job[q].index \in Nat
          BY <2>2, ConstantsAssumption DEF LegJob, WorkTyped, Works, Jobs
        <5>2. CASE replay'[q].index = replay[q].index /\ ~replay[q].starting
          BY <1>5, <3>1, <5>1, <5>2 DEF BufferHasItsStarter, Starters, Starting
        <5>3. CASE replay'[q].index = indexes + 1
          BY <1>4, <5>1, <5>3
        <5> QED BY <1>5, <3>1, <5>2, <5>3
      <4>2. Starters(q)' = {w}
        BY <1>5, <2>2, <3>1, <4>1 DEF Starters
      <4> QED BY <1>5, <3>1, <4>2 DEF BufferHasItsStarter
    <3>2. CASE q \notin starts
      <4>1. \A v \in Workers : replay[q].index # 0 =>
               (Starting(v)' /\ work'[v].job[q].index = replay[q].index
                  <=> Starting(v) /\ work[v].job[q].index = replay[q].index)
        BY <2>2, <2>4, <3>2 DEF Starting
      <4>2. replay[q].starting => replay'[q].leg = NoLeg
        BY <1>5 DEF BufferHasItsStarter
      <4> QED BY <1>5, <3>2, <4>1, <4>2, StarterStays
    <3> QED BY <3>1, <3>2
  <2>7. ASSUME NEW q \in Sources PROVE ListFollows(q)'
    BY <1>3, <1>9, <2>2, ListStillFollows
  <2> QED BY <1>1, <1>6, <1>7, <2>1, <2>3, <2>5, <2>6, <2>7, InvOf
<1> QED BY <1>2, <1>8, <1>9 DEF ReplaySet

(* Who holds REBUILD is the only one to start monitors. *)
LEMMA OneRebuilds ==
  ASSUME IInv, NEW w \in Workers, work[w].locked, NEW v \in Workers, v # w, NEW r \in Sources
  PROVE  /\ ~work[v].locked /\ work[v].stage # "read"
         /\ work[v].job[r].source = 0 /\ work[v].job[r].monitor = 0
         /\ "monitor" \notin work[v].job[r].todo
<1>1. ~work[v].locked
  BY InvIs DEF RebuildIsHeldOnce
<1>2. work[v].stage # "read"
  BY <1>1, InvIs DEF WorkTyped
<1>3. MonitorJob(v, r)
  BY InvIs
<1> QED BY <1>1, <1>2, <1>3 DEF MonitorJob

(* Where a scan leaves a source: it starts a monitor only where none is left. *)
LEMMA ScannedSource ==
  ASSUME IInv, NEW w \in Workers, NEW starts \in SUBSET Sources, NEW x \in Works,
         Scanned(w, starts, x), NEW r \in Sources
  PROVE  /\ sources'[r].listed <=> sources'[r].version # 0
         /\ sources'[r].version = work[w].configs[r]
         /\ monitor'[r] # 0 => /\ sources'[r].listed /\ monitor'[r] = monitor[r]
                               /\ r \notin Gone(w) /\ r \notin Added(w)
         /\ r \in Added(w) => /\ sources'[r].listed /\ sources'[r].id = sources[r].id + 1
                              /\ monitor'[r] = 0
<1> USE InvIs
<1>1. /\ sources'[r] = IF r \in Added(w)
                       THEN [listed |-> TRUE, id |-> sources[r].id + 1,
                             version |-> work[w].configs[r]]
                       ELSE IF r \in Kept(w) THEN sources[r]
                       ELSE [listed |-> FALSE, id |-> sources[r].id, version |-> 0]
      /\ monitor'[r] = IF r \in Gone(w) THEN 0 ELSE monitor[r]
  BY DEF Scanned
<1>2. /\ monitor[r] # 0 => sources[r].listed
      /\ sources[r].listed <=> sources[r].version # 0
  BY DEF SourceIsListed
<1>3. CASE r \in Added(w)
  <2>1. work[w].configs[r] # 0 /\ r \notin Kept(w)
    BY <1>3 DEF Added
  <2>2. sources'[r].listed /\ sources'[r].version = work[w].configs[r] /\ sources'[r].id = sources[r].id + 1
    BY <1>1, <1>3
  <2>3. monitor'[r] = 0
    BY <1>1, <1>2, <2>1 DEF Gone
  <2> QED BY <2>1, <2>2, <2>3
<1>4. CASE r \in Kept(w)
  <2>1. /\ work[w].configs[r] # 0 /\ sources[r].listed
        /\ sources[r].version = work[w].configs[r]
    BY <1>4 DEF Kept, unchanged
  <2>2. r \notin Added(w) /\ r \notin Gone(w)
    BY <1>4 DEF Added, Gone
  <2> QED BY <1>1, <1>4, <2>1, <2>2
<1>5. CASE r \notin Added(w) /\ r \notin Kept(w)
  <2>1. work[w].configs[r] = 0
    BY <1>5 DEF Added
  <2>2. sources'[r] = [listed |-> FALSE, id |-> sources[r].id, version |-> 0]
    BY <1>1, <1>5
  <2>3. monitor'[r] = 0
    BY <1>1, <1>2, <1>5 DEF Gone
  <2> QED BY <1>5, <2>1, <2>2, <2>3
<1> QED BY <1>3, <1>4, <1>5

LEMMA InvScan ==
  ASSUME IInv, NEW w \in Workers, scan(w)
  PROVE  IInv'
<1> USE InvIs
<1>1. RestTyped' /\ \E starts \in SUBSET Sources, x \in Works : Scanned(w, starts, x)
  BY ScanIs
<1>2. PICK starts \in SUBSET Sources, x \in Works : Scanned(w, starts, x)
  BY <1>1
<1>3. /\ work[w].stage = "read" /\ work[w].locked /\ ~work[w].then
      /\ work' = [work EXCEPT ![w] = x]
      /\ UNCHANGED <<wanted, unheard, made, indexes>>
      /\ x.stage \in {"planned", "asked", "idle"}
  BY <1>2, FinishedType DEF Scanned, RebuildIsHeldOnce
<1>4. /\ x.stage = "planned" /\ x.locked
      \/ /\ x.stage \in {"asked", "idle"} /\ ~x.locked
         /\ Added(w) = {} /\ starts = {}
  <2>1. ~Finished(w).locked /\ Finished(w).stage \in {"asked", "idle"}
    BY FinishedType, NoneTypes DEF Finished, NoWork
  <2> QED BY <1>2, <2>1 DEF Scanned
<1>5. WorkTyped'
  BY <1>3, <1>4, TypeWork
<1>6. /\ \A v \in Workers \ {w} : work'[v] = work[v]
      /\ work'[w] = x /\ ~Starting(w)
  BY <1>3 DEF WorkTyped, Starting
<1>7. ASSUME NEW q \in Sources
      PROVE  /\ ~x.then /\ x.gone[q] = 0 /\ x.drop[q] \in {NoLeg, replay[q].leg}
             /\ "monitor" \in x.job[q].todo <=> q \in Added(w)
             /\ "replay" \in x.job[q].todo <=> q \in starts
             /\ x.job[q].source = (IF q \in Added(w) THEN sources[q].id + 1 ELSE 0)
             /\ x.job[q].monitor = 0 /\ x.job[q].leg = NoLeg
             /\ q \notin starts => x.job[q].index = 0
  BY <1>2 DEF Scanned, Plans
<1>8. ASSUME NEW q \in Sources
      PROVE  /\ replay'[q].index = replay[q].index /\ replay'[q].codec = replay[q].codec
             /\ replay'[q].leg # NoLeg => replay'[q].leg = replay[q].leg /\ q \notin Gone(w)
             /\ q \in starts => /\ replay[q].index # 0 /\ ~replay[q].starting
                                /\ replay'[q].starting /\ replay'[q].leg = NoLeg
                                /\ x.job[q].index = replay[q].index
             /\ q \notin starts => replay'[q].starting = replay[q].starting
  BY <1>2 DEF Scanned
<1>9. RebuildIsHeldOnce'
  <2>1. \A v \in Workers \ {w} : ~work[v].locked
    BY <1>3 DEF RebuildIsHeldOnce
  <2>2. ~x.then
    BY <1>2 DEF Scanned, Plans
  <2> QED BY <1>6, <2>1, <2>2 DEF RebuildIsHeldOnce
<1>10. indexes \in Nat /\ indexes' = indexes
  BY <1>3, ConstantsAssumption DEF RestTyped
<1>11. ASSUME NEW v \in Workers, NEW q \in Sources PROVE MonitorJob(v, q)' /\ LegJob(v, q)'
  <2>1. CASE v = w
    <3>1. CASE q \in Added(w)
      <4>1. x.stage = "planned" /\ x.locked
        BY <1>4, <3>1
      <4>2. sources'[q].listed /\ sources'[q].id = sources[q].id + 1 /\ monitor'[q] = 0
        BY <1>2, <3>1, ScannedSource
      <4>3. sources[q].id \in Nat
        BY DEF RestTyped
      <4> QED BY <1>6, <1>7, <1>8, <1>10, <2>1, <3>1, <4>1, <4>2, <4>3 DEF MonitorJob, LegJob, Starting, BufferFits
    <3>2. CASE q \notin Added(w)
      BY <1>6, <1>7, <1>8, <1>10, <2>1, <3>2 DEF MonitorJob, LegJob, BufferFits
    <3> QED BY <3>1, <3>2
  <2>2. CASE v # w
    <3>1. /\ work[v].job[q].source = 0 /\ work[v].job[q].monitor = 0
          /\ "monitor" \notin work[v].job[q].todo /\ work'[v] = work[v]
      BY <1>3, <1>6, <2>2, OneRebuilds
    <3>2. MonitorJob(v, q)'
      BY <3>1 DEF MonitorJob
    <3>3. LegJob(v, q)'
      BY <1>10, <1>11, <3>1 DEF LegJob, Starting
    <3> QED BY <3>2, <3>3
  <2> QED BY <2>1, <2>2
<1>12. LegIsRight'
  <2>1. ASSUME NEW q \in Sources, replay'[q].leg # NoLeg
        PROVE  /\ replay'[q].leg.monitor = monitor'[q] /\ monitor'[q] # 0
               /\ replay'[q].leg.codec = replay'[q].codec /\ replay'[q].leg.index = replay'[q].index
    <3>1. monitor'[q] = monitor[q]
      BY <1>2, <1>8, <2>1 DEF Scanned
    <3> QED BY <1>8, <2>1, <3>1 DEF LegIsRight
  <2> QED BY <2>1 DEF LegIsRight
<1>13. ASSUME NEW q \in Sources PROVE BufferHasItsStarter(q)'
  <2>1. CASE q \in starts
    <3>1. ASSUME NEW v \in Workers \ {w}
          PROVE  ~(Starting(v)' /\ work'[v].job[q].index = replay'[q].index)
      <4>1. Starters(q) = {} /\ replay[q].index # 0 /\ replay'[q].index = replay[q].index
        BY <1>8, <2>1 DEF BufferHasItsStarter
      <4> QED BY <1>6, <4>1 DEF Starters, Starting
    <3>2. x.stage = "planned"
      BY <1>4, <2>1
    <3>3. Starters(q)' = {w}
      BY <1>6, <1>8, <2>1, <3>1, <3>2 DEF Starters, Starting
    <3> QED BY <1>8, <2>1, <3>3 DEF BufferHasItsStarter
  <2>2. CASE q \notin starts
    <3>1. \A v \in Workers : replay[q].index # 0 =>
             (Starting(v)' /\ work'[v].job[q].index = replay[q].index
                <=> Starting(v) /\ work[v].job[q].index = replay[q].index)
      BY <1>6, <1>7, <2>2 DEF Starting
    <3>2. replay[q].starting => replay'[q].leg = NoLeg
      BY <1>8 DEF BufferHasItsStarter
    <3> QED BY <1>8, <2>2, <3>1, <3>2, StarterStays
  <2> QED BY <2>1, <2>2
<1>14. ASSUME NEW q \in Sources PROVE SourceIsListed(q)' /\ BufferFits(q)'
  <2>1. SourceIsListed(q)'
    BY <1>2, ScannedSource DEF SourceIsListed
  <2>2. BufferFits(q)'
    BY <1>8, <1>10 DEF BufferFits
  <2> QED BY <2>1, <2>2
<1>15. ASSUME NEW q \in Sources PROVE ListFollows(q)'
  <2>1. \A v \in Workers \ {w} : work[v].stage # "read"
    BY <1>3, OneRebuilds
  <2>2. \A v \in Workers : work'[v].stage # "read"
    BY <1>3, <1>6, <2>1
  <2>3. sources'[q].version = work[w].configs[q]
    BY <1>2, ScannedSource
  <2>4. CASE q \in unheard
    BY <1>3, <2>4 DEF ListFollows
  <2>5. CASE \E v \in Workers : work[v].stage = "asked"
    <3>1. PICK v \in Workers : work[v].stage = "asked"
      BY <2>5
    <3>2. v # w /\ work'[v] = work[v]
      BY <3>1, <1>3, <1>6
    <3> QED BY <3>1, <3>2 DEF ListFollows, Awaited
  <2>6. CASE \E v \in Workers : (work[v].stage = "deleted" \/ work[v].then) /\ q \in work[v].deleted
    <3>1. PICK v \in Workers : (work[v].stage = "deleted" \/ work[v].then) /\ q \in work[v].deleted
      BY <2>6
    <3>2. v # w /\ work'[v] = work[v]
      BY <3>1, <1>3, <1>6
    <3> QED BY <3>1, <3>2 DEF ListFollows, Awaited
  <2>7. CASE \E v \in Workers : work[v].stage = "read" /\ work[v].configs[q] = wanted[q]
    <3>1. work[w].configs[q] = wanted[q]
      BY <2>1, <2>7
    <3> QED BY <1>3, <2>2, <2>3, <3>1 DEF ListFollows
  <2> QED BY <1>3, <2>4, <2>5, <2>6, <2>7 DEF ListFollows, Awaited
<1> QED BY <1>1, <1>5, <1>9, <1>11, <1>12, <1>13, <1>14, <1>15, InvOf

(* What apply does, source by source. *)
Accepted(w) == {r \in Sources : listed(work[w].job[r], r)}
Now(w) == [r \in Sources |-> IF r \in Accepted(w) THEN work[w].job[r].monitor ELSE monitor[r]]
Same(w) == {r \in Sources : work[w].job[r].index # 0 /\ replay[r].index = work[w].job[r].index}
Placed(w) == {r \in Same(w) : is_current(work[w].job[r], r, Now(w)[r])}
Applied(w, x) ==
    /\ work[w].stage = "stopped" /\ \A r \in Sources : work[w].job[r].todo = {}
    /\ work' = [work EXCEPT ![w] = x]
    /\ x.stage = "applied" /\ x.locked = work[w].locked /\ x.then = work[w].then
    /\ x.deleted = work[w].deleted /\ x.drop = work[w].drop /\ x.gone = work[w].gone
    /\ monitor' = Now(w)
    /\ \A r \in Sources :
         /\ replay'[r].index = replay[r].index /\ replay'[r].codec = replay[r].codec
         /\ replay'[r].leg = (IF r \in Placed(w) THEN work[w].job[r].leg ELSE replay[r].leg)
         /\ r \in Same(w) => ~replay'[r].starting
         /\ r \notin Same(w) => replay'[r].starting = replay[r].starting
         /\ x.job[r].todo = {} /\ x.job[r].source = 0 /\ x.job[r].monitor = 0
         /\ x.job[r].index = work[w].job[r].index
         /\ x.job[r].leg = (IF r \in Placed(w) THEN replay[r].leg ELSE work[w].job[r].leg)
    /\ UNCHANGED <<wanted, unheard, sources, made, indexes>>

LEMMA ApplyIs ==
  ASSUME RestTyped, WorkTyped, NEW w \in Workers, apply(w)
  PROVE  (\E x \in Works : Applied(w, x)) /\ RestTyped'
<1> USE DEF buffer, counts
<1> DEFINE job == work[w].job
           legs == [r \in Sources |-> IF r \in Placed(w) THEN replay[r].leg ELSE job[r].leg]
           jobs == [r \in Sources |-> [NoJob EXCEPT !.index = job[r].index, !.leg = legs[r]]]
           x == [work[w] EXCEPT !.stage = "applied", !.job = jobs]
<1>1. /\ work[w].stage = "stopped" /\ \A r \in Sources : job[r].todo = {}
      /\ monitor' = Now(w)
      /\ on' = [r \in Sources |-> IF r \in Accepted(w) THEN job[r].clock ELSE on[r]]
      /\ replay' = [r \in Sources |->
            IF r \in Placed(w) THEN [replay[r] EXCEPT !.starting = FALSE, !.leg = job[r].leg]
            ELSE IF r \in Same(w) THEN [replay[r] EXCEPT !.starting = FALSE]
            ELSE replay[r]]
      /\ torn' = [r \in Sources |-> IF r \in Accepted(w) THEN torn[r]
                                    ELSE torn[r] \cup ({job[r].monitor} \ {0})]
      /\ UNCHANGED <<wanted, unheard, sources, made, broken, running, clock, recorded, buffer,
                     counts>>
  BY ZenonT(40) DEF apply, Accepted, Now, Same, Placed
<1>2. work' = [work EXCEPT ![w] = x]
  BY DEF apply, Accepted, Now, Same, Placed
<1>3. /\ work[w] \in Works /\ job \in [Sources -> Jobs]
      /\ \A r \in Sources : /\ job[r] \in Jobs /\ job[r].leg \in Legs /\ job[r].index \in 0..MaxIndexes
                             /\ job[r].monitor \in Nat /\ job[r].clock \in Nat
                             /\ replay[r] \in Replays /\ replay[r].leg \in Legs
  BY DEF WorkTyped, Works, Jobs, RestTyped, Replays
<1> HIDE DEF job
<1>4. \A r \in Sources : legs[r] \in Legs /\ legs[r] = IF r \in Placed(w) THEN replay[r].leg ELSE job[r].leg
  BY <1>3
<1> HIDE DEF legs
<1>5. ASSUME NEW r \in Sources
      PROVE  LET j == [NoJob EXCEPT !.index = job[r].index, !.leg = legs[r]]
             IN  /\ j \in Jobs /\ j.todo = {} /\ j.source = 0 /\ j.monitor = 0
                 /\ j.index = job[r].index /\ j.leg = legs[r]
  <2>1. NoJob \in Jobs /\ NoJob.todo = {} /\ NoJob.source = 0 /\ NoJob.monitor = 0
    BY NoneTypes DEF NoJob
  <2> QED BY <1>3, <1>4, <2>1 DEF Jobs
<1>6. /\ jobs \in [Sources -> Jobs]
      /\ \A r \in Sources : jobs[r] = [NoJob EXCEPT !.index = job[r].index, !.leg = legs[r]]
  <2>1. jobs = [r \in Sources |-> [NoJob EXCEPT !.index = job[r].index, !.leg = legs[r]]]
    OBVIOUS
  <2> HIDE DEF jobs
  <2> QED BY <1>5, <2>1
<1> HIDE DEF jobs
<1>7. /\ x \in Works /\ x.stage = "applied" /\ x.locked = work[w].locked /\ x.then = work[w].then
      /\ x.deleted = work[w].deleted /\ x.drop = work[w].drop /\ x.gone = work[w].gone /\ x.job = jobs
  BY <1>3, <1>6 DEF Works, Stages
<1> HIDE DEF x
<1>8. ASSUME NEW r \in Sources
      PROVE  /\ replay'[r] \in Replays
             /\ replay'[r].index = replay[r].index /\ replay'[r].codec = replay[r].codec
             /\ replay'[r].leg = (IF r \in Placed(w) THEN job[r].leg ELSE replay[r].leg)
             /\ r \in Same(w) => ~replay'[r].starting
             /\ r \notin Same(w) => replay'[r].starting = replay[r].starting
  <2>1. replay[r] \in Replays /\ job[r].leg \in Legs
    BY <1>3
  <2>2. Placed(w) \subseteq Same(w)
    BY DEF Placed
  <2>3. CASE r \in Placed(w)
    <3>1. replay'[r] = [replay[r] EXCEPT !.starting = FALSE, !.leg = job[r].leg]
      BY <1>1, <2>3
    <3>2. /\ replay'[r] \in Replays /\ replay'[r].starting = FALSE /\ replay'[r].leg = job[r].leg
          /\ replay'[r].index = replay[r].index /\ replay'[r].codec = replay[r].codec
      BY <2>1, <3>1 DEF Replays
    <3> QED BY <2>2, <2>3, <3>2
  <2>4. CASE r \notin Placed(w) /\ r \in Same(w)
    <3>1. replay'[r] = [replay[r] EXCEPT !.starting = FALSE]
      BY <1>1, <2>4
    <3>2. /\ replay'[r] \in Replays /\ replay'[r].starting = FALSE /\ replay'[r].leg = replay[r].leg
          /\ replay'[r].index = replay[r].index /\ replay'[r].codec = replay[r].codec
      BY <2>1, <3>1 DEF Replays
    <3> QED BY <2>4, <3>2
  <2>5. CASE r \notin Placed(w) /\ r \notin Same(w)
    <3>1. replay'[r] = replay[r]
      BY <1>1, <2>5
    <3> QED BY <2>1, <2>5, <3>1
  <2> QED BY <2>3, <2>4, <2>5
<1>9. RestTyped'
  <2>1. replay' \in [Sources -> Replays]
    BY <1>1, <1>8
  <2>2. monitor' \in [Sources -> Nat] /\ on' \in [Sources -> Nat]
    BY <1>1, <1>3 DEF Now, RestTyped, job
  <2>3. torn' \in [Sources -> SUBSET Nat] /\ running' = running
    BY <1>1, <1>3 DEF RestTyped
  <2> QED BY <1>1, <2>1, <2>2, <2>3 DEF RestTyped
<1>10. \A r \in Sources :
         /\ x.job[r].todo = {} /\ x.job[r].source = 0 /\ x.job[r].monitor = 0
         /\ x.job[r].index = job[r].index
         /\ x.job[r].leg = (IF r \in Placed(w) THEN replay[r].leg ELSE job[r].leg)
  BY <1>4, <1>5, <1>6, <1>7
<1>11. Applied(w, x)
  BY <1>1, <1>2, <1>7, <1>8, <1>10 DEF Applied, job
<1> QED BY <1>7, <1>9, <1>11

(* No monitor is turned away: the Work of a rebuild holds REBUILD until it is *)
(* applied, so that its sources are still the ones it was planned for.        *)
LEMMA AcceptedIs ==
  ASSUME IInv, NEW w \in Workers, NEW r \in Sources
  PROVE  /\ r \in Accepted(w) <=> work[w].job[r].monitor # 0
         /\ r \in Accepted(w) => /\ monitor[r] = 0 /\ sources[r].listed /\ work[w].locked
                                 /\ work[w].job[r].monitor = made[r]
<1>1. MonitorJob(w, r)
  BY InvIs
<1> QED BY <1>1 DEF MonitorJob, Accepted, listed

LEMMA InvApply ==
  ASSUME IInv, NEW w \in Workers, apply(w)
  PROVE  IInv'
<1> USE InvIs
<1>1. RestTyped' /\ \E x \in Works : Applied(w, x)
  BY ApplyIs
<1>2. PICK x \in Works : Applied(w, x)
  BY <1>1
<1>3. /\ work[w].stage = "stopped" /\ work' = [work EXCEPT ![w] = x]
      /\ x.stage = "applied" /\ x.locked = work[w].locked /\ x.then = work[w].then
      /\ x.deleted = work[w].deleted /\ x.drop = work[w].drop /\ x.gone = work[w].gone
      /\ monitor' = Now(w)
      /\ UNCHANGED <<wanted, unheard, sources, made, indexes>>
  BY <1>2 DEF Applied
<1>4. ASSUME NEW r \in Sources
      PROVE  /\ replay'[r].index = replay[r].index /\ replay'[r].codec = replay[r].codec
             /\ replay'[r].leg = (IF r \in Placed(w) THEN work[w].job[r].leg ELSE replay[r].leg)
             /\ r \in Same(w) => ~replay'[r].starting
             /\ r \notin Same(w) => replay'[r].starting = replay[r].starting
             /\ x.job[r].todo = {} /\ x.job[r].source = 0 /\ x.job[r].monitor = 0
             /\ x.job[r].index = work[w].job[r].index
             /\ x.job[r].leg = (IF r \in Placed(w) THEN replay[r].leg ELSE work[w].job[r].leg)
  BY <1>2 DEF Applied
<1>5. /\ \A v \in Workers \ {w} : work'[v] = work[v]
      /\ work'[w] = x /\ Starting(w) /\ ~Starting(w)'
  BY <1>3 DEF WorkTyped, Starting
<1>6. WorkTyped'
  BY <1>3, TypeWork DEF WorkTyped
<1>7. RebuildIsHeldOnce'
  BY <1>3, <1>5 DEF RebuildIsHeldOnce
<1>8. \A r \in Sources : monitor'[r] = IF r \in Accepted(w) THEN work[w].job[r].monitor ELSE monitor[r]
  BY <1>3 DEF Now
<1>9. ASSUME NEW v \in Workers, NEW r \in Sources PROVE MonitorJob(v, r)' /\ LegJob(v, r)'
  <2>1. CASE v = w
    <3>1. MonitorJob(v, r)'
      BY <1>4, <1>5, <2>1 DEF MonitorJob
    <3>2. LegJob(v, r)'
      BY <1>3, <1>4, <1>5, <2>1 DEF LegJob, BufferFits
    <3> QED BY <3>1, <3>2
  <2>2. CASE v # w
    <3>1. work'[v] = work[v]
      BY <1>5, <2>2
    <3>2. CASE r \in Accepted(w)
      <4>1. work[w].locked
        BY <3>2, AcceptedIs
      <4>2. work[v].job[r].source = 0 /\ work[v].job[r].monitor = 0 /\ "monitor" \notin work[v].job[r].todo
        BY <2>2, <4>1, OneRebuilds
      <4>3. MonitorJob(v, r)' BY <1>3, <1>9, <3>1, <4>2 DEF MonitorJob, Starting
      <4>4. LegJob(v, r)' BY <1>3, <1>9, <3>1 DEF LegJob, Starting
      <4> QED BY <4>3, <4>4
    <3>3. CASE r \notin Accepted(w)
      <4>1. monitor'[r] = monitor[r]
        BY <1>8, <3>3
      <4>2. MonitorJob(v, r)' BY <1>3, <1>9, <3>1, <4>1 DEF MonitorJob, Starting
      <4>3. LegJob(v, r)' BY <1>3, <1>9, <3>1 DEF LegJob, Starting
      <4> QED BY <4>2, <4>3
    <3> QED BY <3>2, <3>3
  <2> QED BY <2>1, <2>2
<1>10. LegIsRight'
  <2>1. ASSUME NEW r \in Sources, replay'[r].leg # NoLeg
        PROVE  /\ replay'[r].leg.monitor = monitor'[r] /\ monitor'[r] # 0
               /\ replay'[r].leg.codec = replay'[r].codec /\ replay'[r].leg.index = replay'[r].index
    <3>1. CASE r \in Placed(w)
      <4>1. /\ r \in Same(w) /\ work[w].job[r].leg # NoLeg
            /\ work[w].job[r].leg.monitor = monitor'[r] /\ replay[r].codec = work[w].job[r].codec
        BY <1>3, <3>1 DEF Placed, is_current
      <4>2. replay[r].index = work[w].job[r].index
        BY <4>1 DEF Same
      <4>3. LegJob(w, r)
        OBVIOUS
      <4> QED BY <1>4, <1>5, <3>1, <4>1, <4>2, <4>3 DEF LegJob
    <3>2. CASE r \notin Placed(w)
      <4>1. replay'[r].leg = replay[r].leg
        BY <1>4, <3>2
      <4>2. monitor[r] # 0
        BY <2>1, <4>1 DEF LegIsRight
      <4>3. monitor'[r] = monitor[r]
        BY <1>8, <4>2, AcceptedIs
      <4> QED BY <1>4, <2>1, <4>1, <4>3 DEF LegIsRight
    <3> QED BY <3>1, <3>2
  <2> QED BY <2>1 DEF LegIsRight
<1>11. ASSUME NEW r \in Sources PROVE BufferHasItsStarter(r)'
  <2>1. CASE r \in Same(w)
    <3>1. w \in Starters(r)
      BY <1>5, <2>1 DEF Same, Starters
    <3>2. Starters(r) = {w}
      BY <3>1 DEF BufferHasItsStarter
    <3>3. ASSUME NEW v \in Workers
          PROVE  ~(Starting(v)' /\ work'[v].job[r].index = replay'[r].index /\ replay'[r].index # 0)
      BY <1>4, <1>5, <3>2 DEF Starters, Starting
    <3>4. Starters(r)' = {}
      BY <3>3 DEF Starters
    <3> QED BY <1>4, <2>1, <3>4 DEF BufferHasItsStarter
  <2>2. CASE r \notin Same(w)
    <3>1. \A v \in Workers : replay[r].index # 0 =>
             (Starting(v)' /\ work'[v].job[r].index = replay[r].index
                <=> Starting(v) /\ work[v].job[r].index = replay[r].index)
      BY <1>5, <2>2 DEF Starting, Same
    <3>2. replay[r].starting => replay'[r].leg = NoLeg
      BY <1>4, <2>2 DEF BufferHasItsStarter, Placed
    <3> QED BY <1>4, <2>2, <3>1, <3>2, StarterStays
  <2> QED BY <2>1, <2>2
<1>12. ASSUME NEW r \in Sources PROVE SourceIsListed(r)' /\ BufferFits(r)' /\ ListFollows(r)'
  <2>1. SourceIsListed(r)'
    BY <1>3, <1>8, AcceptedIs DEF SourceIsListed
  <2>2. BufferFits(r)'
    <3>1. CASE r \in Placed(w)
      <4>1. replay[r].index # 0 /\ work[w].job[r].leg # NoLeg
        BY <3>1 DEF Placed, Same, is_current
      <4>2. work[w].job[r].leg.index # 0
        BY <4>1 DEF LegJob
      <4> QED BY <1>3, <1>4, <3>1, <4>1, <4>2 DEF BufferFits
    <3>2. CASE r \notin Placed(w)
      <4>1. replay'[r].leg = replay[r].leg
        BY <1>4, <3>2
      <4>2. replay[r].index = 0 => ~replay'[r].starting
        BY <1>4 DEF BufferFits
      <4> QED BY <1>3, <1>4, <4>1, <4>2 DEF BufferFits
    <3> QED BY <3>1, <3>2
  <2>3. ListFollows(r)'
    BY <1>3, <1>5, ListStillFollows
  <2> QED BY <2>1, <2>2, <2>3
<1> QED BY <1>1, <1>6, <1>7, <1>9, <1>10, <1>11, <1>12, InvOf

LEMMA InvNext == IInv /\ [Next]_vars => IInv'
<1> SUFFICES ASSUME IInv, [Next]_vars PROVE IInv'
  OBVIOUS
<1>1. CASE \E w \in Workers, r \in Sources, version \in 1..MaxEdits : EditSource(w, r, version)
  BY <1>1, InvRequests
<1>2. CASE \E w \in Workers, r \in Sources, c \in Codecs : set_replay(w, r, c)
  BY <1>2, InvSetReplay
<1>3. CASE \E w \in Workers, r \in Sources : DeleteSource(w, r) \/ RemoveReplay(w, r)
  BY <1>3, InvRequests, InvRemoveReplay
<1>4. CASE \E w \in Workers : DropRequest(w) \/ set_clock(w) \/ ReadConfigs(w) \/ Run(w)
  <2>0. PICK w \in Workers : DropRequest(w) \/ set_clock(w) \/ ReadConfigs(w) \/ Run(w)
    BY <1>4
  <2>1. CASE DropRequest(w) \/ set_clock(w)
    BY <2>1, InvRequests
  <2>2. CASE ReadConfigs(w)
    BY <2>2, InvReadConfigs
  <2>3. CASE Run(w)
    BY <2>3, InvScan, InvRunDrops, InvApply, InvDropRejected, InvStartMonitor, InvStartReplay DEF Run
  <2> QED BY <2>0, <2>1, <2>2, <2>3
<1>5. CASE Recover
  BY <1>5, InvRecover
<1>6. CASE \E r \in Sources : \/ \E m \in torn[r] : TearDown(r, m)
                              \/ MonitorFails(r) \/ LegFails(r)
                              \/ \E leg \in LiveLegs(r) : SegmentCloses(r, leg)
                              \/ StartRecording(r) \/ StopRecording(r)
  BY <1>6, InvPipelines, InvTearDown
<1>7. CASE UNCHANGED vars
  <2>1. RestTyped'
    BY <1>7, InvIs DEF RestTyped, vars, life, pipes, buffer, counts
  <2> QED BY <1>7, <2>1, InvSame DEF vars, life, pipes, buffer
<1>8. CASE Next
  BY <1>8, <1>1, <1>2, <1>3, <1>4, <1>5, <1>6 DEF Next
<1> QED BY <1>7, <1>8

LEMMA Invariant == SafetySpec => []IInv
  BY InvInit, InvNext, PTL DEF SafetySpec

-----------------------------------------------------------------------------
(* What the invariant shows. *)

(* Each variable keeps its type, and a rebuild that has read the configured   *)
(* sources holds REBUILD.                                                     *)
THEOREM TypeCorrect == SafetySpec => []TypeOK
<1>1. IInv => TypeOK
  BY DEF IInv
<1> QED BY Invariant, <1>1, PTL

LEMMA ListCurrent == IInv => SourcesAreCurrent
<1> SUFFICES ASSUME IInv,
                    \A w \in Workers : work[w].stage \notin {"deleted", "asked", "read"} /\ ~work[w].then,
                    NEW r \in Sources \ unheard
             PROVE  (sources[r].listed <=> wanted[r] # 0) /\ sources[r].version = wanted[r]
  BY DEF SourcesAreCurrent, ListIsCurrent, IInv
<1>1. ListFollows(r) /\ SourceIsListed(r)
  BY InvIs
<1>2. sources[r].version = wanted[r]
  BY <1>1 DEF ListFollows, Awaited
<1> QED BY <1>1, <1>2 DEF SourceIsListed

(* The list of sources never goes back to an older configuration: when no     *)
(* rebuild is to come or has still to put its list in place, it is of what is *)
(* configured.                                                                *)
THEOREM ListNeverGoesBack == SafetySpec => []SourcesAreCurrent
  BY Invariant, ListCurrent, PTL

LEMMA OneStart == IInv => OneStartPerBuffer
<1> SUFFICES ASSUME IInv, NEW r \in Sources
             PROVE  IF replay[r].starting
                    THEN Cardinality(Starters(r)) = 1 /\ replay[r].leg = NoLeg
                    ELSE Starters(r) = {}
  BY DEF OneStartPerBuffer, Starters
<1>1. BufferHasItsStarter(r)
  BY InvIs
<1>2. \A w : Cardinality({w}) = 1
  BY FS_Singleton
<1> QED BY <1>1, <1>2 DEF BufferHasItsStarter

(* A buffer is starting just while one Work is to start its leg: it is never  *)
(* left starting for ever, nor started twice.                                 *)
THEOREM OneWorkStartsABuffer == SafetySpec => []OneStartPerBuffer
  BY Invariant, OneStart, PTL

(* A buffer's leg is of its source's present monitor, in its index and codec: *)
(* one that went stale as it started is never put in place.                   *)
THEOREM LegsAreRight == SafetySpec => []LegIsRight
<1>1. IInv => LegIsRight
  BY DEF IInv
<1> QED BY Invariant, <1>1, PTL

-----------------------------------------------------------------------------
(* What the rest of the node may rely on. *)

(* Monitors a Work has started and not yet put in place don't count.          *)
Underway(r) == {w \in Workers : work[w].job[r].monitor # 0}
Ready == [r \in Sources |-> made[r] - Cardinality(Underway(r))]

LEMMA ReadyIs ==
  ASSUME IInv, NEW r \in Sources
  PROVE  /\ Underway(r) = {} => Ready[r] = made[r]
         /\ \A w \in Workers : work[w].job[r].monitor # 0 =>
               Underway(r) = {w} /\ Ready[r] = made[r] - 1 /\ work[w].job[r].monitor = made[r]
<1> USE InvIs
<1>0. made[r] \in Nat
  BY DEF RestTyped
<1>1. Underway(r) = {} => Ready[r] = made[r]
  <2>1. SUFFICES ASSUME Underway(r) = {} PROVE Ready[r] = made[r]
    OBVIOUS
  <2>2. Cardinality(Underway(r)) = 0
    BY <2>1, FS_EmptySet
  <2> QED BY <1>0, <2>2 DEF Ready
<1>2. ASSUME NEW w \in Workers, work[w].job[r].monitor # 0
      PROVE  Underway(r) = {w} /\ Ready[r] = made[r] - 1 /\ work[w].job[r].monitor = made[r]
  <2>1. work[w].locked /\ work[w].job[r].monitor = made[r]
    BY <1>2 DEF MonitorJob
  <2>2. Underway(r) = {w}
    BY <1>2, <2>1, OneRebuilds DEF Underway
  <2>3. Cardinality(Underway(r)) = 1
    BY <2>2, FS_Singleton
  <2> QED BY <2>1, <2>2, <2>3 DEF Ready
<1> QED BY <1>1, <1>2

LEMMA ReadyStays ==
  ASSUME UNCHANGED made,
         \A v \in Workers, r \in Sources :
            work'[v].job[r].monitor # 0 <=> work[v].job[r].monitor # 0
  PROVE  UNCHANGED Ready
<1>1. ASSUME NEW r \in Sources PROVE Underway(r)' = Underway(r)
  BY DEF Underway
<1> QED BY <1>1 DEF Ready

(* A task whose Work starts nothing has no monitor under way. *)
LEMMA NoneUnderway ==
  ASSUME IInv, NEW w \in Workers, ~Starting(w), NEW r \in Sources
  PROVE  work[w].job[r].monitor = 0
<1>1. MonitorJob(w, r)
  BY InvIs
<1> QED BY <1>1 DEF MonitorJob

(* The monitors under way stay the same. *)
SameJobs ==
    \A v \in Workers, r \in Sources : work'[v].job[r].monitor = work[v].job[r].monitor

LEMMA JobsStayIdle ==
  ASSUME IInv, NEW w \in Workers, ~Starting(w),
         \A v \in Workers \ {w} : work'[v] = work[v],
         \A r \in Sources : work'[w].job[r].monitor = 0
  PROVE  SameJobs
  BY NoneUnderway DEF SameJobs

(* The steps that monitors or their pipelines take. *)
LEMMA Steps ==
  ASSUME IInv, IInv', [Next]_vars
  PROVE  \/ \E w \in Workers : scan(w) \/ apply(w) \/ \E r \in Sources : StartMonitor(w, r)
         \/ \E r \in Sources : MonitorFails(r) \/ \E m \in torn[r] : TearDown(r, m)
         \/ UNCHANGED <<monitor, made, broken, pipes>> /\ SameJobs
<1> USE InvIs DEF life, pipes
<1> DEFINE Unseen == UNCHANGED <<monitor, made, broken, pipes>> /\ SameJobs
<1>0. ASSUME NEW w \in Workers, ~Starting(w), ~Starting(w)', UNCHANGED <<monitor, made, broken, pipes>>,
             \A v \in Workers \ {w} : work'[v] = work[v]
      PROVE  Unseen
  <2>1. ASSUME NEW r \in Sources PROVE work'[w].job[r].monitor = 0
    <3>1. MonitorJob(w, r)'
      BY DEF IInv
    <3> QED BY <1>0, <3>1 DEF MonitorJob
  <2> QED BY <1>0, <2>1, JobsStayIdle
<1>1. ASSUME UNCHANGED <<monitor, made, broken, pipes, work>> PROVE Unseen
  BY <1>1 DEF SameJobs
<1>2. ASSUME NEW w \in Workers, NEW r \in Sources, NEW version \in 1..MaxEdits,
             EditSource(w, r, version)
      PROVE  Unseen
  <2>1. /\ work[w].stage = "idle" /\ UNCHANGED <<monitor, made, broken, pipes>>
        /\ \/ UNCHANGED work
           \/ work' = [work EXCEPT ![w].stage = "asked"]
    BY <1>2 DEF EditSource
  <2>2. CASE work' = [work EXCEPT ![w].stage = "asked"]
    <3>1. work'[w].stage = "asked" /\ \A v \in Workers \ {w} : work'[v] = work[v]
      BY <2>2 DEF WorkTyped, Works
    <3> QED BY <2>1, <3>1, <1>0 DEF Starting
  <2> QED BY <1>1, <2>1, <2>2
<1>3. ASSUME NEW w \in Workers, NEW r \in Sources, DeleteSource(w, r) PROVE Unseen
  <2>1. /\ work[w].stage = "idle" /\ UNCHANGED <<monitor, made, broken, pipes>>
        /\ work' = [work EXCEPT ![w].stage = "deleted", ![w].deleted = {r}]
    BY <1>3 DEF DeleteSource
  <2>2. work'[w].stage = "deleted" /\ \A v \in Workers \ {w} : work'[v] = work[v]
    BY <2>1 DEF WorkTyped, Works
  <2> QED BY <2>1, <2>2, <1>0 DEF Starting
<1>4. ASSUME NEW w \in Workers, NEW r \in Sources, RemoveReplay(w, r) PROVE Unseen
  <2> DEFINE x == IF replay[r].index = 0 THEN [NoWork EXCEPT !.stage = "asked"]
                  ELSE [NoWork EXCEPT !.stage = "planned", !.then = TRUE,
                                      !.deleted = work[w].deleted,
                                      !.drop[r] = replay[r].leg, !.gone[r] = replay[r].index]
  <2>1. /\ work[w].stage \in {"idle", "deleted"} /\ UNCHANGED <<monitor, made, broken, pipes>>
        /\ work' = [work EXCEPT ![w] = x]
    BY <1>4 DEF RemoveReplay
  <2>2. \A q \in Sources : x.job[q].monitor = 0
    BY DEF NoWork, NoJob
  <2> HIDE DEF x
  <2>3. work'[w] = x /\ \A v \in Workers \ {w} : work'[v] = work[v]
    BY <2>1 DEF WorkTyped
  <2> QED BY <2>1, <2>2, <2>3, JobsStayIdle DEF Starting
<1>5. ASSUME NEW w \in Workers, NEW r \in Sources, NEW c \in Codecs, set_replay(w, r, c) PROVE Unseen
  <2>1. PICK starts \in SUBSET Sources, x \in Works : ReplaySet(w, r, starts, x)
    BY <1>5, NoIndexNoLeg, SetReplayIs
  <2>2. work[w].stage = "idle" /\ UNCHANGED <<monitor, made, broken, pipes>>
    BY <2>1 DEF ReplaySet
  <2>3. CASE work' = [work EXCEPT ![w] = x] /\ Plans(x, {}, starts)
    <3>1. work'[w] = x /\ \A v \in Workers \ {w} : work'[v] = work[v]
      BY <2>3 DEF WorkTyped
    <3>2. \A q \in Sources : x.job[q].monitor = 0
      BY <2>3 DEF Plans
    <3> QED BY <2>2, <3>1, <3>2, JobsStayIdle DEF Starting
  <2> QED BY <1>1, <2>1, <2>2, <2>3 DEF ReplaySet
<1>6. ASSUME NEW w \in Workers, DropRequest(w) PROVE Unseen
  <2>1. /\ UNCHANGED <<monitor, made, broken, pipes>>
        /\ \/ work[w].stage = "deleted" /\ work' = [work EXCEPT ![w] = NoWork]
           \/ work' = [work EXCEPT ![w] = [work[w] EXCEPT !.then = FALSE]]
    BY <1>6 DEF DropRequest
  <2>2. CASE work[w].stage = "deleted" /\ work' = [work EXCEPT ![w] = NoWork]
    <3>1. work'[w] = NoWork /\ \A v \in Workers \ {w} : work'[v] = work[v]
      BY <2>2 DEF WorkTyped
    <3> QED BY <2>1, <2>2, <3>1, <1>0 DEF Starting, NoWork
  <2>3. CASE work' = [work EXCEPT ![w] = [work[w] EXCEPT !.then = FALSE]]
    <3>1. \A v \in Workers : work'[v].job = work[v].job
      BY <2>3 DEF WorkTyped, Works
    <3> QED BY <2>1, <3>1 DEF SameJobs
  <2> QED BY <2>1, <2>2, <2>3
<1>7. ASSUME NEW w \in Workers, set_clock(w) \/ ReadConfigs(w) PROVE Unseen
  <2>1. /\ UNCHANGED <<monitor, made, broken, pipes>> /\ ~Starting(w)
    BY <1>7 DEF set_clock, ReadConfigs, Starting
  <2>2. ~Starting(w)' /\ \A v \in Workers \ {w} : work'[v] = work[v]
    BY <1>7 DEF set_clock, ReadConfigs, Starting, WorkTyped, Works
  <2> QED BY <2>1, <2>2, <1>0
<1>8. ASSUME Recover PROVE Unseen
  <2>1. Recovery \in Workers /\ UNCHANGED <<monitor, made, broken, pipes>> /\ ~Starting(Recovery)
    BY <1>8 DEF Recover, Starting, Workers
  <2>2. ~Starting(Recovery)' /\ \A v \in Workers \ {Recovery} : work'[v] = work[v]
    BY <1>8, <2>1 DEF Recover, Starting, WorkTyped, Works
  <2> QED BY <2>1, <2>2, <1>0
<1>9. ASSUME NEW w \in Workers, RunDrops(w) PROVE Unseen
  <2>1. /\ UNCHANGED <<monitor, made, broken, pipes>>
        /\ work' = [work EXCEPT ![w].stage = "stopped",
                                ![w].drop = [r \in Sources |-> NoLeg],
                                ![w].gone = [r \in Sources |-> 0]]
    BY <1>9 DEF RunDrops
  <2>2. \A v \in Workers : work'[v].job = work[v].job
    BY <2>1 DEF WorkTyped, Works
  <2> QED BY <2>1, <2>2 DEF SameJobs
<1>10. ASSUME NEW w \in Workers, DropRejected(w) PROVE Unseen
  <2>1. UNCHANGED <<monitor, made, broken, pipes>> /\ ~Starting(w) /\ work' = [work EXCEPT ![w] = Finished(w)]
    BY <1>10 DEF DropRejected, Starting
  <2>2. work'[w] = Finished(w) /\ \A v \in Workers \ {w} : work'[v] = work[v]
    BY <2>1, FinishedType DEF WorkTyped
  <2>3. ~Starting(w)'
    BY <2>2, FinishedType DEF Starting
  <2> QED BY <2>1, <2>2, <2>3, <1>0
<1>12. ASSUME NEW w \in Workers, NEW r \in Sources,
              StartMonitorFails(w, r) \/ StartReplay(w, r) \/ StartReplayFails(w, r) \/ ClearReplay(w, r)
       PROVE  Unseen
  <2>1. UNCHANGED <<monitor, made, broken, pipes>>
    BY <1>12 DEF StartMonitorFails, StartReplay, StartReplayFails, ClearReplay
  <2>2. \A v \in Workers, q \in Sources : work'[v].job[q].monitor = work[v].job[q].monitor
    <3>1. work[w] \in Works /\ work[w].job \in [Sources -> Jobs] /\ work[w].job[r] \in Jobs
      BY DEF WorkTyped, Works
    <3>2. ASSUME NEW j \in Jobs, j.monitor = work[w].job[r].monitor,
                 work' = [work EXCEPT ![w] = [work[w] EXCEPT !.job = [work[w].job EXCEPT ![r] = j]]]
          PROVE  \A v \in Workers, q \in Sources : work'[v].job[q].monitor = work[v].job[q].monitor
      BY <3>1, <3>2 DEF WorkTyped, Works
    <3>3. CASE StartMonitorFails(w, r)
      <4> DEFINE j == [work[w].job[r] EXCEPT !.todo = work[w].job[r].todo \ {"monitor"}]
      <4>1. j \in Jobs /\ j.monitor = work[w].job[r].monitor
        BY <3>1 DEF Jobs
      <4>2. work' = [work EXCEPT ![w] = [work[w] EXCEPT !.job = [work[w].job EXCEPT ![r] = j]]]
        BY <3>1, <3>3 DEF StartMonitorFails
      <4> HIDE DEF j
      <4> QED BY <3>2, <4>1, <4>2
    <3>4. CASE StartReplayFails(w, r) \/ ClearReplay(w, r)
      <4> DEFINE j == [work[w].job[r] EXCEPT !.todo = {}]
      <4>1. j \in Jobs /\ j.monitor = work[w].job[r].monitor
        BY <3>1 DEF Jobs
      <4>2. work' = [work EXCEPT ![w] = [work[w] EXCEPT !.job = [work[w].job EXCEPT ![r] = j]]]
        BY <3>1, <3>4 DEF StartReplayFails, ClearReplay
      <4> HIDE DEF j
      <4> QED BY <3>2, <4>1, <4>2
    <3>5. CASE StartReplay(w, r)
      <4> DEFINE m == resolve(work[w].job[r])
                 leg == [index |-> work[w].job[r].index, codec |-> work[w].job[r].codec,
                         monitor |-> m, failed |-> FALSE]
                 j == [work[w].job[r] EXCEPT !.todo = {}, !.leg = leg]
      <4>1. work' = [work EXCEPT ![w].job[r].todo = {}, ![w].job[r].leg = leg]
        BY <3>5 DEF StartReplay
      <4>2. m \in Nat
        BY <3>1 DEF resolve, Jobs
      <4> HIDE DEF m
      <4>3. leg \in Legs
        BY <3>1, <4>2 DEF Legs, Jobs
      <4> HIDE DEF leg
      <4>4. j \in Jobs /\ j.monitor = work[w].job[r].monitor
        BY <3>1, <4>3 DEF Jobs
      <4>5. work' = [work EXCEPT ![w] = [work[w] EXCEPT !.job = [work[w].job EXCEPT ![r] = j]]]
        BY <3>1, <4>1
      <4> HIDE DEF j
      <4> QED BY <3>2, <4>4, <4>5
    <3> QED BY <1>12, <3>3, <3>4, <3>5
  <2> QED BY <2>1, <2>2 DEF SameJobs
<1>13. ASSUME NEW r \in Sources,
              \/ LegFails(r) \/ \E leg \in LiveLegs(r) : SegmentCloses(r, leg)
              \/ StartRecording(r) \/ StopRecording(r)
       PROVE  Unseen
  BY <1>1, <1>13 DEF LegFails, SegmentCloses, StartRecording, StopRecording
<1>14. ASSUME UNCHANGED vars PROVE Unseen
  BY <1>1, <1>14 DEF vars
<1>15. ASSUME NEW w \in Workers, Run(w)
       PROVE  scan(w) \/ apply(w) \/ (\E r \in Sources : StartMonitor(w, r)) \/ Unseen
  BY <1>9, <1>10, <1>12, <1>15 DEF Run
<1> HIDE DEF Unseen
<1>16. \/ \E w \in Workers : scan(w) \/ apply(w) \/ \E r \in Sources : StartMonitor(w, r)
       \/ \E r \in Sources : MonitorFails(r) \/ \E m \in torn[r] : TearDown(r, m)
       \/ Unseen
  <2>1. CASE \E w \in Workers, r \in Sources, version \in 1..MaxEdits : EditSource(w, r, version)
    BY <1>2, <2>1
  <2>2. CASE \E w \in Workers, r \in Sources, c \in Codecs : set_replay(w, r, c)
    BY <1>5, <2>2
  <2>3. CASE \E w \in Workers, r \in Sources : DeleteSource(w, r) \/ RemoveReplay(w, r)
    BY <1>3, <1>4, <2>3
  <2>4. CASE \E w \in Workers : DropRequest(w) \/ set_clock(w) \/ ReadConfigs(w) \/ Run(w)
    BY <1>6, <1>7, <1>15, <2>4
  <2>5. CASE \E r \in Sources : \/ \E m \in torn[r] : TearDown(r, m)
                                \/ MonitorFails(r) \/ LegFails(r)
                                \/ \E leg \in LiveLegs(r) : SegmentCloses(r, leg)
                                \/ StartRecording(r) \/ StopRecording(r)
    BY <1>13, <2>5
  <2>6. CASE Next
    BY <1>8, <2>1, <2>2, <2>3, <2>4, <2>5, <2>6 DEF Next
  <2> QED BY <1>14, <2>6
<1> QED BY <1>16 DEF Unseen

(* A monitor just started isn't ready yet. *)
LEMMA StartIsUnseen ==
  ASSUME IInv, NEW w \in Workers, NEW r \in Sources, StartMonitor(w, r)
  PROVE  UNCHANGED <<monitor, broken, Ready>>
<1> USE InvIs
<1>1. /\ UNCHANGED <<monitor, broken>> /\ made' = [made EXCEPT ![r] = made[r] + 1]
      /\ work' = [work EXCEPT ![w].job[r].todo = @ \ {"monitor"}, ![w].job[r].monitor = made[r] + 1]
      /\ work[w].stage = "stopped" /\ work[w].job[r].monitor = 0 /\ work[w].locked
  BY DEF StartMonitor, MonitorJob
<1>2. made[r] \in Nat /\ work[w].job[r].source # 0 /\ made'[r] = made[r] + 1
      /\ \A q \in Sources \ {r} : made'[q] = made[q]
  BY <1>1 DEF RestTyped, StartMonitor, MonitorJob
<1>3. /\ \A v \in Workers \ {w} : work'[v] = work[v]
      /\ work'[w].job[r].monitor = made[r] + 1
      /\ \A q \in Sources \ {r} : work'[w].job[q] = work[w].job[q]
  BY <1>1 DEF WorkTyped, Works, Jobs
<1>4. Underway(r) = {}
  BY <1>1, OneRebuilds DEF Underway
<1>5. Ready[r] = made[r]
  BY <1>4, ReadyIs
<1>6. Underway(r)' = {w}
  BY <1>2, <1>3, <1>4 DEF Underway
<1>7. Cardinality(Underway(r)') = 1
  BY <1>6, FS_Singleton
<1>8. Ready'[r] = Ready[r]
  BY <1>2, <1>5, <1>7 DEF Ready
<1>9. ASSUME NEW q \in Sources \ {r} PROVE Ready'[q] = Ready[q]
  <2>1. Underway(q)' = Underway(q)
    BY <1>3 DEF Underway
  <2> QED BY <1>2, <2>1 DEF Ready
<1>10. \A q \in Sources : Ready'[q] = Ready[q]
  BY <1>8, <1>9
<1>11. Ready' = [q \in Sources |-> Ready'[q]] /\ Ready = [q \in Sources |-> Ready[q]]
  BY DEF Ready
<1>12. Ready' = Ready
  BY <1>10, <1>11
<1> QED BY <1>1, <1>12

LEMMA MonitorSteps ==
  ASSUME IInv, IInv', [Next]_vars
  PROVE  \/ \E w \in Workers : scan(w) \/ apply(w)
         \/ \E r \in Sources : MonitorFails(r)
         \/ UNCHANGED <<monitor, broken, Ready>>
<1>1. CASE \E w \in Workers, r \in Sources : StartMonitor(w, r)
  BY <1>1, StartIsUnseen
<1>2. CASE \E r \in Sources : \E m \in torn[r] : TearDown(r, m)
  BY <1>2, ReadyStays DEF TearDown
<1>3. CASE UNCHANGED <<monitor, made, broken, pipes>> /\ SameJobs
  BY <1>3, ReadyStays DEF SameJobs
<1> QED BY <1>1, <1>2, <1>3, Steps

(* Only rebuilds take monitors, those of the sources that go or change, and   *)
(* only applying a Work puts one in place, where there is none.               *)
LEMMA ScanTakes ==
  ASSUME IInv, NEW w \in Workers, scan(w)
  PROVE  /\ work[w].stage = "read"
         /\ monitor' = [r \in Sources |-> IF r \in Gone(w) THEN 0 ELSE monitor[r]]
         /\ broken' = broken \ Gone(w)
         /\ UNCHANGED Ready
<1> USE InvIs
<1>1. PICK starts \in SUBSET Sources, x \in Works : Scanned(w, starts, x)
  BY ScanIs
<1>2. /\ work[w].stage = "read" /\ UNCHANGED made /\ broken' = broken \ Gone(w)
      /\ work' = [work EXCEPT ![w] = x]
      /\ \A r \in Sources : x.job[r].monitor = 0
  BY <1>1 DEF Scanned, Plans
<1>3. monitor' = [r \in Sources |-> IF r \in Gone(w) THEN 0 ELSE monitor[r]]
  BY Zenon DEF scan, Gone, Kept
<1>4. work'[w] = x /\ \A v \in Workers \ {w} : work'[v] = work[v]
  BY <1>2 DEF WorkTyped
<1>5. SameJobs
  BY <1>2, <1>4, JobsStayIdle DEF Starting
<1>6. UNCHANGED Ready
  BY <1>2, <1>5, ReadyStays DEF SameJobs
<1> QED BY <1>2, <1>3, <1>6

LEMMA KeepsMonitor ==
  ASSUME IInv, IInv', [Next]_vars
  PROVE  \A r \in Sources : r \in recorded /\ is_healthy(r) /\ monitor'[r] # monitor[r]
            => \E w \in Workers : /\ work[w].stage = "read"
                                  /\ work[w].configs[r] # sources[r].version
<1> USE InvIs
<1> SUFFICES ASSUME NEW r \in Sources, r \in recorded, is_healthy(r), monitor'[r] # monitor[r]
             PROVE  \E w \in Workers : /\ work[w].stage = "read"
                                       /\ work[w].configs[r] # sources[r].version
  OBVIOUS
<1>1. CASE UNCHANGED monitor
  BY <1>1
<1>2. CASE \E q \in Sources : MonitorFails(q)
  BY <1>2 DEF MonitorFails
<1>3. ASSUME NEW w \in Workers, apply(w) PROVE FALSE
  <2>1. PICK x \in Works : Applied(w, x)
    BY <1>3, ApplyIs
  <2>2. monitor' = Now(w)
    BY <2>1 DEF Applied
  <2>3. r \in Accepted(w)
    BY <2>2 DEF Now
  <2>4. monitor[r] = 0
    BY <2>3, AcceptedIs
  <2> QED BY <2>4 DEF is_healthy
<1>4. ASSUME NEW w \in Workers, scan(w)
      PROVE  work[w].stage = "read" /\ work[w].configs[r] # sources[r].version
  <2>1. work[w].stage = "read" /\ r \in Gone(w)
    BY <1>4, ScanTakes
  <2>2. sources[r].listed /\ r \notin Kept(w)
    BY <2>1 DEF Gone
  <2>3. ~should_migrate(r)
    BY DEF should_migrate
  <2>4. work[w].configs[r] = 0 \/ ~unchanged(r, work[w].configs[r])
    BY <2>2 DEF Kept
  <2>5. sources[r].version # 0
    BY <2>2 DEF SourceIsListed
  <2>6. work[w].configs[r] # sources[r].version
    BY <2>3, <2>4, <2>5 DEF unchanged
  <2> QED BY <2>1, <2>6
<1> QED BY <1>1, <1>2, <1>3, <1>4, MonitorSteps

(* No rebuild takes a healthy monitor that is recorded or played, but one     *)
(* that read another version of its source: a new clock waits.                *)
THEOREM RecordedIsNotDisturbed == SafetySpec => RecordedKeepsMonitor
<1>1. IInv /\ IInv' /\ [Next]_vars =>
        [\A r \in Sources : r \in recorded /\ is_healthy(r) /\ monitor'[r] # monitor[r]
           => \E w \in Workers : /\ work[w].stage = "read"
                                 /\ work[w].configs[r] # sources[r].version]_vars
  BY KeepsMonitor
<1> QED BY Invariant, <1>1, PTL DEF SafetySpec, RecordedKeepsMonitor

LEMMA LifeSteps ==
  ASSUME IInv, IInv', [Next]_vars
  PROVE  \/ \E S \in SUBSET Sources :
               \/ /\ \A r \in S : monitor[r] = 0
                  /\ Ready' = [r \in Sources |-> IF r \in S THEN Ready[r] + 1 ELSE Ready[r]]
                  /\ monitor' = [r \in Sources |-> IF r \in S THEN Ready[r] + 1 ELSE monitor[r]]
                  /\ UNCHANGED broken
               \/ /\ monitor' = [r \in Sources |-> IF r \in S THEN 0 ELSE monitor[r]]
                  /\ broken' = broken \ S
                  /\ UNCHANGED Ready
         \/ \E r \in Sources : /\ monitor[r] # 0 /\ broken' = broken \cup {r}
                               /\ UNCHANGED <<monitor, Ready>>
         \/ UNCHANGED <<monitor, broken, Ready>>
<1> USE InvIs
<1>1. ASSUME NEW w \in Workers, scan(w)
      PROVE  \E S \in SUBSET Sources :
               /\ monitor' = [r \in Sources |-> IF r \in S THEN 0 ELSE monitor[r]]
               /\ broken' = broken \ S
               /\ UNCHANGED Ready
  <2>1. Gone(w) \in SUBSET Sources
    BY DEF Gone
  <2> QED BY <1>1, <2>1, ScanTakes
<1>2. ASSUME NEW r \in Sources, MonitorFails(r)
      PROVE  monitor[r] # 0 /\ broken' = broken \cup {r} /\ UNCHANGED <<monitor, Ready>>
  BY <1>2, ReadyStays DEF MonitorFails, is_healthy
<1>3. ASSUME NEW w \in Workers, apply(w)
      PROVE  \E S \in SUBSET Sources :
               /\ \A r \in S : monitor[r] = 0
               /\ Ready' = [r \in Sources |-> IF r \in S THEN Ready[r] + 1 ELSE Ready[r]]
               /\ monitor' = [r \in Sources |-> IF r \in S THEN Ready[r] + 1 ELSE monitor[r]]
               /\ UNCHANGED broken
  <2> DEFINE S == Accepted(w)
  <2>1. S \in SUBSET Sources /\ \A r \in S : monitor[r] = 0
    BY AcceptedIs DEF Accepted
  <2>2. UNCHANGED broken
    BY <1>3, Zenon DEF apply
  <2>3. PICK x \in Works : Applied(w, x)
    BY <1>3, ApplyIs
  <2>4. /\ monitor' = Now(w) /\ UNCHANGED made
        /\ work' = [work EXCEPT ![w] = x] /\ \A r \in Sources : x.job[r].monitor = 0
    BY <2>3 DEF Applied
  <2>5. work'[w] = x /\ \A v \in Workers \ {w} : work'[v] = work[v]
    BY <2>4 DEF WorkTyped
  <2>6. ASSUME NEW r \in S
        PROVE  /\ Now(w)[r] = Ready[r] + 1
               /\ Ready'[r] = Ready[r] + 1
    <3>1. /\ work[w].job[r].monitor # 0 /\ r \in Sources /\ work[w].locked
          /\ work[w].job[r].monitor = made[r]
      BY <2>1, AcceptedIs
    <3>2. Ready[r] = made[r] - 1 /\ made[r] \in Nat
      BY <3>1, ReadyIs DEF RestTyped
    <3>3. Underway(r)' = {}
      BY <2>4, <2>5, <3>1, OneRebuilds DEF Underway
    <3>4. Ready'[r] = made[r]
      <4>1. Cardinality(Underway(r)') = 0
        BY <3>3, FS_EmptySet
      <4> QED BY <2>4, <3>1, <3>2, <4>1 DEF Ready
    <3> QED BY <3>1, <3>2, <3>4 DEF Now
  <2>7. ASSUME NEW r \in Sources \ S
        PROVE  Now(w)[r] = monitor[r] /\ Ready'[r] = Ready[r]
    <3>1. work[w].job[r].monitor = 0
      BY AcceptedIs
    <3>2. Underway(r)' = Underway(r)
      BY <2>4, <2>5, <3>1 DEF Underway
    <3> QED BY <2>4, <3>2 DEF Now, Ready
  <2>8. Ready' = [r \in Sources |-> Ready'[r]]
    BY DEF Ready
  <2>9. Now(w) = [r \in Sources |-> Now(w)[r]]
    BY DEF Now
  <2> HIDE DEF S
  <2>10. Ready' = [r \in Sources |-> IF r \in S THEN Ready[r] + 1 ELSE Ready[r]]
    BY <2>1, <2>6, <2>7, <2>8
  <2>11. monitor' = [r \in Sources |-> IF r \in S THEN Ready[r] + 1 ELSE monitor[r]]
    BY <2>1, <2>4, <2>6, <2>7, <2>9
  <2> QED BY <2>1, <2>2, <2>10, <2>11
<1>4. CASE \E w \in Workers : scan(w)
  BY <1>1, <1>4
<1>5. CASE \E w \in Workers : apply(w)
  BY <1>3, <1>5
<1>6. CASE \E r \in Sources : MonitorFails(r)
  BY <1>2, <1>6
<1> QED BY <1>4, <1>5, <1>6, MonitorSteps

(* The source manager provides what recordings rely on: a source has at most  *)
(* one monitor in place, each is a new one, and a failed one is replaced.     *)
THEOREM SourceManagerProvidesMonitors == SafetySpec => ProvidesMonitors
<1>1. ASSUME Init PROVE Life!Init
  <2>1. \A r \in Sources : Underway(r) = {}
    BY <1>1 DEF Init, NoWork, NoJob, Underway
  <2>2. ASSUME NEW r \in Sources PROVE Ready[r] = 0
    <3>1. Cardinality(Underway(r)) = 0
      BY <2>1, FS_EmptySet
    <3>2. made[r] = 0
      BY <1>1 DEF Init
    <3> QED BY <3>1, <3>2 DEF Ready
  <2>3. Ready = [r \in Sources |-> 0]
    BY <2>2 DEF Ready
  <2> QED BY <1>1, <2>3 DEF Init, Life!Init, Ready, Underway
<1>2. IInv /\ IInv' /\ [Next]_vars => [Life!Next]_(Life!vars)
  <2> SUFFICES ASSUME IInv, IInv', [Next]_vars PROVE [Life!Next]_(Life!vars)
    OBVIOUS
  <2>1. ASSUME NEW S \in SUBSET Sources,
               /\ \A r \in S : monitor[r] = 0
               /\ Ready' = [r \in Sources |-> IF r \in S THEN Ready[r] + 1 ELSE Ready[r]]
               /\ monitor' = [r \in Sources |-> IF r \in S THEN Ready[r] + 1 ELSE monitor[r]]
               /\ UNCHANGED broken
        PROVE  Life!Starts(S)
    BY <2>1 DEF Life!Starts, Ready, Underway
  <2>2. ASSUME NEW S \in SUBSET Sources,
               /\ monitor' = [r \in Sources |-> IF r \in S THEN 0 ELSE monitor[r]]
               /\ broken' = broken \ S
               /\ UNCHANGED Ready
        PROVE  Life!Go(S)
    BY <2>2 DEF Life!Go, Ready, Underway
  <2>3. ASSUME NEW r \in Sources, monitor[r] # 0, broken' = broken \cup {r},
               UNCHANGED <<monitor, Ready>>
        PROVE  Life!Fails(r)
    BY <2>3 DEF Life!Fails, Ready, Underway
  <2>4. ASSUME UNCHANGED <<monitor, broken, Ready>> PROVE UNCHANGED Life!vars
    BY <2>4 DEF Life!vars, Ready, Underway
  <2> QED BY <2>1, <2>2, <2>3, <2>4, LifeSteps DEF Life!Next
<1> QED
  BY <1>1, <1>2, Invariant, PTL DEF SafetySpec, ProvidesMonitors, Life!Spec

-----------------------------------------------------------------------------
(* The pipelines that run. *)

(* What runs and isn't being torn down is at most one monitor: who starts one *)
(* holds REBUILD, and only where there is none.                               *)
LEMMA OneMonitor == AllInv => OneMonitorEach
<1> SUFFICES ASSUME IInv, NEW r \in Sources, PipelinesAreKnown(r)
             PROVE  /\ Cardinality(running[r] \ torn[r]) <= 1
                    /\ monitor[r] # 0 => monitor[r] \in running[r] \ torn[r]
  BY DEF OneMonitorEach, AllInv
<1> USE InvIs
<1>1. running[r] \ torn[r] = Held(r)
  BY DEF PipelinesAreKnown
<1>2. monitor[r] # 0 => monitor[r] \in Held(r)
  BY DEF Held
<1>3. \E m : Held(r) \subseteq {m}
  <2>1. CASE \E w \in Workers : work[w].job[r].monitor # 0
    <3>1. PICK w \in Workers : work[w].job[r].monitor # 0
      BY <2>1
    <3>2. work[w].locked /\ monitor[r] = 0
      BY <3>1 DEF MonitorJob
    <3>3. \A v \in Workers \ {w} : work[v].job[r].monitor = 0
      BY <3>2, OneRebuilds
    <3>4. Held(r) \subseteq {work[w].job[r].monitor}
      BY <3>2, <3>3 DEF Held
    <3> QED BY <3>4
  <2>2. CASE \A w \in Workers : work[w].job[r].monitor = 0
    BY <2>2 DEF Held
  <2> QED BY <2>1, <2>2
<1>4. Cardinality(Held(r)) <= 1
  <2>1. PICK m : Held(r) \subseteq {m}
    BY <1>3
  <2>2. IsFiniteSet({m}) /\ Cardinality({m}) = 1
    BY FS_Singleton
  <2> QED BY <2>1, <2>2, FS_Subset
<1> QED BY <1>1, <1>2, <1>4

(* A Work's monitor is one more than were started, and none that is torn down. *)
LEMMA PipesStart ==
  ASSUME IInv, NEW w \in Workers, NEW r \in Sources, StartMonitor(w, r),
         NEW q \in Sources, PipelinesAreKnown(q)
  PROVE  PipelinesAreKnown(q)'
<1> USE InvIs
<1>1. /\ made' = [made EXCEPT ![r] = @ + 1] /\ UNCHANGED <<monitor, torn>>
      /\ running' = [running EXCEPT ![r] = @ \cup {made[r] + 1}]
      /\ work' = [work EXCEPT ![w].job[r].todo = @ \ {"monitor"},
                              ![w].job[r].monitor = made[r] + 1]
      /\ work[w].job[r].monitor = 0
  BY DEF StartMonitor, MonitorJob
<1>2. made[r] \in Nat /\ made[q] \in Nat /\ made' \in [Sources -> Nat]
  BY <1>1 DEF RestTyped
<1>3. /\ \A v \in Workers \ {w} : work'[v] = work[v]
      /\ work'[w].job[r].monitor = made[r] + 1
      /\ \A s \in Sources \ {r} : work'[w].job[s] = work[w].job[s]
  BY <1>1 DEF WorkTyped, Works, Jobs
<1>4. CASE q # r
  <2>0. made \in [Sources -> Nat] /\ running \in [Sources -> SUBSET Nat]
    BY DEF RestTyped
  <2>1. running'[q] = running[q] /\ torn'[q] = torn[q] /\ made'[q] = made[q]
    BY <1>1, <1>4, <2>0
  <2>2. Held(q)' = Held(q)
    <3>1. \A v \in Workers : work'[v].job[q].monitor = work[v].job[q].monitor
      BY <1>3, <1>4
    <3>2. monitor'[q] = monitor[q]
      BY <1>1
    <3> QED BY <3>1, <3>2 DEF Held
  <2> QED BY <2>1, <2>2 DEF PipelinesAreKnown
<1>5. CASE q = r
  <2>1. running'[r] = running[r] \cup {made[r] + 1} /\ torn'[r] = torn[r] /\ made'[r] = made[r] + 1
    BY <1>1 DEF RestTyped
  <2>2. Held(r)' = Held(r) \cup {made[r] + 1}
    <3> DEFINE new == made[r] + 1
    <3>1. new # 0
      BY <1>2
    <3>2. work'[w].job[r].monitor = new /\ monitor'[r] = monitor[r]
      BY <1>1, <1>3
    <3>3. \A v \in Workers \ {w} : work'[v].job[r].monitor = work[v].job[r].monitor
      BY <1>3
    <3>4. work[w].job[r].monitor = 0
      BY <1>1
    <3> HIDE DEF new
    <3>5. Held(r)' = Held(r) \cup {new}
      <4> DEFINE old(v) == work[v].job[r].monitor
                 now(v) == work'[v].job[r].monitor
      <4>1. Held(r) = ({monitor[r]} \cup {old(v) : v \in Workers}) \ {0}
        BY DEF Held
      <4>2. Held(r)' = ({monitor'[r]} \cup {now(v) : v \in Workers}) \ {0}
        BY DEF Held
      <4>3. /\ now(w) = new /\ old(w) = 0 /\ monitor'[r] = monitor[r]
            /\ \A v \in Workers \ {w} : now(v) = old(v)
        BY <3>2, <3>3, <3>4
      <4> HIDE DEF old, now
      <4> QED BY <3>1, <4>1, <4>2, <4>3
    <3> QED BY <3>5 DEF new
  <2>3. torn[r] \cup running[r] \subseteq 1..made[r] /\ running[r] \ torn[r] = Held(r)
    BY <1>5 DEF PipelinesAreKnown
  <2>4. /\ made[r] + 1 \notin torn[r] /\ made[r] + 1 \in 1..(made[r] + 1)
        /\ 1..made[r] \subseteq 1..(made[r] + 1)
    BY <1>2, <2>3
  <2>5. running'[r] \ torn'[r] = Held(r)'
    BY <2>1, <2>2, <2>3, <2>4
  <2> QED BY <1>5, <2>1, <2>4, <2>5 DEF PipelinesAreKnown
<1> QED BY <1>4, <1>5

(* A rebuild hands the monitors it takes to be torn down. *)
LEMMA PipesScan ==
  ASSUME IInv, NEW w \in Workers, scan(w), NEW r \in Sources,
         PipelinesAreKnown(r)
  PROVE  PipelinesAreKnown(r)'
<1> USE InvIs
<1>1. PICK starts \in SUBSET Sources, x \in Works : Scanned(w, starts, x)
  BY ScanIs
<1>2. /\ work[w].stage = "read" /\ work[w].locked /\ UNCHANGED made
      /\ monitor'[r] = IF r \in Gone(w) THEN 0 ELSE monitor[r]
      /\ work' = [work EXCEPT ![w] = x] /\ x.job[r].monitor = 0
  BY <1>1 DEF Scanned, Plans
<1>3. /\ running' = running
      /\ torn' = [q \in Sources |-> IF q \in Gone(w) THEN torn[q] \cup ({monitor[q]} \ {0})
                                    ELSE torn[q]]
  BY Zenon DEF scan, Gone, Kept
<1>4. \A v \in Workers : work'[v].job[r].monitor = work[v].job[r].monitor
  <2>1. work[w].job[r].monitor = 0
    BY <1>2, NoneUnderway DEF Starting
  <2>2. work'[w] = x /\ \A v \in Workers \ {w} : work'[v] = work[v]
    BY <1>2 DEF WorkTyped
  <2> QED BY <1>2, <2>1, <2>2
<1>5. CASE r \in Gone(w) /\ monitor[r] # 0
  <2>1. \A v \in Workers : work[v].job[r].monitor = 0
    BY <1>5 DEF MonitorJob
  <2>2. Held(r) = {monitor[r]} /\ Held(r)' = {}
    BY <1>2, <1>4, <1>5, <2>1 DEF Held
  <2>3. torn'[r] = torn[r] \cup {monitor[r]} /\ running'[r] = running[r] /\ made'[r] = made[r]
    BY <1>2, <1>3, <1>5
  <2>4. monitor[r] \in 1..made[r]
    BY <1>5, <2>2 DEF PipelinesAreKnown
  <2> QED BY <2>2, <2>3, <2>4 DEF PipelinesAreKnown
<1>6. CASE ~(r \in Gone(w) /\ monitor[r] # 0)
  <2>1. torn'[r] = torn[r] /\ running'[r] = running[r] /\ made'[r] = made[r]
        /\ monitor'[r] = monitor[r]
    BY <1>2, <1>3, <1>6
  <2>2. Held(r)' = Held(r)
    BY <1>4, <2>1 DEF Held
  <2> QED BY <2>1, <2>2 DEF PipelinesAreKnown
<1> QED BY <1>5, <1>6

(* A Work's monitor is put in place: none is turned away. *)
LEMMA PipesApply ==
  ASSUME IInv, NEW w \in Workers, apply(w), NEW r \in Sources, PipelinesAreKnown(r)
  PROVE  PipelinesAreKnown(r)'
<1> USE InvIs
<1>1. PICK x \in Works : Applied(w, x)
  BY ApplyIs
<1>2. /\ monitor' = Now(w) /\ UNCHANGED made /\ work' = [work EXCEPT ![w] = x]
      /\ x.job[r].monitor = 0
  BY <1>1 DEF Applied
<1>3. work'[w] = x /\ \A v \in Workers \ {w} : work'[v] = work[v]
  BY <1>2 DEF WorkTyped
<1>4. /\ running' = running
      /\ torn' = [q \in Sources |-> IF q \in Accepted(w) THEN torn[q]
                                    ELSE torn[q] \cup ({work[w].job[q].monitor} \ {0})]
  BY ZenonT(40) DEF apply, Accepted
<1>5. torn'[r] = torn[r] /\ running'[r] = running[r] /\ made'[r] = made[r]
  BY <1>2, <1>4, AcceptedIs
<1>6. Held(r)' = Held(r)
  <2>1. CASE r \in Accepted(w)
    <3>1. monitor'[r] = work[w].job[r].monitor /\ monitor[r] = 0 /\ work[w].locked
      BY <1>2, <2>1, AcceptedIs DEF Now
    <3>2. \A v \in Workers \ {w} : work[v].job[r].monitor = 0
      BY <3>1, OneRebuilds
    <3> QED BY <1>2, <1>3, <3>1, <3>2 DEF Held
  <2>2. CASE r \notin Accepted(w)
    <3>1. work[w].job[r].monitor = 0 /\ monitor'[r] = monitor[r]
      BY <1>2, <2>2, AcceptedIs DEF Now
    <3>2. \A v \in Workers : work'[v].job[r].monitor = work[v].job[r].monitor
      BY <1>2, <1>3, <3>1
    <3> QED BY <3>1, <3>2 DEF Held
  <2> QED BY <2>1, <2>2
<1> QED BY <1>5, <1>6 DEF PipelinesAreKnown


LEMMA PipesNext ==
  ASSUME IInv, IInv', [Next]_vars, NEW r \in Sources, PipelinesAreKnown(r)
  PROVE  PipelinesAreKnown(r)'
<1>1. CASE \E w \in Workers : scan(w)
  BY <1>1, PipesScan
<1>2. CASE \E w \in Workers : apply(w)
  BY <1>2, PipesApply
<1>3. CASE \E w \in Workers, q \in Sources : StartMonitor(w, q)
  BY <1>3, PipesStart
<1>4. ASSUME NEW q \in Sources, MonitorFails(q) PROVE PipelinesAreKnown(r)'
  BY <1>4 DEF MonitorFails, pipes, PipelinesAreKnown, Held
<1>5. ASSUME NEW q \in Sources, NEW m \in torn[q], TearDown(q, m) PROVE PipelinesAreKnown(r)'
  <2>1. /\ UNCHANGED <<monitor, made, work>>
        /\ torn' = [torn EXCEPT ![q] = @ \ {m}] /\ running' = [running EXCEPT ![q] = @ \ {m}]
    BY <1>5 DEF TearDown
  <2>2. /\ torn'[r] = IF r = q THEN torn[r] \ {m} ELSE torn[r]
        /\ running'[r] = IF r = q THEN running[r] \ {m} ELSE running[r]
    BY <2>1, InvIs DEF RestTyped
  <2>3. running'[r] \ torn'[r] = running[r] \ torn[r]
    BY <1>5, <2>2
  <2>4. Held(r)' = Held(r)
    BY <2>1 DEF Held
  <2> QED BY <2>1, <2>2, <2>3, <2>4 DEF PipelinesAreKnown
<1>6. CASE UNCHANGED <<monitor, made, broken, pipes>> /\ SameJobs
  BY <1>6 DEF pipes, SameJobs, PipelinesAreKnown, Held
<1> QED BY <1>1, <1>2, <1>3, <1>4, <1>5, <1>6, Steps

(* Old pipelines may run on beside a source's monitor until their recordings   *)
(* have ended, but each is then being torn down: of the others there is one   *)
(* at most, the monitor in place or the one a Work has started, however       *)
(* rebuilds, requests and failures interleave.                                *)
THEOREM NeverTwoMonitors == SafetySpec => []OneMonitorEach
<1>1. Init => AllInv
  <2>1. ASSUME Init, NEW r \in Sources PROVE PipelinesAreKnown(r)
    <3>1. monitor[r] = 0 /\ torn[r] = {} /\ running[r] = {}
          /\ \A w \in Workers : work[w].job[r].monitor = 0
      BY <2>1 DEF Init, NoWork, NoJob
    <3> QED BY <3>1 DEF PipelinesAreKnown, Held
  <2> QED BY <2>1, InvInit DEF AllInv
<1>2. AllInv /\ [Next]_vars => AllInv'
  BY InvNext, PipesNext DEF AllInv
<1> QED BY <1>1, <1>2, OneMonitor, PTL DEF SafetySpec
==========================================================================
