------------------------------- MODULE Presets -------------------------------
(* What a controller keeps for recording rooms (controller/api.rs, db/mod.rs):*)
(* presets, one of which is the default, the schedules that record with them, *)
(* and the tags of sources. Names and tags compare ignoring case, so each is  *)
(* a word and a spelling. A transaction of the database is one step; a        *)
(* request that reads before it writes is several.                            *)
EXTENDS Naturals, FiniteSets

CONSTANTS
    Ids,        \* presets ever made
    Words,      \* what presets and tags may be called, but for their spelling
    Schedules,  \* schedules
    Sources,    \* sources that may have tags
    Requests,   \* requests under way at a time
    MaxActs     \* bound: changes asked for

VARIABLES
    name,       \* each preset's name, or None while there is no such row
    default,    \* node_config: the default preset's id
    records,    \* the preset each schedule records with, or None
    tags,       \* each source's tags
    reqs,       \* what each request that reads first is at
    crossed,    \* presets that went while a schedule was saved with them
    acts
presetVars == <<name, default>>
vars == <<presetVars, records, tags, reqs, crossed, acts>>

None == 0
\* A name is a word and how it is spelt; presets are listed by name, capitals
\* first.
Names == {0, 1} \X Words
Blank == <<0, None>>
Same(a, b) == a[2] = b[2]
Before(a, b) == a[1] < b[1] \/ (a[1] = b[1] /\ a[2] < b[2])
Presets == {i \in Ids : name[i] # Blank}
Idle == [at |-> "idle", preset |-> None, schedule |-> None]
Acts == acts < MaxActs /\ acts' = acts + 1
Goes(r, request) == reqs' = [reqs EXCEPT ![r] = request]
Under(step, i) == \E r \in Requests : reqs[r].at = step /\ reqs[r].preset = i

----------------------------------------------------------------------------
(* Presets                                                                    *)

\* A unique index keeps the names apart.
Free(i, n) == ~\E j \in Presets \ {i} : Same(name[j], n)
preset_insert(i, n) ==
    /\ Acts /\ name[i] = Blank /\ Free(i, n) /\ name' = [name EXCEPT ![i] = n]
    /\ UNCHANGED <<default, records, tags, reqs, crossed>>
preset_update(i, n) ==
    /\ Acts /\ i \in Presets /\ Free(i, n) /\ name' = [name EXCEPT ![i] = n]
    /\ UNCHANGED <<default, records, tags, reqs, crossed>>
preset_set_default(i) ==
    /\ Acts /\ i \in Presets /\ default' = i
    /\ UNCHANGED <<name, records, tags, reqs, crossed>>
\* One that a schedule records with is refused.
delete_preset(r, i) ==
    /\ Acts /\ reqs[r].at = "idle" /\ (\A s \in Schedules : records[s] # i)
    /\ Goes(r, [Idle EXCEPT !.at = "deletes", !.preset = i])
    /\ UNCHANGED <<presetVars, records, tags, crossed>>
\* mutant: the default stays the preset that is gone.
Stays(i) == default
First(left) == CHOOSE j \in left : \A k \in left \ {j} : Before(name[j], name[k])
Default(i) == IF default = i THEN First(Presets \ {i}) ELSE default
\* Never the last; the default passes on to the first by name.
preset_delete(r) ==
    /\ reqs[r].at = "deletes" /\ Goes(r, Idle)
    /\ LET i == reqs[r].preset
       IN  IF i \in Presets /\ Presets # {i}
           THEN /\ name' = [name EXCEPT ![i] = Blank] /\ default' = Default(i)
                /\ crossed' = IF Under("saves", i) THEN crossed \cup {i} ELSE crossed
           ELSE UNCHANGED <<presetVars, crossed>>
    /\ UNCHANGED <<records, tags, acts>>

----------------------------------------------------------------------------
(* Schedules, and sources' tags                                               *)

\* save_schedule: its preset is looked up, then it is saved. A new schedule has
\* an id of its own; one that is put was found before.
save_schedule(r, s, i) ==
    /\ Acts /\ reqs[r].at = "idle" /\ i \in Presets
    /\ Goes(r, [at |-> "saves", preset |-> i, schedule |-> s])
    /\ UNCHANGED <<presetVars, records, tags, crossed>>
schedule_save(r) ==
    /\ reqs[r].at = "saves" /\ Goes(r, Idle) /\ records' = [records EXCEPT ![reqs[r].schedule] = reqs[r].preset]
    /\ crossed' = IF Under("deletes", reqs[r].preset) THEN crossed \cup {reqs[r].preset} ELSE crossed
    /\ UNCHANGED <<presetVars, tags, acts>>
schedule_delete(s) ==
    /\ Acts /\ records[s] # None /\ records' = [records EXCEPT ![s] = None]
    /\ UNCHANGED <<presetVars, tags, reqs, crossed>>

\* A tag that is added takes the spelling of one already in use; those that are
\* removed go however they are spelt.
InUse == UNION {tags[s] : s \in Sources}
Spelt(t) == IF \E u \in InUse : Same(u, t) THEN CHOOSE u \in InUse : Same(u, t) ELSE t
source_tags_change(on, add, remove) ==
    /\ Acts
    /\ tags' = [s \in Sources |->
          LET added == IF s \in on THEN tags[s] \cup {Spelt(t) : t \in add} ELSE tags[s]
          IN  IF s \in on THEN {t \in added : ~\E u \in remove : Same(t, u)} ELSE added]
    /\ UNCHANGED <<presetVars, records, reqs, crossed>>

\* The first migration makes one preset, and makes it the default.
Init ==
    /\ \E i \in Ids, n \in Names : name = [j \in Ids |-> IF j = i THEN n ELSE Blank] /\ default = i
    /\ records = [s \in Schedules |-> None] /\ tags = [s \in Sources |-> {}]
    /\ reqs = [r \in Requests |-> Idle] /\ crossed = {} /\ acts = 0
Next ==
    \/ \E i \in Ids : \E n \in Names : preset_insert(i, n) \/ preset_update(i, n)
    \/ \E i \in Ids : preset_set_default(i) \/ \E r \in Requests : delete_preset(r, i)
    \/ \E r \in Requests :
          \/ preset_delete(r) \/ schedule_save(r)
          \/ \E s \in Schedules, i \in Ids : save_schedule(r, s, i)
    \/ \E s \in Schedules : schedule_delete(s)
    \/ \E on \in {{s} : s \in Sources} \cup {Sources} : \E n \in Names :
          source_tags_change(on, {n}, {}) \/ source_tags_change(on, {}, {n})
Spec == Init /\ [][Next]_vars

----------------------------------------------------------------------------
\* There is always a preset to record with, and the default is one of them,
\* also when several are deleted at once.
AlwaysADefault == default \in Presets

\* No two presets have one name, and a tag is spelt one way on every source, so
\* choosing by a tag finds each source that has it.
NamesAreOne ==
    /\ \A i, j \in Presets : Same(name[i], name[j]) => i = j
    /\ \A t, u \in InUse : Same(t, u) => t = u

\* A schedule's preset is there when it comes due, unless that preset went between
\* the look at it and the save, or the save came between the look at the
\* schedules and the preset's going.
SchedulesCanRecord == \A s \in Schedules : records[s] \in Presets \cup crossed \cup {None}
=============================================================================
