-------------------------------- MODULE Plans --------------------------------
(* The files recordings write (pipeline/profile.rs, api/node.rs): a preset's  *)
(* templates become paths when a recording starts, moved past the files there *)
(* are, and legs that start new files number them. A path is the sequence of  *)
(* what it is put together from, and its extension. What becomes of a start   *)
(* that fails, and of files left empty, is in Recording.                      *)
EXTENDS Naturals, Sequences, SequencesExt, FiniteSets

CONSTANTS
    Lists,      \* presets' outputs: template, name, extension, and whether it splits or reserves an index
    Sources,
    Recordings, \* recordings there are at a time, as numbers
    MaxCount, MaxFiles, MaxStarts, MaxRemovals \* bounds: takes and suffixes, a leg's files, recordings, files people remove

VARIABLES
    outputs,    \* the preset
    day,
    plan,       \* each recording's: "none", "planned", "running" or "draining", its paths and what they were picked from
    next,       \* the number of each leg's next file
    disk, overwritten, \* the files there are, and those opened again
    crossed,    \* paths started on that a draining leg had yet to open
    removed,    \* files people removed
    starts

vars == <<outputs, day, plan, next, disk, overwritten, crossed, removed, starts>>

Day == <<"date", 1>>
Tokens == {<<"text", 1>>, <<"text", 2>>, <<"date", 0>>, <<"year_month_day", 0>>, <<"output", 0>>, <<"source", 0>>,
           <<"take", 0>>, <<"segment", 0>>}
Has(path, kind) == \E i \in DOMAIN path : path[i][1] = kind
Map(path, F(_)) == [i \in DOMAIN path |-> F(path[i])]

----------------------------------------------------------------------------
(* Templates                                                                  *)

\* The first `{...}` that isn't a token.
unknown_token_of(template) == Range(template) \ Tokens

\* With `v` none (a preset is saved) the recording's tokens stay as they are;
\* {year}-{month}-{day} reads as {date} does.
expand_with(path, v) ==
    Map(path, LAMBDA t :
        CASE t[1] \in {"date", "year_month_day"} -> <<"date", v.day>>
          [] t[1] = "source" -> <<"source", v.source>>
          [] t[1] = "take" -> <<"take", v.take>>
          [] OTHER -> t)
before_extension(path, tag) == Append(path, tag)
with_segment(path) == IF Has(path, "segment") THEN path ELSE before_extension(path, <<"segment", 0>>)
segment_number(path, i) == Map(path, LAMBDA t : IF t[1] = "segment" THEN <<"segment", i>> ELSE t)

\* The template of one leg: its name and counters put in.
Stem(o, v) ==
    LET named == Map(o.template, LAMBDA t : IF t[1] = "output" THEN <<"name", o.name>> ELSE t)
        path == IF v = {} THEN named ELSE expand_with(named, CHOOSE x \in v : TRUE)
        suffix == IF v = {} THEN 1 ELSE (CHOOSE x \in v : TRUE).suffix
    IN IF suffix > 1 /\ ~Has(o.template, "take") THEN before_extension(path, <<"suffix", suffix>>) ELSE path
\* The leg's i-th file: the first of one that only rolls over is plain.
File(o, v, i) ==
    <<segment_number(IF o.splits \/ (o.rolls /\ i > 1) THEN with_segment(Stem(o, v)) ELSE Stem(o, v), i), o.ext>>
plan_legs(list, v) == [i \in DOMAIN list |-> File(list[i], v, 1)]
\* Two outputs would write the same file.
Collides(paths) == \E i, j \in DOMAIN paths : i < j /\ paths[i] = paths[j]
Saved(list) == (\A i \in DOMAIN list : unknown_token_of(list[i].template) = {}) /\ ~Collides(plan_legs(list, {}))

Vars(s, take, suffix) == {[day |-> day, source |-> s, take |-> take, suffix |-> suffix]}
\* The first paths that don't exist: each pass moves one that does, by its take
\* or by every other file's suffix.
build_legs(s) ==
    LET free[take \in 1..MaxCount, suffix \in 1..MaxCount] ==
            LET paths == plan_legs(outputs, Vars(s, take, suffix))
                taken == {i \in DOMAIN paths : paths[i] \in disk}
                first == CHOOSE i \in taken : \A j \in taken : i <= j
            IN  IF Collides(paths) THEN {}
                ELSE IF taken = {} THEN {[paths |-> paths, take |-> take, suffix |-> suffix]}
                ELSE IF Has(outputs[first].template, "take")
                     THEN IF take = MaxCount THEN {} ELSE free[take + 1, suffix]
                     ELSE IF suffix = MaxCount THEN {} ELSE free[take, suffix + 1]
    IN free[1, 1]

----------------------------------------------------------------------------
(* Recordings                                                                 *)

None == [at |-> "none", paths |-> <<>>, v |-> {}, seen |-> {}]
At(stage) == {r \in Recordings : plan[r].at = stage}
SourceOf(r) == {v.source : v \in plan[r].v}
Paths(rs) == UNION {Range(plan[r].paths) : r \in rs}
\* splitmuxsink writes the leg's files, and asks for a name when a frame is there.
Numbers(o) == o.splits \/ o.rolls

Init ==
    /\ outputs \in {l \in Lists : Saved(l)} /\ day = 1
    /\ plan = [r \in Recordings |-> None] /\ next = [r \in Recordings |-> <<>>]
    /\ disk = {} /\ overwritten = {} /\ crossed = {} /\ removed = {} /\ starts = 0

Plan(r, s) ==
    /\ plan[r].at = "none" /\ \A q \in At("none") : r <= q     \* they are alike
    /\ starts < MaxStarts /\ starts' = starts + 1
    /\ \E p \in build_legs(s) :
        plan' = [plan EXCEPT ![r] = [at |-> "planned", paths |-> p.paths, v |-> Vars(s, p.take, p.suffix), seen |-> disk]]
    /\ UNCHANGED <<outputs, day, next, disk, overwritten, crossed, removed>>

\* Paths that are reserved, an active recording's, or exist by now, are refused.
Refused(r) ==
    \/ \E q \in At("running") : SourceOf(q) = SourceOf(r)
    \/ Range(plan[r].paths) \cap (Paths(At("running")) \cup disk) # {}
\* mutant: only what exists by now is refused.
OnDisk(r) == Range(plan[r].paths) \cap disk # {}
begin_start_recording(r) ==
    /\ plan[r].at = "planned"
    /\ \/ Refused(r) /\ plan' = [plan EXCEPT ![r] = None] /\ UNCHANGED <<next, crossed>>
       \/ /\ ~Refused(r)
          /\ plan' = [plan EXCEPT ![r].at = "running"]
          /\ next' = [next EXCEPT ![r] = [i \in DOMAIN outputs |-> 1]]
          /\ LET unopened(q) == {plan[q].paths[i] : i \in {i \in DOMAIN outputs : next[q][i] = 1}}
             IN  crossed' = crossed \cup (Range(plan[r].paths) \cap UNION {unopened(q) : q \in At("draining")})
    /\ UNCHANGED <<outputs, day, disk, overwritten, removed, starts>>

\* A leg opens a file: its only one as it starts, or each that splitmuxsink asks
\* for, which may be after its recording has left the active ones.
format_location(r, i) ==
    LET o == outputs[i]
        file == File(o, plan[r].v, next[r][i])
    IN
    /\ plan[r].at = "running" \/ (plan[r].at = "draining" /\ Numbers(o))
    /\ next[r][i] <= (IF Numbers(o) THEN MaxFiles ELSE 1) /\ next' = [next EXCEPT ![r][i] = @ + 1]
    /\ disk' = disk \cup {file} /\ overwritten' = overwritten \cup (disk \cap {file})
    /\ UNCHANGED <<outputs, day, plan, crossed, removed, starts>>

\* A recording that has started is taken from the active ones, and drains.
stop_recording(r) ==
    /\ plan[r].at = "running" /\ \A i \in DOMAIN outputs : Numbers(outputs[i]) \/ next[r][i] = 2
    /\ plan' = [plan EXCEPT ![r].at = "draining"]
    /\ UNCHANGED <<outputs, day, next, disk, overwritten, crossed, removed, starts>>
Drained(r) ==
    /\ plan[r].at = "draining" /\ plan' = [plan EXCEPT ![r] = None] /\ next' = [next EXCEPT ![r] = <<>>]
    /\ UNCHANGED <<outputs, day, disk, overwritten, crossed, removed, starts>>
Midnight == day < 2 /\ day' = day + 1 /\ UNCHANGED <<outputs, plan, next, disk, overwritten, crossed, removed, starts>>
RemoveFile(f) ==
    /\ f \in disk /\ Cardinality(removed) < MaxRemovals
    /\ disk' = disk \ {f} /\ removed' = removed \cup {f}
    /\ UNCHANGED <<outputs, day, plan, next, overwritten, crossed, starts>>

Next ==
    \/ \E r \in Recordings : begin_start_recording(r) \/ stop_recording(r) \/ Drained(r) \/ \E s \in Sources : Plan(r, s)
    \/ \E r \in Recordings : \E i \in DOMAIN next[r] : format_location(r, i)
    \/ Midnight \/ \E f \in disk : RemoveFile(f)
Spec == Init /\ [][Next]_vars

----------------------------------------------------------------------------
(* Properties                                                                 *)

\* A recording's files are ones that weren't there, also those its legs open as
\* they go.  A file is opened again only if a recording started on a path that
\* another's leg, draining, had yet to open, or someone removed one of the same
\* leg's files, or two outputs' names differ by the number only.
SameLeg(f, g) ==
    LET stem(file) == <<SelectSeq(file[1], LAMBDA t : t[1] # "segment"), file[2]>> IN stem(f) = stem(g)
NothingIsOverwritten ==
    (\A i, j \in DOMAIN outputs : i # j =>
        <<outputs[i].template, outputs[i].name, outputs[i].ext>> # <<outputs[j].template, outputs[j].name, outputs[j].ext>>) =>
        \A f \in overwritten : \E g \in crossed \cup removed : SameLeg(f, g)

\* The take of a recording is the first whose paths were all free, and so is the
\* suffix of the files that have none.
TakeIsTheFirst ==
    \A r \in Recordings : \A v \in plan[r].v :
        LET used(kind) == {i \in DOMAIN outputs : Has(outputs[i].template, "take") <=> kind = "take"}
            taken(kind, n) == \E i \in used(kind) :
                File(outputs[i], {IF kind = "take" THEN [v EXCEPT !.take = n] ELSE [v EXCEPT !.suffix = n]}, 1) \in plan[r].seen
        IN  /\ \A n \in 1..v.take - 1 : taken("take", n)
            /\ \A n \in 1..v.suffix - 1 : taken("suffix", n)
            /\ ~taken("take", v.take) /\ ~taken("suffix", v.suffix)
=============================================================================
