-------------------------------- MODULE Capacity --------------------------------
(* Capacity estimates (capacity.rs, api/node.rs): what stored benchmark runs   *)
(* say the node sustains of each setup, what runs on it uses of that, and      *)
(* whether more would fit. Shares of the node are exact here.                  *)
EXTENDS Integers, Sequences, FiniteSets, FiniteSetsExt

CONSTANTS
    Sources, Channels,      \* what can be recorded, and the playout channels among that
    Recordings, Codecs,     \* lists of recording outputs; replay buffers' codecs
    Programs,               \* channels' configs: [outputs, format]
    Formats,                \* [size, rate, written]: pixels; frames a second; how the fraction is written
    Results,                \* what benchmarks may end with: [setup, format, status, sustained, measured]
    MaxRuns, MaxActs        \* bounds

NODE == 48                  \* a whole node, in a unit that every share here is a multiple of
TIGHT == 38                 \* TIGHT_LOAD of it, 0.8
None == {}
Unknown == [size |-> 0, rate |-> 0, written |-> "not"]

VARIABLES
    runs,            \* the benchmark runs, the newest first
    format,          \* what each source's monitor produces
    sessions,        \* the recordings: [source, outputs]
    replays,         \* the buffers: [source, codec, leg], a leg being "none", "records" or "failed"
    programs,        \* each channel's config, None if its program doesn't run
    foretold,        \* history: what a check told of what was begun next, if nothing else has been
    acts
vars == <<runs, format, sessions, replays, programs, foretold, acts>>

Record(outputs) == [kind |-> "record", outputs |-> outputs]
Replay(codec) == [kind |-> "replay", outputs |-> codec]
Channel(outputs) == [kind |-> "channel", outputs |-> outputs]

Init ==
    /\ runs = <<>>
    /\ format \in {[s \in Sources |-> IF s \in Channels THEN Unknown ELSE f] : f \in {Unknown, CHOOSE g \in Formats : TRUE}}
    /\ sessions = {} /\ replays = {} /\ programs = [c \in Channels |-> None]
    /\ foretold = None /\ acts = 0

----------------------------------------------------------------------------
(* What benchmarks say                                                        *)

\* What is encoded, whatever it is called, where it goes and how it splits.
outputs_key(outputs) == [i \in DOMAIN outputs |-> outputs[i].encodes]
\* The NDI and SRT outputs, in whichever order.
channel_outputs(outputs) ==
    [e \in {outputs[i].encodes : i \in {j \in DOMAIN outputs : outputs[j].to \in {"ndi", "srt"}}} |->
        Cardinality({i \in DOMAIN outputs : outputs[i].to \in {"ndi", "srt"} /\ outputs[i].encodes = e})]
key(setup) ==
    <<setup.kind, CASE setup.kind = "record" -> outputs_key(setup.outputs)
                    [] setup.kind = "replay" -> setup.outputs
                    [] setup.kind = "channel" -> channel_outputs(setup.outputs)>>

pixel_rate(f) == f.size * f.rate
matches_format(f, g) == f.size = g.size /\ f.rate = g.rate
\* The runs that count: the newest completed one of each setup and format.
Counts(run) == run.status = "completed" /\ run.measured
from_runs(list) ==
    {i \in DOMAIN list :
        /\ Counts(list[i])
        /\ \A j \in 1..i - 1 : Counts(list[j]) =>
               ~(key(list[j].setup) = key(list[i].setup) /\ matches_format(list[j].format, list[i].format))}

\* The feeds, as a fraction, of a setup the node sustains, if it was
\* benchmarked: of this format, else of the nearest, scaled by pixels a second.
Found(i, f) ==
    [feeds |-> <<runs[i].sustained * pixel_rate(runs[i].format), pixel_rate(f)>>,
     estimated |-> ~matches_format(runs[i].format, f)]
\* How far apart two formats are, as a ratio of one or more: a's is no more than b's.
Times(f, g) == LET high == Max({pixel_rate(f), pixel_rate(g)}) IN <<high, Min({pixel_rate(f), pixel_rate(g)})>>
NoFurther(a, b) == a[1] * b[2] <= b[1] * a[2]
lookup(k, f) ==
    LET candidates == {i \in from_runs(runs) : key(runs[i].setup) = k}
        same == {i \in candidates : matches_format(runs[i].format, f)}
        far(i) == Times(runs[i].format, f)
        nearest == {i \in candidates : \A j \in candidates : NoFurther(far(i), far(j))}
    IN  CASE candidates = {} -> None
          [] candidates # {} /\ f = Unknown ->
                 {[feeds |-> <<runs[Min(candidates)].sustained, 1>>, estimated |-> TRUE]}
          [] candidates # {} /\ f # Unknown /\ same # {} -> {Found(Min(same), f)}
          [] OTHER -> {Found(Min(nearest), f)}
\* A feed's share; a setup that can't sustain one feed counts as twice the node.
share(match) ==
    IF 2 * match.feeds[1] <= match.feeds[2] THEN 2 * NODE ELSE (NODE * match.feeds[2]) \div match.feeds[1]
\* `feeds`: [key, format] and a number to tell alike ones apart.
load(feeds) ==
    LET known == {f \in feeds : lookup(f.key, f.format) # None}
        of(f) == CHOOSE m \in lookup(f.key, f.format) : TRUE
    IN  [load |-> MapThenSumSet(LAMBDA f : share(of(f)), known), unknown |-> Cardinality(feeds \ known),
         estimated |-> \E f \in known : of(f).estimated]
verdict(l) ==
    CASE l.load > NODE -> "over"
      [] l.load <= NODE /\ l.unknown > 0 -> "unknown"
      [] l.load <= NODE /\ l.unknown = 0 /\ l.load > TIGHT -> "tight"
      [] OTHER -> "fits"

----------------------------------------------------------------------------
(* What runs, and what is asked                                               *)

source_format(source) == format[source]
Feed(setup, source, n) == [key |-> key(setup), format |-> source_format(source), n |-> <<source, n>>]
\* Sessions, buffers that record but `skip_buffers`, and channels but `skip_channels`.
running_load(skip_buffers, skip_channels) ==
    {Feed(Record(s.outputs), s.source, "feed") : s \in sessions}
    \cup {Feed(Replay(r.codec), r.source, "buffer") : r \in {b \in replays : b.leg = "records" /\ b.source \notin skip_buffers}}
    \cup UNION {{Feed(Channel(p.outputs), c, "channel") : p \in programs[c]} : c \in Channels \ skip_channels}

get_capacity == load(running_load({}, {}))
capacity_check(before, after) == [before |-> load(before), after |-> load(after), verdict |-> verdict(load(after))]

\* What sources recorded, or kept in buffers, with a setup would add.
post_capacity_check(setup, sources) ==
    LET active == running_load(IF setup.kind = "replay" THEN sources ELSE {}, {})
    IN  capacity_check(active, active \cup {Feed(setup, s, "new") : s \in sources})
\* What a channel's program would, in place of that of the one `editing`.
check_channel(config, editing) ==
    LET active == running_load({}, editing)
        new == [key |-> key(Channel(config.outputs)), format |-> config.format, n |-> <<"channel", "new">>]
    IN  capacity_check(active, active \cup {new})

\* What one feed of a setup would cost, for each format of these sources', or as
\* it is when none is known.
per_format(k, sources) ==
    LET of == {s \in sources : source_format(s) # Unknown}
        entry(f) == [format |-> f, sources |-> Cardinality({s \in of : source_format(s) = f}), match |-> lookup(k, f)]
    IN  IF of = {} THEN {entry(Unknown)} ELSE {entry(source_format(s)) : s \in of}
post_capacity_estimate(outputs) == per_format(key(Record(outputs)), Sources \ Channels)

Recorded == {s.source : s \in sessions}
Goes(n) == acts < MaxActs /\ acts' = acts + n

Records ==
    \E outputs \in Recordings, sources \in SUBSET Sources :
        /\ sources # {} /\ sources \cap Recorded = {} /\ Goes(1)
        /\ sessions' = sessions \cup {[source |-> s, outputs |-> outputs] : s \in sources}
        /\ foretold' = {post_capacity_check(Record(outputs), sources)}
        /\ UNCHANGED <<runs, format, replays, programs>>
\* Of buffers that are there already, the codec is changed.
Buffers ==
    \E codec \in Codecs, sources \in SUBSET Sources :
        /\ sources # {} /\ Goes(1)
        /\ replays' = {r \in replays : r.source \notin sources}
                      \cup {[source |-> s, codec |-> codec, leg |-> "records"] : s \in sources}
        /\ foretold' = {post_capacity_check(Replay(codec), sources)}
        /\ UNCHANGED <<runs, format, sessions, programs>>
\* A channel is made, or one that isn't recorded changed; its program runs at
\* its own format, which a buffer of it follows.
SetsChannel ==
    \E c \in Channels, config \in Programs :
        /\ config \notin programs[c] /\ c \notin Recorded /\ Goes(1)
        /\ programs' = [programs EXCEPT ![c] = {config}]
        /\ format' = [format EXCEPT ![c] = config.format]
        /\ foretold' = IF format[c] # config.format /\ \E r \in replays : r.source = c /\ r.leg = "records" THEN None
                       ELSE {check_channel(config, {c})}
        /\ UNCHANGED <<runs, sessions, replays>>
\* A recording ends, or a buffer's leg fails, or its source's format changes.
Ends ==
    /\ Goes(1) /\ foretold' = None
    /\ \/ \E s \in sessions : sessions' = sessions \ {s} /\ UNCHANGED <<format, replays>>
       \/ \E r \in replays : replays' = (replays \ {r}) \cup {[r EXCEPT !.leg = "failed"]} /\ UNCHANGED <<format, sessions>>
       \/ \E s \in Sources \ Channels, f \in Formats \cup {Unknown} :
              format[s] # f /\ format' = [format EXCEPT ![s] = f] /\ UNCHANGED <<sessions, replays>>
    /\ UNCHANGED <<runs, programs>>
\* Nothing else is on the node while a benchmark runs.
Benchmarked ==
    \E result \in Results :
        /\ Len(runs) < MaxRuns /\ runs' = <<result>> \o runs
        /\ sessions = {} /\ foretold' = None
        /\ UNCHANGED <<format, sessions, replays, programs, acts>>
Next == Records \/ Buffers \/ SetsChannel \/ Ends \/ Benchmarked
Spec == Init /\ [][Next]_vars

----------------------------------------------------------------------------
(* What must hold                                                             *)

Running == running_load({}, {})
\* The same work for the node: recordings of the same encodings in order,
\* channels whose NDI and SRT outputs pair up.
Encodes(outputs) == {i \in DOMAIN outputs : outputs[i].to \in {"ndi", "srt"}}
SameWork(a, b) ==
    /\ a.kind = b.kind
    /\ CASE a.kind = "replay" -> a.outputs = b.outputs
         [] a.kind = "record" -> /\ Len(a.outputs) = Len(b.outputs)
                                /\ \A i \in DOMAIN a.outputs : a.outputs[i].encodes = b.outputs[i].encodes
         [] OTHER -> \E pair \in [Encodes(a.outputs) -> Encodes(b.outputs)] :
                        /\ \A j \in Encodes(b.outputs) : \E i \in Encodes(a.outputs) : pair[i] = j
                        /\ \A i, j \in Encodes(a.outputs) : i # j => pair[i] # pair[j]
                        /\ \A i \in Encodes(a.outputs) : a.outputs[i].encodes = b.outputs[pair[i]].encodes
\* The newest run that says anything of a setup in a format.
Last(setup, f) ==
    {i \in DOMAIN runs :
        /\ runs[i].status = "completed" /\ runs[i].measured /\ SameWork(runs[i].setup, setup)
        /\ runs[i].format.size = f.size /\ runs[i].format.rate = f.rate
        /\ \A j \in 1..i - 1 : runs[j].status = "completed" /\ runs[j].measured /\ SameWork(runs[j].setup, setup) =>
               ~(runs[j].format.size = f.size /\ runs[j].format.rate = f.rate)}
Setups == {Record(o) : o \in Recordings} \cup {Replay(c) : c \in Codecs} \cup {Channel(p.outputs) : p \in Programs}

\* Whatever was run since, cancelled or failed, what is known of a setup in a
\* format is what the last completed run of the same work found, however its
\* outputs are named and ordered and its frame rate written; in a format of
\* which there is none it is an estimate, and of work that wasn't run, nothing.
LastRunCounts ==
    \A setup \in Setups, f \in Formats :
        LET found == lookup(key(setup), f) IN
        /\ \A i \in Last(setup, f) : \E m \in found : m.feeds[1] = runs[i].sustained * m.feeds[2]
        /\ \A m \in found : m.estimated = (Last(setup, f) = {})
        /\ found # None => \E i \in DOMAIN runs : SameWork(runs[i].setup, setup)
\* Where every feed is of work measured in its format, the node is over what it
\* can do if any work has more feeds than were sustained, and where all is of
\* one work only then.
OverMeansOver ==
    LET alike(f) == {g \in Running : g.key = f.key /\ matches_format(f.format, g.format)}
        last(f) == UNION {Last(setup, f.format) : setup \in {t \in Setups : key(t) = f.key}}
        more(f) == \E i \in last(f) : Cardinality(alike(f)) > runs[i].sustained
        over == verdict(get_capacity) = "over"
    IN  (\A f \in Running : last(f) # {}) =>
            /\ (\E f \in Running : more(f)) => over
            /\ over => \E f \in Running : more(f) \/ alike(f) # Running
\* What a check told is what the node has to do once it does what was asked,
\* new or in place of what ran, and what it then says it does (but for the buffer of a channel whose format is
\* changed, which a check counts as it was).
ChecksComeTrue == \A check \in foretold : check.after = get_capacity
\* What an estimate says of a source's format is what recording it would add.
EstimatesAgree ==
    \A outputs \in Recordings : \A s \in {t \in Sources : t \notin Channels /\ format[t] # Unknown} :
        LET entries == {e \in post_capacity_estimate(outputs) : e.format = format[s]}
            check == post_capacity_check(Record(outputs), {s})
            before == check.before
            after == check.after
        IN  \E e \in entries :
                /\ entries = {e} /\ e.sources > 0
                /\ after.load - before.load = IF e.match = None THEN 0 ELSE share(CHOOSE m \in e.match : TRUE)
                /\ (e.match = None) = (after.unknown > before.unknown)
=============================================================================
