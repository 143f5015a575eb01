------------------------------- MODULE Export -------------------------------
(* Exporting a clip (pipeline/replay.rs, export): its files are remuxed from  *)
(* the in point to the out point.  splitmuxsrc plays them from their start    *)
(* until a seek, then from the in point, each stream on a thread of its own;  *)
(* what the muxer has been given can't be taken back, so a probe on each      *)
(* stream lets through only what belongs in the file.  Times are positions in *)
(* the clip's files, two of them, in halves of a sample.                      *)
EXTENDS Integers, Sequences, SequencesExt

CONSTANTS
    Cuts,       \* in and out points
    Meets,      \* how far apart the sound's time stamps may be where the files meet
    FILE,       \* a file's length
    FRAME,      \* a picture's
    CHUNK,      \* the most sound in one buffer
    SAMPLE,
    MaxResends  \* bound: splitmuxsrc sending a stream again from the in point

VARIABLES
    cut, meet,
    stage,      \* of each stream of splitmuxsrc
    at,         \* the buffer it sends next; past the last, its EOS
    span,       \* keep_from_seek: the segment let through
    reached,    \*     how far it has let buffers through
    out,        \* what the muxer has been given: pictures, and sound behind audiorate
    finished,   \* the muxer's pads that have had their EOS
    sought, result, file, resends
vars == <<cut, meet, stage, at, span, reached, out, finished, sought, result, file, resends>>

Streams == {"video", "audio"}
from == cut[1]
to == cut[2]
Silence == -1
None == -1
Most(a, b) == IF a > b THEN a ELSE b
Buffer(pts, length) == [pts |-> pts, length |-> length]

----------------------------------------------------------------------------
(* The clip's files, and what splitmuxsrc sends of them                       *)

\* The files a clip needs: none past the one that holds its out point.
Files == IF to <= FILE THEN 1 ELSE 2
Pictures == [n \in 1..((Files * FILE) \div FRAME) |-> Buffer((n - 1) * FRAME, FRAME)]
\* The second file's sound follows on from the first's by its samples.
Sounds ==
    LET n == (FILE + CHUNK - 1) \div CHUNK
        Part(k) == Buffer(k * CHUNK, IF (k + 1) * CHUNK > FILE THEN FILE - k * CHUNK ELSE CHUNK)
        one == [k \in 1..n |-> Part(k - 1)]
    IN  IF Files = 1 THEN one ELSE one \o [k \in 1..n |-> [one[k] EXCEPT !.pts = @ + FILE + meet]]
Recorded(s) == IF s = "video" THEN Pictures ELSE Sounds
\* A seek is to buffers: those that hold any of what was asked for.
Held(b) == b.pts + b.length > from /\ b.pts < to
Sent(s) == IF stage[s] = "seek" THEN SelectSeq(Recorded(s), Held) ELSE Recorded(s)

----------------------------------------------------------------------------
(* keep_from_seek, and what is behind it                                      *)

\* The seek's segment starts at the in point, near enough; a part's own, at its start.
SegmentComes(s, start, stop) ==
    span' = IF start = from THEN [span EXCEPT ![s] = {<<start, stop>>}] ELSE span
samples(t) == (t + SAMPLE - 1) \div SAMPLE
\* Without its first `head` and last `tail`, each rounded up to whole samples.
trim_audio(b, head, tail) ==
    LET skip == samples(head)
        kept == b.length \div SAMPLE - skip - samples(tail)
    IN  IF kept <= 0 THEN {} ELSE {Buffer(b.pts + skip * SAMPLE, kept * SAMPLE)}
\* What is left of a buffer: nothing goes back over what has been let through.
keep_from_seek(s, b) ==
    IF span[s] = {} THEN {}
    ELSE LET open == CHOOSE o \in span[s] : TRUE
             floor == Most(reached[s], open[1])
             end == b.pts + b.length
             head == Most(floor - b.pts, 0)
             tail == IF open[2] # None THEN Most(end - open[2], 0) ELSE 0
         IN  CASE s = "video" -> IF b.pts <= reached[s] THEN {} ELSE {b}
               [] head = 0 /\ tail = 0 -> {b}
               [] OTHER -> trim_audio(b, head, tail)
\* A picture's time stamp, or where sound ends.
Reach(s, b) == IF s = "video" THEN b.pts ELSE b.pts + b.length
\* Sound is kept to its time stamps, to the sample: gaps filled, overlaps dropped.
audiorate(heard, b) ==
    LET first == (b.pts - from) \div SAMPLE
        Of(k) == b.pts + (k - 1) * SAMPLE
        given == [k \in 1..(b.length \div SAMPLE) |-> Of(k)]
        gap == [k \in 1..Most(first - Len(heard), 0) |-> Silence]
        over == Most(Len(heard) - first, 0)
    IN  heard \o gap \o SubSeq(given, over + 1, Len(given))
Written(s, b) == IF s = "video" THEN Append(out[s], b.pts) ELSE audiorate(out[s], b)

----------------------------------------------------------------------------
(* export, and splitmuxsrc's threads                                          *)

Running == result = "none"
\* A stream's first segment, which the seek waits for.
Starts(s) ==
    /\ Running /\ stage[s] = "waiting" /\ stage' = [stage EXCEPT ![s] = "part"] /\ SegmentComes(s, 0, None)
    /\ UNCHANGED <<cut, meet, at, reached, out, finished, sought, result, file, resends>>
\* A seek that lands before a stream has started misses it.
seek ==
    /\ Running /\ ~sought /\ \A s \in Streams : stage[s] # "waiting"
    /\ sought' = TRUE /\ stage' = [s \in Streams |-> IF stage[s] = "part" THEN "sought" ELSE stage[s]]
    /\ UNCHANGED <<cut, meet, at, span, reached, out, finished, result, file, resends>>
\* Its flushes are dropped, and its segment is let through.
Seeks(s) ==
    /\ Running /\ stage[s] = "sought" /\ stage' = [stage EXCEPT ![s] = "seek"] /\ at' = [at EXCEPT ![s] = 1]
    /\ SegmentComes(s, from, to)
    /\ UNCHANGED <<cut, meet, reached, out, finished, sought, result, file, resends>>
\* A flush after the segment, and the in point's buffers under the same one.
Resends(s) ==
    /\ Running /\ stage[s] = "seek" /\ resends < MaxResends /\ resends' = resends + 1
    /\ 1 < at[s] /\ at[s] <= Len(Sent(s)) + 1 /\ at' = [at EXCEPT ![s] = 1]
    /\ UNCHANGED <<cut, meet, stage, span, reached, out, finished, sought, result, file>>
Sends(s) ==
    /\ Running /\ stage[s] \in {"part", "seek"} /\ at[s] <= Len(Sent(s))
    /\ at' = [at EXCEPT ![s] = @ + 1]
    /\ LET kept == IF s \in finished THEN {} ELSE keep_from_seek(s, Sent(s)[at[s]]) IN
       IF kept = {} THEN UNCHANGED <<reached, out>>
       ELSE \E b \in kept : reached' = [reached EXCEPT ![s] = Reach(s, b)] /\ out' = [out EXCEPT ![s] = Written(s, b)]
    /\ UNCHANGED <<cut, meet, stage, span, finished, sought, result, file, resends>>
\* One from before the seek must not reach the muxer: its pad would stay finished.
SendsEos(s) ==
    /\ Running /\ stage[s] \in {"part", "seek"} /\ at[s] = Len(Sent(s)) + 1 /\ at' = [at EXCEPT ![s] = @ + 1]
    /\ finished' = IF span[s] = {} THEN finished ELSE finished \cup {s}
    /\ UNCHANGED <<cut, meet, stage, span, reached, out, sought, result, file, resends>>
\* With every pad finished, the file is.
export ==
    \/ /\ Running /\ sought /\ finished = Streams /\ result' = "ok" /\ UNCHANGED file
       /\ UNCHANGED <<cut, meet, stage, at, span, reached, out, finished, sought, resends>>
    \* Files that can't be read, a disk that is full, or nothing in time.
    \/ /\ Running /\ result' = "error" /\ file' = FALSE
       /\ UNCHANGED <<cut, meet, stage, at, span, reached, out, finished, sought, resends>>

Init ==
    /\ cut \in Cuts /\ meet \in Meets /\ stage = [s \in Streams |-> "waiting"] /\ at = [s \in Streams |-> 1]
    /\ span = [s \in Streams |-> {}] /\ reached = [s \in Streams |-> None] /\ out = [s \in Streams |-> <<>>]
    /\ finished = {} /\ sought = FALSE /\ result = "none" /\ file = TRUE /\ resends = 0
Next == (\E s \in Streams : Starts(s) \/ Seeks(s) \/ Resends(s) \/ Sends(s) \/ SendsEos(s)) \/ seek \/ export

----------------------------------------------------------------------------
\* Where the clip starts as its first file does, the part's own segment is
\* taken for the seek's, and what comes before the seek is let through.
Told == from > 0

\* The file has the clip's pictures, from the one at its in point, in order
\* and each once, however far a stream ran before the seek, and whatever is
\* sent again after it.
PicturesAreTheClips ==
    Told => LET of == SelectSeq(Pictures, Held)
                pictures == [n \in 1..Len(of) |-> of[n].pts]
            IN  IsPrefix(out["video"], pictures) /\ (result = "ok" => out["video"] = pictures)

\* Its sound is the clip's, to the sample: none from before the in point or
\* past the out point, and each sample by the picture it was recorded with,
\* also behind a place where two files meet.
SoundIsInStep ==
    Told => LET heard == out["audio"] IN
        /\ \A k \in 1..Len(heard) : heard[k] # Silence =>
               heard[k] \in from..to - 1 /\ from + (k - 1) * SAMPLE - heard[k] \in -SAMPLE + 1..SAMPLE - 1
        /\ result = "ok" => to - from - Len(heard) * SAMPLE < 2 * SAMPLE

\* No stream is left behind: once what splitmuxsrc sends has ended, so has the
\* file ("A seek that lands while it does can miss a stream").
NoneIsMissed ==
    sought /\ (\A s \in Streams : stage[s] # "sought" /\ at[s] > Len(Sent(s)) + 1) => finished = Streams

\* A file that is there is whole: an export that fails leaves none.
FileIsWhole == result # "none" => (file <=> result = "ok" /\ finished = Streams)
=============================================================================
