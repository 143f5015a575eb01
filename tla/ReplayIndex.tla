---------------------------- MODULE ReplayIndex ----------------------------
(* A source's replay buffer (src/node/src/pipeline/replay.rs): the index of   *)
(* the segments its leg records, one second each, trimmed to a length, held   *)
(* by the clips that play from it or are being saved, and read on by them.    *)
EXTENDS Naturals, Sequences, FiniteSets, SequenceTheorems, WellFoundedInduction, TLAPS

CONSTANTS
    SEGMENT, GAP,   \* in frames
    Keeps,          \* lengths a buffer is given
    Codecs,
    MaxTime, MaxFiles, MaxClips

VARIABLES
    segments,       \* finished: [n, start, end], the file's number and its span
    open,           \* the file being written, or None
    next_number,
    codec,          \* what the segments hold
    keep,
    clips,          \* [id, files, whole]: files held, and read on into
    disk,           \* the files there are
    leg,            \* "none", or what it does: "names", "opens", "writes"
    now,
    log,            \* every segment finished since the buffer was cleared
    stray           \* files of legs that stopped before they were listed
vars == <<segments, open, next_number, codec, keep, clips, disk, leg, now, log, stray>>

None == [n |-> 0]
Files(segs) == {segs[i].n : i \in DOMAIN segs}
First(S) == CHOOSE i \in S : \A j \in S : i <= j
Last(S) == CHOOSE i \in S : \A j \in S : i >= j
Floor(a, b) == IF a > b THEN a - b ELSE 0

\* Each clip holds what ends after its first file starts.
Holds(held) == {c.files[1].start : c \in held}

\* mutant: what is past the length goes, held or not.
PastAnyway(segment, newest, length, held) == segment.end <= Floor(newest, length)
Past(segment, newest, length, held) ==
    segment.end <= Floor(newest, length) /\ \A h \in held : segment.end <= h

\* Deletes the oldest segments past the length, up to the first that is held.
trim(segs, length, held) ==
    IF segs = <<>> THEN <<>>
    ELSE LET kept == {i \in DOMAIN segs : ~Past(segs[i], segs[Len(segs)].end, length, held)}
         IN  IF kept = {} THEN <<>> ELSE SubSeq(segs, First(kept), Len(segs))

Trimmed(segs, length, now_held) ==
    LET left == trim(segs, length, Holds(now_held))
    IN  /\ segments' = left
        /\ clips' = now_held
        /\ disk' = disk \ (Files(segs) \ Files(left))

Gapless(a, b) == b.start <= a.end + GAP

\* The segments clip takes: from the one `from` falls in, or the next, as far
\* as `to`, or else to the newest of its stretch.
Stretch(from) ==
    LET at == First({i \in DOMAIN segments : segments[i].end > from})
        joined(i, j) == \A k \in i..j - 1 : Gapless(segments[k], segments[k + 1])
    IN  [first |-> First({i \in 1..at : joined(i, at)}),
         last |-> Last({i \in at..Len(segments) : joined(at, i)})]
Span(from, to) ==
    LET s == Stretch(from)
        start == segments[s.first].start
        end == segments[s.last].end
        begins == IF from < start THEN start ELSE from
        ends == IF to = 0 \/ to > end THEN end ELSE IF to < begins THEN begins ELSE to
        begin == First({i \in s.first..s.last : segments[i].end > begins})
        stop == First({i \in begin..s.last : segments[i].end >= ends})
    IN  IF ends <= begins THEN <<>> ELSE SubSeq(segments, begin, stop)

clip ==
    /\ Cardinality(clips) < MaxClips
    /\ \E from \in 0..now, to \in 0..now :
          /\ \E i \in DOMAIN segments : segments[i].end > from
          /\ Span(from, to) # <<>>
          /\ clips' = clips \cup {[id |-> First((1..MaxClips) \ {c.id : c \in clips}),
                                   files |-> Span(from, to), whole |-> TRUE]}
    /\ UNCHANGED <<segments, open, next_number, codec, keep, disk, leg, now, log, stray>>

\* What has been recorded after the clip's last file, up to a gap; nothing
\* once that has left the index.
after(c) ==
    LET at == {i \in DOMAIN segments : segments[i].n = c.files[Len(c.files)].n}
    IN  IF at = {} THEN <<>>
        ELSE SubSeq(segments, First(at) + 1, Stretch(segments[First(at)].start).last)
newer ==
    /\ \E c \in clips :
          /\ c.whole /\ after(c) # <<>>
          /\ clips' = (clips \ {c}) \cup {[c EXCEPT !.files = @ \o after(c)]}
    /\ UNCHANGED <<segments, open, next_number, codec, keep, disk, leg, now, log, stray>>

\* The clip ends: its hold goes, and what only it kept.
HoldDrops ==
    /\ \E c \in clips : Trimmed(segments, keep, clips \ {c})
    /\ UNCHANGED <<open, next_number, codec, keep, leg, now, log, stray>>

set_keep ==
    /\ \E length \in Keeps \ {keep} : keep' = length /\ Trimmed(segments, length, clips)
    /\ UNCHANGED <<open, next_number, codec, leg, now, log, stray>>

----------------------------------------------------------------------------
(* The leg *)

\* A leg of another codec clears the buffer: its files go, held or not.
LegStarts ==
    /\ leg = "none"
    /\ leg' = "names"
    /\ \E c \in Codecs :
          \/ /\ c = codec
             /\ UNCHANGED <<segments, open, codec, clips, disk, log, stray>>
          \/ /\ c # codec /\ codec' = c
             /\ segments' = <<>> /\ open' = None /\ disk' = {} /\ log' = <<>> /\ stray' = {}
             /\ clips' = {[d EXCEPT !.whole = FALSE] : d \in clips}
    /\ UNCHANGED <<next_number, keep, now>>

\* splitmuxsink asks for the name of its next file, and writes it.
format_location ==
    /\ leg = "names" /\ next_number < MaxFiles
    /\ leg' = "opens"
    /\ next_number' = next_number + 1
    /\ disk' = disk \cup {next_number + 1}
    /\ UNCHANGED <<segments, open, codec, keep, clips, now, log, stray>>

\* The file a stopped leg left open is incomplete: it is deleted.
opened ==
    /\ leg = "opens" /\ leg' = "writes"
    /\ open' = [n |-> next_number, start |-> now]
    /\ disk' = disk \ {open.n}
    /\ UNCHANGED <<segments, next_number, codec, keep, clips, now, log, stray>>

\* A file that ends as it starts is deleted.
closed ==
    /\ leg = "writes" /\ leg' = "names"
    /\ open' = None
    /\ LET segment == [n |-> open.n, start |-> open.start, end |-> now]
       IN  \/ /\ now <= open.start
              /\ disk' = disk \ {open.n}
              /\ UNCHANGED <<segments, clips, log>>
           \/ /\ now > open.start
              /\ log' = Append(log, segment)
              /\ Trimmed(Append(segments, segment), keep, clips)
    /\ UNCHANGED <<next_number, codec, keep, now, stray>>

\* What it was writing is lost.
LegStops ==
    /\ leg # "none" /\ leg' = "none"
    /\ stray' = IF leg = "opens" THEN stray \cup {next_number} ELSE stray
    /\ UNCHANGED <<segments, open, next_number, codec, keep, clips, disk, now, log>>

Tick ==
    /\ now < MaxTime /\ now' = now + 1
    /\ leg = "writes" => now < open.start + SEGMENT
    /\ UNCHANGED <<segments, open, next_number, codec, keep, clips, disk, leg, log, stray>>

----------------------------------------------------------------------------

Init ==
    /\ segments = <<>> /\ open = None /\ next_number = 0 /\ codec = "none"
    /\ keep \in Keeps /\ clips = {} /\ disk = {} /\ leg = "none" /\ now = 0
    /\ log = <<>> /\ stray = {}

Next ==
    \/ clip \/ newer \/ HoldDrops \/ set_keep
    \/ LegStarts \/ format_location \/ opened \/ closed \/ LegStops \/ Tick

Spec == Init /\ [][Next]_vars

----------------------------------------------------------------------------
(* Properties *)

TypeOK ==
    /\ next_number \in 0..MaxFiles /\ now \in 0..MaxTime /\ keep \in Keeps
    /\ leg \in {"none", "names", "opens", "writes"}

\* The files of a clip are there while it plays or is saved, however the
\* buffer is trimmed, unless it was started again with another codec.
HeldFilesStay == \A c \in clips : c.whole => Files(c.files) \subseteq disk

\* A clip's files, those it read on into with them, follow on from each other
\* as they were recorded, none left out, none twice, without a gap.
ClipsAreWhole ==
    \A c \in clips : c.whole =>
       \E i \in 0..Len(log) :
          /\ i + Len(c.files) <= Len(log)
          /\ c.files = SubSeq(log, i + 1, i + Len(c.files))
          /\ \A k \in 1..Len(c.files) - 1 : c.files[k + 1].start <= c.files[k].end + GAP

\* Nothing past the buffer's length is kept, but for clips.
KeepsItsLength ==
    segments # <<>> =>
       LET oldest == segments[1]
       IN  \/ oldest.end > Floor(segments[Len(segments)].end, keep)
           \/ \E c \in clips : oldest.end > c.files[1].start

\* What is on disk is in the index, or being written.
DiskIsListed ==
    disk = Files(segments) \cup stray \cup ({open.n} \ {0}) \cup (IF leg = "opens" THEN {next_number} ELSE {})
-----------------------------------------------------------------------------
(* What these rest on, step by step, and the proof *)

\* Lengths are in frames.
Lengths ==
    /\ GAP \in Nat /\ SEGMENT \in Nat /\ Keeps \subseteq Nat /\ MaxTime \in Nat /\ MaxFiles \in Nat

Segment == [n : Nat, start : Nat, end : Nat]

\* Segments in order of time and of number, the newest of them, and some of
\* them one after the other.
InOrder(l) ==
    /\ l \in Seq(Segment)
    /\ \A i \in 1..Len(l) : l[i].start < l[i].end
    /\ \A i, j \in 1..Len(l) : i < j => l[i].n < l[j].n /\ l[i].end <= l[j].start
EndOf(segs, l) ==
    /\ segs \in Seq(Segment) /\ Len(segs) <= Len(l)
    /\ \A i \in 1..Len(segs) : segs[i] = l[Len(l) - Len(segs) + i]
PartOf(files, l) ==
    \E i \in 0..Len(l) : /\ i + Len(files) <= Len(l)
                         /\ \A j \in 1..Len(files) : files[j] = l[i + j]
NoGaps(files) == \A k \in 1..Len(files) - 1 : files[k + 1].start <= files[k].end + GAP

LogIsOrdered ==
    /\ InOrder(log) /\ EndOf(segments, log)
    /\ \A i \in 1..Len(log) : log[i].n \in 1..next_number /\ log[i].end <= now

\* The file that is open, and the one about to be, come after those finished;
\* files lost are none of these.
FilesDiffer ==
    /\ \/ open = None
       \/ /\ open \in [n : 1..next_number, start : 0..now]
          /\ \A i \in 1..Len(log) : log[i].n < open.n /\ log[i].end <= open.start
    /\ leg = "writes" => open # None
    /\ leg = "opens" => /\ next_number > open.n /\ next_number \notin stray
                        /\ \A i \in 1..Len(log) : log[i].n < next_number
    /\ stray \subseteq 1..next_number /\ open.n \notin stray
    /\ \A i \in 1..Len(log) : log[i].n \notin stray

\* A clip's files are of the log as they follow on there, unless the buffer was
\* cleared, and on disk.
ClipIsKept(c) ==
    /\ DOMAIN c = {"id", "files", "whole"} /\ c.files \in Seq(Segment) /\ c.files # <<>>
    /\ c.whole => PartOf(c.files, log) /\ NoGaps(c.files) /\ Files(c.files) \subseteq disk

IInv ==
    /\ TypeOK /\ LogIsOrdered /\ FilesDiffer
    /\ \A c \in clips : ClipIsKept(c)
    /\ KeepsItsLength /\ DiskIsListed

LEMMA FirstIs ==
    ASSUME NEW T \in SUBSET Nat, T # {} PROVE First(T) \in T /\ \A y \in T : First(T) <= y
<1>1. PICK x \in T : \A y \in T : ~ (<<y, x>> \in OpToRel(<, Nat))
  BY NatLessThanWellFounded, WFMin
<1>2. ASSUME NEW y \in T, y < x PROVE FALSE
  <2>1. <<y, x>> \in Nat \X Nat /\ <<y, x>>[1] < <<y, x>>[2] BY <1>2
  <2>2. <<y, x>> \in OpToRel(<, Nat) BY <2>1 DEF OpToRel
  <2> QED BY <2>2, <1>1
<1>3. \A y \in T : x <= y BY <1>2
<1> QED BY <1>3 DEF First

LEMMA LastIs ==
    ASSUME NEW n \in Nat, NEW T \in SUBSET (0..n), T # {} PROVE Last(T) \in T /\ \A y \in T : Last(T) >= y
<1> DEFINE U == {n - y : y \in T}
<1>1. \A y \in T : n - y \in Nat /\ n - (n - y) = y OBVIOUS
<1>2. U \in SUBSET Nat /\ U # {} BY <1>1
<1>3. PICK x \in U : \A y \in U : x <= y BY <1>2, FirstIs
<1>4. PICK y \in T : x = n - y BY <1>3
<1>5. ASSUME NEW z \in T PROVE y >= z
  <2>1. n - z \in U OBVIOUS
  <2>2. n - y <= n - z BY <1>3, <1>4, <2>1
  <2> QED BY <1>1, <2>2
<1>6. y \in T /\ \A z \in T : y >= z BY <1>4, <1>5
<1> QED BY <1>6 DEF Last

LEMMA SubSeqIs ==
    ASSUME NEW s \in Seq(Segment), NEW a \in Nat \ {0}, NEW b \in Nat, b <= Len(s), a <= b + 1
    PROVE  /\ SubSeq(s, a, b) \in Seq(Segment) /\ Len(SubSeq(s, a, b)) = b - a + 1
           /\ \A i \in 1..Len(SubSeq(s, a, b)) : SubSeq(s, a, b)[i] = s[a + i - 1]
<1>1. \A i \in a..b : s[i] \in Segment BY ElementOfSeq
<1>2. Len(s) \in Nat BY LenProperties
<1> QED BY <1>1, <1>2, SubSeqProperties

\* A list of files is such a part, or not, whichever way it is said.
LEMMA PartIs ==
    ASSUME NEW l \in Seq(Segment), NEW f \in Seq(Segment)
    PROVE  PartOf(f, l) <=> \E i \in 0..Len(l) : i + Len(f) <= Len(l) /\ f = SubSeq(l, i + 1, i + Len(f))
<1>1. Len(l) \in Nat /\ Len(f) \in Nat BY LenProperties
<1>2. ASSUME NEW i \in 0..Len(l), i + Len(f) <= Len(l)
      PROVE  ((\A j \in 1..Len(f) : f[j] = l[i + j]) <=> f = SubSeq(l, i + 1, i + Len(f)))
  <2> DEFINE s == SubSeq(l, i + 1, i + Len(f))
  <2>1. /\ s \in Seq(Segment) /\ Len(s) = Len(f) /\ \A j \in 1..Len(f) : s[j] = l[i + j]
    <3>1. i + 1 \in Nat \ {0} /\ i + Len(f) \in Nat /\ i + 1 <= i + Len(f) + 1 /\ i + Len(f) - (i + 1) + 1 = Len(f)
      BY <1>1
    <3>2. \A j \in 1..Len(f) : i + 1 + j - 1 = i + j BY <1>1
    <3> QED BY <1>2, <3>1, <3>2, SubSeqIs
  <2> HIDE DEF s
  <2>2. (\A j \in 1..Len(f) : f[j] = l[i + j]) <=> f = s BY <2>1, SeqEqual
  <2> QED BY <1>1, <1>2, <2>2 DEF s
<1>3. ASSUME PartOf(f, l) PROVE \E i \in 0..Len(l) : i + Len(f) <= Len(l) /\ f = SubSeq(l, i + 1, i + Len(f))
  BY <1>2, <1>3 DEF PartOf
<1>4. ASSUME NEW i \in 0..Len(l), i + Len(f) <= Len(l), f = SubSeq(l, i + 1, i + Len(f)) PROVE PartOf(f, l)
  <2>1. \A j \in 1..Len(f) : f[j] = l[i + j] BY <1>2, <1>4
  <2> QED BY <1>4, <2>1 DEF PartOf
<1> QED BY <1>3, <1>4

LEMMA FilesIs == ASSUME NEW s \in Seq(Segment)
                 PROVE  Files(s) = {s[i].n : i \in 1..Len(s)} /\ Files(<<>>) = {}
<1>1. DOMAIN s = 1..Len(s) BY LenProperties
<1> QED BY <1>1 DEF Files

\* What trim leaves is the end of what there was, of which only what is past the
\* length goes, and its oldest is not.
LEMMA TrimIs ==
    ASSUME NEW segs \in Seq(Segment), NEW length, NEW held
    PROVE  LET left == trim(segs, length, held)
           IN  /\ left \in Seq(Segment) /\ Len(left) <= Len(segs)
               /\ \A i \in 1..Len(left) : left[i] = segs[Len(segs) - Len(left) + i]
               /\ \A i \in 1..Len(segs) - Len(left) : Past(segs[i], segs[Len(segs)].end, length, held)
               /\ left # <<>> => ~Past(left[1], left[Len(left)].end, length, held)
<1> DEFINE left == trim(segs, length, held)
           kept == {i \in DOMAIN segs : ~Past(segs[i], segs[Len(segs)].end, length, held)}
<1>1. Len(segs) \in Nat /\ DOMAIN segs = 1..Len(segs) BY LenProperties
<1>2. CASE segs = <<>>
  <2>1. left = <<>> /\ Len(segs) = 0 BY <1>2, EmptySeq DEF trim
  <2> QED BY <2>1, EmptySeq
<1>3. CASE segs # <<>> /\ kept = {}
  <2>1. left = <<>> /\ Len(<<>>) = 0 /\ <<>> \in Seq(Segment) BY <1>3, EmptySeq DEF trim
  <2>2. \A i \in 1..Len(segs) : Past(segs[i], segs[Len(segs)].end, length, held) BY <1>1, <1>3
  <2> QED BY <1>1, <2>1, <2>2
<1>4. CASE segs # <<>> /\ kept # {}
  <2> DEFINE k == First(kept)
  <2>1. kept \in SUBSET Nat BY <1>1
  <2>2. k \in kept /\ \A i \in kept : k <= i BY <1>4, <2>1, FirstIs
  <2>3. k \in 1..Len(segs) /\ ~Past(segs[k], segs[Len(segs)].end, length, held) BY <1>1, <2>2
  <2>4. left = SubSeq(segs, k, Len(segs)) BY <1>4 DEF trim
  <2>5. ASSUME NEW i \in 1..k - 1 PROVE Past(segs[i], segs[Len(segs)].end, length, held)
    <3>1. i \in DOMAIN segs /\ ~(k <= i) BY <1>1, <2>3
    <3>2. i \notin kept BY <2>2, <3>1
    <3> QED BY <3>1, <3>2
  <2> HIDE DEF left, kept, k
  <2>6. /\ left \in Seq(Segment) /\ Len(left) = Len(segs) - k + 1
        /\ \A i \in 1..Len(left) : left[i] = segs[k + i - 1]
    BY <1>1, <2>3, <2>4, SubSeqIs
  <2>7. /\ left[1] = segs[k] /\ left[Len(left)] = segs[Len(segs)]
        /\ Len(segs) - Len(left) = k - 1 /\ Len(left) <= Len(segs)
        /\ \A i \in 1..Len(left) : left[i] = segs[Len(segs) - Len(left) + i]
    <3>1. k + 1 - 1 = k /\ 1 \in 1..Len(left) /\ Len(left) \in 1..Len(left) /\ k + Len(left) - 1 = Len(segs)
      BY <1>1, <2>3, <2>6
    <3>2. left[1] = segs[k] /\ left[Len(left)] = segs[Len(segs)] BY <2>6, <3>1
    <3>3. \A i \in 1..Len(left) : k + i - 1 = Len(segs) - Len(left) + i BY <1>1, <2>3, <2>6
    <3> QED BY <1>1, <2>3, <2>6, <3>2, <3>3
  <2> QED BY <2>3, <2>5, <2>6, <2>7 DEF left
<1> HIDE DEF left, kept
<1> QED BY <1>2, <1>3, <1>4 DEF left

\* Trimming keeps the end of the log, and what a clip has of it.
LEMMA TrimKeeps ==
    ASSUME Lengths, NEW l, InOrder(l), NEW segs, EndOf(segs, l), NEW length, NEW held,
           \A c \in held : c.files \in Seq(Segment) /\ c.files # <<>>
    PROVE  LET left == trim(segs, length, Holds(held))
           IN  /\ EndOf(left, l) /\ Files(left) \subseteq Files(segs)
               /\ left # <<>> => ~Past(left[1], left[Len(left)].end, length, Holds(held))
               /\ \A c \in held : PartOf(c.files, l) => Files(c.files) \cap (Files(segs) \ Files(left)) = {}
<1> DEFINE left == trim(segs, length, Holds(held))
           gone == Len(segs) - Len(left)
<1>1. /\ l \in Seq(Segment) /\ segs \in Seq(Segment) /\ Len(segs) <= Len(l)
      /\ \A i \in 1..Len(segs) : segs[i] = l[Len(l) - Len(segs) + i]
  BY DEF InOrder, EndOf
<1>2. /\ left \in Seq(Segment) /\ Len(left) <= Len(segs)
      /\ \A i \in 1..Len(left) : left[i] = segs[gone + i]
      /\ \A i \in 1..gone : Past(segs[i], segs[Len(segs)].end, length, Holds(held))
      /\ left # <<>> => ~Past(left[1], left[Len(left)].end, length, Holds(held))
  BY <1>1, TrimIs
<1> HIDE DEF left
<1>3. Len(l) \in Nat /\ Len(segs) \in Nat /\ Len(left) \in Nat
  BY <1>1, <1>2, LenProperties
<1>4. \A i \in 1..Len(left) : gone + i \in 1..Len(segs) BY <1>2, <1>3
<1>5. EndOf(left, l)
  <2>1. \A i \in 1..Len(left) : Len(l) - Len(segs) + (gone + i) = Len(l) - Len(left) + i BY <1>3
  <2>2. \A i \in 1..Len(left) : left[i] = l[Len(l) - Len(left) + i] BY <1>1, <1>2, <1>4, <2>1
  <2> QED BY <1>1, <1>2, <1>3, <2>2 DEF EndOf
<1>6. ASSUME NEW x \in Files(left) PROVE x \in Files(segs)
  <2>1. PICK i \in 1..Len(left) : x = left[i].n BY <1>2, <1>6, FilesIs
  <2>2. gone + i \in 1..Len(segs) /\ x = segs[gone + i].n BY <1>2, <1>4, <2>1
  <2> QED BY <1>1, <2>2, FilesIs
<1>7. ASSUME NEW c \in held, PartOf(c.files, l), NEW x \in Files(c.files), x \in Files(segs), x \notin Files(left)
      PROVE  FALSE
  <2>1. PICK i \in 1..Len(segs) : x = segs[i].n BY <1>1, <1>7, FilesIs
  <2>2. PICK j \in 1..Len(c.files) : x = c.files[j].n BY <1>7, FilesIs
  <2>3. PICK b \in 0..Len(l) : b + Len(c.files) <= Len(l) /\ \A k \in 1..Len(c.files) : c.files[k] = l[b + k]
    BY <1>7 DEF PartOf
  <2>4. i \in 1..gone
    <3>1. ASSUME i > gone PROVE FALSE
      <4>1. i - gone \in 1..Len(left) /\ gone + (i - gone) = i BY <1>2, <1>3, <2>1, <3>1
      <4>2. left[i - gone] = segs[i] BY <1>2, <4>1
      <4> QED BY <1>2, <1>7, <2>1, <4>1, <4>2, FilesIs
    <3> QED BY <1>2, <1>3, <3>1
  <2>5. Len(c.files) \in Nat /\ 1 \in 1..Len(c.files) BY <1>7, <2>2, LenProperties
  <2>6. segs[i].end <= c.files[1].start
    <3>1. c.files[1].start \in Holds(held) BY DEF Holds
    <3> QED BY <1>2, <2>4, <3>1 DEF Past
  <2> DEFINE a == Len(l) - Len(segs) + i
  <2>7. a \in 1..Len(l) /\ b + j \in 1..Len(l) /\ b + 1 \in 1..Len(l) /\ b + 1 <= b + j
    BY <1>1, <1>3, <2>1, <2>2, <2>3, <2>5
  <2>8. l[a].n = l[b + j].n /\ l[a].end <= l[b + 1].start
    BY <1>1, <2>1, <2>2, <2>3, <2>5, <2>6
  <2> HIDE DEF a
  <2>9. \A k \in 1..Len(l) : l[k].n \in Nat /\ l[k].start \in Nat /\ l[k].end \in Nat
    <3>1. \A k \in 1..Len(l) : l[k] \in Segment BY <1>1, ElementOfSeq
    <3> QED BY <3>1 DEF Segment
  <2>10. a = b + j
    <3>1. ~(a < b + j) /\ ~(b + j < a) BY <2>7, <2>8, <2>9 DEF InOrder
    <3> QED BY <1>3, <2>7, <3>1
  <2>11. l[a].start < l[a].end /\ l[b + 1].start < l[b + 1].end BY <2>7 DEF InOrder
  <2>12. CASE a = b + 1
    BY <2>7, <2>8, <2>9, <2>11, <2>12
  <2>13. CASE b + 1 < a
    <3>1. l[b + 1].end <= l[a].start BY <2>7, <2>13 DEF InOrder
    <3>2. l[a].end \in Nat /\ l[a].start \in Nat /\ l[b + 1].start \in Nat /\ l[b + 1].end \in Nat
      BY <2>7, <2>9
    <3>3. l[a].end <= l[b + 1].start /\ l[b + 1].start < l[b + 1].end /\ l[a].start < l[a].end
      BY <2>8, <2>11
    <3>4. \A p, q, u, v \in Nat : ~(q <= u /\ u < v /\ v <= p /\ p < q) OBVIOUS
    <3> QED BY <3>1, <3>2, <3>3, <3>4
  <2> QED BY <1>3, <2>7, <2>10, <2>12, <2>13
<1> QED BY <1>2, <1>5, <1>6, <1>7 DEF left

\* A run of segments without a gap.
LEMMA RunIs ==
    ASSUME LogIsOrdered, NEW a \in 1..Len(segments), NEW b \in Nat, a <= b + 1, b <= Len(segments),
           \A k \in a..b - 1 : Gapless(segments[k], segments[k + 1])
    PROVE  LET f == SubSeq(segments, a, b)
           IN  /\ f \in Seq(Segment) /\ Len(f) = b - a + 1 /\ Files(f) \subseteq Files(segments)
               /\ \A j \in 1..Len(f) : f[j] = segments[a + j - 1] /\ a + j - 1 \in 1..Len(segments)
               /\ NoGaps(f) /\ PartOf(f, log)
<1> DEFINE f == SubSeq(segments, a, b)
<1>1. segments \in Seq(Segment) BY DEF LogIsOrdered, EndOf
<1>2. Len(segments) \in Nat BY <1>1, LenProperties
<1>3. f \in Seq(Segment) /\ Len(f) = b - a + 1 /\ \A j \in 1..Len(f) : f[j] = segments[a + j - 1]
  BY <1>1, <1>2, SubSeqIs
<1> HIDE DEF f
<1>4. \A j \in 1..Len(f) : a + j - 1 \in 1..Len(segments) BY <1>2, <1>3
<1>5. ASSUME NEW x \in Files(f) PROVE x \in Files(segments)
  <2>1. PICK j \in 1..Len(f) : x = f[j].n BY <1>3, <1>5, FilesIs
  <2>2. a + j - 1 \in 1..Len(segments) /\ x = segments[a + j - 1].n BY <1>3, <1>4, <2>1
  <2> QED BY <1>1, <2>2, FilesIs
<1>6. NoGaps(f)
  <2> SUFFICES ASSUME NEW k \in 1..Len(f) - 1 PROVE f[k + 1].start <= f[k].end + GAP
    BY DEF NoGaps
  <2>1. k \in 1..Len(f) /\ k + 1 \in 1..Len(f) /\ a + k - 1 \in a..b - 1 /\ a + (k + 1) - 1 = (a + k - 1) + 1
    BY <1>2, <1>3
  <2>2. f[k] = segments[a + k - 1] /\ f[k + 1] = segments[(a + k - 1) + 1] BY <1>3, <2>1
  <2> QED BY <2>1, <2>2 DEF Gapless
<1>7. PartOf(f, log)
  <2> DEFINE i == Len(log) - Len(segments) + (a - 1)
  <2>1. /\ log \in Seq(Segment) /\ Len(segments) <= Len(log)
        /\ \A k \in 1..Len(segments) : segments[k] = log[Len(log) - Len(segments) + k]
    BY DEF LogIsOrdered, InOrder, EndOf
  <2>2. Len(log) \in Nat BY <2>1, LenProperties
  <2>3. i \in 0..Len(log) /\ i + Len(f) <= Len(log) BY <1>2, <1>3, <2>1, <2>2
  <2>4. \A j \in 1..Len(f) : Len(log) - Len(segments) + (a + j - 1) = i + j BY <1>2, <1>3, <2>2
  <2>5. \A j \in 1..Len(f) : f[j] = log[i + j] BY <1>3, <1>4, <2>1, <2>4
  <2> HIDE DEF i
  <2> QED BY <2>3, <2>5 DEF PartOf
<1> QED BY <1>3, <1>4, <1>5, <1>6, <1>7 DEF f
\* The stretch a time is in: the first segment that ends after it, and those
\* around that without a gap.
LEMMA StretchIs ==
    ASSUME LogIsOrdered, NEW from, \E i \in 1..Len(segments) : segments[i].end > from
    PROVE  LET s == Stretch(from)
           IN  \E at \in 1..Len(segments) :
                  /\ s.first \in 1..at /\ s.last \in at..Len(segments) /\ segments[at].end > from
                  /\ \A i \in 1..Len(segments) : segments[i].end > from => at <= i
                  /\ \A k \in s.first..s.last - 1 : Gapless(segments[k], segments[k + 1])
<1> DEFINE at == First({i \in DOMAIN segments : segments[i].end > from})
           joined(i, j) == \A k \in i..j - 1 : Gapless(segments[k], segments[k + 1])
           back == {i \in 1..at : joined(i, at)}
           on == {i \in at..Len(segments) : joined(at, i)}
           s == Stretch(from)
<1>1. segments \in Seq(Segment) BY DEF LogIsOrdered, EndOf
<1>2. Len(segments) \in Nat /\ DOMAIN segments = 1..Len(segments) BY <1>1, LenProperties
<1>3. /\ at \in 1..Len(segments) /\ segments[at].end > from
      /\ \A i \in 1..Len(segments) : segments[i].end > from => at <= i
  <2> DEFINE T == {i \in DOMAIN segments : segments[i].end > from}
  <2>1. T \in SUBSET Nat /\ T # {} BY <1>2
  <2>2. First(T) \in T /\ \A y \in T : First(T) <= y BY <2>1, FirstIs
  <2> QED BY <1>2, <2>2
<1>4. s = [first |-> First(back), last |-> Last(on)] BY DEF Stretch
<1> HIDE DEF at, s
<1>5. joined(at, at) BY <1>2, <1>3
<1>6. First(back) \in back
  <2>1. back \in SUBSET Nat /\ at \in back BY <1>2, <1>3, <1>5
  <2> QED BY <2>1, FirstIs
<1>7. Last(on) \in on
  <2>1. on \in SUBSET (0..Len(segments)) /\ at \in on BY <1>2, <1>3, <1>5
  <2> QED BY <1>2, <2>1, LastIs
<1>8. s.first \in back /\ s.last \in on BY <1>4, <1>6, <1>7
<1>9. \A k \in s.first..s.last - 1 : Gapless(segments[k], segments[k + 1])
  <2> TAKE k \in s.first..s.last - 1
  <2>1. k \in s.first..at - 1 \/ k \in at..s.last - 1 BY <1>2, <1>3, <1>8
  <2> QED BY <1>8, <2>1
<1> QED BY <1>3, <1>8, <1>9 DEF s

\* What is between is between what is further apart.
LEMMA Within ==
    ASSUME NEW a \in Int, NEW b \in Int, NEW c \in Int, NEW d \in Int, NEW k \in Int,
           a <= b, b <= k, k <= c - 1, c <= d
    PROVE  k \in a..d - 1
OBVIOUS

\* What clip takes is of the log, without a gap, and of files the index has.
LEMMA SpanIs ==
    ASSUME LogIsOrdered, NEW from \in Nat, NEW to \in Nat,
           \E i \in 1..Len(segments) : segments[i].end > from, Span(from, to) # <<>>
    PROVE  LET f == Span(from, to)
           IN  f \in Seq(Segment) /\ PartOf(f, log) /\ NoGaps(f) /\ Files(f) \subseteq Files(segments)
<1> DEFINE s == Stretch(from)
           start == segments[s.first].start
           end == segments[s.last].end
           begins == IF from < start THEN start ELSE from
           ends == IF to = 0 \/ to > end THEN end ELSE IF to < begins THEN begins ELSE to
           begin == First({i \in s.first..s.last : segments[i].end > begins})
           stop == First({i \in begin..s.last : segments[i].end >= ends})
<1>1. PICK at \in 1..Len(segments) :
         /\ s.first \in 1..at /\ s.last \in at..Len(segments) /\ segments[at].end > from
         /\ \A k \in s.first..s.last - 1 : Gapless(segments[k], segments[k + 1])
  BY StretchIs
<1>2. Span(from, to) = IF ends <= begins THEN <<>> ELSE SubSeq(segments, begin, stop) BY DEF Span
<1> HIDE DEF s
<1>3. segments \in Seq(Segment) BY DEF LogIsOrdered, EndOf
<1>4. Len(segments) \in Nat BY <1>3, LenProperties
<1>5. \A i \in 1..Len(segments) : segments[i].start \in Nat /\ segments[i].end \in Nat /\ segments[i].start < segments[i].end
  <2> TAKE i \in 1..Len(segments)
  <2>1. segments[i] \in Segment BY <1>3, ElementOfSeq
  <2>2. /\ log \in Seq(Segment) /\ Len(segments) <= Len(log)
        /\ segments[i] = log[Len(log) - Len(segments) + i]
    BY DEF LogIsOrdered, InOrder, EndOf
  <2>3. Len(log) \in Nat BY <2>2, LenProperties
  <2>4. Len(log) - Len(segments) + i \in 1..Len(log) BY <1>4, <2>2, <2>3
  <2>5. segments[i].start < segments[i].end BY <2>2, <2>4 DEF LogIsOrdered, InOrder
  <2> QED BY <2>1, <2>5 DEF Segment
<1>6. s.first \in 1..Len(segments) /\ s.last \in s.first..Len(segments) /\ at \in s.first..s.last
  BY <1>1, <1>4
<1>7. begins \in Nat /\ end \in Nat /\ ends \in Nat /\ (ends <= end \/ ends <= begins)
  <2>1. start \in Nat /\ end \in Nat
    <3>1. s.first \in 1..Len(segments) /\ s.last \in 1..Len(segments) BY <1>4, <1>6
    <3> QED BY <1>5, <3>1
  <2> HIDE DEF start, end
  <2>2. begins \in Nat BY <2>1
  <2> HIDE DEF begins
  <2>3. ends \in Nat /\ (ends <= end \/ ends <= begins)
    <3>1. CASE to = 0 \/ to > end BY <2>1, <3>1
    <3>2. CASE ~(to = 0 \/ to > end) BY <2>1, <2>2, <3>2
    <3> QED BY <3>1, <3>2
  <2> QED BY <2>1, <2>2, <2>3
<1>8. ends > begins /\ begins \in Nat /\ ends \in Nat /\ ends <= end
  <2>1. ~(ends <= begins) BY <1>2
  <2>2. start \in Nat /\ end \in Nat BY <1>5, <1>6
  <2> QED BY <2>1, <2>2
<1>9. \E i \in s.first..s.last : segments[i].end > begins
  <2>1. CASE from < start
    BY <1>5, <1>6, <2>1
  <2>2. CASE ~(from < start)
    BY <1>1, <1>6, <2>2
  <2> QED BY <2>1, <2>2
<1> HIDE DEF begins
<1>10. begin \in s.first..s.last
  <2> DEFINE T == {i \in s.first..s.last : segments[i].end > begins}
  <2>1. T \in SUBSET Nat /\ T # {} BY <1>4, <1>6, <1>9
  <2>2. First(T) \in T BY <2>1, FirstIs
  <2> QED BY <2>2
<1> HIDE DEF begin, ends
<1>11. stop \in begin..s.last
  <2> DEFINE T == {i \in begin..s.last : segments[i].end >= ends}
  <2>1. s.last \in T BY <1>4, <1>5, <1>6, <1>8, <1>10
  <2>2. T \in SUBSET Nat /\ T # {} BY <1>4, <1>6, <1>10, <2>1
  <2>3. First(T) \in T BY <2>2, FirstIs
  <2> QED BY <2>3
<1> HIDE DEF stop
<1>12. Span(from, to) = SubSeq(segments, begin, stop) BY <1>2, <1>8
<1>13. /\ begin \in 1..Len(segments) /\ stop \in Nat /\ begin <= stop + 1 /\ stop <= Len(segments)
       /\ \A k \in begin..stop - 1 : k \in s.first..s.last - 1
  <2>1. s.first \in Nat /\ s.last \in Nat BY <1>4, <1>6
  <2>2. begin \in 1..Len(segments) /\ stop \in Nat /\ begin <= stop + 1 /\ stop <= Len(segments)
    BY <1>4, <1>6, <1>10, <1>11, <2>1
  <2>3. s.first <= begin /\ stop <= s.last BY <1>10, <1>11, <2>1
  <2> HIDE DEF s, begin, stop
  <2>4. ASSUME NEW k \in begin..stop - 1 PROVE k \in s.first..s.last - 1
    <3>1. begin \in Nat BY <2>2
    <3>2. k \in Int /\ begin <= k /\ k <= stop - 1 BY <2>2, <3>1
    <3>3. s.first \in Int /\ s.last \in Int /\ begin \in Int /\ stop \in Int BY <2>1, <2>2, <3>1
    <3>4. k \in s.first..s.last - 1 BY <2>3, <3>2, <3>3, Within
    <3> QED BY <3>4
  <2> QED BY <2>2, <2>4
<1> QED BY <1>1, <1>12, <1>13, RunIs
\* What newer reads on follows on from what the clip has, in the log.
LEMMA AfterIs ==
    ASSUME Lengths, LogIsOrdered, NEW c, c.files \in Seq(Segment), c.files # <<>>, PartOf(c.files, log),
           NoGaps(c.files), after(c) # <<>>
    PROVE  LET f == c.files \o after(c)
           IN  /\ f \in Seq(Segment) /\ f # <<>> /\ f[1] = c.files[1] /\ PartOf(f, log) /\ NoGaps(f)
               /\ Files(f) \subseteq Files(c.files) \cup Files(segments)
<1> DEFINE n == Len(c.files)
           at == {i \in DOMAIN segments : segments[i].n = c.files[n].n}
           x == First(at)
           s == Stretch(segments[x].start)
           f == c.files \o after(c)
<1>1. /\ segments \in Seq(Segment) /\ log \in Seq(Segment) /\ Len(segments) <= Len(log)
      /\ \A k \in 1..Len(segments) : segments[k] = log[Len(log) - Len(segments) + k]
  BY DEF LogIsOrdered, InOrder, EndOf
<1>2. Len(segments) \in Nat /\ DOMAIN segments = 1..Len(segments) /\ Len(log) \in Nat BY <1>1, LenProperties
<1>3. n \in Nat \ {0}
  <2>1. c.files \in Seq(Segment) /\ c.files # <<>> OBVIOUS
  <2> QED BY <2>1, EmptySeq, Zenon
<1>4. at # {} /\ after(c) = SubSeq(segments, x + 1, s.last) BY DEF after
<1>5. x \in 1..Len(segments) /\ segments[x].n = c.files[n].n
  <2>1. at \in SUBSET Nat BY <1>2
  <2>2. x \in at BY <1>4, <2>1, FirstIs, Zenon
  <2> QED BY <1>2, <2>2
<1> HIDE DEF at, x
<1>6. PICK b \in 0..Len(log) : b + n <= Len(log) /\ \A j \in 1..n : c.files[j] = log[b + j] BY DEF PartOf
<1> HIDE DEF n
<1>7. \A k \in 1..Len(segments) : Len(log) - Len(segments) + k \in 1..Len(log) BY <1>1, <1>2
<1>8. \A k \in 1..Len(log) : log[k].n \in Nat /\ log[k].start \in Nat /\ log[k].end \in Nat
  <2>1. \A k \in 1..Len(log) : log[k] \in Segment BY <1>1, ElementOfSeq
  <2> QED BY <2>1 DEF Segment
<1>9. b + n = Len(log) - Len(segments) + x
  <2> DEFINE y == Len(log) - Len(segments) + x
  <2>1. b + n \in 1..Len(log) /\ y \in 1..Len(log) BY <1>2, <1>3, <1>5, <1>6, <1>7
  <2>2. log[b + n].n = log[y].n
    <3>1. n \in 1..n BY <1>3
    <3>2. c.files[n] = log[b + n] /\ segments[x] = log[y] BY <1>1, <1>5, <1>6, <3>1
    <3> QED BY <1>5, <3>2
  <2> HIDE DEF y
  <2>3. ~(b + n < y) /\ ~(y < b + n) BY <1>8, <2>1, <2>2 DEF LogIsOrdered, InOrder
  <2>4. b + n = y BY <2>1, <2>3
  <2> QED BY <2>4 DEF y
<1>10. \A i \in 1..Len(segments) : segments[i].start \in Nat /\ segments[i].end \in Nat /\ segments[i].start < segments[i].end
  BY <1>1, <1>7, <1>8 DEF LogIsOrdered, InOrder
<1>11. \A i \in 1..x - 1 : segments[i].end <= segments[x].start
  <2> TAKE i \in 1..x - 1
  <2>1. i \in 1..Len(segments) BY <1>2, <1>5
  <2>2. Len(log) - Len(segments) + i < Len(log) - Len(segments) + x BY <1>2, <1>5
  <2> QED BY <1>1, <1>5, <1>7, <2>1, <2>2 DEF LogIsOrdered, InOrder
<1>12. /\ s.last \in x..Len(segments)
       /\ \A k \in x..s.last - 1 : Gapless(segments[k], segments[k + 1])
  <2>1. PICK y \in 1..Len(segments) :
           /\ s.first \in 1..y /\ s.last \in y..Len(segments) /\ segments[y].end > segments[x].start
           /\ \A i \in 1..Len(segments) : segments[i].end > segments[x].start => y <= i
           /\ \A k \in s.first..s.last - 1 : Gapless(segments[k], segments[k + 1])
    <3>1. \E i \in 1..Len(segments) : segments[i].end > segments[x].start BY <1>5, <1>10
    <3> QED BY <3>1, StretchIs
  <2>2. y = x
    <3>1. y <= x BY <1>5, <1>10, <2>1
    <3>2. ~(y < x)
      <4>1. ASSUME y < x PROVE FALSE
        <5>1. y \in 1..x - 1 BY <1>5, <2>1, <4>1
        <5>2. segments[y].end <= segments[x].start BY <1>11, <5>1
        <5> QED BY <1>5, <1>10, <2>1, <5>2
      <4> QED BY <4>1
    <3> QED BY <1>5, <2>1, <3>1, <3>2
  <2> HIDE DEF s
  <2> QED BY <1>2, <1>5, <2>1, <2>2
<1> HIDE DEF s
<1>13. /\ x + 1 \in 1..Len(segments) /\ s.last \in Nat /\ x + 1 <= s.last /\ s.last <= Len(segments)
  <2>1. s.last # x
    <3>1. ASSUME s.last = x PROVE FALSE
      <4>1. SubSeq(segments, x + 1, x) = <<>>
        <5>1. x + 1 \in Int /\ x \in Int /\ x < x + 1 BY <1>2, <1>5
        <5> QED BY <5>1, SubSeqEmpty
      <4> QED BY <1>4, <3>1, <4>1
    <3> QED BY <3>1
  <2> QED BY <1>2, <1>5, <1>12, <2>1
<1>14. \A k \in x + 1..s.last - 1 : Gapless(segments[k], segments[k + 1])
  <2> TAKE k \in x + 1..s.last - 1
  <2>1. x \in Nat /\ s.last \in Nat BY <1>2, <1>5, <1>13
  <2>2. k \in x..s.last - 1 BY <2>1
  <2> QED BY <1>12, <2>2
<1> DEFINE g == after(c)
<1>15. /\ g \in Seq(Segment) /\ Len(g) = s.last - x /\ Files(g) \subseteq Files(segments)
       /\ \A j \in 1..Len(g) : g[j] = segments[x + j] /\ x + j \in 1..Len(segments)
       /\ NoGaps(g)
  <2>1. s.last - (x + 1) + 1 = s.last - x BY <1>5, <1>13
  <2> DEFINE h == SubSeq(segments, x + 1, s.last)
  <2>2. /\ h \in Seq(Segment) /\ Len(h) = s.last - (x + 1) + 1 /\ Files(h) \subseteq Files(segments)
        /\ \A j \in 1..Len(h) : h[j] = segments[x + 1 + j - 1] /\ x + 1 + j - 1 \in 1..Len(segments)
        /\ NoGaps(h)
    <3>1. x + 1 <= s.last + 1 BY <1>5, <1>13
    <3> QED BY <1>13, <1>14, <3>1, RunIs
  <2> HIDE DEF h
  <2>3. g = h BY <1>4 DEF h
  <2>4. Len(g) = s.last - x BY <2>1, <2>2, <2>3
  <2>5. \A j \in 1..Len(g) : g[j] = segments[x + j] /\ x + j \in 1..Len(segments)
    <3> TAKE j \in 1..Len(g)
    <3>1. x + 1 + j - 1 = x + j BY <1>5, <1>13, <2>4
    <3>2. g[j] = segments[x + 1 + j - 1] /\ x + 1 + j - 1 \in 1..Len(segments) BY <2>2, <2>3
    <3> QED BY <3>1, <3>2
  <2> QED BY <2>2, <2>3, <2>4, <2>5
<1> HIDE DEF g
<1>16. Len(g) \in Nat \ {0} BY <1>2, <1>5, <1>13, <1>15
<1>17. /\ f \in Seq(Segment) /\ Len(f) = n + Len(g)
       /\ \A j \in 1..n + Len(g) : f[j] = IF j <= n THEN c.files[j] ELSE g[j - n]
  BY <1>15, ConcatProperties DEF g, n
<1> HIDE DEF f
<1>18. \A j \in 1..Len(f) : f[j] = log[b + j]
  <2> TAKE j \in 1..Len(f)
  <2>1. CASE j <= n
    <3>1. j \in 1..n /\ j \in 1..n + Len(g) BY <1>3, <1>16, <1>17, <2>1
    <3> QED BY <1>6, <1>17, <2>1, <3>1
  <2>2. CASE n < j
    <3>1. j - n \in 1..Len(g) /\ ~(j <= n) BY <1>3, <1>16, <1>17, <2>2
    <3>2. f[j] = segments[x + (j - n)] /\ x + (j - n) \in 1..Len(segments) BY <1>15, <1>17, <3>1
    <3>3. Len(log) - Len(segments) + (x + (j - n)) = b + j
      <4>1. j \in Int /\ n \in Int /\ b \in Int BY <1>2, <1>3, <1>6, <1>16, <1>17
      <4> QED BY <1>2, <1>5, <1>9, <4>1
    <3> QED BY <1>1, <3>2, <3>3
  <2> QED BY <1>3, <1>16, <1>17, <2>1, <2>2
<1>19. PartOf(f, log)
  <2>1. b + Len(f) <= Len(log)
    <3>1. Len(f) = n + (s.last - x) BY <1>15, <1>17
    <3>2. b + (n + (s.last - x)) = Len(log) - Len(segments) + s.last
      <4>1. b \in Int /\ n \in Int /\ x \in Int /\ s.last \in Int BY <1>2, <1>3, <1>5, <1>6, <1>13
      <4>2. \A p, q, u, v \in Int : p + (q + (u - v)) = (p + q) + u - v OBVIOUS
      <4>3. b + (n + (s.last - x)) = (b + n) + s.last - x BY <4>1, <4>2
      <4>4. \A y, p, q, u, v \in Int : y = p - q + v => y + u - v = p - q + u OBVIOUS
      <4>5. (b + n) + s.last - x = Len(log) - Len(segments) + s.last
        <5>1. b + n \in Int /\ Len(log) \in Int /\ Len(segments) \in Int BY <1>2, <4>1
        <5> QED BY <1>9, <4>1, <4>4, <5>1
      <4> QED BY <4>3, <4>5
    <3>3. b + Len(f) = Len(log) - Len(segments) + s.last BY <3>1, <3>2
    <3>4. \A p, q, u \in Nat : u <= q => p - q + u <= p OBVIOUS
    <3> QED BY <1>2, <1>13, <3>3, <3>4
  <2> QED BY <1>18, <2>1 DEF PartOf
<1>20. NoGaps(f)
  <2> SUFFICES ASSUME NEW k \in 1..Len(f) - 1 PROVE f[k + 1].start <= f[k].end + GAP
    BY DEF NoGaps
  <2>1. k \in 1..Len(f) /\ k + 1 \in 1..Len(f) BY <1>3, <1>16, <1>17
  <2>2. CASE k < n
    <3>1. k \in 1..n - 1 /\ k <= n /\ k + 1 <= n BY <1>3, <2>1, <2>2
    <3>2. k \in 1..n + Len(g) /\ k + 1 \in 1..n + Len(g) BY <1>17, <2>1
    <3>3. f[k] = c.files[k] /\ f[k + 1] = c.files[k + 1] BY <1>17, <3>1, <3>2
    <3>4. c.files[k + 1].start <= c.files[k].end + GAP BY <3>1 DEF NoGaps, n
    <3> QED BY <3>3, <3>4
  <2>3. CASE k = n
    <3>1. f[k] = log[b + n] /\ f[k + 1] = g[1]
      <4>1. k + 1 - n = 1 /\ ~(k + 1 <= n) /\ k + 1 \in 1..n + Len(g) BY <1>3, <1>16, <2>3
      <4> QED BY <1>3, <1>17, <1>18, <2>1, <2>3, <4>1
    <3>2. g[1] = segments[x + 1] /\ log[b + n] = segments[x]
      <4>1. 1 \in 1..Len(g) BY <1>16
      <4> QED BY <1>1, <1>5, <1>9, <1>15, <4>1
    <3>3. Gapless(segments[x], segments[x + 1])
      <4>1. x \in x..s.last - 1 BY <1>2, <1>5, <1>13
      <4> QED BY <1>12, <4>1
    <3> QED BY <3>1, <3>2, <3>3 DEF Gapless
  <2>4. CASE n < k
    <3>1. k - n \in 1..Len(g) - 1 /\ (k + 1) - n = (k - n) + 1 /\ ~(k <= n) /\ ~(k + 1 <= n)
      BY <1>3, <1>16, <1>17, <2>1, <2>4
    <3>2. f[k] = g[k - n] /\ f[k + 1] = g[(k - n) + 1] BY <1>17, <2>1, <3>1
    <3> QED BY <1>15, <3>1, <3>2 DEF NoGaps
  <2> QED BY <1>3, <2>1, <2>2, <2>3, <2>4
<1>21. ASSUME NEW y \in Files(f) PROVE y \in Files(c.files) \cup Files(segments)
  <2>1. PICK j \in 1..Len(f) : y = f[j].n BY <1>17, <1>21, FilesIs
  <2>2. CASE j <= n
    <3>1. j \in 1..n /\ f[j] = c.files[j] BY <1>3, <1>16, <1>17, <2>1, <2>2
    <3> QED BY <2>1, <3>1, FilesIs DEF n
  <2>3. CASE n < j
    <3>1. j - n \in 1..Len(g) /\ f[j] = g[j - n] BY <1>3, <1>16, <1>17, <2>1, <2>3
    <3>2. y \in Files(g) BY <1>15, <2>1, <3>1, FilesIs
    <3> QED BY <1>15, <3>2
  <2> QED BY <1>3, <1>16, <1>17, <2>1, <2>2, <2>3
<1>22. f # <<>> /\ f[1] = c.files[1]
  <2>1. 1 \in 1..n + Len(g) /\ 1 <= n /\ n + Len(g) # 0 BY <1>3, <1>16
  <2> QED BY <1>17, <2>1, EmptySeq
<1> QED BY <1>17, <1>19, <1>20, <1>21, <1>22 DEF f
\* The files a clip has, and the index, are neither the one that is open nor
\* lost, and the one about to be written is none of them.
LEMMA NumbersIs ==
    ASSUME LogIsOrdered, FilesDiffer, next_number \in Nat
    PROVE  LET listed == {log[i].n : i \in 1..Len(log)}
           IN  /\ listed \subseteq 1..next_number /\ open.n \in 0..next_number /\ open.n \notin listed
               /\ listed \cap stray = {} /\ (leg = "opens" => next_number \notin listed)
               /\ Files(segments) \subseteq listed
               /\ \A f \in Seq(Segment) : PartOf(f, log) => Files(f) \subseteq listed
<1> DEFINE listed == {log[i].n : i \in 1..Len(log)}
<1>1. listed \subseteq 1..next_number BY DEF LogIsOrdered
<1>2. open.n \in 0..next_number /\ open.n \notin listed
  <2>1. CASE open = None
    <3>1. open.n = 0 BY <2>1 DEF None
    <3> QED BY <1>1, <3>1
  <2>2. CASE open # None
    <3>1. open.n \in 1..next_number /\ \A i \in 1..Len(log) : log[i].n < open.n BY <2>2 DEF FilesDiffer
    <3>2. \A i \in 1..Len(log) : log[i].n \in Nat BY DEF LogIsOrdered
    <3>3. \A i \in 1..Len(log) : log[i].n # open.n BY <3>1, <3>2
    <3> QED BY <3>1, <3>3
  <2> QED BY <2>1, <2>2
<1>3. listed \cap stray = {} BY DEF FilesDiffer
<1>4. ASSUME leg = "opens" PROVE next_number \notin listed
  <2>1. \A i \in 1..Len(log) : log[i].n < next_number BY <1>4 DEF FilesDiffer
  <2>2. \A i \in 1..Len(log) : log[i].n # next_number BY <1>1, <2>1
  <2> QED BY <2>2
<1>5. ASSUME NEW f \in Seq(Segment), NEW b \in Nat, b + Len(f) <= Len(log),
             \A j \in 1..Len(f) : f[j] = log[b + j], NEW x \in Files(f)
      PROVE  x \in listed
  <2>1. PICK j \in 1..Len(f) : x = f[j].n BY <1>5, FilesIs
  <2>2. Len(f) \in Nat /\ Len(log) \in Nat BY <1>5, LenProperties DEF LogIsOrdered, InOrder
  <2>3. b + j \in 1..Len(log) BY <1>5, <2>1, <2>2
  <2> QED BY <1>5, <2>1, <2>3
<1> HIDE DEF listed
<1>6. Files(segments) \subseteq listed
  <2> DEFINE b == Len(log) - Len(segments)
  <2>1. /\ segments \in Seq(Segment) /\ log \in Seq(Segment) /\ Len(segments) <= Len(log)
        /\ \A j \in 1..Len(segments) : segments[j] = log[b + j]
    BY DEF LogIsOrdered, InOrder, EndOf
  <2>2. b \in Nat /\ b + Len(segments) <= Len(log) BY <2>1, LenProperties
  <2> HIDE DEF b
  <2> QED BY <1>5, <2>1, <2>2
<1>7. ASSUME NEW f \in Seq(Segment), PartOf(f, log) PROVE Files(f) \subseteq listed
  <2>1. PICK b \in 0..Len(log) : b + Len(f) <= Len(log) /\ \A j \in 1..Len(f) : f[j] = log[b + j]
    BY <1>7 DEF PartOf
  <2>2. Len(log) \in Nat BY LenProperties DEF LogIsOrdered, InOrder
  <2>3. b \in Nat BY <2>2
  <2> QED BY <1>5, <2>1, <2>3
<1> QED BY <1>1, <1>2, <1>3, <1>4, <1>6, <1>7 DEF listed

\* A trim leaves the end of the log, what the clips have of it, and no file
\* that isn't listed.
LEMMA TrimmedIs ==
    ASSUME Lengths, NEW l, InOrder(l), NEW segs, EndOf(segs, l), NEW length \in Nat, NEW held,
           \A c \in held : /\ c.files \in Seq(Segment) /\ c.files # <<>>
                           /\ c.whole => PartOf(c.files, l) /\ Files(c.files) \subseteq disk,
           NEW other, other \cap Files(segs) = {}, disk = Files(segs) \cup other,
           Trimmed(segs, length, held)
    PROVE  /\ EndOf(segments', l) /\ clips' = held /\ disk' = Files(segments') \cup other
           /\ \A c \in held : c.whole => Files(c.files) \subseteq disk'
           /\ segments' # <<>> =>
                 \/ segments'[1].end > Floor(segments'[Len(segments')].end, length)
                 \/ \E c \in held : segments'[1].end > c.files[1].start
<1> DEFINE left == trim(segs, length, Holds(held))
<1>1. segments' = left /\ clips' = held /\ disk' = disk \ (Files(segs) \ Files(left))
  BY DEF Trimmed
<1>2. /\ EndOf(left, l) /\ Files(left) \subseteq Files(segs)
      /\ left # <<>> => ~Past(left[1], left[Len(left)].end, length, Holds(held))
      /\ \A c \in held : PartOf(c.files, l) => Files(c.files) \cap (Files(segs) \ Files(left)) = {}
  BY TrimKeeps
<1> HIDE DEF left
<1>3. disk' = Files(left) \cup other BY <1>1, <1>2
<1>4. \A c \in held : c.whole => Files(c.files) \subseteq disk' BY <1>1, <1>2
<1>5. ASSUME left # <<>>
      PROVE  left[1].end > Floor(left[Len(left)].end, length) \/ \E c \in held : left[1].end > c.files[1].start
  <2>1. left \in Seq(Segment) BY <1>2 DEF EndOf
  <2>2. Len(left) \in Nat \ {0} BY <1>5, <2>1, EmptySeq
  <2>3. left[1] \in Segment /\ left[Len(left)] \in Segment BY <2>1, <2>2, ElementOfSeq
  <2>4. left[1].end \in Nat /\ left[Len(left)].end \in Nat BY <2>3 DEF Segment
  <2>5. Floor(left[Len(left)].end, length) \in Nat BY <2>4 DEF Floor
  <2>6. CASE ~(left[1].end <= Floor(left[Len(left)].end, length))
    BY <2>4, <2>5, <2>6
  <2>7. CASE \E h \in Holds(held) : ~(left[1].end <= h)
    <3>1. PICK c \in held : ~(left[1].end <= c.files[1].start) BY <2>7 DEF Holds
    <3>2. c.files[1] \in Segment
      <4>1. Len(c.files) \in Nat \ {0}
        <5>1. c.files \in Seq(Segment) /\ c.files # <<>> OBVIOUS
        <5> QED BY <5>1, EmptySeq, Zenon
      <4> QED BY <4>1, ElementOfSeq
    <3>3. c.files[1].start \in Nat BY <3>2 DEF Segment
    <3> QED BY <2>4, <3>1, <3>3
  <2> QED BY <1>2, <1>5, <2>6, <2>7 DEF Past
<1> QED BY <1>1, <1>2, <1>3, <1>4, <1>5

-----------------------------------------------------------------------------
(* A step at a time *)

\* The other files there are.
Loose == stray \cup ({open.n} \ {0}) \cup (IF leg = "opens" THEN {next_number} ELSE {})

LEMMA LooseIs ==
    ASSUME Lengths, IInv PROVE Loose \cap Files(segments) = {} /\ disk = Files(segments) \cup Loose
<1>1. next_number \in Nat BY DEF IInv, TypeOK, Lengths
<1>2. open.n \notin Files(segments) /\ stray \cap Files(segments) = {}
      /\ (leg = "opens" => next_number \notin Files(segments))
  BY <1>1, NumbersIs DEF IInv
<1>3. Loose \cap Files(segments) = {} BY <1>2 DEF Loose
<1> QED BY <1>3 DEF IInv, DiskIsListed, Loose

LEMMA clipKeeps == ASSUME Lengths, IInv, clip PROVE IInv'
<1>1. PICK from \in 0..now, to \in 0..now :
         /\ \E i \in DOMAIN segments : segments[i].end > from
         /\ Span(from, to) # <<>>
         /\ clips' = clips \cup {[id |-> First((1..MaxClips) \ {c.id : c \in clips}),
                                  files |-> Span(from, to), whole |-> TRUE]}
  BY DEF clip
<1>2. UNCHANGED <<segments, open, next_number, codec, keep, disk, leg, now, log, stray>> BY DEF clip
<1>f. PICK f : f = Span(from, to) OBVIOUS
<1>n. PICK new : new = [id |-> First((1..MaxClips) \ {c.id : c \in clips}), files |-> f, whole |-> TRUE] OBVIOUS
<1>3. f \in Seq(Segment) /\ f # <<>> /\ PartOf(f, log) /\ NoGaps(f) /\ Files(f) \subseteq disk
  <2>1. now \in Nat BY DEF IInv, TypeOK, Lengths
  <2>2. from \in Nat /\ to \in Nat BY <2>1
  <2>3. \E i \in 1..Len(segments) : segments[i].end > from
    BY <1>1, LenProperties DEF IInv, LogIsOrdered, EndOf
  <2>4. LogIsOrdered BY DEF IInv
  <2>5. f \in Seq(Segment) /\ PartOf(f, log) /\ NoGaps(f) /\ Files(f) \subseteq Files(segments)
    BY <1>1, <1>f, <2>2, <2>3, <2>4, SpanIs
  <2> QED BY <1>1, <1>f, <2>5, LooseIs
<1>4. DOMAIN new = {"id", "files", "whole"} /\ new.files = f BY <1>n
<1>5. clips' = clips \cup {new} BY <1>1, <1>f, <1>n
<1>6. \A c \in clips' : ClipIsKept(c)'
  <2>1. \A c \in clips : ClipIsKept(c)' BY <1>2 DEF IInv, ClipIsKept
  <2>2. ClipIsKept(new)' BY <1>2, <1>3, <1>4 DEF ClipIsKept
  <2> QED BY <1>5, <2>1, <2>2
<1>7. TypeOK' /\ LogIsOrdered' /\ FilesDiffer' /\ DiskIsListed'
  BY <1>2 DEF IInv, TypeOK, LogIsOrdered, FilesDiffer, DiskIsListed
<1>8. KeepsItsLength' BY <1>2, <1>5 DEF IInv, KeepsItsLength
<1> QED BY <1>6, <1>7, <1>8 DEF IInv

LEMMA newerKeeps == ASSUME Lengths, IInv, newer PROVE IInv'
<1>1. PICK c \in clips : /\ c.whole /\ after(c) # <<>>
                         /\ clips' = (clips \ {c}) \cup {[c EXCEPT !.files = @ \o after(c)]}
  BY DEF newer
<1>2. UNCHANGED <<segments, open, next_number, codec, keep, disk, leg, now, log, stray>> BY DEF newer
<1>f. PICK f : f = c.files \o after(c) OBVIOUS
<1>n. PICK new : new = [c EXCEPT !.files = @ \o after(c)] OBVIOUS
<1>3. ClipIsKept(c) BY DEF IInv
<1>4. f \in Seq(Segment) /\ f # <<>> /\ f[1] = c.files[1] /\ PartOf(f, log) /\ NoGaps(f) /\ Files(f) \subseteq disk
  <2>1. LogIsOrdered BY DEF IInv
  <2>2. /\ f \in Seq(Segment) /\ f # <<>> /\ f[1] = c.files[1] /\ PartOf(f, log) /\ NoGaps(f)
        /\ Files(f) \subseteq Files(c.files) \cup Files(segments)
    BY <1>1, <1>3, <1>f, <2>1, AfterIs DEF ClipIsKept
  <2>3. Files(c.files) \subseteq disk BY <1>1, <1>3 DEF ClipIsKept
  <2> QED BY <2>2, <2>3, LooseIs
<1>5. DOMAIN new = {"id", "files", "whole"} /\ new.files = f BY <1>3, <1>f, <1>n DEF ClipIsKept
<1>6. clips' = (clips \ {c}) \cup {new} BY <1>1, <1>n
<1>7. \A d \in clips' : ClipIsKept(d)'
  <2>1. \A d \in clips : ClipIsKept(d)' BY <1>2 DEF IInv, ClipIsKept
  <2>2. ClipIsKept(new)' BY <1>2, <1>4, <1>5 DEF ClipIsKept
  <2> QED BY <1>6, <2>1, <2>2
<1>8. TypeOK' /\ LogIsOrdered' /\ FilesDiffer' /\ DiskIsListed'
  BY <1>2 DEF IInv, TypeOK, LogIsOrdered, FilesDiffer, DiskIsListed
<1>9. KeepsItsLength'
  <2>1. ASSUME NEW d \in clips PROVE \E e \in clips' : e.files[1].start = d.files[1].start
    BY <1>4, <1>5, <1>6
  <2>2. KeepsItsLength BY DEF IInv
  <2> QED BY <1>2, <2>1, <2>2 DEF KeepsItsLength
<1> QED BY <1>7, <1>8, <1>9 DEF IInv
\* A trim of the index, for the clips there are.
LEMMA TrimStays ==
    ASSUME Lengths, IInv, NEW length \in Nat, NEW held \in SUBSET clips, Trimmed(segments, length, held),
           keep' = length, UNCHANGED <<open, next_number, leg, now, log, stray>>, keep' \in Keeps
    PROVE  IInv'
<1>1. InOrder(log) /\ EndOf(segments, log) BY DEF IInv, LogIsOrdered
<1>2. \A c \in held : ClipIsKept(c) BY DEF IInv
<1>3. Loose \cap Files(segments) = {} /\ disk = Files(segments) \cup Loose BY LooseIs
<1>4. /\ EndOf(segments', log) /\ clips' = held /\ disk' = Files(segments') \cup Loose
      /\ \A c \in held : c.whole => Files(c.files) \subseteq disk'
      /\ segments' # <<>> =>
            \/ segments'[1].end > Floor(segments'[Len(segments')].end, length)
            \/ \E c \in held : segments'[1].end > c.files[1].start
  BY <1>1, <1>2, <1>3, TrimmedIs DEF ClipIsKept
<1>5. TypeOK' /\ FilesDiffer' BY DEF IInv, TypeOK, FilesDiffer
<1>6. LogIsOrdered' BY <1>4 DEF IInv, LogIsOrdered
<1>7. \A c \in clips' : ClipIsKept(c)' BY <1>2, <1>4 DEF ClipIsKept
<1>8. KeepsItsLength' BY <1>4 DEF KeepsItsLength
<1>9. DiskIsListed' BY <1>4 DEF DiskIsListed, Loose
<1> QED BY <1>5, <1>6, <1>7, <1>8, <1>9 DEF IInv

LEMMA HoldDropsKeeps == ASSUME Lengths, IInv, HoldDrops PROVE IInv'
<1>1. PICK c \in clips : Trimmed(segments, keep, clips \ {c}) BY DEF HoldDrops
<1>2. UNCHANGED <<open, next_number, codec, keep, leg, now, log, stray>> BY DEF HoldDrops
<1>3. keep \in Nat /\ keep \in Keeps BY DEF IInv, TypeOK, Lengths
<1>4. clips \ {c} \in SUBSET clips OBVIOUS
<1> QED BY <1>1, <1>2, <1>3, <1>4, TrimStays

LEMMA set_keepKeeps == ASSUME Lengths, IInv, set_keep PROVE IInv'
<1>1. PICK length \in Keeps : keep' = length /\ Trimmed(segments, length, clips) BY DEF set_keep
<1>2. UNCHANGED <<open, next_number, codec, leg, now, log, stray>> BY DEF set_keep
<1>3. length \in Nat BY DEF Lengths
<1>4. clips \in SUBSET clips OBVIOUS
<1> QED BY <1>1, <1>2, <1>3, <1>4, TrimStays

LEMMA LegStartsKeeps == ASSUME Lengths, IInv, LegStarts PROVE IInv'
<1>1. leg = "none" /\ leg' = "names" /\ UNCHANGED <<next_number, keep, now>> BY DEF LegStarts
<1>2. CASE UNCHANGED <<segments, open, codec, clips, disk, log, stray>>
  <2>1. TypeOK' BY <1>1 DEF IInv, TypeOK
  <2>2. LogIsOrdered' BY <1>1, <1>2 DEF IInv, LogIsOrdered
  <2>3. FilesDiffer' BY <1>1, <1>2 DEF IInv, FilesDiffer
  <2>4. \A c \in clips' : ClipIsKept(c)' BY <1>2 DEF IInv, ClipIsKept
  <2>5. KeepsItsLength' BY <1>1, <1>2 DEF IInv, KeepsItsLength
  <2>6. DiskIsListed' BY <1>1, <1>2 DEF IInv, DiskIsListed
  <2> QED BY <2>1, <2>2, <2>3, <2>4, <2>5, <2>6 DEF IInv
<1>3. CASE /\ segments' = <<>> /\ open' = None /\ disk' = {} /\ log' = <<>> /\ stray' = {}
           /\ clips' = {[d EXCEPT !.whole = FALSE] : d \in clips}
  <2>1. TypeOK' BY <1>1 DEF IInv, TypeOK
  <2>2. <<>> \in Seq(Segment) /\ Len(<<>>) = 0 BY EmptySeq
  <2>3. LogIsOrdered' BY <1>3, <2>2 DEF LogIsOrdered, InOrder, EndOf
  <2>4. FilesDiffer' BY <1>1, <1>3, <2>2 DEF FilesDiffer, None
  <2>5. \A c \in clips' : ClipIsKept(c)'
    <3> TAKE c \in clips'
    <3>1. PICK d \in clips : c = [d EXCEPT !.whole = FALSE] BY <1>3
    <3>2. ClipIsKept(d) BY DEF IInv
    <3>3. DOMAIN c = {"id", "files", "whole"} /\ c.files = d.files /\ c.whole = FALSE
      BY <3>1, <3>2 DEF ClipIsKept
    <3> QED BY <3>2, <3>3 DEF ClipIsKept
  <2>6. KeepsItsLength' BY <1>3 DEF KeepsItsLength
  <2>7. DiskIsListed' BY <1>1, <1>3, <2>2, FilesIs DEF DiskIsListed, None
  <2> QED BY <2>1, <2>3, <2>4, <2>5, <2>6, <2>7 DEF IInv
<1> QED BY <1>2, <1>3 DEF LegStarts

LEMMA format_locationKeeps == ASSUME Lengths, IInv, format_location PROVE IInv'
<1>1. /\ leg = "names" /\ next_number < MaxFiles /\ leg' = "opens" /\ next_number' = next_number + 1
      /\ disk' = disk \cup {next_number + 1}
      /\ UNCHANGED <<segments, open, codec, keep, clips, now, log, stray>>
  BY DEF format_location
<1>2. next_number \in Nat /\ 1..next_number \subseteq 1..next_number' /\ next_number + 1 \notin 1..next_number
  BY <1>1 DEF IInv, TypeOK, Lengths
<1>3. TypeOK' BY <1>1 DEF IInv, TypeOK, Lengths
<1>4. LogIsOrdered' BY <1>1, <1>2 DEF IInv, LogIsOrdered
<1>5. FilesDiffer'
  <2>1. FilesDiffer /\ LogIsOrdered BY DEF IInv
  <2>2. open.n \in 0..next_number BY <1>2, <2>1, NumbersIs
  <2>3. open = None \/ (/\ open \in [n : 1..next_number', start : 0..now]
                        /\ \A i \in 1..Len(log) : log[i].n < open.n /\ log[i].end <= open.start)
    BY <1>2, <2>1 DEF FilesDiffer
  <2>4. next_number' > open.n /\ next_number' \notin stray BY <1>1, <1>2, <2>1, <2>2 DEF FilesDiffer
  <2>5. \A i \in 1..Len(log) : log[i].n < next_number' BY <1>1, <1>2, <2>1 DEF LogIsOrdered
  <2>6. stray \subseteq 1..next_number' /\ open.n \notin stray /\ \A i \in 1..Len(log) : log[i].n \notin stray
    BY <1>2, <2>1 DEF FilesDiffer
  <2> QED BY <1>1, <2>3, <2>4, <2>5, <2>6 DEF FilesDiffer
<1>6. \A c \in clips' : ClipIsKept(c)' BY <1>1 DEF IInv, ClipIsKept
<1>7. KeepsItsLength' BY <1>1 DEF IInv, KeepsItsLength
<1>8. DiskIsListed' BY <1>1 DEF IInv, DiskIsListed
<1> QED BY <1>3, <1>4, <1>5, <1>6, <1>7, <1>8 DEF IInv

\* Without the file that was open, those of the index and of the clips are there.
LEMMA OpenGoes ==
    ASSUME Lengths, IInv, disk' = disk \ {open.n}, UNCHANGED <<clips, log>>
    PROVE  /\ \A c \in clips' : ClipIsKept(c)'
           /\ disk' = Files(segments) \cup stray \cup (IF leg = "opens" THEN {next_number} ELSE {})
<1>1. next_number \in Nat /\ LogIsOrdered /\ FilesDiffer BY DEF IInv, TypeOK, Lengths
<1>2. /\ open.n \notin Files(segments) /\ Files(segments) \subseteq 1..next_number
      /\ \A f \in Seq(Segment) : PartOf(f, log) => open.n \notin Files(f)
  BY <1>1, NumbersIs
<1>3. \A c \in clips' : ClipIsKept(c)' BY <1>2 DEF IInv, ClipIsKept
<1>4. open.n \notin stray /\ (leg = "opens" => next_number # open.n)
  <2>1. open.n \in 0..next_number BY <1>1, NumbersIs
  <2> QED BY <1>1, <2>1 DEF FilesDiffer
<1>5. disk = Files(segments) \cup stray \cup ({open.n} \ {0}) \cup (IF leg = "opens" THEN {next_number} ELSE {})
  BY DEF IInv, DiskIsListed
<1>6. disk' = Files(segments) \cup stray \cup (IF leg = "opens" THEN {next_number} ELSE {})
  BY <1>2, <1>4, <1>5
<1> QED BY <1>3, <1>6

LEMMA openedKeeps == ASSUME Lengths, IInv, opened PROVE IInv'
<1>1. /\ leg = "opens" /\ leg' = "writes" /\ open' = [n |-> next_number, start |-> now]
      /\ disk' = disk \ {open.n}
      /\ UNCHANGED <<segments, next_number, codec, keep, clips, now, log, stray>>
  BY DEF opened
<1>2. next_number \in Nat /\ now \in Nat /\ LogIsOrdered /\ FilesDiffer BY DEF IInv, TypeOK, Lengths
<1>3. /\ next_number \in 1..next_number /\ next_number \notin stray
      /\ \A i \in 1..Len(log) : log[i].n < next_number
  <2>1. open.n \in 0..next_number BY <1>2, NumbersIs
  <2> QED BY <1>1, <1>2, <2>1 DEF FilesDiffer
<1>4. TypeOK' BY <1>1 DEF IInv, TypeOK
<1>5. LogIsOrdered' BY <1>1, <1>2 DEF LogIsOrdered
<1>6. FilesDiffer'
  <2>1. open' \in [n : 1..next_number, start : 0..now] /\ open'.n = next_number /\ open'.start = now
    BY <1>1, <1>2, <1>3
  <2>2. \A i \in 1..Len(log) : log[i].n < open'.n /\ log[i].end <= open'.start
    BY <1>2, <1>3, <2>1 DEF LogIsOrdered
  <2>3. open'.n \notin stray /\ open' # None BY <1>2, <1>3, <2>1 DEF None
  <2>4. stray \subseteq 1..next_number /\ \A i \in 1..Len(log) : log[i].n \notin stray BY <1>2 DEF FilesDiffer
  <2> QED BY <1>1, <2>1, <2>2, <2>3, <2>4 DEF FilesDiffer
<1>7. (\A c \in clips' : ClipIsKept(c)') /\ disk' = Files(segments) \cup stray \cup {next_number}
  BY <1>1, OpenGoes
<1>8. KeepsItsLength' BY <1>1 DEF IInv, KeepsItsLength
<1>9. DiskIsListed'
  <2>1. {open'.n} \ {0} = {next_number} BY <1>1, <1>3
  <2> QED BY <1>1, <1>7, <2>1 DEF DiskIsListed
<1> QED BY <1>4, <1>5, <1>6, <1>7, <1>8, <1>9 DEF IInv
LEMMA closedKeeps == ASSUME Lengths, IInv, closed PROVE IInv'
<1> DEFINE segment == [n |-> open.n, start |-> open.start, end |-> now]
<1>1. /\ leg = "writes" /\ leg' = "names" /\ open' = None
      /\ UNCHANGED <<next_number, codec, keep, now, stray>>
  BY DEF closed
<1>2. next_number \in Nat /\ now \in Nat /\ keep \in Nat /\ LogIsOrdered /\ FilesDiffer
  BY DEF IInv, TypeOK, Lengths
<1>3. /\ open \in [n : 1..next_number, start : 0..now]
      /\ \A i \in 1..Len(log) : log[i].n < open.n /\ log[i].end <= open.start
  BY <1>1, <1>2 DEF FilesDiffer
<1>4. TypeOK' BY <1>1 DEF IInv, TypeOK
<1>5. None.n = 0 /\ 0 \notin stray BY <1>2 DEF FilesDiffer, None
<1>6. CASE now <= open.start /\ disk' = disk \ {open.n} /\ UNCHANGED <<segments, clips, log>>
  <2>1. (\A c \in clips' : ClipIsKept(c)') /\ disk' = Files(segments) \cup stray BY <1>1, <1>6, OpenGoes
  <2>2. LogIsOrdered' BY <1>1, <1>2, <1>6 DEF LogIsOrdered
  <2>3. FilesDiffer' BY <1>1, <1>2, <1>5, <1>6 DEF FilesDiffer
  <2>4. KeepsItsLength' BY <1>1, <1>6 DEF IInv, KeepsItsLength
  <2>5. DiskIsListed' BY <1>1, <1>5, <1>6, <2>1 DEF DiskIsListed
  <2> QED BY <1>4, <2>1, <2>2, <2>3, <2>4, <2>5 DEF IInv
<1>7. CASE now > open.start /\ log' = Append(log, segment) /\ Trimmed(Append(segments, segment), keep, clips)
  <2>1. segment \in Segment /\ segment.start < segment.end /\ segment.n = open.n /\ segment.end = now /\ segment.start = open.start
    BY <1>2, <1>3, <1>7 DEF Segment
  <2> HIDE DEF segment
  <2> DEFINE segs == Append(segments, segment)
  <2>2. /\ log \in Seq(Segment) /\ segments \in Seq(Segment) /\ Len(segments) <= Len(log)
        /\ \A i \in 1..Len(segments) : segments[i] = log[Len(log) - Len(segments) + i]
    BY <1>2 DEF LogIsOrdered, InOrder, EndOf
  <2>3. Len(log) \in Nat /\ Len(segments) \in Nat BY <2>2, LenProperties
  <2>4. /\ log' \in Seq(Segment) /\ Len(log') = Len(log) + 1 /\ log'[Len(log) + 1] = segment
        /\ \A i \in 1..Len(log) : log'[i] = log[i]
    BY <1>7, <2>1, <2>2, AppendProperties
  <2>5. /\ segs \in Seq(Segment) /\ Len(segs) = Len(segments) + 1 /\ segs[Len(segments) + 1] = segment
        /\ \A i \in 1..Len(segments) : segs[i] = segments[i]
    BY <2>1, <2>2, AppendProperties
  <2> HIDE DEF segs
  <2>6. \A i \in 1..Len(log') : i \in 1..Len(log) \/ i = Len(log) + 1 BY <2>3, <2>4
  <2>7. InOrder(log')
    <3>1. \A i \in 1..Len(log') : log'[i].start < log'[i].end
      BY <1>2, <2>1, <2>4, <2>6 DEF LogIsOrdered, InOrder
    <3>2. ASSUME NEW i \in 1..Len(log'), NEW j \in 1..Len(log'), i < j
          PROVE  log'[i].n < log'[j].n /\ log'[i].end <= log'[j].start
      <4>1. i \in 1..Len(log) BY <2>3, <2>4, <3>2
      <4>2. CASE j \in 1..Len(log) BY <1>2, <2>4, <3>2, <4>1, <4>2 DEF LogIsOrdered, InOrder
      <4>3. CASE j = Len(log) + 1 BY <1>3, <2>1, <2>4, <4>1, <4>3
      <4> QED BY <2>6, <4>2, <4>3
    <3> QED BY <2>4, <3>1, <3>2 DEF InOrder
  <2>8. EndOf(segs, log')
    <3>1. ASSUME NEW i \in 1..Len(segs) PROVE segs[i] = log'[Len(log') - Len(segs) + i]
      <4>1. Len(log') - Len(segs) + i = Len(log) - Len(segments) + i BY <2>3, <2>4, <2>5
      <4>2. CASE i \in 1..Len(segments)
        <5>1. Len(log) - Len(segments) + i \in 1..Len(log) BY <2>2, <2>3, <4>2
        <5> QED BY <2>2, <2>4, <2>5, <4>1, <4>2, <5>1
      <4>3. CASE i = Len(segments) + 1
        <5>1. Len(log) - Len(segments) + i = Len(log) + 1 BY <2>3, <4>3
        <5> QED BY <2>4, <2>5, <4>1, <4>3, <5>1
      <4> QED BY <2>3, <2>5, <4>2, <4>3
    <3>2. Len(segs) <= Len(log') BY <2>2, <2>3, <2>4, <2>5
    <3> QED BY <2>5, <3>1, <3>2 DEF EndOf
  <2>9. Files(segs) = Files(segments) \cup {open.n}
    <3>1. Files(segs) = {segs[i].n : i \in 1..Len(segs)} /\ Files(segments) = {segments[i].n : i \in 1..Len(segments)}
      BY <2>2, <2>5, FilesIs
    <3>2. 1..Len(segs) = 1..Len(segments) \cup {Len(segments) + 1} BY <2>3, <2>5
    <3> QED BY <2>1, <2>5, <3>1, <3>2
  <2>10. stray \cap Files(segs) = {} /\ disk = Files(segs) \cup stray
    <3>1. stray \cap Files(segments) = {} /\ open.n \notin stray BY <1>2, NumbersIs DEF FilesDiffer
    <3>2. disk = Files(segments) \cup stray \cup {open.n} BY <1>1, <1>3 DEF IInv, DiskIsListed
    <3> QED BY <2>9, <3>1, <3>2
  <2>11. ASSUME NEW c \in clips
         PROVE  c.files \in Seq(Segment) /\ c.files # <<>> /\ (c.whole => PartOf(c.files, log') /\ Files(c.files) \subseteq disk)
    <3>1. ClipIsKept(c) BY DEF IInv
    <3>2. ASSUME PartOf(c.files, log) PROVE PartOf(c.files, log')
      <4>1. PICK b \in 0..Len(log) : b + Len(c.files) <= Len(log) /\ \A j \in 1..Len(c.files) : c.files[j] = log[b + j]
        BY <3>2 DEF PartOf
      <4>2. Len(c.files) \in Nat BY <3>1, LenProperties DEF ClipIsKept
      <4>3. b \in 0..Len(log') /\ b + Len(c.files) <= Len(log') /\ \A j \in 1..Len(c.files) : b + j \in 1..Len(log)
        BY <2>3, <2>4, <4>1, <4>2
      <4> QED BY <2>4, <4>1, <4>3 DEF PartOf
    <3> QED BY <3>1, <3>2 DEF ClipIsKept
  <2>12. Trimmed(segs, keep, clips) BY <1>7 DEF segs
  <2>13. /\ EndOf(segments', log') /\ clips' = clips /\ disk' = Files(segments') \cup stray
         /\ \A c \in clips : c.whole => Files(c.files) \subseteq disk'
         /\ segments' # <<>> =>
               \/ segments'[1].end > Floor(segments'[Len(segments')].end, keep)
               \/ \E c \in clips : segments'[1].end > c.files[1].start
    BY <1>2, <2>7, <2>8, <2>10, <2>11, <2>12, TrimmedIs
  <2>14. LogIsOrdered'
    <3>1. \A i \in 1..Len(log') : log'[i].n \in 1..next_number /\ log'[i].end <= now
      BY <1>2, <1>3, <2>1, <2>4, <2>6 DEF LogIsOrdered
    <3> QED BY <1>1, <2>7, <2>13, <3>1 DEF LogIsOrdered
  <2>15. FilesDiffer'
    <3>1. \A i \in 1..Len(log') : log'[i].n \notin stray BY <1>2, <2>1, <2>4, <2>6 DEF FilesDiffer
    <3>2. stray \subseteq 1..next_number BY <1>2 DEF FilesDiffer
    <3> QED BY <1>1, <1>5, <3>1, <3>2 DEF FilesDiffer
  <2>16. \A c \in clips' : ClipIsKept(c)' BY <2>11, <2>13 DEF IInv, ClipIsKept
  <2>17. KeepsItsLength' BY <1>1, <2>13 DEF KeepsItsLength
  <2>18. DiskIsListed' BY <1>1, <1>5, <2>13 DEF DiskIsListed
  <2> QED BY <1>4, <2>14, <2>15, <2>16, <2>17, <2>18 DEF IInv
<1> QED BY <1>6, <1>7 DEF closed

LEMMA LegStopsKeeps == ASSUME Lengths, IInv, LegStops PROVE IInv'
<1>1. /\ leg' = "none" /\ stray' = (IF leg = "opens" THEN stray \cup {next_number} ELSE stray)
      /\ UNCHANGED <<segments, open, next_number, codec, keep, clips, disk, now, log>>
  BY DEF LegStops
<1>2. next_number \in Nat /\ LogIsOrdered /\ FilesDiffer BY DEF IInv, TypeOK, Lengths
<1>3. TypeOK' BY <1>1 DEF IInv, TypeOK
<1>4. LogIsOrdered' BY <1>1, <1>2 DEF LogIsOrdered
<1>5. FilesDiffer'
  <2>1. open.n \in 0..next_number BY <1>2, NumbersIs
  <2>2. stray' \subseteq 1..next_number /\ open.n \notin stray'
    BY <1>1, <1>2, <2>1 DEF FilesDiffer
  <2>3. \A i \in 1..Len(log) : log[i].n \notin stray'
    <3>1. \A i \in 1..Len(log) : log[i].n \in Nat BY <1>2 DEF LogIsOrdered
    <3> QED BY <1>1, <1>2, <3>1 DEF FilesDiffer
  <2> QED BY <1>1, <1>2, <2>2, <2>3 DEF FilesDiffer
<1>6. \A c \in clips' : ClipIsKept(c)' BY <1>1 DEF IInv, ClipIsKept
<1>7. KeepsItsLength' BY <1>1 DEF IInv, KeepsItsLength
<1>8. DiskIsListed' BY <1>1 DEF IInv, DiskIsListed
<1> QED BY <1>3, <1>4, <1>5, <1>6, <1>7, <1>8 DEF IInv

LEMMA TickKeeps == ASSUME Lengths, IInv, Tick PROVE IInv'
<1>1. /\ now < MaxTime /\ now' = now + 1
      /\ UNCHANGED <<segments, open, next_number, codec, keep, clips, disk, leg, log, stray>>
  BY DEF Tick
<1>2. now \in Nat /\ MaxTime \in Nat BY DEF IInv, TypeOK, Lengths
<1>3. TypeOK' BY <1>1, <1>2 DEF IInv, TypeOK
<1>4. LogIsOrdered'
  <2>1. LogIsOrdered BY DEF IInv
  <2>2. \A i \in 1..Len(log) : log[i].end \in Nat
    <3>1. \A i \in 1..Len(log) : log[i] \in Segment BY <2>1, ElementOfSeq DEF LogIsOrdered, InOrder
    <3> QED BY <3>1 DEF Segment
  <2> QED BY <1>1, <1>2, <2>1, <2>2 DEF LogIsOrdered
<1>5. FilesDiffer'
  <2>1. 0..now \subseteq 0..now' BY <1>1, <1>2
  <2>2. FilesDiffer BY DEF IInv
  <2>3. open \in [n : 1..next_number, start : 0..now] => open \in [n : 1..next_number, start : 0..now'] BY <2>1
  <2> QED BY <1>1, <2>2, <2>3 DEF FilesDiffer
<1>6. \A c \in clips' : ClipIsKept(c)' BY <1>1 DEF IInv, ClipIsKept
<1>7. KeepsItsLength' /\ DiskIsListed' BY <1>1 DEF IInv, KeepsItsLength, DiskIsListed
<1> QED BY <1>3, <1>4, <1>5, <1>6, <1>7 DEF IInv

-----------------------------------------------------------------------------

LEMMA IInvAtFirst == ASSUME Lengths, Init PROVE IInv
<1>1. <<>> \in Seq(Segment) /\ Len(<<>>) = 0 BY EmptySeq
<1>2. TypeOK BY DEF Init, TypeOK, Lengths
<1>3. LogIsOrdered BY <1>1 DEF Init, LogIsOrdered, InOrder, EndOf
<1>4. FilesDiffer BY <1>1 DEF Init, FilesDiffer, None
<1>5. (\A c \in clips : ClipIsKept(c)) /\ KeepsItsLength BY DEF Init, KeepsItsLength
<1>6. DiskIsListed BY <1>1, FilesIs DEF Init, DiskIsListed, None
<1> QED BY <1>2, <1>3, <1>4, <1>5, <1>6 DEF IInv

LEMMA IInvStays == ASSUME Lengths, IInv, [Next]_vars PROVE IInv'
<1>1. CASE UNCHANGED vars
  BY <1>1 DEF vars, IInv, TypeOK, LogIsOrdered, FilesDiffer, ClipIsKept, KeepsItsLength, DiskIsListed
<1> QED
  BY <1>1, clipKeeps, newerKeeps, HoldDropsKeeps, set_keepKeeps, LegStartsKeeps, format_locationKeeps,
     openedKeeps, closedKeeps, LegStopsKeeps, TickKeeps
  DEF Next

LEMMA IInvSays == ASSUME Lengths, IInv PROVE TypeOK /\ HeldFilesStay /\ ClipsAreWhole /\ KeepsItsLength /\ DiskIsListed
<1>1. HeldFilesStay BY DEF IInv, ClipIsKept, HeldFilesStay
<1>2. ClipsAreWhole
  <2> SUFFICES ASSUME NEW c \in clips, c.whole
               PROVE  \E i \in 0..Len(log) :
                         /\ i + Len(c.files) <= Len(log)
                         /\ c.files = SubSeq(log, i + 1, i + Len(c.files))
                         /\ \A k \in 1..Len(c.files) - 1 : c.files[k + 1].start <= c.files[k].end + GAP
    BY DEF ClipsAreWhole
  <2>1. c.files \in Seq(Segment) /\ PartOf(c.files, log) /\ NoGaps(c.files) BY DEF IInv, ClipIsKept
  <2>2. log \in Seq(Segment) BY DEF IInv, LogIsOrdered, InOrder
  <2>3. \E i \in 0..Len(log) : i + Len(c.files) <= Len(log) /\ c.files = SubSeq(log, i + 1, i + Len(c.files))
    BY <2>1, <2>2, PartIs
  <2> QED BY <2>1, <2>3 DEF NoGaps
<1> QED BY <1>1, <1>2 DEF IInv

\* However long the buffer is, whatever its length is set to and however its
\* leg stops and starts: the files of a clip stay while it needs them and
\* follow on from each other, nothing past the length is kept but for clips,
\* and no file on disk is forgotten.
THEOREM BufferIsKept ==
    ASSUME Lengths
    PROVE  Spec => [](TypeOK /\ HeldFilesStay /\ ClipsAreWhole /\ KeepsItsLength /\ DiskIsListed)
<1>1. Init => IInv BY IInvAtFirst
<1>2. IInv /\ [Next]_vars => IInv' BY IInvStays
<1>3. IInv => TypeOK /\ HeldFilesStay /\ ClipsAreWhole /\ KeepsItsLength /\ DiskIsListed BY IInvSays
<1> QED BY <1>1, <1>2, <1>3, PTL DEF Spec
=============================================================================
