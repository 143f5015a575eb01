---------------------------------- MODULE Ltc ----------------------------------
(* Linear timecode read from a live source's audio (sources/ltc): the decoder  *)
(* takes edges as they come; each frame it decodes is kept with the running    *)
(* time it started at, and the video frames that leave the compositor, before  *)
(* or after the audio of their time is heard, are stamped with it, counted on. *)
(* Time is in half bits, and the video runs at LTC's rate, some way into its   *)
(* frames.                                                                     *)
EXTENDS Integers, Sequences

CONSTANTS
    MaxTime,             \* bounds: half bits of tape;
    MaxFaults, MaxActs,  \* edges or buffers lost; cuts of the tape;
    MaxLead              \* how far a video frame may leave before or after its audio is heard

\* A frame is its number in 2 bits, the lowest first, where LTC has 64, and a
\* sync word that, like LTC's, is nowhere else in what is played, either way
\* round. As LTC's digits, the number has values that are no number.
DataBits == 2
SYNC == <<0, 0, 1, 1, 1, 0, 1>>
Numbers == 3
Bits == DataBits + Len(SYNC)
Length == 2 * Bits
LOCK_WINDOW == 6 * Length
None == -1
NoFrame == [number |-> None, start |-> None]

VARIABLES
    at,              \* the running time the next bit starts at
    tape,            \* the bit played next, [number, bit, forward], or nothing
    runs,            \* history: what has been played without a break, [at, number, forward], the newest last
    hurt,            \* history: the ends of the bits that weren't heard as they are
    dec,             \* the decoder: [pos, edge, pending, bits, run, frame]
    last,            \* the last LTC frame, at the running time it started: [number, start]
    faults, acts

vars == <<at, tape, runs, hurt, dec, last, faults, acts>>

Bit(number, b) == IF b <= DataBits THEN (number \div 2^(b - 1)) % 2 ELSE SYNC[b - DataBits]
\* The number of the frame at `t`, counted from `number` at `from`, by whole
\* frames to the nearest.
count_on(number, from, t) == (number + (2 * (t - from) + Length) \div (2 * Length)) % Numbers
Apart(a, b) == IF a < b THEN b - a ELSE a - b

Silent == [number |-> None, bit |-> 1, forward |-> TRUE]
Default == [pos |-> 0, edge |-> None, pending |-> None, bits |-> <<>>, run |-> 0, frame |-> NoFrame]

Init ==
    /\ at = 0 /\ hurt = {} /\ dec = Default /\ last = NoFrame
    /\ tape = [number |-> 1, bit |-> 1, forward |-> TRUE]
    /\ runs = <<[at |-> 0, number |-> 1, forward |-> TRUE]>>
    /\ faults = 0 /\ acts = 0

----------------------------------------------------------------------------
(* The decoder                                                                *)

lose_clock(d) == [d EXCEPT !.pending = None, !.run = 0]
\* The frame the window holds, if its digits are ones.
frame(d) ==
    LET number == d.bits[1].one + 2 * d.bits[2].one
    IN  IF number < Numbers THEN [number |-> number, start |-> d.bits[1].start] ELSE NoFrame
\* A bit from `start` completes a frame where the sync word does and the clock
\* hasn't been lost in it.
bit(d, start, one) ==
    LET longer == Append(d.bits, [one |-> one, start |-> start])
        next == [d EXCEPT !.bits = IF Len(longer) > Bits THEN Tail(longer) ELSE longer,
                          !.run = IF @ < Bits THEN @ + 1 ELSE @]
        synced == \A i \in DOMAIN SYNC : next.bits[DataBits + i].one = SYNC[i]
    IN  IF next.run < Bits \/ ~synced THEN next ELSE [next EXCEPT !.frame = frame(next)]
\* Half a bit is half a 1; a whole one is a 0, unless half a 1 came before it.
interval(d, from, n) ==
    CASE n - from = 1 -> IF d.pending = None THEN [d EXCEPT !.pending = from]
                         ELSE bit([d EXCEPT !.pending = None], d.pending, 1)
      [] n - from = 2 -> IF d.pending # None THEN lose_clock(d) ELSE bit(d, from, 0)
      [] OTHER -> lose_clock(d)
Edge(d, n) == IF d.edge = None THEN [d EXCEPT !.edge = n] ELSE interval([d EXCEPT !.edge = n], d.edge, n)
\* What a bit of audio with these edges (at its start, halfway) makes of the decoder.
push(d, edges) ==
    LET first == IF 0 \in edges THEN Edge(d, d.pos) ELSE d
        both == IF 1 \in edges THEN Edge(first, d.pos + 1) ELSE first
    IN  [both EXCEPT !.pos = @ + 2]
\* In silence no edge is heard, and the next follows none.
Hush(d) == [lose_clock(d) EXCEPT !.edge = None, !.pos = @ + 2]

\* The frame's first bit may have been in an earlier buffer.
decode_into(d) ==
    /\ dec' = [d EXCEPT !.frame = NoFrame]
    /\ last' = IF d.frame = NoFrame \/ at - (dec.pos - d.frame.start) < 0 THEN last
               ELSE [number |-> d.frame.number, start |-> at - (dec.pos - d.frame.start)]

----------------------------------------------------------------------------
(* The tape                                                                   *)

Playing == tape.number # None
Edges == IF Bit(tape.number, tape.bit) = 1 THEN {0, 1} ELSE {0}
\* What is played next; the other way, bits and frames come in reverse.
Onward(t) ==
    CASE t.forward /\ t.bit < Bits -> [t EXCEPT !.bit = @ + 1]
      [] t.forward /\ t.bit = Bits -> [t EXCEPT !.bit = 1, !.number = (@ + 1) % Numbers]
      [] ~t.forward /\ t.bit > 1 -> [t EXCEPT !.bit = @ - 1]
      [] OTHER -> [t EXCEPT !.bit = Bits, !.number = (@ + Numbers - 1) % Numbers]
GoesOn == /\ at < MaxTime /\ at' = at + 2
          /\ tape' = IF Playing THEN Onward(tape) ELSE tape
          /\ UNCHANGED <<runs, acts>>

Plays ==
    /\ Playing /\ GoesOn
    /\ decode_into(push(dec, Edges))
    /\ UNCHANGED <<hurt, faults>>
\* An edge is missed, or heard where there is none, or there is silence.
Disturbed ==
    /\ Playing /\ GoesOn
    /\ faults < MaxFaults /\ faults' = faults + 1 /\ hurt' = hurt \cup {at'}
    /\ \/ \E edges \in SUBSET {0, 1} \ {Edges} : decode_into(push(dec, edges))
       \/ decode_into(Hush(dec))
\* Of the first edges after a silence some may be missed, and the sound that
\* begins is an edge itself.
PlaysAfterSilence ==
    /\ Playing /\ GoesOn /\ dec.edge = None
    /\ \E edges \in SUBSET {0, 1} \ {{}, Edges} : decode_into(push(dec, edges))
    /\ hurt' = hurt \cup {at'} /\ UNCHANGED faults
Quiet ==
    /\ ~Playing /\ GoesOn
    /\ decode_into(Hush(dec))
    /\ UNCHANGED <<hurt, faults>>
\* The queue drops what the decoder can't take in time; what follows says so.
Dropped ==
    /\ Playing /\ GoesOn
    /\ faults < MaxFaults /\ faults' = faults + 1 /\ hurt' = hurt \cup {at'}
    /\ dec' = Default /\ UNCHANGED last
\* It is cut to somewhere else, played backwards, or ends, as a frame begins
\* or within one (bound).
Jumps ==
    /\ acts < MaxActs /\ acts' = acts + 1 /\ tape.bit \in {1, 4}
    /\ \E next \in {Silent, [number |-> 2, bit |-> 1, forward |-> TRUE], [number |-> 0, bit |-> Bits, forward |-> FALSE]} :
        /\ next # tape
        /\ tape' = next
        /\ runs' = Append(runs, [at |-> at, number |-> next.number, forward |-> next.forward])
    /\ UNCHANGED <<at, hurt, dec, last, faults>>

Next == Plays \/ Disturbed \/ PlaysAfterSilence \/ Quiet \/ Dropped \/ Jumps
Spec == Init /\ [][Next]_vars

----------------------------------------------------------------------------
(* The video                                                                  *)

\* What the frame of the video at `t`, with no timecode of its own, leaves with now.
stamp(t) ==
    IF last = NoFrame THEN [state |-> "missing", number |-> None]
    ELSE [state |-> IF Apart(t, last.start) <= LOCK_WINDOW THEN "locked" ELSE "lost",
          number |-> count_on(last.number, last.start, t)]

----------------------------------------------------------------------------
(* What must hold                                                             *)

RunAt(t) == runs[CHOOSE i \in DOMAIN runs : runs[i].at <= t /\ \A j \in DOMAIN runs : j > i => runs[j].at > t]
Newest == runs[Len(runs)]
Forward(run) == run.number # None /\ run.forward
\* What was played at `t`, of a run played forward, and whether a frame began there.
Said(run, t) == (run.number + (t - run.at) \div Length) % Numbers
Begins(run, t) == (t - run.at) % Length = 0
\* Where the first whole frame of the newest run begins that was heard
\* undisturbed from then on.
Clear == LET since == IF \E h \in hurt : h > Newest.at
                      THEN (CHOOSE h \in hurt : \A g \in hurt : g <= h) - Newest.at ELSE 0
         IN  Newest.at + Length * ((since + Length - 1) \div Length)

\* A decoded frame began as one played forward did, or one edge off, however
\* edges, buffers or the tape's place were lost: none is pieced together over a
\* gap. Where no bit of it was misheard, it began just then and as it says.
FramesAreTrue ==
    last # NoFrame =>
        LET run == RunAt(last.start)
        IN  /\ Forward(run)
            /\ \E off \in -1..1 : Begins(run, last.start + off)
            /\ (\A h \in hurt : h \notin last.start + 1..last.start + Length + 2) =>
                   Begins(run, last.start) /\ last.number = Said(run, last.start)
\* However timecode was lost, two whole frames bring it back: each video frame
\* from then on has the number played at its own time, "exact however late the
\* LTC is decoded" (ltc/mod.rs:20-24), up to half a frame, and is locked.
StampsAreTrue ==
    Forward(Newest) /\ at > Clear + 2 * Length =>
        \A t \in at - MaxLead..at + MaxLead :
            t >= Newest.at /\ Begins([Newest EXCEPT !.at = @ + Length \div 3], t) =>
                stamp(t) = [state |-> "locked", number |-> Said(Newest, t)]
=============================================================================
