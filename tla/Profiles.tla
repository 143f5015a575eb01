------------------------------ MODULE Profiles ------------------------------
(* What a recording's output encodes (pipeline/profile.rs): a preset's output *)
(* is checked when it is saved, resolved on the node that records it, and its *)
(* leg built with the first encoder that works there (pipeline/recording.rs). *)
EXTENDS Integers, Sequences, SequencesExt, FiniteSetsExt

CONSTANTS
    Outputs, \* PresetOutputInput: sets of settings
    Sources, \* what a source's audio is: its channels, and whether they have positions
    Nodes,   \* the encoders nodes have
    MaxFaults \* bound: encoders that don't build

VARIABLES
    output, stage, \* the output, "new", "saved", "refused", "starting", "built" or "failed"
    source, has,   \* the recording's, and its node's
    tried,         \* encoders that didn't build
    leg,           \* RecordingLeg: what it was built with
    faults

vars == <<output, stage, source, has, tried, leg, faults>>

Hardware == {"vt", "nv", "va", "amf", "qsv", "mf"}
Compressed == {"h264", "h265", "vp9"}

----------------------------------------------------------------------------
(* RecordingProfile                                                           *)

incompatible(o) ==
    \/ o.codec = "vp9" /\ o.container \in {"mov", "mp4"}
    \/ o.codec \in {"prores", "raw"} /\ o.container = "mp4"

\* Best first. Hardware takes 4:2:0 only.
encoders_for_codec(o) ==
    CASE o.codec = "h264" -> IF o.chroma = 420 THEN <<"vt", "nv", "va", "amf", "qsv", "mf", "x264">> ELSE <<"x264">>
      [] o.codec = "h265" -> IF o.chroma = 420 THEN <<"vt", "nv", "va", "amf", "qsv", "x265">> ELSE <<"x265">>
      [] o.codec = "vp9" -> <<"vp9">>
      [] o.codec = "prores" -> <<"vt", "ks">>
      [] o.codec = "raw" -> <<"identity">>
encoders(o) ==
    SelectSeq(encoders_for_codec(o), LAMBDA e :
        CASE o.encoder = "auto" -> TRUE [] o.encoder = "hardware" -> e \in Hardware [] OTHER -> e \notin Hardware)
has_encoder(o, node) == \E e \in Range(encoders(o)) : e = "identity" \/ <<e, o.codec>> \in node

\* The chroma an encoder is fed; 0 is the source's.
encoder_input_format(o, e) ==
    CASE o.codec \in {"h264", "h265"} /\ e \in {"vt", "x264", "x265"} -> o.chroma
      [] o.codec \in {"h264", "h265"} \/ e = "vp9" -> 420
      [] e = "vt" -> 422
      [] OTHER -> 0

audio_format(o) ==
    IF o.audio # "auto" THEN o.audio
    ELSE IF o.codec \notin Compressed THEN "pcm"
    ELSE IF o.container = "mkv" THEN "opus" ELSE "aac"

check_advanced(o) ==
    /\ encoders(o) # <<>>
    /\ o.keyframe_secs \in 1..60 /\ o.split \in {0} \cup 1..1440
    /\ ~(o.audio = "pcm" /\ o.container = "mp4")
    /\ ~(o.audio = "opus" /\ o.container \in {"mov", "mp4"})
    /\ o.channels = "pick" =>
        /\ o.pick # <<>> /\ Range(o.pick) \subseteq 1..64
        /\ Len(o.pick) > 2 => audio_format(o) = "pcm"

\* In thousandths; a decimal near an NTSC rate means that rate.
gcd(t) == Max({g \in {1, 2, 4, 5, 8, 10, 20, 25, 40, 50, 100, 125, 200, 250, 500} : t % g = 0})
parse_framerate(t) ==
    LET ntsc == (t * 1001 + 500000) \div 1000000
        off == t * 1001 - ntsc * 1000000
    IN  IF t <= 0 \/ t > 1000000 THEN <<>>
        ELSE IF t % 1000 = 0 THEN <<t \div 1000, 1>>
        ELSE IF ntsc > 0 /\ off < 6 * 1001 /\ off > -6 * 1001 THEN <<ntsc * 1000, 1001>>
        ELSE <<t \div gcd(t), 1000 \div gcd(t)>>
format_framerate(r) == (r[1] * 1000 + r[2] \div 2) \div r[2]

\* 0 is left blank, to match the source.
from_output(o) == ~incompatible(o) /\ check_advanced(o) /\ (o.rate # 0 => parse_framerate(o.rate) # <<>>)

\* PCM in .mov keeps its index at the front of the file, with room for hours;
\* such a leg, and one that splits, is written by splitmuxsink.
PCM_MAX_FILE == 240
reserves_index(o) == o.container = "mov" /\ audio_format(o) = "pcm"
max_file_duration(o) ==
    IF reserves_index(o) THEN (IF o.split = 0 THEN PCM_MAX_FILE ELSE Min({o.split, PCM_MAX_FILE})) ELSE o.split

\* The gains, in 840ths, of the source's channels in each of the leg's; no
\* rows where audioconvert maps them.
One == 840
audio_mix(o, src) ==
    LET n == src.n
        row(gain(_)) == [c \in 1..n |-> gain(c)]
    IN  CASE o.channels = "all" -> [channels |-> n, rows |-> <<>>]
          [] o.channels = "stereo" -> [channels |-> 2, rows |->
                CASE src.positioned \/ n = 2 -> <<>>
                  [] n = 1 -> << <<One>>, <<One>> >>
                  [] OTHER -> LET gain == One \div ((n + 1) \div 2) IN
                        << row(LAMBDA c : IF c % 2 = 1 THEN gain ELSE 0), row(LAMBDA c : IF c % 2 = 0 THEN gain ELSE 0) >>]
          [] OTHER -> [channels |-> Len(o.pick), rows |->
                [i \in DOMAIN o.pick |-> row(LAMBDA c : IF c = o.pick[i] THEN One ELSE 0)]]
relabel_pcm_channels(o, src) == reserves_index(o) /\ o.channels = "all" /\ src.n > 2

----------------------------------------------------------------------------
(* The leg                                                                    *)

\* What an encoder is told, at 30 frames a second: its mean bitrate over the
\* output's in percent (0 where it goes by quality), and its keyframe spacing.
build_video_encoder(o, e) ==
    LET keyint == o.keyframe_secs * 30 IN
    [keyint |-> CASE e = "va" -> Min({keyint, 1024}) [] e = "qsv" -> Min({keyint, 65535})
                  [] e \in {"ks", "identity"} \/ o.codec = "prores" -> 1 [] OTHER -> keyint,
     percent |-> CASE o.codec \notin Compressed -> 0 [] o.rate_control = "quality" -> 0
                   [] e = "va" /\ o.rate_control = "average" -> (150 * 66) \div 100 [] OTHER -> 100]

\* What is linked: the picture's format and encoder, the sound and its layout
\* ("left open" where neither a mask nor the relabel says what the channels
\* are), and the file.
audio_chain(o, src) ==
    LET mix == audio_mix(o, src) IN
    [codec |-> audio_format(o), channels |-> mix.channels, rows |-> mix.rows,
     numbered |-> relabel_pcm_channels(o, src) \/ (o.channels # "all" /\ mix.channels > 2)]
\* The room for an index: the longest file, and some after it.
CRASH_SAFE_PERIOD == 10
set_muxer(o) == IF reserves_index(o) THEN max_file_duration(o) * 60 + CRASH_SAFE_PERIOD ELSE 0
\* The longest a file can grow: to the keyframe asked for at its limit, or with
\* a size limit as well to the next that comes.
file_sink(o) == max_file_duration(o) * 60 + IF o.split_gb THEN o.keyframe_secs ELSE 0
build_with(o, src, e) ==
    [encoder |-> e, format |-> encoder_input_format(o, e), video |-> build_video_encoder(o, e),
     audio |-> audio_chain(o, src), reserved |-> set_muxer(o), longest |-> file_sink(o)]

\* A preset is saved: each output that can't be recorded anywhere is refused.
validate_outputs ==
    /\ stage = "new" /\ stage' = IF from_output(output) THEN "saved" ELSE "refused"
    /\ UNCHANGED <<output, source, has, tried, leg, faults>>
\* A recording starts on a node, which refuses it where it lacks the encoders.
missing_encoder ==
    /\ stage = "saved"
    /\ \E src \in Sources, node \in Nodes :
        /\ source' = src /\ has' = node
        /\ stage' = IF has_encoder(output, node) THEN "starting" ELSE "refused"
    /\ UNCHANGED <<output, tried, leg, faults>>
\* mutant: the first encoder of the codec, whichever kind was asked for.
first_of_codec ==
    LET left == SelectSeq(encoders_for_codec(output), LAMBDA e : e \notin tried) IN
    /\ stage = "starting" /\ left # <<>>
    /\ leg' = build_with(output, source, Head(left)) /\ stage' = "built"
    /\ UNCHANGED <<output, source, has, tried, faults>>
\* The first encoder that builds: the node may lack it, its driver a setting.
first_that_builds ==
    LET left == SelectSeq(encoders(output), LAMBDA e : e \notin tried)
        e == Head(left)
        there == e = "identity" \/ <<e, output.codec>> \in has
    IN
    /\ stage = "starting"
    /\ IF left = <<>> THEN stage' = "failed" /\ UNCHANGED <<tried, leg, faults>>
       ELSE \/ /\ there /\ leg' = build_with(output, source, e) /\ stage' = "built" /\ UNCHANGED <<tried, faults>>
            \/ /\ there => faults < MaxFaults
               /\ faults' = IF there THEN faults + 1 ELSE faults
               /\ tried' = tried \cup {e} /\ UNCHANGED <<stage, leg>>
    /\ UNCHANGED <<output, source, has>>

Nothing == [encoder |-> "", audio |-> <<>>]
Init ==
    /\ output \in Outputs /\ stage = "new" /\ source = <<>> /\ has = {} /\ tried = {} /\ leg = Nothing /\ faults = 0
Next == validate_outputs \/ missing_encoder \/ first_that_builds
Spec == Init /\ [][Next]_vars

----------------------------------------------------------------------------
(* Properties                                                                 *)

\* What was saved records wherever a node has one of its encoders that builds,
\* with an encoder of the kind asked for, in a file that takes its picture and
\* its sound (qtmux takes more than two PCM channels only numbered).
Holds == [mov |-> {"h264", "h265", "prores", "raw", "aac", "pcm"}, mp4 |-> {"h264", "h265", "aac"},
          mkv |-> {"h264", "h265", "vp9", "prores", "raw", "aac", "opus", "pcm"}]
SavedMeansRecords ==
    /\ stage = "failed" => \A e \in Range(encoders(output)) : <<e, output.codec>> \in has => faults > 0
    /\ stage = "built" =>
        /\ {output.codec, leg.audio.codec} \subseteq Holds[output.container]
        /\ output.encoder = "hardware" => leg.encoder \in Hardware
        /\ output.encoder = "software" => leg.encoder \notin Hardware
        /\ output.container = "mov" /\ leg.audio.codec = "pcm" /\ leg.audio.channels > 2 => leg.audio.numbered

\* Whichever encoder it is, the picture keeps the chroma asked for (where the
\* codec leaves it open) and its bitrate, and is never cut by longer steps.
SameWhicheverEncoder ==
    stage = "built" =>
        /\ output.codec \in {"h264", "h265"} => leg.format = output.chroma
        /\ leg.video.percent = 0 <=> (output.codec \notin Compressed \/ output.rate_control = "quality")
        /\ leg.video.percent # 0 => leg.video.percent \in 99..101
        /\ leg.video.keyint <= output.keyframe_secs * 30

\* A mix never clips, stereo leaves none of the source's channels out, and a
\* file never outgrows the room for its index: with a size limit too, as long
\* as keyframes come that often.
SoundIsKept ==
    stage = "built" =>
        LET rows == leg.audio.rows IN
        /\ \A i \in DOMAIN rows : FoldFunction(+, 0, rows[i]) <= One
        /\ output.channels = "stereo" /\ rows # <<>> =>
            \A c \in 1..source.n : \E i \in DOMAIN rows : rows[i][c] > 0
        /\ leg.reserved # 0 /\ (output.split_gb => output.keyframe_secs <= CRASH_SAFE_PERIOD) =>
            leg.longest # 0 /\ leg.longest <= leg.reserved

\* A frame rate is the one that was typed, and the one shown for it means it.
RateIsTheOneTyped ==
    stage = "saved" /\ output.rate # 0 =>
        LET r == parse_framerate(output.rate)
            off == output.rate * r[2] - r[1] * 1000
        IN off < 6 * r[2] /\ off > -6 * r[2] /\ parse_framerate(format_framerate(r)) = r
=============================================================================
