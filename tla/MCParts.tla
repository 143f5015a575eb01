------------------------------- MODULE MCParts -------------------------------
(* Small instances of the node's other parts, checked in one run: each        *)
(* behaviour is of one part, and they share these variables.                  *)
EXTENDS Integers, Sequences, TLAPS

VARIABLES part,
    v1, v2, v3, v4, v5, v6, v7, v8, v9, v10, v11, v12, v13, v14, v15, v16, v17, v18, v19, v20
vars == <<part,
    v1, v2, v3, v4, v5, v6, v7, v8, v9, v10, v11, v12, v13, v14, v15, v16, v17, v18, v19, v20>>
\* What is left over of the variables, of which each part has as many as its module.
Rest20 == <<v20>>
Rest19 == <<v19, Rest20>>
Rest18 == <<v18, Rest19>>
Rest17 == <<v17, Rest18>>
Rest16 == <<v16, Rest17>>
Rest15 == <<v15, Rest16>>
Rest14 == <<v14, Rest15>>
Rest13 == <<v13, Rest14>>
Rest12 == <<v12, Rest13>>
Rest11 == <<v11, Rest12>>
Rest10 == <<v10, Rest11>>
Rest9 == <<v9, Rest10>>
Rest8 == <<v8, Rest9>>
Rest7 == <<v7, Rest8>>
Rest6 == <<v6, Rest7>>
Rest5 == <<v5, Rest6>>
Idle20 == v20 = 0
Idle19 == v19 = 0 /\ Idle20
Idle18 == v18 = 0 /\ Idle19
Idle17 == v17 = 0 /\ Idle18
Idle16 == v16 = 0 /\ Idle17
Idle15 == v15 = 0 /\ Idle16
Idle14 == v14 = 0 /\ Idle15
Idle13 == v13 = 0 /\ Idle14
Idle12 == v12 = 0 /\ Idle13
Idle11 == v11 = 0 /\ Idle12
Idle10 == v10 = 0 /\ Idle11
Idle9 == v9 = 0 /\ Idle10
Idle8 == v8 = 0 /\ Idle9
Idle7 == v7 = 0 /\ Idle8
Idle6 == v6 = 0 /\ Idle7
Idle5 == v5 = 0 /\ Idle6

I == INSTANCE ReplayIndex WITH segments <- v1, open <- v2, next_number <- v3, codec <- v4, keep <- v5, clips <- v6,
        disk <- v7, leg <- v8, now <- v9, log <- v10, stray <- v11,
        SEGMENT <- 2, GAP <- 1, Keeps <- {2, 4}, Codecs <- {"avc", "hevc"}, MaxTime <- 6, MaxFiles <- 3,
        MaxClips <- 1
O == INSTANCE Outputs WITH saved <- v1, checked <- v2, rescan <- v3, feeds <- v4, outs <- v5, work <- v6,
        held <- v7, mounts <- v8, clash <- v9, saves <- v10, faults <- v11,
        Channels <- {"c1", "c2"}, Formats <- {1}, Legs <- 1..6, MaxSaves <- 3, MaxFaults <- 1,
        Lists <- {<<>>, <<"ndi">>, <<"whep", "ndi">>, <<"rtsp">>, <<"rtsp", "ndi">>},
        Kind <- [i \in {"ndi", "whep", "rtsp"} |-> IF i = "ndi" THEN "name" ELSE i]
\* A playlist of two files that is edited and emptied, and a replay.
A == [id |-> "a", media |-> "m", end |-> "next"]
AHold == [A EXCEPT !.end = "hold"]
B == [id |-> "b", media |-> "m", end |-> "black"]
P == INSTANCE Playout WITH items <- v1, loop_playlist <- v2, current <- v3, next <- v4, preloading <- v5,
        position <- v6, shared <- v7, lanes <- v8, preloads <- v9, tasks <- v10, asked <- v11, acts <- v12,
        faults <- v13,
        MaxActs <- 3, MaxFaults <- 1, Serials <- 1..4, Growing <- {"r"},
        Playlists <- {<< <<A, B>>, FALSE >>, << <<B>>, TRUE >>, << <<AHold, B>>, FALSE >>},
        Loads <- [media : {"r"}, end : {"hold"}, rate : {1}, out : BOOLEAN]
S == INSTANCE Screens WITH rows <- v1, choices <- v2, pending <- v3, asking <- v4, failed <- v5, lock <- v6,
        dialogs <- v7, retains <- v8, changed <- v9, saver <- v10, stored <- v11, signed_in <- v12, honoured <- v13,
        issued <- v14, running <- v15, opening <- v16, restored <- v19, rescan <- v17, lost <- v18,
        faults <- v20,
        Sources <- {"s1", "s2"}, Displays <- {"a"}, MaxDialogs <- 2, MaxTokens <- 3, MaxDeletes <- 1,
        MaxFaults <- 1
T == INSTANCE Access WITH token <- v1, code <- v2, stored <- v3, stored_code <- v4, links <- v5, tasks <- v6,
        peer_token <- v7, codes <- v8, secrets <- v9, signed_in <- v10, tries <- v11, behind <- v12, loose <- v13,
        acts <- v14, faults <- v15,
        Tokens <- {"t1", "t2"}, Peers <- {"n1", "n2"}, Slots <- {"a", "b"}, PairingAttempts <- 2, KeptLinks <- 1,
        MaxCodes <- 3, MaxSecrets <- 2, MaxActs <- 3, MaxFaults <- 1
M == INSTANCE Benchmark WITH slot <- v1, cancelled <- v2, starts <- v3, phase <- v4, asked <- v5, feeds <- v6,
        search <- v7, fit <- v8, rows <- v9, scratch <- v10, recording <- v11, records <- v12, waits <- v13,
        beside <- v14, faults <- v15,
        Ids <- {"b1", "b2"}, Limits <- {4}, Fits <- {2}, MaxRecords <- 1, MaxFaults <- 1

U == INSTANCE Updater WITH phase <- v1, channel <- v2, latest <- v3, checks <- v4, starts <- v5, install <- v6,
        app <- v7, staging <- v8, windows <- v14, up <- v9, restarting <- v10, overlapped <- v11, changes <- v12,
        faults <- v13,
        Channels <- {"stable", "beta"}, Checks <- {1, 2}, Starts <- {1, 2}, MaxChanges <- 2, MaxFaults <- 1
W == INSTANCE Power WITH busy <- v1, system <- v2, displays <- v3, sent <- v4, held <- v5, sends <- v6,
        MaxShown <- 2, MaxSends <- 5
L == INSTANCE Library WITH media <- v1, stored <- v2, configured <- v3, running <- v4, list <- v5, made <- v6,
        reqs <- v7, loose <- v8, added <- v9, acts <- v10, faults <- v11,
        Channels <- {"c1"}, Paths <- {"a", "b"}, Playlists <- {<<>>, <<1>>, <<2, 1>>}, Requests <- {1, 2},
        MaxAdds <- 2, MaxActs <- 3, MaxFaults <- 1
C == INSTANCE ReplayClips WITH rows <- v1, groups <- v2, dirs <- v3, files <- v4, listed <- v5, reqs <- v6,
        crossed <- v7, made <- v8, acts <- v9, faults <- v10,
        Requests <- {1, 2}, Angles <- {1, 2}, MaxClips <- 3, MaxFiles <- 2, MaxActs <- 4, MaxFaults <- 1
R == INSTANCE Presets WITH name <- v1, default <- v2, records <- v3, tags <- v4, reqs <- v5, crossed <- v6,
        acts <- v7,
        Ids <- 1..3, Words <- 1..3, Schedules <- {1}, Sources <- {1, 2}, Requests <- {1, 2}, MaxActs <- 3
K == INSTANCE Markers WITH phase <- v1, list <- v2, rows <- v3, reqs <- v4, mixed <- v5, made <- v6, acts <- v7,
        faults <- v8,
        Times <- {1, 2}, Notes <- {1}, Colors <- {1}, Requests <- {1, 2}, MaxMarkers <- 2, MaxActs <- 2,
        MaxFaults <- 1
\* Los Angeles, where the clocks change at two, and a zone where they do at
\* midnight; rules for the dates months lack, first and last weeks, the hours
\* the clocks skip and repeat, a first date, and some that mean nothing.
LosAngeles == [base |-> -16, changes |-> {[at |-> 66 * 48 + 20, offset |-> -14], [at |-> 304 * 48 + 18, offset |-> -16],
                                          [at |-> 437 * 48 + 20, offset |-> -14], [at |-> 675 * 48 + 18, offset |-> -16]}]
AtMidnight == [base |-> 24, changes |-> {[at |-> 92 * 48 + 24, offset |-> 22], [at |-> 268 * 48 + 26, offset |-> 24],
                                         [at |-> 457 * 48 + 24, offset |-> 22]}]
OnDays(kind, date, weekdays, start) ==
    [kind |-> kind, date |-> date, weekdays |-> weekdays, day |-> 0, week |-> 0, start |-> start]
OnDay(on, from, start) == [OnDays("monthly", from, {}, start) EXCEPT !.day = on]
InWeek(week, weekdays, start) == [OnDays("monthly", {}, weekdays, start) EXCEPT !.week = week]
X == INSTANCE Rules WITH rule <- v1, zone <- v2, starts <- v3, before <- v4, now <- v5,
        Zones <- {LosAngeles, AtMidnight}, Begins <- {48 * 40 + 7}, Until <- 850 * 48,
        Inputs <- {OnDays("once", {300}, {}, 4), OnDays("weekly", {}, {6}, 5), OnDays("weekly", {}, {2, 6}, 47),
                   OnDays("weekly", {}, {6}, 0), OnDays("weekly", {}, {}, 3),
                   OnDay(31, {}, 20), OnDay(29, {}, 0), OnDay(8, {425}, 5), OnDay(15, {}, 47), OnDay(32, {}, 3),
                   InWeek(-1, {6}, 5), InWeek(1, {6}, 3), InWeek(4, {2}, 1), InWeek(2, {2, 6}, 5)}

H == INSTANCE Thumbnails WITH thumb <- v1, made <- v2, early <- v3, inbox <- v4, local <- v5, pending <- v6,
        unseen <- v7, sending <- v8, out <- v9, task <- v10, told <- v11, untold <- v12, passed <- v13, lost <- v14,
        other <- v15, wanted <- v16, shown <- v17, faults <- v18,
        Own <- {"a"}, Theirs <- {"b", "c"}, Subs <- {{}, {"a", "b"}, {"b", "c"}}, PeerBuffer <- 1, Cap <- 1,
        MaxFrames <- 2, MaxFaults <- 2
E == INSTANCE Events WITH now <- v1, buffer <- v2, last <- v3, queue <- v4, missed <- v5, view <- v6, conn <- v7,
        heard <- v8, next_ping <- v9, blocked <- v10, pong <- v11, reading <- v12, quiet_since <- v13,
        paused <- v14, faults <- v15,
        REPLAY_DRIFT <- 2, PING_INTERVAL <- 3, SEND_TIMEOUT <- 2, CHANNEL_CAPACITY <- 1, Keep <- 3, MaxTime <- 10,
        MaxFaults <- 2
D == INSTANCE Displays WITH leg <- v1, queue <- v2, windows <- v3, awake <- v4, lost <- v5, screen <- v6,
        mode <- v7, rates <- v8, opens <- v9, faults <- v10, given_up <- v11, blinked <- v12,
        Legs <- {1}, ScreenOf <- <<1>>, Spare <- {2}, MaxOpens <- 2, MaxFaults <- 3, MaxQueue <- 3
\* Each codec in each file, with each kind of encoder and sound; mixes; splits;
\* rate controls; and rates around those that decimals stand for.
Plain == [codec |-> "h264", container |-> "mov", chroma |-> 420, encoder |-> "auto", audio |-> "auto", channels |-> "all",
          pick |-> <<>>, split |-> 0, split_gb |-> FALSE, keyframe_secs |-> 2, rate |-> 0, rate_control |-> "average"]
Settings ==
    LET cs == {"h264", "h265", "vp9", "prores", "raw"} IN
    {[Plain EXCEPT !.codec = c, !.container = m, !.chroma = y, !.encoder = e, !.audio = a] :
        c \in cs, m \in {"mov", "mp4", "mkv"}, y \in {420, 422}, e \in {"auto", "hardware", "software"},
        a \in {"auto", "aac", "pcm", "opus"}}
    \cup {[Plain EXCEPT !.container = m, !.audio = a, !.channels = c, !.pick = p] :
        m \in {"mov", "mkv"}, a \in {"aac", "pcm"}, c \in {"all", "stereo", "pick"}, p \in {<<>>, <<2>>, <<3, 1, 9>>, <<70>>}}
    \cup {[Plain EXCEPT !.audio = "pcm", !.split = s, !.split_gb = g, !.keyframe_secs = k] :
        s \in {0, 30, 300, 1441}, g \in BOOLEAN, k \in {2, 10, 40, 61}}
    \cup {[Plain EXCEPT !.codec = c, !.container = "mkv", !.rate_control = r, !.keyframe_secs = k] :
        c \in cs, r \in {"average", "constant", "quality"}, k \in {2, 40}}
    \cup {[Plain EXCEPT !.rate = t] :
        t \in {-1, 1, 12345, 1000001} \cup 5985..6005 \cup 23950..24010 \cup 29950..30010 \cup 59930..59950}
G == INSTANCE Profiles WITH output <- v1, stage <- v2, source <- v3, has <- v4, tried <- v5, leg <- v6,
        faults <- v7,
        Outputs <- Settings, MaxFaults <- 1,
        Sources <- {[n |-> 1, positioned |-> FALSE], [n |-> 2, positioned |-> TRUE], [n |-> 7, positioned |-> FALSE],
                    [n |-> 6, positioned |-> TRUE]},
        Nodes <- {{"vt"} \X {"h264", "h265", "prores"}, {<<"nv", "h264">>, <<"qsv", "h265">>, <<"x264", "h264">>},
                  {<<"va", "h264">>, <<"x264", "h264">>, <<"x265", "h265">>, <<"vp9", "vp9">>, <<"ks", "prores">>}}
\* Outputs that split, roll over, or write one file; two that read alike once a
\* recording starts, two that number alike, and one that isn't saved.
Out(template, ext, how) ==
    [template |-> template, name |-> 1, ext |-> ext, splits |-> how = "splits", rolls |-> how = "rolls"]
Text == <<"text", 1>>
Date == <<"date", 0>>
Take == <<"take", 0>>
F == INSTANCE Plans WITH outputs <- v1, day <- v2, plan <- v3, next <- v4, disk <- v5, overwritten <- v6,
        starts <- v7, removed <- v8, crossed <- v9,
        Sources <- {1, 2}, Recordings <- {1, 2}, MaxCount <- 4, MaxFiles <- 2, MaxStarts <- 2, MaxRemovals <- 1,
        Lists <- {<<Out(<<Text, Date>>, "mov", "rolls"), Out(<<Text, Date>>, "mp4", "one")>>,
                  <<Out(<<Text, Take>>, "mov", "splits"), Out(<<Text, <<"source", 0>>>>, "mov", "rolls")>>,
                  <<Out(<<Text, <<"segment", 0>>, Take>>, "mov", "splits"), Out(<<Text, Take>>, "mov", "one")>>,
                  <<Out(<<Date>>, "mov", "one"), Out(<< <<"year_month_day", 0>> >>, "mov", "one")>>,
                  <<Out(<<Text>>, "mov", "rolls"), Out(<<Text>>, "mov", "splits")>>,
                  <<Out(<<Text>>, "mov", "one"), Out(<<Text>>, "mov", "one")>>,
                  << Out(<< <<"typo", 0>> >>, "mov", "one")>>}
\* Frames every three units and a third, and a file's first may be late.
J == INSTANCE Legs WITH base <- v1, on_clock <- v2, own <- v3, video <- v4, audio <- v5, asked <- v6,
        start_at <- v7, legs <- v8, faults <- v9,
        Outputs <- <<"plain", "split">>, Bases <- {10}, Starts <- {4, 15, 60}, RATE <- 3, INTERVAL <- 10,
        SLACK <- 1, LEAD <- 30, ROOM <- 1, MaxFrame <- 3, MaxFaults <- 1
\* A clip that hands over to one with a slate that loops.
Q == INSTANCE Lanes WITH clock <- v1, bin <- v2, origin <- v3, want <- v4, lane <- v5, audio <- v6, onto <- v7,
        unshown <- v8, late <- v9, players <- v10, pushes <- v11, current <- v12, standby <- v13, state <- v14,
        doing <- v15, commands <- v16,
        Clips <- <<[audio |-> TRUE, end |-> "next", slate |-> FALSE, offset |-> 1],
                   [audio |-> FALSE, end |-> "loop", slate |-> TRUE, offset |-> 0]>>, LEAD <- 2, SLATE <- 3,
        LENGTH <- 2, FRAMES <- 2, DELAY <- 1, MaxClock <- 14, MaxCommands <- 3
\* A card with a sub-device that captures and one that only plays out, a source, and two channels.
SDI(d) == [kind |-> "decklink", device |-> d, mode |-> {}, channels |-> 2]
Program(height, fps, channels, to) ==
    [kind |-> "channel", format |-> [height |-> height, fps |-> fps], channels |-> channels, outputs |-> to]
On(d) == [device |-> d, mode |-> {}]
Pinned(d) == [device |-> d, mode |-> {[height |-> 1080, fps |-> <<25, 1>>, interlaced |-> TRUE]}]
V == INSTANCE Cards WITH plugged <- v1, profiles <- v2, stored <- v3, rows <- v4, users <- v5, opening <- v6,
        due <- v7, reqs <- v8, crossed <- v9, refitted <- v10, missed <- v11, unsaved <- v12, acts <- v13,
        faults <- v14,
        Devices <- [d1 |-> [card |-> "A", capture |-> TRUE, playout |-> TRUE],
                    d2 |-> [card |-> "A", capture |-> FALSE, playout |-> TRUE]],
        Configs <- [s |-> {SDI("d1"), SDI("d2")},
                    c |-> {Program(1080, <<100, 2>>, 6, <<Pinned("d1")>>), Program(720, <<120, 2>>, 1, <<On("d1"), On("d2")>>),
                           Program(720, <<24, 1>>, 1, <<On("d2")>>), Program(1080, <<25, 1>>, 1, <<Pinned("d2")>>),
                           Program(1080, <<25, 1>>, 1, <<On("d1"), On("d1")>>)},
                    e |-> {Program(1080, <<60000, 1001>>, 2, <<On("d1")>>)}], Profiles <- {"two-half", "two-full"},
        Requests <- {1, 2}, MaxActs <- 3, MaxFaults <- 1
Y == INSTANCE Service WITH config <- v1, login <- v2, lock <- v3, pid_path <- v4, node_pid_path <- v5, sups <- v6,
        nodes <- v7, port <- v8, reqs <- v9, wanted <- v10, collided <- v11, crossed <- v12, orphans <- v13,
        lost <- v14, acts <- v15, faults <- v16,
        Requests <- {1, 2}, MaxSupervisors <- 3, MaxNodes <- 3, MaxActs <- 2, MaxFaults <- 1
Z == INSTANCE Installs WITH platform <- v1, unit <- v2, loaded <- v3, at_login <- v4, node <- v5, lingering <- v6,
        marker <- v7, link <- v8, cmd <- v9, found <- v10, choice <- v11, halfway <- v12, unmarked <- v13,
        overdue <- v14, acts <- v15, faults <- v16,
        MaxActs <- 4, MaxFaults <- 2
N == INSTANCE Ltc WITH at <- v1, tape <- v2, runs <- v3, hurt <- v4, dec <- v5, last <- v6, faults <- v7,
        acts <- v8, MaxTime <- 74, MaxFaults <- 1, MaxActs <- 1, MaxLead <- 24
\* Work benchmarked in a format, another or none; asked for under other names,
\* in another order, or at its rate written otherwise.
F1 == [size |-> 1, rate |-> 1, written |-> "a"]
F1b == [F1 EXCEPT !.written = "b"]
F2 == [F1 EXCEPT !.size = 2]
F4 == [F2 EXCEPT !.rate = 2]
Encode(encodes, name) == [encodes |-> encodes, name |-> name]
Send(encodes, to) == [encodes |-> encodes, to |-> to]
Ran(kind, outputs, format, feeds) ==
    [setup |-> [kind |-> kind, outputs |-> outputs], format |-> format, status |-> "completed", sustained |-> feeds,
     measured |-> TRUE]
CA == INSTANCE Capacity WITH runs <- v1, format <- v2, sessions <- v3, replays <- v4, programs <- v5,
        foretold <- v6, acts <- v7, Sources <- {"s1", "s2", "c"}, Channels <- {"c"}, Codecs <- {"h264"},
        MaxRuns <- 2, MaxActs <- 2,
        Recordings <- {<<Encode(1, "a")>>, <<Encode(1, "a"), Encode(2, "a")>>}, Formats <- {F1, F1b, F2},
        Programs <- {[outputs |-> <<Send(0, "ndi"), Send(1, "srt"), Send(2, "rtsp")>>, format |-> F1],
                     [outputs |-> <<Send(0, "ndi")>>, format |-> F2]},
        Results <- {Ran("record", <<Encode(1, "b")>>, F1, 2), Ran("record", <<Encode(1, "b")>>, F1b, 0),
                    Ran("record", <<Encode(1, "a")>>, F4, 1), Ran("replay", "h264", F1, 3),
                    Ran("channel", <<Send(1, "srt"), Send(0, "ndi")>>, F1b, 3),
                    Ran("channel", <<Send(0, "ndi"), Send(0, "ndi")>>, F2, 1),
                    [Ran("record", <<Encode(1, "a")>>, F1, 0) EXCEPT !.status = "cancelled"],
                    [Ran("channel", <<Send(1, "srt"), Send(0, "ndi")>>, F1, 1) EXCEPT !.measured = FALSE]}
\* Subvolumes of one disk and drives within each other; a sealed system with a
\* link to its data; drives that share a label, one in a folder.
Dev(n) == <<"device", n>>
Label(n) == <<"label", n>>
Mount(at, name, device, disk, kind) ==
    [at |-> at, links |-> {}, name |-> name, device |-> device, disk |-> disk, kind |-> kind, free |-> 20]
Leg(path, rate) == [path |-> path, rate |-> rate]
VO == INSTANCE Volumes WITH platform <- v1, mounted <- v2, legs <- v3, changes <- v4,
        MIN_FREE_TO_RECORD <- 5, MaxChanges <- 4,
        Disks <- [linux |-> {Mount(<<>>, Dev(1), 10, 1, "fixed"), Mount(<<"home">>, Dev(1), 11, 1, "fixed"),
                             Mount(<<"tmp">>, Label("t"), 12, 5, "pseudo"), Mount(<<"m", "rec">>, Dev(2), 13, 2, "removable"),
                             Mount(<<"m", "rec", "in">>, Dev(3), 14, 3, "removable")},
                  macos |-> {[Mount(<<"data">>, Label("d"), 21, 1, "fixed") EXCEPT !.links = {<<"home">>}],
                             Mount(<<>>, Label("s"), 20, 4, "pseudo"), Mount(<<"m", "rec">>, Label("x"), 22, 2, "removable")},
                  windows |-> {Mount(<<"c">>, Label("x"), 0, 1, "fixed"), Mount(<<"d">>, Label("x"), 0, 2, "removable"),
                               Mount(<<"c", "in">>, Label("x"), 0, 3, "removable")}],
        Folders <- [linux |-> {<<>>, <<"home">>, <<"m">>}, macos |-> {<<>>, <<"home">>, <<"m">>}, windows |-> {<<"c", "in">>}],
        Legs <- [linux |-> {Leg(<<"home", "show">>, 1), Leg(<<"m", "rec", "show">>, 2), Leg(<<"m", "rec2", "show">>, 4),
                            Leg(<<"m", "rec", "in", "a">>, 8), Leg(<<"a">>, 16)},
                 macos |-> {Leg(<<"home", "show">>, 1), Leg(<<"m", "rec", "show">>, 2), Leg(<<"a">>, 4)},
                 windows |-> {Leg(<<"c", "a">>, 1), Leg(<<"c", "in", "a">>, 2), Leg(<<"d", "a">>, 4)}]
ME == INSTANCE Measure WITH kind <- v1, now <- v2, count <- v3, since <- v4, write <- v5, stage <- v6,
        reading <- v7, before <- v8, after <- v9, step <- v10, faults <- v11, THRESHOLD <- 25, RESYNC <- 0,
        WINDOW <- 4, MaxTime <- 6, MaxWarmup <- 1, MaxGap <- 2, MaxFaults <- 4
FE == INSTANCE Feeds WITH kind <- v1, takes <- v2, monitors <- v3, legs <- v4, clips <- v5, feeds <- v6,
        leaving <- v7, phase <- v8, target <- v9, pauses <- v10, steps <- v11, best <- v12, per_feed <- v13,
        errors <- v14, failure <- v15, cancelled <- v16, faults <- v17, MaxFeeds <- 3,
        Takes <- {<<4, 5, 5>>, <<5, 8, 4>>}, Baseline <- 16, Floor <- 6, Pauses <- 2, MaxSteps <- 3,
        MaxFaults <- 1
XP == INSTANCE Export WITH cut <- v1, meet <- v2, stage <- v3, at <- v4, span <- v5, reached <- v6,
        out <- v7, finished <- v8, sought <- v9, result <- v10, file <- v11, resends <- v12,
        Cuts <- {<<0, 5>>, <<3, 6>>, <<3, 8>>, <<5, 13>>, <<6, 16>>, <<9, 13>>}, Meets <- -2..2, FILE <- 8,
        FRAME <- 4, CHUNK <- 6, SAMPLE <- 2, MaxResends <- 1
\* A camera, a microphone and a screen, and what may be sent and received with
\* them, on each OS; a machine with all it needs, and two that lack some of it.
Device(class, named) == [class |-> class, named |-> named]
Set(kind, video, audio, outputs) ==
    [kind |-> kind, video |-> video, says |-> FALSE, audio |-> audio, outputs |-> outputs]
Found == [ndi |-> TRUE, plugin |-> TRUE, driver |-> TRUE, video_group |-> TRUE, folder |-> "ok", blocked |-> {},
          intake |-> [connect |-> "all", connected |-> 2]]
LocalClock == [wanted |-> "local", switching |-> FALSE, error |-> FALSE, lost |-> FALSE, synced |-> FALSE]
DE == INSTANCE Devices WITH platform <- v1, plugged <- v2, os <- v3, status <- v4, asked <- v5, prompts <- v6,
        surprised <- v7, watching <- v8, rows <- v9, monitors <- v10, machine <- v11, loaded <- v12, clock <- v13,
        check <- v14, told <- v15, reached <- v16, current <- v17, acts <- v18,
        Platforms <- {"linux", "macos", "windows"}, NDI_INTAKE_WARN <- 1, MaxActs <- 2,
        Machine <- [cam |-> Device("Video/Source", FALSE), mic |-> Device("Audio/Source", FALSE),
                    screen |-> Device("Source/Monitor", FALSE)],
        Configs <- [a |-> {Set("device", "cam", "mic", {}), Set("device", "screen", "none", {}),
                           Set("whip", "none", "mic", {})},
                    b |-> {Set("channel", "none", "none", {"ndi", "rtsp"}), Set("decklink", "none", "none", {}),
                           Set("stream", "none", "mic", {})}],
        Machines <- {Found, [Found EXCEPT !.driver = FALSE, !.folder = "full"],
                     [Found EXCEPT !.ndi = FALSE, !.video_group = FALSE, !.blocked = {<<"tcp", "a">>, <<"tcp", "rtsp">>}]},
        Clocks <- {LocalClock, [LocalClock EXCEPT !.wanted = "ptp", !.lost = TRUE, !.synced = TRUE]}
LG == INSTANCE Logs WITH lines <- v1, next_seq <- v2, pushing <- v3, live <- v4, local_level <- v5, at <- v6,
        since <- v7, out <- v8, reader <- v9, subs <- v10, raced <- v11,
        Threads <- {1, 2}, Sockets <- {"a"}, Relays <- {"a"}, CAPACITY <- 2, LIVE_BUFFER <- 1, Levels <- {2, 3},
        MaxLines <- 3, MaxSubs <- 1

Init ==
    \/ part = "index" /\ I!Init /\ Idle12
    \/ part = "outputs" /\ O!Init /\ Idle12
    \/ part = "playout" /\ P!Init /\ Idle14
    \/ part = "screens" /\ S!Init
    \/ part = "access" /\ T!Init /\ Idle16
    \/ part = "benchmark" /\ M!Init /\ Idle16
    \/ part = "update" /\ U!Init /\ Idle15
    \/ part = "power" /\ W!Init /\ Idle7
    \/ part = "library" /\ L!Init /\ Idle12
    \/ part = "clips" /\ C!Init /\ Idle11
    \/ part = "presets" /\ R!Init /\ Idle8
    \/ part = "markers" /\ K!Init /\ Idle9
    \/ part = "rules" /\ X!Init /\ Idle6
    \/ part = "thumbnails" /\ H!Init /\ Idle19
    \/ part = "events" /\ E!Init /\ Idle16
    \/ part = "displays" /\ D!Init /\ Idle13
    \/ part = "profiles" /\ G!Init /\ Idle8
    \/ part = "plans" /\ F!Init /\ Idle10
    \/ part = "legs" /\ J!Init /\ Idle10
    \/ part = "lanes" /\ Q!Init /\ Idle17
    \/ part = "cards" /\ V!Init /\ Idle15
    \/ part = "service" /\ Y!Init /\ Idle17
    \/ part = "installs" /\ Z!Init /\ Idle17
    \/ part = "ltc" /\ N!Init /\ Idle9
    \/ part = "capacity" /\ CA!Init /\ Idle8
    \/ part = "volumes" /\ VO!Init /\ Idle5
    \/ part = "measure" /\ ME!Init /\ Idle12
    \/ part = "feeds" /\ FE!Init /\ Idle18
    \/ part = "export" /\ XP!Init /\ Idle13
    \/ part = "devices" /\ DE!Init /\ Idle19
    \/ part = "logs" /\ LG!Init /\ Idle12
Next ==
    \/ part = "index" /\ I!Next /\ UNCHANGED <<part, Rest12>>
    \/ part = "outputs" /\ O!Next /\ UNCHANGED <<part, Rest12>>
    \/ part = "playout" /\ P!Next /\ UNCHANGED <<part, Rest14>>
    \/ part = "screens" /\ S!Next /\ UNCHANGED part
    \/ part = "access" /\ T!Next /\ UNCHANGED <<part, Rest16>>
    \/ part = "benchmark" /\ M!Next /\ UNCHANGED <<part, Rest16>>
    \/ part = "update" /\ U!Next /\ UNCHANGED <<part, Rest15>>
    \/ part = "power" /\ W!Next /\ UNCHANGED <<part, Rest7>>
    \/ part = "library" /\ L!Next /\ UNCHANGED <<part, Rest12>>
    \/ part = "clips" /\ C!Next /\ UNCHANGED <<part, Rest11>>
    \/ part = "presets" /\ R!Next /\ UNCHANGED <<part, Rest8>>
    \/ part = "markers" /\ K!Next /\ UNCHANGED <<part, Rest9>>
    \/ part = "rules" /\ X!Next /\ UNCHANGED <<part, Rest6>>
    \/ part = "thumbnails" /\ H!Next /\ UNCHANGED <<part, Rest19>>
    \/ part = "events" /\ E!Next /\ UNCHANGED <<part, Rest16>>
    \/ part = "displays" /\ D!Next /\ UNCHANGED <<part, Rest13>>
    \/ part = "profiles" /\ G!Next /\ UNCHANGED <<part, Rest8>>
    \/ part = "plans" /\ F!Next /\ UNCHANGED <<part, Rest10>>
    \/ part = "legs" /\ J!Next /\ UNCHANGED <<part, Rest10>>
    \/ part = "lanes" /\ Q!Next /\ UNCHANGED <<part, Rest17>>
    \/ part = "cards" /\ V!Next /\ UNCHANGED <<part, Rest15>>
    \/ part = "service" /\ Y!Next /\ UNCHANGED <<part, Rest17>>
    \/ part = "installs" /\ Z!Next /\ UNCHANGED <<part, Rest17>>
    \/ part = "ltc" /\ N!Next /\ UNCHANGED <<part, Rest9>>
    \/ part = "capacity" /\ CA!Next /\ UNCHANGED <<part, Rest8>>
    \/ part = "volumes" /\ VO!Next /\ UNCHANGED <<part, Rest5>>
    \/ part = "measure" /\ ME!Next /\ UNCHANGED <<part, Rest12>>
    \/ part = "feeds" /\ FE!Next /\ UNCHANGED <<part, Rest18>>
    \/ part = "export" /\ XP!Next /\ UNCHANGED <<part, Rest13>>
    \/ part = "devices" /\ DE!Next /\ UNCHANGED <<part, Rest19>>
    \/ part = "logs" /\ LG!Next /\ UNCHANGED <<part, Rest12>>
Spec == Init /\ [][Next]_vars

----------------------------------------------------------------------------
(* What each part's module states of it *)

\* A clip's files stay and follow on from each other, the buffer keeps its
\* length, and what is on disk is listed.
BufferIsSound ==
    part = "index" => I!TypeOK /\ I!HeldFilesStay /\ I!ClipsAreWhole /\ I!KeepsItsLength /\ I!DiskIsListed

\* No output finds its name held, also when names are swapped between channels,
\* and a rebuild that is done leaves each channel its outputs, and no others.
\* Each window shows what is asked on its screen only, and puts its mode back.
\* A recording's files begin when asked and keep what is written to them, a
\* card's sub-device has one user, and timecode heard is the tape's. The setup
\* checks name what a source can't start for, and bring up no prompt.  Clips
\* follow on from each other in a program, and the frame it shows is theirs.
OutputsAreSent ==
    /\ part = "outputs" => O!NamesAreFree /\ O!Sent
    /\ part = "displays" => D!ShownAsAsked /\ D!ModesArePutBack /\ D!WindowsAreOwned
    /\ part = "legs" => /\ J!BeginsWhenAsked /\ J!SoundFollowsTheFirstFrame /\ J!MissesOnlyItsOwn
                       /\ J!TimecodeIsTheFiles /\ J!KeepsWhatIsWritten
    /\ part = "cards" => V!OneUserEach /\ V!OpenedWithProfile /\ V!ProfilesAreKept /\ V!PlaysTheProgram
    /\ part = "ltc" => N!FramesAreTrue /\ N!StampsAreTrue
    /\ part = "devices" => DE!NoneIsSurprised /\ DE!ChecksAreTrue /\ DE!ProbesAreComplete
    /\ part = "lanes" => Q!FollowsOn /\ Q!GoesForward /\ Q!NeverLate /\ Q!FrameIsShown /\ Q!SoundHasItsLane

\* What status tells is what is on air, the next item is always on its way, and
\* a replay held at its edge is never left there unwatched.
PlayoutAgrees == part = "playout" => P!TypeOK /\ P!OnAirAgrees /\ P!NextIsComing /\ P!EdgeIsWatched
\* Playback goes on with the item that follows, through edits of the playlist.
SkipsNothing == [][part = "playout" => P!NoneSkipped]_vars

\* One dialog asks for a source's screen, and what was chosen is saved and,
\* but for what a restore that failed or a stop lost, restores the screen at the
\* next build.
ScreensAreKept == part = "screens" => S!TypeOK /\ S!ChangesAreSaved /\ S!OneDialogEach /\ S!TokenIsHonoured

\* A sign-in link and a pairing code are used up, the service answers by what
\* it has stored, and its nodes follow its token. However an update ends, a
\* whole app is left, in its place or beside it (not started from there), what
\* is offered is of the channel set, and the machine is awake while it must be. One node runs on a data folder, a stop
\* lets it finish, and start at login is left as it was chosen.
ServiceIsKept ==
    /\ part = "access" => T!TypeOK /\ T!LinksSignInOnce /\ T!CodesRunOut /\ T!AsStored /\ T!PeersFollow
    /\ part = "update" => U!TypeOK /\ U!AppIsSomewhere /\ U!OfferIsOfChannel /\ U!IdleMeansIdle
    /\ part = "power" => W!AwakeAsWanted
    /\ part = "service" => Y!OneNodeAtATime /\ Y!AnswersAreTrue /\ Y!KeepsRunning /\ Y!FinishesFirst
    /\ part = "installs" => Z!ChoiceIsKept /\ Z!RunsWhatIsInstalled /\ Z!LeavesAsFound


\* What people keep is as they left it: channels play the playlist that is
\* stored, clips have their files, a preset is there to record with,
\* recordings list their markers, and a schedule's starts are the calendar's.
\* An output that can be saved records, and a recording's files are new ones but
\* where a leg still drained onto the path or a file was removed; an exported
\* clip is the clip: its pictures, sound and length. Each conjunct's own
\* exceptions are where it is defined.
LibraryIsKept ==
    /\ part = "library" => L!TypeOK /\ L!ListIsStored
    /\ part = "clips" => C!ClipsHaveFiles /\ C!GroupsHaveClips /\ C!FoldersAreClips /\ C!ExportsAreOwn
    /\ part = "presets" => R!AlwaysADefault /\ R!NamesAreOne /\ R!SchedulesCanRecord
    /\ part = "markers" => K!TypeOK /\ K!MarkersAreKept
    /\ part = "rules" => X!NothingMissed
    /\ part = "profiles" => G!SavedMeansRecords /\ G!SameWhicheverEncoder /\ G!SoundIsKept /\ G!RateIsTheOneTyped
    /\ part = "plans" => F!NothingIsOverwritten /\ F!TakeIsTheFirst
    /\ part = "export" => XP!PicturesAreTheClips /\ XP!SoundIsInStep /\ XP!NoneIsMissed /\ XP!FileIsWhole

\* Clients are sent what they ask for, in order and to the newest frame, and
\* their view of a replay buffer never drifts from it; they are dropped if,
\* and only if, they are gone.
ClientsAreTold ==
    /\ part = "thumbnails" => H!SubscriptionIsFollowed /\ H!NewestIsShown /\ H!InOrder
    /\ part = "events" => E!ClientsFollow /\ E!GoneIsDropped /\ E!AnswererStays
    /\ part = "logs" => LG!NoneUnsaid /\ LG!PagesMeet

----------------------------------------------------------------------------
(* The replay buffer's, proved: whatever the other parts do *)

LEMMA LengthsHere == I!Lengths
BY DEF I!Lengths

\* The part stays what it is, and only the buffer's steps are taken in its.
LEMMA IndexGoes ==
    ASSUME [Next]_vars
    PROVE  part' = part /\ (part = "index" => [I!Next]_(I!vars))
<1>1. CASE Next
  <2>1. part' = part BY <1>1 DEF Next
  <2>2. part = "index" => I!Next BY <1>1 DEF Next
  <2> QED BY <2>1, <2>2
<1>2. CASE UNCHANGED vars BY <1>2 DEF vars, I!vars
<1> QED BY <1>1, <1>2

\* A clip's files are there and follow on from each other, the buffer keeps its
\* length and the disk what is listed, after any steps of clips, lengths and
\* legs (Index::clip, newer, trim, set_keep and the leg's messages).
THEOREM BufferStaysSound == Spec => []BufferIsSound
<1> DEFINE Inv == part = "index" => I!IInv
<1>1. Init => Inv
  <2> SUFFICES ASSUME Init, part = "index" PROVE I!IInv
    BY SMTT(30)
  <2>1. I!Init BY DEF Init
  <2> QED BY <2>1, LengthsHere, I!IInvAtFirst
<1>2. Inv /\ [Next]_vars => Inv'
  <2> SUFFICES ASSUME Inv, [Next]_vars, part' = "index" PROVE I!IInv'
    OBVIOUS
  <2>1. I!IInv /\ [I!Next]_(I!vars) BY IndexGoes
  <2> QED BY <2>1, LengthsHere, I!IInvStays
<1>3. Inv => BufferIsSound
  <2> SUFFICES ASSUME I!IInv
               PROVE  I!TypeOK /\ I!HeldFilesStay /\ I!ClipsAreWhole /\ I!KeepsItsLength /\ I!DiskIsListed
    BY DEF BufferIsSound
  <2> QED BY LengthsHere, I!IInvSays
<1> QED BY <1>1, <1>2, <1>3, PTL DEF Spec

----------------------------------------------------------------------------
(* The screens', proved                                                       *)

LEMMA CountedHere == S!Counted
BY DEF S!Counted

LEMMA ScreensGo ==
    ASSUME [Next]_vars
    PROVE  part' = part /\ (part = "screens" => [S!Next]_(S!vars))
<1>1. CASE Next
  <2>1. part' = part BY <1>1 DEF Next
  <2>2. part = "screens" => S!Next BY <1>1 DEF Next
  <2> QED BY <2>1, <2>2
<1>2. CASE UNCHANGED vars
  BY <1>2 DEF vars, S!vars, S!kept, S!desktop, S!builds
<1> QED BY <1>1, <1>2

\* One dialog asks for a source, what was chosen is saved, and the token kept is
\* one the desktop honours, in use or lost, whatever requests, deletions, failed
\* restores and restarts race (Screencasts::choose, retain, open and the saver).
THEOREM ScreensStayKept == Spec => []ScreensAreKept
<1> DEFINE Inv == part = "screens" => S!IInv
<1>1. Init => Inv
  <2> SUFFICES ASSUME Init, part = "screens" PROVE S!IInv
    BY SMTT(30)
  <2>1. S!Init BY DEF Init
  <2> QED BY <2>1, CountedHere, S!IInvAtFirst
<1>2. Inv /\ [Next]_vars => Inv'
  <2> SUFFICES ASSUME Inv, [Next]_vars, part' = "screens" PROVE S!IInv'
    OBVIOUS
  <2>1. S!IInv /\ [S!Next]_(S!vars) BY ScreensGo
  <2> QED BY <2>1, CountedHere, S!IInvStays
<1>3. Inv => ScreensAreKept
  <2> SUFFICES ASSUME S!IInv
               PROVE  S!TypeOK /\ S!ChangesAreSaved /\ S!OneDialogEach /\ S!TokenIsHonoured
    BY DEF ScreensAreKept
  <2> QED BY CountedHere, S!IInvSays
<1> QED BY <1>1, <1>2, <1>3, PTL DEF Spec

----------------------------------------------------------------------------
(* The transport's, proved                                                    *)

\* The items of the playlists of this instance.
LEMMA ItemsHere == P!Items = {A, AHold, B}
<1> DEFINE Of(p) == {p[1][i] : i \in DOMAIN p[1]}
<1>1. Of(<< <<A, B>>, FALSE >>) = {A, B}
  <2>1. DOMAIN <<A, B>> = {1, 2} /\ <<A, B>>[1] = A /\ <<A, B>>[2] = B
    <3>1. \A x, y : DOMAIN <<x, y>> = {1, 2} /\ <<x, y>>[1] = x /\ <<x, y>>[2] = y OBVIOUS
    <3> QED BY <3>1
  <2> QED BY <2>1
<1>2. Of(<< <<B>>, TRUE >>) = {B}
  <2>1. DOMAIN <<B>> = {1} /\ <<B>>[1] = B OBVIOUS
  <2> QED BY <2>1
<1>3. Of(<< <<AHold, B>>, FALSE >>) = {AHold, B}
  <2>1. DOMAIN <<AHold, B>> = {1, 2} /\ <<AHold, B>>[1] = AHold /\ <<AHold, B>>[2] = B
    <3>1. \A x, y : DOMAIN <<x, y>> = {1, 2} /\ <<x, y>>[1] = x /\ <<x, y>>[2] = y OBVIOUS
    <3> QED BY <3>1
  <2> QED BY <2>1
<1>4. P!Items = UNION {Of(p) : p \in {<< <<A, B>>, FALSE >>, << <<B>>, TRUE >>, << <<AHold, B>>, FALSE >>}}
  BY DEF P!Items
<1> HIDE DEF Of
<1>5. P!Items = Of(<< <<A, B>>, FALSE >>) \cup Of(<< <<B>>, TRUE >>) \cup Of(<< <<AHold, B>>, FALSE >>)
  BY <1>4
<1> QED BY <1>1, <1>2, <1>3, <1>5, ZenonT(40)

\* The instance is one that Playout's theorems are about.
LEMMA PlayableHere == P!Playable
<1>1. P!IsFiniteSet(1..4) /\ 0 \notin 1..4
  <2>1. 0 \notin 1..4 BY SMTT(20)
  <2>2. <<1, 2, 3, 4>> \in Seq(1..4) /\ \A n \in 1..4 : \E m \in 1..Len(<<1, 2, 3, 4>>) : <<1, 2, 3, 4>>[m] = n
    <3>1. PICK s : s = <<1, 2, 3, 4>> BY ZenonT(40)
    <3>2. s \in Seq(1..4) /\ Len(s) = 4 BY <3>1, SMTT(20)
    <3>3. s[1] = 1 /\ s[2] = 2 /\ s[3] = 3 /\ s[4] = 4 BY <3>1
    <3>4. \A n \in 1..4 : n \in 1..Len(s) /\ s[n] = n BY <3>2, <3>3, SMTT(20)
    <3> QED BY <3>1, <3>2, <3>4
  <2> QED BY <2>1, <2>2, ZenonT(40) DEF P!IsFiniteSet
<1>2. \A i \in P!Items : DOMAIN i = {"id", "media", "end"} /\ i.end \in P!Ends /\ i.id # "none"
  <2>1. DOMAIN A = {"id", "media", "end"} /\ A.end \in P!Ends /\ A.id # "none" BY DEF A, P!Ends
  <2>2. DOMAIN AHold = {"id", "media", "end"} /\ AHold.end \in P!Ends /\ AHold.id # "none"
    <3>1. DOMAIN A = {"id", "media", "end"} /\ A.id = "a" BY DEF A
    <3> HIDE DEF A
    <3>2. DOMAIN AHold = {"id", "media", "end"} /\ AHold.id = "a" /\ AHold.end = "hold" BY <3>1 DEF AHold
    <3> QED BY <3>2 DEF P!Ends
  <2>3. DOMAIN B = {"id", "media", "end"} /\ B.end \in P!Ends /\ B.id # "none" BY DEF B, P!Ends
  <2> HIDE DEF A, AHold, B
  <2> QED BY <2>1, <2>2, <2>3, ItemsHere
<1>3. A.id = "a" /\ AHold.id = "a" /\ B.id = "b" BY SMTT(30) DEF A, AHold, B
<1>4. /\ <<A, B>> \in Seq(P!Items) /\ P!Named(<<A, B>>)
      /\ <<B>> \in Seq(P!Items) /\ P!Named(<<B>>)
      /\ <<AHold, B>> \in Seq(P!Items) /\ P!Named(<<AHold, B>>)
  <2>1. \A x, y \in P!Items : x.id # y.id => <<x, y>> \in Seq(P!Items) /\ P!Named(<<x, y>>)
    <3> TAKE x, y \in P!Items
    <3> HAVE x.id # y.id
    <3>1. PICK s : s = <<x, y>> BY ZenonT(40)
    <3>2. Len(s) = 2 /\ s[1] = x /\ s[2] = y BY <3>1
    <3>3. s \in Seq({x, y}) BY <3>1, SMTT(20)
    <3>4. s \in Seq(P!Items)
      <4>1. {x, y} \subseteq P!Items BY SMTT(30)
      <4> QED BY <3>3, <4>1
    <3>5. P!Named(s)
      <4>1. DOMAIN s = {1, 2} BY <3>1
      <4> QED BY <3>2, <4>1 DEF P!Named
    <3> QED BY <3>1, <3>4, <3>5
  <2>2. {A, AHold, B} \subseteq P!Items /\ A.id # B.id /\ AHold.id # B.id BY <1>3, ItemsHere
  <2>3. <<B>> \in Seq(P!Items) /\ P!Named(<<B>>)
    <3>1. PICK s : s = <<B>> BY ZenonT(40)
    <3>2. B \in P!Items BY <2>2
    <3> HIDE DEF B
    <3>3. s \in Seq(P!Items) BY <3>1, <3>2, SMTT(20)
    <3>4. DOMAIN s = {1} BY <3>1
    <3>5. P!Named(s) BY <3>4 DEF P!Named
    <3> QED BY <3>1, <3>3, <3>5
  <2> HIDE DEF A, AHold, B
  <2> QED BY <2>1, <2>2, <2>3
<1>5. \A p \in {<< <<A, B>>, FALSE >>, << <<B>>, TRUE >>, << <<AHold, B>>, FALSE >>} :
         p[1] \in Seq(P!Items) /\ p[2] \in BOOLEAN /\ P!Named(p[1])
  <2> SUFFICES ASSUME NEW p \in {<< <<A, B>>, FALSE >>, << <<B>>, TRUE >>, << <<AHold, B>>, FALSE >>}
               PROVE  p[1] \in Seq(P!Items) /\ p[2] \in BOOLEAN /\ P!Named(p[1])
    BY ZenonT(40)
  <2>1. CASE p = << <<A, B>>, FALSE >>
    <3>1. p[1] = <<A, B>> BY <2>1
    <3>2. p[2] = FALSE BY <2>1
    <3> QED BY <1>4, <3>1, <3>2, ZenonT(40)
  <2>2. CASE p = << <<B>>, TRUE >>
    <3>1. p[1] = <<B>> BY <2>2
    <3>2. p[2] = TRUE BY <2>2
    <3> QED BY <1>4, <3>1, <3>2, ZenonT(40)
  <2>3. CASE p = << <<AHold, B>>, FALSE >>
    <3>1. p[1] = <<AHold, B>> BY <2>3
    <3>2. p[2] = FALSE BY <2>3
    <3> QED BY <1>4, <3>1, <3>2, ZenonT(40)
  <2> QED BY <2>1, <2>2, <2>3, ZenonT(40)
<1>6. \A req \in [media : {"r"}, end : {"hold"}, rate : {1}, out : BOOLEAN] : P!IsRequest(req)
  BY SMTT(20) DEF P!IsRequest, P!Ends
<1> QED BY <1>1, <1>2, <1>5, <1>6 DEF P!Playable

LEMMA PlayoutGoes ==
    ASSUME [Next]_vars
    PROVE  part' = part /\ (part = "playout" => [P!Next]_(P!vars))
<1>1. CASE Next
  <2>1. part' = part BY <1>1 DEF Next
  <2>2. part = "playout" => P!Next BY <1>1 DEF Next
  <2> QED BY <2>1, <2>2
<1>2. CASE UNCHANGED vars BY <1>2 DEF vars, P!vars, P!deck
<1> QED BY <1>1, <1>2

\* What holds of the transport with whatever else the run is of.
Transport == part = "playout" => P!IInv
LEMMA TransportStays == (Init => Transport) /\ (Transport /\ [Next]_vars => Transport')
<1>1. ASSUME Init PROVE Transport
  <2> SUFFICES ASSUME part = "playout" PROVE P!IInv
    BY DEF Transport
  <2>1. P!Init BY <1>1 DEF Init
  <2> QED BY <2>1, PlayableHere, P!IInvAtFirst
<1>2. ASSUME Transport, [Next]_vars PROVE Transport'
  <2> SUFFICES ASSUME part' = "playout" PROVE P!IInv'
    BY DEF Transport
  <2>1. P!IInv /\ [P!Next]_(P!vars) BY <1>2, PlayoutGoes DEF Transport
  <2> QED BY <2>1, PlayableHere, P!IInvStays
<1> QED BY <1>1, <1>2

\* Status agrees with what is on air, the next item is on its way and an edge is
\* watched, whatever commands, edits, cues and players' messages race
\* (Playout::refresh_next, following, cue, ended, wait_at_edge).
THEOREM PlayoutStaysTrue == Spec => []PlayoutAgrees
<1>1. Transport => PlayoutAgrees
  <2> SUFFICES ASSUME P!IInv
               PROVE  P!TypeOK /\ P!OnAirAgrees /\ P!NextIsComing /\ P!EdgeIsWatched
    BY DEF Transport, PlayoutAgrees
  <2> QED BY PlayableHere, P!IInvSays
<1> QED BY <1>1, TransportStays, PTL DEF Spec

\* The item on air is taken out of the playlist, and the one after it is next
\* (Playout::set_playlist, following).
THEOREM EditsSkipNothing == Spec => SkipsNothing
<1>1. Transport /\ [Next]_vars => (part = "playout" => P!NoneSkipped)
  <2> SUFFICES ASSUME Transport, [Next]_vars, part = "playout" PROVE P!NoneSkipped
    OBVIOUS
  <2>1. P!IInv /\ [P!Next]_(P!vars) BY PlayoutGoes DEF Transport
  <2> QED BY <2>1, PlayableHere, P!StepSkipsNothing
<1> QED BY <1>1, TransportStays, PTL DEF Spec, SkipsNothing
=============================================================================
