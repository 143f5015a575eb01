------------------------------ MODULE Devices ------------------------------
(* A node's capture devices and what its machine lets it do: the permissions  *)
(* of the OS (sources/privacy.rs), the devices found (sources/device.rs), the *)
(* sources that open them, and the setup checks, which say what is missing    *)
(* and for which sources (checks.rs). What fits on cards is in Cards.         *)
EXTENDS Naturals, FiniteSets

CONSTANTS
    Platforms,
    Machine,    \* its devices: [device -> [class, named]], named when its name says "screen"
    Configs,    \* [source -> what it may be set to]
    Machines,   \* software, folders and the like it may be found with
    Clocks,     \* what the clock's status may be
    NDI_INTAKE_WARN,
    MaxActs     \* bound: what people, and the OS, change

VARIABLES
    platform, plugged,
    os,         \* what the OS lets the node do: each permission, decided or not
    status,     \* what it says of that, which it may say too late
    asked,      \* ASKED_CAMERA, ASKED_MICROPHONE
    prompts,    \* open on the machine's screen
    surprised,  \* one was shown that nobody asked for
    watching,   \* audio devices are listed
    rows,       \* the configured sources
    monitors,   \* what each one's build came to
    machine, loaded, \* and the NDI library, as the node found it at its start
    clock,
    check,      \* a run of the checks, off every lock, between what it reads
    told, reached, \* what it said last, and a controller's probes of its ports
    current,    \* nothing has changed since it began
    acts

permitted == <<os, status, asked, prompts, surprised>>
found == <<platform, plugged, watching, machine, loaded, clock>>
checks == <<check, told, reached, current>>
vars == <<permitted, found, rows, monitors, checks, acts>>

Permissions == {"camera", "microphone", "screen_recording"}
NoDevice == "none"
NoConfig == [kind |-> "none"]
Sources == {s \in DOMAIN rows : rows[s] # NoConfig}

----------------------------------------------------------------------------
(* Permissions                                                                *)

\* Whether the system's word is final enough to ask again without a prompt.
Decided(p) == status[p] # "undecided" \/ p \in asked
\* macOS answers for screens as of the node's launch; for the rest, what it
\* says may be out of date, so the node asks again, and is told what is so.
access_macos(p) ==
    IF p = "screen_recording" THEN IF status[p] = "granted" THEN "granted" ELSE "denied"
    ELSE IF status[p] = "granted" THEN "granted"
    ELSE IF Decided(p) /\ os[p] # "undecided" THEN os[p] ELSE "not_asked"
access_windows(p) == IF p = "screen_recording" THEN "unchecked" ELSE IF os[p] = "denied" THEN "denied" ELSE "granted"
access(p) ==
    CASE platform = "macos" -> access_macos(p)
      [] platform = "windows" -> access_windows(p)
      [] OTHER -> "unchecked"
\* Those whose prompt comes up as `access` is read of them.
Prompted(ps) ==
    {p \in ps \ {"screen_recording"} : /\ platform = "macos" /\ status[p] # "granted" /\ Decided(p)
                                       /\ os[p] = "undecided"}

of(kind) == CASE kind = "video" -> {"camera"} [] kind = "audio" -> {"microphone"}
              [] kind = "screen" -> {"screen_recording"} [] OTHER -> {}
privacy_check(kind) == \A p \in of(kind) : access(p) # "denied"

----------------------------------------------------------------------------
(* Devices                                                                    *)

AUDIO_CLASSES == {"Audio/Source", "Audio/Sink"}
kind(d) ==
    CASE Machine[d].class = "Audio/Sink" -> "output"
      [] Machine[d].class # "Audio/Sink" /\ (Machine[d].class = "Source/Monitor" \/ Machine[d].named) -> "screen"
      [] Machine[d].class = "Video/Source" /\ ~Machine[d].named -> "video"
      [] OTHER -> "audio"
audio_allowed == platform # "macos" \/ access("microphone") = "granted"
all(watched) == {d \in plugged : Machine[d].class \in AUDIO_CLASSES => watched}

\* A look at the devices: audio's join once they may be probed, which is to
\* open each of them.
Watched == watching \/ audio_allowed
list ==
    /\ watching' = Watched
    /\ prompts' = prompts \cup (IF watching THEN {} ELSE Prompted({"microphone"}))
                          \cup (IF watching' # watching /\ os["microphone"] = "undecided" THEN {"microphone"} ELSE {})
    /\ surprised' = (surprised \/ ~(prompts' \subseteq prompts \cup asked))
    /\ UNCHANGED <<os, status, asked>>
get_devices ==
    /\ list
    /\ UNCHANGED <<platform, plugged, machine, loaded, clock, rows, monitors, checks, acts>>

\* What a source's build comes to: its picture's device, then its sound's.
element(d) ==
    CASE d = NoDevice -> "on"
      [] d # NoDevice /\ d \notin all(watching) -> IF watching THEN "unplugged" ELSE "unheard"
      [] OTHER -> IF privacy_check(kind(d)) THEN "on" ELSE "denied"
Refused(d) == platform = "linux" /\ ~machine.video_group /\ Machine[d].class = "Video/Source"
build_bin(c) ==
    CASE c.kind = "decklink" -> IF machine.plugin /\ machine.driver THEN "on" ELSE "no_cards"
      [] c.kind = "device" /\ c.video \notin all(watching) -> "unplugged"
      [] c.kind = "device" /\ c.video \in all(watching) /\ ~privacy_check(kind(c.video)) -> "denied"
      [] c.kind = "device" /\ c.video \in all(watching) /\ privacy_check(kind(c.video)) /\ Refused(c.video) -> "refused"
      [] OTHER -> element(c.audio)

Builds(s) ==
    /\ s \in Sources /\ monitors[s] # "on"      \* a failed one is rebuilt again and again
    /\ monitors' = [monitors EXCEPT ![s] = build_bin(rows[s])]
    \* Opening a camera asks for it.
    /\ prompts' = prompts \cup (IF platform = "macos" /\ monitors'[s] = "on" /\ rows[s].kind = "device"
                                   THEN {p \in of(kind(rows[s].video)) : os[p] = "undecided"} ELSE {})
    /\ UNCHANGED <<os, status, asked, surprised, found, rows, checks, acts>>

Changes == acts < MaxActs /\ acts' = acts + 1 /\ current' = FALSE

\* A source is saved if its devices are there to be picked, with the name of
\* the first, and its monitor stops, to be built as it now is.
validate(c) ==
    /\ c.kind = "device" => c.video \in all(Watched) /\ kind(c.video) \in {"video", "screen"}
    /\ c.audio # NoDevice => c.audio \in all(Watched) /\ kind(c.audio) = "audio"
put_configured_source(s) ==
    /\ Changes /\ list
    /\ \E c \in Configs[s] :
        /\ validate(c)
        /\ rows' = [rows EXCEPT ![s] = [c EXCEPT !.says = c.kind = "device" /\ Machine[c.video].named]]
    /\ monitors' = [monitors EXCEPT ![s] = "none"]
    /\ UNCHANGED <<platform, plugged, machine, loaded, clock, check, told, reached>>
delete_configured_source(s) ==
    /\ Changes /\ s \in Sources
    /\ rows' = [rows EXCEPT ![s] = NoConfig] /\ monitors' = [monitors EXCEPT ![s] = "none"]
    /\ UNCHANGED <<permitted, found, check, told, reached>>

----------------------------------------------------------------------------
(* The machine and its people                                                 *)

Says(p) == IF p = "screen_recording" THEN {status[p]} ELSE {status[p], os'[p]}
Decides(p, decisions) ==
    /\ Changes
    /\ \E d \in decisions : os' = [os EXCEPT ![p] = d]
    /\ \E now \in Says(p) : status' = [status EXCEPT ![p] = now]
    /\ UNCHANGED <<asked, surprised, found, rows, monitors, check, told, reached>>
AnswersPrompt(p) == p \in prompts /\ Decides(p, {"granted", "denied"}) /\ prompts' = prompts \ {p}
InSettings(p) ==
    /\ platform # "linux" /\ (os[p] # "undecided" \/ p = "screen_recording" \/ platform = "windows")
    /\ Decides(p, {"granted", "denied"} \ {os[p]}) /\ UNCHANGED prompts
\* Setup's request for the prompt, which only comes up the first time.
request(p) ==
    /\ platform = "macos" /\ Changes
    /\ asked' = asked \cup ({p} \ {"screen_recording"})
    /\ prompts' = prompts \cup (IF os[p] = "undecided" THEN {p} ELSE {})
    /\ UNCHANGED <<os, status, surprised, found, rows, monitors, check, told, reached>>
PlugsOrUnplugs(d) ==
    /\ Changes
    /\ plugged' = (IF d \in plugged THEN plugged \ {d} ELSE plugged \cup {d})
    /\ UNCHANGED <<permitted, platform, watching, machine, loaded, clock, rows, monitors, check, told, reached>>
MachineChanges ==
    /\ Changes
    /\ machine' \in Machines \ {machine} /\ clock' \in Clocks
    /\ UNCHANGED <<permitted, platform, plugged, watching, loaded, rows, monitors, check, told, reached>>
\* The node starts again: what it only looks for once is looked for.
LocalDevicesStart == platform # "macos" \/ os["microphone"] = "granted"
Restart ==
    /\ Changes
    /\ status' = os /\ asked' = {} /\ watching' = LocalDevicesStart /\ loaded' = machine.ndi
    /\ monitors' = [s \in DOMAIN rows |-> "none"] /\ check' = [at |-> "none"] /\ told' = {} /\ reached' = {}
    /\ UNCHANGED <<os, prompts, surprised, platform, plugged, machine, clock, rows>>

----------------------------------------------------------------------------
(* Setup checks                                                               *)

Check(st, used, req) == [status |-> st, used_by |-> used, required |-> req]
Ok(b) == IF b THEN "ok" ELSE "missing"
\* An unplugged device is of the kind its name says.
kind_of(c, devices) == IF c.video \in devices THEN kind(c.video) ELSE IF c.says THEN "screen" ELSE "video"
needing(configured, devices, p) ==
    {s \in DOMAIN configured :
        LET c == configured[s] IN
        CASE p = "camera" -> c.kind = "device" /\ kind_of(c, devices) = "video"
          [] p = "screen_recording" -> c.kind = "device" /\ kind_of(c, devices) = "screen"
          [] OTHER -> c.kind \in {"device", "stream", "whip"} /\ c.audio # NoDevice}
permission_check(p, used) ==
    Check(CASE access(p) = "granted" -> "ok" [] access(p) = "not_asked" -> "not_asked" [] OTHER -> "missing", used, used # {})
video_devices_check(used) ==
    Check(Ok(machine.video_group \/ \A d \in plugged : Machine[d].class # "Video/Source"), used, used # {})
Sends(configured, to) == {s \in DOMAIN configured : configured[s].kind = "channel" /\ to \in configured[s].outputs}
ndi_check(configured) == Check(Ok(loaded), Sends(configured, "ndi"), TRUE)
decklink_check(configured) ==
    LET used == Sends(configured, "decklink") \cup {s \in DOMAIN configured : configured[s].kind = "decklink"}
    IN  Check(Ok(machine.plugin /\ machine.driver), used, used # {})
ndi_intake_check(ndi) == Check(Ok(~(ndi.connect = "all" /\ ndi.connected > NDI_INTAKE_WARN)), {}, FALSE)
storage_check ==
    Check(CASE machine.folder = "no_home" -> "unknown" [] machine.folder \in {"unwritable", "full"} -> "missing" [] OTHER -> "ok",
          {}, TRUE)
clock_check ==
    Check(CASE clock.error -> "missing"
            [] ~clock.error /\ (clock.switching \/ (clock.wanted = "ptp" /\ ~clock.synced)) -> "unknown"
            [] OTHER -> Ok(~clock.lost), {}, TRUE)
windows_firewall == Check("unknown", {}, FALSE)

\* What others connect to: a protocol, and what listens.
ports(configured) ==
    {<<"tcp", "api">>}
    \cup {<<"tcp", s>> : s \in {s \in DOMAIN configured : configured[s].kind = "whip"}}
    \cup {<<"udp", s>> : s \in {s \in DOMAIN configured : configured[s].kind = "stream"} \cup Sends(configured, "srt")}
    \cup (IF Sends(configured, "rtsp") # {} THEN {<<"tcp", "rtsp">>} ELSE {})

\* A run reads the rows, then, with the manager, the devices, then the rest.
run ==
    /\ check.at = "none"
    /\ check' = [at |-> "rows", configured |-> [s \in Sources |-> rows[s]]]
    /\ current' = TRUE /\ told' = {} /\ reached' = {}
    /\ UNCHANGED <<permitted, found, rows, monitors, acts>>
Lists ==
    /\ check.at = "rows" /\ list
    /\ check' = [at |-> "devices", configured |-> check.configured, devices |-> all(watching'), ndi |-> machine.intake]
    /\ UNCHANGED <<platform, plugged, machine, loaded, clock, rows, monitors, told, reached, current, acts>>
Tells ==
    /\ check.at = "devices" /\ check' = [at |-> "none"]
    /\ LET configured == check.configured
           needs(p) == needing(configured, check.devices, p)
           ids == {p \in Permissions : access(p) # "unchecked"}
                  \cup {"ndi_runtime", "decklink_driver", "storage"}
                  \cup (CASE platform = "linux" -> {"video_devices"} [] platform = "windows" -> {"windows_firewall"} [] OTHER -> {})
                  \cup (IF loaded THEN {"ndi_intake"} ELSE {}) \cup (IF clock.wanted = "local" THEN {} ELSE {"clock"})
       IN  told' = {[ports |-> ports(configured),
                     checks |-> [id \in ids |->
                        CASE id \in Permissions -> permission_check(id, needs(id))
                          [] id = "video_devices" -> video_devices_check(needs("camera"))
                          [] id = "ndi_runtime" -> ndi_check(configured)
                          [] id = "decklink_driver" -> decklink_check(configured)
                          [] id = "ndi_intake" -> ndi_intake_check(check.ndi)
                          [] id = "storage" -> storage_check
                          [] id = "clock" -> clock_check
                          [] OTHER -> windows_firewall]]}
    /\ prompts' = prompts \cup Prompted(Permissions)
    /\ surprised' = (surprised \/ ~(prompts' \subseteq prompts \cup asked))
    /\ UNCHANGED <<os, status, asked, found, rows, monitors, reached, current, acts>>
\* A controller asks for the ports, and tries those that answer.
Listening(p) ==
    CASE p = <<"tcp", "api">> -> TRUE
      [] p = <<"tcp", "rtsp">> -> \E s \in Sends(rows, "rtsp") : monitors[s] = "on"
      [] OTHER -> monitors[p[2]] = "on"
probe_ports ==
    /\ \E answer \in told :
          reached' = {[port |-> p, status |-> IF p[1] = "udp" THEN "unknown" ELSE Ok(p \notin machine.blocked /\ Listening(p))] :
                         p \in answer.ports}
    /\ UNCHANGED <<permitted, found, rows, monitors, check, told, current, acts>>

----------------------------------------------------------------------------
Init ==
    /\ platform \in Platforms /\ plugged = DOMAIN Machine
    /\ os \in [Permissions -> IF platform = "macos" THEN {"undecided", "denied"} ELSE {"undecided"}] /\ status = os
    /\ asked = {} /\ prompts = {} /\ surprised = FALSE /\ watching = LocalDevicesStart
    /\ rows = [s \in DOMAIN Configs |-> NoConfig] /\ monitors = [s \in DOMAIN Configs |-> "none"]
    /\ machine \in Machines /\ loaded = machine.ndi /\ clock \in Clocks
    /\ check = [at |-> "none"] /\ told = {} /\ reached = {} /\ current = FALSE /\ acts = 0
Next ==
    \/ get_devices \/ run \/ Lists \/ Tells \/ probe_ports \/ MachineChanges \/ Restart
    \/ \E s \in DOMAIN rows : Builds(s) \/ put_configured_source(s) \/ delete_configured_source(s)
    \/ \E p \in Permissions : AnswersPrompt(p) \/ InSettings(p) \/ request(p)
    \/ \E d \in DOMAIN Machine : PlugsOrUnplugs(d)
Spec == Init /\ [][Next]_vars

----------------------------------------------------------------------------
(* What must hold                                                             *)

\* "On macOS they wait until microphone access is allowed, and the prompt comes
\* from Setup" (device.rs:28): looking at devices, or at what is missing, never
\* brings up a prompt that nobody asked for.
NoneIsSurprised == ~surprised

\* What a source needs to start that its machine doesn't let it have.
Works(s) ==
    /\ build_bin(rows[s]) = "on"
    /\ rows[s].kind = "channel" =>
          ("ndi" \in rows[s].outputs => loaded) /\ ("decklink" \in rows[s].outputs => machine.plugin /\ machine.driver)
\* A run of the checks during which nothing changes names each source that
\* can't start, for a reason other than an unplugged device, and names none
\* that can; and nothing is wrong that it says is right.
ChecksAreTrue ==
    \A answer \in IF current THEN told ELSE {} :
        LET lacking == {id \in DOMAIN answer.checks : answer.checks[id].status # "ok"} IN
        /\ \A s \in Sources : ~Works(s) /\ build_bin(rows[s]) # "unplugged" =>
               \E id \in lacking : s \in answer.checks[id].used_by /\ answer.checks[id].required
        /\ \A id \in lacking : answer.checks[id].status = "missing" => \A s \in answer.checks[id].used_by : ~Works(s)
        /\ machine.folder # "ok" => "storage" \in lacking
        /\ clock.wanted # "local" /\ (clock.lost \/ clock.switching \/ clock.error) => "clock" \in lacking
\* Nor does a port go unprobed: when every one a controller could try was
\* reached, each that something listens on is let through.
ProbesAreComplete ==
    current /\ reached # {} =>
        \A s \in Sources : monitors[s] = "on" =>
            LET mine == CASE rows[s].kind = "whip" -> {<<"tcp", s>>}
                          [] rows[s].kind = "channel" /\ "rtsp" \in rows[s].outputs -> {<<"tcp", "rtsp">>}
                          [] OTHER -> {}
            IN  \A p \in mine \cap machine.blocked : [port |-> p, status |-> "missing"] \in reached
=============================================================================
