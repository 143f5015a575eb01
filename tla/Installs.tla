------------------------------- MODULE Installs -------------------------------
(* `capture-room service install` and `uninstall` on Linux (service/linux.rs:  *)
(* a systemd user unit, lingering, a link on the PATH) and on macOS            *)
(* (service/macos.rs: a LaunchAgent), each of whose steps may fail and leave   *)
(* those before it done; and the choice whether it starts at login.            *)
EXTENDS Integers

CONSTANTS MaxActs, MaxFaults \* bounds: commands and choices; steps that fail

VARIABLES
    platform,
    unit,            \* the version of the unit file, or the plist; 0 for none
    loaded,          \* the version that systemd, or launchd, has read; 0 for none
    at_login,        \* the unit is enabled, or its copy is in LaunchAgents
    node,            \* the version the node that runs was started with, or 0
    lingering, marker, \* the user lingers; the install that turned it on has left its marker
    link,            \* capture-room on the PATH: nothing, ours, or something else's
    cmd,             \* the command under way: [name, step, login]
    found, choice,   \* history: the user lingered, and what has the name, before the first install; the choice made
    halfway, unmarked, overdue, \* a first install failed between writing the unit and enabling it; a marker wasn't
                     \* written, or not acted on; a node took longer to quit than was waited for
    acts, faults

vars == <<platform, unit, loaded, at_login, node, lingering, marker, link, cmd, found, choice, halfway, unmarked,
          overdue, acts, faults>>

NoCmd == [name |-> "none", step |-> "none", login |-> FALSE]

Init ==
    /\ platform \in {"linux", "macos"}
    /\ unit = 0 /\ loaded = 0 /\ at_login = FALSE /\ node = 0
    /\ lingering \in BOOLEAN /\ marker = FALSE
    /\ link \in {"none", "other"}
    /\ cmd = NoCmd
    /\ found = [lingering |-> lingering, link |-> link] /\ choice = TRUE
    /\ halfway = FALSE /\ unmarked = FALSE /\ overdue = FALSE
    /\ acts = 0 /\ faults = 0

Fault == faults < MaxFaults /\ faults' = faults + 1
At(name, step) == cmd.name = name /\ cmd.step = step
To(step) == cmd' = [cmd EXCEPT !.step = step]

----------------------------------------------------------------------------
(* The service manager                                                        *)

\* systemctl returns once the node has gone; after launchctl it is waited for,
\* not for longer than thirty seconds.
Stopped ==
    \/ node' = 0 /\ (platform = "macos" => loaded' = 0) /\ (platform = "linux" => UNCHANGED loaded) /\ UNCHANGED <<overdue, faults>>
    \/ platform = "macos" /\ node # 0 /\ Fault /\ overdue' = TRUE /\ UNCHANGED <<node, loaded>>
\* systemd starts the definition it has read; launchd reads one where it has none.
Start ==
    /\ loaded' = IF platform = "macos" /\ loaded = 0 THEN unit ELSE loaded
    /\ node' = IF node = 0 THEN loaded' ELSE node
\* What was asked to go goes later, and launchd drops the service with it.
GoneLate ==
    /\ overdue /\ platform = "macos" /\ node # 0
    /\ node' = 0 /\ loaded' = 0
    /\ UNCHANGED <<platform, unit, at_login, lingering, marker, link, cmd, found, choice, halfway, unmarked, overdue, acts, faults>>

----------------------------------------------------------------------------
(* Installing                                                                 *)

\* A fresh install starts at login; a reinstall keeps the choice.
install ==
    /\ cmd = NoCmd /\ acts < MaxActs /\ acts' = acts + 1
    /\ cmd' = [name |-> "install", step |-> "stop", login |-> unit = 0 \/ at_login]
    /\ choice' = (unit = 0 \/ choice)
    /\ found' = IF unit = 0 /\ ~marker /\ link # "ours" THEN [lingering |-> lingering, link |-> link] ELSE found
    /\ UNCHANGED <<platform, unit, loaded, at_login, node, lingering, marker, link, halfway, unmarked, overdue, faults>>
stop ==
    /\ cmd.step = "stop" /\ To(IF cmd.name = "install" THEN "write" ELSE "remove")
    /\ IF (platform = "linux" /\ unit = 0) \/ (platform = "macos" /\ loaded = 0) THEN UNCHANGED <<node, loaded, overdue, faults>> ELSE Stopped
    /\ UNCHANGED <<platform, unit, at_login, lingering, marker, link, found, choice, halfway, unmarked, acts>>
\* The unit file is written and read, or the plist is.
Writes ==
    /\ At("install", "write") /\ To("login")
    /\ unit' = acts
    /\ loaded' = IF platform = "linux" THEN unit' ELSE loaded
    /\ UNCHANGED <<platform, at_login, node, lingering, marker, link, found, choice, halfway, unmarked, overdue, acts, faults>>
SetsLogin ==
    /\ At("install", "login") /\ To(IF platform = "linux" THEN "linger" ELSE "start")
    /\ at_login' = cmd.login
    /\ UNCHANGED <<platform, unit, loaded, node, lingering, marker, link, found, choice, halfway, unmarked, overdue, acts, faults>>
\* Where it isn't allowed the node starts at login only; the marker is written
\* or not.
enable_linger ==
    /\ At("install", "linger") /\ To("link")
    /\ \/ lingering' = TRUE /\ marker' = (marker \/ ~lingering) /\ UNCHANGED <<unmarked, faults>>
       \/ ~lingering /\ Fault /\ lingering' \in BOOLEAN /\ unmarked' = (unmarked \/ lingering') /\ UNCHANGED marker
    /\ UNCHANGED <<platform, unit, loaded, at_login, node, link, found, choice, halfway, overdue, acts>>
\* Unless something else has the name.
link_on_path ==
    /\ At("install", "link") /\ To("start")
    /\ link' = IF link = "other" THEN link ELSE "ours"
    /\ UNCHANGED <<platform, unit, loaded, at_login, node, lingering, marker, found, choice, halfway, unmarked, overdue, acts, faults>>
Starts ==
    /\ At("install", "start") /\ To("installed")
    /\ Start
    /\ UNCHANGED <<platform, unit, at_login, lingering, marker, link, found, choice, halfway, unmarked, overdue, acts, faults>>

----------------------------------------------------------------------------
(* Uninstalling                                                               *)

uninstall ==
    /\ cmd = NoCmd /\ acts < MaxActs /\ acts' = acts + 1
    /\ cmd' = [NoCmd EXCEPT !.name = "uninstall", !.step = "stop"]
    /\ UNCHANGED <<platform, unit, loaded, at_login, node, lingering, marker, link, found, choice, halfway, unmarked, overdue, faults>>
Removes ==
    /\ At("uninstall", "remove") /\ To(IF platform = "linux" THEN "unlinger" ELSE "uninstalled")
    /\ unit' = 0 /\ at_login' = FALSE
    /\ loaded' = IF platform = "linux" THEN 0 ELSE loaded
    /\ UNCHANGED <<platform, node, lingering, marker, link, found, choice, halfway, unmarked, overdue, acts, faults>>
\* Only off again if this install turned it on.
Unlingers ==
    /\ At("uninstall", "unlinger") /\ To("unlink")
    /\ \/ lingering' = (lingering /\ ~marker) /\ marker' = FALSE /\ UNCHANGED <<unmarked, faults>>
       \/ marker /\ Fault /\ unmarked' = TRUE /\ UNCHANGED <<lingering, marker>>
    /\ UNCHANGED <<platform, unit, loaded, at_login, node, link, found, choice, halfway, overdue, acts>>
Unlinks ==
    /\ At("uninstall", "unlink") /\ To("uninstalled")
    /\ link' = IF link = "ours" THEN "none" ELSE link
    /\ UNCHANGED <<platform, unit, loaded, at_login, node, lingering, marker, found, choice, halfway, unmarked, overdue, acts, faults>>

Returns ==
    /\ cmd.step \in {"installed", "uninstalled"} /\ cmd' = NoCmd
    /\ halfway' = (halfway /\ cmd.name # "uninstall")
    /\ UNCHANGED <<platform, unit, loaded, at_login, node, lingering, marker, link, found, choice, unmarked, overdue, acts, faults>>
\* A step fails, or the command is given up.
Fails ==
    /\ cmd # NoCmd /\ Fault /\ cmd' = NoCmd
    /\ halfway' = (halfway \/ (At("install", "login") /\ cmd.login # at_login))
    /\ UNCHANGED <<platform, unit, loaded, at_login, node, lingering, marker, link, found, choice, unmarked, overdue, acts>>
set_start_at_login(on) ==
    /\ cmd = NoCmd /\ unit # 0 /\ at_login # on /\ acts < MaxActs /\ acts' = acts + 1
    /\ at_login' = on /\ choice' = on /\ halfway' = FALSE
    /\ UNCHANGED <<platform, unit, loaded, node, lingering, marker, link, cmd, found, unmarked, overdue, faults>>
\* A clean quit; the node is left stopped.
Quits ==
    /\ node # 0 /\ cmd = NoCmd /\ acts < MaxActs /\ acts' = acts + 1
    /\ node' = 0
    /\ UNCHANGED <<platform, unit, loaded, at_login, lingering, marker, link, cmd, found, choice, halfway, unmarked, overdue, faults>>

Next ==
    \/ GoneLate \/ install \/ stop \/ Writes \/ SetsLogin \/ enable_linger \/ link_on_path \/ Starts
    \/ uninstall \/ Removes \/ Unlingers \/ Unlinks \/ Returns \/ Fails \/ Quits
    \/ \E on \in BOOLEAN : set_start_at_login(on)
Spec == Init /\ [][Next]_vars

----------------------------------------------------------------------------
(* What must hold                                                             *)

\* However often it was installed again, in full or in part, it starts at login
\* as was last chosen (linux.rs: "a reinstall keeps the choice"), unless a first
\* install ended between the unit and enabling it.
ChoiceIsKept == cmd.step = "installed" /\ ~halfway => at_login = choice
\* A node that an install has started runs what was installed, unless the one
\* before was still quitting.
RunsWhatIsInstalled == cmd.step = "installed" /\ ~overdue => node = unit
\* Uninstalling leaves the user lingering, and the name on the PATH, as the
\* install found them, though it was interrupted and done again.
LeavesAsFound ==
    /\ cmd.step = "uninstalled" /\ ~unmarked => lingering = found.lingering
    /\ cmd.step = "uninstalled" => link = found.link
    /\ found.link = "other" => link = "other"
=============================================================================
