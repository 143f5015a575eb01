------------------------------- MODULE Updater -------------------------------
(* Updating the node (update.rs).                                             *)
(* Checks look for the newest release on the channel set; an update is        *)
(* downloaded and unpacked beside the app, swapped with it by two renames (on *)
(* Windows, of every file of it, since a folder in use can't be renamed),     *)
(* and takes effect when the node quits and the service manager starts it.    *)
(* What a release holds is left out: it verifies and unpacks, or not.         *)
EXTENDS Naturals

CONSTANTS
    Channels,   \* release channels
    Checks,     \* checks under way at a time
    Starts,     \* updates asked for at a time
    MaxChanges, \* bound: changes of the channel, and updates asked for
    MaxFaults   \* bound: crashes and steps that fail

VARIABLES
    phase, channel, latest,  \* UpdateStatusDto: latest is the channel of the release found
    checks, starts,          \* what each check and each start is at
    install,                 \* the step of the update that runs
    app, staging,            \* the app in its place, and what is in the staging folder
    windows,                 \* the platform
    up, restarting,          \* the node runs, and is to be started again
    overlapped,              \* an update has run beside another, or beside a check
    changes, faults
updateVars == <<phase, channel, latest, checks, starts, install>>
diskVars == <<app, staging>>
nodeVars == <<windows, up, restarting, overlapped>>
vars == <<updateVars, diskVars, nodeVars, changes, faults>>

None == "none"
NoCheck == [at |-> "none", channel |-> None]
Fails == faults < MaxFaults /\ faults' = faults + 1

----------------------------------------------------------------------------
(* Checking                                                                   *)

\* check: one that finds an update or another check running leaves it. The
\* phase is read and set under two locks.
check(c) ==
    /\ up /\ checks[c].at = "none" /\ phase = "idle"
    /\ checks' = [checks EXCEPT ![c] = [at |-> "begins", channel |-> None]]
    /\ UNCHANGED <<phase, channel, latest, starts, install, diskVars, nodeVars, changes, faults>>
Asks(c) ==
    /\ up /\ checks[c].at = "begins"
    /\ phase' = "checking" /\ checks' = [checks EXCEPT ![c] = [at |-> "asks", channel |-> channel]]
    /\ UNCHANGED <<channel, latest, starts, install, diskVars, nodeVars, changes, faults>>
\* mutant: what was found is kept, whichever channel it was found on.
Whichever(c) == TRUE
Same(c) == checks[c].channel = channel
\* The release is found, or can't be asked for; a channel that changed
\* meanwhile is asked again.
Found(c) ==
    /\ up /\ checks[c].at = "asks"
    /\ IF ~Same(c) THEN checks' = [checks EXCEPT ![c].channel = channel] /\ UNCHANGED <<phase, latest>>
       ELSE /\ checks' = [checks EXCEPT ![c] = NoCheck] /\ phase' = "idle"
            /\ latest' \in {latest, checks[c].channel}
    /\ UNCHANGED <<channel, starts, install, diskVars, nodeVars, changes, faults>>
set_channel(ch) ==
    /\ up /\ ch # channel /\ changes < MaxChanges /\ changes' = changes + 1
    /\ channel' = ch /\ latest' = None
    /\ UNCHANGED <<phase, checks, starts, install, diskVars, nodeVars, faults>>

----------------------------------------------------------------------------
(* Updating                                                                   *)

\* start takes the status, then asks what the node and its nodes are doing.
start(s) ==
    /\ up /\ starts[s] = "none" /\ changes < MaxChanges /\ changes' = changes + 1
    /\ starts' = [starts EXCEPT ![s] = IF phase = "idle" THEN "idle" ELSE "refused"]
    /\ UNCHANGED <<phase, channel, latest, checks, install, diskVars, nodeVars, faults>>
Refused(s) ==
    /\ up /\ starts[s] \in {"idle", "refused"} /\ starts' = [starts EXCEPT ![s] = "none"]
    /\ UNCHANGED <<phase, channel, latest, checks, install, diskVars, nodeVars, changes, faults>>
Begins(s) ==
    /\ up /\ starts[s] = "idle" /\ starts' = [starts EXCEPT ![s] = "none"]
    /\ phase' = "downloading"
    /\ install' = IF install = None THEN "clear" ELSE install
    /\ overlapped' = (overlapped \/ install # None \/ \E c \in Checks : checks[c].at # "none")
    /\ UNCHANGED <<channel, latest, checks, diskVars, windows, up, restarting, changes, faults>>

Next2(step) == install' = step /\ UNCHANGED <<channel, latest, checks, starts, nodeVars, changes>>
\* mutant: taken to be there, whatever is left of it.
Always == TRUE
\* app_path: the app this node runs from, unless it isn't there any more. On
\* Windows it is where its version.txt is, whatever else is missing.
InPlace == app # None
clear ==
    /\ up /\ install = "clear" /\ staging' = (IF InPlace THEN {} ELSE staging)
    /\ Next2(IF InPlace THEN "download" ELSE "failed") /\ UNCHANGED <<phase, app, faults>>
download ==
    /\ up /\ install = "download" /\ staging' = staging \cup {"new"} /\ phase' = "installing"
    /\ Next2("aside") /\ UNCHANGED <<app, faults>>
\* swap: the app is moved aside, the new one into its place, and the old one
\* back if that fails.
MovesAside ==
    /\ up /\ install = "aside" /\ ~windows /\ app' = None /\ staging' = staging \cup {app}
    /\ Next2("place") /\ UNCHANGED <<phase, faults>>
MovesIn ==
    /\ up /\ app' = "new" /\ staging' = staging \ {"new"}
    /\ install = IF windows THEN "placing" ELSE "place"
    /\ Next2("quit") /\ phase' = "restarting" /\ UNCHANGED faults
\* Windows: midway, the app is in halves. One that was already is no more
\* whole for being moved.
move_files ==
    /\ up /\ windows /\ install \in {"aside", "place"} /\ app' = "part"
    /\ staging' = IF install = "place" THEN staging ELSE staging \cup {IF app = "part" THEN "part" ELSE "half"}
    /\ Next2(IF install = "aside" THEN "asiding" ELSE "placing") /\ UNCHANGED <<phase, faults>>
MovedAside ==
    /\ up /\ install = "asiding" /\ app' = None
    /\ staging' = IF "half" \in staging THEN (staging \ {"half"}) \cup {"old"} ELSE staging
    /\ Next2("place") /\ UNCHANGED <<phase, faults>>
\* A file that doesn't go back stays behind: all the others do.
GoesBack ==
    \/ /\ app' = IF staging \cap {"old", "half"} # {} THEN "old" ELSE "part"
       /\ staging' = staging \ {"old", "half", "part"}
    \/ ~windows /\ UNCHANGED diskVars
    \/ windows /\ app' \in {"part", None} /\ staging' = (staging \ {"old", "half"}) \cup {"part"}
MovesBack ==
    /\ up /\ install \in {"place", "asiding", "placing"} /\ Fails /\ GoesBack
    /\ Next2("failed") /\ UNCHANGED phase
\* A step that fails before anything is moved.
StepFails == up /\ install \in {"download", "aside"} /\ Fails /\ Next2("failed") /\ UNCHANGED <<phase, diskVars>>
\* start's end: the staging folder goes unless the app did not make it back.
Cleans ==
    /\ up /\ install = "failed" /\ staging' = (IF InPlace THEN {} ELSE staging) /\ phase' = "idle"
    /\ Next2(None) /\ UNCHANGED <<app, faults>>
quit ==
    /\ up /\ install = "quit" /\ up' = FALSE /\ restarting' = TRUE
    /\ UNCHANGED <<updateVars, diskVars, windows, overlapped, changes, faults>>
Crash == up /\ Fails /\ up' = FALSE /\ restarting' = TRUE
         /\ UNCHANGED <<updateVars, diskVars, windows, overlapped, changes>>
\* The service manager starts the app there is, which is now the one an update
\* replaces; the node then removes what the last update left.
Started ==
    /\ ~up /\ restarting /\ InPlace /\ up' = TRUE /\ restarting' = FALSE
    /\ app' = (IF app = "part" THEN "part" ELSE "old") /\ staging' = {} /\ phase' = "idle" /\ latest' = None
    /\ checks' = [c \in Checks |-> NoCheck] /\ starts' = [s \in Starts |-> "none"] /\ install' = None
    /\ UNCHANGED <<channel, windows, overlapped, changes, faults>>

----------------------------------------------------------------------------
Init ==
    /\ phase = "idle" /\ channel \in Channels /\ latest = None
    /\ checks = [c \in Checks |-> NoCheck] /\ starts = [s \in Starts |-> "none"] /\ install = None
    /\ app = "old" /\ staging = {} /\ windows \in BOOLEAN /\ up = TRUE /\ restarting = FALSE /\ overlapped = FALSE
    /\ changes = 0 /\ faults = 0
Next ==
    \/ \E c \in Checks : check(c) \/ Asks(c) \/ Found(c)
    \/ \E ch \in Channels : set_channel(ch)
    \/ \E s \in Starts : start(s) \/ Refused(s) \/ Begins(s)
    \/ clear \/ download \/ MovesAside \/ MovesIn \/ move_files \/ MovedAside \/ MovesBack \/ StepFails \/ Cleans \/ quit \/ Crash \/ Started
Spec == Init /\ [][Next]_vars

----------------------------------------------------------------------------
\* The status and the app have the values they may have.
TypeOK ==
    /\ phase \in {"idle", "checking", "downloading", "installing", "restarting"}
    /\ latest \in Channels \cup {None} /\ app \in {"old", "new", "part", None}
    /\ staging \subseteq {"old", "new", "half", "part"}

\* A whole app is in its place or beside it, whichever step of an update
\* failed or was cut short: cleaning up never removes the only one. On Windows,
\* where a node is stopped midway, or a file doesn't go back, halves of one may
\* be all there is.
AppIsSomewhere ==
    app \in {"old", "new"} \/ staging \cap {"old", "part"} # {} \/ (windows /\ app = "part")

\* The release a node offers is one of the channel set now.
OfferIsOfChannel == latest \in {None, channel}

\* What the status says is so: it is idle only when no update runs, so a
\* second one is refused, unless an update began while another or a check did.
IdleMeansIdle == up /\ ~overlapped /\ phase \in {"idle", "checking"} => install = None
=============================================================================
