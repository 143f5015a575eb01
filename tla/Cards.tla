--------------------------------- MODULE Cards ---------------------------------
(* The node's Decklink cards (sources/decklink.rs): sub-devices, each used by  *)
(* a source that captures from it and a channel that plays out to it, in the   *)
(* mode its program's format has; and the profile set on a card, which         *)
(* everything opened on it is opened with (api/node.rs, db/mod.rs).            *)
EXTENDS Integers, Sequences, SequencesExt, FiniteSets, FiniteSetsExt

CONSTANTS
    Devices,         \* sub-devices: [card, capture, playout]
    Configs,         \* for each source, what it may be saved as
    Profiles,        \* profiles cards are set to
    Requests,        \* requests at a time
    MaxActs, MaxFaults \* bounds: requests; unplugged cards, failed saves and restarts

VARIABLES
    plugged,         \* the sub-devices that are connected
    profiles, stored, \* each card's profile, and its row
    rows,            \* the saved configs
    users,           \* what has been opened: [id, device, playout, profile, mode], and the config it was opened for
    opening,         \* outputs being opened outside the lock
    due,             \* a scan has been asked for
    reqs,
    crossed, refitted, missed, unsaved, \* history: saves that crossed; cards set to half duplex under two users;
                     \* outputs opened as a profile was changed; cards whose profile was saved out of turn, or not
    acts, faults

vars == <<plugged, profiles, stored, rows, users, opening, due, reqs, crossed, refitted, missed, unsaved, acts, faults>>

Cards == {Devices[d].card : d \in DOMAIN Devices}
None == [kind |-> "none"]
NoReq == [step |-> "none"]

Init ==
    /\ plugged = DOMAIN Devices
    /\ profiles = [c \in Cards |-> "default"] /\ stored = profiles
    /\ rows = [i \in DOMAIN Configs |-> None]
    /\ users = {} /\ opening = {}
    /\ due = FALSE
    /\ reqs = [r \in Requests |-> NoReq]
    /\ crossed = FALSE /\ refitted = {} /\ missed = FALSE /\ unsaved = {}
    /\ acts = 0 /\ faults = 0

Fault == faults < MaxFaults /\ faults' = faults + 1

----------------------------------------------------------------------------
(* Modes                                                                      *)

P2398 == <<24000, 1001>>
P2997 == <<30000, 1001>>
P5994 == <<60000, 1001>>
mode(height, fps, interlaced) == [height |-> height, fps |-> fps, interlaced |-> interlaced]
\* Interlaced modes' rates are frame rates.
MODES ==
    {mode(h, f, FALSE) : h \in {2160, 1080}, f \in {P5994, <<60, 1>>, <<50, 1>>, <<30, 1>>, P2997, <<25, 1>>, <<24, 1>>, P2398}}
    \cup {mode(1080, f, TRUE) : f \in {P2997, <<30, 1>>, <<25, 1>>}}
    \cup {mode(720, f, FALSE) : f \in {P5994, <<60, 1>>, <<50, 1>>}}
    \cup {mode(486, P2997, TRUE), mode(576, <<25, 1>>, TRUE)}
plays_out(m) == ~m.interlaced \/ m.height = 1080
\* Each frame of the program is a field.
program_format(m) == [height |-> m.height, fps |-> IF m.interlaced THEN <<2 * m.fps[1], m.fps[2]>> ELSE m.fps]
same_rate(a, b) == a[1] * b[2] = b[1] * a[2]
fits(m, program) == program_format(m).height = program.height /\ same_rate(program_format(m).fps, program.fps)
\* The modes an output may play a program in: the one that is pinned, or the
\* one that matches, progressive first. `pinned` has one mode or none.
output_mode(program, pinned) ==
    LET all == {m \in MODES : plays_out(m) /\ fits(m, program)}
        progressive == {m \in all : ~m.interlaced}
    IN  IF pinned # {} THEN all \cap pinned
        ELSE IF progressive # {} THEN progressive ELSE all

embedded_channels(n) == Min({c \in {2, 8, 16} : c >= n} \cup {16})
\* Which of the program's channels each embedded one carries: mono on two.
spread_matrix(n) == [out \in 1..embedded_channels(n) |-> {c \in 1..n : c = out \/ (n = 1 /\ out = 2)}]

----------------------------------------------------------------------------
(* Who uses what                                                              *)

Use(id, device, playout) == [id |-> id, device |-> device, playout |-> playout]
\* A config's uses of sub-devices, in order.
uses_of(id, config) ==
    IF config = None THEN <<>>
    ELSE IF config.kind = "decklink" THEN <<Use(id, config.device, FALSE)>>
    ELSE [i \in DOMAIN config.outputs |-> Use(id, config.outputs[i].device, TRUE)]
uses(configs) == UNION {ToSet(uses_of(id, configs[id])) : id \in DOMAIN configs}
half_duplex(profile) == profile \in {"one-half", "two-half", "four-half"}
Can(use) == IF use.playout THEN Devices[use.device].playout ELSE Devices[use.device].capture
\* One captures and one plays out, or one of them.
check_use(use, others) ==
    /\ use.device \in plugged /\ Can(use)
    /\ LET same == {u \in others : u.device = use.device}
       IN  /\ \A u \in same : u.playout # use.playout
           /\ half_duplex(profiles[Devices[use.device].card]) => same = {}
\* A source's channels are ones SDI has; a channel's outputs come one by one,
\* each checked with those before it.
validate(id, config) ==
    LET others == {u \in uses(rows) : u.id # id}
        mine == uses_of(id, config)
    IN  /\ \A i \in DOMAIN mine : check_use(mine[i], others \cup ToSet(SubSeq(mine, 1, i - 1)))
        /\ IF config.kind = "decklink" THEN config.channels \in {2, 8, 16} /\ config.mode \subseteq MODES
           ELSE /\ config.channels <= 16
                /\ \A i \in DOMAIN config.outputs : output_mode(config.format, config.outputs[i].mode) # {}

----------------------------------------------------------------------------
(* Saving sources                                                             *)

Asked(r) == reqs[r] = NoReq /\ acts < MaxActs /\ acts' = acts + 1
Checked == {r \in Requests : reqs[r].step = "checked"}
\* Checked against the rows, which others may change before it is saved.
validated(r, id, config) ==
    /\ Asked(r) /\ validate(id, config)
    /\ reqs' = [reqs EXCEPT ![r] = [step |-> "checked", id |-> id, config |-> config]]
    /\ crossed' = (crossed \/ Checked # {} \/ \E o \in Requests : reqs[o].step = "set")
    /\ UNCHANGED <<plugged, profiles, stored, rows, users, opening, due, refitted, missed, unsaved, faults>>
put_configured_source(r) ==
    /\ r \in Checked
    /\ rows' = [rows EXCEPT ![reqs[r].id] = reqs[r].config]
    /\ reqs' = [reqs EXCEPT ![r] = NoReq]
    /\ due' = TRUE
    /\ UNCHANGED <<plugged, profiles, stored, users, opening, crossed, refitted, missed, unsaved, acts, faults>>
Deleted(id) ==
    /\ rows[id] # None /\ acts < MaxActs /\ acts' = acts + 1
    /\ rows' = [rows EXCEPT ![id] = None]
    /\ due' = TRUE
    /\ UNCHANGED <<plugged, profiles, stored, users, opening, reqs, crossed, refitted, missed, unsaved, faults>>

----------------------------------------------------------------------------
(* Opening them                                                               *)

Connected(device) == device \in plugged
\* A source's profile: the default without its card.
profile(device) == IF Connected(device) THEN profiles[Devices[device].card] ELSE "default"
Opened(use, config, m) ==
    [id |-> use.id, device |-> use.device, playout |-> use.playout, config |-> config, mode |-> m,
     profile |-> profiles[Devices[use.device].card]]
OutputModes(use, config) ==
    UNION {output_mode(config.format, o.mode) : o \in {o \in ToSet(config.outputs) : o.device = use.device}}
\* What a source is kept by has its card's profile, as it is when it is asked for.
fingerprint(config) == <<config, IF config.kind = "decklink" THEN profile(config.device) ELSE None>>
\* A source is kept if the one it is now reads the same; outputs if what they are does.
Stays(u) == rows[u.id] # None /\ fingerprint(u.config) = fingerprint(rows[u.id])
Wanted == {u \in uses(rows) : Connected(u.device)}
\* A scan closes what isn't wanted as it is. Outputs open outside its lock.
scan ==
    /\ due /\ opening = {}
    /\ due' = FALSE
    /\ LET kept == {u \in users : Stays(u)}
           missing == {w \in Wanted : \A u \in kept : Use(u.id, u.device, u.playout) # w}
       IN  /\ users' = kept \cup {Opened(w, rows[w.id], {}) : w \in {w \in missing : ~w.playout}}
           /\ opening' = UNION {{Opened(w, rows[w.id], OutputModes(w, rows[w.id]))} : w \in {w \in missing : w.playout}}
    /\ UNCHANGED <<plugged, profiles, stored, rows, reqs, crossed, refitted, missed, unsaved, acts, faults>>
\* It has been opened with the profile it found.
start(u) ==
    /\ u \in opening
    /\ opening' = opening \ {u}
    /\ users' = IF Connected(u.device) THEN users \cup {u} ELSE users
    /\ UNCHANGED <<plugged, profiles, stored, rows, due, reqs, crossed, refitted, missed, unsaved, acts, faults>>
\* The node looks again every few seconds.
ScanDue == ~due /\ due' = TRUE /\ (\E w \in Wanted : \A u \in users : Use(u.id, u.device, u.playout) # w)
    /\ opening = {}
    /\ UNCHANGED <<plugged, profiles, stored, rows, users, opening, reqs, crossed, refitted, missed, unsaved, acts, faults>>

----------------------------------------------------------------------------
(* A card's profile                                                           *)

UsedBothWays(card) ==
    \E u, v \in uses(rows) : u.device = v.device /\ u # v /\ Devices[u.device].card = card
\* It counts at once; the cards' profiles as they are now are what is saved.
put_decklink_profile(r, card, p) ==
    /\ Asked(r) /\ \E d \in plugged : Devices[d].card = card
    /\ profiles' = [profiles EXCEPT ![card] = p]
    /\ reqs' = [reqs EXCEPT ![r] = [step |-> "set", rows |-> profiles']]
    /\ refitted' = IF half_duplex(p) /\ UsedBothWays(card) THEN refitted \cup {card} ELSE refitted
    /\ unsaved' = IF \E o \in Requests : reqs[o].step = "set" THEN Cards ELSE unsaved
    /\ crossed' = (crossed \/ Checked # {})
    /\ UNCHANGED <<plugged, stored, rows, users, opening, due, missed, faults>>
decklink_profiles_set(r) ==
    /\ reqs[r].step = "set"
    /\ stored' = reqs[r].rows
    /\ reqs' = [reqs EXCEPT ![r] = [step |-> "reset"]]
    /\ UNCHANGED <<plugged, profiles, rows, users, opening, due, crossed, refitted, missed, unsaved, acts, faults>>
\* Not saved: it counts until the next start, for what is opened from now on.
StoreFails(r) ==
    /\ reqs[r].step = "set" /\ Fault
    /\ reqs' = [reqs EXCEPT ![r] = NoReq]
    /\ unsaved' = Cards
    /\ UNCHANGED <<plugged, profiles, stored, rows, users, opening, due, crossed, refitted, missed, acts>>
\* The outputs that are open close; one still being opened is missed.
reset_decklink_outputs(r) ==
    /\ reqs[r].step = "reset"
    /\ users' = {u \in users : ~u.playout}
    /\ missed' = (missed \/ opening # {})
    /\ reqs' = [reqs EXCEPT ![r] = NoReq]
    /\ due' = TRUE
    /\ UNCHANGED <<plugged, profiles, stored, rows, opening, crossed, refitted, unsaved, acts, faults>>

----------------------------------------------------------------------------
(* Cards come and go, and the node restarts                                   *)

Unplugged(card) ==
    /\ Fault
    /\ LET gone == {d \in plugged : Devices[d].card = card}
       IN  /\ gone # {} /\ plugged' = plugged \ gone
           /\ users' = {u \in users : u.device \notin gone}
    /\ due' = TRUE
    /\ UNCHANGED <<profiles, stored, rows, opening, reqs, crossed, refitted, missed, unsaved, acts>>
Plugged(card) ==
    /\ \E d \in DOMAIN Devices \ plugged : Devices[d].card = card
    /\ plugged' = plugged \cup {d \in DOMAIN Devices : Devices[d].card = card}
    /\ UNCHANGED <<profiles, stored, rows, users, opening, due, reqs, crossed, refitted, missed, unsaved, acts, faults>>
Restarted ==
    /\ Fault
    /\ profiles' = stored
    /\ users' = {} /\ opening' = {} /\ due' = TRUE
    /\ reqs' = [r \in Requests |-> NoReq]
    /\ unsaved' = {} /\ missed' = FALSE
    /\ refitted' = refitted \cup {card \in unsaved : half_duplex(stored[card]) /\ UsedBothWays(card)}
    /\ UNCHANGED <<plugged, stored, rows, crossed, acts>>

Next ==
    \/ \E r \in Requests :
        \/ \E id \in DOMAIN Configs : \E config \in Configs[id] : validated(r, id, config)
        \/ put_configured_source(r) \/ decklink_profiles_set(r) \/ StoreFails(r) \/ reset_decklink_outputs(r)
        \/ \E card \in Cards : \E p \in Profiles : put_decklink_profile(r, card, p)
    \/ \E id \in DOMAIN Configs : Deleted(id)
    \/ \E u \in opening : start(u)
    \/ \E card \in Cards : Unplugged(card) \/ Plugged(card)
    \/ scan \/ ScanDue \/ Restarted
Spec == Init /\ [][Next]_vars

----------------------------------------------------------------------------
(* What must hold                                                             *)

\* A sub-device has one source that captures and one output that plays out,
\* one of the two on a half duplex profile (decklink.rs:481-482), unless two
\* saves crossed or the profile was set under both.
OneUserEach ==
    /\ \A id \in DOMAIN rows : IsInjective([i \in DOMAIN uses_of(id, rows[id]) |-> uses_of(id, rows[id])[i].device])
    /\ \A u, v \in uses(rows) : u # v /\ u.device = v.device =>
           \/ crossed
           \/ u.playout # v.playout /\ (half_duplex(profiles[Devices[u.device].card]) =>
                                           Devices[u.device].card \in refitted)
\* An output is open with its card's profile once a change of it has been
\* answered and scanned for (node.rs:564-566). A source that is open stays so
\* with the profile it was opened with: both sides of `Stays` read the new one.
OpenedWithProfile ==
    ~due /\ opening = {} /\ ~missed /\ unsaved = {} /\ (\A r \in Requests : reqs[r].step \in {"none", "checked"}) =>
        \A u \in users : u.playout => u.profile = profiles[Devices[u.device].card]
\* The profile a card has is the one it has after a restart.
ProfilesAreKept ==
    unsaved = {} /\ (\A r \in Requests : reqs[r].step # "set") => stored = profiles
\* An output that was saved has one mode to open in, with as many frames, or
\* fields, as its program, and its program's sound: each channel once, in
\* order, and mono on both of the first pair.
PlaysTheProgram ==
    \A id \in DOMAIN rows : rows[id] # None /\ rows[id].kind = "channel" =>
        \A i \in DOMAIN rows[id].outputs :
            LET modes == output_mode(rows[id].format, rows[id].outputs[i].mode)
                m == CHOOSE m \in modes : TRUE
                n == rows[id].channels
                spread == spread_matrix(n)
            IN  /\ Cardinality(modes) = 1
                /\ m.height = rows[id].format.height
                /\ (IF m.interlaced THEN 2 ELSE 1) * m.fps[1] * rows[id].format.fps[2] = rows[id].format.fps[1] * m.fps[2]
                /\ \A c \in 1..n : {out \in DOMAIN spread : c \in spread[out]} = IF n = 1 THEN {1, 2} ELSE {c}
=============================================================================
