-------------------------------- MODULE Volumes --------------------------------
(* The volumes a node records to (storage.rs): which there are, which of them  *)
(* a path is on, what is written to each and how long that leaves, and whether *)
(* there is room to begin. A path is the sequence of its names.                *)
EXTENDS Integers, Sequences, FiniteSets, FiniteSetsExt

CONSTANTS
    Disks,              \* a platform's mounts: [at, links, name, device, disk, kind, free]
    Folders, Legs,      \* its folders that stay; what may be recorded there: [path, rate]
    MIN_FREE_TO_RECORD,
    MaxChanges          \* bound: drives that come or go, and recordings

MIN_MEASURE == 5

VARIABLES
    platform, mounted,
    legs,            \* what records: [path, rate, secs]
    changes
vars == <<platform, mounted, legs, changes>>

Init ==
    /\ platform \in DOMAIN Disks
    /\ mounted = {d \in Disks[platform] : d.kind # "removable"}
    /\ legs = {} /\ changes = 0

----------------------------------------------------------------------------
(* The operators                                                              *)

\* Those that hold recordings.
Writable == {d \in mounted : d.kind \in {"fixed", "removable"}}
\* Whether two mounts are one volume, however many are: only names of devices
\* say so, where others are labels that two drives may share.
same(d, e) == d = e \/ (d.name[1] = "device" /\ d.name = e.name)
\* The mounts of a device fold into the one with the shortest mount point (of
\* which it has one).
merge_shared(disks) ==
    {[disk |-> d, mounts |-> {e \in disks : same(d, e)}] :
        d \in {f \in disks : \A e \in disks : same(f, e) => Len(f.at) <= Len(e.at)}}
list_volumes == merge_shared(Writable)

\* The nearest folder there is; a drive that isn't there has none.
Parts(path) == {SubSeq(path, 1, n) : n \in 0..Len(path)}
Longest(paths) == {p \in paths : \A q \in paths : Len(q) <= Len(p)}
Existing(path) ==
    Longest({at \in Parts(path) : at \in Folders[platform] \/ \E d \in mounted : at \in {d.at} \cup d.links})
\* The mount the system finds a path on: the last it comes to, or is led to.
Through(path) ==
    LET found == {d \in mounted : ({d.at} \cup d.links) \cap Parts(path) # {}}
        depth(d) == Max({Len(at) : at \in ({d.at} \cup d.links) \cap Parts(path)})
    IN  {d \in found : \A e \in found : depth(e) <= depth(d)}
\* On Unix its device says which volume, else the longest mount point it is in.
volume_of(path, volumes) ==
    LET alike == {v \in volumes : \E at \in Existing(path) : \E d \in v.mounts, e \in Through(at) : d.device = e.device}
        within(v) == {d.at : d \in v.mounts} \cap UNION {Parts(at) : at \in Existing(path)}
    IN  IF platform # "windows" /\ alike # {} THEN alike
        ELSE {v \in volumes : Longest(UNION {within(w) : w \in volumes}) \cap within(v) # {}}

\* What is written where, by legs that have recorded for long enough to tell.
leg_write_rates == {[path |-> l.path, rate |-> l.rate] : l \in {k \in legs : k.secs >= MIN_MEASURE}}
seconds_left(available, bytes_per_sec) == IF bytes_per_sec > 0 THEN {available \div bytes_per_sec} ELSE {}
apply_write_rates(volumes, writes) ==
    LET written(v) == MapThenSumSet(LAMBDA w : w.rate, {w \in writes : v \in volume_of(w.path, volumes)})
    IN  {[volume |-> v, rate |-> written(v), left |-> seconds_left(v.disk.free, written(v))] : v \in volumes}
get_storage == apply_write_rates(list_volumes, leg_write_rates)
\* The volumes that new legs would write to, with what they would then get.
VolumeChecks(new) ==
    {c \in apply_write_rates(list_volumes, leg_write_rates \cup new) :
        \E w \in new : c.volume \in volume_of(w.path, list_volumes)}
short_volume(paths, min) ==
    \E p \in paths : \E v \in volume_of(p, list_volumes) : v.disk.free < min

----------------------------------------------------------------------------
(* What happens                                                               *)

Changes == changes < MaxChanges /\ changes' = changes + 1
MountsOrGoes ==
    /\ Changes
    /\ \E d \in {e \in Disks[platform] : e.kind = "removable"} :
          mounted' = IF d \in mounted THEN mounted \ {d} ELSE mounted \cup {d}
    /\ UNCHANGED <<platform, legs>>
check_free_space ==
    /\ Changes
    /\ \E leg \in Legs[platform] :
        /\ \A l \in legs : l.path # leg.path
        /\ ~short_volume({leg.path}, MIN_FREE_TO_RECORD)
        /\ legs' = legs \cup {[path |-> leg.path, rate |-> leg.rate, secs |-> 0]}
    /\ UNCHANGED <<platform, mounted>>
Passes ==
    /\ \E l \in legs : l.secs < MIN_MEASURE
    /\ legs' = {[l EXCEPT !.secs = MIN_MEASURE] : l \in legs}
    /\ UNCHANGED <<platform, mounted, changes>>
Next == MountsOrGoes \/ check_free_space \/ Passes
Spec == Init /\ [][Next]_vars

----------------------------------------------------------------------------
(* What must hold                                                             *)

\* The disk a path's file would be written to, if it is one to record to.
Holds(path) == {d.disk : d \in Through(path) \cap Writable}
Paths == {l.path : l \in Legs[platform]}

\* A path to be written is on the volume of its disk, through whichever mount,
\* link or folder yet to be made it comes; and each disk is one volume wherever
\* devices are told apart, and never one with another's.
VolumesAreTrue ==
    /\ \A p \in Paths : Holds(p) # {} => {v.disk.disk : v \in volume_of(p, list_volumes)} = Holds(p)
    /\ \A v \in list_volumes : \A d \in v.mounts : d.disk = v.disk.disk
    /\ \A v, w \in list_volumes : v # w /\ v.disk.disk = w.disk.disk => v.disk.name[1] = "label"
\* What a check says is written to each volume is what goes to its disk, the
\* new legs with those that record, and it is of their disks and no others; of
\* the volumes there are, it is what those that record write.
WritesAreCounted ==
    LET to(v, writes) == MapThenSumSet(LAMBDA w : w.rate, {w \in writes : v.disk.disk \in Holds(w.path)})
        known(writes) == \A w \in writes : Holds(w.path) # {}
    IN  /\ known(leg_write_rates) => \A c \in get_storage : c.rate = to(c.volume, leg_write_rates)
        /\ \A new \in SUBSET Legs[platform] :
               known(leg_write_rates \cup new) =>
                   /\ {c.volume.disk.disk : c \in VolumeChecks(new)} = UNION {Holds(w.path) : w \in new}
                   /\ \A c \in VolumeChecks(new) : c.rate = to(c.volume, leg_write_rates \cup new)
=============================================================================
