-------------------------------- MODULE Devices --------------------------------
(***************************************************************************)
(* The drives of a station and the two searches among them: the disk to    *)
(* install to and the medium to install from.  The kernel names the drives *)
(* sda, sdb, ... and sr0, ... in the order in which it brings them up,     *)
(* which is anybody's guess; a drive has a node under /dev only after the  *)
(* next run of mdev; and the program retries a fixed number of times.      *)
(***************************************************************************)
EXTENDS Naturals, Sequences, Functions

CONSTANTS
  Disks, Keys, Cds,  \* the drives: disks, disks on key, CDROM drives
  Nothing,           \* no drive
  TargetRetries,     \* how often the target is looked for
  SourceRetries,     \* how often the source is, before a last look
  MaxFaults          \* bound on the commands that fail

ASSUME DrivesAssumption ==
  /\ Disks \cap Keys = {} /\ Cds \cap (Disks \cup Keys) = {}
  /\ Nothing \notin Disks \cup Keys \cup Cds
ASSUME BoundsAssumption ==
  TargetRetries \in Nat \ {0} /\ SourceRetries \in Nat /\ MaxFaults \in Nat

VARIABLES
  args,              \* the arguments, and what the drives are like
  coming,            \* drive -> what it takes for it to come up
  sd, sr,            \* the drives that are up: sd[1] is sda, sr[1] is sr0
  nodes,             \* the drives with a node under /dev
  layout,            \* the sd drives inaugurator has partitioned, now or before
  pc,                \* the next step, or how it ended
  candidate,         \* the target's index in sd: its name
  target, source,    \* what has been found
  targetLooks, sourceLooks,
  faults             \* commands that failed so far

kernel == <<coming, sd, sr>>
targetVars == <<candidate, target, targetLooks>>
sourceVars == <<source, sourceLooks>>
vars == <<args, kernel, nodes, layout, pc, targetVars, sourceVars, faults>>

SdDrives == Disks \cup Keys
Drives == SdDrives \cup Cds

\* by: the target is given by name (sda, sdb), type or label; labelled: the
\* medium is given by its label; wipe: old installations may be wiped.
\* small: the disks of 32 GB at most; solid: the drives that do not rotate;
\* marked: the drives with a partition of the label the target is given by;
\* media: the drives that have the label the source is given by, and osmosis
\* objects on them.
Args ==
  {a \in [by : {"sda", "sdb", "SSD", "HDD", "label"},
          from : {"network", "DOK", "CDROM"}, labelled : BOOLEAN, wipe : BOOLEAN,
          small : SUBSET Disks, solid : SUBSET SdDrives, marked : SUBSET SdDrives,
          media : SUBSET (Keys \cup Cds)] :
     /\ a.from = "network" => ~a.labelled /\ a.media = {}
     /\ a.from = "DOK" => a.media \subseteq Keys
     /\ a.from = "CDROM" /\ ~a.labelled => a.media \subseteq Cds
     /\ (a.from # "DOK" \/ a.labelled) => a.small = {}
     /\ a.by \notin {"SSD", "HDD"} => a.solid = {}
     /\ a.by # "label" => a.marked = {}}

Init ==
  /\ args \in Args
  /\ coming \in [Drives -> {"never", "driver", "usb"}]
  /\ \A d \in Disks : coming[d] # "usb"
  /\ args.from # "CDROM" => \A d \in Cds : coming[d] = "never"
  /\ sd = <<>> /\ sr = <<>>
  /\ nodes = {}
  /\ layout \in {{}, Disks}
  /\ pc = "drivers"
  /\ candidate = 0
  /\ target = Nothing /\ source = Nothing
  /\ targetLooks = 0 /\ sourceLooks = 0
  /\ faults = 0

-------------------------------------------------------------------------------
(* The kernel, and /dev *)

\* A driver is there, and the drive is named some time later.
Appear(d) ==
  /\ coming[d] = "probed"
  /\ coming' = [coming EXCEPT ![d] = "up"]
  /\ IF d \in Cds THEN sr' = Append(sr, d) /\ UNCHANGED sd
     ELSE sd' = Append(sd, d) /\ UNCHANGED sr
  /\ UNCHANGED <<args, nodes, layout, pc, targetVars, sourceVars, faults>>

Loaded(kind) ==
  coming' = [d \in Drives |-> IF coming[d] = kind THEN "probed" ELSE coming[d]]

Up == Range(sd) \cup Range(sr)
Mdev == nodes' = Up

Fault == faults < MaxFaults /\ faults' = faults + 1

\* A command whose failure is not caught ends the ceremony.
CommandFails(places) ==
  /\ pc \in places
  /\ Fault
  /\ pc' = "raised"
  /\ UNCHANGED <<args, kernel, nodes, layout, targetVars, sourceVars>>

-------------------------------------------------------------------------------
(* The target *)

\* udev lists the devices once and loads a driver for each.
LoadAllDrivers ==
  /\ pc = "drivers"
  /\ Loaded("driver")
  /\ pc' = "candidates"
  /\ UNCHANGED <<args, sd, sr, nodes, layout, targetVars, sourceVars, faults>>

Candidate(i) == candidate' = i /\ pc' = "target"

ByName ==
  /\ args.by \in {"sda", "sdb"}
  /\ Candidate(IF args.by = "sda" THEN 1 ELSE 2)
  /\ UNCHANGED <<nodes, targetLooks, faults>>

\* /sys/block, and what the kernel says of rotation
OfType == {i \in DOMAIN sd : (sd[i] \in args.solid) = (args.by = "SSD")}

\* It is listed once, in any order, and nothing is waited for.
ByType ==
  /\ args.by \in {"SSD", "HDD"}
  /\ \/ \E i \in OfType : Candidate(i)
     \/ OfType = {} /\ pc' = "noCandidate" /\ UNCHANGED candidate
  /\ UNCHANGED <<nodes, targetLooks, faults>>

\* What blkid says, after the mdev before it
WithLabel == {i \in DOMAIN sd : sd[i] \in args.marked \cap nodes'}

\* mdev, whose failure is not looked at, and blkid: up to five times, and there
\* must be exactly one partition of that label.
ByLabel ==
  /\ args.by = "label"
  /\ \/ Mdev /\ UNCHANGED faults
     \/ Fault /\ UNCHANGED nodes
  /\ \/ \E i \in WithLabel : WithLabel = {i} /\ Candidate(i) /\ targetLooks' = 0
     \/ /\ WithLabel = {} /\ targetLooks + 1 < TargetRetries
        /\ targetLooks' = targetLooks + 1
        /\ UNCHANGED <<pc, candidate>>
     \/ /\ \/ \E i, j \in WithLabel : i # j
           \/ WithLabel = {} /\ targetLooks + 1 = TargetRetries
        /\ pc' = "noCandidate"
        /\ UNCHANGED <<candidate, targetLooks>>

SetTargetDevice ==
  /\ pc = "candidates"
  /\ ByName \/ ByType \/ ByLabel
  /\ UNCHANGED <<args, kernel, layout, target, sourceVars>>

Exists(i) == i \in DOMAIN sd /\ sd[i] \in nodes

\* Mutant: that there is a node is not asked for.
FindTargetBlindly ==
  /\ pc = "target"
  /\ targetLooks' = targetLooks + 1
  /\ IF candidate \in DOMAIN sd
       THEN target' = sd[candidate] /\ pc' = "partition"
       ELSE target' = target /\ pc' = "targetMdev"
  /\ UNCHANGED <<args, kernel, nodes, layout, candidate, sourceVars, faults>>

\* TargetDevice: the label of a disk on key is never read, since the name of
\* the device plus 1 is a TypeError, and caught.
FindTarget ==
  /\ pc = "target"
  /\ targetLooks' = targetLooks + 1
  /\ IF Exists(candidate)
       THEN target' = sd[candidate] /\ pc' = "partition"
       ELSE target' = target /\ pc' = "targetMdev"
  /\ UNCHANGED <<args, kernel, nodes, layout, candidate, sourceVars, faults>>

\* Mutant: mdev is not run after a look in vain.
TargetNoMdev ==
  /\ pc = "targetMdev"
  /\ pc' = IF targetLooks < TargetRetries THEN "target" ELSE "noTarget"
  /\ UNCHANGED <<args, kernel, nodes, layout, targetVars, sourceVars, faults>>

\* After the last look too, which is of no use to this search.
TargetMdev ==
  /\ pc = "targetMdev"
  /\ \/ Mdev /\ UNCHANGED faults
     \/ Fault /\ UNCHANGED nodes
  /\ pc' = IF targetLooks < TargetRetries THEN "target" ELSE "noTarget"
  /\ UNCHANGED <<args, kernel, layout, targetVars, sourceVars>>

\* What PartitionTable does to the disk in detail
Partition ==
  /\ pc = "partition"
  /\ \/ /\ target \in layout \/ args.wipe
        /\ layout' = layout \cup {target}
        /\ pc' = IF args.from = "network" THEN "done" ELSE "modprobe"
     \/ /\ target \notin layout /\ ~args.wipe
        /\ pc' = "refused"
        /\ UNCHANGED layout
  /\ UNCHANGED <<args, kernel, nodes, targetVars, sourceVars, faults>>

-------------------------------------------------------------------------------
(* The source *)

\* Both searches start with the drivers for USB.
Modprobe ==
  /\ pc = "modprobe"
  /\ Loaded("usb")
  /\ pc' = "source"
  /\ UNCHANGED <<args, sd, sr, nodes, layout, targetVars, sourceVars, faults>>

\* Mutant: what partitioning did to the drive is not seen.
HadLabel(d) == d \in args.media

\* Partitioning a drive that had the label takes it away.
HasLabel(d) == d \in args.media \ layout

\* With a label: the drive that has it. Without: any sd drive of up to 32 GB,
\* in the order of the glob; any of sr0, sr1 and sr2, which are not tried: what
\* the code calls to mount them only makes a context manager.
SourceShown ==
  CASE args.from = "DOK" ->
         {d \in Range(sd) \cap nodes :
            IF args.labelled THEN HasLabel(d) ELSE d \in Keys \cup args.small}
    [] args.from = "CDROM" ->
         IF args.labelled THEN {d \in Up \cap nodes : HasLabel(d)}
         ELSE {sr[i] : i \in {j \in DOMAIN sr : sr[j] \in nodes /\ j < 4}}
    [] OTHER -> {}

\* What is raised in a look, by sfdisk, dosfslabel or findfs, is caught, but for
\* the last one's.
FindSource ==
  /\ pc = "source"
  /\ sourceLooks' = sourceLooks + 1
  /\ \/ /\ source' \in SourceShown
        /\ pc' = "mount"
        /\ UNCHANGED faults
     \/ /\ (SourceShown = {} /\ UNCHANGED faults) \/ (SourceShown # {} /\ Fault)
        /\ pc' = IF sourceLooks < SourceRetries THEN "sourceMdev" ELSE "noSource"
        /\ UNCHANGED source
  /\ UNCHANGED <<args, kernel, nodes, layout, targetVars>>

SourceMdev ==
  /\ pc = "sourceMdev"
  /\ Mdev
  /\ pc' = "source"
  /\ UNCHANGED <<args, kernel, layout, targetVars, sourceVars, faults>>

\* The mount, as the file system of a medium of its kind, and the label file
MountSource ==
  /\ pc = "mount"
  /\ pc' = IF HasLabel(source) /\ (source \in Cds <=> args.from = "CDROM")
             THEN "done" ELSE "noLabel"
  /\ UNCHANGED <<args, kernel, nodes, layout, targetVars, sourceVars, faults>>

FindingTarget == LoadAllDrivers \/ SetTargetDevice \/ FindTarget \/ TargetMdev \/ Partition
FindingSource == Modprobe \/ FindSource \/ SourceMdev \/ MountSource
Step == FindingTarget \/ FindingSource

Ended == {"done", "raised", "noCandidate", "noTarget", "refused", "noSource", "noLabel"}

Stopped == pc \in Ended /\ UNCHANGED vars

Next ==
  \/ Step
  \/ \E d \in Drives : Appear(d)
  \/ CommandFails({"drivers", "candidates", "modprobe", "sourceMdev", "mount"})
  \/ Stopped

\* The program runs on. A drive may take as long to come up as it likes.
Spec == Init /\ [][Next]_vars /\ WF_vars(Step)

-------------------------------------------------------------------------------
(* Properties *)

\* The variables keep their types.
TypeOK ==
  /\ args \in Args
  /\ coming \in [Drives -> {"never", "driver", "usb", "probed", "up"}]
  /\ sd \in Seq(SdDrives) /\ sr \in Seq(Cds)
  /\ nodes \subseteq Drives /\ layout \subseteq SdDrives
  /\ pc \in Ended \cup {"drivers", "candidates", "target", "targetMdev", "partition",
                        "modprobe", "source", "sourceMdev", "mount"}
  /\ candidate \in Nat
  /\ target \in SdDrives \cup {Nothing} /\ source \in Drives \cup {Nothing}
  /\ targetLooks \in 0..TargetRetries /\ sourceLooks \in 0..SourceRetries + 1
  /\ faults \in 0..MaxFaults

\* Both searches are bounded, and give up only if every look was in vain; what
\* is found was there, with a node under /dev, and acceptable at the time of the
\* look, and is not changed afterwards.
TargetSearch ==
  INSTANCE Search WITH MaxLooks <- TargetRetries,
    shown <- {sd[i] : i \in {j \in DOMAIN sd : j = candidate /\ sd[j] \in nodes}},
    looks <- IF candidate = 0 THEN 0 ELSE targetLooks,
    found <- target, over <- pc = "noTarget"
SourceSearch ==
  INSTANCE Search WITH MaxLooks <- SourceRetries + 1, shown <- SourceShown,
    looks <- sourceLooks, found <- source, over <- pc = "noSource"
SearchesKeepTheirPromise == TargetSearch!Spec /\ SourceSearch!Spec

\* The disk is partitioned before the medium is looked for, so that without a
\* label a small target may be taken for it; the label is never read from it.
InstalledFromAnotherDrive ==
  /\ pc = "done" /\ args.from # "network" => source # target
  /\ source # Nothing /\ source = target => ~args.labelled

\* A drive that comes up before the last mdev is found: its node appears with
\* the next mdev, and there is a look after that; the medium even if a look
\* fails, the disk even if an mdev does.
UpInTimeIsFound ==
  /\ (candidate \in DOMAIN sd /\ targetLooks + 2 < TargetRetries /\ pc = "target")
       ~> target # Nothing
  /\ \A d \in Keys \cup Cds :
       (/\ pc = "source" /\ sourceLooks + 2 <= SourceRetries
        /\ d \in Up /\ HasLabel(d) /\ (d \in Keys => args.from = "DOK"))
         ~> (source # Nothing \/ pc = "raised")
===============================================================================
