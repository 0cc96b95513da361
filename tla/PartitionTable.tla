----------------------------- MODULE PartitionTable -----------------------------
(***************************************************************************)
(* PartitionTable.verify: a disk whose layout is as expected is kept; any  *)
(* other is laid out anew, if wiping is allowed, by a script of commands,  *)
(* and checked again.  Then the other devices are searched for leftovers   *)
(* of inaugurations.  Each command may fail, and the machine may be        *)
(* rebooted at any point, which starts the ceremony over with the disk as  *)
(* it is.  Sizes are in MiB, LVM allocates extents of 4 MiB.               *)
(***************************************************************************)
EXTENDS Integers, Sequences, FiniteSets

CONSTANTS
  DiskSizes,         \* sizes of the target device, in MiB
  RootSizes,         \* the values of inauguratorRootPartitionSizeGB
  Others,            \* other disks that inaugurator may have been used on
  WholeDisks,        \* those that are a physical volume without partitions
  MaxFaults          \* bound on failing commands and reboots in mid-run

ASSUME SizesAssumption ==
  DiskSizes \subseteq Nat \ {0} /\ RootSizes \subseteq Nat \ {0}
ASSUME OthersAssumption == IsFiniteSet(Others) /\ WholeDisks \subseteq Others
ASSUME FaultsAssumption == MaxFaults \in Nat

VARIABLES
  args,              \* the arguments of the ceremony
  diskMB,            \* the size of the target device
  disk,              \* what is on the target device
  pvs,               \* the other disks with a volume group "inaugurator"
  boots,             \* the other disks with a partition labelled BOOT
  pc,                \* where verify is, "accepted" or "raised"
  step,              \* the next command of the script of _create
  retries,           \* checks since the script
  settled,           \* the script ended on this disk, or the check found it
                     \* in order while no other had the volume group, and no
                     \* command has failed and no reboot come since
  faults             \* failures and reboots so far

state == <<args, diskMB, disk, pvs, boots>>
vars == <<state, pc, step, retries, settled, faults>>

Layouts == {"GPT", "MBR"}
Args == [layout : Layouts, rootGB : RootSizes, wipe : BOOLEAN, clearDisk : BOOLEAN]

-------------------------------------------------------------------------------
(* The sizes *)

\* The physical volume: what the other partitions leave of the disk, without
\* the last MB of a GPT and the metadata of LVM, in whole extents.
PvMB(a) ==
  LET others == IF a.layout = "GPT" THEN 1 + 2 + 512 + 512 + 1 ELSE 8 + 512
  IN  4 * ((diskMB - others - 1) \div 4)

BigDisk(a) == diskMB \div 1024 >= a.rootGB + 8
SwapGB(a) == IF BigDisk(a) THEN 8 ELSE 1

\* --size, or --extents 100%FREE
RootMB(a) ==
  IF diskMB \div 1024 > a.rootGB + SwapGB(a)
    THEN 1024 * a.rootGB
    ELSE PvMB(a) - 1024 * SwapGB(a)

\* lvcreate finds enough free extents for a volume of this size.
HasRoomFor(a, sizeMB, usedMB) == 0 < sizeMB /\ sizeMB + usedMB <= PvMB(a)

\* Mutant: the root is measured against the size that was asked for.
VolumesFitAsAsked(a, swapMB, rootMB) ==
  /\ rootMB * 10 > a.rootGB * 1024 * 9
  /\ rootMB * 10 < a.rootGB * 1024 * 12
  /\ swapMB * 10 > SwapGB(a) * 1024 * 9

VolumesFit(a, swapMB, rootMB) ==
  /\ rootMB * 10 > 14 * 1024 * 9
  /\ rootMB * 10 < a.rootGB * 1024 * 12
  /\ swapMB * 10 > SwapGB(a) * 1024 * 9

-------------------------------------------------------------------------------
(* The target device *)

\* boot is within the 512 MiB that clear() zeroes; the EFI file system and the
\* physical volume start behind them and come back with the next table that
\* has a partition there.
Blank == [layout |-> "none", flags |-> FALSE, boot |-> FALSE, efi |-> FALSE,
          pv |-> "none", vg |-> FALSE, swapMB |-> 0, rootMB |-> 0, rootFs |-> FALSE]

LaidOut(a) == [layout |-> a.layout, flags |-> TRUE, boot |-> TRUE,
               efi |-> a.layout = "GPT", pv |-> a.layout, vg |-> TRUE,
               swapMB |-> 1024 * SwapGB(a), rootMB |-> RootMB(a), rootFs |-> TRUE]

Cleared(d) == [d EXCEPT !.layout = "none", !.flags = FALSE, !.boot = FALSE]
NoVolumes(d) == [d EXCEPT !.vg = FALSE, !.swapMB = 0, !.rootMB = 0]

\* The script ends well on this disk. It does not on a disk that is hardly larger
\* than root and swap: it has no room for a root of the full size beside the
\* other partitions. That the check accepts what the script leaves is not part
\* of this.
Creatable(a) == HasRoomFor(a, RootMB(a), 1024 * SwapGB(a))

Init ==
  /\ args \in Args
  /\ diskMB \in DiskSizes
  /\ disk \in {Blank} \cup {LaidOut(a) : a \in {x \in Args : Creatable(x)}}
  /\ pvs \in SUBSET Others
  /\ boots \in SUBSET (Others \ WholeDisks)
  /\ pc = "start"
  /\ step = 0
  /\ retries = 0
  /\ settled = (disk = LaidOut(args) /\ pvs = {})
  /\ faults = 0

Sound == UNCHANGED <<faults, settled>>
Fault == faults < MaxFaults /\ faults' = faults + 1 /\ settled' = FALSE

-------------------------------------------------------------------------------
(* _findMismatch *)

\* The partition table, with the sizes the script gives to its partitions, and
\* the physical volume
PartitionsFit ==
  /\ disk.layout = args.layout
  /\ disk.flags
  /\ disk.boot
  /\ args.layout = "GPT" => disk.efi
  /\ disk.vg /\ disk.pv = disk.layout

Fits == PartitionsFit /\ VolumesFit(args, disk.swapMB, disk.rootMB)

\* lvdisplay is given the name of the group: when another disk has one of that
\* name LVM refuses, or shows the volumes of either.
Verdicts == {Fits} \cup (IF PartitionsFit /\ pvs # {} THEN BOOLEAN ELSE {})

\* A command of the check that fails is a mismatch.
Finds(fits) ==
  \/ /\ fits \in Verdicts
     /\ settled' = (settled \/ (fits /\ pvs = {}))
     /\ UNCHANGED faults
  \/ ~fits /\ Fault

GoTo(place) == pc' = place /\ UNCHANGED <<args, diskMB, step, retries>>

-------------------------------------------------------------------------------
(* verify, and _createPartitionTable of the ceremony before it *)

Start ==
  /\ pc = "start"
  /\ disk' = IF args.clearDisk THEN Cleared(disk) ELSE disk
  /\ GoTo("check")
  /\ Sound
  /\ UNCHANGED <<pvs, boots>>

\* Mutant: the disk is laid out anew without asking.
CheckUnasked ==
  /\ pc = "check"
  /\ \E fits \in BOOLEAN :
       /\ Finds(fits)
       /\ pc' = IF fits THEN "activate" ELSE "create"
  /\ step' = 1
  /\ UNCHANGED <<state, retries>>

Check ==
  /\ pc = "check"
  /\ \E fits \in BOOLEAN :
       /\ Finds(fits)
       /\ pc' = IF fits THEN "activate" ELSE IF args.wipe THEN "create" ELSE "raised"
  /\ step' = 1
  /\ UNCHANGED <<state, retries>>

\* _wipeOldInstallationsIfAllowed
AfterCheck == IF args.wipe THEN "wipeVGs" ELSE "accepted"

\* The volumes are activated.
Activate ==
  /\ pc = "activate"
  /\ GoTo(AfterCheck)
  /\ Sound
  /\ UNCHANGED <<disk, pvs, boots>>

-------------------------------------------------------------------------------
(* _create *)

Script ==
  <<"clear", "table", "flags", "partprobe", "mkfsBoot">>
  \o (IF args.layout = "GPT" THEN <<"mkfsEfi">> ELSE <<>>)
  \o <<"vgremove", "pvcreate", "vgcreate", "lvcreateSwap", "lvcreateRoot",
       "vgscan", "mkswap", "mkfsRoot">>

\* The disk after a command of the script; none when the command must fail. A
\* new root may show the file system of an older one.
After(command) ==
  CASE command = "clear"    -> {Cleared(disk)}
    [] command = "table"    -> {[disk EXCEPT !.layout = args.layout]}
    [] command = "flags"    -> {[disk EXCEPT !.flags = TRUE]}
    [] command = "mkfsBoot" -> {[disk EXCEPT !.boot = TRUE]}
    [] command = "mkfsEfi"  -> {[disk EXCEPT !.efi = TRUE]}
    [] command = "pvcreate" -> {[NoVolumes(disk) EXCEPT !.pv = args.layout]}
    [] command = "vgcreate" -> {d \in {[disk EXCEPT !.vg = TRUE]} : pvs = {}}
    [] command = "lvcreateSwap" ->
         {d \in {[disk EXCEPT !.swapMB = 1024 * SwapGB(args)]} :
            HasRoomFor(args, d.swapMB, 0)}
    [] command = "lvcreateRoot" ->
         {d \in {[disk EXCEPT !.rootMB = RootMB(args), !.rootFs = fs] :
                   fs \in {FALSE, disk.rootFs}} :
            HasRoomFor(args, d.rootMB, d.swapMB)}
    [] command = "mkfsRoot" -> {[disk EXCEPT !.rootFs = TRUE]}
    [] OTHER                -> {disk}

NextCommand ==
  /\ step' = step + 1
  /\ pc' = IF step = Len(Script) THEN "recheck" ELSE "create"
  /\ retries' = 0

RunCommand ==
  /\ pc = "create"
  /\ Script[step] # "vgremove"
  /\ disk' \in After(Script[step])
  /\ NextCommand
  /\ settled' = (step = Len(Script))
  /\ UNCHANGED <<args, diskMB, pvs, boots, faults>>

\* The command fails for a reason of its own.
CannotRunCommand ==
  /\ pc = "create"
  /\ Script[step] # "vgremove"
  /\ After(Script[step]) = {}
  /\ GoTo("raised")
  /\ settled' = FALSE
  /\ UNCHANGED <<disk, pvs, boots, faults>>

Target == disk.vg /\ disk.layout = disk.pv

\* Mutant: nothing is removed.
VgRemoveNothing ==
  /\ pc = "create"
  /\ Script[step] = "vgremove"
  /\ NextCommand
  /\ Sound
  /\ UNCHANGED state

\* Any group named "inaugurator" is removed, on whichever disk it is. Without
\* one, or with several, the command may fail, which is ignored.
VgRemove ==
  /\ pc = "create"
  /\ Script[step] = "vgremove"
  /\ \/ Target /\ disk' = NoVolumes(disk) /\ UNCHANGED pvs /\ Sound
     \/ \E o \in pvs : pvs' = pvs \ {o} /\ UNCHANGED disk /\ Sound
     \/ /\ Cardinality(pvs) # (IF Target THEN 0 ELSE 1)
        /\ UNCHANGED <<disk, pvs>> /\ Sound
     \/ UNCHANGED <<disk, pvs>> /\ Fault
  /\ NextCommand
  /\ UNCHANGED <<args, diskMB, boots>>

Create == RunCommand \/ CannotRunCommand \/ VgRemove

Recheck ==
  /\ pc = "recheck"
  /\ \E fits \in BOOLEAN :
       /\ Finds(fits)
       /\ retries' = IF fits THEN retries ELSE retries + 1
       /\ pc' = IF fits THEN AfterCheck ELSE IF retries = 4 THEN "raised" ELSE "recheck"
  /\ UNCHANGED <<state, step>>

-------------------------------------------------------------------------------
(* _wipeOldInstallationsIfAllowed *)

\* The physical volume and then the disk that contains it are cleared; that a
\* whole disk has no number at the end of its name fails an assertion.
WipeVG ==
  /\ pc = "wipeVGs"
  /\ \E o \in pvs :
       /\ pvs' = pvs \ {o}
       /\ GoTo(IF o \in WholeDisks THEN "raised" ELSE "wipeVGs")
  /\ Sound
  /\ UNCHANGED <<disk, boots>>

\* Mutant: without a label to wipe there is nothing else to do.
NoVGLeftEnds ==
  /\ pc = "wipeVGs"
  /\ pvs = {}
  /\ pc' = "accepted"
  /\ settled' = TRUE
  /\ UNCHANGED <<state, step, retries, faults>>

NoVGLeft ==
  /\ pc = "wipeVGs"
  /\ pvs = {}
  /\ GoTo("wipeBoots")
  /\ Sound
  /\ UNCHANGED <<disk, pvs, boots>>

WipeBoot ==
  /\ pc = "wipeBoots"
  /\ \E o \in boots : boots' = boots \ {o}
  /\ GoTo("wipeBoots")
  /\ Sound
  /\ UNCHANGED <<disk, pvs>>

NoBootLeft ==
  /\ pc = "wipeBoots"
  /\ boots = {}
  /\ GoTo("accepted")
  /\ Sound
  /\ UNCHANGED <<disk, pvs, boots>>

WipeOldInstallations == WipeVG \/ NoVGLeft \/ WipeBoot \/ NoBootLeft

-------------------------------------------------------------------------------
(* Failures and reboots *)

\* A command whose failure is not expected ends the ceremony.
CommandFails ==
  /\ \/ pc = "start" /\ args.clearDisk
     \/ pc = "create" /\ Script[step] # "vgremove"
     \/ pc \in {"activate", "wipeVGs", "wipeBoots"}
  /\ Fault
  /\ GoTo("raised")
  /\ UNCHANGED <<disk, pvs, boots>>

Over == pc \in {"accepted", "raised"}

Reboot ==
  /\ ~Over
  /\ Fault
  /\ GoTo("start")
  /\ UNCHANGED <<disk, pvs, boots>>

\* The next inauguration of this disk
Rerun ==
  /\ Over
  /\ GoTo("start")
  /\ Sound
  /\ UNCHANGED <<disk, pvs, boots>>

Verify == Start \/ Check \/ Activate \/ Create \/ Recheck \/ WipeOldInstallations

Next == Verify \/ CommandFails \/ Reboot \/ Rerun

Safety == Init /\ [][Next]_vars

\* The program runs on, and someone tries again.
Spec == Safety /\ WF_vars(Verify) /\ WF_vars(Rerun)

-------------------------------------------------------------------------------
(* Properties *)

Disks == [layout : Layouts \cup {"none"}, pv : Layouts \cup {"none"},
          flags : BOOLEAN, boot : BOOLEAN, efi : BOOLEAN, vg : BOOLEAN,
          swapMB : Nat, rootMB : Nat, rootFs : BOOLEAN]

\* The variables keep their types, and the check is repeated at most five times.
TypeOK ==
  /\ args \in Args /\ diskMB \in DiskSizes /\ disk \in Disks
  /\ pvs \subseteq Others /\ boots \subseteq Others \ WholeDisks
  /\ pc \in {"start", "check", "activate", "create", "recheck", "wipeVGs",
             "wipeBoots", "accepted", "raised"}
  /\ step \in 0..(Len(Script) + 1)
  /\ pc = "create" => step \in 1..Len(Script)
  /\ retries \in 0..5
  /\ settled \in BOOLEAN
  /\ faults \in 0..MaxFaults

\* Without the permission to wipe, the target device is written only to clear
\* it as asked, and no other device is.
WrittenOnlyIfAllowed ==
  [][/\ disk' # disk => args.wipe \/ (args.clearDisk /\ disk' = Cleared(disk))
     /\ <<pvs, boots>>' # <<pvs, boots>> => args.wipe]_vars

\* The root is not below the minimum the code names, and the disk has a gigabyte
\* for the swap beside such a root. Smaller ones are no part of the promise: a
\* root of 12 GB or less is laid out as asked, and what the script leaves is
\* refused for ever, for the check has the minimum and the script has not.
MinimumRootGB == 14
LargeEnough(a) == a.rootGB >= MinimumRootGB /\ diskMB >= 1024 * (MinimumRootGB + 1)

\* A disk that the script has laid out to its end, or the check has found in
\* order, is left alone by all that follows, the check after the script, the
\* search for leftovers and further inaugurations, as long as no command fails
\* and nobody asks for it to be cleared: the sizes the check accepts are those
\* the script chooses, by two formulas of their own.
SettledDiskKept ==
  [][settled /\ ~args.clearDisk /\ LargeEnough(args) => disk' = disk]_vars

\* Once the target is accepted, no other disk can be taken for it by the name
\* of the volume group or by the label of the boot partition.
OneInstallationLeft ==
  pc = "accepted" /\ args.wipe => pvs = {} /\ boots = {}

\* A disk with room for what is asked is accepted again and again, whatever it
\* held, wherever commands failed and the machine was rebooted, unless several
\* other disks carry the volume group.
Converges ==
  args.wipe /\ Creatable(args) /\ LargeEnough(args) /\ Cardinality(pvs) <= 1
    => []<>(pc = "accepted")

\* "Partition table already set up" (partitiontable.py:360), or set up now, in
\* _makeSureDiskIsMountable (ceremony.py:347): the root can be mounted.
AcceptedIsMountable == pc = "accepted" => disk.rootFs
===============================================================================
