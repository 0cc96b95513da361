----------------------------- MODULE Devices_proofs -----------------------------
(***************************************************************************)
(* Proofs about Devices, for any drives, in any order, and any number of   *)
(* retries: both searches implement Search, and what is installed from is  *)
(* not what is installed to.  The one rests on where each search stands,   *)
(* the other on the label that partitioning takes away.                    *)
(***************************************************************************)
EXTENDS Devices, SequenceTheorems, TLAPS

\* Before the target is looked for, while it is, and while the source is
Early == {"drivers", "candidates"}
AtTarget == {"target", "targetMdev"}
AtSource == {"modprobe", "source", "sourceMdev"}

\* Where the search for the target stands. Its looks are counted from the
\* choice of the candidate on.
TargetStands ==
  /\ pc \in Early => candidate = 0
  /\ pc = "drivers" \/ (pc = "candidates" /\ args.by # "label") => targetLooks = 0
  /\ pc \in {"candidates", "target"} => targetLooks < TargetRetries
  /\ pc \in AtTarget => candidate # 0
  /\ pc \in Early \cup AtTarget => target = Nothing
  /\ pc \in {"partition", "mount"} \cup AtSource => target # Nothing

\* Where the search for the source stands: at most as often at the top of its
\* loop as it may be, before the last look.
SourceStands ==
  /\ pc \in Early \cup AtTarget \cup AtSource \cup {"partition"} => source = Nothing
  /\ pc \in Early \cup AtTarget \cup {"partition", "modprobe"} => sourceLooks = 0
  /\ pc \in {"source", "sourceMdev"} => sourceLooks <= SourceRetries

Typed == TypeOK /\ TargetStands /\ SourceStands

\* The target has been partitioned, and a source with a label has not.
Apart ==
  /\ pc \in AtSource \cup {"mount"} => target \in layout
  /\ source # Nothing => target \in layout /\ (args.labelled => source \notin layout)
  /\ pc = "done" /\ args.from # "network" => target \in layout /\ source \notin layout

-------------------------------------------------------------------------------
(* Type correctness *)

LEMMA InitTyped == Init => Typed
  <1> SUFFICES ASSUME Init PROVE Typed
    OBVIOUS
  <1> USE BoundsAssumption
  <1>1. TypeOK
    BY DEF Init, TypeOK, SdDrives
  <1>2. TargetStands /\ SourceStands
    BY DEF Init, TargetStands, SourceStands, Early, AtTarget, AtSource
  <1> QED
    BY <1>1, <1>2 DEF Typed

\* The drives that are up are drives.
LEMMA UpTyped ==
  ASSUME TypeOK
  PROVE  /\ \A i \in DOMAIN sd : i \in Nat \ {0} /\ sd[i] \in SdDrives
         /\ \A i \in DOMAIN sr : sr[i] \in Cds
         /\ Up \subseteq Drives
  <1>1. \A i \in DOMAIN sd : i \in Nat \ {0} /\ sd[i] \in SdDrives
    BY DEF TypeOK
  <1>2. \A i \in DOMAIN sr : sr[i] \in Cds
    BY DEF TypeOK
  <1> QED
    BY <1>1, <1>2 DEF Up, Range, Drives

LEMMA ShownTyped ==
  ASSUME TypeOK
  PROVE  SourceShown \subseteq Drives
  <1>1. Range(sd) \subseteq Drives /\ \A i \in DOMAIN sr : sr[i] \in Drives
    BY UpTyped DEF Range, Drives
  <1>2. CASE args.from = "DOK"
    BY <1>1, <1>2 DEF SourceShown
  <1>3. CASE args.from = "CDROM"
    BY <1>1, <1>3, UpTyped DEF SourceShown
  <1>4. CASE args.from \notin {"DOK", "CDROM"}
    BY <1>4 DEF SourceShown
  <1> QED
    BY <1>2, <1>3, <1>4

LEMMA AppearTyped ==
  ASSUME Typed, NEW d \in Drives, Appear(d)
  PROVE  Typed'
  <1> USE DEF Typed, TypeOK
  <1>1. coming' \in [Drives -> {"never", "driver", "usb", "probed", "up"}]
    BY DEF Appear
  <1>2. sd' \in Seq(SdDrives) /\ sr' \in Seq(Cds)
    <2>1. CASE d \in Cds
      BY <2>1, AppendProperties DEF Appear
    <2>2. CASE d \notin Cds
      BY <2>2, AppendProperties DEF Appear, Drives
    <2> QED
      BY <2>1, <2>2
  <1>3. TypeOK'
    BY <1>1, <1>2 DEF Appear, targetVars, sourceVars
  <1>4. TargetStands' /\ SourceStands'
    BY DEF Appear, targetVars, sourceVars, TargetStands, SourceStands
  <1> QED
    BY <1>3, <1>4

LEMMA TargetTyped ==
  ASSUME Typed, FindingTarget
  PROVE  Typed'
  <1> USE DEF Typed, TypeOK, TargetStands, SourceStands, Early, AtTarget, AtSource, Ended
  <1> USE BoundsAssumption, DrivesAssumption
  <1>1. CASE LoadAllDrivers
    <2>1. coming' \in [Drives -> {"never", "driver", "usb", "probed", "up"}]
      BY <1>1 DEF LoadAllDrivers, Loaded
    <2> QED
      BY <1>1, <2>1 DEF LoadAllDrivers, targetVars, sourceVars
  <1>2. CASE SetTargetDevice
    <2> USE DEF SetTargetDevice, kernel, sourceVars
    <2>1. CASE ByName
      BY <1>2, <2>1 DEF ByName, Candidate
    <2>2. CASE ByType
      <3>1. \A i \in OfType : i \in Nat \ {0}
        BY UpTyped DEF OfType
      <3> QED
        BY <1>2, <2>2, <3>1 DEF ByType, Candidate
    <2>3. CASE ByLabel
      <3>1. nodes' \subseteq Drives /\ faults' \in 0 .. MaxFaults
        BY <2>3, UpTyped DEF ByLabel, Mdev, Fault
      <3>2. \A i \in WithLabel : i \in Nat \ {0}
        BY UpTyped DEF WithLabel
      <3> QED
        BY <1>2, <2>3, <3>1, <3>2 DEF ByLabel, Candidate
    <2> QED
      BY <1>2, <2>1, <2>2, <2>3
  <1>3. CASE FindTarget
    <2>1. Exists(candidate) => sd[candidate] \in SdDrives
      BY UpTyped DEF Exists
    <2> QED
      BY <1>3, <2>1 DEF FindTarget, kernel, sourceVars, SdDrives
  <1>4. CASE TargetMdev
    <2>1. nodes' \subseteq Drives /\ faults' \in 0 .. MaxFaults
      BY <1>4, UpTyped DEF TargetMdev, Mdev, Fault
    <2> QED
      BY <1>4, <2>1 DEF TargetMdev, kernel, targetVars, sourceVars
  <1>5. CASE Partition
    BY <1>5 DEF Partition, kernel, targetVars, sourceVars
  <1> QED
    BY <1>1, <1>2, <1>3, <1>4, <1>5 DEF FindingTarget

LEMMA SourceTyped ==
  ASSUME Typed, FindingSource
  PROVE  Typed'
  <1> USE DEF Typed, TypeOK, TargetStands, SourceStands, Early, AtTarget, AtSource, Ended
  <1> USE BoundsAssumption, DrivesAssumption
  <1>1. CASE Modprobe
    <2>1. coming' \in [Drives -> {"never", "driver", "usb", "probed", "up"}]
      BY <1>1 DEF Modprobe, Loaded
    <2> QED
      BY <1>1, <2>1 DEF Modprobe, targetVars, sourceVars
  <1>2. CASE FindSource
    <2>1. source' \in Drives \cup {Nothing} /\ faults' \in 0 .. MaxFaults
      BY <1>2, ShownTyped DEF FindSource, Fault
    <2> QED
      BY <1>2, <2>1 DEF FindSource, kernel, targetVars
  <1>3. CASE SourceMdev
    <2>1. nodes' \subseteq Drives
      BY <1>3, UpTyped DEF SourceMdev, Mdev
    <2> QED
      BY <1>3, <2>1 DEF SourceMdev, kernel, targetVars, sourceVars
  <1>4. CASE MountSource
    BY <1>4 DEF MountSource, kernel, targetVars, sourceVars
  <1> QED
    BY <1>1, <1>2, <1>3, <1>4 DEF FindingSource

Failing == CommandFails({"drivers", "candidates", "modprobe", "sourceMdev", "mount"})

LEMMA NextTyped == Typed /\ [Next]_vars => Typed'
  <1> SUFFICES ASSUME Typed, [Next]_vars PROVE Typed'
    OBVIOUS
  <1>1. CASE Failing
    BY <1>1, BoundsAssumption DEF Failing, CommandFails, Fault, kernel, targetVars, sourceVars, Typed, TypeOK,
                TargetStands, SourceStands, Early, AtTarget, AtSource, Ended
  <1>2. CASE UNCHANGED vars
    BY <1>2 DEF vars, kernel, targetVars, sourceVars, Typed, TypeOK, TargetStands, SourceStands
  <1> QED
    BY <1>1, <1>2, AppearTyped, TargetTyped, SourceTyped DEF Next, Step, Stopped, Failing

LEMMA TypedInductive == Spec => []Typed
  <1> QED
    BY InitTyped, NextTyped, PTL DEF Spec

\* The drives, their names and nodes, and both searches keep their types.
THEOREM TypeCorrect == Spec => []TypeOK
  <1>1. Typed => TypeOK
    BY DEF Typed
  <1> QED
    BY <1>1, TypedInductive, PTL

-------------------------------------------------------------------------------
(* What is installed from, and to *)

LEMMA InitApart == Init => Apart
  BY DEF Init, Apart, AtSource

LEMMA TargetApart ==
  ASSUME Typed, Apart, FindingTarget
  PROVE  Apart'
  <1> USE DEF Typed, TargetStands, SourceStands, Apart, Early, AtTarget, AtSource
  <1>1. CASE LoadAllDrivers
    BY <1>1 DEF LoadAllDrivers, targetVars, sourceVars
  <1>2. CASE SetTargetDevice
    BY <1>2 DEF SetTargetDevice, ByName, ByType, ByLabel, Candidate, sourceVars
  <1>3. CASE FindTarget
    BY <1>3 DEF FindTarget, sourceVars
  <1>4. CASE TargetMdev
    BY <1>4 DEF TargetMdev, targetVars, sourceVars
  <1>5. CASE Partition
    BY <1>5 DEF Partition, targetVars, sourceVars
  <1> QED
    BY <1>1, <1>2, <1>3, <1>4, <1>5 DEF FindingTarget

LEMMA SourceApart ==
  ASSUME Typed, Apart, FindingSource
  PROVE  Apart'
  <1> USE DEF Typed, TargetStands, SourceStands, Apart, Early, AtTarget, AtSource
  <1>1. CASE Modprobe
    BY <1>1 DEF Modprobe, targetVars, sourceVars
  <1>2. CASE FindSource
    <2>1. args.labelled /\ source' \in SourceShown => source' \notin layout
      BY DEF SourceShown, HasLabel
    <2> QED
      BY <1>2, <2>1 DEF FindSource, targetVars
  <1>3. CASE SourceMdev
    BY <1>3 DEF SourceMdev, targetVars, sourceVars
  <1>4. CASE MountSource
    BY <1>4 DEF MountSource, HasLabel, targetVars, sourceVars
  <1> QED
    BY <1>1, <1>2, <1>3, <1>4 DEF FindingSource

LEMMA NextApart == Typed /\ Apart /\ [Next]_vars => Apart'
  <1> SUFFICES ASSUME Typed, Apart, [Next]_vars PROVE Apart'
    OBVIOUS
  <1> USE DEF Apart, AtSource, targetVars, sourceVars
  <1>1. CASE Failing
    BY <1>1 DEF Failing, CommandFails
  <1>2. CASE \E d \in Drives : Appear(d)
    BY <1>2 DEF Appear
  <1>3. CASE UNCHANGED vars
    BY <1>3 DEF vars
  <1> QED
    BY <1>1, <1>2, <1>3, TargetApart, SourceApart DEF Next, Step, Stopped, Failing

\* What is installed from is not the disk that is installed to, and a medium
\* that is told by its label is never the target, which partitioning has taken
\* its label from.
THEOREM InstalledApart == Spec => []InstalledFromAnotherDrive
  <1>1. Typed /\ Apart => InstalledFromAnotherDrive
    BY DEF Typed, Apart, InstalledFromAnotherDrive
  <1> QED
    BY <1>1, TypedInductive, InitApart, NextApart, PTL DEF Spec

-------------------------------------------------------------------------------
(* The searches *)

TargetShown == {sd[i] : i \in {j \in DOMAIN sd : j = candidate /\ sd[j] \in nodes}}

LEMMA TargetStep ==
  ASSUME Typed, [Next]_vars
  PROVE  [TargetSearch!Next]_(TargetSearch!own)
  <1> USE DEF Typed, TargetStands, Early, AtTarget, AtSource
  <1>1. CASE FindTarget
    <2> USE DEF FindTarget, kernel, sourceVars
    <2>1. TargetSearch!Look
      BY <1>1 DEF TargetSearch!Look, TargetSearch!Searching
    <2>2. CASE Exists(candidate)
      <3>1. target' \in TargetShown
        BY <1>1, <2>2 DEF Exists, TargetShown
      <3> QED
        BY <1>1, <2>1, <2>2, <3>1
        DEF TargetSearch!Next, TargetSearch!Hit, TargetShown
    <2>3. CASE ~Exists(candidate)
      <3>1. TargetShown = {}
        BY <2>3 DEF Exists, TargetShown
      <3> QED
        BY <1>1, <2>1, <2>3, <3>1
        DEF TargetSearch!Next, TargetSearch!Miss, TargetShown
    <2> QED
      BY <2>2, <2>3
  <1>2. CASE TargetMdev
    <2> USE DEF TargetMdev, kernel, targetVars, sourceVars
    <2>1. CASE targetLooks < TargetRetries
      BY <1>2, <2>1 DEF TargetSearch!own
    <2>2. CASE ~(targetLooks < TargetRetries)
      <3>1. targetLooks = TargetRetries
        BY <2>2, BoundsAssumption DEF TypeOK
      <3> QED
        BY <1>2, <2>2, <3>1
        DEF TargetSearch!Next, TargetSearch!GiveUp, TargetSearch!Searching
    <2> QED
      BY <2>1, <2>2
  <1>3. CASE SetTargetDevice
    BY <1>3, UpTyped DEF SetTargetDevice, ByName, ByType, OfType, ByLabel, WithLabel,
                Candidate, TargetSearch!own
  <1>4. CASE LoadAllDrivers \/ Partition \/ FindingSource
    BY <1>4 DEF LoadAllDrivers, Partition, FindingSource, Modprobe, FindSource, SourceMdev,
                MountSource, targetVars, TargetSearch!own
  <1>5. CASE Failing \/ (\E d \in Drives : Appear(d)) \/ UNCHANGED vars
    BY <1>5 DEF Failing, CommandFails, Appear, vars, targetVars, TargetSearch!own
  <1> QED
    BY <1>1, <1>2, <1>3, <1>4, <1>5 DEF Next, Step, FindingTarget, Stopped, Failing

LEMMA SourceStep ==
  ASSUME Typed, [Next]_vars
  PROVE  [SourceSearch!Next]_(SourceSearch!own)
  <1> USE DEF Typed, SourceStands, Early, AtTarget, AtSource
  <1>1. CASE FindSource
    <2> USE DEF FindSource, kernel, targetVars
    <2>1. SourceSearch!Look
      BY <1>1, BoundsAssumption DEF TypeOK, SourceSearch!Look, SourceSearch!Searching
    <2>2. CASE source' \in SourceShown /\ pc' = "mount"
      BY <1>1, <2>1, <2>2 DEF SourceSearch!Next, SourceSearch!Hit
    <2>3. CASE /\ (SourceShown = {} /\ UNCHANGED faults) \/ (SourceShown # {} /\ Fault)
               /\ pc' = IF sourceLooks < SourceRetries THEN "sourceMdev" ELSE "noSource"
               /\ UNCHANGED source
      <3>1. SourceShown = {} \/ faults' # faults
        BY <2>3 DEF Fault, TypeOK
      <3>2. (pc' = "noSource") \in {FALSE, sourceLooks' = SourceRetries + 1}
        <4>1. CASE sourceLooks < SourceRetries
          BY <1>1, <2>3, <4>1
        <4>2. CASE ~(sourceLooks < SourceRetries)
          <5>1. sourceLooks = SourceRetries
            BY <1>1, <4>2, BoundsAssumption DEF TypeOK
          <5>2. pc' = "noSource"
            BY <2>3, <5>1, BoundsAssumption
          <5>3. sourceLooks' = SourceRetries + 1
            BY <1>1, <5>1
          <5> QED
            BY <5>2, <5>3, Zenon
        <4> QED
          BY <4>1, <4>2
      <3> QED
        BY <2>1, <2>3, <3>1, <3>2 DEF SourceSearch!Next, SourceSearch!Miss
    <2> QED
      BY <1>1, <2>2, <2>3
  <1>2. CASE FindingTarget
    BY <1>2 DEF FindingTarget, LoadAllDrivers, SetTargetDevice, ByName, ByType, ByLabel,
                Candidate, FindTarget, TargetMdev, Partition, sourceVars, SourceSearch!own
  <1>3. CASE Modprobe \/ SourceMdev \/ MountSource
    BY <1>3 DEF Modprobe, SourceMdev, MountSource, sourceVars, SourceSearch!own
  <1>4. CASE Failing \/ (\E d \in Drives : Appear(d)) \/ UNCHANGED vars
    BY <1>4 DEF Failing, CommandFails, Appear, vars, sourceVars, SourceSearch!own
  <1> QED
    BY <1>1, <1>2, <1>3, <1>4 DEF Next, Step, FindingSource, Stopped, Failing

\* Both searches implement Search: each is bounded, is given up only if every
\* look was in vain, and keeps what it found, which was there when it looked.
THEOREM Implementation == Spec => SearchesKeepTheirPromise
  <1>1. Init => TargetSearch!Init /\ SourceSearch!Init
    BY DEF Init, TargetSearch!Init, SourceSearch!Init
  <1>2. Typed /\ [Next]_vars => [TargetSearch!Next]_(TargetSearch!own)
    BY TargetStep
  <1>3. Typed /\ [Next]_vars => [SourceSearch!Next]_(SourceSearch!own)
    BY SourceStep
  <1> QED
    BY <1>1, <1>2, <1>3, TypedInductive, PTL
    DEF Spec, SearchesKeepTheirPromise, TargetSearch!Spec, SourceSearch!Spec
===============================================================================
