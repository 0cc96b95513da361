------------------------- MODULE PartitionTable_proofs -------------------------
(***************************************************************************)
(* Proofs about PartitionTable, for disks of any size, roots of any size,  *)
(* any other disks and any number of failures and reboots.  They rest on   *)
(* three facts that hold throughout: verify writes only on paths that      *)
(* asked for the permission to wipe, what the script has done so far is on *)
(* the disk, and a settled disk has what the check asks for.               *)
(***************************************************************************)
EXTENDS PartitionTable, SequenceTheorems, TLAPS

Typed == TypeOK /\ (pc = "recheck" => retries <= 4)

\* Where verify writes, it was allowed to.
Permitted ==
  pc \in {"create", "recheck", "wipeVGs", "wipeBoots"} => args.wipe

\* What the search for leftovers has wiped so far
Wiped ==
  args.wipe => /\ pc \in {"wipeBoots", "accepted"} => pvs = {}
               /\ pc = "accepted" => boots = {}

\* The command that is next, counted in the script with the EFI partition
Rank == IF args.layout = "GPT" \/ step <= 5 THEN step ELSE step + 1

\* What the script has done so far is on the disk.
Progress ==
  pc = "create" =>
    /\ Rank > 2 => disk.layout = args.layout
    /\ Rank > 3 => disk.flags
    /\ Rank > 5 => disk.boot
    /\ Rank > 6 /\ args.layout = "GPT" => disk.efi
    /\ Rank > 8 => disk.pv = args.layout
    /\ Rank > 9 => disk.vg /\ pvs = {}
    /\ Rank > 10 => disk.swapMB = 1024 * SwapGB(args)
    /\ Rank > 11 => disk.rootMB = RootMB(args)

\* No other disk can be taken for a settled one, past the script, and on a disk
\* that is large enough the check finds all that it asks for.
SettledFits ==
  settled =>
    /\ pc # "create" => pvs = {}
    /\ ~args.clearDisk /\ LargeEnough(args) => Fits /\ pvs = {} /\ pc # "create"

-------------------------------------------------------------------------------
(* The script and the sizes *)

Commands == {"clear", "table", "flags", "partprobe", "mkfsBoot", "mkfsEfi",
             "vgremove", "pvcreate", "vgcreate", "lvcreateSwap",
             "lvcreateRoot", "vgscan", "mkswap", "mkfsRoot"}

\* The lengths of concatenated sequences add up.
LEMMA LengthsAddUp ==
  ASSUME NEW S, NEW s1 \in Seq(S), NEW s2 \in Seq(S), NEW s3 \in Seq(S)
  PROVE  Len((s1 \o s2) \o s3) = Len(s1) + Len(s2) + Len(s3)
<1>1. s1 \o s2 \in Seq(S) /\ Len(s1 \o s2) = Len(s1) + Len(s2)
  BY ConcatProperties
<1>2. Len((s1 \o s2) \o s3) = Len(s1 \o s2) + Len(s3)
  BY <1>1, ConcatProperties
<1> QED
  BY <1>1, <1>2

\* The script is 14 commands with an EFI partition, 13 without.
LEMMA ScriptLength ==
  ASSUME args \in Args
  PROVE  Len(Script) \in {13, 14}
<1> DEFINE efi == IF args.layout = "GPT" THEN <<"mkfsEfi">> ELSE <<>>
           before == <<"clear", "table", "flags", "partprobe", "mkfsBoot">>
           after == <<"vgremove", "pvcreate", "vgcreate", "lvcreateSwap",
                     "lvcreateRoot", "vgscan", "mkswap", "mkfsRoot">>
<1>1. /\ before \in Seq(Commands) /\ Len(before) = 5
      /\ after \in Seq(Commands) /\ Len(after) = 8
  BY DEF Commands
<1>2. efi \in Seq(Commands) /\ Len(efi) \in {0, 1}
  <2>1. CASE args.layout = "GPT"
    <3>1. <<"mkfsEfi">> \in Seq(Commands) /\ Len(<<"mkfsEfi">>) = 1
      BY DEF Commands
    <3> QED
      BY <2>1, <3>1
  <2>2. CASE args.layout # "GPT"
    <3>1. efi = <<>>
      BY <2>2
    <3> QED
      BY <3>1, EmptySeq
  <2> QED
    BY <2>1, <2>2
<1>3. Script = (before \o efi) \o after
  BY DEF Script
<1> HIDE DEF efi, before, after
<1>4. \A a, b, c \in Seq(Commands) :
        Len((a \o b) \o c) = Len(a) + Len(b) + Len(c)
  BY LengthsAddUp
<1>5. Len((before \o efi) \o after) = Len(before) + Len(efi) + Len(after)
  BY <1>1, <1>2, <1>4, Zenon
<1>6. \A n \in {0, 1} : 5 + n + 8 \in {13, 14}
  OBVIOUS
<1> QED
  BY <1>1, <1>2, <1>3, <1>5, <1>6, Zenon

\* The sizes are integers, and that of the swap is positive.
LEMMA Sizes ==
  ASSUME diskMB \in DiskSizes, NEW a \in Args
  PROVE  /\ SwapGB(a) \in Nat
         /\ PvMB(a) \in Int
         /\ RootMB(a) \in Int
<1>1. diskMB \in Nat /\ a.rootGB \in Nat
  BY SizesAssumption DEF Args
<1>2. SwapGB(a) \in Nat
  BY DEF SwapGB
<1>3. PvMB(a) \in Int
  BY <1>1 DEF PvMB
<1> QED
  BY <1>1, <1>2, <1>3 DEF RootMB

\* The script with the EFI partition
Full == <<"clear", "table", "flags", "partprobe", "mkfsBoot", "mkfsEfi",
          "vgremove", "pvcreate", "vgcreate", "lvcreateSwap", "lvcreateRoot",
          "vgscan", "mkswap", "mkfsRoot">>

\* The elements of three sequences put together
LEMMA ElementsOfThree ==
  ASSUME NEW S, NEW s1 \in Seq(S), NEW s2 \in Seq(S), NEW s3 \in Seq(S),
         NEW i \in 1..(Len(s1) + Len(s2) + Len(s3))
  PROVE  /\ i <= Len(s1) => ((s1 \o s2) \o s3)[i] = s1[i]
         /\ i > Len(s1) /\ i <= Len(s1) + Len(s2)
              => ((s1 \o s2) \o s3)[i] = s2[i - Len(s1)]
         /\ i > Len(s1) + Len(s2)
              => ((s1 \o s2) \o s3)[i] = s3[i - (Len(s1) + Len(s2))]
<1>1. /\ s1 \o s2 \in Seq(S) /\ Len(s1 \o s2) = Len(s1) + Len(s2)
      /\ \A k \in 1..Len(s1) + Len(s2) :
           (s1 \o s2)[k] = IF k <= Len(s1) THEN s1[k] ELSE s2[k - Len(s1)]
  BY ConcatProperties
<1>2. \A k \in 1..Len(s1 \o s2) + Len(s3) :
        ((s1 \o s2) \o s3)[k] =
          IF k <= Len(s1 \o s2) THEN (s1 \o s2)[k] ELSE s3[k - Len(s1 \o s2)]
  BY <1>1, ConcatProperties
<1>3. Len(s1) \in Nat /\ Len(s2) \in Nat /\ Len(s3) \in Nat
  BY LenProperties
<1> QED
  BY <1>1, <1>2, <1>3

\* The script is the one with the EFI partition, or that without its command.
LEMMA ScriptIsFull ==
  ASSUME args \in Args, step \in 1..Len(Script)
  PROVE  /\ Rank \in 1..14
         /\ Script[step] = Full[Rank]
         /\ step = Len(Script) <=> Rank = 14
         /\ args.layout # "GPT" => Rank # 6
<1> DEFINE efi == IF args.layout = "GPT" THEN <<"mkfsEfi">> ELSE <<>>
           before == <<"clear", "table", "flags", "partprobe", "mkfsBoot">>
           after == <<"vgremove", "pvcreate", "vgcreate", "lvcreateSwap",
                     "lvcreateRoot", "vgscan", "mkswap", "mkfsRoot">>
<1>1. /\ before \in Seq(Commands) /\ Len(before) = 5
      /\ after \in Seq(Commands) /\ Len(after) = 8
  BY DEF Commands
<1>2. /\ efi \in Seq(Commands)
      /\ Len(efi) = IF args.layout = "GPT" THEN 1 ELSE 0
  <2>1. CASE args.layout = "GPT"
    <3>1. <<"mkfsEfi">> \in Seq(Commands) /\ Len(<<"mkfsEfi">>) = 1
      BY DEF Commands
    <3> QED
      BY <2>1, <3>1
  <2>2. CASE args.layout # "GPT"
    <3>1. efi = <<>>
      BY <2>2
    <3> QED
      BY <2>2, <3>1, EmptySeq
  <2> QED
    BY <2>1, <2>2
<1>3. Script = (before \o efi) \o after
  BY DEF Script
<1>4. /\ \A i \in 1..5 : before[i] = Full[i]
      /\ \A i \in 1..8 : after[i] = Full[i + 6]
      /\ args.layout = "GPT" => efi[1] = Full[6]
  <2>1. \A i \in 1..5 : before[i] = Full[i]
    <3>1. /\ before[1] = Full[1] /\ before[2] = Full[2] /\ before[3] = Full[3]
          /\ before[4] = Full[4] /\ before[5] = Full[5]
      BY DEF Full
    <3> HIDE DEF before
    <3> QED
      BY <3>1
  <2>2. \A i \in 1..8 : after[i] = Full[i + 6]
    <3>1. /\ after[1] = Full[7] /\ after[2] = Full[8] /\ after[3] = Full[9]
          /\ after[4] = Full[10] /\ after[5] = Full[11] /\ after[6] = Full[12]
          /\ after[7] = Full[13] /\ after[8] = Full[14]
      BY DEF Full
    <3> HIDE DEF after
    <3> SUFFICES ASSUME NEW i \in 1..8 PROVE after[i] = Full[i + 6]
      OBVIOUS
    <3>2. i \in {1, 2, 3, 4, 5, 6, 7, 8}
      OBVIOUS
    <3>3. /\ 1 + 6 = 7 /\ 2 + 6 = 8 /\ 3 + 6 = 9 /\ 4 + 6 = 10
          /\ 5 + 6 = 11 /\ 6 + 6 = 12 /\ 7 + 6 = 13 /\ 8 + 6 = 14
      OBVIOUS
    <3> HIDE DEF Full
    <3> QED
      BY <3>1, <3>2, <3>3, Zenon
  <2>3. args.layout = "GPT" => efi[1] = Full[6]
    BY DEF Full
  <2> QED
    BY <2>1, <2>2, <2>3
<1> HIDE DEF efi, before, after
<1>5. \A a, b, c \in Seq(Commands) :
        Len((a \o b) \o c) = Len(a) + Len(b) + Len(c)
  BY LengthsAddUp
<1>6. Len(Script) = 5 + Len(efi) + 8
  <2>1. Len((before \o efi) \o after) = Len(before) + Len(efi) + Len(after)
    BY <1>1, <1>2, <1>5, Zenon
  <2> QED
    BY <1>1, <1>3, <2>1, Zenon
<1>7. step \in 1..(5 + Len(efi) + 8)
  BY <1>6
<1>8. /\ step <= 5 => Script[step] = before[step]
      /\ step > 5 /\ step <= 5 + Len(efi) => Script[step] = efi[step - 5]
      /\ step > 5 + Len(efi) => Script[step] = after[step - (5 + Len(efi))]
  <2>1. \A a, b, c \in Seq(Commands) :
          \A i \in 1..(Len(a) + Len(b) + Len(c)) :
            /\ i <= Len(a) => ((a \o b) \o c)[i] = a[i]
            /\ i > Len(a) /\ i <= Len(a) + Len(b)
                 => ((a \o b) \o c)[i] = b[i - Len(a)]
            /\ i > Len(a) + Len(b)
                 => ((a \o b) \o c)[i] = c[i - (Len(a) + Len(b))]
    BY ElementsOfThree
  <2>2. step \in 1..(Len(before) + Len(efi) + Len(after))
    BY <1>1, <1>7
  <2>3. /\ step <= Len(before) => Script[step] = before[step]
        /\ step > Len(before) /\ step <= Len(before) + Len(efi)
             => Script[step] = efi[step - Len(before)]
        /\ step > Len(before) + Len(efi)
             => Script[step] = after[step - (Len(before) + Len(efi))]
    BY <1>1, <1>2, <1>3, <2>1, <2>2, Zenon
  <2> QED
    BY <1>1, <2>3
<1>9. CASE args.layout = "GPT"
  <2>1. Len(efi) = 1 /\ Rank = step /\ step \in 1..14 /\ Len(Script) = 14
    BY <1>2, <1>6, <1>7, <1>9 DEF Rank
  <2>2. CASE step <= 5
    BY <1>4, <1>8, <2>1, <2>2
  <2>3. CASE step = 6
    BY <1>4, <1>8, <1>9, <2>1, <2>3
  <2>4. CASE step > 6
    <3>1. Script[step] = after[step - 6] /\ step - 6 \in 1..8
      BY <1>8, <2>1, <2>4
    <3>2. after[step - 6] = Full[(step - 6) + 6]
      BY <1>4, <3>1
    <3> QED
      BY <2>1, <3>1, <3>2, <1>9
  <2> QED
    BY <1>9, <2>1, <2>2, <2>3, <2>4
<1>10. CASE args.layout # "GPT"
  <2>1. Len(efi) = 0 /\ step \in 1..13 /\ Len(Script) = 13
    BY <1>2, <1>6, <1>7, <1>10
  <2>2. CASE step <= 5
    BY <1>4, <1>8, <1>10, <2>1, <2>2 DEF Rank
  <2>3. CASE step > 5
    <3>1. Script[step] = after[step - 5] /\ step - 5 \in 1..8 /\ Rank = step + 1
      BY <1>8, <1>10, <2>1, <2>3 DEF Rank
    <3>2. after[step - 5] = Full[(step - 5) + 6]
      BY <1>4, <3>1
    <3> QED
      BY <1>10, <2>1, <2>3, <3>1, <3>2
  <2> QED
    BY <1>10, <2>1, <2>2, <2>3
<1> QED
  BY <1>9, <1>10

\* On a disk that is large enough, the sizes the script chooses are within the
\* bounds of the check.
LEMMA ChosenSizesFit ==
  ASSUME diskMB \in DiskSizes, args \in Args, LargeEnough(args)
  PROVE  VolumesFit(args, 1024 * SwapGB(args), RootMB(args))
<1> DEFINE g == args.rootGB
           d == diskMB \div 1024
<1>1. /\ diskMB \in Nat /\ g \in Nat /\ g >= 14 /\ diskMB >= 15360
      /\ args.layout \in {"GPT", "MBR"}
  <2>1. diskMB \in Nat /\ g \in Nat /\ args.layout \in {"GPT", "MBR"}
    BY SizesAssumption DEF Args, Layouts
  <2>2. g >= 14 /\ diskMB >= 1024 * (14 + 1)
    BY DEF LargeEnough, MinimumRootGB
  <2> QED
    BY <2>1, <2>2
<1>2. d \in Nat /\ 1024 * d <= diskMB /\ diskMB < 1024 * d + 1024 /\ d >= 15
  BY <1>1
<1>3. PvMB(args) \in Int /\ PvMB(args) >= diskMB - 1032 /\ PvMB(args) <= diskMB - 521
  <2>1. \A others \in {520, 1028} :
          LET pv == 4 * ((diskMB - others - 1) \div 4)
          IN  pv \in Int /\ pv >= diskMB - 1032 /\ pv <= diskMB - 521
    BY <1>1
  <2>2. \E others \in {520, 1028} : PvMB(args) = 4 * ((diskMB - others - 1) \div 4)
    <3>1. CASE args.layout = "GPT"
      BY <3>1 DEF PvMB
    <3>2. CASE args.layout # "GPT"
      BY <3>2 DEF PvMB
    <3> QED
      BY <3>1, <3>2
  <2> QED
    BY <2>1, <2>2
<1>4. \/ d >= g + 8 /\ SwapGB(args) = 8
      \/ d < g + 8 /\ SwapGB(args) = 1
  BY <1>1, <1>2 DEF SwapGB, BigDisk
<1>5. /\ d > g + SwapGB(args) => RootMB(args) = 1024 * g
      /\ ~(d > g + SwapGB(args)) => RootMB(args) = PvMB(args) - 1024 * SwapGB(args)
  BY DEF RootMB
<1> HIDE DEF g, d
<1>6. RootMB(args) \in Int /\ RootMB(args) * 10 > 14 * 1024 * 9
  BY <1>1, <1>2, <1>3, <1>4, <1>5
<1>7. RootMB(args) * 10 < g * 1024 * 12
  BY <1>1, <1>2, <1>3, <1>4, <1>5
<1>8. 1024 * SwapGB(args) * 10 > SwapGB(args) * 1024 * 9
  BY <1>4
<1> QED
  BY <1>6, <1>7, <1>8 DEF VolumesFit, g

\* What the script leaves at its end
WholeLayout ==
  /\ disk.layout = args.layout /\ disk.flags /\ disk.boot
  /\ args.layout = "GPT" => disk.efi
  /\ disk.pv = args.layout /\ disk.vg
  /\ disk.swapMB = 1024 * SwapGB(args) /\ disk.rootMB = RootMB(args)

\* A whole layout on a disk that is large enough passes the check.
LEMMA WholeLayoutFits ==
  ASSUME diskMB \in DiskSizes, args \in Args, LargeEnough(args)
  PROVE  /\ WholeLayout => Fits
         /\ WholeLayout' /\ args' = args /\ diskMB' = diskMB => Fits'
<1>1. VolumesFit(args, 1024 * SwapGB(args), RootMB(args))
  BY ChosenSizesFit
<1>2. ASSUME WholeLayout
      PROVE  Fits
  <2>1. PartitionsFit
    BY <1>2 DEF WholeLayout, PartitionsFit
  <2>2. VolumesFit(args, disk.swapMB, disk.rootMB)
    BY <1>1, <1>2 DEF WholeLayout
  <2> QED
    BY <2>1, <2>2 DEF Fits
<1>3. ASSUME WholeLayout', args' = args, diskMB' = diskMB
      PROVE  Fits'
  <2>1. PartitionsFit'
    BY <1>3 DEF WholeLayout, PartitionsFit
  <2>2. VolumesFit(args, disk.swapMB, disk.rootMB)'
    BY <1>1, <1>3 DEF WholeLayout, VolumesFit, SwapGB, BigDisk, RootMB, PvMB
  <2> QED
    BY <2>1, <2>2 DEF Fits
<1> QED
  BY <1>2, <1>3

\* A laid-out or blank disk is a disk.
LEMMA DiskTyped ==
  ASSUME diskMB \in DiskSizes, NEW a \in Args, Creatable(a)
  PROVE  LaidOut(a) \in Disks
<1>1. RootMB(a) \in Nat /\ 1024 * SwapGB(a) \in Nat
  BY Sizes DEF Creatable, HasRoomFor
<1> QED
  BY <1>1 DEF LaidOut, Disks, Args

\* Each command of the script leaves a disk.
LEMMA AfterTyped ==
  ASSUME args \in Args, diskMB \in DiskSizes, disk \in Disks,
         NEW command, NEW d \in After(command)
  PROVE  d \in Disks
<1>1. SwapGB(args) \in Nat /\ RootMB(args) \in Int /\ PvMB(args) \in Int
  BY Sizes
<1>2. args.layout \in Layouts
  BY DEF Args
<1>3. CASE command = "clear"
  <2>1. d = Cleared(disk)
    BY <1>3 DEF After
  <2> QED
    BY <2>1 DEF Cleared, Disks
<1>4. CASE command \in {"table", "flags", "mkfsBoot", "mkfsEfi", "mkfsRoot"}
  <2>1. \/ d = [disk EXCEPT !.layout = args.layout]
        \/ d = [disk EXCEPT !.flags = TRUE]
        \/ d = [disk EXCEPT !.boot = TRUE]
        \/ d = [disk EXCEPT !.efi = TRUE]
        \/ d = [disk EXCEPT !.rootFs = TRUE]
    BY <1>4 DEF After
  <2> QED
    BY <1>2, <2>1 DEF Disks
<1>5. CASE command = "pvcreate"
  <2>1. d = [NoVolumes(disk) EXCEPT !.pv = args.layout]
    BY <1>5 DEF After
  <2> QED
    BY <1>2, <2>1 DEF NoVolumes, Disks
<1>6. CASE command = "vgcreate"
  <2>1. d = [disk EXCEPT !.vg = TRUE]
    BY <1>6 DEF After
  <2> QED
    BY <2>1 DEF Disks
<1>7. CASE command = "lvcreateSwap"
  <2>1. 1024 * SwapGB(args) \in Nat
    BY <1>1
  <2>2. d = [disk EXCEPT !.swapMB = 1024 * SwapGB(args)]
    BY <1>7 DEF After
  <2> QED
    BY <2>1, <2>2 DEF Disks
<1>8. CASE command = "lvcreateRoot"
  <2>1. PICK fs \in {FALSE, disk.rootFs} :
          /\ d = [disk EXCEPT !.rootMB = RootMB(args), !.rootFs = fs]
          /\ HasRoomFor(args, d.rootMB, d.swapMB)
    BY <1>8 DEF After
  <2>2. d.rootMB = RootMB(args) /\ fs \in BOOLEAN
    BY <2>1 DEF Disks
  <2>3. RootMB(args) \in Nat
    BY <1>1, <2>1, <2>2 DEF HasRoomFor
  <2> QED
    BY <2>1, <2>2, <2>3 DEF Disks
<1>9. CASE command \notin {"clear", "table", "flags", "mkfsBoot", "mkfsEfi",
                           "mkfsRoot", "pvcreate", "vgcreate", "lvcreateSwap",
                           "lvcreateRoot"}
  BY <1>9 DEF After
<1> QED
  BY <1>3, <1>4, <1>5, <1>6, <1>7, <1>8, <1>9

-------------------------------------------------------------------------------
(* Types *)

\* Every variable keeps its type, and the check is repeated at most five times.
LEMMA InitTyped == Init => Typed
<1> SUFFICES ASSUME Init PROVE Typed
  OBVIOUS
<1>1. disk \in Disks
  <2>1. CASE disk = Blank
    BY <2>1 DEF Blank, Disks
  <2>2. CASE \E a \in Args : Creatable(a) /\ disk = LaidOut(a)
    BY <2>2, DiskTyped DEF Init
  <2> QED
    BY <2>1, <2>2 DEF Init
<1>2. args \in Args /\ 0 \in 0..(Len(Script) + 1)
  BY ScriptLength DEF Init
<1>3. settled \in BOOLEAN
  BY DEF Init
<1> QED
  BY <1>1, <1>2, <1>3, FaultsAssumption DEF Init, Typed, TypeOK

\* What a step makes of the failures and the settled disk
LEMMA FaultTyped ==
  ASSUME Typed, Sound \/ Fault \/ (settled' \in BOOLEAN /\ UNCHANGED faults)
  PROVE  settled' \in BOOLEAN /\ faults' \in 0..MaxFaults
<1>1. settled \in BOOLEAN /\ faults \in 0..MaxFaults
  BY DEF Typed, TypeOK
<1>2. settled' \in BOOLEAN
  BY <1>1, Zenon DEF Sound, Fault
<1>3. faults' \in 0..MaxFaults
  BY <1>1, FaultsAssumption DEF Sound, Fault
<1> QED
  BY <1>2, <1>3

\* A check that goes well may settle the disk.
LEMMA FindsTyped ==
  ASSUME Typed, NEW fits \in BOOLEAN, Finds(fits)
  PROVE  settled' \in BOOLEAN /\ faults' \in 0..MaxFaults
<1>1. settled \in BOOLEAN
  BY DEF Typed, TypeOK
<1>2. Fault \/ (settled' \in BOOLEAN /\ UNCHANGED faults)
  BY <1>1, Zenon DEF Finds
<1> QED
  BY <1>2, FaultTyped

LEMMA StepTyped == Typed /\ [Next]_vars => Typed'
<1> SUFFICES ASSUME Typed, [Next]_vars PROVE Typed'
  OBVIOUS
<1>1. /\ args \in Args /\ diskMB \in DiskSizes /\ disk \in Disks
      /\ pvs \subseteq Others /\ boots \subseteq Others \ WholeDisks
      /\ step \in 0..(Len(Script) + 1) /\ retries \in 0..5
      /\ settled \in BOOLEAN /\ faults \in 0..MaxFaults
  BY DEF Typed, TypeOK
<1>2. Len(Script) \in {13, 14}
  BY <1>1, ScriptLength
<1>3. args' = args /\ diskMB' = diskMB
  BY DEF Next, Verify, Start, Check, Activate, Create, RunCommand,
         CannotRunCommand, VgRemove, Recheck, WipeOldInstallations, WipeVG,
         NoVGLeft, WipeBoot, NoBootLeft, CommandFails, Reboot, Rerun, GoTo,
         state, vars
<1>4. Script' = Script
  BY <1>3 DEF Script
<1>5. Cleared(disk) \in Disks /\ NoVolumes(disk) \in Disks
  BY <1>1 DEF Cleared, NoVolumes, Disks
\* All steps but those of the script and the checks only move on.
<1>6. ASSUME GoTo(pc'), disk' \in Disks, pvs' \subseteq pvs, boots' \subseteq boots,
             settled' \in BOOLEAN, faults' \in 0..MaxFaults,
             pc' \in {"start", "check", "wipeVGs", "wipeBoots", "accepted", "raised"}
      PROVE  Typed'
  BY <1>1, <1>4, <1>6 DEF Typed, TypeOK, GoTo
<1>7. CASE Start
  BY <1>1, <1>5, <1>6, <1>7 DEF Start, Sound, GoTo
<1>8. CASE Check
  <2>1. settled' \in BOOLEAN /\ faults' \in 0..MaxFaults
    BY <1>8, FindsTyped DEF Check
  <2>2. pc' \in {"activate", "create", "raised"} /\ step' = 1
    BY <1>8 DEF Check
  <2> QED
    <3>1. step' \in 0..(Len(Script) + 1) /\ step' \in 1..Len(Script)
      <4>1. \A n \in {13, 14} : 1 \in 0..(n + 1) /\ 1 \in 1..n
        OBVIOUS
      <4> QED
        BY <1>2, <2>2, <4>1, Zenon
    <3>2. UNCHANGED <<args, diskMB, disk, pvs, boots, retries>>
      BY <1>8 DEF Check, state
    <3> QED
      BY <1>1, <1>4, <2>1, <2>2, <3>1, <3>2 DEF Typed, TypeOK
<1>9. CASE Activate
  BY <1>1, <1>6, <1>9 DEF Activate, Sound, GoTo, AfterCheck
<1>10. CASE RunCommand \/ VgRemove
  <2>1. settled' \in BOOLEAN /\ faults' \in 0..MaxFaults
    <3>1. CASE RunCommand
      <4>1. settled' \in BOOLEAN /\ UNCHANGED faults
        BY <3>1 DEF RunCommand
      <4> QED
        BY <4>1, FaultTyped
    <3>2. CASE VgRemove
      BY <3>2, FaultTyped DEF VgRemove
    <3> QED
      BY <1>10, <3>1, <3>2
  <2>2. disk' \in Disks
    BY <1>1, <1>5, <1>10, AfterTyped DEF RunCommand, VgRemove
  <2>3. pvs' \subseteq Others /\ boots' = boots
    BY <1>1, <1>10 DEF RunCommand, VgRemove
  <2>4. step \in 1..Len(Script) /\ NextCommand
    BY <1>10 DEF RunCommand, VgRemove, Typed, TypeOK
  <2>5. /\ step' \in 0..(Len(Script) + 1) /\ retries' = 0
        /\ pc' \in {"recheck", "create"}
        /\ pc' = "create" => step' \in 1..Len(Script)
    BY <1>2, <2>4 DEF NextCommand
  <2> QED
    BY <1>1, <1>3, <1>4, <2>1, <2>2, <2>3, <2>5 DEF Typed, TypeOK
<1>11. CASE CannotRunCommand
  BY <1>1, <1>6, <1>11 DEF CannotRunCommand, Sound, GoTo
<1>12. CASE Recheck
  <2>1. settled' \in BOOLEAN /\ faults' \in 0..MaxFaults
    BY <1>12, FindsTyped DEF Recheck
  <2>2. retries \in 0..4
    BY <1>1, <1>12 DEF Recheck, Typed
  <2>3. /\ pc' \in {"wipeVGs", "accepted", "raised", "recheck"}
        /\ retries' \in 0..5
        /\ pc' = "recheck" => retries' <= 4
    BY <1>12, <2>2 DEF Recheck, AfterCheck
  <2> QED
    BY <1>1, <1>4, <1>12, <2>1, <2>3 DEF Recheck, Typed, TypeOK, state
<1>13. CASE WipeOldInstallations
  BY <1>1, <1>6, <1>13
     DEF WipeOldInstallations, WipeVG, NoVGLeft, WipeBoot, NoBootLeft, Sound, GoTo
<1>14. CASE CommandFails \/ Reboot
  BY <1>1, <1>6, <1>14, FaultTyped DEF CommandFails, Reboot, GoTo
<1>15. CASE Rerun
  BY <1>1, <1>6, <1>15 DEF Rerun, Sound, GoTo
<1>16. CASE UNCHANGED vars
  BY <1>1, <1>4, <1>16 DEF vars, state, Typed, TypeOK
<1> QED
  BY <1>7, <1>8, <1>9, <1>10, <1>11, <1>12, <1>13, <1>14, <1>15, <1>16
     DEF Next, Verify, Create

\* The disk, the arguments and the state of verify keep their types, and the
\* check that follows the script is repeated at most five times, for any sizes,
\* any other disks and any number of failures.
THEOREM TypeCorrect == Safety => []TypeOK
<1>1. Typed => TypeOK
  BY DEF Typed
<1> QED
  BY <1>1, InitTyped, StepTyped, PTL DEF Safety

-------------------------------------------------------------------------------
(* Nothing is written unasked *)

\* The arguments and the size of the disk are constants of a behaviour.
LEMMA ArgsKept == [Next]_vars => args' = args /\ diskMB' = diskMB
BY DEF Next, Verify, Start, Check, Activate, Create, RunCommand,
       CannotRunCommand, VgRemove, Recheck, WipeOldInstallations, WipeVG,
       NoVGLeft, WipeBoot, NoBootLeft, CommandFails, Reboot, Rerun, GoTo,
       state, vars

LEMMA InitPermitted == Init => Permitted
BY DEF Init, Permitted

LEMMA StepPermitted == Permitted /\ [Next]_vars => Permitted'
<1> SUFFICES ASSUME Permitted, [Next]_vars PROVE Permitted'
  OBVIOUS
<1>1. args' = args
  BY ArgsKept
<1>2. CASE Start \/ CommandFails \/ Reboot \/ Rerun \/ CannotRunCommand
  BY <1>2 DEF Start, CommandFails, Reboot, Rerun, CannotRunCommand, GoTo, Permitted
<1>3. CASE Check
  BY <1>1, <1>3 DEF Check, Permitted
<1>4. CASE Activate
  BY <1>1, <1>4 DEF Activate, GoTo, AfterCheck, Permitted
<1>5. CASE RunCommand \/ VgRemove
  BY <1>1, <1>5 DEF RunCommand, VgRemove, Permitted
<1>6. CASE Recheck
  BY <1>1, <1>6 DEF Recheck, Permitted
<1>7. CASE WipeOldInstallations
  BY <1>1, <1>7
     DEF WipeOldInstallations, WipeVG, NoVGLeft, WipeBoot, NoBootLeft, GoTo, Permitted
<1>8. CASE UNCHANGED vars
  BY <1>1, <1>8 DEF vars, Permitted
<1> QED
  BY <1>2, <1>3, <1>4, <1>5, <1>6, <1>7, <1>8 DEF Next, Verify, Create

\* Without the permission to wipe, no sequence of checks, scripts, failures and
\* reboots writes to the target device, except to clear it as asked, or to any
\* other device.
THEOREM NothingWrittenUnasked == Safety => WrittenOnlyIfAllowed
<1>1. ASSUME Permitted, [Next]_vars
      PROVE  [/\ disk' # disk => args.wipe \/ (args.clearDisk /\ disk' = Cleared(disk))
              /\ <<pvs, boots>>' # <<pvs, boots>> => args.wipe]_vars
  <2>1. CASE Start
    BY <2>1 DEF Start
  <2>2. CASE Check \/ Recheck
    BY <2>2 DEF Check, Recheck, state
  <2>3. CASE Activate \/ CommandFails \/ Reboot \/ Rerun \/ CannotRunCommand
    BY <2>3 DEF Activate, CommandFails, Reboot, Rerun, CannotRunCommand
  <2>4. CASE RunCommand \/ VgRemove
    BY <1>1, <2>4 DEF RunCommand, VgRemove, Permitted
  <2>5. CASE WipeOldInstallations
    BY <1>1, <2>5
       DEF WipeOldInstallations, WipeVG, NoVGLeft, WipeBoot, NoBootLeft, Permitted
  <2>6. CASE UNCHANGED vars
    BY <2>6
  <2> QED
    BY <1>1, <2>1, <2>2, <2>3, <2>4, <2>5, <2>6 DEF Next, Verify, Create
<1> QED
  BY <1>1, InitPermitted, StepPermitted, PTL DEF Safety, WrittenOnlyIfAllowed

-------------------------------------------------------------------------------
(* One installation is left *)

LEMMA InitWiped == Init => Wiped
BY DEF Init, Wiped

LEMMA StepWiped == Wiped /\ [Next]_vars => Wiped'
<1> SUFFICES ASSUME Wiped, [Next]_vars PROVE Wiped'
  OBVIOUS
<1>1. args' = args
  BY ArgsKept
<1>2. CASE Start \/ CommandFails \/ Reboot \/ Rerun \/ CannotRunCommand
  BY <1>2 DEF Start, CommandFails, Reboot, Rerun, CannotRunCommand, GoTo, Wiped
<1>3. CASE Check
  BY <1>3 DEF Check, Wiped
<1>4. CASE Activate
  BY <1>1, <1>4 DEF Activate, GoTo, AfterCheck, Wiped
<1>5. CASE RunCommand \/ VgRemove
  BY <1>5 DEF RunCommand, VgRemove, NextCommand, Wiped
<1>6. CASE Recheck
  BY <1>1, <1>6 DEF Recheck, AfterCheck, Wiped
<1>7. CASE WipeVG
  BY <1>7 DEF WipeVG, GoTo, Wiped
<1>8. CASE NoVGLeft
  BY <1>1, <1>8 DEF NoVGLeft, GoTo, Wiped
<1>9. CASE WipeBoot
  BY <1>1, <1>9 DEF WipeBoot, GoTo, Wiped
<1>10. CASE NoBootLeft
  BY <1>1, <1>10 DEF NoBootLeft, GoTo, Wiped
<1>11. CASE UNCHANGED vars
  BY <1>11 DEF vars, state, Wiped
<1> QED
  BY <1>2, <1>3, <1>4, <1>5, <1>6, <1>7, <1>8, <1>9, <1>10, <1>11
     DEF Next, Verify, Create, WipeOldInstallations

\* Once the target is accepted after wiping, no other disk is left that could be
\* taken for it, by the name of its volume group or the label of its partition.
THEOREM OthersWiped == Safety => []OneInstallationLeft
<1>1. Wiped => OneInstallationLeft
  BY DEF Wiped, OneInstallationLeft
<1> QED
  BY <1>1, InitWiped, StepWiped, PTL DEF Safety

-------------------------------------------------------------------------------
(* The script does what it says *)

LEMMA InitProgress == Init => Progress
BY DEF Init, Progress

\* Each command adds its part to what the ones before it have done.
LEMMA CommandProgress ==
  ASSUME Typed, Progress, pc = "create", disk' \in After(Script[step]),
         pvs' = pvs, NextCommand, args' = args, diskMB' = diskMB
  PROVE  /\ Progress'
         /\ step = Len(Script) => WholeLayout' /\ pvs' = {}
<1>1. /\ args \in Args /\ disk \in Disks /\ step \in 1..Len(Script)
      /\ Len(Script) \in {13, 14}
  BY ScriptLength DEF Typed, TypeOK
<1>2. /\ Rank \in 1..14 /\ Script[step] = Full[Rank]
      /\ step = Len(Script) <=> Rank = 14
      /\ args.layout # "GPT" => Rank # 6
  BY <1>1, ScriptIsFull
<1>3. /\ step' = step + 1
      /\ pc' = "create" <=> step # Len(Script)
  BY DEF NextCommand
<1>4. Rank' = IF args.layout # "GPT" /\ Rank = 5 THEN 7 ELSE Rank + 1
  BY <1>1, <1>2, <1>3 DEF Rank
<1>5. SwapGB(args)' = SwapGB(args) /\ RootMB(args)' = RootMB(args)
  BY DEF SwapGB, BigDisk, RootMB, PvMB
\* What is on the disk after the command of that rank
<1> DEFINE Effects(k, d) ==
      /\ k >= 2 => d.layout = args.layout
      /\ k >= 3 => d.flags
      /\ k >= 5 => d.boot
      /\ k >= 6 /\ args.layout = "GPT" => d.efi
      /\ k >= 8 => d.pv = args.layout
      /\ k >= 9 => d.vg /\ pvs = {}
      /\ k >= 10 => d.swapMB = 1024 * SwapGB(args)
      /\ k >= 11 => d.rootMB = RootMB(args)
<1>6. Effects(Rank - 1, disk)
  BY <1>2 DEF Progress
<1>7. disk' \in After(Full[Rank])
  BY <1>2
<1> HIDE DEF Effects
<1>8. Effects(Rank, disk')
  <2>1. CASE Rank = 1
    <3>1. Effects(1, disk')
      BY DEF Effects
    <3> QED
      BY <2>1, <3>1
  <2>2. CASE Rank \in {2, 3, 5, 6}
    <3>1. \/ Rank = 2 /\ disk' = [disk EXCEPT !.layout = args.layout]
          \/ Rank = 3 /\ disk' = [disk EXCEPT !.flags = TRUE]
          \/ Rank = 5 /\ disk' = [disk EXCEPT !.boot = TRUE]
          \/ Rank = 6 /\ disk' = [disk EXCEPT !.efi = TRUE]
      BY <1>7, <2>2 DEF Full, After
    <3>2. CASE Rank = 2 /\ disk' = [disk EXCEPT !.layout = args.layout]
      BY <1>1, <3>2 DEF Effects, Disks
    <3>3. CASE Rank = 3 /\ disk' = [disk EXCEPT !.flags = TRUE]
      BY <1>1, <1>6, <3>3 DEF Effects, Disks
    <3>4. CASE Rank = 5 /\ disk' = [disk EXCEPT !.boot = TRUE]
      BY <1>1, <1>6, <3>4 DEF Effects, Disks
    <3>5. CASE Rank = 6 /\ disk' = [disk EXCEPT !.efi = TRUE]
      BY <1>1, <1>6, <3>5 DEF Effects, Disks
    <3> QED
      BY <3>1, <3>2, <3>3, <3>4, <3>5
  <2>3. CASE Rank \in {4, 7, 12, 13}
    <3>1. disk' = disk
      BY <1>7, <2>3 DEF Full, After
    <3> QED
      BY <1>1, <1>6, <2>3, <3>1 DEF Effects
  <2>4. CASE Rank = 8
    <3>1. disk' = [NoVolumes(disk) EXCEPT !.pv = args.layout]
      BY <1>7, <2>4 DEF Full, After
    <3> QED
      BY <1>1, <1>6, <2>4, <3>1 DEF Effects, NoVolumes, Disks
  <2>5. CASE Rank = 9
    <3>1. disk' = [disk EXCEPT !.vg = TRUE] /\ pvs = {}
      BY <1>7, <2>5 DEF Full, After
    <3> QED
      BY <1>1, <1>6, <2>5, <3>1 DEF Effects, Disks
  <2>6. CASE Rank = 10
    <3>1. disk' = [disk EXCEPT !.swapMB = 1024 * SwapGB(args)]
      BY <1>7, <2>6 DEF Full, After
    <3> QED
      BY <1>1, <1>6, <2>6, <3>1 DEF Effects, Disks
  <2>7. CASE Rank = 11
    <3>1. PICK fs \in {FALSE, disk.rootFs} :
            disk' = [disk EXCEPT !.rootMB = RootMB(args), !.rootFs = fs]
      BY <1>7, <2>7 DEF Full, After
    <3> QED
      BY <1>1, <1>6, <2>7, <3>1 DEF Effects, Disks
  <2>8. CASE Rank = 14
    <3>1. disk' = [disk EXCEPT !.rootFs = TRUE]
      BY <1>7, <2>8 DEF Full, After
    <3> QED
      BY <1>1, <1>6, <2>8, <3>1 DEF Effects, Disks
  <2> QED
    BY <1>2, <2>1, <2>2, <2>3, <2>4, <2>5, <2>6, <2>7, <2>8
<1>9. Progress'
  <2>1. \A k \in 1..14 : Effects(k, disk') =>
          /\ k > 1 => disk'.layout = args.layout
          /\ k > 2 => disk'.flags
          /\ k > 4 => disk'.boot
          /\ k > 5 /\ args.layout = "GPT" => disk'.efi
          /\ k > 7 => disk'.pv = args.layout
          /\ k > 8 => disk'.vg /\ pvs = {}
          /\ k > 9 => disk'.swapMB = 1024 * SwapGB(args)
          /\ k > 10 => disk'.rootMB = RootMB(args)
    BY DEF Effects
  <2>2. \/ Rank' = Rank + 1
        \/ args.layout # "GPT" /\ Rank = 5 /\ Rank' = 7
    BY <1>4
  <2>3. /\ Rank' > 2 => Rank > 1
        /\ Rank' > 3 => Rank > 2
        /\ Rank' > 5 => Rank > 4
        /\ Rank' > 6 /\ args.layout = "GPT" => Rank > 5
        /\ Rank' > 8 => Rank > 7
        /\ Rank' > 9 => Rank > 8
        /\ Rank' > 10 => Rank > 9
        /\ Rank' > 11 => Rank > 10
    BY <1>2, <2>2
  <2> QED
    <3>1. /\ Rank > 1 => disk'.layout = args.layout
          /\ Rank > 2 => disk'.flags
          /\ Rank > 4 => disk'.boot
          /\ Rank > 5 /\ args.layout = "GPT" => disk'.efi
          /\ Rank > 7 => disk'.pv = args.layout
          /\ Rank > 8 => disk'.vg /\ pvs = {}
          /\ Rank > 9 => disk'.swapMB = 1024 * SwapGB(args)
          /\ Rank > 10 => disk'.rootMB = RootMB(args)
      BY <1>2, <1>8, <2>1
    <3> QED
      BY <1>5, <2>3, <3>1 DEF Progress
<1>10. step = Len(Script) => WholeLayout' /\ pvs' = {}
  BY <1>2, <1>5, <1>8 DEF Effects, WholeLayout
<1> QED
  BY <1>9, <1>10

LEMMA StepProgress == Typed /\ Progress /\ [Next]_vars => Progress'
<1> SUFFICES ASSUME Typed, Progress, [Next]_vars PROVE Progress'
  OBVIOUS
<1>1. args' = args /\ diskMB' = diskMB
  BY ArgsKept
<1>2. CASE Start \/ Activate \/ CannotRunCommand \/ CommandFails \/ Reboot \/ Rerun
  <2>1. pc' # "create"
    BY <1>2 DEF Start, Activate, CannotRunCommand, CommandFails, Reboot, Rerun,
                GoTo, AfterCheck
  <2> QED
    BY <2>1 DEF Progress
<1>3. CASE Check
  <2>1. step' = 1
    BY <1>3 DEF Check
  <2>2. Rank' = 1
    BY <2>1 DEF Rank
  <2> QED
    BY <2>2 DEF Progress
<1>4. CASE RunCommand
  BY <1>1, <1>4, CommandProgress DEF RunCommand
<1>5. CASE VgRemove
  <2>1. /\ args \in Args /\ step \in 1..Len(Script) /\ pc = "create"
        /\ Script[step] = "vgremove" /\ step' = step + 1
    BY <1>5 DEF VgRemove, NextCommand, Typed, TypeOK
  <2>2. Rank \in 1..14 /\ Full[Rank] = "vgremove"
    BY <2>1, ScriptIsFull
  <2>3. Rank = 7
    BY <2>2 DEF Full
  <2>4. Rank' = 8
    BY <1>1, <2>1, <2>3 DEF Rank
  <2>5. \/ disk' = disk
        \/ disk' = NoVolumes(disk)
    BY <1>5 DEF VgRemove
  <2>6. /\ disk'.layout = disk.layout /\ disk'.flags = disk.flags
        /\ disk'.boot = disk.boot /\ disk'.efi = disk.efi
    <3>1. disk \in Disks
      BY DEF Typed, TypeOK
    <3> QED
      BY <2>5, <3>1 DEF NoVolumes, Disks
  <2>7. /\ disk.layout = args.layout /\ disk.flags /\ disk.boot
        /\ args.layout = "GPT" => disk.efi
    BY <2>1, <2>3 DEF Progress
  <2> QED
    BY <1>1, <2>4, <2>6, <2>7 DEF Progress
<1>6. CASE Recheck
  <2>1. pc' # "create"
    BY <1>6 DEF Recheck, AfterCheck
  <2> QED
    BY <2>1 DEF Progress
<1>7. CASE WipeOldInstallations
  <2>1. pc' # "create"
    BY <1>7 DEF WipeOldInstallations, WipeVG, NoVGLeft, WipeBoot, NoBootLeft, GoTo
  <2> QED
    BY <2>1 DEF Progress
<1>8. CASE UNCHANGED vars
  <2>1. UNCHANGED <<args, diskMB, disk, pvs, pc, step>>
    BY <1>8 DEF vars, state
  <2> QED
    BY <2>1 DEF Progress, Rank, SwapGB, BigDisk, RootMB, PvMB
<1> QED
  BY <1>2, <1>3, <1>4, <1>5, <1>6, <1>7, <1>8 DEF Next, Verify, Create

-------------------------------------------------------------------------------
(* A settled disk is kept *)

LEMMA InitSettled == Init => SettledFits
<1> SUFFICES ASSUME Init, settled PROVE SettledFits
  BY DEF SettledFits
<1>1. /\ disk = LaidOut(args) /\ pvs = {} /\ args \in Args
      /\ diskMB \in DiskSizes /\ pc = "start"
  BY DEF Init
<1>2. WholeLayout
  <2>1. /\ disk.layout = args.layout /\ disk.pv = args.layout
        /\ disk.flags = TRUE /\ disk.boot = TRUE /\ disk.vg = TRUE
        /\ disk.efi = (args.layout = "GPT")
        /\ disk.swapMB = 1024 * SwapGB(args) /\ disk.rootMB = RootMB(args)
    BY <1>1 DEF LaidOut
  <2> QED
    BY <2>1, Zenon DEF WholeLayout
<1>3. LargeEnough(args) => Fits
  BY <1>1, <1>2, WholeLayoutFits
<1> QED
  BY <1>1, <1>3, Zenon DEF SettledFits

\* What fits depends on the target device and the arguments alone.
LEMMA FitsKept ==
  ASSUME args' = args, diskMB' = diskMB
  PROVE  /\ disk' = disk => Fits' = Fits
         /\ LargeEnough(args)' = LargeEnough(args)
BY DEF Fits, PartitionsFit, VolumesFit, SwapGB, BigDisk, LargeEnough

\* While no other disk has the volume group, a check that finds no mismatch is
\* right, and one that finds a mismatch on a disk that fits has failed.
LEMMA AloneIsFound ==
  ASSUME pvs = {}, NEW fits \in BOOLEAN, Finds(fits)
  PROVE  Fault \/ fits = Fits
BY DEF Finds, Verdicts

LEMMA StepSettled ==
  Typed /\ Progress /\ SettledFits /\ [Next]_vars => SettledFits'
<1> SUFFICES ASSUME Typed, Progress, SettledFits, [Next]_vars, settled'
             PROVE  /\ pc' # "create" => pvs' = {}
                    /\ ~args'.clearDisk /\ LargeEnough(args)' =>
                         Fits' /\ pvs' = {} /\ pc' # "create"
  BY DEF SettledFits
<1>1. args' = args /\ diskMB' = diskMB
  BY ArgsKept
<1>2. /\ disk' = disk => Fits' = Fits
      /\ LargeEnough(args)' = LargeEnough(args)
  BY <1>1, FitsKept
<1> DEFINE Asked == ~args.clearDisk /\ LargeEnough(args)
<1>3. ~Fault
  BY DEF Fault
<1>4. ASSUME settled, pvs' \subseteq pvs, pc # "create", pc' # "create",
             Asked => disk' = disk
      PROVE  /\ pc' # "create" => pvs' = {}
             /\ ~args'.clearDisk /\ LargeEnough(args)' =>
                  Fits' /\ pvs' = {} /\ pc' # "create"
  <2>1. pvs' = {}
    BY <1>4 DEF SettledFits
  <2>2. Asked => Fits'
    BY <1>2, <1>4 DEF SettledFits
  <2> QED
    BY <1>1, <1>2, <1>4, <2>1, <2>2
<1>5. CASE Start
  BY <1>4, <1>5 DEF Start, Sound, GoTo
<1>6. CASE Check \/ Recheck
  <2>1. PICK fits \in BOOLEAN :
          /\ Finds(fits)
          /\ Check => pc' = IF fits THEN "activate"
                            ELSE IF args.wipe THEN "create" ELSE "raised"
    BY <1>6 DEF Check, Recheck
  <2>2. UNCHANGED <<disk, pvs>> /\ pc # "create" /\ (Recheck => pc' # "create")
    BY <1>6 DEF Check, Recheck, state, AfterCheck
  <2>3. settled \/ (fits /\ pvs = {})
    BY <1>3, <2>1 DEF Finds
  <2>4. pvs = {}
    BY <2>2, <2>3 DEF SettledFits
  <2>5. fits = Fits
    BY <1>3, <2>1, <2>4, AloneIsFound
  <2>6. Asked => Fits
    BY <2>3, <2>5 DEF SettledFits
  <2>7. Asked => pc' # "create"
    <3>1. CASE Recheck
      BY <2>2, <3>1
    <3>2. CASE Check
      BY <2>1, <2>5, <2>6, <3>2
    <3> QED
      BY <1>6, <3>1, <3>2
  <2>8. Fits' = Fits /\ pvs' = {}
    BY <1>2, <2>2, <2>4
  <2> QED
    BY <1>1, <1>2, <2>6, <2>7, <2>8
<1>7. CASE Activate
  BY <1>4, <1>7 DEF Activate, Sound, GoTo, AfterCheck
<1>8. CASE RunCommand
  <2>1. /\ step = Len(Script) /\ pc = "create" /\ NextCommand /\ pvs' = pvs
        /\ disk' \in After(Script[step])
    BY <1>8 DEF RunCommand
  <2>2. WholeLayout' /\ pvs' = {}
    BY <1>1, <2>1, CommandProgress
  <2>3. pc' # "create"
    BY <2>1 DEF NextCommand
  <2>4. LargeEnough(args) => Fits'
    <3>1. args \in Args /\ diskMB \in DiskSizes
      BY DEF Typed, TypeOK
    <3> QED
      BY <1>1, <2>2, <3>1, WholeLayoutFits
  <2> QED
    BY <1>2, <2>2, <2>3, <2>4
<1>9. CASE CannotRunCommand \/ VgRemove
  <2>1. VgRemove /\ pc = "create" /\ settled
    BY <1>3, <1>9 DEF CannotRunCommand, VgRemove, Sound
  <2>2. ~Asked
    BY <2>1 DEF SettledFits
  <2>3. pc' = "create"
    <3>1. args \in Args /\ step \in 1..Len(Script) /\ Script[step] = "vgremove"
      BY <2>1 DEF VgRemove, Typed, TypeOK
    <3>2. Rank \in 1..14 /\ Full[Rank] = "vgremove" /\ (step = Len(Script) <=> Rank = 14)
      BY <3>1, ScriptIsFull
    <3>3. step # Len(Script)
      BY <3>2 DEF Full
    <3> QED
      BY <2>1, <3>3 DEF VgRemove, NextCommand
  <2> QED
    BY <1>1, <1>2, <2>2, <2>3
<1>10. CASE WipeOldInstallations
  BY <1>4, <1>10
     DEF WipeOldInstallations, WipeVG, NoVGLeft, WipeBoot, NoBootLeft, Sound, GoTo
<1>11. CASE CommandFails \/ Reboot
  BY <1>3, <1>11 DEF CommandFails, Reboot
<1>12. CASE Rerun
  <2>1. pc # "create"
    BY <1>12 DEF Rerun, Over
  <2> QED
    BY <1>4, <1>12, <2>1 DEF Rerun, Sound, GoTo
<1>13. CASE UNCHANGED vars
  BY <1>1, <1>2, <1>13 DEF vars, state, SettledFits
<1> QED
  BY <1>5, <1>6, <1>7, <1>8, <1>9, <1>10, <1>11, <1>12, <1>13
     DEF Next, Verify, Create

\* What the script leaves on a disk of 15 GB or more, for a root of 14 GB or
\* more, passes the check, now and in every further inauguration with the same
\* arguments, and so does what the check once found in order: the disk is
\* written no more until a command fails or the machine is rebooted.
THEOREM SettledKept == Safety => SettledDiskKept
<1>1. ASSUME SettledFits, [Next]_vars
      PROVE  [settled /\ ~args.clearDisk /\ LargeEnough(args) => disk' = disk]_vars
  <2> SUFFICES ASSUME settled, ~args.clearDisk, LargeEnough(args) PROVE disk' = disk
    OBVIOUS
  <2>1. pc # "create"
    BY <1>1 DEF SettledFits
  <2> QED
    BY <1>1, <2>1
       DEF Next, Verify, Start, Check, Activate, Create, RunCommand,
           CannotRunCommand, VgRemove, Recheck, WipeOldInstallations, WipeVG,
           NoVGLeft, WipeBoot, NoBootLeft, CommandFails, Reboot, Rerun, state, vars
<1>2. Init => Typed /\ Progress /\ SettledFits
  BY InitTyped, InitProgress, InitSettled
<1>3. Typed /\ Progress /\ SettledFits /\ [Next]_vars
        => (Typed /\ Progress /\ SettledFits)'
  BY StepTyped, StepProgress, StepSettled
<1> QED
  BY <1>1, <1>2, <1>3, PTL DEF Safety, SettledDiskKept
===============================================================================
