---------------------------- MODULE Ceremony_proofs ----------------------------
(***************************************************************************)
(* Proofs about Ceremony, for any number of steps that fail.  They rest on *)
(* the shape of the script, whatever the arguments are: what is mounted in *)
(* it is unmounted later in it, osmosis is started before it is told the   *)
(* label and waited for, and the server is told, and the station left, at  *)
(* its very end.                                                           *)
(***************************************************************************)
EXTENDS Ceremony, SequenceTheorems, TLAPS

-------------------------------------------------------------------------------
(* Pieces of the script *)

Places == {"root", "log", "source", "boot", "rootBoot", "rootEfi", "rootProc", "rootSys"}
Finals == {"kexec", "reboot", "shutdown"}
OsmosisSteps == {"start", "label", "tellLabel", "wait"}
Commands == {"rsync", "grub", "copyLog", "download", "loadAllDrivers", "ipmi", "configureETC",
             "loadKernel", "readLabel", "sync", "dropCaches"}
Others == {"args", "disk", "network", "ncq", "smart", "cleanup", "verify", "debugThread",
           "checkIn", "done"}

StepSet ==
  ({"mount", "umount"} \X Places) \cup ({"osmosis"} \X OsmosisSteps)
    \cup ({"run"} \X Commands) \cup (Others \X {"it"}) \cup ({"end"} \X Finals)

Start == <<"osmosis", "start">>
Tell == <<"osmosis", "tellLabel">>
Waits == <<"osmosis", "wait">>
Unmount(x) == <<"umount", x>>

Has(s, step) == \E i \in 1 .. Len(s) : s[i] = step

\* What a piece leaves mounted is among these.
Leaves(s, X) ==
  \A i \in 1 .. Len(s) : s[i][1] = "mount" =>
    s[i][2] \in X \/ \E j \in 1 .. Len(s) : i < j /\ s[j] = Unmount(s[i][2])

NoneOf(s, steps) == \A i \in 1 .. Len(s) : s[i] \notin steps
NoOsmosis(s) == NoneOf(s, {Start, Tell, Waits})
GoesOn(s) == \A i \in 1 .. Len(s) : s[i][1] \notin {"done", "end"}

\* Osmosis is started, told the label once, and waited for.
Osmoses(s) ==
  /\ Has(s, Waits)
  /\ \A i, j \in 1 .. Len(s) : s[i] = Start /\ s[j] = Waits => i < j
  /\ \A i, j \in 1 .. Len(s) : s[i] = Tell /\ s[j] = Tell => i = j
  /\ \A i \in 1 .. Len(s) : s[i] = Tell =>
       \E j \in 1 .. Len(s) : j < i /\ s[j] = Start

\* The station is left at the very end, and the server told just before.
Ends(s) ==
  /\ Len(s) > 0 /\ s[Len(s)][1] = "end"
  /\ \A i \in 1 .. Len(s) : s[i][1] = "end" => i = Len(s)
  /\ \A i \in 1 .. Len(s) : s[i][1] = "done" => i = Len(s) - 1

LEMMA Cat ==
  ASSUME NEW s \in Seq(StepSet), NEW t \in Seq(StepSet)
  PROVE  /\ s \o t \in Seq(StepSet)
         /\ Len(s) \in Nat /\ Len(t) \in Nat /\ Len(s \o t) = Len(s) + Len(t)
         /\ \A i \in 1 .. Len(s) : i \in 1 .. Len(s \o t) /\ (s \o t)[i] = s[i]
         /\ \A i \in 1 .. Len(t) :
              Len(s) + i \in 1 .. Len(s \o t) /\ (s \o t)[Len(s) + i] = t[i]
         /\ \A i \in 1 .. Len(s \o t) :
              \/ i \in 1 .. Len(s) /\ (s \o t)[i] = s[i]
              \/ \E k \in 1 .. Len(t) : i = Len(s) + k /\ (s \o t)[i] = t[k]
  <1>1. /\ s \o t \in Seq(StepSet)
        /\ Len(s) \in Nat /\ Len(t) \in Nat /\ Len(s \o t) = Len(s) + Len(t)
        /\ \A i \in 1 .. Len(s) + Len(t) :
             (s \o t)[i] = IF i <= Len(s) THEN s[i] ELSE t[i - Len(s)]
    BY ConcatProperties, LenProperties
  <1>2. ASSUME NEW i \in 1 .. Len(s)
        PROVE  i \in 1 .. Len(s \o t) /\ (s \o t)[i] = s[i]
    BY <1>1
  <1>3. ASSUME NEW i \in 1 .. Len(t)
        PROVE  Len(s) + i \in 1 .. Len(s \o t) /\ (s \o t)[Len(s) + i] = t[i]
    BY <1>1
  <1>4. ASSUME NEW i \in 1 .. Len(s \o t), i \notin 1 .. Len(s)
        PROVE  \E k \in 1 .. Len(t) : i = Len(s) + k /\ (s \o t)[i] = t[k]
    <2>1. i - Len(s) \in 1 .. Len(t) /\ i = Len(s) + (i - Len(s))
      BY <1>1, <1>4
    <2> QED
      BY <1>1, <1>4, <2>1
  <1> QED
    BY <1>1, <1>2, <1>3, <1>4

\* What the second piece unmounts is not left any more.
LEMMA CatLeaves ==
  ASSUME NEW s \in Seq(StepSet), NEW t \in Seq(StepSet), NEW X, NEW Y, NEW Z,
         Leaves(s, X), Leaves(t, Y), Y \subseteq Z,
         \A x \in X : x \in Z \/ Has(t, Unmount(x))
  PROVE  Leaves(s \o t, Z)
  <1> DEFINE u == s \o t
  <1>1. /\ Len(s) \in Nat /\ Len(t) \in Nat
        /\ \A i \in 1 .. Len(s) : i \in 1 .. Len(u) /\ u[i] = s[i]
        /\ \A i \in 1 .. Len(t) : Len(s) + i \in 1 .. Len(u) /\ u[Len(s) + i] = t[i]
        /\ \A i \in 1 .. Len(u) :
             \/ i \in 1 .. Len(s) /\ u[i] = s[i]
             \/ \E k \in 1 .. Len(t) : i = Len(s) + k /\ u[i] = t[k]
    BY Cat
  <1> HIDE DEF u
  <1> SUFFICES ASSUME NEW i \in 1 .. Len(u), u[i][1] = "mount", u[i][2] \notin Z
               PROVE  \E j \in 1 .. Len(u) : i < j /\ u[j] = Unmount(u[i][2])
    BY DEF Leaves, u
  <1>2. CASE i \in 1 .. Len(s) /\ u[i] = s[i]
    <2>1. CASE \E j \in 1 .. Len(s) : i < j /\ s[j] = Unmount(s[i][2])
      BY <1>1, <1>2, <2>1
    <2>2. CASE s[i][2] \in X
      <3>1. PICK k \in 1 .. Len(t) : t[k] = Unmount(s[i][2])
        BY <1>2, <2>2 DEF Has
      <3>2. Len(s) + k \in 1 .. Len(u) /\ u[Len(s) + k] = t[k] /\ i < Len(s) + k
        BY <1>1, <1>2, <3>1
      <3> QED
        BY <1>2, <3>1, <3>2
    <2> QED
      BY <1>2, <2>1, <2>2 DEF Leaves
  <1>3. ASSUME NEW k \in 1 .. Len(t), i = Len(s) + k, u[i] = t[k]
        PROVE  \E j \in 1 .. Len(u) : i < j /\ u[j] = Unmount(u[i][2])
    <2>1. PICK m \in 1 .. Len(t) : k < m /\ t[m] = Unmount(t[k][2])
      BY <1>3 DEF Leaves
    <2>2. Len(s) + m \in 1 .. Len(u) /\ u[Len(s) + m] = t[m] /\ i < Len(s) + m
      BY <1>1, <1>3, <2>1
    <2> QED
      BY <1>3, <2>1, <2>2
  <1> QED
    BY <1>1, <1>2, <1>3

LEMMA CatQuiet ==
  ASSUME NEW s \in Seq(StepSet), NEW t \in Seq(StepSet)
  PROVE  /\ \A T : NoneOf(s, T) /\ NoneOf(t, T) => NoneOf(s \o t, T)
         /\ NoOsmosis(s) /\ NoOsmosis(t) => NoOsmosis(s \o t)
         /\ GoesOn(s) /\ GoesOn(t) => GoesOn(s \o t)
  <1> DEFINE u == s \o t
  <1>1. /\ \A i \in 1 .. Len(u) :
             \/ i \in 1 .. Len(s) /\ u[i] = s[i]
             \/ \E k \in 1 .. Len(t) : i = Len(s) + k /\ u[i] = t[k]
    BY Cat
  <1> HIDE DEF u
  <1>2. ASSUME NEW T, NoneOf(s, T), NoneOf(t, T), NEW i \in 1 .. Len(u)
        PROVE  u[i] \notin T
    <2>1. CASE i \in 1 .. Len(s) /\ u[i] = s[i]
      BY <1>2, <2>1 DEF NoneOf
    <2>2. ASSUME NEW k \in 1 .. Len(t), u[i] = t[k]
          PROVE  u[i] \notin T
      BY <1>2, <2>2 DEF NoneOf
    <2> QED
      BY <1>1, <2>1, <2>2
  <1>3. ASSUME GoesOn(s), GoesOn(t), NEW i \in 1 .. Len(u)
        PROVE  u[i][1] \notin {"done", "end"}
    <2>1. CASE i \in 1 .. Len(s) /\ u[i] = s[i]
      BY <1>3, <2>1 DEF GoesOn
    <2>2. ASSUME NEW k \in 1 .. Len(t), u[i] = t[k]
          PROVE  u[i][1] \notin {"done", "end"}
      BY <1>3, <2>2 DEF GoesOn
    <2> QED
      BY <1>1, <2>1, <2>2
  <1> QED
    BY <1>2, <1>3 DEF NoneOf, NoOsmosis, GoesOn, u

LEMMA CatHas ==
  ASSUME NEW s \in Seq(StepSet), NEW t \in Seq(StepSet), NEW step
  PROVE  Has(s, step) \/ Has(t, step) => Has(s \o t, step)
  <1>1. CASE Has(s, step)
    <2>1. PICK i \in 1 .. Len(s) : s[i] = step
      BY <1>1 DEF Has
    <2>2. i \in 1 .. Len(s \o t) /\ (s \o t)[i] = s[i]
      BY Cat
    <2> QED
      BY <2>1, <2>2 DEF Has
  <1>2. CASE Has(t, step)
    <2>1. PICK i \in 1 .. Len(t) : t[i] = step
      BY <1>2 DEF Has
    <2>2. Len(s) + i \in 1 .. Len(s \o t) /\ (s \o t)[Len(s) + i] = t[i]
      BY Cat
    <2> QED
      BY <2>1, <2>2 DEF Has
  <1> QED
    BY <1>1, <1>2

\* The piece with osmosis in it may have others before and behind it.
LEMMA CatOsmoses ==
  ASSUME NEW s \in Seq(StepSet), NEW t \in Seq(StepSet),
         \/ Osmoses(s) /\ NoOsmosis(t)
         \/ NoOsmosis(s) /\ Osmoses(t)
  PROVE  Osmoses(s \o t)
  <1> DEFINE u == s \o t
  <1>1. /\ Len(s) \in Nat /\ Len(t) \in Nat
        /\ \A i \in 1 .. Len(s) : i \in 1 .. Len(u) /\ u[i] = s[i]
        /\ \A i \in 1 .. Len(t) : Len(s) + i \in 1 .. Len(u) /\ u[Len(s) + i] = t[i]
        /\ \A i \in 1 .. Len(u) :
             \/ i \in 1 .. Len(s) /\ u[i] = s[i]
             \/ \E k \in 1 .. Len(t) : i = Len(s) + k /\ u[i] = t[k]
    BY Cat
  <1>3. Has(u, Waits)
    BY CatHas DEF Osmoses
  <1> HIDE DEF u
  <1>4. CASE Osmoses(s) /\ NoOsmosis(t)
    <2>1. ASSUME NEW i \in 1 .. Len(u), u[i] \in {Start, Tell, Waits}
          PROVE  i \in 1 .. Len(s) /\ u[i] = s[i]
      <3>1. ASSUME NEW k \in 1 .. Len(t), u[i] = t[k]
            PROVE  FALSE
        BY <1>4, <2>1, <3>1 DEF NoOsmosis, NoneOf
      <3> QED
        BY <1>1, <3>1
    <2> QED
      BY <1>1, <1>3, <1>4, <2>1 DEF Osmoses, u
  <1>5. CASE NoOsmosis(s) /\ Osmoses(t)
    <2>1. ASSUME NEW i \in 1 .. Len(u), u[i] \in {Start, Tell, Waits}
          PROVE  \E k \in 1 .. Len(t) : i = Len(s) + k /\ u[i] = t[k]
      <3>1. CASE i \in 1 .. Len(s) /\ u[i] = s[i]
        BY <1>5, <2>1, <3>1 DEF NoOsmosis, NoneOf
      <3> QED
        BY <1>1, <3>1
    <2>2. ASSUME NEW i \in 1 .. Len(u), NEW j \in 1 .. Len(u), u[i] = Start, u[j] = Waits
          PROVE  i < j
      <3>1. PICK k \in 1 .. Len(t) : i = Len(s) + k /\ u[i] = t[k]
        BY <2>1, <2>2
      <3>2. PICK m \in 1 .. Len(t) : j = Len(s) + m /\ u[j] = t[m]
        BY <2>1, <2>2
      <3>3. k < m
        BY <1>5, <2>2, <3>1, <3>2 DEF Osmoses
      <3> QED
        BY <1>1, <3>1, <3>2, <3>3
    <2>3. ASSUME NEW i \in 1 .. Len(u), NEW j \in 1 .. Len(u), u[i] = Tell, u[j] = Tell
          PROVE  i = j
      <3>1. PICK k \in 1 .. Len(t) : i = Len(s) + k /\ u[i] = t[k]
        BY <2>1, <2>3
      <3>2. PICK m \in 1 .. Len(t) : j = Len(s) + m /\ u[j] = t[m]
        BY <2>1, <2>3
      <3> QED
        BY <1>5, <2>3, <3>1, <3>2 DEF Osmoses
    <2>4. ASSUME NEW i \in 1 .. Len(u), u[i] = Tell
          PROVE  \E j \in 1 .. Len(u) : j < i /\ u[j] = Start
      <3>1. PICK k \in 1 .. Len(t) : i = Len(s) + k /\ u[i] = t[k]
        BY <2>1, <2>4
      <3>2. PICK j \in 1 .. Len(t) : j < k /\ t[j] = Start
        BY <1>5, <2>4, <3>1 DEF Osmoses
      <3>3. Len(s) + j \in 1 .. Len(u) /\ u[Len(s) + j] = Start /\ Len(s) + j < i
        BY <1>1, <3>1, <3>2
      <3> QED
        BY <3>3
    <2> QED
      BY <1>3, <2>2, <2>3, <2>4 DEF Osmoses, u
  <1> QED
    BY <1>4, <1>5

\* The two halves of osmosis: its start, and what it is told and waited for.
Starts(s) == Has(s, Start) /\ NoneOf(s, {Tell, Waits})
Tells(s) ==
  /\ Has(s, Waits) /\ NoneOf(s, {Start})
  /\ \A i, j \in 1 .. Len(s) : s[i] = Tell /\ s[j] = Tell => i = j

LEMMA CatHalves ==
  ASSUME NEW s \in Seq(StepSet), NEW t \in Seq(StepSet), Starts(s), Tells(t)
  PROVE  Osmoses(s \o t)
  <1> DEFINE u == s \o t
  <1>1. /\ Len(s) \in Nat /\ Len(t) \in Nat
        /\ \A i \in 1 .. Len(s) : i \in 1 .. Len(u) /\ u[i] = s[i]
        /\ \A i \in 1 .. Len(u) :
             \/ i \in 1 .. Len(s) /\ u[i] = s[i]
             \/ \E k \in 1 .. Len(t) : i = Len(s) + k /\ u[i] = t[k]
    BY Cat
  <1>2. Has(u, Waits)
    BY CatHas DEF Tells
  <1> HIDE DEF u
  <1>3. ASSUME NEW i \in 1 .. Len(u), u[i] = Start
        PROVE  i \in 1 .. Len(s)
    BY <1>1, <1>3 DEF Tells, NoneOf
  <1>4. ASSUME NEW i \in 1 .. Len(u), u[i] \in {Tell, Waits}
        PROVE  \E k \in 1 .. Len(t) : i = Len(s) + k /\ u[i] = t[k]
    <2>1. CASE i \in 1 .. Len(s) /\ u[i] = s[i]
      BY <1>4, <2>1 DEF Starts, NoneOf
    <2> QED
      BY <1>1, <2>1
  <1>5. ASSUME NEW i \in 1 .. Len(u), NEW j \in 1 .. Len(u), u[i] = Start, u[j] \in {Tell, Waits}
        PROVE  i < j
    <2>1. PICK k \in 1 .. Len(t) : j = Len(s) + k
      BY <1>4, <1>5
    <2>2. i \in 1 .. Len(s)
      BY <1>3, <1>5
    <2>3. Len(s) \in Nat /\ Len(t) \in Nat
      BY <1>1
    <2> QED
      BY <2>1, <2>2, <2>3
  <1>6. ASSUME NEW i \in 1 .. Len(u), NEW j \in 1 .. Len(u), u[i] = Tell, u[j] = Tell
        PROVE  i = j
    <2>1. PICK k \in 1 .. Len(t) : i = Len(s) + k /\ u[i] = t[k]
      BY <1>4, <1>6
    <2>2. PICK m \in 1 .. Len(t) : j = Len(s) + m /\ u[j] = t[m]
      BY <1>4, <1>6
    <2> QED
      BY <1>6, <2>1, <2>2 DEF Tells
  <1>7. \E i \in 1 .. Len(u) : u[i] = Start
    BY <1>1 DEF Starts, Has
  <1> QED
    BY <1>2, <1>5, <1>6, <1>7 DEF Osmoses, u

LEMMA CatEnds ==
  ASSUME NEW s \in Seq(StepSet), NEW t \in Seq(StepSet), GoesOn(s), Ends(t)
  PROVE  Ends(s \o t)
  <1> DEFINE u == s \o t
  <1>1. /\ Len(s) \in Nat /\ Len(t) \in Nat /\ Len(u) = Len(s) + Len(t)
        /\ \A i \in 1 .. Len(t) : Len(s) + i \in 1 .. Len(u) /\ u[Len(s) + i] = t[i]
        /\ \A i \in 1 .. Len(u) :
             \/ i \in 1 .. Len(s) /\ u[i] = s[i]
             \/ \E k \in 1 .. Len(t) : i = Len(s) + k /\ u[i] = t[k]
    BY Cat
  <1> HIDE DEF u
  <1>2. Len(u) > 0 /\ u[Len(u)][1] = "end"
    <2>1. Len(t) \in 1 .. Len(t) /\ Len(u) > 0
      BY <1>1 DEF Ends
    <2> QED
      BY <1>1, <2>1 DEF Ends
  <1>3. ASSUME NEW i \in 1 .. Len(u), u[i][1] \in {"done", "end"}
        PROVE  \E k \in 1 .. Len(t) : i = Len(s) + k /\ u[i] = t[k]
    BY <1>1, <1>3 DEF GoesOn
  <1>4. ASSUME NEW i \in 1 .. Len(u), u[i][1] = "end"
        PROVE  i = Len(u)
    BY <1>1, <1>3, <1>4 DEF Ends
  <1>5. ASSUME NEW i \in 1 .. Len(u), u[i][1] = "done"
        PROVE  i = Len(u) - 1
    <2>1. PICK k \in 1 .. Len(t) : i = Len(s) + k /\ u[i] = t[k]
      BY <1>3, <1>5
    <2>2. k = Len(t) - 1
      BY <1>5, <2>1 DEF Ends
    <2> QED
      BY <1>1, <2>1, <2>2
  <1> QED
    BY <1>2, <1>4, <1>5 DEF Ends, u

-------------------------------------------------------------------------------
(* The script is made of such pieces *)

\* A piece that does not leave the station, and a quiet one: without osmosis.
Piece(s, X) == s \in Seq(StepSet) /\ GoesOn(s) /\ Leaves(s, X)
Quiet(s, X) == Piece(s, X) /\ NoOsmosis(s)

LEMMA CatPiece ==
  ASSUME NEW s, NEW t, NEW X, NEW Y, NEW Z, Piece(s, X), Piece(t, Y), Y \subseteq Z,
         \A x \in X : x \in Z \/ Has(t, Unmount(x))
  PROVE  /\ Piece(s \o t, Z)
         /\ NoOsmosis(s) /\ NoOsmosis(t) => Quiet(s \o t, Z)
  BY Cat, CatLeaves, CatQuiet DEF Piece, Quiet

LEMMA IfPiece ==
  ASSUME NEW c, NEW s, NEW X, c => Quiet(s, X)
  PROVE  Quiet(If(c, s), X)
  <1>1. CASE c
    BY <1>1 DEF If
  <1>2. CASE ~c
    <2>1. If(c, s) = <<>> /\ Len(<<>>) = 0 /\ <<>> \in Seq(StepSet)
      BY <1>2 DEF If
    <2> QED
      BY <1>2, <2>1 DEF Quiet, Piece, GoesOn, Leaves, NoOsmosis, NoneOf
  <1> QED
    BY <1>1, <1>2

LEMMA FromDisk ==
  LET s == <<<<"mount", "source">>, <<"osmosis", "start">>, <<"run", "readLabel">>,
             <<"osmosis", "tellLabel">>, <<"osmosis", "wait">>, <<"umount", "source">>>>
  IN  Piece(s, {}) /\ Osmoses(s)
  <1> DEFINE s == <<<<"mount", "source">>, <<"osmosis", "start">>, <<"run", "readLabel">>,
             <<"osmosis", "tellLabel">>, <<"osmosis", "wait">>, <<"umount", "source">>>>
  <1>0. /\ <<"mount", "source">> \in StepSet /\ <<"umount", "source">> \in StepSet
        /\ <<"osmosis", "start">> \in StepSet /\ <<"osmosis", "tellLabel">> \in StepSet
        /\ <<"osmosis", "wait">> \in StepSet /\ <<"run", "readLabel">> \in StepSet
    BY DEF StepSet, Places, OsmosisSteps, Commands
  <1>1. s \in Seq(StepSet)
    BY <1>0
  <1>2. /\ Len(s) = 6 /\ s[1] = <<"mount", "source">> /\ s[2] = Start
        /\ s[3] = <<"run", "readLabel">> /\ s[4] = Tell /\ s[5] = Waits
        /\ s[6] = Unmount("source")
    BY DEF Start, Tell, Waits, Unmount
  <1>3. GoesOn(s)
    BY <1>2 DEF GoesOn, Start, Tell, Waits, Unmount
  <1>4. Leaves(s, {})
    BY <1>2 DEF Leaves, Start, Tell, Waits, Unmount
  <1>5. Osmoses(s)
    BY <1>2 DEF Osmoses, Has, Start, Tell, Waits, Unmount
  <1> QED
    BY <1>1, <1>3, <1>4, <1>5 DEF Piece

LEMMA FromLocal ==
  LET s == <<<<"osmosis", "start">>, <<"osmosis", "tellLabel">>, <<"osmosis", "wait">>>>
  IN  Piece(s, {}) /\ Osmoses(s)
  <1> DEFINE s == <<<<"osmosis", "start">>, <<"osmosis", "tellLabel">>, <<"osmosis", "wait">>>>
  <1>1. /\ <<"osmosis", "start">> \in StepSet /\ <<"osmosis", "tellLabel">> \in StepSet
        /\ <<"osmosis", "wait">> \in StepSet
    BY DEF StepSet, OsmosisSteps
  <1>2. s \in Seq(StepSet)
    BY <1>1
  <1>3. Len(s) = 3 /\ s[1] = Start /\ s[2] = Tell /\ s[3] = Waits
    BY DEF Start, Tell, Waits
  <1>4. GoesOn(s) /\ Leaves(s, {})
    BY <1>3 DEF GoesOn, Leaves, Start, Tell, Waits
  <1>5. Osmoses(s)
    BY <1>3 DEF Osmoses, Has, Start, Tell, Waits
  <1> QED
    BY <1>2, <1>4, <1>5 DEF Piece

LEMMA FromNetwork ==
  LET s == <<<<"debugThread", "it">>>>
           \o If(args.amqp, <<<<"checkIn", "it">>>>)
           \o <<<<"osmosis", "start">>>>
           \o If(args.amqp, <<<<"osmosis", "label">>>>)
           \o <<<<"osmosis", "tellLabel">>, <<"osmosis", "wait">>>>
  IN  Piece(s, {}) /\ Osmoses(s)
  <1> DEFINE a == <<<<"debugThread", "it">>>> \o If(args.amqp, <<<<"checkIn", "it">>>>)
             b == <<<<"osmosis", "start">>>>
             l == If(args.amqp, <<<<"osmosis", "label">>>>)
             c == <<<<"osmosis", "tellLabel">>, <<"osmosis", "wait">>>>
  <1>1. /\ <<"debugThread", "it">> \in StepSet /\ <<"checkIn", "it">> \in StepSet
        /\ <<"osmosis", "start">> \in StepSet /\ <<"osmosis", "label">> \in StepSet
        /\ <<"osmosis", "tellLabel">> \in StepSet /\ <<"osmosis", "wait">> \in StepSet
    BY DEF StepSet, OsmosisSteps, Others
  <1>2. Quiet(a, {})
    <2>1. Quiet(<<<<"debugThread", "it">>>>, {}) /\ Quiet(<<<<"checkIn", "it">>>>, {})
      BY <1>1 DEF Quiet, Piece, GoesOn, Leaves, NoOsmosis, NoneOf, Start, Tell, Waits
    <2>2. Quiet(If(args.amqp, <<<<"checkIn", "it">>>>), {})
      BY <2>1, IfPiece
    <2> QED
      BY <2>1, <2>2, CatPiece DEF Quiet
  <1>3. Piece(b, {}) /\ Starts(b)
    BY <1>1 DEF Piece, GoesOn, Leaves, Starts, Has, NoneOf, Start, Tell, Waits
  <1>4. Quiet(l, {})
    <2>1. Quiet(<<<<"osmosis", "label">>>>, {})
      BY <1>1 DEF Quiet, Piece, GoesOn, Leaves, NoOsmosis, NoneOf, Start, Tell, Waits
    <2> QED
      BY <2>1, IfPiece
  <1>5. Piece(c, {}) /\ Tells(c)
    <2>1. Len(c) = 2 /\ c[1] = Tell /\ c[2] = Waits /\ c \in Seq(StepSet)
      BY <1>1 DEF Tell, Waits
    <2> HIDE DEF c
    <2>2. GoesOn(c) /\ Leaves(c, {})
      BY <2>1 DEF GoesOn, Leaves, Tell, Waits
    <2> QED
      BY <2>1, <2>2 DEF Piece, Tells, Has, NoneOf, Start, Tell, Waits
  <1> HIDE DEF a, b, c, l
  <1>6. Piece(a \o b, {}) /\ Starts(a \o b)
    <2>1. Piece(a \o b, {})
      BY <1>2, <1>3, CatPiece DEF Quiet
    <2>2. NoneOf(a, {Tell, Waits})
      BY <1>2 DEF Quiet, NoOsmosis, NoneOf
    <2> QED
      BY <1>2, <1>3, <2>1, <2>2, CatHas, CatQuiet DEF Quiet, Piece, Starts
  <1>7. Piece((a \o b) \o l, {}) /\ Starts((a \o b) \o l)
    <2>1. Piece((a \o b) \o l, {})
      BY <1>4, <1>6, CatPiece DEF Quiet
    <2>2. NoneOf(l, {Tell, Waits})
      BY <1>4 DEF Quiet, NoOsmosis, NoneOf
    <2> QED
      BY <1>4, <1>6, <2>1, <2>2, CatHas, CatQuiet DEF Quiet, Piece, Starts
  <1>8. Piece(((a \o b) \o l) \o c, {})
    BY <1>5, <1>7, CatPiece
  <1>9. Osmoses(((a \o b) \o l) \o c)
    BY <1>5, <1>7, CatHalves DEF Piece
  <1> QED
    BY <1>8, <1>9 DEF a, b, c, l

LEMMA SourcePiece ==
  ASSUME args \in Args
  PROVE  Piece(DoOsmosisFromSource, {}) /\ Osmoses(DoOsmosisFromSource)
  <1>1. args.source \in Sources
    BY DEF Args
  <1>2. CASE args.source = "network"
    BY <1>2, FromNetwork DEF DoOsmosisFromSource
  <1>3. CASE args.source \in {"DOK", "CDROM"}
    BY <1>3, FromDisk DEF DoOsmosisFromSource
  <1>4. CASE args.source = "local"
    BY <1>4, FromLocal DEF DoOsmosisFromSource
  <1> QED
    BY <1>1, <1>2, <1>3, <1>4 DEF Sources

LEMMA BootPiece == Quiet(CreateBootAndInstallGrub, {})
  <1> DEFINE a == <<<<"mount", "boot">>, <<"run", "rsync">>, <<"umount", "boot">>,
                    <<"mount", "rootBoot">>>>
             b == <<<<"mount", "rootEfi">>>>
             c == <<<<"mount", "rootProc">>, <<"mount", "rootSys">>, <<"run", "grub">>,
                    <<"umount", "rootProc">>, <<"umount", "rootSys">>>>
             d == <<<<"umount", "rootEfi">>>>
             e == <<<<"umount", "rootBoot">>>>
             X == {"rootBoot"} \cup (IF args.efi THEN {"rootEfi"} ELSE {})
  <1>0. /\ \A x \in Places : <<"mount", x>> \in StepSet /\ <<"umount", x>> \in StepSet
        /\ <<"run", "rsync">> \in StepSet /\ <<"run", "grub">> \in StepSet
    BY DEF StepSet, Commands
  <1>1. Quiet(a, {"rootBoot"})
    <2>1. /\ Len(a) = 4 /\ a[1] = <<"mount", "boot">> /\ a[2] = <<"run", "rsync">>
          /\ a[3] = Unmount("boot") /\ a[4] = <<"mount", "rootBoot">>
          /\ a \in Seq(StepSet)
      BY <1>0 DEF Unmount, Places
    <2> HIDE DEF a
    <2> QED
      BY <2>1 DEF Quiet, Piece, GoesOn, Leaves, NoOsmosis, NoneOf, Start, Tell, Waits, Unmount
  <1>2. Quiet(b, {"rootEfi"})
    BY <1>0 DEF Quiet, Piece, GoesOn, Leaves, NoOsmosis, NoneOf, Start, Tell, Waits, Places
  <1>3. Quiet(c, {})
    <2>1. /\ Len(c) = 5 /\ c[1] = <<"mount", "rootProc">> /\ c[2] = <<"mount", "rootSys">>
          /\ c[3] = <<"run", "grub">>
          /\ c[4] = Unmount("rootProc") /\ c[5] = Unmount("rootSys")
          /\ c \in Seq(StepSet)
      BY <1>0 DEF Unmount, Places
    <2> HIDE DEF c
    <2> QED
      BY <2>1 DEF Quiet, Piece, GoesOn, Leaves, NoOsmosis, NoneOf, Start, Tell, Waits, Unmount
  <1>4. Quiet(d, {}) /\ Has(d, Unmount("rootEfi"))
    BY <1>0 DEF Quiet, Piece, GoesOn, Leaves, NoOsmosis, NoneOf, Has, Start, Tell, Waits,
                Unmount, Places
  <1>5. Quiet(e, {}) /\ Has(e, Unmount("rootBoot"))
    BY <1>0 DEF Quiet, Piece, GoesOn, Leaves, NoOsmosis, NoneOf, Has, Start, Tell, Waits,
                Unmount, Places
  <1> HIDE DEF a, b, c, d, e
  <1>6. Quiet(a \o If(args.efi, b), X)
    <2>1. Quiet(If(args.efi, b), IF args.efi THEN {"rootEfi"} ELSE {})
      <3>1. CASE args.efi
        BY <1>2, <3>1, IfPiece
      <3>2. CASE ~args.efi
        BY <3>2, IfPiece
      <3> QED
        BY <3>1, <3>2
    <2> QED
      BY <1>1, <2>1, CatPiece DEF Quiet
  <1>7. Quiet((a \o If(args.efi, b)) \o c, X)
    BY <1>3, <1>6, CatPiece DEF Quiet
  <1>8. Quiet(((a \o If(args.efi, b)) \o c) \o If(args.efi, d), {"rootBoot"})
    <2>1. Quiet(If(args.efi, d), {})
      BY <1>4, IfPiece
    <2>2. args.efi => Has(If(args.efi, d), Unmount("rootEfi"))
      BY <1>4 DEF If
    <2> QED
      BY <1>7, <2>1, <2>2, CatPiece DEF Quiet
  <1>9. Quiet((((a \o If(args.efi, b)) \o c) \o If(args.efi, d)) \o e, {})
    BY <1>5, <1>8, CatPiece DEF Quiet
  <1> QED
    BY <1>9 DEF CreateBootAndInstallGrub, a, b, c, d, e

LEMMA StagePiece ==
  ASSUME args \in Args
  PROVE  Piece(CeremonyStage, {}) /\ Osmoses(CeremonyStage)
  <1> DEFINE a == <<<<"run", "loadAllDrivers">>, <<"disk", "it">>, <<"mount", "root">>>>
             b == <<<<"network", "it">>, <<"run", "ipmi">>, <<"ncq", "it">>, <<"smart", "it">>>>
             c == If(args.quirk = "full", <<<<"cleanup", "it">>>>)
             d == <<<<"run", "configureETC">>, <<"run", "loadKernel">>>>
             e == <<<<"umount", "log">>, <<"umount", "root">>>>
  <1>0. /\ \A x \in Places : <<"mount", x>> \in StepSet /\ <<"umount", x>> \in StepSet
        /\ \A x \in Commands : <<"run", x>> \in StepSet
        /\ \A x \in Others : <<x, "it">> \in StepSet
    BY DEF StepSet
  <1>1. Quiet(a, {"root"})
    <2>1. /\ Len(a) = 3 /\ a[1] = <<"run", "loadAllDrivers">> /\ a[2] = <<"disk", "it">>
          /\ a[3] = <<"mount", "root">> /\ a \in Seq(StepSet)
      BY <1>0 DEF Places, Commands, Others
    <2> HIDE DEF a
    <2> QED
      BY <2>1 DEF Quiet, Piece, GoesOn, Leaves, NoOsmosis, NoneOf, Start, Tell, Waits
  <1>2. Quiet(LogOnRoot, {"log"})
    <2>1. /\ Len(LogOnRoot) = 2 /\ LogOnRoot[1] = <<"run", "copyLog">>
          /\ LogOnRoot[2] = <<"mount", "log">> /\ LogOnRoot \in Seq(StepSet)
      BY <1>0 DEF LogOnRoot, Places, Commands
    <2> QED
      BY <2>1 DEF Quiet, Piece, GoesOn, Leaves, NoOsmosis, NoneOf, Start, Tell, Waits
  <1>3. Quiet(b, {})
    <2>1. /\ Len(b) = 4 /\ b[1] = <<"network", "it">> /\ b[2] = <<"run", "ipmi">>
          /\ b[3] = <<"ncq", "it">> /\ b[4] = <<"smart", "it">> /\ b \in Seq(StepSet)
      BY <1>0 DEF Commands, Others
    <2> HIDE DEF b
    <2> QED
      BY <2>1 DEF Quiet, Piece, GoesOn, Leaves, NoOsmosis, NoneOf, Start, Tell, Waits
  <1>4. Quiet(c, {})
    <2>1. Quiet(<<<<"cleanup", "it">>>>, {})
      BY <1>0 DEF Quiet, Piece, GoesOn, Leaves, NoOsmosis, NoneOf, Start, Tell, Waits, Others
    <2> QED
      BY <2>1, IfPiece
  <1>5. Quiet(d, {})
    <2>1. /\ Len(d) = 2 /\ d[1] = <<"run", "configureETC">> /\ d[2] = <<"run", "loadKernel">>
          /\ d \in Seq(StepSet)
      BY <1>0 DEF Commands
    <2> HIDE DEF d
    <2> QED
      BY <2>1 DEF Quiet, Piece, GoesOn, Leaves, NoOsmosis, NoneOf, Start, Tell, Waits
  <1>6. Quiet(AdditionalDownload, {})
    BY <1>0 DEF AdditionalDownload, Quiet, Piece, GoesOn, Leaves, NoOsmosis, NoneOf, Start,
                Tell, Waits, Commands
  <1>7. Quiet(e, {}) /\ Has(e, Unmount("log")) /\ Has(e, Unmount("root"))
    <2>1. /\ Len(e) = 2 /\ e[1] = Unmount("log") /\ e[2] = Unmount("root")
          /\ e \in Seq(StepSet)
      BY <1>0 DEF Unmount, Places
    <2> HIDE DEF e
    <2> QED
      BY <2>1 DEF Quiet, Piece, GoesOn, Leaves, NoOsmosis, NoneOf, Has, Start, Tell, Waits,
                  Unmount
  <1> HIDE DEF a, b, c, d, e
  <1> DEFINE f == ((a \o LogOnRoot) \o b) \o c
  <1>8. Quiet(f, {"root", "log"})
    <2>1. Quiet(a \o LogOnRoot, {"root", "log"})
      BY <1>1, <1>2, CatPiece DEF Quiet
    <2>2. Quiet((a \o LogOnRoot) \o b, {"root", "log"})
      BY <1>3, <2>1, CatPiece DEF Quiet
    <2> QED
      BY <1>4, <2>2, CatPiece DEF Quiet
  <1> HIDE DEF f
  <1> DEFINE D == DoOsmosisFromSource
             B == CreateBootAndInstallGrub
  <1>9. Piece(f \o D, {"root", "log"}) /\ Osmoses(f \o D)
    BY <1>8, SourcePiece, CatPiece, CatOsmoses DEF Quiet, Piece
  <1>10. Piece((f \o D) \o B, {"root", "log"}) /\ Osmoses((f \o D) \o B)
    BY <1>9, BootPiece, CatPiece, CatOsmoses DEF Quiet, Piece
  <1>11. Piece(((f \o D) \o B) \o d, {"root", "log"}) /\ Osmoses(((f \o D) \o B) \o d)
    BY <1>5, <1>10, CatPiece, CatOsmoses DEF Quiet, Piece
  <1>12. /\ Piece((((f \o D) \o B) \o d) \o AdditionalDownload, {"root", "log"})
         /\ Osmoses((((f \o D) \o B) \o d) \o AdditionalDownload)
    BY <1>6, <1>11, CatPiece, CatOsmoses DEF Quiet, Piece
  <1>13. /\ Piece(((((f \o D) \o B) \o d) \o AdditionalDownload) \o e, {})
         /\ Osmoses(((((f \o D) \o B) \o d) \o AdditionalDownload) \o e)
    <2> DEFINE g == (((f \o D) \o B) \o d) \o AdditionalDownload
    <2>1. /\ Piece(g, {"root", "log"}) /\ Osmoses(g) /\ Piece(e, {}) /\ NoOsmosis(e)
          /\ \A x \in {"root", "log"} : Has(e, Unmount(x))
      BY <1>7, <1>12 DEF Quiet
    <2> HIDE DEF g
    <2>2. Piece(g \o e, {})
      BY <2>1, CatPiece
    <2>3. Osmoses(g \o e)
      BY <2>1, CatOsmoses DEF Piece
    <2> QED
      BY <2>2, <2>3 DEF g
  <1> QED
    BY <1>13 DEF CeremonyStage, a, b, c, d, e, f

LEMMA FinalPiece ==
  ASSUME args \in Args
  PROVE  /\ FinalStage \in Seq(StepSet) /\ Leaves(FinalStage, {})
         /\ NoOsmosis(FinalStage) /\ Ends(FinalStage)
  <1> DEFINE a == <<<<"run", "sync">>>>
             b == <<<<"run", "sync">>, <<"run", "dropCaches">>, <<"mount", "root">>,
                    <<"verify", "it">>, <<"umount", "root">>>>
             d == <<<<"done", "it">>>>
             e == <<<<"end", args.final>>>>
  <1>0. /\ \A x \in Places : <<"mount", x>> \in StepSet /\ <<"umount", x>> \in StepSet
        /\ \A x \in Commands : <<"run", x>> \in StepSet
        /\ \A x \in Others : <<x, "it">> \in StepSet
        /\ <<"end", args.final>> \in StepSet
    BY DEF StepSet, Args, Finals
  <1>1. Quiet(a, {})
    BY <1>0 DEF Quiet, Piece, GoesOn, Leaves, NoOsmosis, NoneOf, Start, Tell, Waits, Commands
  <1>2. Quiet(VerifyIfAsked, {})
    <2>1. /\ Len(b) = 5 /\ b[1] = <<"run", "sync">> /\ b[2] = <<"run", "dropCaches">>
          /\ b[3] = <<"mount", "root">> /\ b[4] = <<"verify", "it">>
          /\ b[5] = Unmount("root") /\ b \in Seq(StepSet)
      BY <1>0 DEF Unmount, Commands, Places, Others
    <2> HIDE DEF b
    <2>2. Quiet(b, {})
      BY <2>1 DEF Quiet, Piece, GoesOn, Leaves, NoOsmosis, NoneOf, Start, Tell, Waits, Unmount
    <2>3. Quiet(If(args.quirk = "verify", b), {})
      BY <2>2, IfPiece
    <2> QED
      BY <2>3 DEF VerifyIfAsked, b
  <1>3. /\ If(args.final = "kexec", d) \o e \in Seq(StepSet)
        /\ Leaves(If(args.final = "kexec", d) \o e, {})
        /\ NoOsmosis(If(args.final = "kexec", d) \o e) /\ Ends(If(args.final = "kexec", d) \o e)
    <2>1. /\ e \in Seq(StepSet) /\ Leaves(e, {}) /\ NoOsmosis(e) /\ Ends(e)
      BY <1>0 DEF Leaves, NoOsmosis, NoneOf, Ends, Start, Tell, Waits
    <2>2. CASE args.final = "kexec"
      <3> DEFINE s == d \o e
      <3>1. If(args.final = "kexec", d) \o e = s
        BY <2>2 DEF If
      <3>2. /\ Len(s) = 2 /\ s[1] = <<"done", "it">> /\ s[2] = <<"end", args.final>>
            /\ s \in Seq(StepSet)
        <4>1. /\ d \in Seq(StepSet) /\ Len(d) = 1 /\ d[1] = <<"done", "it">>
              /\ Len(e) = 1 /\ e[1] = <<"end", args.final>>
          BY <1>0 DEF Others
        <4> HIDE DEF d, e
        <4>2. /\ d \o e \in Seq(StepSet) /\ Len(d \o e) = 2
              /\ (d \o e)[1] = d[1] /\ (d \o e)[1 + 1] = e[1]
          <5>1. d \o e \in Seq(StepSet) /\ Len(d \o e) = Len(d) + Len(e)
            BY <2>1, <4>1, Cat
          <5>2. \A i \in 1 .. Len(d) : (d \o e)[i] = d[i]
            BY <2>1, <4>1, Cat
          <5>3. \A i \in 1 .. Len(e) : (d \o e)[Len(d) + i] = e[i]
            BY <2>1, <4>1, Cat
          <5> QED
            BY <4>1, <5>1, <5>2, <5>3
        <4> QED
          BY <4>1, <4>2
      <3> HIDE DEF s, d, e
      <3>3. Leaves(s, {}) /\ NoOsmosis(s) /\ Ends(s)
        BY <3>2 DEF Leaves, NoOsmosis, NoneOf, Ends, Start, Tell, Waits
      <3> QED
        BY <3>1, <3>2, <3>3
    <2>3. CASE args.final # "kexec"
      <3> HIDE DEF e
      <3>1. If(args.final = "kexec", d) = <<>>
        BY <2>3 DEF If
      <3>2. <<>> \o e = e
        BY <2>1, ConcatEmptySeq
      <3> QED
        BY <2>1, <3>1, <3>2
    <2> QED
      BY <2>2, <2>3
  <1>4. Quiet(a \o VerifyIfAsked, {})
    BY <1>1, <1>2, CatPiece DEF Quiet
  <1>5. FinalStage = (a \o VerifyIfAsked) \o (If(args.final = "kexec", d) \o e)
    <2>1. If(args.final = "kexec", d) \in Seq(StepSet) /\ e \in Seq(StepSet)
      BY <1>0 DEF If, Others
    <2>2. (a \o VerifyIfAsked) \in Seq(StepSet)
      BY <1>4 DEF Quiet, Piece
    <2> DEFINE g == a \o VerifyIfAsked
               h == If(args.final = "kexec", d)
    <2>3. FinalStage = (g \o h) \o e
      BY DEF FinalStage
    <2> HIDE DEF g, h, e
    <2>4. (g \o h) \o e = g \o (h \o e)
      BY <2>1, <2>2, ConcatAssociative DEF g, h
    <2> QED
      BY <2>3, <2>4 DEF g, h
  <1> HIDE DEF a, d, e
  <1> QED
    <2> DEFINE g == a \o VerifyIfAsked
               h == If(args.final = "kexec", d) \o e
    <2> HIDE DEF g, h
    <2>1. /\ g \in Seq(StepSet) /\ GoesOn(g) /\ Leaves(g, {}) /\ NoOsmosis(g)
      BY <1>4 DEF Quiet, Piece, g
    <2>2. /\ h \in Seq(StepSet) /\ Leaves(h, {}) /\ NoOsmosis(h) /\ Ends(h)
      BY <1>3 DEF h
    <2>3. g \o h \in Seq(StepSet) /\ NoOsmosis(g \o h)
      BY <2>1, <2>2, Cat, CatQuiet
    <2>4. Leaves(g \o h, {})
      BY <2>1, <2>2, CatLeaves
    <2>5. Ends(g \o h)
      BY <2>1, <2>2, CatEnds
    <2> QED
      BY <1>5, <2>3, <2>4, <2>5 DEF g, h

\* Whatever the arguments are: what is mounted is unmounted later, osmosis is
\* started, told the label once and waited for, and the station is left at the
\* very end.
LEMMA ScriptShape ==
  ASSUME args \in Args
  PROVE  /\ Script \in Seq(StepSet) /\ Len(Script) \in Nat
         /\ Leaves(Script, {}) /\ Osmoses(Script) /\ Ends(Script)
  <1> DEFINE a == <<<<"args", "it">>>>
  <1>1. Quiet(a, {})
    <2>1. <<"args", "it">> \in StepSet
      BY DEF StepSet, Others
    <2> QED
      BY <2>1 DEF Quiet, Piece, GoesOn, Leaves, NoOsmosis, NoneOf, Start, Tell, Waits
  <1> HIDE DEF a
  <1>2. Piece(a \o CeremonyStage, {}) /\ Osmoses(a \o CeremonyStage)
    BY <1>1, StagePiece, CatPiece, CatOsmoses DEF Quiet, Piece
  <1>3. Script = (a \o CeremonyStage) \o FinalStage
    BY DEF Script, a
  <1> DEFINE g == a \o CeremonyStage
             h == FinalStage
  <1> HIDE DEF g, h
  <1>4. g \in Seq(StepSet) /\ GoesOn(g) /\ Leaves(g, {}) /\ Osmoses(g)
    BY <1>2 DEF Piece, g
  <1>5. h \in Seq(StepSet) /\ Leaves(h, {}) /\ NoOsmosis(h) /\ Ends(h)
    BY FinalPiece DEF h
  <1>6. g \o h \in Seq(StepSet) /\ Len(g \o h) \in Nat
    BY <1>4, <1>5, Cat
  <1>7. Leaves(g \o h, {})
    BY <1>4, <1>5, CatLeaves
  <1>8. Osmoses(g \o h) /\ Ends(g \o h)
    BY <1>4, <1>5, CatOsmoses, CatEnds
  <1> QED
    BY <1>3, <1>6, <1>7, <1>8 DEF g, h

-------------------------------------------------------------------------------
(* Type correctness *)

LEMMA ScriptStays ==
  ASSUME UNCHANGED args
  PROVE  Script' = Script
  BY DEF Script, CeremonyStage, FinalStage, DoOsmosisFromSource, CreateBootAndInstallGrub,
         LogOnRoot, AdditionalDownload, VerifyIfAsked, If

\* The step that is next
LEMMA StepAt ==
  ASSUME TypeOK
  PROVE  /\ Script[at] \in StepSet /\ Len(Script) \in Nat /\ at \in 1 .. Len(Script)
         /\ Script[at][1] # "end" => at + 1 \in 1 .. Len(Script)
         /\ Script[at][1] \in {"mount", "umount"} => Script[at][2] \in Places
         /\ Script[at][1] = "end" => Script[at][2] \in Finals
  <1>1. /\ args \in Args /\ at \in 1 .. Len(Script)
    BY DEF TypeOK
  <1>2. /\ Script \in Seq(StepSet) /\ Len(Script) \in Nat /\ Ends(Script)
    BY <1>1, ScriptShape
  <1>3. Script[at] \in StepSet
    BY <1>1, <1>2, ElementOfSeq
  <1>4. Script[at][1] # "end" => at + 1 \in 1 .. Len(Script)
    BY <1>1, <1>2 DEF Ends
  <1>5. /\ Script[at][1] \in {"mount", "umount"} => Script[at][2] \in Places
        /\ Script[at][1] = "end" => Script[at][2] \in Finals
    BY <1>3 DEF StepSet, Others
  <1> QED
    BY <1>1, <1>2, <1>3, <1>4, <1>5

\* What a step of the main thread that fails does
Raised ==
  /\ outcome = "running" /\ outcome' \in {"raised", "waiting"}
  /\ UNCHANGED <<args, at, osmosis, thread, connected, written>>
  /\ inUse' \subseteq inUse
  /\ \/ heard' = heard
     \/ heard' = heard \cup {"sick"} /\ Script[at][1] = "smart"
     \/ /\ heard' = heard \cup {"failed"} /\ ~rebootCalled
        /\ Script[at][1] = "osmosis" /\ args.source = "network"
  /\ \/ faults' = faults + 1 /\ faults < MaxFaults
     \/ /\ UNCHANGED faults
        /\ \/ Script[at][1] # "osmosis" \/ args.source # "network"
           \/ Script[at] = Tell /\ osmosis # "started"
           \/ Script[at] = Waits /\ osmosis \in {"failed", "killed"}

\* ... one that goes on
WentOn ==
  /\ outcome = "running" /\ GoOn /\ Script[at][1] # "end"
  /\ UNCHANGED <<args, faults, rebootCalled>>
  /\ written' \in BOOLEAN /\ connected' \in BOOLEAN
  /\ debug' \in {debug, "listen"}
  /\ \/ UNCHANGED <<inUse, heard, osmosis>> /\ Script[at] = Waits /\ osmosis = "succeeded"
     \/ /\ UNCHANGED <<inUse, osmosis>>
        /\ heard' \in {heard, heard \cup {"checkin"}, heard \cup {"sick"}}
        /\ Script[at] \notin {Start, Tell, Waits}
        /\ Script[at][1] \notin {"mount", "umount", "done", "end"}
     \/ /\ UNCHANGED <<inUse, osmosis>> /\ heard' \in {heard, heard \cup {"done"}}
        /\ Script[at][1] = "done"
     \/ /\ UNCHANGED <<heard, osmosis>> /\ inUse' = inUse \cup {Script[at][2]}
        /\ Script[at][1] = "mount"
     \/ /\ UNCHANGED <<heard, osmosis>> /\ inUse' = inUse \ {Script[at][2]}
        /\ Script[at][1] = "umount"
     \/ /\ UNCHANGED <<inUse, heard>> /\ Script[at] = Start /\ osmosis' = "started"
     \/ /\ UNCHANGED <<inUse, heard>> /\ Script[at] = Tell /\ osmosis = "started"
        /\ osmosis' = "running"

\* The steps of the program are these: one that fails, one that goes on, the last
\* one, and those of osmosis and of the debug thread.
LEMMA Steps ==
  ASSUME TypeOK, [Next]_vars
  PROVE  \/ UNCHANGED vars \/ Raised \/ WentOn \/ End \/ OsmosisEnds \/ CommandREBOOT
         \/ KillOsmosis \/ RebootNow \/ RebootFails
  <1>0. /\ Start # Tell /\ Start # Waits /\ Tell # Waits
        /\ \A x : x \in {Start, Tell, Waits} => x[1] = "osmosis"
    BY DEF Start, Tell, Waits
  <1>1. ASSUME Raise, outcome = "running", UNCHANGED <<args, osmosis, thread, faults>>,
               \/ Script[at][1] # "osmosis" \/ args.source # "network"
               \/ Script[at] = Tell /\ osmosis # "started"
               \/ Script[at] = Waits /\ osmosis \in {"failed", "killed"}
        PROVE  Raised
    BY <1>1 DEF Raise, RaiseHavingTold, Raised, Caught
  <1>2. ASSUME StepFails
        PROVE  Raised
    BY <1>2 DEF StepFails, Raise, RaiseHavingTold, Raised, Caught
  <1>3. ASSUME Step
        PROVE  Raised \/ WentOn \/ End
    <2> USE DEF WentOn, Does, DoesStep, thread
    <2>1. CASE AssertArgsSane
      BY <1>0, <1>1, <2>1 DEF AssertArgsSane, TypeOK
    <2>2. CASE Run \/ Label \/ DisableNCQ
      BY <1>0, <2>2 DEF Run, Label, DisableNCQ, TypeOK, Start, Tell, Waits
    <2>3. CASE Disk
      BY <1>0, <1>1, <2>3 DEF Disk, TypeOK
    <2>4. CASE MountIt
      BY <1>0, <2>4 DEF MountIt, TypeOK
    <2>5. CASE Umount
      BY <1>0, <1>1, <2>5 DEF Umount, TypeOK
    <2>6. CASE InitializeNetworkIfNeeded
      BY <1>0, <1>1, <2>6 DEF InitializeNetworkIfNeeded, TypeOK, Args
    <2>7. CASE ReadSmartData
      <3> DEFINE sick == args.quirk \in {"sickTarget", "sickOther"}
                 told == heard \cup {x \in {"sick"} : sick /\ connected}
      <3>1. told \in {heard, heard \cup {"sick"}}
        BY Zenon
      <3>2. /\ Script[at][1] = "smart" /\ outcome = "running"
            /\ UNCHANGED <<args, osmosis, thread, faults>>
            /\ \/ RaiseHavingTold(told)
               \/ heard' = told /\ GoOn /\ UNCHANGED <<inUse, written, connected>>
        BY <2>7 DEF ReadSmartData
      <3> HIDE DEF told
      <3>3. CASE RaiseHavingTold(told)
        BY <3>1, <3>2, <3>3 DEF RaiseHavingTold, Raised, Caught
      <3>4. CASE heard' = told /\ GoOn /\ UNCHANGED <<inUse, written, connected>>
        BY <1>0, <3>1, <3>2, <3>4 DEF TypeOK
      <3> QED
        BY <3>2, <3>3, <3>4
    <2>8. CASE Cleanup \/ VerifyRaises
      BY <1>0, <1>1, <2>8 DEF Cleanup, VerifyRaises
    <2>9. CASE StartDebugThread
      BY <1>0, <2>9 DEF StartDebugThread, TypeOK
    <2>10. CASE CheckIn
      BY <1>0, <1>1, <2>10 DEF CheckIn, TypeOK
    <2>11. CASE StartOsmosis
      BY <1>0, <1>1, <2>11 DEF StartOsmosis, TypeOK, Start
    <2>12. CASE TellLabel
      BY <1>0, <1>1, <2>12 DEF TellLabel, TypeOK, Tell
    <2>13. CASE Wait
      BY <1>0, <1>1, <2>13 DEF Wait, TypeOK, Waits
    <2>14. CASE Done
      BY <1>0, <2>14 DEF Done, TypeOK
    <2> QED
      BY <1>3, <2>1, <2>2, <2>3, <2>4, <2>5, <2>6, <2>7, <2>8, <2>9, <2>10, <2>11, <2>12,
         <2>13, <2>14 DEF Step
  <1> QED
    BY <1>2, <1>3 DEF Next, DebugThread, Stopped

LEMMA NextTypeOK == TypeOK /\ [Next]_vars => TypeOK'
  <1> SUFFICES ASSUME TypeOK, [Next]_vars PROVE TypeOK'
    OBVIOUS
  <1>1. UNCHANGED args /\ Script' = Script
    <2>1. UNCHANGED args
      BY Steps DEF Raised, WentOn, End, OsmosisEnds, CommandREBOOT, KillOsmosis, RebootNow,
                   RebootFails, vars
    <2> QED
      BY <2>1, ScriptStays
  <1>2. CASE UNCHANGED vars
    BY <1>1, <1>2 DEF vars, main, thread, TypeOK
  <1>3. CASE Raised
    <2>1. faults' \in 0 .. MaxFaults
      BY <1>3, FaultsAssumption DEF Raised, TypeOK
    <2>2. heard' \subseteq {"checkin", "sick", "failed", "done"} /\ outcome' \in Outcomes
      BY <1>3 DEF Raised, TypeOK, Outcomes
    <2>3. UNCHANGED <<args, at, written, connected, osmosis, debug, rebootCalled>>
            /\ inUse' \subseteq inUse
      BY <1>3 DEF Raised, thread
    <2> QED
      BY <1>1, <2>1, <2>2, <2>3 DEF TypeOK
  <1>4. CASE WentOn
    <2>1. at' \in 1 .. Len(Script)
      BY <1>4, StepAt DEF WentOn, GoOn
    <2> QED
      BY <1>1, <1>4, <2>1, StepAt DEF WentOn, GoOn, TypeOK, Places
  <1>5. CASE End
    BY <1>1, <1>5, StepAt DEF End, Does, thread, TypeOK, Outcomes, Finals
  <1>6. CASE OsmosisEnds \/ CommandREBOOT \/ KillOsmosis \/ RebootNow \/ RebootFails
    <2>1. CASE OsmosisEnds
      BY <1>1, <2>1 DEF OsmosisEnds, main, thread, TypeOK
    <2>2. CASE CommandREBOOT
      BY <1>1, <2>2 DEF CommandREBOOT, main, TypeOK
    <2>3. CASE KillOsmosis
      BY <1>1, <2>3 DEF KillOsmosis, main, TypeOK
    <2>4. CASE RebootNow
      BY <1>1, <2>4 DEF RebootNow, thread, TypeOK, Outcomes
    <2>5. CASE RebootFails
      <3>1. faults' \in 0 .. MaxFaults
        BY <2>5, FaultsAssumption DEF RebootFails, TypeOK
      <3> QED
        BY <1>1, <2>5, <3>1 DEF RebootFails, main, TypeOK
    <2> QED
      BY <1>6, <2>1, <2>2, <2>3, <2>4, <2>5
  <1> QED
    BY <1>2, <1>3, <1>4, <1>5, <1>6, Steps

LEMMA InitTypeOK == Init => TypeOK
  <1> SUFFICES ASSUME Init PROVE TypeOK
    OBVIOUS
  <1>1. 1 \in 1 .. Len(Script)
    BY ScriptShape DEF Init, Ends
  <1> QED
    <2>1. 0 \in 0 .. MaxFaults
      BY FaultsAssumption
    <2> QED
      BY <1>1, <2>1 DEF Init, TypeOK, Outcomes

\* The variables keep their types: whatever the arguments are, the main thread
\* never runs off the end of its script.
THEOREM TypeCorrect == Safety => []TypeOK
  BY InitTypeOK, NextTypeOK, PTL DEF Safety

-------------------------------------------------------------------------------
(* What the server is told *)

Behind(step) == \E j \in 1 .. at - 1 : Script[j] = step

\* While the main thread runs, what is in use is still to be unmounted, ...
UnmountAhead ==
  outcome = "running" =>
    \A x \in inUse : \E j \in at .. Len(Script) : Script[j] = Unmount(x)

\* ... osmosis has succeeded once it was waited for, ...
SucceededBehind == outcome = "running" /\ Behind(Waits) => osmosis = "succeeded"

\* ... and nobody was told of a failure.
FailedStops == "failed" \in heard => outcome # "running"

\* Who was told that the station is done has it in its last step.
DoneAtEnd ==
  "done" \in heard => /\ inUse = {} /\ osmosis = "succeeded" /\ "failed" \notin heard
                      /\ Script[at][1] = "end"

\* Osmosis runs only after it was told the label, and has been there since its
\* start; it is killed only after the reboot was called.
ToldBehind == osmosis \in {"running", "succeeded"} => Behind(Tell)
StartedBehind == Behind(Start) => osmosis # "none"
KilledByReboot == debug \in {"kill", "reboot"} \/ osmosis = "killed" => rebootCalled

\* A failure that is reported, and was none of the other steps', is that of osmosis.
FailureOfOsmosis == "failed" \in heard /\ faults = 0 => osmosis = "failed"

Inv ==
  /\ UnmountAhead /\ SucceededBehind /\ FailedStops /\ DoneAtEnd /\ ToldBehind
  /\ StartedBehind /\ KilledByReboot /\ FailureOfOsmosis /\ DoneMeansInstalled

LEMMA InitInv == Init => Inv
  <1> SUFFICES ASSUME Init PROVE Inv
    OBVIOUS
  <1>1. \A step : ~Behind(step)
    BY DEF Init, Behind
  <1> QED
    BY <1>1 DEF Init, Inv, UnmountAhead, SucceededBehind, FailedStops, DoneAtEnd, ToldBehind,
       StartedBehind, KilledByReboot, FailureOfOsmosis, DoneMeansInstalled

\* A step that goes on is behind then.
LEMMA GoneOn ==
  ASSUME TypeOK, WentOn
  PROVE  /\ Script' = Script /\ at' = at + 1 /\ UNCHANGED outcome
         /\ \A step : Behind(step)' <=> Behind(step) \/ Script[at] = step
  <1>1. Script' = Script /\ at' = at + 1 /\ UNCHANGED outcome
    BY ScriptStays DEF WentOn, GoOn
  <1>2. at \in 1 .. Len(Script) /\ Len(Script) \in Nat
    BY StepAt
  <1>3. \A j : j \in 1 .. at' - 1 <=> j \in 1 .. at - 1 \/ j = at
    BY <1>1, <1>2
  <1> QED
    BY <1>1, <1>3 DEF Behind

\* Before the last steps everything is unmounted, and osmosis has succeeded.
LEMMA BeforeEnd ==
  ASSUME TypeOK, Inv, outcome = "running", Script[at][1] \in {"done", "end"}
  PROVE  inUse = {} /\ osmosis = "succeeded" /\ "failed" \notin heard
  <1>1. /\ Len(Script) \in Nat /\ at \in 1 .. Len(Script) /\ Osmoses(Script) /\ Ends(Script)
    BY ScriptShape, StepAt DEF TypeOK
  <1>2. ASSUME NEW j \in 1 .. Len(Script), Script[j][1] \notin {"done", "end"}
        PROVE  j < at
    <2>1. j # at /\ j # Len(Script)
      BY <1>1, <1>2 DEF Ends
    <2>2. at \in {Len(Script) - 1, Len(Script)}
      BY <1>1 DEF Ends
    <2> QED
      BY <1>1, <2>1, <2>2
  <1>3. inUse = {}
    <2> SUFFICES ASSUME NEW x \in inUse PROVE FALSE
      OBVIOUS
    <2>1. PICK j \in at .. Len(Script) : Script[j] = Unmount(x)
      BY DEF Inv, UnmountAhead
    <2>2. j \in 1 .. Len(Script) /\ ~(j < at)
      BY <1>1
    <2> QED
      BY <1>2, <2>1, <2>2 DEF Unmount
  <1>4. Behind(Waits)
    <2>1. PICK j \in 1 .. Len(Script) : Script[j] = Waits
      BY <1>1 DEF Osmoses, Has
    <2>2. j < at
      BY <1>2, <2>1 DEF Waits
    <2> QED
      BY <1>1, <2>1, <2>2 DEF Behind
  <1> QED
    BY <1>3, <1>4 DEF Inv, SucceededBehind, FailedStops

LEMMA WentOnInv ==
  ASSUME TypeOK, Inv, WentOn
  PROVE  Inv'
  <1>1. /\ Script' = Script /\ at' = at + 1 /\ UNCHANGED outcome /\ outcome = "running"
        /\ \A step : Behind(step)' <=> Behind(step) \/ Script[at] = step
    BY GoneOn DEF WentOn
  <1>2. /\ Script[at] \in StepSet /\ Len(Script) \in Nat /\ at \in 1 .. Len(Script)
        /\ Script \in Seq(StepSet) /\ Leaves(Script, {}) /\ Osmoses(Script) /\ Ends(Script)
    BY StepAt, ScriptShape DEF TypeOK
  <1>3. /\ Start # Tell /\ Start # Waits /\ Tell # Waits
        /\ Start[1] = "osmosis" /\ Tell[1] = "osmosis" /\ Waits[1] = "osmosis"
    BY DEF Start, Tell, Waits
  <1>4. "failed" \notin heard /\ "failed" \notin heard'
    BY <1>1 DEF WentOn, Inv, FailedStops
  <1>5. UnmountAhead'
    <2> SUFFICES ASSUME NEW x \in inUse'
                 PROVE  \E j \in at + 1 .. Len(Script) : Script[j] = Unmount(x)
      BY <1>1 DEF UnmountAhead
    <2>1. CASE x \in inUse
      <3>1. PICK j \in at .. Len(Script) : Script[j] = Unmount(x)
        BY <1>1, <2>1 DEF Inv, UnmountAhead
      <3>2. Script[at] # Unmount(x)
        <4> SUFFICES ASSUME Script[at] = Unmount(x) PROVE FALSE
          OBVIOUS
        <4>1. Script[at][1] = "umount" /\ Script[at][2] = x
          BY DEF Unmount
        <4>2. inUse' = inUse \ {x}
          BY <1>3, <4>1 DEF WentOn
        <4> QED
          BY <4>2
      <3>3. j # at
        BY <3>1, <3>2
      <3> QED
        BY <1>2, <3>1, <3>3
    <2>2. CASE x \notin inUse
      <3>1. Script[at][1] = "mount" /\ x = Script[at][2]
        BY <2>2 DEF WentOn
      <3>2. PICK j \in 1 .. Len(Script) : at < j /\ Script[j] = Unmount(x)
        BY <1>2, <3>1 DEF Leaves
      <3> QED
        BY <1>2, <3>2
    <2> QED
      BY <2>1, <2>2
  <1>6. SucceededBehind'
    <2>1. CASE Script[at] = Waits
      BY <1>1, <1>3, <2>1 DEF WentOn, SucceededBehind
    <2>2. CASE Behind(Waits) /\ Script[at] # Waits
      <3>1. osmosis = "succeeded"
        BY <1>1, <2>2 DEF Inv, SucceededBehind
      <3>2. Script[at] # Start
        BY <1>2, <2>2 DEF Behind, Osmoses
      <3> QED
        BY <3>1, <3>2 DEF WentOn, SucceededBehind
    <2>3. CASE ~Behind(Waits) /\ Script[at] # Waits
      BY <1>1, <2>3 DEF SucceededBehind
    <2> QED
      BY <2>1, <2>2, <2>3
  <1>7. DoneAtEnd'
    <2> SUFFICES ASSUME "done" \in heard'
                 PROVE  /\ inUse' = {} /\ osmosis' = "succeeded" /\ Script[at + 1][1] = "end"
      BY <1>1, <1>4 DEF DoneAtEnd
    <2>1. "done" \notin heard
      BY DEF WentOn, Inv, DoneAtEnd
    <2>2. Script[at][1] = "done" /\ UNCHANGED <<inUse, osmosis>>
      BY <2>1 DEF WentOn
    <2>3. Script[at + 1][1] = "end"
      BY <1>2, <2>2 DEF Ends
    <2> QED
      BY <1>1, <2>2, <2>3, BeforeEnd
  <1>8. ToldBehind'
    <2>1. CASE Script[at] = Tell
      BY <1>1, <2>1 DEF ToldBehind
    <2>2. CASE Script[at] # Tell
      BY <1>1, <1>3, <2>2 DEF WentOn, Inv, ToldBehind
    <2> QED
      BY <2>1, <2>2
  <1>9. StartedBehind'
    <2>1. CASE UNCHANGED osmosis /\ Script[at] # Start
      BY <1>1, <2>1 DEF Inv, StartedBehind
    <2>2. CASE osmosis' \in {"started", "running"}
      BY <2>2 DEF StartedBehind
    <2> QED
      BY <1>3, <2>1, <2>2 DEF WentOn
  <1>10. KilledByReboot'
    BY DEF WentOn, Inv, KilledByReboot
  <1>11. FailedStops' /\ FailureOfOsmosis'
    BY <1>4 DEF FailedStops, FailureOfOsmosis
  <1>12. DoneMeansInstalled'
    BY <1>1, <1>4, <1>7 DEF DoneAtEnd, DoneMeansInstalled
  <1> QED
    BY <1>5, <1>6, <1>7, <1>8, <1>9, <1>10, <1>11, <1>12 DEF Inv

LEMMA RaisedInv ==
  ASSUME TypeOK, Inv, Raised
  PROVE  Inv'
  <1>1. /\ Script' = Script /\ UNCHANGED <<args, at, osmosis, debug, rebootCalled>>
        /\ outcome = "running" /\ outcome' \in {"raised", "waiting"} /\ inUse' \subseteq inUse
        /\ \A step : Behind(step)' <=> Behind(step)
    BY ScriptStays DEF Raised, thread, Behind
  <1>2. "failed" \notin heard
    BY <1>1 DEF Inv, FailedStops
  <1>3. UnmountAhead' /\ SucceededBehind' /\ FailedStops'
    BY <1>1 DEF UnmountAhead, SucceededBehind, FailedStops
  <1>4. ToldBehind' /\ StartedBehind' /\ KilledByReboot'
    BY <1>1 DEF Inv, ToldBehind, StartedBehind, KilledByReboot
  <1>5. DoneAtEnd' /\ DoneMeansInstalled'
    <2>1. CASE "done" \in heard
      <3>1. UNCHANGED heard
        BY <2>1 DEF Raised, Inv, DoneAtEnd
      <3> QED
        BY <1>1, <2>1, <3>1 DEF Inv, DoneAtEnd, DoneMeansInstalled
    <2>2. CASE "done" \notin heard
      BY <1>1, <2>2 DEF Raised, DoneAtEnd, DoneMeansInstalled
    <2> QED
      BY <2>1, <2>2
  <1>6. FailureOfOsmosis'
    <2> SUFFICES ASSUME "failed" \in heard', faults' = 0
                 PROVE  osmosis = "failed"
      BY <1>1 DEF FailureOfOsmosis
    <2>1. Script[at][1] = "osmosis" /\ ~rebootCalled /\ args.source = "network"
      BY <1>2 DEF Raised
    <2>2. UNCHANGED faults
      BY FaultsAssumption DEF Raised, TypeOK
    <2>3. osmosis # "killed"
      BY <2>1 DEF Inv, KilledByReboot
    <2>4. CASE Script[at] = Waits /\ osmosis \in {"failed", "killed"}
      BY <2>3, <2>4
    <2>5. CASE Script[at] = Tell /\ osmosis # "started"
      <3>1. /\ Osmoses(Script) /\ Len(Script) \in Nat /\ at \in 1 .. Len(Script)
        BY ScriptShape, StepAt DEF TypeOK
      <3>2. ~Behind(Tell)
        BY <2>5, <3>1 DEF Osmoses, Behind
      <3>3. PICK j \in 1 .. Len(Script) : j < at /\ Script[j] = Start
        BY <2>5, <3>1 DEF Osmoses
      <3>4. Behind(Start)
        BY <3>1, <3>3 DEF Behind
      <3> QED
        BY <2>3, <2>5, <3>2, <3>4 DEF Inv, ToldBehind, StartedBehind, TypeOK
    <2> QED
      BY <2>1, <2>2, <2>4, <2>5, FaultsAssumption DEF Raised, TypeOK
  <1> QED
    BY <1>3, <1>4, <1>5, <1>6 DEF Inv

LEMMA EndInv ==
  ASSUME TypeOK, Inv, End
  PROVE  Inv'
  <1>1. /\ Script' = Script /\ UNCHANGED <<at, inUse, heard, osmosis, debug, rebootCalled, faults>>
        /\ outcome = "running" /\ Script[at][1] = "end" /\ outcome' # "running"
        /\ \A step : Behind(step)' <=> Behind(step)
    BY ScriptStays, StepAt DEF End, Does, thread, Behind, Finals
  <1>2. inUse = {} /\ osmosis = "succeeded" /\ "failed" \notin heard
    BY <1>1, BeforeEnd
  <1> QED
    BY <1>1, <1>2 DEF Inv, UnmountAhead, SucceededBehind, FailedStops, DoneAtEnd, ToldBehind,
       StartedBehind, KilledByReboot, FailureOfOsmosis, DoneMeansInstalled

\* Osmosis and the debug thread
LEMMA OutsideInv ==
  ASSUME TypeOK, Inv, OsmosisEnds \/ CommandREBOOT \/ KillOsmosis \/ RebootNow \/ RebootFails
  PROVE  Inv'
  <1>1. /\ Script' = Script /\ UNCHANGED <<at, inUse, heard>>
        /\ UNCHANGED faults \/ faults' # 0
        /\ outcome' \in {outcome, "reset"} /\ Up
        /\ \A step : Behind(step)' <=> Behind(step)
    <2>1. CASE RebootFails
      <3>1. UNCHANGED <<args, at, outcome, inUse, heard>> /\ Up
        BY <2>1 DEF RebootFails, main, Alive
      <3>2. faults' # 0
        BY <2>1, FaultsAssumption DEF RebootFails, TypeOK
      <3> QED
        BY <3>1, <3>2, ScriptStays DEF Behind
    <2>2. CASE OsmosisEnds \/ CommandREBOOT \/ KillOsmosis \/ RebootNow
      BY <2>2, ScriptStays
         DEF OsmosisEnds, CommandREBOOT, KillOsmosis, RebootNow, main, Alive, Behind
    <2> QED
      BY <2>1, <2>2
  <1>2. /\ osmosis \in {"succeeded", "failed", "killed", "none"} => UNCHANGED osmosis
        /\ osmosis' \in {osmosis, "succeeded", "failed", "killed"}
        /\ osmosis' = "succeeded" => osmosis \in {"running", "succeeded"}
        /\ osmosis' = "running" => osmosis = "running"
    BY DEF OsmosisEnds, CommandREBOOT, KillOsmosis, RebootNow, RebootFails, thread
  <1>3. UnmountAhead' /\ SucceededBehind' /\ FailedStops' /\ DoneAtEnd'
    BY <1>1, <1>2 DEF Inv, UnmountAhead, SucceededBehind, FailedStops, DoneAtEnd
  <1>4. ToldBehind' /\ StartedBehind' /\ FailureOfOsmosis'
    BY <1>1, <1>2 DEF Inv, ToldBehind, StartedBehind, FailureOfOsmosis
  <1>5. KilledByReboot'
    BY DEF OsmosisEnds, CommandREBOOT, KillOsmosis, RebootNow, RebootFails, thread, Inv,
           KilledByReboot
  <1>6. DoneMeansInstalled'
    BY <1>1, <1>2 DEF Inv, DoneMeansInstalled, DoneAtEnd, Up
  <1> QED
    BY <1>3, <1>4, <1>5, <1>6 DEF Inv

LEMMA NextInv == TypeOK /\ Inv /\ [Next]_vars => Inv'
  <1> SUFFICES ASSUME TypeOK, Inv, [Next]_vars PROVE Inv'
    OBVIOUS
  <1>1. CASE UNCHANGED vars
    <2>1. /\ Script' = Script /\ UNCHANGED <<at, outcome, inUse, heard, osmosis, debug>>
          /\ UNCHANGED <<rebootCalled, faults>> /\ \A step : Behind(step)' <=> Behind(step)
      BY <1>1, ScriptStays DEF vars, main, thread, Behind
    <2> QED
      BY <2>1 DEF Inv, UnmountAhead, SucceededBehind, FailedStops, DoneAtEnd, ToldBehind,
         StartedBehind, KilledByReboot, FailureOfOsmosis, DoneMeansInstalled
  <1> QED
    BY <1>1, Steps, WentOnInv, RaisedInv, EndInv, OutsideInv

LEMMA InvInductive == Safety => [](TypeOK /\ Inv)
  BY InitTypeOK, NextTypeOK, InitInv, NextInv, PTL DEF Safety

\* The server hears that a station is done, and the station is left, only when
\* osmosis has succeeded and nothing is mounted any more, wherever steps fail and
\* whatever the debug thread does.
THEOREM InstalledWhenDone == Safety => []DoneMeansInstalled
  <1>1. Inv => DoneMeansInstalled
    BY DEF Inv
  <1> QED
    BY <1>1, InvInductive, PTL

\* An osmosis that was killed for a reboot is not reported as a failure: the flag
\* is set before osmosis is killed, and read before the failure is reported.
THEOREM RebootNotReported == Safety => []RebootNotReportedAsFailure
  <1>1. TypeOK /\ Inv => RebootNotReportedAsFailure
    BY FaultsAssumption DEF Inv, FailureOfOsmosis, RebootNotReportedAsFailure, TypeOK
  <1> QED
    BY <1>1, InvInductive, PTL
===============================================================================
