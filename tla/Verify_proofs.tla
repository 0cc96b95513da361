----------------------------- MODULE Verify_proofs -----------------------------
(***************************************************************************)
(* Proofs about what is done to a deployed root: Verify, for any number of *)
(* threads and files, and BootLoader, for any labels, any number of        *)
(* inaugurations and of interruptions.                                     *)
(*                                                                         *)
(* Those about Verify rest on where each file that does not match or       *)
(* cannot be read is, at any time: in the list, in the hands of one        *)
(* thread, or found.  Those about BootLoader rest on what the settings of  *)
(* GRUB, or the memory while they are written, have in them at each step.  *)
(***************************************************************************)
EXTENDS Verify, BootLoader, FiniteSetTheorems, SequenceTheorems, WellFoundedInduction,
        TLAPS

\* What the threads have in their hands, or died of, is what the code says.
HandsMatch ==
  /\ \A t \in Threads : pc[t] = "append" => file[t] \in bad
  /\ \A t \in Threads : pc[t] = "died" => file[t] \in unreadable
  /\ dontMatch \subseteq bad

NoHand(f) == \A t \in Threads : f \notin InHand(t)
OneHand(f) == \E t \in Threads : /\ f \in InHand(t)
                                 /\ \A u \in Threads \ {t} : f \notin InHand(u)

\* A file that does not match is in exactly one place.
InOnePlace(f) ==
  \/ f \in queue /\ f \notin dontMatch /\ NoHand(f)
  \/ f \in dontMatch /\ f \notin queue /\ NoHand(f)
  \/ f \notin queue \cup dontMatch /\ OneHand(f)

BadInOnePlace == \A f \in bad : InOnePlace(f)

\* A file that cannot be read is in the list or with a thread that will die of
\* it, or has.
UnreadableHeld ==
  \A f \in unreadable :
    f \in queue \/ \E t \in Threads : pc[t] \in {"verify", "died"} /\ file[t] = f

\* Behind its loop the main thread has seen the list empty.
SeenEmpty == main \in {"check", "report", "judge"} => queue = {}

Inv == TypeOK /\ HandsMatch /\ BadInOnePlace /\ UnreadableHeld /\ SeenEmpty
         /\ VerdictIsFounded

-------------------------------------------------------------------------------
(* Verify: the threads *)

LEMMA InitInv == Init => Inv
<1> SUFFICES ASSUME Init PROVE Inv
  OBVIOUS
<1>1. TypeOK
  BY DEF Init, TypeOK
<1>2. HandsMatch /\ SeenEmpty /\ VerdictIsFounded /\ UnreadableHeld
  BY DEF Init, HandsMatch, SeenEmpty, VerdictIsFounded, UnreadableHeld
<1>3. BadInOnePlace
  BY DEF Init, BadInOnePlace, InOnePlace, NoHand, InHand
<1> QED
  BY <1>1, <1>2, <1>3 DEF Inv

\* The steps of a thread.
LEMMA ThreadTyped ==
  ASSUME Inv, NEW t \in Threads, VerifyThread(t)
  PROVE  TypeOK'
<1>1. CASE Pop(t)
  BY <1>1 DEF Pop, Inv, TypeOK, inputs
<1>2. CASE PopRaises(t)
  BY <1>2 DEF PopRaises, Inv, TypeOK, inputs
<1>3. CASE VerifyFile(t)
  BY <1>3 DEF VerifyFile, Inv, TypeOK, inputs
<1>4. CASE AppendResult(t)
  BY <1>4 DEF AppendResult, Inv, TypeOK, inputs
<1> QED
  BY <1>1, <1>2, <1>3, <1>4 DEF VerifyThread

LEMMA ThreadMatches ==
  ASSUME Inv, NEW t \in Threads, VerifyThread(t)
  PROVE  HandsMatch' /\ SeenEmpty' /\ VerdictIsFounded'
<1>1. UNCHANGED <<inputs, main, result>>
  BY DEF VerifyThread, Pop, PopRaises, VerifyFile, AppendResult
<1>2. VerdictIsFounded'
  BY <1>1 DEF Inv, VerdictIsFounded, inputs
<1>3. SeenEmpty'
  BY <1>1 DEF Inv, SeenEmpty, VerifyThread, Pop, PopRaises, VerifyFile, AppendResult
<1>4. HandsMatch'
  <2>1. CASE Pop(t)
    BY <2>1 DEF Pop, Inv, HandsMatch, TypeOK, inputs
  <2>2. CASE PopRaises(t)
    BY <2>2 DEF PopRaises, Inv, HandsMatch, TypeOK, inputs
  <2>3. CASE VerifyFile(t)
    BY <2>3 DEF VerifyFile, Inv, HandsMatch, TypeOK, inputs
  <2>4. CASE AppendResult(t)
    BY <2>4 DEF AppendResult, Inv, HandsMatch, TypeOK, inputs
  <2> QED
    BY <2>1, <2>2, <2>3, <2>4 DEF VerifyThread
<1> QED
  BY <1>2, <1>3, <1>4

LEMMA ThreadHolds ==
  ASSUME Inv, NEW t \in Threads, VerifyThread(t)
  PROVE  UnreadableHeld'
<1>1. CASE Pop(t)
  BY <1>1 DEF Pop, Inv, UnreadableHeld, TypeOK, inputs
<1>2. CASE PopRaises(t)
  BY <1>2 DEF PopRaises, Inv, UnreadableHeld, TypeOK, inputs
<1>3. CASE VerifyFile(t)
  BY <1>3 DEF VerifyFile, Inv, UnreadableHeld, TypeOK, inputs
<1>4. CASE AppendResult(t)
  BY <1>4 DEF AppendResult, Inv, UnreadableHeld, HandsMatch, TypeOK, inputs
<1> QED
  BY <1>1, <1>2, <1>3, <1>4 DEF VerifyThread

LEMMA ThreadMoves ==
  ASSUME Inv, NEW t \in Threads, VerifyThread(t)
  PROVE  BadInOnePlace'
<1> SUFFICES ASSUME NEW f \in bad' PROVE InOnePlace(f)'
  BY DEF BadInOnePlace
<1>1. f \in bad /\ InOnePlace(f)
  BY DEF Inv, BadInOnePlace, VerifyThread, Pop, PopRaises, VerifyFile, AppendResult,
         inputs
<1>2. /\ pc \in [Threads -> {"pop", "verify", "append", "exited", "died"}]
      /\ file \in [Threads -> hashes \cup {None}]
      /\ f \notin unreadable
  BY <1>1 DEF Inv, TypeOK
<1>3. CASE Pop(t)
  <2>1. PICK g \in queue : queue' = queue \ {g} /\ file' = [file EXCEPT ![t] = g]
    BY <1>3 DEF Pop
  <2>2. pc[t] = "pop" /\ pc' = [pc EXCEPT ![t] = "verify"] /\ dontMatch' = dontMatch
    BY <1>3 DEF Pop
  <2>3. InHand(t) = {} /\ InHand(t)' = {g}
    BY <1>2, <2>1, <2>2 DEF InHand
  <2>4. \A u \in Threads \ {t} : InHand(u)' = InHand(u)
    BY <1>2, <2>1, <2>2 DEF InHand
  <2> QED
    BY <1>1, <2>1, <2>2, <2>3, <2>4 DEF InOnePlace, NoHand, OneHand
<1>4. CASE PopRaises(t)
  <2>1. \A u \in Threads : InHand(u)' = InHand(u)
    BY <1>2, <1>4 DEF PopRaises, InHand
  <2> QED
    BY <1>1, <1>4, <2>1 DEF PopRaises, InOnePlace, NoHand, OneHand
<1>5. CASE VerifyFile(t)
  <2>1. \A u \in Threads \ {t} : InHand(u)' = InHand(u)
    BY <1>2, <1>5 DEF VerifyFile, InHand
  <2>2. f \in InHand(t)' <=> f \in InHand(t)
    BY <1>1, <1>2, <1>5 DEF VerifyFile, InHand, inputs
  <2> QED
    BY <1>1, <1>5, <2>1, <2>2 DEF VerifyFile, InOnePlace, NoHand, OneHand
<1>6. CASE AppendResult(t)
  <2>1. InHand(t) = {file[t]} /\ InHand(t)' = {}
    BY <1>2, <1>6 DEF AppendResult, InHand
  <2>2. \A u \in Threads \ {t} : InHand(u)' = InHand(u)
    BY <1>2, <1>6 DEF AppendResult, InHand
  <2>3. queue' = queue /\ dontMatch' = dontMatch \cup {file[t]}
    BY <1>6 DEF AppendResult
  <2>4. CASE f = file[t]
    BY <1>1, <2>1, <2>2, <2>3, <2>4 DEF InOnePlace, NoHand, OneHand
  <2>5. CASE f # file[t]
    BY <1>1, <2>1, <2>2, <2>3, <2>5 DEF InOnePlace, NoHand, OneHand
  <2> QED
    BY <2>4, <2>5
<1> QED
  BY <1>3, <1>4, <1>5, <1>6 DEF VerifyThread

-------------------------------------------------------------------------------
(* Verify: the main thread *)

\* What a success overlooks is with a thread of its own.
LEMMA OverlookedHeld ==
  ASSUME Inv, main = "judge", dontMatch = {}
  PROVE  Cardinality(bad \cup unreadable) <= Cardinality(Threads)
<1> DEFINE held == {file[t] : t \in Threads}
<1>1. queue = {}
  BY DEF Inv, SeenEmpty
<1>2. bad \subseteq held
  BY <1>1 DEF Inv, BadInOnePlace, InOnePlace, OneHand, InHand
<1>3. unreadable \subseteq held
  BY <1>1 DEF Inv, UnreadableHeld
<1>4. IsFiniteSet(held) /\ Cardinality(held) <= Cardinality(Threads)
  <2>1. file \in [Threads -> hashes \cup {None}]
    BY DEF Inv, TypeOK
  <2>2. file \in Surjection(Threads, held)
    BY <2>1 DEF Surjection
  <2> QED
    BY <2>2, ThreadsAssumption, FS_Surjection
<1> HIDE DEF held
<1>5. /\ IsFiniteSet(bad \cup unreadable)
      /\ Cardinality(bad \cup unreadable) <= Cardinality(held)
  BY <1>2, <1>3, <1>4, FS_Subset
<1>6. /\ Cardinality(bad \cup unreadable) \in Nat /\ Cardinality(held) \in Nat
      /\ Cardinality(Threads) \in Nat
  BY <1>4, <1>5, ThreadsAssumption, FS_CardinalityType
<1> QED
  BY <1>4, <1>5, <1>6

\* The main thread only looks: nothing but its place and its result changes.
LEMMA GoKeeps ==
  ASSUME Inv, Go
  PROVE  /\ UNCHANGED <<inputs, queue, pc, file, dontMatch>>
         /\ HandsMatch' /\ BadInOnePlace' /\ UnreadableHeld'
<1>1. UNCHANGED <<inputs, queue, pc, file, dontMatch>>
  BY DEF Go, Poll, Loop, CheckExceptions, Report, Judge
<1> QED
  BY <1>1 DEF Inv, inputs, HandsMatch, BadInOnePlace, InOnePlace, NoHand, OneHand,
              InHand, UnreadableHeld

LEMMA GoInv ==
  ASSUME Inv, Go
  PROVE  Inv'
<1>1. /\ UNCHANGED <<inputs, queue, pc, file, dontMatch>>
      /\ HandsMatch' /\ BadInOnePlace' /\ UnreadableHeld'
  BY GoKeeps
<1>2. Died # {} => unreadable # {}
  BY DEF Inv, HandsMatch, Died
<1>3. dontMatch # {} => bad # {}
  BY DEF Inv, HandsMatch
<1>4. main # "over" /\ result = "none"
  BY DEF Go, Poll, Loop, CheckExceptions, Report, Judge, Inv, TypeOK
<1>5. CASE GoTo(main') /\ main' \in {"poll", "sleep", "check", "report", "judge"}
           /\ (main' \in {"check", "report", "judge"} => queue = {})
  BY <1>1, <1>4, <1>5 DEF Inv, TypeOK, GoTo, SeenEmpty, VerdictIsFounded, inputs
<1>6. CASE End("raised") /\ (unreadable # {} \/ hashes = {} \/ reporting)
  BY <1>1, <1>6 DEF Inv, TypeOK, End, SeenEmpty, VerdictIsFounded, inputs
<1>7. CASE Judge
  <2>1. CASE dontMatch # {}
    BY <1>1, <1>3, <1>7, <2>1 DEF Judge, Inv, TypeOK, End, SeenEmpty, VerdictIsFounded,
       inputs
  <2>2. CASE dontMatch = {}
    <3>1. Cardinality(bad \cup unreadable) <= Cardinality(Threads)
      BY <1>7, <2>2, OverlookedHeld DEF Judge
    <3> QED
      BY <1>1, <1>7, <2>2, <3>1 DEF Judge, Inv, TypeOK, End, SeenEmpty,
         VerdictIsFounded, inputs
  <2> QED
    BY <2>1, <2>2
<1> QED
  BY <1>2, <1>5, <1>6, <1>7 DEF Go, Poll, Loop, CheckExceptions, Report, GoTo, End, Inv,
     SeenEmpty

-------------------------------------------------------------------------------
LEMMA NextInv == Inv /\ [Next]_vars => Inv'
<1>1. ASSUME Inv, NEW t \in Threads, VerifyThread(t) PROVE Inv'
  BY <1>1, ThreadTyped, ThreadMatches, ThreadHolds, ThreadMoves DEF Inv
<1>2. ASSUME Inv, UNCHANGED vars PROVE Inv'
  BY <1>2 DEF Inv, vars, inputs, TypeOK, HandsMatch, BadInOnePlace, InOnePlace, NoHand,
              OneHand, InHand, UnreadableHeld, SeenEmpty, VerdictIsFounded
<1> QED
  BY <1>1, <1>2, GoInv DEF Next, Finished

\* The variables keep their types, for any number of threads and files.
THEOREM TypeCorrect == Safety => []TypeOK
BY InitInv, NextInv, PTL DEF Safety, Inv

\* No file is lost and none is digested twice, however many threads pop from
\* the list.
THEOREM NoFileLost == Safety => []BadFileAccounted
<1>1. Inv => BadFileAccounted
  BY DEF Inv, BadInOnePlace, InOnePlace, NoHand, OneHand, BadFileAccounted
<1> QED
  BY <1>1, InitInv, NextInv, PTL DEF Safety

\* What go() says is so: a failure has a reason, and a success overlooks at most
\* one file per thread.
THEOREM VerdictFounded == Safety => []VerdictIsFounded
BY InitInv, NextInv, PTL DEF Safety, Inv

-------------------------------------------------------------------------------
(* BootLoader: the words of the command line *)

Word == {"quiet", "console=tty1", "console=ttyS0", "tty0", "none", "extra", "silent"}

\* The function that WithoutConsole takes the last value of, as far as n.
IsKept(f, words, n) ==
  f = [i \in 0 .. n |-> IF i = 0 THEN <<>>
                        ELSE IF IsConsole(words[i]) THEN f[i - 1]
                        ELSE Append(f[i - 1], words[i])]

\* r has the words that are not consoles among the first n.
Filtered(r, words, n) ==
  /\ r \in Seq(Word)
  /\ NoConsole(r)
  /\ \A i \in 1 .. Len(r) : \E k \in 1 .. n : r[i] = words[k]
  /\ \A k \in 1 .. n : ~IsConsole(words[k]) => \E i \in 1 .. Len(r) : r[i] = words[k]
  /\ \A i, j \in 1 .. Len(r) : i # j /\ r[i] = r[j] =>
       \E k, l \in 1 .. n : k # l /\ words[k] = r[i] /\ words[l] = r[i]

LEMMA LeastExists ==
  ASSUME NEW T, T \subseteq Nat, T # {}
  PROVE  \E x \in T : \A y \in T : x <= y
<1> DEFINE R == {ss \in Nat \X Nat : ss[1] < ss[2]}
<1>1. IsWellFoundedOn(R, Nat)
  BY NatLessThanWellFounded, Zenon DEF OpToRel
<1>2. \A x, y \in Nat : y < x => <<y, x>> \in R
  OBVIOUS
<1> HIDE DEF R
<1>3. PICK x \in T : \A y \in T : ~ (<<y, x>> \in R)
  BY <1>1, WFMin
<1>4. ASSUME NEW y \in T PROVE x <= y
  <2>1. x \in Nat /\ y \in Nat /\ ~ (y < x)
    BY <1>2, <1>3, <1>4
  <2> QED
    BY <2>1
<1> QED
  BY <1>4

\* There is such a function: the least n without one would have one, got from
\* that of n - 1.
LEMMA KeptExists ==
  ASSUME NEW words, NEW n \in Nat
  PROVE  \E f : IsKept(f, words, n)
<1> DEFINE T == {m \in Nat : ~\E f : IsKept(f, words, m)}
<1> SUFFICES ASSUME T # {} PROVE FALSE
  OBVIOUS
<1>1. PICK m \in T : \A k \in T : m <= k
  BY LeastExists
<1>2. m # 0
  <2> DEFINE g == [i \in 0 .. 0 |-> <<>>]
  <2>1. IsKept(g, words, 0)
    BY DEF IsKept
  <2> QED
    BY <2>1
<1>3. m - 1 \in Nat /\ m - 1 \notin T
  BY <1>1, <1>2
<1>4. PICK f : IsKept(f, words, m - 1)
  BY <1>3
<1> DEFINE last == IF IsConsole(words[m]) THEN f[m - 1] ELSE Append(f[m - 1], words[m])
           g == [i \in 0 .. m |-> IF i = m THEN last ELSE f[i]]
<1>5. \A i \in 0 .. m - 1 : g[i] = f[i]
  BY <1>3
<1>6. \A i \in 0 .. m - 1 : f[i] = IF i = 0 THEN <<>>
                                   ELSE IF IsConsole(words[i]) THEN f[i - 1]
                                   ELSE Append(f[i - 1], words[i])
  BY <1>4, Zenon DEF IsKept
<1>7. g[m] = last
  BY <1>3
<1> HIDE DEF last
<1>8. ASSUME NEW i \in 0 .. m
      PROVE  g[i] = IF i = 0 THEN <<>>
                    ELSE IF IsConsole(words[i]) THEN g[i - 1]
                    ELSE Append(g[i - 1], words[i])
  <2>1. CASE i = m
    <3>1. g[m - 1] = f[m - 1]
      BY <1>3, <1>5
    <3> QED
      BY <1>2, <1>7, <2>1, <3>1 DEF last
  <2>2. CASE i # m /\ i = 0
    BY <1>5, <1>6, <2>2, <1>3
  <2>3. CASE i # m /\ i # 0
    <3>1. i \in 0 .. m - 1 /\ i - 1 \in 0 .. m - 1
      BY <2>3
    <3>2. g[i] = f[i] /\ g[i - 1] = f[i - 1]
      BY <1>5, <3>1
    <3> HIDE DEF g
    <3> QED
      BY <1>6, <2>3, <3>1, <3>2
  <2> QED
    BY <2>1, <2>2, <2>3
<1>9. IsKept(g, words, m)
  BY <1>8, Zenon DEF IsKept
<1> QED
  BY <1>1, <1>9

LEMMA KeptFiltered ==
  ASSUME NEW words \in Seq(Word), NEW f, IsKept(f, words, Len(words)),
         NEW n \in 0 .. Len(words)
  PROVE  Filtered(f[n], words, n)
<1> DEFINE T == {m \in 0 .. Len(words) : ~Filtered(f[m], words, m)}
<1> SUFFICES ASSUME T # {} PROVE FALSE
  OBVIOUS
<1>0. Len(words) \in Nat /\ \A i \in 1 .. Len(words) : words[i] \in Word
  OBVIOUS
<1>1. PICK m \in T : \A k \in T : m <= k
  <2>1. T \subseteq Nat
    BY <1>0
  <2> QED
    BY <2>1, LeastExists
<1>2. f[0] = <<>> /\ \A i \in 1 .. Len(words) :
        f[i] = IF IsConsole(words[i]) THEN f[i - 1] ELSE Append(f[i - 1], words[i])
  <2>1. \A i \in 0 .. Len(words) :
          f[i] = IF i = 0 THEN <<>>
                 ELSE IF IsConsole(words[i]) THEN f[i - 1]
                 ELSE Append(f[i - 1], words[i])
    BY Zenon DEF IsKept
  <2> QED
    BY <1>0, <2>1
<1>3. m # 0
  <2>1. Filtered(f[0], words, 0)
    BY <1>0, <1>2 DEF Filtered, NoConsole
  <2> QED
    BY <2>1
<1>4. /\ m \in Nat /\ m \in 1 .. Len(words)
      /\ m - 1 \in 0 .. Len(words) /\ m - 1 \notin T
      /\ 1 .. m = (1 .. m - 1) \cup {m}
  BY <1>0, <1>1, <1>3
<1>5. Filtered(f[m - 1], words, m - 1)
  BY <1>4
<1> HIDE DEF T
<1>6. Filtered(f[m], words, m)
  <2> DEFINE r == f[m - 1]
  <2>1. CASE IsConsole(words[m])
    <3>1. f[m] = r
      BY <1>2, <1>4, <2>1
    <3> HIDE DEF r
    <3> QED
      BY <1>4, <1>5, <2>1, <3>1 DEF Filtered, r
  <2>2. CASE ~IsConsole(words[m])
    <3>1. f[m] = Append(r, words[m]) /\ words[m] \in Word
      BY <1>0, <1>2, <1>4, <2>2
    <3>2. r \in Seq(Word) /\ Len(r) \in Nat
      BY <1>5 DEF Filtered
    <3>3. /\ f[m] \in Seq(Word) /\ Len(f[m]) = Len(r) + 1
          /\ \A i \in 1 .. Len(r) : f[m][i] = r[i]
          /\ f[m][Len(r) + 1] = words[m]
      BY <3>1, <3>2
    <3> HIDE DEF r
    <3> DEFINE t == f[m]
    <3>4. /\ t \in Seq(Word) /\ Len(t) = Len(r) + 1
          /\ \A i \in 1 .. Len(r) : t[i] = r[i]
          /\ t[Len(r) + 1] = words[m]
      BY <3>3
    <3>5. Filtered(r, words, m - 1)
      BY <1>5 DEF r
    <3> HIDE DEF t
    <3>10. 1 .. Len(t) = (1 .. Len(r)) \cup {Len(r) + 1}
      BY <3>2, <3>4
    <3>6. NoConsole(t)
      <4>1. ASSUME NEW i \in 1 .. Len(t)
            PROVE  ~IsConsole(t[i])
        <5>1. \A k \in 1 .. Len(r) : ~IsConsole(r[k])
          BY <3>5, Zenon DEF Filtered, NoConsole
        <5>2. CASE i \in 1 .. Len(r)
          BY <3>4, <5>1, <5>2
        <5>3. CASE i = Len(r) + 1
          BY <2>2, <3>4, <5>3
        <5> QED
          BY <3>10, <5>2, <5>3
      <4> QED
        BY <4>1 DEF NoConsole
    <3>7. ASSUME NEW i \in 1 .. Len(t)
          PROVE  \E k \in 1 .. m : t[i] = words[k]
      <4>1. CASE i \in 1 .. Len(r)
        <5>1. PICK k \in 1 .. m - 1 : r[i] = words[k]
          BY <3>5, <4>1 DEF Filtered
        <5> QED
          BY <1>4, <3>4, <4>1, <5>1
      <4>2. CASE i = Len(r) + 1
        BY <1>4, <3>4, <4>2
      <4> QED
        BY <3>10, <4>1, <4>2
    <3>8. ASSUME NEW k \in 1 .. m, ~IsConsole(words[k])
          PROVE  \E i \in 1 .. Len(t) : t[i] = words[k]
      <4>1. CASE k = m
        <5>1. Len(r) + 1 \in 1 .. Len(t) /\ t[Len(r) + 1] = words[k]
          BY <3>4, <3>10, <4>1
        <5> QED
          BY <5>1
      <4>2. CASE k \in 1 .. m - 1
        <5>1. PICK i \in 1 .. Len(r) : r[i] = words[k]
          BY <3>5, <3>8, <4>2, Zenon DEF Filtered
        <5>2. i \in 1 .. Len(t) /\ t[i] = words[k]
          BY <3>4, <3>10, <5>1
        <5> QED
          BY <5>2
      <4> QED
        BY <1>4, <4>1, <4>2
    <3>9. ASSUME NEW i \in 1 .. Len(t), NEW j \in 1 .. Len(t), i # j, t[i] = t[j]
          PROVE  \E k, l \in 1 .. m : k # l /\ words[k] = t[i] /\ words[l] = t[i]
      <4>1. CASE i \in 1 .. Len(r) /\ j \in 1 .. Len(r)
        <5>1. r[i] = r[j]
          BY <3>4, <3>9, <4>1
        <5>2. PICK k, l \in 1 .. m - 1 : k # l /\ words[k] = r[i] /\ words[l] = r[i]
          BY <3>5, <3>9, <4>1, <5>1 DEF Filtered
        <5> QED
          BY <1>4, <3>4, <4>1, <5>2
      <4>2. CASE i = Len(r) + 1 /\ j \in 1 .. Len(r)
        <5>1. PICK k \in 1 .. m - 1 : r[j] = words[k]
          BY <3>5, <4>2 DEF Filtered
        <5> QED
          BY <1>4, <3>2, <3>4, <3>9, <4>2, <5>1
      <4>3. CASE j = Len(r) + 1 /\ i \in 1 .. Len(r)
        <5>1. PICK k \in 1 .. m - 1 : r[i] = words[k]
          BY <3>5, <4>3 DEF Filtered
        <5> QED
          BY <1>4, <3>2, <3>4, <3>9, <4>3, <5>1
      <4> QED
        BY <3>2, <3>4, <3>9, <4>1, <4>2, <4>3
    <3> QED
      BY <3>4, <3>6, <3>7, <3>8, <3>9 DEF Filtered, t
  <2> QED
    BY <2>1, <2>2
<1> QED
  BY <1>1, <1>6 DEF T

\* What is left without the consoles: no console, every other word, and none of
\* them more often than before.
LEMMA WithoutConsoleKeeps ==
  ASSUME NEW words \in Seq(Word)
  PROVE  /\ WithoutConsole(words) \in Seq(Word)
         /\ NoConsole(WithoutConsole(words))
         /\ \A w : InWords(w, WithoutConsole(words)) => InWords(w, words)
         /\ \A w : ~IsConsole(w) /\ InWords(w, words) => InWords(w, WithoutConsole(words))
         /\ \A w : AtMostOnce(w, words) => AtMostOnce(w, WithoutConsole(words))
<1> DEFINE n == Len(words)
           f == CHOOSE f : IsKept(f, words, n)
<1>1. n \in Nat
  OBVIOUS
<1>2. IsKept(f, words, n)
  BY <1>1, KeptExists
<1>3. WithoutConsole(words) = f[n]
  BY Zenon DEF WithoutConsole, IsKept
<1> HIDE DEF f
<1>4. Filtered(f[n], words, n)
  BY <1>1, <1>2, KeptFiltered
<1> DEFINE r == f[n]
<1>5. Filtered(r, words, n) /\ WithoutConsole(words) = r
  BY <1>3, <1>4
<1> HIDE DEF r
<1>6. ASSUME NEW w, AtMostOnce(w, words)
      PROVE  AtMostOnce(w, r)
  <2> SUFFICES ASSUME NEW i \in 1 .. Len(r), NEW j \in 1 .. Len(r),
                      r[i] = w, r[j] = w, i # j
               PROVE  FALSE
    BY DEF AtMostOnce
  <2>1. PICK k, l \in 1 .. n : k # l /\ words[k] = r[i] /\ words[l] = r[i]
    BY <1>5 DEF Filtered
  <2> QED
    BY <1>6, <2>1 DEF AtMostOnce
<1>7. ASSUME NEW w, InWords(w, r)
      PROVE  InWords(w, words)
  BY <1>5, <1>7 DEF Filtered, InWords
<1>8. ASSUME NEW w, ~IsConsole(w), InWords(w, words)
      PROVE  InWords(w, r)
  BY <1>5, <1>8 DEF Filtered, InWords
<1>9. r \in Seq(Word) /\ NoConsole(r)
  BY <1>5 DEF Filtered
<1> QED
  BY <1>5, <1>6, <1>7, <1>8, <1>9

LEMMA TailOfTwo ==
  ASSUME NEW a, NEW b
  PROVE  Tail(<<a, b>>) = <<b>>
OBVIOUS

LEMMA One ==
  ASSUME NEW S, NEW a \in S
  PROVE  <<a>> \in Seq(S) /\ Len(<<a>>) = 1 /\ <<a>>[1] = a
OBVIOUS

LEMMA OneBefore ==
  ASSUME NEW S, NEW a \in S, NEW s \in Seq(S)
  PROVE  /\ <<a>> \o s \in Seq(S) /\ Len(<<a>> \o s) = 1 + Len(s)
         /\ Len(s) \in Nat
         /\ (<<a>> \o s)[1] = a
         /\ \A i \in 1 .. Len(s) : (<<a>> \o s)[i + 1] = s[i]
OBVIOUS

\* What the change of the consoles makes of a command line.
LEMMA ConsoleChangedKeeps ==
  ASSUME args \in Args, NEW words \in Seq(Word)
  PROVE  /\ ConsoleChanged(words) \in Seq(Word)
         /\ args.extra = "silent" => NoConsole(ConsoleChanged(words))
         /\ args.extra # "silent" => OneConsole(ConsoleChanged(words))
         /\ \A w : ~IsConsole(w) /\ InWords(w, words) => InWords(w, ConsoleChanged(words))
         /\ \A w : /\ w # "console=ttyS0" /\ (w = "tty0" => ~InWords(w, words))
                   /\ AtMostOnce(w, words)
                   => AtMostOnce(w, ConsoleChanged(words))
<1> DEFINE kept == WithoutConsole(words)
           new == IF args.extra = "silent" THEN <<>>
                  ELSE <<"console=ttyS0">> \o Tail(args.consoles)
<1>1. /\ kept \in Seq(Word) /\ NoConsole(kept)
      /\ \A w : InWords(w, kept) => InWords(w, words)
      /\ \A w : ~IsConsole(w) /\ InWords(w, words) => InWords(w, kept)
      /\ \A w : AtMostOnce(w, words) => AtMostOnce(w, kept)
  BY WithoutConsoleKeeps
<1>2. /\ new \in Seq(Word)
      /\ args.extra = "silent" => new = <<>>
      /\ args.extra # "silent" =>
           /\ Len(new) \in {1, 2} /\ new[1] = "console=ttyS0"
           /\ Len(new) = 2 => new[2] = "tty0"
  <2>1. args.consoles \in {<<>>, <<"ttyS0">>, <<"ttyS0", "tty0">>}
    BY DEF Args
  <2> DEFINE first == <<"console=ttyS0">>
             others == Tail(args.consoles)
  <2>2. "console=ttyS0" \in Word
    BY DEF Word
  <2>3. /\ others \in Seq(Word) /\ Len(others) \in {0, 1}
        /\ Len(others) = 1 => others[1] = "tty0"
    <3>1. CASE args.consoles = <<>>
      BY <3>1
    <3>2. CASE args.consoles = <<"ttyS0">>
      BY <3>2
    <3>3. CASE args.consoles = <<"ttyS0", "tty0">>
      <4>1. others = <<"tty0">> /\ "tty0" \in Word
        BY <3>3, TailOfTwo DEF Word
      <4> HIDE DEF others
      <4> QED
        BY <4>1, One
    <3> QED
      BY <2>1, <3>1, <3>2, <3>3
  <2> HIDE DEF others
  <2>4. /\ first \o others \in Seq(Word) /\ Len(first \o others) = 1 + Len(others)
        /\ (first \o others)[1] = "console=ttyS0"
        /\ Len(others) = 1 => (first \o others)[2] = others[1]
    BY <2>2, <2>3, OneBefore
  <2>5. CASE args.extra = "silent"
    BY <2>5
  <2>6. CASE args.extra # "silent"
    <3>1. new = first \o others
      BY <2>6 DEF others
    <3> HIDE DEF new, first
    <3> QED
      BY <2>3, <2>4, <2>6, <3>1
  <2> QED
    BY <2>5, <2>6
<1>3. ConsoleChanged(words) = kept \o new
  BY DEF ConsoleChanged
<1> HIDE DEF kept, new
<1> DEFINE t == kept \o new
           n == Len(kept)
<1>4. /\ n \in Nat /\ new \in Seq(Word) /\ t \in Seq(Word) /\ Len(t) = n + Len(new)
      /\ Len(new) \in Nat
      /\ \A i \in 1 .. n : t[i] = kept[i]
      /\ \A i \in 1 .. Len(new) : t[n + i] = new[i]
  BY <1>1, <1>2
<1> HIDE DEF t, n
<1>5. \A i \in 1 .. Len(t) : i \in 1 .. n \/ \E k \in 1 .. Len(new) : i = n + k
  <2> SUFFICES ASSUME NEW i \in 1 .. Len(t), i \notin 1 .. n
               PROVE  \E k \in 1 .. Len(new) : i = n + k
    OBVIOUS
  <2>1. i - n \in 1 .. Len(new) /\ i = n + (i - n)
    BY <1>4
  <2> QED
    BY <2>1
<1>6. \A i \in 1 .. n : i \in 1 .. Len(t) /\ t[i] = kept[i] /\ ~IsConsole(kept[i])
  BY <1>1, <1>4 DEF NoConsole, n
<1>7. \A k \in 1 .. Len(new) : n + k \in 1 .. Len(t)
  BY <1>4
<1>8. ASSUME args.extra = "silent" PROVE NoConsole(t)
  BY <1>2, <1>4, <1>5, <1>6, <1>8 DEF NoConsole
<1>10. ASSUME args.extra # "silent" PROVE OneConsole(t)
  <2>1. t[n + 1] = "console=ttyS0" /\ n + 1 \in 1 .. Len(t)
    BY <1>2, <1>4, <1>7, <1>10
  <2>2. ASSUME NEW i \in 1 .. Len(t), IsConsole(t[i])
        PROVE  i = n + 1
    <3>1. PICK k \in 1 .. Len(new) : i = n + k
      BY <1>5, <1>6, <2>2
    <3>2. k = 1 \/ (k = 2 /\ Len(new) = 2)
      BY <1>2, <1>4, <1>10
    <3>3. t[i] = new[k]
      BY <1>4, <3>1
    <3>4. k # 2
      BY <1>2, <1>10, <2>2, <3>2, <3>3 DEF IsConsole
    <3> QED
      BY <3>1, <3>2, <3>4
  <2> QED
    BY <2>1, <2>2 DEF OneConsole, InWords
<1>11. ASSUME NEW w, ~IsConsole(w), InWords(w, words)
       PROVE  InWords(w, t)
  BY <1>1, <1>6, <1>11 DEF InWords, n
<1>12. ASSUME NEW w, w # "console=ttyS0", w = "tty0" => ~InWords(w, words),
              AtMostOnce(w, words)
       PROVE  AtMostOnce(w, t)
  <2>1. w = "tty0" => ~InWords(w, kept)
    BY <1>1, <1>12
  <2>2. AtMostOnce(w, kept)
    BY <1>1, <1>12
  <2>3. ASSUME NEW k \in 1 .. Len(new), t[n + k] = w
        PROVE  k = 2 /\ w = "tty0"
    <3>1. new[k] = w
      BY <1>4, <2>3
    <3>2. args.extra # "silent"
      BY <1>2
    <3>3. k = 1 \/ (k = 2 /\ Len(new) = 2)
      BY <1>2, <1>4, <3>2
    <3> QED
      BY <1>2, <1>12, <3>1, <3>2, <3>3
  <2> SUFFICES ASSUME NEW i \in 1 .. Len(t), NEW j \in 1 .. Len(t), t[i] = w, t[j] = w
               PROVE  i = j
    BY DEF AtMostOnce
  <2>4. ASSUME NEW m \in 1 .. Len(t), t[m] = w
        PROVE  (m \in 1 .. n /\ kept[m] = w) \/ (m = n + 2 /\ w = "tty0")
    BY <1>5, <1>6, <2>3, <2>4
  <2>5. \A m \in 1 .. n : kept[m] = w => w # "tty0"
    BY <2>1 DEF InWords, n
  <2> QED
    BY <2>2, <2>4, <2>5 DEF AtMostOnce, n
<1>13. ConsoleChanged(words) = t
  BY <1>3 DEF t
<1>14. t \in Seq(Word)
  BY <1>4
<1> HIDE DEF t
<1> QED
  BY <1>8, <1>10, <1>11, <1>12, <1>13, <1>14

\* What putting the extra data in front makes of it.
LEMMA ExtraKeeps ==
  ASSUME NEW extra \in Word, NEW words \in Seq(Word)
  PROVE  /\ <<extra>> \o words \in Seq(Word)
         /\ InWords(extra, <<extra>> \o words)
         /\ \A w : InWords(w, <<extra>> \o words) => w = extra \/ InWords(w, words)
         /\ \A w : AtMostOnce(w, words) /\ (w = extra => ~InWords(w, words))
                   => AtMostOnce(w, <<extra>> \o words)
<1> DEFINE t == <<extra>> \o words
<1>1. /\ t \in Seq(Word) /\ Len(t) = 1 + Len(words) /\ Len(words) \in Nat
      /\ t[1] = extra /\ \A i \in 1 .. Len(words) : t[i + 1] = words[i]
  BY OneBefore
<1> HIDE DEF t
<1>2. \A i \in 1 .. Len(t) : i = 1 \/ (i - 1 \in 1 .. Len(words) /\ t[i] = words[i - 1])
  <2> SUFFICES ASSUME NEW i \in 1 .. Len(t), i # 1
               PROVE  i - 1 \in 1 .. Len(words) /\ t[i] = words[i - 1]
    OBVIOUS
  <2>1. i - 1 \in 1 .. Len(words) /\ (i - 1) + 1 = i
    BY <1>1
  <2> QED
    BY <1>1, <2>1
<1>3. InWords(extra, t)
  BY <1>1 DEF InWords
<1>4. ASSUME NEW w, InWords(w, t)
      PROVE  w = extra \/ InWords(w, words)
  BY <1>1, <1>2, <1>4 DEF InWords
<1>5. ASSUME NEW w, AtMostOnce(w, words), w = extra => ~InWords(w, words)
      PROVE  AtMostOnce(w, t)
  <2> SUFFICES ASSUME NEW i \in 1 .. Len(t), NEW j \in 1 .. Len(t), t[i] = w, t[j] = w
               PROVE  i = j
    BY DEF AtMostOnce
  <2>1. CASE i = 1 /\ j = 1
    BY <2>1
  <2>2. CASE i = 1 /\ j # 1
    BY <1>1, <1>2, <1>5, <2>2 DEF InWords
  <2>3. CASE i # 1 /\ j = 1
    BY <1>1, <1>2, <1>5, <2>3 DEF InWords
  <2>4. CASE i # 1 /\ j # 1
    <3>1. i - 1 = j - 1
      BY <1>2, <1>5, <2>4 DEF AtMostOnce
    <3> QED
      BY <3>1
  <2> QED
    BY <2>1, <2>2, <2>3, <2>4
<1> QED
  BY <1>1, <1>3, <1>4, <1>5 DEF t

-------------------------------------------------------------------------------
(* BootLoader: the invariant *)

LineFiles == [kind : {"file"}, line : BOOLEAN, words : Seq(Word), default : Seq(Word)]
SettingsFiles == {NoFile, Special} \cup LineFiles

Stages == {"osmosis", "rsync", "extra", "extraWrite", "console", "consoleWrite", "install",
           "etc", "kexec", "done", "noLine", "raised"}
Installing == {"install", "etc", "kexec", "done"}

BootTyped ==
  /\ args \in Args /\ image \in Images /\ stage \in Stages
  /\ settings \in SettingsFiles /\ existing \in LineFiles
  /\ boot \in [Paths -> {boot[p] : p \in Paths}]

\* The boot partition has nothing but what this inauguration put there, which is
\* what was read back, and what is loaded but for what is passed through.
Installed ==
  /\ stage \notin {"osmosis", "rsync", "raised"} =>
       \A p \in Paths : boot[p].label \in {image.label, "nothing"}
  /\ stage \in {"etc", "kexec", "done"} =>
       grubConfig = boot[image.tools] /\ grubConfig = Config(Entry)
  /\ stage \in {"kexec", "done"} => etcLabel = image.label
  /\ stage = "done" => loaded = [grubConfig EXCEPT !.words = @ \o args.passthrough]

\* While the file is being written, what was in it is in memory only.
Writing == stage \in {"extraWrite", "consoleWrite"}
Held == IF Writing THEN existing ELSE settings

\* A line that was there to begin with, or is in the image, is there unless the
\* write of it was interrupted.
LineKept ==
  /\ args.kept /\ ~cut /\ HasLine(args.before) => stage # "noLine" /\ HasLine(Held)
  /\ ~args.kept /\ HasLine(image.file) /\ stage \notin {"osmosis", "raised"} =>
       stage # "noLine" /\ HasLine(Held)

\* Where /etc is not kept, each inauguration starts from the image, which has
\* nothing of what will be added.
Fresh ==
  ~args.kept /\ Held.kind = "file" =>
    /\ stage \in {"rsync", "extra", "extraWrite"} => ~InWords(args.extra, Held.words)
    /\ stage \in {"rsync", "extra", "extraWrite", "console", "consoleWrite"} =>
         /\ ~InWords("tty0", Held.words)
         /\ AtMostOnce("quiet", Held.words) /\ AtMostOnce(args.extra, Held.words)
    /\ stage \in Installing =>
         \A w \in {"quiet", "tty0", args.extra} : AtMostOnce(w, Held.words)

\* The default line stays the image's.
DefaultKept ==
  ~args.kept /\ Held.kind = "file" /\ stage \notin {"osmosis", "noLine", "raised"} =>
    \/ image.file.kind = "file" /\ Held.default = image.file.default
    \/ Writing /\ ~existing.line

\* What was asked for is in the line from the change that adds it on.
AsAsked ==
  /\ stage \in Installing \cup {"console"} \/ (stage = "consoleWrite" /\ existing.line) =>
       (Held.kind = "file" /\ args.extra # "none" => InWords(args.extra, Held.words))
  /\ stage \in Installing /\ settings.kind = "file" =>
       /\ args.extra = "silent" => NoConsole(settings.words)
       /\ args.extra # "silent" /\ args.consoles # <<>> => OneConsole(settings.words)

BootInv == BootTyped /\ Installed /\ LineKept /\ Fresh /\ DefaultKept /\ AsAsked

\* The files of the images.
LEMMA ImageFile ==
  ASSUME NEW f \in ImageFiles
  PROVE  /\ f \in SettingsFiles
         /\ f.kind = "file" =>
              /\ \A w : InWords(w, f.words) => w \in {"quiet", "console=tty1"}
              /\ \A w : AtMostOnce(w, f.words)
<1> DEFINE both == <<"quiet", "console=tty1">>
<1>1. both \in Seq(Word) /\ Len(both) = 2 /\ both[1] = "quiet" /\ both[2] = "console=tty1"
  BY DEF Word
<1>2. <<>> \in Seq(Word) /\ Len(<<>>) = 0
  OBVIOUS
<1>3. \/ f \in {NoFile, Special} \/ f = NoLine
      \/ f = Line(both, <<>>) \/ f = Line(both, <<"console=tty1">>)
  BY DEF ImageFiles
<1> HIDE DEF both
<1>4. CASE f \in {NoFile, Special}
  BY <1>4 DEF NoFile, Special, SettingsFiles
<1>5. CASE f = NoLine
  BY <1>2, <1>5 DEF NoLine, SettingsFiles, LineFiles, InWords, AtMostOnce
<1>6. CASE f = Line(both, <<>>) \/ f = Line(both, <<"console=tty1">>)
  <2>0. <<"console=tty1">> \in Seq(Word)
    BY DEF Word
  <2>1. f.words = both /\ f \in LineFiles
    <3>1. ASSUME NEW d \in Seq(Word), f = Line(both, d) PROVE f.words = both /\ f \in LineFiles
      BY <1>1, <3>1 DEF Line, LineFiles
    <3> QED
      BY <1>2, <1>6, <2>0, <3>1
  <2>2. \A i \in 1 .. Len(both) : i = 1 \/ i = 2
    BY <1>1
  <2> QED
    BY <1>1, <2>1, <2>2 DEF SettingsFiles, InWords, AtMostOnce
<1> QED
  BY <1>3, <1>4, <1>5, <1>6

LEMMA Empty ==
  /\ NoLine \in LineFiles /\ ~HasLine(NoLine)
  /\ \A w : ~InWords(w, NoLine.words) /\ AtMostOnce(w, NoLine.words)
BY DEF NoLine, LineFiles, HasLine, InWords, AtMostOnce

\* The records of the model.
LEMMA Records ==
  ASSUME args \in Args, image \in Images
  PROVE  /\ args.extra \in {"none", "extra", "silent"} /\ args.extra \in Word
         /\ args.kept \in BOOLEAN /\ args.before \in ImageFiles
         /\ args.before \in SettingsFiles
         /\ image.file \in ImageFiles /\ image.file \in SettingsFiles
         /\ image.tools \in Paths
<1>1. /\ args.extra \in {"none", "extra", "silent"}
      /\ args.kept \in BOOLEAN /\ args.before \in ImageFiles
      /\ image.file \in ImageFiles /\ image.tools \in Paths
  BY DEF Args, Images, Paths
<1> QED
  BY <1>1, ImageFile DEF Word

LEMMA BootInitInv == BootInit => BootInv
<1> SUFFICES ASSUME BootInit PROVE BootInv
  OBVIOUS
<1>1. BootTyped
  <2>1. args \in Args /\ image \in Images
    BY DEF BootInit
  <2> QED
    BY <2>1, Records, Empty DEF BootInit, BootTyped, Stages
<1>2. Installed /\ LineKept /\ Fresh /\ DefaultKept /\ AsAsked
  BY DEF BootInit, Installed, LineKept, Held, Writing, Fresh, DefaultKept, AsAsked, Installing,
     HasLine
<1> QED
  BY <1>1, <1>2 DEF BootInv

\* The steps that leave the settings alone.
LEMMA SettingsLeft ==
  ASSUME BootInv, UNCHANGED <<args, settings, existing, image, cut>>,
         \/ stage = "rsync" /\ stage' = "extra"
         \/ stage \in Installing /\ stage' \in Installing
  PROVE  LineKept' /\ Fresh' /\ DefaultKept' /\ AsAsked'
<1>1. ~Writing /\ ~Writing'
  BY DEF Writing, Installing
<1>2. Held' = settings /\ Held = settings
  BY <1>1 DEF Held
<1>3. LineKept'
  BY <1>2 DEF BootInv, LineKept, Installing
<1>4. Fresh'
  BY <1>2 DEF BootInv, Fresh, Installing
<1>5. AsAsked'
  BY <1>2 DEF BootInv, AsAsked, Installing
<1>6. DefaultKept'
  BY <1>1, <1>2 DEF BootInv, DefaultKept, Installing
<1> QED
  BY <1>3, <1>4, <1>5, <1>6

LEMMA OsmosisKeepsInv ==
  ASSUME BootInv, Osmosis
  PROVE  BootInv'
<1> USE DEF BootInv
<1>1. /\ stage = "osmosis" /\ stage' = "rsync"
      /\ settings' = IF args.kept THEN settings ELSE image.file
      /\ UNCHANGED <<args, boot, image, existing, grubConfig, loaded, cut>>
  BY DEF Osmosis, Proceed, memory
<1>2. /\ args.kept \in BOOLEAN /\ image.file \in ImageFiles
      /\ image.file \in SettingsFiles /\ args.extra \in {"none", "extra", "silent"}
  BY Records DEF BootTyped
<1>3. BootTyped'
  BY <1>1, <1>2 DEF BootTyped, Stages
<1>4. Installed'
  BY <1>1 DEF Installed
<1>5. Held = settings /\ Held' = settings'
  BY <1>1 DEF Held, Writing
<1>6. LineKept'
  BY <1>1, <1>2, <1>5 DEF LineKept
<1>7. Fresh'
  <2> SUFFICES ASSUME ~args.kept, settings'.kind = "file"
               PROVE  /\ ~InWords(args.extra, settings'.words)
                      /\ ~InWords("tty0", settings'.words)
                      /\ AtMostOnce("quiet", settings'.words)
                      /\ AtMostOnce(args.extra, settings'.words)
    BY <1>1, <1>5 DEF Fresh, Installing
  <2>1. settings' = image.file
    BY <1>1
  <2>2. /\ \A w : InWords(w, settings'.words) => w \in {"quiet", "console=tty1"}
        /\ \A w : AtMostOnce(w, settings'.words)
    BY <1>2, <2>1, ImageFile
  <2>3. args.extra \notin {"quiet", "console=tty1"}
    BY <1>2
  <2> QED
    BY <2>2, <2>3
<1>8. AsAsked'
  BY <1>1 DEF AsAsked, Installing
<1>9. DefaultKept'
  BY <1>1, <1>5 DEF DefaultKept
<1> QED
  BY <1>3, <1>4, <1>6, <1>7, <1>8, <1>9

LEMMA RsyncKeepsInv ==
  ASSUME BootInv, Rsync
  PROVE  BootInv'
<1> USE DEF BootInv
<1>1. /\ stage = "rsync" /\ stage' = "extra"
      /\ boot' = [p \in Paths |-> IF p = image.tools THEN Config(<<"shipped">>) ELSE Nothing]
      /\ UNCHANGED <<args, settings, etcLabel, image, existing, grubConfig, loaded, cut>>
  BY DEF Rsync, Proceed, memory
<1>2. BootTyped'
  BY <1>1 DEF BootTyped, Stages
<1>3. Installed'
  BY <1>1 DEF Installed, Config, Nothing
<1> QED
  BY <1>1, <1>2, <1>3, SettingsLeft

LEMMA InstallKeepsInv ==
  ASSUME BootInv, Install \/ ConfigureETC \/ LoadKernel
  PROVE  BootInv'
<1> USE DEF BootInv
<1>1. /\ stage \in Installing /\ stage' \in Installing
      /\ UNCHANGED <<args, settings, image, existing, cut>>
  BY DEF Install, ConfigureETC, LoadKernel, Proceed, memory, disk, Installing
<1>2. LineKept' /\ Fresh' /\ DefaultKept' /\ AsAsked'
  BY <1>1, SettingsLeft
<1>3. image.tools \in Paths
  BY Records DEF BootTyped
<1>4. CASE Install
  <2>1. /\ stage = "install" /\ stage' = "etc"
        /\ boot' = [boot EXCEPT ![image.tools] = Config(Entry)]
        /\ grubConfig' = boot'[image.tools]
    BY <1>4 DEF Install, Proceed
  <2>2. /\ boot' \in [Paths -> {boot'[p] : p \in Paths}]
        /\ grubConfig' = Config(Entry)
        /\ \A p \in Paths : boot'[p] = Config(Entry) \/ boot'[p] = boot[p]
    BY <1>3, <2>1 DEF BootTyped
  <2>3. Config(Entry)' = Config(Entry)
    BY <1>1 DEF Config, Entry, Words
  <2>4. BootTyped'
    BY <1>1, <2>2 DEF BootTyped, Stages, Installing
  <2>5. \A p \in Paths : boot'[p].label \in {image.label, "nothing"}
    BY <2>1, <2>2 DEF Installed, Config
  <2>6. Installed'
    BY <1>1, <2>1, <2>2, <2>3, <2>5 DEF Installed
  <2> QED
    BY <1>2, <2>4, <2>6
<1>5. CASE ConfigureETC \/ LoadKernel
  <2>1. UNCHANGED <<boot, grubConfig>>
    BY <1>5 DEF ConfigureETC, LoadKernel, memory, disk
  <2>2. Config(Entry)' = Config(Entry)
    BY <1>1 DEF Config, Entry, Words
  <2>3. BootTyped'
    BY <1>1, <2>1 DEF BootTyped, Stages, Installing
  <2>4. Installed'
    BY <1>1, <1>5, <2>1, <2>2 DEF Installed, ConfigureETC, LoadKernel, Proceed, disk
  <2> QED
    BY <1>2, <2>3, <2>4
<1> QED
  BY <1>4, <1>5

LEMMA InterruptedKeepsInv ==
  ASSUME BootInv, Interrupted
  PROVE  BootInv'
<1> USE DEF BootInv
<1>1. /\ stage' = "raised" /\ stage # "noLine"
      /\ cut' = (cut \/ Writing)
      /\ boot' = boot \/ boot' = [boot EXCEPT ![image.tools] = Nothing]
      /\ UNCHANGED <<args, settings, etcLabel, image, existing>>
  BY DEF Interrupted, memory, Over, Writing
<1>2. BootTyped'
  <2>1. boot' \in [Paths -> {boot'[p] : p \in Paths}]
    BY <1>1 DEF BootTyped
  <2> QED
    BY <1>1, <2>1 DEF BootTyped, Stages
<1>3. Held' = settings /\ ~Writing'
  BY <1>1 DEF Held, Writing
<1>4. LineKept'
  BY <1>1, <1>3 DEF LineKept, Held
<1>5. Installed' /\ Fresh' /\ DefaultKept' /\ AsAsked'
  BY <1>1, <1>3 DEF Installed, Fresh, DefaultKept, AsAsked, Installing
<1> QED
  BY <1>2, <1>4, <1>5

\* The next inauguration finds the settings of this one.
LEMMA AgainKeepsInv ==
  ASSUME BootInv, Again
  PROVE  BootInv'
<1> USE DEF BootInv
<1>1. /\ stage' = "osmosis" /\ Over /\ image' \in Images /\ existing' = NoLine
      /\ UNCHANGED <<args, settings, boot, etcLabel, cut>>
  BY DEF Again, Proceed, disk
<1>2. BootTyped'
  BY <1>1, Empty DEF BootTyped, Stages
<1>3. Held' = settings /\ Held = settings
  BY <1>1 DEF Held, Writing, Over
<1>4. LineKept'
  BY <1>1, <1>3 DEF LineKept
<1>5. Installed' /\ Fresh' /\ DefaultKept' /\ AsAsked'
  BY <1>1, <1>3 DEF Installed, Fresh, DefaultKept, AsAsked, Installing
<1> QED
  BY <1>2, <1>4, <1>5

\* The file is opened: what was in it is in memory.
LEMMA OpenKeepsInv ==
  ASSUME BootInv, NEW place \in {"extra", "console"}, OpenSettings(place)
  PROVE  BootInv'
<1> USE DEF BootInv
<1>1. /\ stage = place
      /\ UNCHANGED <<args, boot, etcLabel, image, grubConfig, loaded, cut>>
  BY DEF OpenSettings
<1>2. ~Writing /\ Held = settings
  BY <1>1 DEF Writing, Held
<1>3. args.extra \in {"none", "extra", "silent"} /\ args.kept \in BOOLEAN
  BY Records DEF BootTyped
<1>4. Installed'
  <2>1. stage' \notin {"osmosis", "rsync", "etc", "kexec", "done"}
    BY DEF OpenSettings, Proceed, After, Write
  <2> QED
    BY <1>1, <2>1 DEF Installed
<1>5. CASE ~Asked(place) \/ settings.kind = "special"
  <2>1. stage' = After(place) /\ UNCHANGED <<settings, existing>>
    BY <1>5 DEF OpenSettings, Proceed
  <2>2. ~Writing' /\ Held' = settings /\ stage' \in {"console", "install"}
    BY <2>1 DEF Writing, Held, After
  <2>3. BootTyped'
    BY <1>1, <2>1, <2>2 DEF BootTyped, Stages
  <2>4. LineKept'
    BY <1>1, <1>2, <2>2 DEF LineKept
  <2>5. ASSUME settings.kind = "file" PROVE Fresh'
    <3>1. ~Asked(place)
      BY <1>5, <2>5
    <3>2. CASE place = "extra"
      BY <1>1, <1>2, <2>1, <2>2, <3>2 DEF Fresh, After, Installing
    <3>3. CASE place = "console"
      <4>1. stage' = "install"
        BY <2>1, <3>3 DEF After
      <4>2. ASSUME ~args.kept
            PROVE  /\ AtMostOnce("quiet", settings.words) /\ AtMostOnce("tty0", settings.words)
                   /\ AtMostOnce(args.extra, settings.words)
        BY <1>1, <1>2, <2>5, <3>3, <4>2 DEF Fresh, InWords, AtMostOnce
      <4> QED
        BY <1>1, <2>1, <2>2, <4>1, <4>2 DEF Fresh, Installing
    <3> QED
      BY <3>2, <3>3
  <2>6. ASSUME settings.kind = "file" PROVE AsAsked'
    <3>1. ~Asked(place)
      BY <1>5, <2>6
    <3>2. args.extra # "none" => place = "console"
      BY <3>1 DEF Asked
    <3>3. args.extra # "none" => InWords(args.extra, settings.words)
      BY <1>1, <1>2, <2>6, <3>2 DEF AsAsked
    <3>4. place = "console" => args.extra # "silent" /\ args.consoles = <<>>
      BY <3>1 DEF Asked
    <3>5. stage' = "install" => place = "console"
      BY <2>1 DEF After
    <3> QED
      BY <1>1, <2>1, <2>2, <3>3, <3>4, <3>5 DEF AsAsked, Installing
  <2>7. ASSUME settings.kind # "file" PROVE Fresh' /\ AsAsked'
    BY <2>1, <2>2, <2>7 DEF Fresh, AsAsked
  <2>8. DefaultKept'
    BY <1>1, <1>2, <2>1, <2>2 DEF DefaultKept
  <2> QED
    BY <1>4, <2>3, <2>4, <2>5, <2>6, <2>7, <2>8
<1>6. CASE Asked(place) /\ settings.kind # "special"
  <2>1. /\ existing' = IF settings.kind = "file" THEN settings ELSE NoLine
        /\ settings' = NoLine /\ stage' = Write(place)
    BY <1>6 DEF OpenSettings, Proceed
  <2>2. Writing' /\ Held' = existing' /\ stage' \in {"extraWrite", "consoleWrite"}
    BY <2>1 DEF Writing, Held, Write
  <2>3. existing' \in LineFiles
    BY <2>1, Empty DEF BootTyped, SettingsFiles, NoFile, Special
  <2>4. BootTyped'
    BY <1>1, <2>1, <2>2, <2>3, Empty DEF BootTyped, Stages, SettingsFiles
  <2>5. HasLine(settings) => existing' = settings
    BY <2>1 DEF HasLine
  <2>6. LineKept'
    BY <1>1, <1>2, <2>2, <2>5 DEF LineKept
  <2>7. Fresh'
    <3>1. CASE settings.kind = "file"
      <4>1. place = "extra" => stage' = "extraWrite"
        BY <2>1 DEF Write
      <4>2. place = "console" => stage' = "consoleWrite"
        BY <2>1 DEF Write
      <4> QED
        BY <1>1, <1>2, <2>1, <2>2, <3>1, <4>1, <4>2 DEF Fresh, Installing
    <3>2. CASE settings.kind # "file"
      <4>1. existing' = NoLine
        BY <2>1, <3>2
      <4> QED
        BY <2>2, <4>1, Empty DEF Fresh, Installing
    <3> QED
      BY <3>1, <3>2
  <2>8. AsAsked'
    <3> SUFFICES ASSUME stage' = "consoleWrite", existing'.line, args.extra # "none"
                 PROVE  InWords(args.extra, existing'.words)
      BY <1>1, <2>2 DEF AsAsked, Installing
    <3>1. place = "console"
      BY <2>1 DEF Write
    <3>2. settings.kind = "file"
      BY <2>1 DEF NoLine
    <3> QED
      BY <1>1, <1>2, <2>1, <3>1, <3>2 DEF AsAsked
  <2>9. DefaultKept'
    <3>1. CASE settings.kind = "file"
      BY <1>1, <1>2, <2>1, <2>2, <3>1 DEF DefaultKept
    <3>2. CASE settings.kind # "file"
      BY <2>1, <2>2, <3>2 DEF DefaultKept, NoLine
    <3> QED
      BY <3>1, <3>2
  <2> QED
    BY <1>4, <2>4, <2>6, <2>7, <2>8, <2>9
<1> QED
  BY <1>5, <1>6

\* The line is written with the change, or there is none.
LEMMA WriteKeepsInv ==
  ASSUME BootInv, NEW place \in {"extra", "console"}, WriteSettings(place)
  PROVE  BootInv'
<1> USE DEF BootInv
<1>1. /\ stage = Write(place)
      /\ UNCHANGED <<args, boot, etcLabel, image, existing, grubConfig, loaded, cut>>
  BY DEF WriteSettings, memory
<1>2. Writing /\ Held = existing
  BY <1>1 DEF Writing, Held, Write
<1>3. /\ args \in Args /\ args.extra \in {"none", "extra", "silent"} /\ args.extra \in Word
      /\ args.kept \in BOOLEAN
  BY Records DEF BootTyped
<1>4. Installed'
  <2>1. stage' \notin {"osmosis", "rsync", "etc", "kexec", "done"}
    BY DEF WriteSettings, Proceed, After
  <2>2. stage \notin {"osmosis", "rsync", "raised"}
    BY <1>1 DEF Write
  <2> QED
    BY <1>1, <2>1, <2>2 DEF Installed
<1>5. CASE ~existing.line
  <2>1. stage' = "noLine" /\ settings' = existing
    BY <1>5 DEF WriteSettings, Proceed
  <2>2. ~HasLine(Held)
    BY <1>2, <1>5 DEF HasLine
  <2>3. BootTyped'
    BY <1>1, <2>1 DEF BootTyped, Stages, SettingsFiles
  <2>4. LineKept'
    BY <1>1, <1>2, <2>2 DEF LineKept, Writing
  <2>5. Fresh' /\ DefaultKept' /\ AsAsked'
    BY <2>1 DEF Fresh, DefaultKept, AsAsked, Installing
  <2> QED
    BY <1>4, <2>3, <2>4, <2>5
<1>6. CASE existing.line
  <2> DEFINE words == existing.words
             changed == Changed(place, words)
  <2>1. settings' = [existing EXCEPT !.words = changed] /\ stage' = After(place)
    BY <1>6 DEF WriteSettings, Proceed
  <2>2. words \in Seq(Word) /\ existing.kind = "file" /\ existing \in LineFiles
    BY DEF BootTyped, LineFiles
  <2>3. /\ settings'.kind = "file" /\ settings'.line /\ settings'.words = changed
        /\ settings'.default = existing.default
        /\ changed \in Seq(Word) => settings' \in SettingsFiles
    BY <1>6, <2>1, <2>2 DEF SettingsFiles, LineFiles
  <2> HIDE DEF words, changed
  <2>4. ~Writing' /\ Held' = settings' /\ stage' \in {"console", "install"}
    BY <2>1 DEF Writing, Held, After
  <2>5. LineKept'
    BY <1>1, <1>2, <1>6, <2>2, <2>3, <2>4 DEF LineKept, HasLine, Writing
  <2>9. DefaultKept'
    <3>1. stage \notin {"osmosis", "noLine", "raised"}
      BY <1>1 DEF Write
    <3> QED
      BY <1>1, <1>2, <1>6, <2>2, <2>3, <2>4, <3>1 DEF DefaultKept
  <2>6. CASE place = "extra"
    <3>1. changed = <<args.extra>> \o words /\ stage = "extraWrite" /\ stage' = "console"
      BY <1>1, <2>1, <2>6 DEF changed, Changed, Write, After
    <3>2. /\ changed \in Seq(Word)
          /\ InWords(args.extra, changed)
          /\ \A w : InWords(w, changed) => w = args.extra \/ InWords(w, words)
          /\ \A w : AtMostOnce(w, words) /\ (w = args.extra => ~InWords(w, words))
                    => AtMostOnce(w, changed)
      BY <1>3, <2>2, <3>1, ExtraKeeps
    <3>3. BootTyped'
      BY <1>1, <2>3, <2>4, <3>2 DEF BootTyped, Stages
    <3>4. AsAsked'
      BY <1>1, <2>3, <2>4, <3>1, <3>2 DEF AsAsked, Installing
    <3>5. ASSUME ~args.kept
          PROVE  /\ ~InWords("tty0", changed) /\ AtMostOnce("quiet", changed)
                 /\ AtMostOnce(args.extra, changed)
      <4>1. /\ ~InWords(args.extra, words) /\ ~InWords("tty0", words)
            /\ AtMostOnce("quiet", words) /\ AtMostOnce(args.extra, words)
        BY <1>2, <2>2, <3>1, <3>5 DEF Fresh, words
      <4> QED
        BY <1>3, <3>2, <4>1
    <3>6. Fresh'
      BY <1>1, <2>3, <2>4, <3>1, <3>5 DEF Fresh, Installing
    <3> QED
      BY <1>4, <2>5, <2>9, <3>3, <3>4, <3>6
  <2>7. CASE place = "console"
    <3>1. /\ changed = ConsoleChanged(words)
          /\ stage = "consoleWrite" /\ stage' = "install"
      BY <1>1, <2>1, <2>7 DEF changed, Changed, Write, After
    <3>2. /\ changed \in Seq(Word)
          /\ args.extra = "silent" => NoConsole(changed)
          /\ args.extra # "silent" => OneConsole(changed)
          /\ \A w : ~IsConsole(w) /\ InWords(w, words) => InWords(w, changed)
          /\ \A w : /\ w # "console=ttyS0" /\ (w = "tty0" => ~InWords(w, words))
                    /\ AtMostOnce(w, words)
                    => AtMostOnce(w, changed)
      BY <1>3, <2>2, <3>1, ConsoleChangedKeeps
    <3>3. BootTyped'
      BY <1>1, <2>3, <2>4, <3>2 DEF BootTyped, Stages
    <3>4. ~IsConsole(args.extra) /\ args.extra \notin {"tty0", "console=ttyS0"}
      BY <1>3 DEF IsConsole
    <3>5. args.extra # "none" => InWords(args.extra, changed)
      <4>1. args.extra # "none" => InWords(args.extra, words)
        BY <1>2, <1>6, <2>2, <3>1 DEF AsAsked, words
      <4> QED
        BY <3>2, <3>4, <4>1
    <3>6. AsAsked'
      BY <1>1, <2>3, <2>4, <3>1, <3>2, <3>5 DEF AsAsked, Installing
    <3>7. ASSUME ~args.kept
          PROVE  /\ AtMostOnce("tty0", changed) /\ AtMostOnce("quiet", changed)
                 /\ AtMostOnce(args.extra, changed)
      <4>1. /\ ~InWords("tty0", words)
            /\ AtMostOnce("quiet", words) /\ AtMostOnce(args.extra, words)
        BY <1>2, <2>2, <3>1, <3>7 DEF Fresh, words
      <4>2. AtMostOnce("tty0", words)
        BY <4>1 DEF InWords, AtMostOnce
      <4> QED
        BY <3>2, <3>4, <4>1, <4>2
    <3>8. Fresh'
      BY <1>1, <2>3, <2>4, <3>1, <3>7 DEF Fresh, Installing
    <3> QED
      BY <1>4, <2>5, <2>9, <3>3, <3>6, <3>8
  <2> QED
    BY <2>6, <2>7
<1> QED
  BY <1>5, <1>6

LEMMA BootNextInv == BootInv /\ [BootNext]_bootVars => BootInv'
<1> SUFFICES ASSUME BootInv, [BootNext]_bootVars PROVE BootInv'
  OBVIOUS
<1>1. CASE UNCHANGED bootVars
  <2>1. /\ UNCHANGED <<args, settings, boot, etcLabel, image, existing, grubConfig, loaded>>
        /\ UNCHANGED <<stage, cut>>
    BY <1>1 DEF bootVars, disk, memory
  <2>2. /\ Entry' = Entry /\ Config(Entry)' = Config(Entry)
        /\ Held' = Held /\ Writing' = Writing
    BY <2>1 DEF Entry, Words, Config, Held, Writing
  <2>3. BootTyped' /\ Installed'
    BY <2>1, <2>2 DEF BootInv, BootTyped, Installed
  <2>4. LineKept' /\ Fresh' /\ DefaultKept' /\ AsAsked'
    BY <2>1, <2>2 DEF BootInv, LineKept, Fresh, DefaultKept, AsAsked
  <2> QED
    BY <2>3, <2>4 DEF BootInv
<1>2. CASE BootNext
  <2>1. CASE ChangeSettings
    BY <2>1, OpenKeepsInv, WriteKeepsInv DEF ChangeSettings
  <2> QED
    BY <1>1, <1>2, <2>1, OsmosisKeepsInv, RsyncKeepsInv, InstallKeepsInv,
       InterruptedKeepsInv, AgainKeepsInv DEF BootNext, Step, Stopped
<1> QED
  BY <1>1, <1>2

\* However often the station was inaugurated, for whatever labels, and wherever
\* it was interrupted: GRUB_CMDLINE_LINUX has the console and the data this station
\* asks for, and where /etc is not kept, each once and beside the image's own
\* default line; what is loaded is that line, the default line and what is passed
\* through.
THEOREM BootedAsAsked == BootSafety => []SettingsAsAsked
<1>1. BootInv => SettingsAsAsked
  <2> SUFFICES ASSUME BootInv, stage = "done", settings.kind = "file"
               PROVE  SettingsAsAsked
    BY DEF SettingsAsAsked
  <2>1. loaded.words = settings.words \o settings.default \o args.passthrough
    <3>1. Entry = settings.words \o settings.default
      BY DEF Entry, Words
    <3>2. grubConfig = [label |-> image.label, words |-> Entry]
      BY DEF BootInv, Installed, Config
    <3>3. loaded = [grubConfig EXCEPT !.words = @ \o args.passthrough]
      BY DEF BootInv, Installed
    <3> QED
      BY <3>1, <3>2, <3>3, Zenon
  <2>2. Held = settings /\ ~Writing
    BY DEF Held, Writing
  <2>3. /\ args.extra = "silent" => NoConsole(settings.words)
        /\ args.extra # "silent" /\ args.consoles # <<>> => OneConsole(settings.words)
        /\ args.extra # "none" => InWords(args.extra, settings.words)
    BY <2>2 DEF BootInv, AsAsked, Installing
  <2>4. ~args.kept =>
          /\ settings.default = image.file.default
          /\ \A word \in {"quiet", "tty0", args.extra} : AtMostOnce(word, settings.words)
    BY <2>2 DEF BootInv, DefaultKept, Fresh, Installing
  <2> QED
    BY <2>1, <2>3, <2>4 DEF SettingsAsAsked
<1> QED
  BY <1>1, BootInitInv, BootNextInv, PTL DEF BootSafety

\* What kexec starts is what the disk boots next time, followed by exactly what is
\* passed through, of the label that /etc/inaugurator.label names, and the boot
\* partition has nothing else.
THEOREM BootedAgain == BootSafety => []SameAsNextBoot
<1>1. BootInv => SameAsNextBoot
  BY DEF BootInv, BootTyped, Installed, SameAsNextBoot
<1> QED
  BY <1>1, BootInitInv, BootNextInv, PTL DEF BootSafety

\* The line of the settings that inaugurator changes is lost only by an
\* interruption of its own write, and only where osmosis does not restore it.
THEOREM LineLost == BootSafety => []LineLostOnlyByInterruption
<1>1. BootInv => LineLostOnlyByInterruption
  BY DEF BootInv, LineKept, LineLostOnlyByInterruption
<1> QED
  BY <1>1, BootInitInv, BootNextInv, PTL DEF BootSafety
===============================================================================
