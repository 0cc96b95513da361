-------------------------- MODULE PikaWakeUp_proofs ---------------------------
(***************************************************************************)
(* Proofs about the threads of the server.  Those about PikaWakeUp are for *)
(* any number of threads and commands, any capacity of the pipe and any    *)
(* number of failing reads.  All of them rest on one exact account of the  *)
(* bytes: a command in the queue and a byte that a failed read left behind *)
(* are matched, one for one, by a byte in the pipe, a thread about to      *)
(* write one, the IO thread about to take, or a warning already logged.    *)
(* Those about ProcessTree follow.                                         *)
(***************************************************************************)
EXTENDS PikaWakeUp, ProcessTree, FiniteSetTheorems, TLAPS

Account ==
  Len(queue) + readFailures
    = pipe + Cardinality(Writers) + Taken + emptyWarnings

IInv == TypeOK /\ Account

\* What follows "executed" in the order of the puts: the command being run,
\* then the queue.
Running == IF io = "run" THEN 1 ELSE 0

\* The history of the puts is what was executed, what runs and what waits.
Order ==
  /\ Len(submitted) = Len(executed) + Running + Len(queue)
  /\ \A i \in 1 .. Len(executed) : submitted[i] = executed[i]
  /\ io = "run" => current = submitted[Len(executed) + 1]
  /\ \A i \in 1 .. Len(queue) :
       submitted[Len(executed) + Running + i] = queue[i]

-------------------------------------------------------------------------------
(* Lemmas *)

LEMMA WritersFinite ==
  ASSUME TypeOK
  PROVE  IsFiniteSet(Writers) /\ Cardinality(Writers) \in Nat
  <1>1. Writers \subseteq Callers
    BY DEF Writers
  <1>2. IsFiniteSet(Writers)
    BY <1>1, CallersAssumption, FS_Subset
  <1> QED
    BY <1>2, FS_CardinalityType

\* runInThread makes its thread a writer when it puts ...
LEMMA WriterAdded ==
  ASSUME TypeOK, NEW t \in Callers, pc[t] = "idle",
         pc' = [pc EXCEPT ![t] = "write"]
  PROVE  Cardinality(Writers') = Cardinality(Writers) + 1
  <1>1. Writers' = Writers \cup {t} /\ t \notin Writers
    BY DEF TypeOK, Writers
  <1> QED
    BY <1>1, WritersFinite, FS_AddElement

\* ... and no longer one when it has written.
LEMMA WriterRemoved ==
  ASSUME TypeOK, NEW t \in Callers, pc[t] = "write",
         pc' = [pc EXCEPT ![t] = "idle"]
  PROVE  Cardinality(Writers') = Cardinality(Writers) - 1
  <1>1. Writers' = Writers \ {t} /\ t \in Writers
    BY DEF TypeOK, Writers
  <1> QED
    BY <1>1, WritersFinite, FS_RemoveElement

-------------------------------------------------------------------------------
(* Type correctness *)

LEMMA InitTypeOK == Init => TypeOK
  BY CapacityAssumption, FailuresAssumption, NoneAssumption DEF Init, TypeOK

LEMMA NextTypeOK == TypeOK /\ [Next]_vars => TypeOK'
  <1> USE CapacityAssumption, FailuresAssumption, NoneAssumption
  <1> SUFFICES ASSUME TypeOK, [Next]_vars
               PROVE  TypeOK'
    OBVIOUS
  <1>1. ASSUME NEW t \in Callers, NEW c \in Commands, Put(t, c)
        PROVE  TypeOK'
    BY <1>1 DEF Put, TypeOK
  <1>2. ASSUME NEW t \in Callers, Write(t)
        PROVE  TypeOK'
    BY <1>2 DEF Write, TypeOK
  <1>3. CASE Poll
    BY <1>3 DEF Poll, TypeOK
  <1>4. CASE ReadByte
    BY <1>4 DEF ReadByte, TypeOK
  <1>5. CASE ReadFails
    BY <1>5 DEF ReadFails, TypeOK
  <1>6. CASE GetCommand
    <2>1. Head(queue) \in Commands /\ Tail(queue) \in Seq(Commands)
      BY <1>6 DEF GetCommand, TypeOK
    <2> QED
      BY <1>6, <2>1 DEF GetCommand, TypeOK
  <1>7. CASE GetEmpty
    BY <1>7 DEF GetEmpty, TypeOK
  <1>8. CASE RunCommand
    <2>1. current \in Commands
      BY <1>8 DEF RunCommand, TypeOK
    <2> QED
      BY <1>8, <2>1 DEF RunCommand, TypeOK
  <1>9. CASE UNCHANGED vars
    BY <1>9 DEF vars, TypeOK
  <1> QED
    BY <1>1, <1>2, <1>3, <1>4, <1>5, <1>6, <1>7, <1>8, <1>9
    DEF Next, ProcessCommands, RunInThread, Finished

\* The variables of the wake-up keep their types: the pipe stays within its
\* capacity and the IO thread has a command in hand exactly while it runs one.
THEOREM TypeCorrect == Safety => []TypeOK
  BY InitTypeOK, NextTypeOK, PTL DEF Safety

-------------------------------------------------------------------------------
(* The wake-ups *)

LEMMA InitAccount == Init => Account
  <1> SUFFICES ASSUME Init
               PROVE  Account
    OBVIOUS
  <1>1. Writers = {}
    BY DEF Init, Writers
  <1>2. Cardinality(Writers) = 0
    BY <1>1, FS_EmptySet
  <1> QED
    BY <1>2 DEF Init, Account, Taken

LEMMA NextAccount == IInv /\ [Next]_vars => Account'
  <1> SUFFICES ASSUME TypeOK, Account, [Next]_vars
               PROVE  Account'
    BY DEF IInv
  <1>0. Cardinality(Writers) \in Nat /\ Len(queue) \in Nat /\ pipe \in Nat
          /\ readFailures \in Nat /\ emptyWarnings \in Nat
    BY WritersFinite, CapacityAssumption, FailuresAssumption DEF TypeOK
  <1>1. ASSUME NEW t \in Callers, NEW c \in Commands, Put(t, c)
        PROVE  Account'
    <2>1. Cardinality(Writers') = Cardinality(Writers) + 1
      BY <1>1, WriterAdded DEF Put
    <2>2. Len(queue') = Len(queue) + 1
      BY <1>1 DEF Put, TypeOK
    <2>3. UNCHANGED <<pipe, io, readFailures, emptyWarnings>>
      BY <1>1 DEF Put
    <2> QED
      BY SMTT(30), <1>0, <2>1, <2>2, <2>3 DEF Account, Taken
  <1>2. ASSUME NEW t \in Callers, Write(t)
        PROVE  Account'
    <2>1. Cardinality(Writers') = Cardinality(Writers) - 1
      BY <1>2, WriterRemoved DEF Write
    <2> QED
      BY <1>0, <1>2, <2>1 DEF Write, Account, Taken
  <1>a. UNCHANGED pc => Cardinality(Writers') = Cardinality(Writers)
    BY DEF Writers
  <1>3. CASE Poll
    BY <1>0, <1>3, <1>a DEF Poll, Account, Taken
  <1>4. CASE ReadByte
    BY <1>0, <1>4, <1>a DEF ReadByte, Account, Taken
  <1>5. CASE ReadFails
    <2>1. UNCHANGED <<queue, pipe, pc, emptyWarnings>>
            /\ readFailures' = readFailures + 1 /\ Taken = 0 /\ Taken' = 1
      BY <1>5 DEF ReadFails, Taken
    <2> QED
      BY SMTT(30), <1>0, <1>a, <2>1 DEF Account
  <1>6. CASE GetCommand
    <2>1. Len(queue') = Len(queue) - 1
      BY <1>6 DEF GetCommand, TypeOK
    <2>2. UNCHANGED <<pipe, pc, readFailures, emptyWarnings>>
            /\ Taken = 1 /\ Taken' = 0
      BY <1>6 DEF GetCommand, Taken
    <2> QED
      BY SMTT(30), <1>0, <1>a, <2>1, <2>2 DEF Account
  <1>7. CASE GetEmpty
    BY SMTT(30), <1>0, <1>7, <1>a DEF GetEmpty, Account, Taken
  <1>8. CASE RunCommand
    BY <1>0, <1>8, <1>a DEF RunCommand, Account, Taken
  <1>9. CASE UNCHANGED vars
    BY <1>9, <1>a DEF vars, Account, Taken
  <1> QED
    BY <1>1, <1>2, <1>3, <1>4, <1>5, <1>6, <1>7, <1>8, <1>9
    DEF Next, ProcessCommands, RunInThread, Finished

LEMMA Inductive == Safety => []IInv
  <1>1. Init => IInv
    BY InitTypeOK, InitAccount DEF IInv
  <1>2. IInv /\ [Next]_vars => IInv'
    BY NextTypeOK, NextAccount DEF IInv
  <1> QED
    BY <1>1, <1>2, PTL DEF Safety

\* Every warning about an empty queue was preceded by a read that failed: when
\* a warning is logged the queue is empty, and the byte it stands for was the
\* surplus of a failure.  That is an invariant of its own, since the account
\* alone does not bound the warnings in a state where bytes are in flight.
LEMMA NextWarnings ==
  IInv /\ WarningNeedsReadFailure /\ [Next]_vars => WarningNeedsReadFailure'
  <1> SUFFICES ASSUME TypeOK, Account, WarningNeedsReadFailure, [Next]_vars
               PROVE  WarningNeedsReadFailure'
    BY DEF IInv
  <1>0. Cardinality(Writers) \in Nat /\ pipe \in Nat
          /\ readFailures \in Nat /\ emptyWarnings \in Nat
    BY WritersFinite, CapacityAssumption, FailuresAssumption DEF TypeOK
  <1>1. CASE GetEmpty
    \* Account with an empty queue: readFailures is at least 1 + emptyWarnings.
    <2>1. Len(queue) = 0 /\ Taken = 1
      BY <1>1 DEF GetEmpty, Taken
    <2>2. readFailures >= emptyWarnings + 1
      BY <1>0, <2>1 DEF Account
    <2> QED
      BY <1>0, <1>1, <2>2 DEF GetEmpty, WarningNeedsReadFailure
  <1>2. CASE ReadFails
    BY <1>0, <1>2 DEF ReadFails, WarningNeedsReadFailure
  <1>3. CASE ~ GetEmpty /\ ~ ReadFails
    <2>1. UNCHANGED <<readFailures, emptyWarnings>>
      BY <1>3 DEF Next, ProcessCommands, RunInThread, Finished, Put, Write,
                  Poll, ReadByte, GetCommand, RunCommand, vars
    <2> QED
      BY <2>1 DEF WarningNeedsReadFailure
  <1> QED
    BY <1>1, <1>2, <1>3

\* "Command queue is empty after the pipe indicated that a command exists"
\* (pikapatchwakeupfromanotherthread.py:63) is logged at most once for every
\* failed read: without failures it never is.
THEOREM WarningsNeedReadFailures == Safety => []WarningNeedsReadFailure
  <1>1. Init => WarningNeedsReadFailure
    BY DEF Init, WarningNeedsReadFailure
  <1> QED
    BY <1>1, Inductive, NextWarnings, PTL DEF Safety

\* A command in the queue always has its wake-up: a byte in the pipe, a thread
\* about to write it, or the IO thread about to take it.  runInThread and
\* _processCommands therefore never leave a command behind, in whatever order
\* the steps of any number of threads interleave.
THEOREM WakeUpNeverLost == Safety => []NoLostWakeUp
  <1>1. IInv /\ WarningNeedsReadFailure => NoLostWakeUp
    <2> SUFFICES ASSUME TypeOK, Account, WarningNeedsReadFailure
                 PROVE  NoLostWakeUp
      BY DEF IInv
    <2>1. Cardinality(Writers) \in Nat /\ pipe \in Nat /\ Len(queue) \in Nat
            /\ readFailures \in Nat /\ emptyWarnings \in Nat
      BY WritersFinite, CapacityAssumption, FailuresAssumption DEF TypeOK
    <2> QED
      BY SMTT(30), <2>1 DEF Account, WarningNeedsReadFailure, NoLostWakeUp, Taken
  <1> QED
    BY <1>1, Inductive, WarningsNeedReadFailures, PTL

-------------------------------------------------------------------------------
(* The order of the commands, and the abstract queue *)

LEMMA InitOrder == Init => Order
  BY DEF Init, Order, Running

LEMMA NextOrder == TypeOK /\ Order /\ [Next]_vars => Order'
  <1> SUFFICES ASSUME TypeOK, Order, [Next]_vars
               PROVE  Order'
    OBVIOUS
  <1>1. ASSUME NEW t \in Callers, NEW c \in Commands, Put(t, c)
        PROVE  Order'
    <2>1. /\ Len(submitted') = Len(submitted) + 1
          /\ \A i \in 1 .. Len(submitted) : submitted'[i] = submitted[i]
          /\ submitted'[Len(submitted) + 1] = c
      BY <1>1 DEF Put, TypeOK
    <2>2. /\ Len(queue') = Len(queue) + 1
          /\ \A i \in 1 .. Len(queue) : queue'[i] = queue[i]
          /\ queue'[Len(queue) + 1] = c
      BY <1>1 DEF Put, TypeOK
    <2>3. UNCHANGED <<io, current, executed>> /\ Running' = Running
      BY <1>1 DEF Put, Running
    <2>4. Len(executed) \in Nat /\ Len(queue) \in Nat /\ Running \in {0, 1}
            /\ (io = "run" => Running = 1)
      BY DEF TypeOK, Running
    <2>5. \A i \in 1 .. Len(executed') : submitted'[i] = executed'[i]
      BY <2>1, <2>3, <2>4 DEF Order
    <2>6. io' = "run" => current' = submitted'[Len(executed') + 1]
      BY <2>1, <2>3, <2>4 DEF Order
    <2>7. \A i \in 1 .. Len(queue') :
            submitted'[Len(executed') + Running' + i] = queue'[i]
      <3> SUFFICES ASSUME NEW i \in 1 .. Len(queue) + 1
                   PROVE  submitted'[Len(executed) + Running + i] = queue'[i]
        BY <2>2, <2>3
      <3>1. CASE i = Len(queue) + 1
        <4>1. Len(executed) + Running + i = Len(submitted) + 1
          BY <3>1, <2>4 DEF Order
        <4> QED
          BY <3>1, <4>1, <2>1, <2>2
      <3>2. CASE i # Len(queue) + 1
        <4>1. i \in 1 .. Len(queue)
          BY <3>2, <2>4
        <4>2. Len(executed) + Running + i \in 1 .. Len(submitted)
          BY <4>1, <2>4 DEF Order
        <4> QED
          BY <4>1, <4>2, <2>1, <2>2 DEF Order
      <3> QED
        BY <3>1, <3>2
    <2> QED
      BY <2>1, <2>2, <2>3, <2>4, <2>5, <2>6, <2>7 DEF Order
  <1>2. CASE GetCommand
    <2>1. /\ Len(queue') = Len(queue) - 1
          /\ \A i \in 1 .. Len(queue') : queue'[i] = queue[i + 1]
          /\ current' = queue[1] /\ Len(queue) \in Nat /\ Len(queue) > 0
      BY <1>2 DEF GetCommand, TypeOK
    <2>2. UNCHANGED <<submitted, executed>> /\ Running = 0 /\ Running' = 1
      BY <1>2 DEF GetCommand, Running
    <2>3. Len(executed) \in Nat
      BY DEF TypeOK
    <2>4. Len(submitted') = Len(executed') + Running' + Len(queue')
      <3>1. Len(submitted) = Len(executed) + Running + Len(queue)
        BY DEF Order
      <3>2. Len(submitted') = Len(submitted) /\ Len(executed') = Len(executed)
        BY <2>2
      <3>3. Len(submitted) = Len(executed) + 0 + Len(queue)
        BY <3>1, <2>2
      <3> QED
        BY <3>2, <3>3, <2>1, <2>2, <2>3
    <2>5. current' = submitted'[Len(executed') + 1]
      <3>1. 1 \in 1 .. Len(queue) /\ Len(executed) + Running + 1 = Len(executed) + 1
        BY <2>1, <2>2, <2>3
      <3> QED
        BY <3>1, <2>1, <2>2 DEF Order
    <2>6. ASSUME NEW i \in 1 .. Len(queue')
          PROVE  submitted'[Len(executed') + Running' + i] = queue'[i]
      <3>1. i + 1 \in 1 .. Len(queue)
        BY <2>1
      <3>2. Len(executed') + Running' + i = Len(executed) + Running + (i + 1)
        BY <2>2, <2>3
      <3> QED
        BY <3>1, <3>2, <2>1, <2>2 DEF Order
    <2> QED
      BY <2>2, <2>4, <2>5, <2>6 DEF Order
  <1>3. CASE RunCommand
    <2>1. /\ Len(executed') = Len(executed) + 1
          /\ \A i \in 1 .. Len(executed) : executed'[i] = executed[i]
          /\ executed'[Len(executed) + 1] = current
      BY <1>3 DEF RunCommand, TypeOK
    <2>2. UNCHANGED <<submitted, queue>> /\ io = "run" /\ io' = "poll"
            /\ Running = 1 /\ Running' = 0
      BY <1>3 DEF RunCommand, Running
    <2>3. Len(executed) \in Nat /\ Len(queue) \in Nat
      BY DEF TypeOK
    <2> QED
      BY <2>1, <2>2, <2>3 DEF Order
  <1>4. ASSUME \/ Poll \/ ReadByte \/ ReadFails \/ GetEmpty
               \/ UNCHANGED vars
               \/ \E t \in Callers : Write(t)
        PROVE  Order'
    <2>1. /\ UNCHANGED <<submitted, queue, executed, current>>
          /\ UNCHANGED io \/ (io # "run" /\ io' # "run")
      BY <1>4 DEF Poll, ReadByte, ReadFails, GetEmpty, Write, vars
    <2> QED
      BY <2>1 DEF Order, Running
  <1> QED
    BY <1>1, <1>2, <1>3, <1>4
    DEF Next, ProcessCommands, RunInThread, Finished

\* Every step of the queue, the pipe and the threads is a step of the abstract
\* queue or changes nothing it sees: a put submits, a callback that has run
\* executes the oldest command submitted and not executed yet.
LEMMA StepImplements ==
  TypeOK /\ Order /\ [Next]_vars => [Abstract!Next]_(Abstract!vars)
  <1> SUFFICES ASSUME TypeOK, Order, [Next]_vars
               PROVE  [Abstract!Next]_(Abstract!vars)
    OBVIOUS
  <1>1. ASSUME NEW t \in Callers, NEW c \in Commands, Put(t, c)
        PROVE  Abstract!Next
    <2>1. Abstract!Submit(c)
      BY <1>1 DEF Put, WasSubmitted, Abstract!Submit, Abstract!WasSubmitted
    <2> QED
      BY <2>1 DEF Abstract!Next
  <1>2. CASE RunCommand
    <2>1. io = "run" /\ current = submitted[Len(executed) + 1]
      BY <1>2 DEF RunCommand, Order
    <2>2. Len(executed) < Len(submitted)
      BY <2>1 DEF TypeOK, Order, Running
    <2>3. Abstract!Execute
      BY <1>2, <2>1, <2>2 DEF RunCommand, Abstract!Execute
    <2> QED
      BY <2>3 DEF Abstract!Next
  <1>3. ASSUME \/ Poll \/ ReadByte \/ ReadFails \/ GetCommand \/ GetEmpty
               \/ UNCHANGED vars
               \/ \E t \in Callers : Write(t)
        PROVE  UNCHANGED Abstract!vars
    BY <1>3 DEF Poll, ReadByte, ReadFails, GetCommand, GetEmpty, Write, vars,
                Abstract!vars
  <1> QED
    BY <1>1, <1>2, <1>3 DEF Next, ProcessCommands, RunInThread, Finished

\* The patch implements the queue its callers believe in (the safety part of
\* ImplementsCommandQueue): each command handed over is executed at most once
\* and commands are executed in the order of the puts.
THEOREM Implementation == Safety => Abstract!Safety
  <1>1. Init => Abstract!Init
    BY DEF Init, Abstract!Init
  <1> QED
    BY <1>1, InitOrder, NextOrder, StepImplements, TypeCorrect, PTL
    DEF Safety, Abstract!Safety

-------------------------------------------------------------------------------
(* The other threads of the server are RabbitMQWrapper's: ProcessTree, for *)
(* any processes and any number of rounds.  That the server survives its   *)
(* own clean-up rests on the order of two assignments: the flag is set     *)
(* before the first signal is sent, and a server that kills itself sends   *)
(* none.                                                                   *)

\* Only the second half of pidLive has a process in hand.
InHandWhileLooking == cleanup # "look" => looked = {}

TreeTyped == TreeTypeOK /\ InHandWhileLooking

Unsignalled == \A p \in All : signalled[p] = "none"

\* The flag is set before anything else is done, and whoever found it unset
\* found a broker nobody had sent a signal to.
FlagFirst ==
  /\ ~exited => cleanup = "idle" /\ Unsignalled
  /\ watcher = "suicide" => Unsignalled

-------------------------------------------------------------------------------
(* The process tree: type correctness *)

\* The steps of the processes and of the watching thread do not touch what the
\* clean-up knows.
Outside ==
  \/ \E p, q \in All : Fork(p, q)
  \/ \E p \in All : Exit(p) \/ Reap(p)
  \/ Watch

LEMMA InitTreeTyped ==
  ASSUME TreeInit
  PROVE  TreeTyped
  <1> USE StrangersAssumption, ProcsAssumption, KillsAssumption
  <1>1. 1 \in 1 .. (NormalKills + BruteKills)
    OBVIOUS
  <1>2. parent \in [All -> All \cup {Init1}]
    BY DEF TreeInit, All
  <1> QED
    BY <1>1, <1>2 DEF TreeInit, TreeTyped, TreeTypeOK, InHandWhileLooking

LEMMA OutsideTyped ==
  ASSUME TreeTyped, Outside
  PROVE  TreeTyped'
  <1> USE DEF TreeTyped, TreeTypeOK, InHandWhileLooking
  <1>1. ASSUME NEW p \in All, NEW q \in All, Fork(p, q)
        PROVE  TreeTyped'
    BY <1>1 DEF Fork, devour, All
  <1>2. ASSUME NEW p \in All, Exit(p)
        PROVE  TreeTyped'
    <2>1. status' \in [All -> {"unborn", "alive", "zombie", "gone"}]
      BY <1>2 DEF Exit
    <2>2. parent' \in [All -> All \cup {Init1}]
      BY <1>2 DEF Exit
    <2> QED
      BY <1>2, <2>1, <2>2 DEF Exit, devour
  <1>3. ASSUME NEW p \in All, Reap(p)
        PROVE  TreeTyped'
    BY <1>3 DEF Reap, devour
  <1>4. ASSUME Watch
        PROVE  TreeTyped'
    BY <1>4 DEF Watch, PopenWait, CheckExited, devour, proctable
  <1> QED
    BY <1>1, <1>2, <1>3, <1>4 DEF Outside

LEMMA CleanupTyped ==
  ASSUME TreeTyped, Cleanup \/ DevourChildren
  PROVE  TreeTyped'
  <1> USE DEF TreeTyped, TreeTypeOK, InHandWhileLooking, System, proctable,
      GoTo
  <1>1. CASE Cleanup
    BY <1>1 DEF Cleanup
  <1>2. CASE List
    BY <1>2 DEF List
  <1>3. CASE Read
    BY <1>3 DEF Read
  <1>4. CASE Snapshot
    <2>1. Children \subseteq All
      BY DEF Children
    <2> QED
      BY <1>4, <2>1 DEF Snapshot
  <1>5. CASE Kill
    BY <1>5 DEF Kill, Sent, Signal
  <1>6. CASE Slept
    BY <1>6 DEF Slept
  <1>7. CASE LookExists
    <2>1. PICK p \in todo :
            IF InProc(p)
              THEN looked' = {p} /\ UNCHANGED <<todo, pids>>
              ELSE todo' = todo \ {p} /\ pids' = pids \ {p} /\ UNCHANGED looked
      BY <1>7 DEF LookExists
    <2> QED
      BY <1>7, <2>1 DEF LookExists
  <1>8. CASE LookStatus
    BY <1>8 DEF LookStatus
  <1>9. CASE NextRound
    BY <1>9, KillsAssumption DEF NextRound
  <1>10. CASE Terminate
    BY <1>10 DEF Terminate, Sent, All
  <1> QED
    BY <1>1, <1>2, <1>3, <1>4, <1>5, <1>6, <1>7, <1>8, <1>9, <1>10 DEF DevourChildren

LEMMA NextTreeTyped ==
  ASSUME TreeTyped, [TreeNext]_treeVars
  PROVE  TreeTyped'
  <1>1. CASE UNCHANGED treeVars
    BY <1>1 DEF TreeTyped, TreeTypeOK, InHandWhileLooking, treeVars, proctable,
       devour
  <1> QED
    BY <1>1, OutsideTyped, CleanupTyped DEF TreeNext, Outside, Over

\* The processes, the map of parents and the rounds of kills keep their types.
THEOREM TreeTypeCorrect == TreeSafety => []TreeTypeOK
  <1>1. TreeTyped => TreeTypeOK
    BY DEF TreeTyped
  <1> QED
    BY <1>1, InitTreeTyped, NextTreeTyped, PTL DEF TreeSafety

-------------------------------------------------------------------------------
(* The process tree: the server survives its clean-up *)

LEMMA NextFlagFirst == FlagFirst /\ [TreeNext]_treeVars => FlagFirst'
  <1> SUFFICES ASSUME FlagFirst, [TreeNext]_treeVars PROVE FlagFirst'
    OBVIOUS
  <1> USE DEF FlagFirst, Unsignalled
  <1>1. CASE Watch
    BY <1>1 DEF Watch, PopenWait, CheckExited, proctable, devour
  <1>2. CASE Cleanup
    BY <1>2 DEF Cleanup, Serving, System
  <1>3. CASE DevourChildren
    <2>1. exited /\ watcher # "suicide"
      BY <1>3 DEF DevourChildren, Serving, List, Read, Snapshot,
         Kill, Slept, LookExists, LookStatus, NextRound,
         Terminate
    <2>2. UNCHANGED <<exited, watcher>>
      BY <1>3 DEF DevourChildren, List, Read, Snapshot, Kill,
         Slept, LookExists, LookStatus, NextRound, Terminate,
         System
    <2> QED
      BY <2>1, <2>2
  <1>4. ASSUME NEW p \in All, NEW q \in All, Fork(p, q)
        PROVE  FlagFirst'
    BY <1>4 DEF Fork, devour
  <1>5. ASSUME NEW p \in All, Exit(p) \/ Reap(p)
        PROVE  FlagFirst'
    BY <1>5 DEF Exit, Reap, devour
  <1>6. CASE UNCHANGED treeVars
    BY <1>6 DEF treeVars, devour
  <1> QED
    BY <1>1, <1>2, <1>3, <1>4, <1>5, <1>6 DEF TreeNext, Over

\* A server kills itself only over a broker that exited on its own: whatever
\* the processes do, it has sent no signal then, and sends none any more.
THEOREM ServerSurvivesCleanup == TreeSafety => []NoSuicideOverCleanup
  <1>1. TreeInit => FlagFirst
    BY DEF TreeInit, FlagFirst, Unsignalled
  <1>2. FlagFirst => NoSuicideOverCleanup
    BY DEF FlagFirst, Unsignalled, NoSuicideOverCleanup
  <1> QED
    BY <1>1, <1>2, NextFlagFirst, PTL DEF TreeSafety
===============================================================================
