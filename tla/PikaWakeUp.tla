------------------------------ MODULE PikaWakeUp ------------------------------
(***************************************************************************)
(* PikaPatchWakeUpFromAnotherThread: how a thread of the application hands *)
(* a command over to the thread that runs pika's ioloop.  runInThread puts *)
(* the command on a queue and then, in a second step, writes one byte to a *)
(* pipe the ioloop polls.  The ioloop calls _processCommands when the pipe *)
(* is readable; that reads one byte and then, in a second step, takes one  *)
(* command without blocking.  A failing read is ignored and leaves its     *)
(* byte in the pipe.  The question is whether bytes and commands can get   *)
(* out of step, so that a command is left in the queue with no byte to     *)
(* wake the ioloop up for it.                                              *)
(***************************************************************************)
EXTENDS Naturals, Sequences, FiniteSets

CONSTANTS
  Callers,           \* the threads that call runInThread
  IOThread,          \* the ioloop's thread; in Callers when the server's
                     \* callbacks call the server's methods
  Commands,          \* one element per call of runInThread
  None,              \* no command: the IO thread is not running one
  PipeCapacity,      \* os.write blocks on a pipe that holds this many bytes
  MaxReadFailures    \* bound on the failures of select and os.read

ASSUME CallersAssumption == IsFiniteSet(Callers)
ASSUME NoneAssumption == None \notin Commands
ASSUME CapacityAssumption == PipeCapacity \in Nat \ {0}
ASSUME FailuresAssumption == MaxReadFailures \in Nat

VARIABLES
  submitted,         \* history: the commands put on the queue, in order
  queue,             \* self._queue
  pipe,              \* the number of bytes in the pipe
  pc,                \* a caller is "idle" or has put and must "write"
  io,                \* the IO thread is at "poll", "read", "get" or "run"
  current,           \* the command taken from the queue: callback, kwargs
  executed,          \* history: the commands run, in order
  readFailures,      \* failures of the read so far
  emptyWarnings      \* times the queue was empty after a byte was read

vars == <<submitted, queue, pipe, pc, io, current, executed,
          readFailures, emptyWarnings>>

Writers == {t \in Callers : pc[t] = "write"}

\* A callback of the server that calls runInThread keeps the IO thread from
\* polling until its os.write returns.
InCallback == IOThread \in Writers

WasSubmitted(c) == \E i \in 1 .. Len(submitted) : submitted[i] = c

Init ==
  /\ submitted = <<>>
  /\ queue = <<>>
  /\ pipe = 0
  /\ pc = [t \in Callers |-> "idle"]
  /\ io = "poll"
  /\ current = None
  /\ executed = <<>>
  /\ readFailures = 0
  /\ emptyWarnings = 0

-------------------------------------------------------------------------------
(* runInThread, in the calling thread *)

Put(t, c) ==
  /\ pc[t] = "idle"
  /\ t = IOThread => io = "poll"
  /\ ~ WasSubmitted(c)
  /\ submitted' = Append(submitted, c)
  /\ queue' = Append(queue, c)
  /\ pc' = [pc EXCEPT ![t] = "write"]
  /\ UNCHANGED <<pipe, io, current, executed, readFailures, emptyWarnings>>

Write(t) ==
  /\ pc[t] = "write"
  /\ pipe < PipeCapacity
  /\ pipe' = pipe + 1
  /\ pc' = [pc EXCEPT ![t] = "idle"]
  /\ UNCHANGED <<submitted, queue, io, current, executed,
                 readFailures, emptyWarnings>>

-------------------------------------------------------------------------------
(* The ioloop, and _processCommands in its thread *)

Poll ==
  /\ io = "poll"
  /\ ~ InCallback
  /\ pipe > 0
  /\ io' = "read"
  /\ UNCHANGED <<submitted, queue, pipe, pc, current, executed,
                 readFailures, emptyWarnings>>

\* Mutant: one os.read that takes every byte there is.
ReadAllBytes ==
  /\ io = "read"
  /\ pipe > 0
  /\ pipe' = 0
  /\ io' = "get"
  /\ UNCHANGED <<submitted, queue, pc, current, executed,
                 readFailures, emptyWarnings>>

ReadByte ==
  /\ io = "read"
  /\ pipe > 0
  /\ pipe' = pipe - 1
  /\ io' = "get"
  /\ UNCHANGED <<submitted, queue, pc, current, executed,
                 readFailures, emptyWarnings>>

ReadFails ==
  /\ io = "read"
  /\ readFailures < MaxReadFailures
  /\ readFailures' = readFailures + 1
  /\ io' = "get"
  /\ UNCHANGED <<submitted, queue, pipe, pc, current, executed, emptyWarnings>>

\* Mutant: a LifoQueue in place of the Queue.
GetLastCommand ==
  /\ io = "get"
  /\ queue # <<>>
  /\ current' = queue[Len(queue)]
  /\ queue' = SubSeq(queue, 1, Len(queue) - 1)
  /\ io' = "run"
  /\ UNCHANGED <<submitted, pipe, pc, executed, readFailures, emptyWarnings>>

GetCommand ==
  /\ io = "get"
  /\ queue # <<>>
  /\ current' = Head(queue)
  /\ queue' = Tail(queue)
  /\ io' = "run"
  /\ UNCHANGED <<submitted, pipe, pc, executed, readFailures, emptyWarnings>>

GetEmpty ==
  /\ io = "get"
  /\ queue = <<>>
  /\ emptyWarnings' = emptyWarnings + 1
  /\ io' = "poll"
  /\ UNCHANGED <<submitted, queue, pipe, pc, current, executed, readFailures>>

\* The callback returns or raises; an exception is logged and dropped.
RunCommand ==
  /\ io = "run"
  /\ executed' = Append(executed, current)
  /\ current' = None
  /\ io' = "poll"
  /\ UNCHANGED <<submitted, queue, pipe, pc, readFailures, emptyWarnings>>

ProcessCommands ==
  ReadByte \/ ReadFails \/ GetCommand \/ GetEmpty \/ RunCommand

RunInThread(t) == Write(t) \/ \E c \in Commands : Put(t, c)

\* Every command is handed over, written and executed: nothing is left to do.
Finished ==
  /\ \A c \in Commands : WasSubmitted(c)
  /\ Writers = {} /\ pipe = 0 /\ io = "poll"
  /\ UNCHANGED vars

Next ==
  \/ Poll
  \/ ProcessCommands
  \/ \E t \in Callers : RunInThread(t)
  \/ Finished

Safety == Init /\ [][Next]_vars

\* The ioloop keeps polling and a thread that has put its command goes on to
\* write; nothing obliges a thread to call runInThread.
Fairness ==
  /\ WF_vars(Poll)
  /\ WF_vars(ProcessCommands)
  /\ \A t \in Callers : WF_vars(Write(t))

Spec == Safety /\ Fairness

-------------------------------------------------------------------------------
(* Properties *)

\* The variables keep their types: the pipe within its capacity, the command
\* in hand a command exactly while it runs.
TypeOK ==
  /\ submitted \in Seq(Commands)
  /\ queue \in Seq(Commands)
  /\ executed \in Seq(Commands)
  /\ pipe \in 0 .. PipeCapacity
  /\ pc \in [Callers -> {"idle", "write"}]
  /\ io \in {"poll", "read", "get", "run"}
  /\ current \in Commands \cup {None}
  /\ io = "run" <=> current # None
  /\ readFailures \in 0 .. MaxReadFailures
  /\ emptyWarnings \in Nat

Taken == IF io = "get" THEN 1 ELSE 0

\* No wake-up is lost: every command in the queue has a byte in the pipe, a
\* thread that is about to write one, or the IO thread on its way to take it
\* (runInThread puts before it writes, _processCommands takes after it reads).
NoLostWakeUp == Len(queue) <= pipe + Cardinality(Writers) + Taken

\* "Command queue is empty after the pipe indicated that a command exists" is
\* only logged after as many failed reads: a byte never outruns its command,
\* whichever way put, write, read and take of several threads interleave.
WarningNeedsReadFailure == emptyWarnings <= readFailures

\* The commands are executed once each, in the order of the puts, and every
\* one that was put is executed. This takes a pipe with room for every command:
\* a callback that calls the server's methods from the ioloop's thread would
\* block that thread for ever when the pipe is full, since nobody else empties it.
Abstract ==
  INSTANCE CommandQueue WITH submitted <- submitted, executed <- executed
ImplementsCommandQueue == Abstract!Spec
===============================================================================
