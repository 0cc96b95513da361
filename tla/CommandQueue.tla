----------------------------- MODULE CommandQueue -----------------------------
(***************************************************************************)
(* What PikaPatchWakeUpFromAnotherThread promises to the threads that call *)
(* runInThread: a command handed over is executed by the IO thread, once,  *)
(* and commands are executed in the order in which they were handed over.  *)
(* The pipe, the queue and the program counters of the threads are the     *)
(* business of PikaWakeUp, which implements this module.                   *)
(***************************************************************************)
EXTENDS Naturals, Sequences

CONSTANT Commands    \* one element per call of runInThread

VARIABLES
  submitted,         \* the commands handed over, in order
  executed           \* the commands run by the IO thread, in order

vars == <<submitted, executed>>

WasSubmitted(c) == \E i \in 1 .. Len(submitted) : submitted[i] = c

Init ==
  /\ submitted = <<>>
  /\ executed = <<>>

Submit(c) ==
  /\ ~ WasSubmitted(c)
  /\ submitted' = Append(submitted, c)
  /\ UNCHANGED executed

Execute ==
  /\ Len(executed) < Len(submitted)
  /\ executed' = Append(executed, submitted[Len(executed) + 1])
  /\ UNCHANGED submitted

Next == Execute \/ \E c \in Commands : Submit(c)

Safety == Init /\ [][Next]_vars

Spec == Safety /\ WF_vars(Execute)
===============================================================================
