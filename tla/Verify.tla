-------------------------------- MODULE Verify --------------------------------
(***************************************************************************)
(* Verify.go: the files of the deployed label are digested by one thread   *)
(* per CPU, which pop them from a list they share with the main thread.    *)
(* The main thread waits for the list to become empty, looks for threads   *)
(* that died and then for files that did not match.  It does not join the  *)
(* threads.                                                                *)
(***************************************************************************)
EXTENDS Naturals, FiniteSets

CONSTANTS
  Threads,           \* the _VerifyThreads, one per CPU
  Files,             \* the files a label may name
  None               \* no file

ASSUME ThreadsAssumption == IsFiniteSet(Threads) /\ Threads # {}
ASSUME FilesAssumption == IsFiniteSet(Files) /\ None \notin Files

VARIABLES
  hashes,            \* self._hashes: the files of this label
  bad,               \* the files that are missing or whose digest differs
  unreadable,        \* the files whose reading raises
  reporting,         \* there is a TalkToServer to report the progress to
  queue,             \* the list of files nobody has popped yet
  pc,                \* a thread is at "pop", "verify" or "append", has found
                     \* the list empty ("exited") or has "died"
  file,              \* the file a thread has popped
  dontMatch,         \* the list of files found not to match
  main,              \* the main thread: "poll", "sleep", "check", "report",
                     \* "judge" or "over"
  result             \* of go(): "none" yet, "success", "failed" or "raised"

inputs == <<hashes, bad, unreadable, reporting>>
vars == <<inputs, queue, pc, file, dontMatch, main, result>>

Died == {t \in Threads : pc[t] = "died"}

Init ==
  /\ hashes \in SUBSET Files
  /\ bad \in SUBSET hashes
  /\ unreadable \in SUBSET (hashes \ bad)
  /\ reporting \in BOOLEAN
  /\ queue = hashes
  /\ pc = [t \in Threads |-> "pop"]
  /\ file = [t \in Threads |-> None]
  /\ dontMatch = {}
  /\ main = "poll"
  /\ result = "none"

-------------------------------------------------------------------------------
(* _VerifyThread.run *)

\* Mutant: the last file is read and the list shortened in two steps, between
\* which another thread has shortened it.
PopTorn(t) ==
  /\ pc[t] = "pop"
  /\ \E f, g \in queue :
       /\ queue' = queue \ {g}
       /\ file' = [file EXCEPT ![t] = f]
  /\ pc' = [pc EXCEPT ![t] = "verify"]
  /\ UNCHANGED <<inputs, dontMatch, main, result>>

\* The order of the list is that of a dictionary: any file may be its last.
Pop(t) ==
  /\ pc[t] = "pop"
  /\ \E f \in queue :
       /\ queue' = queue \ {f}
       /\ file' = [file EXCEPT ![t] = f]
  /\ pc' = [pc EXCEPT ![t] = "verify"]
  /\ UNCHANGED <<inputs, dontMatch, main, result>>

PopRaises(t) ==
  /\ pc[t] = "pop"
  /\ queue = {}
  /\ pc' = [pc EXCEPT ![t] = "exited"]
  /\ UNCHANGED <<inputs, queue, file, dontMatch, main, result>>

VerifyFile(t) ==
  /\ pc[t] = "verify"
  /\ pc' = [pc EXCEPT ![t] = CASE file[t] \in unreadable -> "died"
                               [] file[t] \in bad        -> "append"
                               [] OTHER                  -> "pop"]
  /\ UNCHANGED <<inputs, queue, file, dontMatch, main, result>>

AppendResult(t) ==
  /\ pc[t] = "append"
  /\ dontMatch' = dontMatch \cup {file[t]}
  /\ pc' = [pc EXCEPT ![t] = "pop"]
  /\ UNCHANGED <<inputs, queue, file, main, result>>

VerifyThread(t) == Pop(t) \/ PopRaises(t) \/ VerifyFile(t) \/ AppendResult(t)

-------------------------------------------------------------------------------
(* go, in the main thread *)

GoTo(place) == main' = place /\ UNCHANGED result
End(outcome) == main' = "over" /\ result' = outcome

\* Mutant: no loop.
PollNot ==
  /\ main = "poll"
  /\ GoTo("check")
  /\ UNCHANGED <<inputs, queue, pc, file, dontMatch>>

\* while len(queue) > 0
Poll ==
  /\ main = "poll"
  /\ GoTo(IF queue # {} THEN "sleep" ELSE "check")
  /\ UNCHANGED <<inputs, queue, pc, file, dontMatch>>

\* Mutant: the loop does not look at the exceptions.
LoopUnchecked ==
  /\ main = "sleep"
  /\ GoTo("poll") \/ (reporting /\ End("raised"))
  /\ UNCHANGED <<inputs, queue, pc, file, dontMatch>>

\* The body of the loop: after a sleep, the exceptions; now and then a report,
\* which raises what publishing it raises.
Loop ==
  /\ main = "sleep"
  /\ \/ Died = {} /\ GoTo("poll")
     \/ (Died # {} \/ reporting) /\ End("raised")
  /\ UNCHANGED <<inputs, queue, pc, file, dontMatch>>

\* The exceptions once more, after the loop
CheckExceptions ==
  /\ main = "check"
  /\ IF Died # {} THEN End("raised") ELSE GoTo("report")
  /\ UNCHANGED <<inputs, queue, pc, file, dontMatch>>

\* _report computes a percentage: it divides by zero for a label without files.
Report ==
  /\ main = "report"
  /\ \/ hashes # {} /\ GoTo("judge")
     \/ (hashes = {} \/ reporting) /\ End("raised")
  /\ UNCHANGED <<inputs, queue, pc, file, dontMatch>>

Judge ==
  /\ main = "judge"
  /\ End(IF dontMatch # {} THEN "failed" ELSE "success")
  /\ UNCHANGED <<inputs, queue, pc, file, dontMatch>>

Go == Poll \/ Loop \/ CheckExceptions \/ Report \/ Judge

\* go() is over and so are the threads.
Finished ==
  /\ main = "over"
  /\ \A t \in Threads : pc[t] \in {"exited", "died"}
  /\ UNCHANGED vars

Next == Go \/ (\E t \in Threads : VerifyThread(t)) \/ Finished

Safety == Init /\ [][Next]_vars

\* Every thread runs on.
Spec == Safety /\ WF_vars(Go) /\ \A t \in Threads : WF_vars(VerifyThread(t))

-------------------------------------------------------------------------------
(* Properties *)

\* The variables of the verification keep their types.
TypeOK ==
  /\ hashes \subseteq Files /\ bad \subseteq hashes
  /\ unreadable \subseteq hashes \ bad
  /\ reporting \in BOOLEAN
  /\ queue \subseteq hashes
  /\ pc \in [Threads -> {"pop", "verify", "append", "exited", "died"}]
  /\ file \in [Threads -> hashes \cup {None}]
  /\ \A t \in Threads : pc[t] \in {"verify", "append", "died"} => file[t] \in hashes
  /\ dontMatch \subseteq hashes
  /\ main \in {"poll", "sleep", "check", "report", "judge", "over"}
  /\ result \in {"none", "success", "failed", "raised"}
  /\ main = "over" <=> result # "none"

InHand(t) == IF pc[t] \in {"verify", "append"} THEN {file[t]} ELSE {}

\* No file is lost and none is digested twice: a file that does not match is in
\* the list, in the hands of exactly one thread, or among those found.
BadFileAccounted ==
  \A f \in bad :
    \/ /\ f \in queue \/ f \in dontMatch
       /\ \A t \in Threads : f \notin InHand(t)
    \/ /\ f \notin queue \cup dontMatch
       /\ \E t \in Threads : f \in InHand(t)
                             /\ \A u \in Threads \ {t} : f \notin InHand(u)

\* What go() says of the files is so: a failed verification has a reason (a file
\* that does not match or cannot be read, a label without files, the report to
\* the server), and a successful one overlooks no more than the files that were
\* in the hands of the threads when the list became empty, one per thread.
VerdictIsFounded ==
  /\ result = "failed" => bad # {}
  /\ result = "raised" => unreadable # {} \/ hashes = {} \/ reporting
  /\ result = "success" => Cardinality(bad \cup unreadable) <= Cardinality(Threads)

\* go() ends, also when every thread dies with files left in the list.
GoEnds == <>(result # "none")
===============================================================================
