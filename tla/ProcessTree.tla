------------------------------- MODULE ProcessTree -------------------------------
(***************************************************************************)
(* RabbitMQWrapper and processtree.devourChildrenOf: the broker's process  *)
(* is watched by one thread and cleaned up by another.  The clean-up takes *)
(* the process tree from /proc, one process after the other, while         *)
(* processes fork and exit, and kills what it found.                       *)
(***************************************************************************)
EXTENDS Naturals, FiniteSets

CONSTANTS
  Broker,            \* self._popen
  Procs,             \* processes that the broker and its children may fork
  Strangers,         \* processes of others that are there already:
  Elder, Younger,    \* these two, the second a child of the first, or none
  Stubborn,          \* processes that ignore SIGTERM
  Init1,             \* process 1
  NormalKills,       \* NORMAL_KILLS
  BruteKills         \* BRUTE_KILLS

All == {Broker} \cup Procs \cup Strangers

ASSUME StrangersAssumption == Strangers \in {{}, {Elder, Younger}}
ASSUME ProcsAssumption ==
  /\ IsFiniteSet(Procs) /\ Broker \notin Procs \cup Strangers
  /\ Procs \cap Strangers = {} /\ Init1 \notin All
  /\ Stubborn \subseteq Procs
ASSUME KillsAssumption == NormalKills \in Nat \ {0} /\ BruteKills \in Nat \ {0}

VARIABLES
  status,            \* a process is "unborn", "alive", "zombie" or "gone"
  parent,            \* its parent
  born,              \* the descendants the broker has ever had
  signalled,         \* the strongest signal it was sent: "none", "TERM", "KILL"
  exited,            \* self._exited
  watcher,           \* the thread in run(): "wait", "check", "over" or "suicide"
  cleanup,           \* the clean-up: where it is, or "raised"
  unread,            \* parentMap: the listed processes that are not read yet,
  map,               \* its result, with Init1 for those without a line,
  last,              \* parentPid, which is not reset
  found,             \* the children of the broker that were found
  pids,              \* those that are left
  todo,              \* those this round has still to kill or to look at
  looked,            \* those whose directory in /proc was there
  round              \* of the kills, from 1

proctable == <<status, parent, born>>
devour == <<cleanup, unread, map, last, found, pids, todo, looked, round>>
treeVars == <<proctable, signalled, exited, watcher, devour>>

TreeInit ==
  /\ status = [p \in All |-> IF p \in Procs THEN "unborn" ELSE "alive"]
  /\ parent = [p \in All |-> IF Strangers # {} /\ p = Younger THEN Elder ELSE Init1]
  /\ born = {}
  /\ signalled = [p \in All |-> "none"]
  /\ exited = FALSE
  /\ watcher = "wait"
  /\ cleanup = "idle"
  /\ unread = {} /\ map = [p \in All |-> Init1] /\ last = Init1
  /\ found = {} /\ pids = {} /\ todo = {} /\ looked = {} /\ round = 1

-------------------------------------------------------------------------------
(* The processes *)

Fork(p, q) ==
  /\ status[p] = "alive" /\ status[q] = "unborn"
  /\ p \in {Broker} \cup Procs /\ q \in Procs
  /\ status' = [status EXCEPT ![q] = "alive"]
  /\ parent' = [parent EXCEPT ![q] = p]
  /\ born' = born \cup {q}
  /\ UNCHANGED <<signalled, exited, watcher, devour>>

\* A process stays as a zombie until its parent reaps it. Its children become
\* those of process 1, which reaps at once. The server is the parent of the
\* broker.
Exit(p) ==
  /\ status[p] = "alive"
  /\ parent' = [q \in All |-> IF parent[q] = p THEN Init1 ELSE parent[q]]
  /\ status' = [q \in All |->
       CASE q = p -> IF p # Broker /\ parent[p] = Init1 THEN "gone" ELSE "zombie"
         [] q # p /\ parent[q] = p /\ status[q] = "zombie" -> "gone"
         [] OTHER -> status[q]]
  /\ UNCHANGED <<born, signalled, exited, watcher, devour>>

Obeys(p) == signalled[p] = "KILL" \/ (signalled[p] = "TERM" /\ p \notin Stubborn)

Reap(p) ==
  /\ p # Broker /\ status[p] = "zombie"
  /\ status' = [status EXCEPT ![p] = "gone"]
  /\ UNCHANGED <<parent, born, signalled, exited, watcher, devour>>

-------------------------------------------------------------------------------
(* RabbitMQWrapper.run, in a thread *)

PopenWait ==
  /\ watcher = "wait"
  /\ status[Broker] = "zombie"
  /\ status' = [status EXCEPT ![Broker] = "gone"]
  /\ watcher' = "check"
  /\ UNCHANGED <<parent, born, signalled, exited, devour>>

CheckExited ==
  /\ watcher = "check"
  /\ watcher' = IF exited THEN "over" ELSE "suicide"
  /\ UNCHANGED <<proctable, signalled, exited, devour>>

\* A suicide of the server ends its threads.
Serving == watcher # "suicide"

Watch == Serving /\ (PopenWait \/ CheckExited)

-------------------------------------------------------------------------------
(* cleanup *)

GoTo(place) == cleanup' = place
System == <<proctable, watcher>>

\* Mutant: the flag is forgotten.
CleanupUnflagged ==
  /\ Serving /\ cleanup = "idle"
  /\ GoTo("list")
  /\ UNCHANGED <<System, exited, signalled, unread, map, last, found, pids, todo, looked, round>>

Cleanup ==
  /\ Serving /\ cleanup = "idle"
  /\ exited' = TRUE
  /\ GoTo("list")
  /\ UNCHANGED <<System, signalled, unread, map, last, found, pids, todo, looked, round>>

InProc(p) == status[p] \in {"alive", "zombie"}

\* parentMap: the names in /proc are listed and then read one by one.
List ==
  /\ cleanup = "list"
  /\ unread' = {p \in All : InProc(p)}
  /\ GoTo("read")
  /\ UNCHANGED <<System, exited, signalled, map, last, found, pids, todo, looked, round>>

\* What has exited since is given the parent of the one before; if it exits
\* while it is read, the error is another one and is raised.
Read ==
  /\ cleanup = "read"
  /\ \E p \in unread :
       /\ unread' = unread \ {p}
       /\ IF InProc(p)
            THEN map' = [map EXCEPT ![p] = parent[p]] /\ last' = parent[p] /\ UNCHANGED cleanup
            ELSE \/ map' = [map EXCEPT ![p] = last] /\ UNCHANGED <<last, cleanup>>
                 \/ GoTo("raised") /\ UNCHANGED <<map, last>>
  /\ UNCHANGED <<System, exited, signalled, found, pids, todo, looked, round>>

\* children: the least set that the children of the broker and of its members
\* belong to
Children ==
  LET closed == {S \in SUBSET All : \A p \in All : map[p] \in S \cup {Broker} => p \in S}
  IN  {p \in All : \A S \in closed : p \in S}

Snapshot ==
  /\ cleanup = "read" /\ unread = {}
  /\ found' = Children /\ pids' = Children /\ todo' = Children
  /\ GoTo("kill")
  /\ UNCHANGED <<System, exited, signalled, unread, map, last, looked, round>>

Signal == IF round <= NormalKills THEN "TERM" ELSE "KILL"
Sent(p, s) == IF InProc(p) /\ signalled[p] # "KILL" THEN s ELSE signalled[p]

Kill ==
  /\ cleanup = "kill"
  /\ \E p \in todo : signalled' = [signalled EXCEPT ![p] = Sent(p, Signal)] /\ todo' = todo \ {p}
  /\ UNCHANGED <<System, exited, cleanup, unread, map, last, found, pids, looked, round>>

\* After the sleep, all that are left are looked at.
Slept ==
  /\ cleanup = "kill" /\ todo = {}
  /\ todo' = pids
  /\ GoTo("look")
  /\ UNCHANGED <<System, exited, signalled, unread, map, last, found, pids, looked, round>>

\* pidLive: is the directory there?
LookExists ==
  /\ cleanup = "look" /\ looked = {}
  /\ \E p \in todo :
       IF InProc(p)
         THEN looked' = {p} /\ UNCHANGED <<todo, pids>>
         ELSE todo' = todo \ {p} /\ pids' = pids \ {p} /\ UNCHANGED looked
  /\ UNCHANGED <<System, exited, signalled, cleanup, unread, map, last, found, round>>

\* Mutant: what is stubborn is taken for dead.
LookStatusAnyDead ==
  /\ cleanup = "look"
  /\ \E p \in looked : todo' = todo \ {p} /\ pids' = pids \ {p}
  /\ looked' = {}
  /\ UNCHANGED <<System, exited, signalled, cleanup, unread, map, last, found, round>>

\* Is it a zombie? Opening the file of one that has gone since raises.
LookStatus ==
  /\ cleanup = "look"
  /\ \E p \in looked :
       /\ todo' = todo \ {p}
       /\ pids' = IF status[p] = "alive" THEN pids ELSE pids \ {p}
       /\ cleanup' = IF InProc(p) THEN cleanup ELSE "raised"
  /\ looked' = {}
  /\ UNCHANGED <<System, exited, signalled, unread, map, last, found, round>>

\* Mutant: SIGTERM again and again while somebody is left
NextRoundNormal ==
  /\ cleanup = "look" /\ todo = {} /\ looked = {}
  /\ IF pids = {}
       THEN GoTo("terminate") /\ UNCHANGED <<round, todo>>
       ELSE GoTo("kill") /\ todo' = pids /\ UNCHANGED round
  /\ UNCHANGED <<System, exited, signalled, unread, map, last, found, pids, looked>>

\* The next round, which has nothing to do without processes
NextRound ==
  /\ cleanup = "look" /\ todo = {} /\ looked = {}
  /\ IF round = NormalKills + BruteKills \/ pids = {}
       THEN GoTo("terminate") /\ UNCHANGED <<round, todo>>
       ELSE GoTo("kill") /\ round' = round + 1 /\ todo' = pids
  /\ UNCHANGED <<System, exited, signalled, unread, map, last, found, pids, looked>>

\* self._popen.terminate(), whose OSError is caught
Terminate ==
  /\ cleanup = "terminate"
  /\ signalled' = [signalled EXCEPT ![Broker] = Sent(Broker, "TERM")]
  /\ GoTo("over")
  /\ UNCHANGED <<System, exited, unread, map, last, found, pids, todo, looked, round>>

DevourChildren ==
  /\ Serving
  /\ List \/ Read \/ Snapshot \/ Kill \/ Slept \/ LookExists \/ LookStatus \/ NextRound \/ Terminate

-------------------------------------------------------------------------------
\* A suicide of the server ends its threads.
Over == (~Serving \/ cleanup \in {"over", "raised"}) /\ UNCHANGED treeVars

TreeNext ==
  \/ Watch
  \/ Cleanup
  \/ DevourChildren
  \/ \E p, q \in All : Fork(p, q)
  \/ \E p \in All : Exit(p) \/ Reap(p)
  \/ Over

TreeSafety == TreeInit /\ [][TreeNext]_treeVars

\* The threads run on; a process that was sent a signal it obeys exits.
TreeSpec ==
  /\ TreeSafety
  /\ WF_treeVars(Watch)
  /\ WF_treeVars(DevourChildren)
  /\ \A p \in All : WF_treeVars(Obeys(p) /\ Exit(p))

-------------------------------------------------------------------------------
(* Properties *)

\* The variables keep their types.
TreeTypeOK ==
  /\ status \in [All -> {"unborn", "alive", "zombie", "gone"}]
  /\ parent \in [All -> All \cup {Init1}] /\ map \in [All -> All \cup {Init1}]
  /\ last \in All \cup {Init1}
  /\ signalled \in [All -> {"none", "TERM", "KILL"}]
  /\ exited \in BOOLEAN
  /\ watcher \in {"wait", "check", "over", "suicide"}
  /\ cleanup \in {"idle", "list", "read", "kill", "look", "terminate", "over", "raised"}
  /\ unread \subseteq All /\ found \subseteq All /\ born \subseteq Procs
  /\ pids \subseteq found /\ todo \subseteq pids
  /\ looked \subseteq todo /\ \A p, q \in looked : p = q
  /\ round \in 1..(NormalKills + BruteKills)

\* The server kills itself only over a broker that exited on its own, never
\* over one that the clean-up is killing.
NoSuicideOverCleanup ==
  watcher = "suicide" => \A p \in All : signalled[p] = "none"

Dead(p) == status[p] \in {"zombie", "gone"}

\* The clean-up comes to an end, however stubborn the children are.
CleanupEnds == exited ~> cleanup \in {"over", "raised"} \/ ~Serving

\* The broker and all children that were found die of it in the end.
TreeDies == cleanup = "over" ~> Dead(Broker) /\ \A p \in found : Dead(p)

\* "Children tree not dead, killing SIGTERM these processes"
\* (processtree.py:72): what is killed are children of the broker.
OnlyChildrenKilled == \A p \in All : signalled[p] # "none" => p \in born \cup {Broker}
===============================================================================
