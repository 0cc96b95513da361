-------------------------------- MODULE Ceremony --------------------------------
(***************************************************************************)
(* A station from the start of the program to the kexec, reboot or         *)
(* shutdown that ends it: the main thread runs the stages as a script of   *)
(* steps, each of which may fail; osmosis is a process of its own; and a   *)
(* debug thread may be told to reboot the machine at any time.  There are  *)
(* hardly any "finally" clauses: an exception ends the script where it is. *)
(***************************************************************************)
EXTENDS Naturals, Sequences

CONSTANT MaxFaults   \* bound on the steps that fail for reasons of their own

ASSUME FaultsAssumption == MaxFaults \in Nat

VARIABLES
  args,              \* the arguments, and the station they are given to
  at,                \* the next step of the script
  outcome,           \* how it ends
  inUse,             \* what is mounted or open: see Below
  written,           \* the disk has been partitioned or checked
  connected,         \* there is a TalkToServer
  heard,             \* the statuses the server was sent
  osmosis,           \* the osmosis process
  debug,             \* the debug thread: what it does next
  rebootCalled,      \* its flag
  faults

main == <<at, outcome, inUse, written, connected, heard>>
thread == <<debug, rebootCalled>>
vars == <<args, main, osmosis, thread, faults>>

Sources == {"network", "DOK", "CDROM", "local"}

\* nic: the NIC that is given, if any: there is none of that address, its gateway
\* does not answer, or it works; named: the target device is given by its name,
\* not by its type or label; pdb: the debugger keeps a program that has failed,
\* and nobody leaves it.
\* quirk: what else is wrong with the arguments or the station, one thing at a
\* time: there is no object store, label or ID; no target, or several; the store
\* on the root may be wiped, and is too full; a disk fails SMART; the result is
\* to be verified.
Quirks == {"none", "noStore", "noLabel", "noID", "noTarget", "twoTargets", "full",
           "sickTarget", "sickOther", "verify"}

Args ==
  {a \in [source : Sources, configured : BOOLEAN, amqp : BOOLEAN,
          nic : {"notGiven", "notThere", "silent", "works"}, named : BOOLEAN,
          efi : BOOLEAN, final : {"kexec", "reboot", "shutdown"}, pdb : BOOLEAN,
          quirk : Quirks] :
     /\ a.source # "network" => ~a.configured /\ ~a.amqp /\ a.nic = "notGiven"
     /\ a.quirk = "twoTargets" => a.named
     /\ a.quirk = "noID" => a.amqp}

-------------------------------------------------------------------------------
(* The script: a step is what is done and what it is done to, or with *)

If(cond, steps) == IF cond THEN steps ELSE <<>>

DoOsmosisFromSource ==
  CASE args.source = "network" ->
         <<<<"debugThread", "it">>>>
         \o If(args.amqp, <<<<"checkIn", "it">>>>)
         \o <<<<"osmosis", "start">>>>
         \o If(args.amqp, <<<<"osmosis", "label">>>>)
         \o <<<<"osmosis", "tellLabel">>, <<"osmosis", "wait">>>>
    [] args.source \in {"DOK", "CDROM"} ->
         <<<<"mount", "source">>, <<"osmosis", "start">>, <<"run", "readLabel">>,
           <<"osmosis", "tellLabel">>, <<"osmosis", "wait">>, <<"umount", "source">>>>
    [] args.source = "local" ->
         <<<<"osmosis", "start">>, <<"osmosis", "tellLabel">>, <<"osmosis", "wait">>>>

\* Mutant: the file system of the EFI partition is left mounted.
CreateBootAndInstallGrubLeavesEfi ==
  <<<<"mount", "boot">>, <<"run", "rsync">>, <<"umount", "boot">>,
    <<"mount", "rootBoot">>>>
  \o If(args.efi, <<<<"mount", "rootEfi">>>>)
  \o <<<<"mount", "rootProc">>, <<"mount", "rootSys">>, <<"run", "grub">>,
       <<"umount", "rootProc">>, <<"umount", "rootSys">>, <<"umount", "rootBoot">>>>

CreateBootAndInstallGrub ==
  <<<<"mount", "boot">>, <<"run", "rsync">>, <<"umount", "boot">>,
    <<"mount", "rootBoot">>>>
  \o If(args.efi, <<<<"mount", "rootEfi">>>>)
  \o <<<<"mount", "rootProc">>, <<"mount", "rootSys">>, <<"run", "grub">>,
       <<"umount", "rootProc">>, <<"umount", "rootSys">>>>
  \o If(args.efi, <<<<"umount", "rootEfi">>>>)
  \o <<<<"umount", "rootBoot">>>>

\* The log is copied to the root and written there from then on.
LogOnRoot == <<<<"run", "copyLog">>, <<"mount", "log">>>>

\* The files are fetched into the root; a URL that is no good raises.
AdditionalDownload == <<<<"run", "download">>>>

CeremonyStage ==
  <<<<"run", "loadAllDrivers">>, <<"disk", "it">>, <<"mount", "root">>>>
  \o LogOnRoot
  \o <<<<"network", "it">>, <<"run", "ipmi">>, <<"ncq", "it">>, <<"smart", "it">>>>
  \o If(args.quirk = "full", <<<<"cleanup", "it">>>>)
  \o DoOsmosisFromSource
  \o CreateBootAndInstallGrub
  \o <<<<"run", "configureETC">>, <<"run", "loadKernel">>>>
  \o AdditionalDownload
  \o <<<<"umount", "log">>, <<"umount", "root">>>>

\* _verify mounts the root again.
VerifyIfAsked ==
  If(args.quirk = "verify",
     <<<<"run", "sync">>, <<"run", "dropCaches">>, <<"mount", "root">>, <<"verify", "it">>,
       <<"umount", "root">>>>)

FinalStage ==
  <<<<"run", "sync">>>> \o VerifyIfAsked
  \o If(args.final = "kexec", <<<<"done", "it">>>>)
  \o <<<<"end", args.final>>>>

Script == <<<<"args", "it">>>> \o CeremonyStage \o FinalStage

Init ==
  /\ args \in Args
  /\ at = 1
  /\ outcome = "running"
  /\ inUse = {}
  /\ written = FALSE
  /\ connected = FALSE
  /\ heard = {}
  /\ osmosis = "none"
  /\ debug = "none"
  /\ rebootCalled = FALSE
  /\ faults = 0

-------------------------------------------------------------------------------
(* The main thread *)

Does(kind) == outcome = "running" /\ Script[at][1] = kind
DoesStep(kind, what) == outcome = "running" /\ Script[at] = <<kind, what>>

GoOn == at' = at + 1 /\ UNCHANGED outcome

\* Only _osmosFromNetwork catches what is raised, from the start of osmosis on.
Caught == args.source = "network" /\ Script[at][1] = "osmosis"

\* Mutant: the main thread does not wait for the reboot that was called for.
RaiseHavingToldAtOnce(told) ==
  /\ outcome' = "raised"
  /\ heard' \in {told, told \cup {x \in {"failed"} : Caught /\ connected /\ ~rebootCalled}}
  /\ inUse' = IF args.source = "DOK" /\ osmosis \notin {"started", "running"}
                THEN inUse \ {"source"} ELSE inUse
  /\ UNCHANGED <<at, written, connected>>

\* The failure is reported, if that succeeds, unless a reboot was called for.
\* The mount of the disk on key is the only one with a "finally".
RaiseHavingTold(told) ==
  /\ IF Caught /\ rebootCalled
       THEN outcome' = "waiting" /\ heard' = told
       ELSE /\ outcome' = "raised"
            /\ heard' \in {told, told \cup {x \in {"failed"} : Caught /\ connected}}
  /\ inUse' = IF args.source = "DOK" /\ osmosis \notin {"started", "running"}
                THEN inUse \ {"source"} ELSE inUse
  /\ UNCHANGED <<at, written, connected>>

Raise == RaiseHavingTold(heard)

Run ==
  /\ Does("run")
  /\ GoOn
  /\ UNCHANGED <<args, inUse, written, connected, heard, osmosis, thread, faults>>

\* _assertArgsSane: the arguments are only looked at if the source is the
\* network. Those about the NIC are not even then, since the flag that makes
\* them optional is never None. With a server the label is its answer.
Insane ==
  /\ args.source = "network"
  /\ \/ args.quirk \in {"noStore", "noTarget", "twoTargets"}
     \/ args.quirk = IF args.amqp THEN "noID" ELSE "noLabel"

AssertArgsSane ==
  /\ Does("args")
  /\ IF Insane THEN Raise
       ELSE GoOn /\ UNCHANGED <<inUse, written, connected, heard>>
  /\ UNCHANGED <<args, osmosis, thread, faults>>

\* _makeSureDiskIsMountable: of several targets the one given by name is taken.
Disk ==
  /\ Does("disk")
  /\ IF args.quirk = "noTarget" THEN Raise
     ELSE written' = TRUE /\ GoOn /\ UNCHANGED <<inUse, connected, heard>>
  /\ UNCHANGED <<args, osmosis, thread, faults>>

MountIt ==
  /\ Does("mount")
  /\ inUse' = inUse \cup {Script[at][2]}
  /\ GoOn
  /\ UNCHANGED <<args, written, connected, heard, osmosis, thread, faults>>

\* What keeps a mount point busy
Below(what) ==
  CASE what = "root"     -> {"log", "rootBoot", "rootProc", "rootSys"}
    [] what = "rootBoot" -> {"rootEfi"}
    [] OTHER             -> {}

Busy(what) ==
  \/ Below(what) \cap inUse # {}
  \/ what \in {"root", "source"} /\ osmosis \in {"started", "running"}

Umount ==
  /\ Does("umount")
  /\ LET what == Script[at][2] IN
       IF Busy(what) THEN Raise
       ELSE inUse' = inUse \ {what} /\ GoOn /\ UNCHANGED <<written, connected, heard>>
  /\ UNCHANGED <<args, osmosis, thread, faults>>

\* Network looks the NIC up by its address and waits for its gateway to answer;
\* without an address it raises too.
Network == args.nic = "works"

InitializeNetworkIfNeeded ==
  /\ Does("network")
  /\ LET needed == args.source = "network" /\ ~args.configured IN
       IF needed /\ ~Network THEN Raise
       ELSE /\ connected' = (needed /\ args.amqp)
            /\ GoOn
            /\ UNCHANGED <<inUse, written, heard>>
  /\ UNCHANGED <<args, osmosis, thread, faults>>

\* That a queue depth cannot be set is caught, for each disk.
DisableNCQ ==
  /\ Does("ncq")
  /\ GoOn
  /\ UNCHANGED <<args, inUse, written, connected, heard, osmosis, thread, faults>>

\* A disk that fails its health test is reported, with the status of a failure,
\* and stops the ceremony if it is the target, or if the target was not given by
\* name: then there is no list to look it up.
ReadSmartData ==
  /\ Does("smart")
  /\ LET sick == args.quirk \in {"sickTarget", "sickOther"}
         told == heard \cup {x \in {"sick"} : sick /\ connected}
     IN  IF args.quirk = "sickTarget" \/ (args.quirk = "sickOther" /\ ~args.named)
           THEN RaiseHavingTold(told)
           ELSE heard' = told /\ GoOn /\ UNCHANGED <<inUse, written, connected>>
  /\ UNCHANGED <<args, osmosis, thread, faults>>

\* OsmosisCleanup on a root that is too full: its isErase is never True.
Cleanup ==
  /\ Does("cleanup")
  /\ Raise
  /\ UNCHANGED <<args, osmosis, thread, faults>>

\* Verify is given an attribute that no Ceremony has: it is never run from here.
VerifyRaises ==
  /\ Does("verify")
  /\ Raise
  /\ UNCHANGED <<args, osmosis, thread, faults>>

StartDebugThread ==
  /\ Does("debugThread")
  /\ debug' = "listen"
  /\ GoOn
  /\ UNCHANGED <<args, inUse, written, connected, heard, osmosis, rebootCalled, faults>>

\* self._talkToServer is None without a connection.
CheckIn ==
  /\ Does("checkIn")
  /\ IF ~connected THEN Raise
     ELSE heard' = heard \cup {"checkin"} /\ GoOn /\ UNCHANGED <<inUse, written, connected>>
  /\ UNCHANGED <<args, osmosis, thread, faults>>

\* Without any store the command line cannot be put together.
StartOsmosis ==
  /\ DoesStep("osmosis", "start")
  /\ IF args.source = "local" /\ args.quirk = "noStore"
       THEN Raise /\ UNCHANGED osmosis
       ELSE osmosis' = "started" /\ GoOn /\ UNCHANGED <<inUse, written, connected, heard>>
  /\ UNCHANGED <<args, thread, faults>>

\* The server answers the check-in at some time.
Label ==
  /\ DoesStep("osmosis", "label")
  /\ GoOn
  /\ UNCHANGED <<args, inUse, written, connected, heard, osmosis, thread, faults>>

\* Writing to an osmosis that is gone raises, and so does a label that is None.
TellLabel ==
  /\ DoesStep("osmosis", "tellLabel")
  /\ IF osmosis = "started" /\ ~(args.source = "local" /\ args.quirk = "noLabel")
       THEN osmosis' = "running" /\ GoOn /\ UNCHANGED <<inUse, written, connected, heard>>
       ELSE Raise /\ UNCHANGED osmosis
  /\ UNCHANGED <<args, thread, faults>>

\* Mutant: the result of osmosis is not looked at.
WaitAny ==
  /\ DoesStep("osmosis", "wait")
  /\ osmosis \in {"succeeded", "failed", "killed"}
  /\ GoOn
  /\ UNCHANGED <<args, inUse, written, connected, heard, osmosis, thread, faults>>

Wait ==
  /\ DoesStep("osmosis", "wait")
  /\ \/ osmosis = "succeeded" /\ GoOn /\ UNCHANGED <<inUse, written, connected, heard>>
     \/ osmosis \in {"failed", "killed"} /\ Raise
  /\ UNCHANGED <<args, osmosis, thread, faults>>

Done ==
  /\ Does("done")
  /\ heard' = heard \cup {x \in {"done"} : connected}
  /\ GoOn
  /\ UNCHANGED <<args, inUse, written, connected, osmosis, thread, faults>>

End ==
  /\ Does("end")
  /\ outcome' = Script[at][2]
  /\ UNCHANGED <<args, at, inUse, written, connected, heard, osmosis, thread, faults>>

\* Any step may fail: a command, a thread, the connection to the server.
StepFails ==
  /\ outcome = "running" /\ ~Does("ncq")
  /\ faults < MaxFaults
  /\ faults' = faults + 1
  /\ Raise
  /\ UNCHANGED <<args, osmosis, thread>>

Step ==
  \/ AssertArgsSane \/ Run \/ Disk \/ MountIt \/ Umount \/ InitializeNetworkIfNeeded
  \/ DisableNCQ \/ ReadSmartData \/ Cleanup \/ VerifyRaises \/ StartDebugThread \/ CheckIn \/ StartOsmosis
  \/ Label \/ TellLabel \/ Wait \/ Done \/ End

-------------------------------------------------------------------------------
(* Osmosis and the debug thread *)

\* The machine has not been rebooted or handed over, ...
Up == outcome \in {"running", "raised", "waiting"}

\* ... and the program has not exited, which takes the debug thread, a daemon,
\* with it.
Alive == Up /\ (outcome = "raised" => args.pdb)

OsmosisEnds ==
  /\ Up
  /\ \/ osmosis = "running" /\ osmosis' = "succeeded"
     \/ osmosis \in {"started", "running"} /\ osmosis' = "failed"
  /\ UNCHANGED <<args, main, thread, faults>>

\* Mutant: the flag is not set.
CommandREBOOTUnflagged ==
  /\ Alive
  /\ debug = "listen"
  /\ debug' = "kill"
  /\ UNCHANGED <<args, main, osmosis, rebootCalled, faults>>

CommandREBOOT ==
  /\ Alive
  /\ debug = "listen"
  /\ rebootCalled' = TRUE
  /\ debug' = "kill"
  /\ UNCHANGED <<args, main, osmosis, faults>>

\* pkill, whose failure is caught, and sync, whose failure is too
KillOsmosis ==
  /\ Alive
  /\ debug = "kill"
  /\ osmosis' = IF osmosis \in {"started", "running"} THEN "killed" ELSE osmosis
  /\ debug' = "reboot"
  /\ UNCHANGED <<args, main, rebootCalled, faults>>

RebootNow ==
  /\ Alive
  /\ debug = "reboot"
  /\ outcome' = "reset"
  /\ UNCHANGED <<args, at, inUse, written, connected, heard, osmosis, thread, faults>>

\* The failure of reboot -f is not caught: the thread ends.
RebootFails ==
  /\ Alive
  /\ debug = "reboot"
  /\ faults < MaxFaults
  /\ faults' = faults + 1
  /\ debug' = "died"
  /\ UNCHANGED <<args, main, osmosis, rebootCalled>>

DebugThread == KillOsmosis \/ RebootNow

Stopped == outcome # "running" /\ UNCHANGED vars

Next ==
  \/ Step \/ StepFails \/ OsmosisEnds \/ CommandREBOOT \/ DebugThread \/ RebootFails
  \/ Stopped

Safety == Init /\ [][Next]_vars

\* The threads run on while the program does, and osmosis ends; nobody has to ask
\* for a reboot.
Spec ==
  /\ Safety
  /\ WF_vars(Step)
  /\ WF_vars(DebugThread)
  /\ WF_vars(Alive /\ OsmosisEnds)

-------------------------------------------------------------------------------
(* Properties *)

Outcomes == {"running", "raised", "waiting", "reset", "kexec", "reboot", "shutdown"}

\* The variables keep their types.
TypeOK ==
  /\ args \in Args
  /\ at \in 1..Len(Script)
  /\ outcome \in Outcomes
  /\ inUse \subseteq {"root", "log", "source", "boot", "rootBoot", "rootEfi",
                      "rootProc", "rootSys"}
  /\ written \in BOOLEAN /\ connected \in BOOLEAN
  /\ heard \subseteq {"checkin", "sick", "failed", "done"}
  /\ osmosis \in {"none", "started", "running", "succeeded", "failed", "killed"}
  /\ debug \in {"none", "listen", "kill", "reboot", "died"}
  /\ rebootCalled \in BOOLEAN
  /\ faults \in 0..MaxFaults

\* An osmosis that was killed because a reboot was asked for is not reported as
\* a failed inauguration, unless the failure had another cause.
RebootNotReportedAsFailure ==
  osmosis = "killed" /\ "failed" \in heard => faults > 0

\* The server hears that a station is done, and the station is left, only when
\* osmosis has succeeded and nothing is mounted any more; who was told that the
\* inauguration failed is not told of a success.
DoneMeansInstalled ==
  "done" \in heard \/ outcome \in {"kexec", "reboot", "shutdown"} =>
    osmosis = "succeeded" /\ inUse = {} /\ "failed" \notin heard

\* A reboot that was asked for happens, whatever the main thread is at, unless
\* the main thread leaves first, or fails on its own with no debugger to keep the
\* program, or reboot -f fails. Once the reboot has killed osmosis the main thread
\* stays for it, with a debugger or without.
RebootHappens ==
  debug = "kill" ~>
    \/ outcome \in {"reset", "kexec", "reboot", "shutdown"}
    \/ outcome = "raised" /\ ~args.pdb /\ osmosis # "killed"
    \/ debug = "died"

\* The program does not like its arguments or the station. A local source without
\* a store or a label is found out only when osmosis is started or told.
Refused ==
  \/ Insane
  \/ args.source = "network" /\ (IF args.configured THEN args.amqp ELSE ~Network)
  \/ args.source = "local" /\ args.quirk \in {"noStore", "noLabel"}
  \/ args.quirk \in {"noTarget", "full", "sickTarget", "verify"}
  \/ args.quirk = "sickOther" /\ ~args.named

\* If nothing fails and nobody interferes the stages are run to their end: what
\* is mounted inside the root is unmounted before it, and nothing is waited for
\* that does not come.
StagesComplete ==
  <>(\/ outcome \in {"kexec", "reboot", "shutdown"}
     \/ faults > 0 \/ rebootCalled \/ osmosis = "failed" \/ Refused)
===============================================================================
