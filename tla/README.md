# Inaugurator in TLA+

Inaugurator installs a machine: a small Python program, booted from the network,
a disk-on-key or a CD, partitions the disk, has `osmosis` put the files of a
*label* on it and kexecs into the result. Over the network it talks, through
RabbitMQ, to an *inaugurator server* embedded in an application, to which it
checks in, from which it gets its label, and to which it reports progress,
success or failure.

The modules here model the code of `src/inaugurator`. TLC checks them on small
instances; TLAPS proves, for every value of the constants, what is listed under
[What is proved](#what-is-proved).

## Inventory

| Component | Source | State | Operations | Works with |
|---|---|---|---|---|
| Wake-up of the ioloop | `server/pikapatchwakeupfromanotherthread.py` | command queue, pipe | `runInThread`, `_processCommands` | called by every public method of the server, runs them in pika's thread |
| Server | `server/server.py` | listeners by id, ids with a label exchange, connection, closed flag | `listenOnID`, `stopListeningOnID`, `provideLabel`, `close`, connection callbacks, `_handleStatus` | broker; the application's callbacks |
| Listener of one id | `server/idlistener.py` | stopped flag, status queue | constructor, `stopListening`, four callbacks | broker, `Server._handleStatus` |
| Station's connection | `talktoserver.py`, `reportthread.py` | spooler's queue, finished flag, connection | `checkIn`, `label`, `progress`, `done`, `failed` | ceremony and report thread on one side, broker on the other |
| Verification | `verify.py` | list of files, mismatches, thread exceptions | `go`, `_VerifyThread.run` | ceremony, `progress` |
| Ceremony | `ceremony.py`, `main.py`, `osmose.py`, `debugthread.py` | stage, label, debug flag | the stages ceremony, kexec, reboot, shutdown | everything below |
| Partition table | `partitiontable.py`, `lvmetad.py` | the disk | parse, verify, wipe, create | ceremony |
| IPMI | `IPMIDriver.py`, `IPMIController.py` | BMC users, channel | user, network and restart commands, with fallbacks | ceremony |
| Devices and mounts | `targetdevice.py`, `diskonkey.py`, `cdrom.py`, `udev.py`, `mount.py`, `storagedevices.py` | devices, mount points | load drivers, find, mount, unmount, SMART, NCQ | ceremony; the kernel, which names the drives |
| Broker for tests | `server/rabbitmqwrapper.py`, `server/processtree.py` | child processes | start, cleanup, kill the tree | integration tests, applications |
| Boot loader and files of `/etc` | `grub.py`, `grubconfparser.py`, `loadkernel.py`, `fstab.py`, `etclabelfile.py`, `passwd.py` | files on the root and the boot partition, the loaded kernel | edit, install, read back, load | ceremony |
| Helpers | `network.py`, `download.py`, `log.py`, `sh.py`, ... | none | run one command | ceremony |

Left aside: `pyudev/` is vendored; `makeiso.py`, `makedok.py`, the Makefiles, the
shell scripts and the firmware build the image.

Two things are hard here. The first is the waiting. The server hands every
command to another thread and learns of its effect by callback. A listener exists
through a chain of four requests, and may be stopped in the middle of it. Messages
go through fanout exchanges, which drop what no queue is bound for. A station
waits for its label without a timeout and checks in once. The threads of the
station wait for the spooler without a timeout, too. The second is what outlives a
failure: nearly every step of the ceremony is an external command, an exception
ends the program where it is, and the next inauguration starts over with the disk,
the table of the BMC, the files of the root and the other devices as they were left; and a
drive may turn up at any time, under any name. What makes each
component correct is in its module's *Properties* section; the hazards, each with
its line, are in `PROJECT.json`.

## Modules

| Module | Models | Extends / instantiates |
|---|---|---|
| `CommandQueue` | abstract: commands are executed once each, in order, and at last | |
| `PikaWakeUp` | the queue and the pipe that wake the ioloop up | implements `CommandQueue` |
| `PikaWakeUp_proofs` | proofs about the threads of the server's process | `PikaWakeUp`, `ProcessTree` |
| `StatusServer` | `Server`, its `IDListener`s, the channel and the broker | |
| `StatusServer_proofs` | proofs about `StatusServer` and its composition | `Handshake` |
| `MCStatusServer` | a symmetry set for TLC | `StatusServer` |
| `Handshake` | stations and the answering application, composed with the server | `StatusServer` |
| `TalkToServer` | the station's threads, the spooler and the connection | implements `CommandQueue` |
| `TalkToServer_proofs` | proofs about `TalkToServer` | `TalkToServer` |
| `Verify` | `Verify.go` and its threads | |
| `Verify_proofs` | proofs about what is done to a deployed root | `Verify`, `BootLoader` |
| `PartitionTable` | `PartitionTable.verify` with all it calls, and the disks | |
| `PartitionTable_proofs` | proofs about `PartitionTable` | `PartitionTable` |
| `Ceremony` | the stages of the main program, osmosis, the debug thread | |
| `Ceremony_proofs` | proofs about `Ceremony` | `Ceremony` |
| `IPMI` | the configuration of the BMC over repeated inaugurations | |
| `IPMI_proofs` | proofs about `IPMI` | `IPMI` |
| `ProcessTree` | `RabbitMQWrapper` and `processtree`, with the processes | |
| `Search` | abstract: a bounded search for a device that comes up meanwhile | |
| `Devices` | the drives, the search for the target and the one for the source | implements `Search`, twice |
| `Devices_proofs` | proofs about `Devices` | `Devices` |
| `BootLoader` | the settings of GRUB, its installation and the kernel that is loaded, over repeated inaugurations | |

`ProcessTree` and `BootLoader` name their specification and some variables apart
(`TreeNext`, `BootNext`, `cleanup` and `stage` for the point a thread is at), since each
is extended together with another module by the one that proves things about both.

An operator named *Mutant* in a comment is a plausible bug of the definition next
to it. It is in no specification: it is there to show that a property breaks
when the code does.

### CommandQueue and PikaWakeUp

`runInThread` is two steps of its thread, `Put` and `Write` (lines 22 and 23);
`_processCommands` is `Poll` (the ioloop calls the handler), `ReadByte` or
`ReadFails`, `GetCommand` or `GetEmpty`, and `RunCommand`. The histories
`submitted` and `executed` are what `CommandQueue` talks about, so the refinement
needs no mapping. A caller may be the ioloop's own thread, when a callback of the
server calls a method of the server: it then polls only after its write.

### StatusServer

The three commands run in the ioloop's thread one at a time, in the order of the
calls, which is what `CommandQueue` promises; so each is one action. Listeners
are numbered in the order of their creation and `ids[l]` is the id of listener
`l`. `requests` is what pika does with synchronous methods: one is outstanding,
the others wait in order; `BrokerPerforms` lets the broker perform the first one,
and the reply, travelling in `frames` with the deliveries, makes its callback run
(`OnExchangeDeclared`, `OnLabelExchangeDeclared`, `OnQueueDeclared`,
`OnQueueBind`). `basic_publish` is not synchronous and is not queued. The
connection may fail at any time: `link` follows it from "connecting" to "down".
Operations on a channel that is closing raise, and `_processCommands` drops the
exception: `StopListeningWhileClosing` is what is left of the command then.

External (RabbitMQ and pika): requests are performed in order, deliveries and
replies arrive in order, exclusive queues vanish with the connection.

### Handshake

Extends `StatusServer` with stations that connect, check in once, wait for their
label and may reboot, and an application that answers each reported check-in with
`provideLabel`. All other steps are those of `StatusServer`. `heardBy` is a history
variable: the listener whose queue took the check-in. `HeardCheckInInHand` is the
safety half of `CheckInAnswered`: at each moment there is something that will bring
the label, in a queue, on its way, or owed.

### TalkToServer

`_executeCommandInConnectionThread` is `Call` (the check of `_isFinished`), `Put`,
and `Return` after the spooler has set the event. The spooler's loop is `Get`, one
action per command, `ProcessDataEvents` and `Finish`; `IdleDeath` is the
exception of the idle branch. `stage` is the script of the main thread, from
`Ceremony._osmosFromNetwork` and `kexec`. A publish on a connection that was lost
may raise or may return as if sent. Calls of the main thread made by the
verification and by the SMART check are not in the script.

### Verify

One action per step of `_VerifyThread.run` and of `go`. Which files are bad or
unreadable is chosen in `Init`. The list is a set, since its order is that of a
dictionary. `Verify.__init__` raises a `NameError` as the code stands (line 51
uses a global that does not exist), and `ceremony.py:425` an `AttributeError`
before that; the module is about `go` once they are repaired.

### PartitionTable

The disk is a record of what the checks can see of it: table, flags, file systems,
physical volume, volume group, sizes of swap and root, and whether the root has a
file system, which no check looks at. `Check`, `Activate`, `Recheck` and the wiping
of leftovers are `verify`; `Script` is the list of commands of `_create`, run one at
a time by `RunCommand` and `VgRemove`, so that a failure (`CommandFails`) or a
`Reboot` leaves the disk half made. `Rerun` is the next inauguration. `clear` zeroes
the first 512 MiB: the table and the boot file system are gone, the EFI partition
and the physical volume behind them come back with the next table. The arithmetic
of the sizes (`BigDisk`, `SwapGB`, `RootMB`, `PvMB`) is the code's, in MiB, as are the
tolerances of the check (`VolumesFit`), which the code writes down separately. LVM
names groups by name: with a second disk of that name `vgremove` may remove
either, and the check may see the volumes of either. `settled` is a history
variable: the script has been run to its end on the disk, or the check has found
it in order, and no command has failed since. It says nothing of what the check will
find next: that is what `SettledDiskKept` claims. `Creatable` only says that LVM has
room for the volumes the script asks for.

### Ceremony

`Script` is the sequence of steps of `ceremony()` and the final stage for a source
and arguments; `at` is where the main thread is. A step either goes on or, when
its condition fails or a fault strikes, is `Raise`: only `_osmosFromNetwork` catches,
reports the failure if there is a connection, and waits instead if a reboot was
called for. `inUse` is what is mounted, with what keeps a mount point busy. Steps
that leave no state behind are one action (`Run`). Osmosis and the debug thread run
beside the main thread. `args` has, besides what the script depends on, one `quirk`:
one thing that is wrong with the arguments or the station. `AssertArgsSane`
checks what the code comes to check, `InitializeNetworkIfNeeded` fails for a NIC that
is not there or has no gateway, `ReadSmartData` reports a sick disk ("sick" in `heard`) and
looks it up in the list of targets, `StartOsmosis` and `TellLabel` raise for a local
source without a store or a label, and the stage of the verification raises
(ceremony.py:425). A failing `DisableNCQ` is caught and does not count as a fault.

The debug thread is a daemon: it runs while the program does (`Alive`), and that is,
after an exception, as long as `pdb` keeps the program (`args.pdb`, unless
`--inauguratorSkipPdbOnError` is given), which is assumed to be for ever. Osmosis, a
process of its own, may end later. `RebootFails` is the failure of `reboot -f`, which
is a fault and ends the thread.

### IPMI

The variables are the tables of the BMC, which outlive the program, and each action
is one command, from the kernel modules (`SetupIPMIDriver`) to the restart. The user
and the network are each configured only if all their parameters are given (`Args`).
`SetAvailableChannel` takes the channel that is given, or else 3, or else 1: also
when 3 merely failed to answer this time. Of the users in the table to begin with
only the names are known: `privileged`, `accessible` and `enabled` are what inaugurator
itself has set, so a user of the name that is there already may be disabled or have no
rights, and gets a password (`ChangePassword`) and nothing else. `given`, `halfMade` and
`missed` are history variables, by which the property names these users, those whose
making a failing command cut short, and a channel 3 that once did not answer.
`GetUsernameID` is the search with grep, which finds names
that contain the name (`Alike`) and takes a failing list for an absent name;
`GetFreeUserID` counts columns as the code does, so that a name of two words
(`TwoWords`) makes other users look free. `Rerun` is the next inauguration.

### ProcessTree

`Watch` is the thread of `RabbitMQWrapper.run`, `Cleanup`, `DevourChildren` and
`Terminate` are the thread that cleans up. `/proc` is listed at once and read file by
file while processes fork, exit, become zombies and are reaped; `last` is the
variable `parentPid`, which keeps its value from one file to the next.

### Search and Devices

`coming` says what each drive waits for: a driver that `LoadAllDrivers` loads, the
USB drivers of `Modprobe`, or nothing that ever happens. `Appear` gives it the next
name (`sd[1]` is sda) and may happen late; the node under `/dev` comes with the next
`mdev`. The target is given by name, by type (listed once, `ByType`) or by the label
of a partition (looked for up to five times, `ByLabel`); from then on it is a
name, `candidate`. `FindTarget` and `TargetMdev` are the loop of `TargetDevice`,
`FindSource` and `SourceMdev` that of `DiskOnKey` and `Cdrom`, and `MountSource` is
where a medium without the right file system or label file is found out. `Partition`
stands for all of `PartitionTable`: it takes the label a drive had.

Both loops are a search as `Search` describes it: it is bounded, it ends without a
device only if every look was in vain (or a command failed during it), and what
is found was there at the time of the look. `Devices` instantiates it with two
mappings. For the target the looks begin with the candidate, since `ByLabel` uses
the same counter for looks of its own; `over` is the place where the program gives
up. The variables `shown` and `faults` belong to the environment: `Search` only says
how its own variables may follow them.

### BootLoader

What is between osmosis and kexec. `settings` is `/etc/default/grub`: it may be missing,
something else than a file, or without the line of the command line, and its words
are kept in order. `OpenSettings` and `WriteSettings` are the two halves of
`changeGrubConfiguration`, which reads the file, truncates it and writes it, for the
extra data and for the console. They change `GRUB_CMDLINE_LINUX` only;
`GRUB_CMDLINE_LINUX_DEFAULT` (`default`) stays as it is, and `grub-mkconfig` puts it
behind the other on the line of the default entry (`Entry`). `Install` writes the
configuration to the path of the tools the image has and `LoadKernel` takes the default
entry of what was read back and appends `args.passthrough`, which goes to the kernel
kexec starts and not to the disk. `Interrupted` is a failing command or a reset at any
point, after which `Again`
inaugurates this or another label on what is left; `kept` is the setting by which
osmosis leaves `/etc` alone.

## Runs

| Run | Question | Instance |
|---|---|---|
| `wakeup` | do bytes and commands stay in step, and is the abstract queue implemented, with liveness, also for callbacks of the ioloop's own thread? | 2 threads and the ioloop's, 4 commands, pipe of 4, 2 failing reads |
| `status_server` | safety of listening, stopping and listening again | 2 ids, 3 listeners, 2 messages |
| `handshake` | is a check-in ever dropped, does it get its label, is a listener set up, and cleaned up, at last? | 1 station of 2 boots, 2 listeners, 2 messages |
| `talk_to_server` | is a call forgotten, does the ceremony get through, is the queue kept in order? | main and report thread, 2 reports |
| `verify` | are files lost, does `go` end, what does its verdict mean? | 2 threads, labels of up to 3 files |
| `partition_table` | is a disk written unasked, does what the script lays out pass the check and is it kept, does a bad disk become good, are others wiped? | 7 disk sizes, 3 root sizes, 2 other disks, 2 faults |
| `ceremony` | what has happened when the server hears done; does a reboot asked for happen, and is it not taken for a failure; do the stages complete? | all arguments, 1 thing wrong with them, 1 fault, 1 reboot |
| `ipmi` | are other users kept, what is configured when the configuration is over, and on which channel, does it come to be over? | 3 user IDs, 4 names, all tables, all sets of channels, 2 faults |
| `process_tree` | does the clean-up end, does what it found die, does the server survive it? | 2 children, 1 ignores SIGTERM, 1 round of each signal |
| `devices` | is a drive installed from another one, do both searches implement `Search`, do they find what is up in time? | 1 disk, 1 disk on key, 1 CDROM drive, all arguments, 1 fault |
| `boot_loader` | is what kexec starts what was asked for and, but for what is passed through, what the disk would boot; do the settings survive resets? | 2 labels, all kinds of settings, 8 words, 2 faults |
| `partition_mountable` | *violated*: an accepted disk can be mounted | 1 disk size, 1 other disk, 1 fault |

### Bounds, and why they are enough

- `PikaWakeUp`: the two threads overtake each other between put and write while the
  ioloop, whose callbacks are a third caller, polls. Two failing reads let surplus
  bytes add up. The pipe has room for every command, as a pipe of 65536 bytes has:
  otherwise a callback's write may block the ioloop for ever, which the model
  shows when the bound is lowered. The proofs do away with these bounds.
- `StatusServer`: three listeners are two of one id, which is all that one id can
  have overlapping in the broker in any stage (the deletion of one is sent before
  the requests of the next), and one of another id between their requests. Two
  messages are enough for two queues to disagree about their order.
- `Handshake`: the second boot is the one that may find labels and listeners of
  the first.
- `TalkToServer`: the main thread's script is finite; the second report is the
  one that follows an exception-free first one in the queue.
- `Verify`: three files are one more than there are threads.
- `PartitionTable`: the sizes are the smallest disks for the minimal root and the
  GB around each threshold of a root of 20 GB; the roots are one that the check refuses,
  the smallest it accepts and the default; the other disks are a
  partition and a whole disk, since the code treats them differently; the second
  fault is one that strikes the repair of the first.
- `Ceremony`: one fault, since an exception ends the program; a reboot is asked for
  at any moment of any run.
- `IPMI`: three IDs are one for the user, one for a user it is mistaken for and one
  that is free; two faults leave two half-made users.
- `ProcessTree`: one child that obeys and one that does not, either the child of the
  other; more rounds of the same signal repeat the state. Strangers are left out of
  the run: they triple the processes.
- `Devices`: one drive of each kind is enough for two of the same kind of name (the disk
  and the disk on key) to come up in either order, and for a target to be taken for
  a source. Three looks for the target (five in the code) and three for the source
  (eleven) are a first, a middle and a last one, which is all that the loops
  tell apart.
- `BootLoader`: the second label is the one the first left its traces for; eight words
  let a kept `/etc` be extended several times; two faults are one in the writing of the
  settings and one in the inauguration that should repair it.

`talk_to_server` does not check for deadlock: the program may stop, because the
ceremony is over or because a thread waits for ever, and the properties say which. In
the other modules the states where the system has stopped have a stuttering step of their own, so deadlock is checked.

### Fairness

Weak fairness only. Threads that are past the first step of a call go on (the
scheduler runs them); the ioloop polls and handles what it receives; the broker
performs requests and delivers; a connection that is being closed goes down.
A process that was sent a signal it obeys exits, osmosis ends while the program waits
for it (after that nothing obliges it to), and someone tries
again after an inauguration (`Rerun`, `Again`). A drive may come up as late as it
likes, or never: what `UpInTimeIsFound` promises begins when it is up. Nothing obliges the application to
call, a station to check in, anyone to ask for a reboot, the connection or a command
to fail: faults are bounded, so that what is repeated succeeds at last. `TalkToServer`
assumes that the server provides a label to a station that waits for one, which is
what `Handshake` shows for a check-in that reached a listener.

## Findings

- `partition_mountable`: the root's file system is made by a later command than its
  volume, and no check looks at it. After a reboot between the two the disk is
  "already set up" and its root cannot be mounted, at every further attempt.

### Where else the code does not keep its word

The models behave as the code does; the properties except these cases by name, and
no run is about them. For the first two there is a configuration to see them with
(`tlc -config TalkToServerCleanUp.cfg TalkToServer`, and `ProcessTreeStrangers.cfg`
with `ProcessTree`).

- Clean-up of the spooler: a call that checked `_isFinished` before the clean-up and
  put its command after it waits for ever instead of raising
  `CannotReuseTalkToServerAfterDone` (talktoserver.py:99; `CleanUpStrandsNobody`).
- Process tree: a process that is gone when its file is opened is given the parent
  of the process read before it; its children may then be killed as the broker's
  (processtree.py:31; `OnlyChildrenKilled`).

- Server: stopping does not take an id out of `_idsWithLabelExchanges`, so a label
  for it is still published (server.py:43, 63-68). A label provided right after
  `listenOnID` is dropped with a message that the id is not listened to; the
  integration test does that (integration_test.py:199) and passes because
  connecting takes longer. `LabelRefusedOnlyTooEarly` says that this window is
  all there is.
- Verification: `go` does not join its threads, so a success may overlook a bad file
  per thread (verify.py:30-46); `VerdictIsFounded` says no more than that.
- Ceremony: `checkIn` is called on None when the network was configured already
  (ceremony.py:150, 259); the check of the mandatory arguments never runs
  (ceremony.py:173, main.py:21); the clean-up of the object store is never told to
  erase (ceremony.py:404, osmosiscleanup.py:22); a failed health test of another
  disk raises a TypeError when the target was not given by name
  (storagedevices.py:60, ceremony.py:443); a verification raises an AttributeError
  before it begins (ceremony.py:425); a local source without a label or without a
  store is a TypeError when osmosis is told or started, the disk having been written by
  then (osmose.py:38 and 33-34, ceremony.py:316, 321). These are `Refused`. A disk other
  than the target that fails its health test is reported with the status of a failed
  inauguration (talktoserver.py:142-157), after which the inauguration goes on to
  done. `_sync` runs busybox
  without an applet (ceremony.py:327): harmless, since everything is unmounted.
- Reboot: a REBOOT does not happen when the main thread fails on its own, before
  osmosis is killed, and `--inauguratorSkipPdbOnError` is given: the program exits and
  takes the daemon thread with it (main.py:111-113, debugthread.py:16). When `reboot -f`
  fails the thread ends (61), and the main thread may wait for ever
  (ceremony.py:275-278). `RebootHappens` excepts both.
- Partition table: `inauguratorClearDisk` without the permission to wipe clears the
  disk and then refuses to lay it out (ceremony.py:205, partitiontable.py:377); a
  disk hardly larger than root and swap is given a root it has no room for
  (partitiontable.py:82), which is why `Converges` assumes `Creatable`. A root of 12 GB
  or less is laid out as asked (82-86) and then refused by the minimum of the check
  (242), at every attempt, so the disk is laid out again and again: `LargeEnough`, the
  assumption that the root has the 14 GB the code names as its minimum and the disk a GB
  more, keeps it out of `SettledDiskKept` and `Converges`. Without this assumption
  TLC finds such a disk.
- IPMI: grep finds other users' lines (IPMIDriver.py:140), free IDs are told by
  columns (194, 197), a list that fails looks like an absent name (142), and a user
  whose creation failed half way is taken for complete (210-215, 249), and so is one
  that was there before: neither is enabled or given rights, and the inauguration
  succeeds though nobody can log in. Without a given channel one failing command on
  channel 3 makes it configure channel 1 (118-123), and a user made on the one is not
  made on the other later. `DoneIsConfigured` names these three cases and holds with
  them, whatever fails; names that are alike or of two words are outside it (`Plain`).
- Process tree: an IOError while `/proc` is read, or a zombie looked at, leaves
  `cleanup` before the broker is terminated (processtree.py:28-30, 56;
  rabbitmqwrapper.py:49).

- Target: a disk on key that was named sda is accepted as the target, since the test
  for its label adds 1 to a string and the exception is caught (targetdevice.py:29-36).
  The last `mdev` of that loop is followed by no look (40). Types are listed once,
  before the drives have had time to come up.
- Source: without a label any disk of up to 32 GB is taken for the disk on key, the
  target included, and the search is not resumed when the mount then fails
  (diskonkey.py:48-53); a CDROM drive is not really tried, since `_mount` is a context
  manager that nobody enters (cdrom.py:55).
- GRUB: where `/etc` is kept, a reset between the truncation and the writing of the
  settings, or a file without the line, makes this inauguration and every later one
  end in a NameError (grub.py:32, 61); the extra data are added once more each time,
  and so is the second console, as "console=" is written before the first only
  (ceremony.py:241). A console of the image in `GRUB_CMDLINE_LINUX_DEFAULT` is not
  looked at (grub.py:35) and comes last on the line that is booted, where the kernel
  prefers it to that of the station, also if the station is to be silent:
  `SettingsAsAsked` speaks of the consoles of `GRUB_CMDLINE_LINUX`.

## What is proved

Each `*_proofs` module proves its theorems for every value of the constants. The
assumptions are those the modules declare: bounds are natural numbers (the pipe
holds at least one byte), and the names of threads, ids and the like are distinct
from one another and from `None`. Each proof strengthens its property to an
inductive invariant; TLC checked each of these invariants first.

`PikaWakeUp_proofs`

- `TypeCorrect`, `WakeUpNeverLost`, `WarningsNeedReadFailures` (that the warning
  about an empty queue needs a failed read is proved only, no run is about it). The invariant
  `Account` counts: commands in the queue and failed reads on one side, bytes in
  the pipe, writers between their put and their write, the byte the ioloop has
  just taken and the warnings given so far on the other. The property alone is
  not inductive: that a byte is read is harmless only because it was matched by
  a command that is still there.
- `Implementation`: the safety part of the refinement of `CommandQueue`. `Order`
  says that what was put is what was executed, the command in hand, and the
  queue, in this order.
- `TreeTypeCorrect` and `ServerSurvivesCleanup`, about `ProcessTree`:
  `NoSuicideOverCleanup`, from `FlagFirst`: the flag is set before anything is sent a
  signal, so whoever found it unset found a broker that nobody had sent one.

`StatusServer_proofs`

- `TypeCorrect`, from `Typed`: what the numbers of listeners stand for
  (`Numbered`: a listener that has not stopped is the one registered for its id)
  and that at most one reply is on its way (`OneReply`).
- `ReportedWhileListened`: `OnlyListenedReported`, an action property, from
  `Numbered`; proved only.
- `LabelExchangeBeforeReports`: `LabelInv` says that the declaration of the label
  exchange precedes in the channel whatever lets a queue be declared
  (`LabelFirst`), and that before its reply nothing of the id is bound, consumed,
  stored or in flight (`NothingYet`).
- `QueueUsedWhileThere` and `StoppedQueueLeaves`. `Chain` says what is in the
  channel: one link of the chain of a listener at a time, nothing after a
  deletion, and deletions of stopped listeners only. `Broker`, on top of it, says
  that what is used exists, that the server knows each queue but the one whose
  declaration was just answered, and that the deletion of the queue of a stopped
  listener is under way. Both are about a connection that works (`Working`).
- `ReportedInOrder`: `HandledInPublishOrder`, from `InOrder`. What is in a queue
  (`QueuesInOrder`) is newer than what is on its way from it (`FramesInOrder`), which is
  newer than what its listener's id was told (`HandledFirst`), and all of it was
  published (`HandledPublished`). The last two carry the order from a listener to the
  next one of its id: a new queue is empty, and takes only what is published later.
- `RefusedOnlyTooEarly`: `LabelRefusedOnlyTooEarly`, an action property, from
  `LabelFirst`.
- `HandshakeRunsServer`: a step of `Handshake` is a step or a stutter of
  `StatusServer`, so all of the above holds with stations and an application around
  the server, too.
- `CheckInNeverDropped`: `HeardCheckInInHand`. The invariant `HandshakeInv` adds that
  a check-in was heard by a listener of its own id and that labels are owed only to
  ids that were reported, which by `LabelExchangeBeforeReports` are not refused. A
  queue is emptied only by a deletion, which `Chain` says is that of a stopped
  listener.

`TalkToServer_proofs`

- `TypeCorrect` and `WaitersServed`: `Pending` says that the commands in the queue
  and in hand are those of distinct threads that wait for them.
- `MainNotStranded`: `Endings` lists how the spooler ends and where that leaves
  the main thread.
- `Implementation`: the refinement of `CommandQueue`, from `Once` (a command that
  was put is in its thread's past, so it is not put again) and `Order`.

`PartitionTable_proofs`

- `TypeCorrect`: the sizes are integers whatever the disk, the script has 13 or 14
  commands, and the check that follows it is repeated five times at most.
- `NothingWrittenUnasked`: `WrittenOnlyIfAllowed`, from `Permitted` (where verify
  writes, it was allowed to).
- `OthersWiped`: `OneInstallationLeft`, from `Wiped` (what the search has wiped when it
  moves on).
- `SettledKept`: `SettledDiskKept`, from `SettledFits`. `Progress` says what the script has
  done to the disk before each of its commands, so that at its end a whole layout is
  there (`WholeLayout`). Its heart is `ChosenSizesFit`: the sizes the script chooses, by
  its formulas, are within the bounds of the check, by its own, for every disk of
  15 GB or more and every root of 14 GB or more. The invariant also needs that no second
  disk of the same volume group is left, which could make the check see the wrong
  volumes.

`Verify_proofs`

- `TypeCorrect` and `NoFileLost`: `BadInOnePlace` says that a file that does not match
  is in exactly one of three places, the list, the hands of one thread, or the files
  found. That no two threads hold it is what makes the property inductive.
- `VerdictFounded`: `UnreadableHeld` (a file that cannot be read stays with the thread
  that dies of it) and `SeenEmpty` (the loop of `go` ends on an empty list). What a
  success overlooks is thus with a thread of its own, so there are no more such files
  than threads: a statement about cardinalities, for any number of threads.

- `BootedAsAsked`, `BootedAgain` and `LineLost`, about `BootLoader`: `SettingsAsAsked`,
  `SameAsNextBoot` and `LineLostOnlyByInterruption`, for any number of inaugurations,
  each of which may be cut anywhere, also between the truncation and the writing of the
  settings. `BootInv` says of the words in the file, or in memory while the file is empty
  (`Held`), which of them are there, and which at most once, at each step: `AsAsked`
  what was added so far, `Fresh` that an image has nothing of it, `LineKept` that the
  line is there unless its write was interrupted, `Installed` that what is read back is
  what was put there. That leaving the consoles out keeps all other words and doubles
  none (`WithoutConsoleKeeps`) is about a recursive function; `KeptFiltered` proves it
  for a word list of any length by looking at the shortest beginning for which it
  would fail.

`Ceremony_proofs`

- `TypeCorrect`, `InstalledWhenDone` and `RebootNotReported`: `DoneMeansInstalled` and
  `RebootNotReportedAsFailure`. They rest on the shape of the script, whatever the
  source and the arguments are (`ScriptShape`). The script is put together from
  pieces, so its shape is proved from lemmas about one piece after the other: what a
  piece leaves mounted (`Leaves`), that it starts osmosis, tells it the label and waits
  for it (`Osmoses`), that it ends with done and the end (`Ends`). Given the shape, `Inv`
  says where the main thread is: what is mounted is unmounted ahead of it
  (`UnmountAhead`), an osmosis it has waited for has succeeded (`SucceededBehind`),
  done is told at the end only (`DoneAtEnd`), a failure is told by a thread that stops
  (`FailedStops`), and an osmosis that was killed or failed without a fault was so for a
  reason (`KilledByReboot`, `FailureOfOsmosis`).

`IPMI_proofs`

- `TypeCorrect`: the ID is always one of the table, though it comes from the first or
  the last of a set of lines; both exist since the natural numbers are well founded.
- `OthersKept`: `OtherUsersKept`, an action property, from `UserFound` (whose ID the
  commands are about at each point). With plain names the lines of the free are the
  narrow ones (`WidthOfPlain`); with names of two words the statement would be false.
- `Configured`: `DoneIsConfigured`, from `Configuring`, which says for each point of the
  sequence what has been configured by then: the channel (`ChannelChosen`), the settings
  of the network (`LanSoFar`), how far a new user is (`NewUserSoFar`), and that a user of
  the name was there before, was left half made or is whole (`UsersWhole`). No fault is
  excluded, nothing is assumed of the users that are there, and it holds for any number of
  inaugurations one after the other.

`Devices_proofs`

- `TypeCorrect`, from `TargetStands` and `SourceStands`: how often either search has
  looked at each point, and what it has found.
- `InstalledApart`: `InstalledFromAnotherDrive`, from `Apart`: the target has been
  partitioned before a source is looked for, so it has lost the label by which
  it could be taken, or by which a mount without a label succeeds.
- `Implementation`: both refinements of `Search`, the first two conjuncts being that a
  step of the program is a step or a stutter of each.

## What is only model-checked

Every safety and action property of a passing run is a theorem. TLC alone shows what
rests on fairness, which is beyond the prover: that calls and clean-ups end
(`GoEnds`, `ConfigurationEnds`, `CleanupEnds`, `DisconnectedServerEnds`), that what is
waited for comes (`CheckInAnswered`, `ListeningGetsConsumer`, `MainGetsThrough`,
`StagesComplete`, `RebootHappens`, `UpInTimeIsFound`), that what is to go goes
(`StoppedQueueFreed`, `TreeDies`) and that trying again succeeds (`Converges`,
`InaugurationsSucceed`); and, of `ImplementsCommandQueue` in `wakeup`, that every
command is executed at last.

## Not modelled, and the plan

Not modelled, because there is no state to go wrong in: the matching of aliases to
drivers (`udev.py`), `packagesvalidation.py`, the parsing of arguments, the shell
commands the debug thread runs for whoever asks, `fstab` and the root password
(written once and read by nothing here). `pyudev` is vendored, and what is used of it
is one listing. The image builders, the Makefiles, the shell scripts and the
firmware run once on a developer's machine.

What is left, in this order:

1. The connection of `Ceremony` and `TalkToServer`, now joined by hand (the stages of
   the one are the calls of the other), as a refinement.
2. `Partition` of `Devices` and `PartitionTable`: a step of the one stands for a run of
   the other, so what `Devices` says of the labels of a drive should follow from what
   the script writes.
3. The boundedness behind the liveness properties, as theorems about a measure: each
   round of a search, of a clean-up and of the verification uses something up.
