---------------------------------- MODULE IPMI ----------------------------------
(***************************************************************************)
(* configureIPMIIfNeeded: the driver, the channel, and then the user and   *)
(* the network of the BMC, whose tables outlive the program.  Each setting *)
(* is a command of its own; the first one that fails ends the ceremony,    *)
(* and the next inauguration starts over with the tables as they are.      *)
(***************************************************************************)
EXTENDS Naturals, Sequences

CONSTANTS
  NrIds,             \* the number of user IDs of the BMC
  Names,             \* the names users may have
  username,          \* the one to be configured
  Alike,             \* names that contain it, or whose line of the list does
  TwoWords,          \* names with a space in them
  NoName,            \* of a user that is free
  MaxFaults          \* bound on the commands that fail

ASSUME IdsAssumption == NrIds \in Nat \ {0}
ASSUME NamesAssumption ==
  /\ username \in Names \ (Alike \cup TwoWords)
  /\ Alike \cup TwoWords \subseteq Names
  /\ NoName \notin Names
ASSUME FaultsAssumption == MaxFaults \in Nat

VARIABLES
  args,              \* what is to be configured
  channels,          \* the channels the BMC has
  names,             \* the user table: the name of each ID
  passwords,         \* the IDs whose password inaugurator has set,
  privileged,        \* that it has made administrators, with the channel,
  accessible,        \* that it has given access, with the channel,
  enabled,           \* that it has enabled
  lan,               \* the settings of the network made, with the channel
  pc,                \* the next command, or "done" or "raised"
  channel,           \* and
  userid,            \* that the commands are about
  faults,            \* commands that failed so far
  given,             \* kept for a property: the IDs that had the name to begin with,
  halfMade,          \* those whose making a failing command has ended,
  missed             \* and whether channel 3 has once not answered though it is there

Ids == 1..NrIds

table == <<names, passwords, privileged, accessible, enabled>>
history == <<given, halfMade, missed>>
vars == <<args, channels, table, lan, pc, channel, userid, faults, history>>

\* user: both its name and password are given; lan: the address, netmask and
\* gateway are; other: only some of either; channel: 0 if it is not given.
Args ==
  {a \in [user : BOOLEAN, lan : BOOLEAN, other : BOOLEAN, channel : {0, 1, 3},
          restart : BOOLEAN] : a.other => ~a.user /\ ~a.lan}

\* Nothing is known of the users there are but their names: one may be disabled,
\* or without any rights.
Init ==
  /\ args \in Args
  /\ channels \in {{1}, {3}, {1, 3}}
  /\ names \in [Ids -> Names \cup {NoName}]
  /\ \A i, j \in Ids : i # j /\ names[i] = names[j] => names[i] = NoName
  /\ passwords = {}
  /\ privileged = {} /\ accessible = {} /\ enabled = {}
  /\ lan = {}
  /\ pc = "start"
  /\ channel = 3
  /\ userid = 1
  /\ faults = 0
  /\ given = {i \in Ids : names[i] = username} /\ halfMade = {} /\ missed = FALSE

Fault == faults < MaxFaults /\ faults' = faults + 1
GoTo(place) == pc' = place /\ UNCHANGED <<args, channels, channel, userid, faults, history>>

First(S) == CHOOSE i \in S : \A j \in S : i <= j
Last(S) == CHOOSE i \in S : \A j \in S : i >= j

\* What follows the user and the network, if that is to be done
AfterLan == IF args.restart THEN "restart" ELSE "done"
AfterUser == IF args.lan THEN "ipsrc" ELSE AfterLan
AfterSetup == IF args.user THEN "lookup" ELSE AfterUser

ConfigureIPMIIfNeeded ==
  /\ pc = "start"
  /\ GoTo(IF args.user \/ args.lan \/ args.other THEN "modules" ELSE "done")
  /\ UNCHANGED <<table, lan>>

\* The modules are unloaded, loaded and looked up, and the device is made. The
\* tool is tried on channel 1, whichever one is to be used.
SetupIPMIDriver ==
  /\ \/ pc = "modules" /\ GoTo("device")
     \/ pc = "device" /\ GoTo("tool")
     \/ pc = "tool" /\ GoTo(IF 1 \in channels THEN "channel" ELSE "raised")
  /\ UNCHANGED <<table, lan>>

\* Mutant: channel 1 is taken whenever none is given.
SetAvailableChannelOne ==
  /\ pc = "channel"
  /\ channel' = IF args.channel = 0 THEN 1 ELSE args.channel
  /\ pc' = IF channel' \in channels THEN AfterSetup ELSE "raised"
  /\ UNCHANGED <<args, channels, table, lan, userid, faults, history>>

\* The given channel, or 3, or 1 if 3 does not answer, be it only this time.
SetAvailableChannel ==
  /\ pc = "channel"
  /\ \/ /\ args.channel = 0
        /\ \/ 3 \in channels /\ channel' = 3 /\ UNCHANGED <<faults, missed>>
           \/ 3 \notin channels /\ channel' = 1 /\ UNCHANGED <<faults, missed>>
           \/ 3 \in channels /\ channel' = 1 /\ Fault /\ missed' = TRUE
        /\ pc' = AfterSetup
     \/ /\ args.channel \in channels
        /\ channel' = args.channel
        /\ pc' = AfterSetup
        /\ UNCHANGED <<faults, missed>>
     \/ /\ args.channel \notin channels \cup {0}
        /\ pc' = "raised"
        /\ UNCHANGED <<channel, faults, missed>>
  /\ UNCHANGED <<args, channels, table, lan, userid, given, halfMade>>

\* Mutant: every user is taken for a new one.
GetUsernameIDNever ==
  /\ pc = "lookup"
  /\ GoTo("free")
  /\ UNCHANGED <<table, lan>>

\* grep: the first line with the name in it, of this user or another. That the
\* list cannot be had looks like a name that is not there.
GetUsernameID ==
  /\ pc = "lookup"
  /\ LET found == {i \in Ids : names[i] \in {username} \cup Alike} IN
       \/ /\ found # {}
          /\ userid' = First(found)
          /\ pc' = "change"
          /\ UNCHANGED faults
       \/ found = {} /\ pc' = "free" /\ UNCHANGED <<userid, faults>>
       \/ Fault /\ pc' = "free" /\ UNCHANGED userid
  /\ UNCHANGED <<args, channels, channel, table, lan, history>>

\* Of a user that is there nothing else is looked at or changed.
ChangePassword ==
  /\ pc = "change"
  /\ passwords' = passwords \cup {userid}
  /\ GoTo(AfterUser)
  /\ UNCHANGED <<names, privileged, accessible, enabled, lan>>

\* The columns a line has for its name
Words(name) == IF name = NoName THEN 0 ELSE IF name \in TwoWords THEN 2 ELSE 1
Width == LET widths == {Words(names[i]) : i \in Ids} IN Last(widths)

\* Mutant: any line that is not wider than another.
GetFreeUserIDAny ==
  /\ pc = "free"
  /\ userid' = Last({i \in Ids : Words(names[i]) <= Width})
  /\ pc' = "name"
  /\ UNCHANGED <<args, channels, channel, table, lan, faults, history>>

\* The last line that has fewer columns than another: a user with a name of one
\* word is overwritten beside a name of two, and there is none without names.
GetFreeUserID ==
  /\ pc = "free"
  /\ LET free == {i \in Ids : Words(names[i]) < Width} IN
       \/ /\ free # {}
          /\ userid' = Last(free)
          /\ pc' = "name"
       \/ free = {} /\ pc' = "raised" /\ UNCHANGED userid
  /\ UNCHANGED <<args, channels, channel, table, lan, faults, history>>

SetName ==
  /\ pc = "name"
  /\ names' = [names EXCEPT ![userid] = username]
  /\ GoTo("password")
  /\ UNCHANGED <<passwords, privileged, accessible, enabled, lan>>

SetPassword ==
  /\ pc = "password"
  /\ passwords' = passwords \cup {userid}
  /\ GoTo("priv")
  /\ UNCHANGED <<names, privileged, accessible, enabled, lan>>

SetPrivilege ==
  /\ pc = "priv"
  /\ privileged' = privileged \cup {<<userid, channel>>}
  /\ GoTo("setaccess")
  /\ UNCHANGED <<names, passwords, accessible, enabled, lan>>

SetAccess ==
  /\ pc = "setaccess"
  /\ accessible' = accessible \cup {<<userid, channel>>}
  /\ GoTo("enable")
  /\ UNCHANGED <<names, passwords, privileged, enabled, lan>>

Enable ==
  /\ pc = "enable"
  /\ enabled' = enabled \cup {userid}
  /\ GoTo(AfterUser)
  /\ UNCHANGED <<names, passwords, privileged, accessible, lan>>

\* configureIPMINetwork: one setting after the other
Lan == <<"ipsrc", "ipaddr", "netmask", "defgw", "access">>

SetLan ==
  /\ \E i \in DOMAIN Lan :
       /\ pc = Lan[i]
       /\ lan' = lan \cup {<<channel, Lan[i]>>}
       /\ GoTo(IF i = Len(Lan) THEN AfterLan ELSE Lan[i + 1])
  /\ UNCHANGED table

RestartIPMI ==
  /\ pc = "restart"
  /\ GoTo("done")
  /\ UNCHANGED <<table, lan>>

Over == pc \in {"done", "raised"}

\* Where a new user has its name, but not yet all that makes it one
Creating == {"password", "priv", "setaccess", "enable"}

CommandFails ==
  /\ ~Over /\ pc \notin {"start", "lookup"}
  /\ Fault
  /\ pc' = "raised"
  /\ halfMade' = IF pc \in Creating THEN halfMade \cup {userid} ELSE halfMade
  /\ UNCHANGED <<args, channels, channel, table, lan, userid, given, missed>>

\* The next inauguration
Rerun ==
  /\ Over
  /\ GoTo("start")
  /\ UNCHANGED <<table, lan>>

CreateNewUser ==
  GetFreeUserID \/ SetName \/ SetPassword \/ SetPrivilege \/ SetAccess \/ Enable

ConfigureIPMI ==
  \/ ConfigureIPMIIfNeeded \/ SetupIPMIDriver \/ SetAvailableChannel
  \/ GetUsernameID \/ ChangePassword \/ CreateNewUser \/ SetLan \/ RestartIPMI

Next == ConfigureIPMI \/ CommandFails \/ Rerun

Safety == Init /\ [][Next]_vars

\* The program runs on, and the station is inaugurated again and again.
Spec == Safety /\ WF_vars(ConfigureIPMI) /\ WF_vars(Rerun)

-------------------------------------------------------------------------------
(* Properties *)

Channels == {1, 3}
Settings == {"ipsrc", "ipaddr", "netmask", "defgw", "access"}

\* The variables keep their types.
TypeOK ==
  /\ args \in Args /\ channels \in (SUBSET Channels) \ {{}}
  /\ names \in [Ids -> Names \cup {NoName}]
  /\ passwords \subseteq Ids /\ enabled \subseteq Ids
  /\ privileged \subseteq Ids \X Channels /\ accessible \subseteq Ids \X Channels
  /\ lan \subseteq Channels \X Settings
  /\ pc \in {"start", "modules", "device", "tool", "channel", "lookup", "change",
             "free", "name", "password", "priv", "setaccess", "enable", "restart",
             "done", "raised"} \cup Settings
  /\ channel \in Channels
  /\ userid \in Ids
  /\ faults \in 0..MaxFaults
  /\ given \subseteq Ids /\ halfMade \subseteq Ids /\ missed \in BOOLEAN

\* Names that a line of the list can be told apart by
Plain == \A i \in Ids : names[i] \notin Alike \cup TwoWords

\* In a table of plain names the users with other names keep their names and
\* passwords, whatever fails and however often.
OtherUsersKept ==
  [][Plain => \A i \in Ids :
       names[i] \notin {username, NoName} =>
         names'[i] = names[i] /\ (i \in passwords' => i \in passwords)]_vars

Chosen ==
  IF args.channel # 0 THEN args.channel ELSE IF 3 \in channels THEN 3 ELSE 1

\* That has been made an administrator, with access, and enabled
Made(i, c) == i \in enabled /\ <<i, c>> \in privileged \cap accessible

\* However often it was made before and whatever failed then, a configuration that
\* is over leaves a user of that name with the password, and the network set, as
\* far as they were asked for, both on the channel that was given, or the higher
\* one the BMC has. The user was made so that it can log in on that channel, but
\* for one that was there to begin with or whose making was cut short by a failing
\* command: such a user only gets the password, whatever its rights are. And but
\* for a channel 3 that once did not answer: everything is done on channel 1 then,
\* and the user that was made for one channel is not made for the other.
DoneIsConfigured ==
  pc = "done" /\ Plain =>
    /\ args.user =>
         \E i \in Ids :
           /\ names[i] = username /\ i \in passwords
           /\ \/ i \in given \cup halfMade
              \/ Made(i, channel)
              \/ missed /\ \E c \in channels : Made(i, c)
    /\ args.lan => \A setting \in Settings : <<channel, setting>> \in lan
    /\ args.user \/ args.lan =>
         channel \in channels /\ (channel = Chosen \/ (missed /\ channel = 1))

\* With plain names, one of them set and one free, and a channel 1 and the one
\* that is asked for, the configuration is over again and again, wherever
\* commands failed.
ConfigurationEnds ==
  /\ Plain
  /\ \E i \in Ids : names[i] = NoName
  /\ \E i \in Ids : names[i] # NoName
  /\ {1, args.channel} \subseteq channels \cup {0}
  => []<>(pc = "done")
===============================================================================
