------------------------------ MODULE IPMI_proofs ------------------------------
(***************************************************************************)
(* Proofs about IPMI, for tables of any size, any names and any number of  *)
(* failing commands.  They rest on whose ID the commands are about at each *)
(* point of the configuration.                                             *)
(***************************************************************************)
EXTENDS IPMI, WellFoundedInduction, TLAPS

\* Whose ID it is: that of a user whose line has the name in it, of a free one,
\* if the names are plain, or of the new user.
UserFound ==
  /\ pc = "change" => names[userid] \in {username} \cup Alike
  /\ pc = "name" => (Plain => names[userid] = NoName)
  /\ pc \in {"password", "priv", "setaccess", "enable"} => names[userid] = username

-------------------------------------------------------------------------------
(* The first and the last line *)

LEMMA LeastExists ==
  ASSUME NEW T, T \subseteq Nat, T # {}
  PROVE  \E x \in T : \A y \in T : x <= y
<1> DEFINE R == {ss \in Nat \X Nat : ss[1] < ss[2]}
<1>1. IsWellFoundedOn(R, Nat)
  BY NatLessThanWellFounded, Zenon DEF OpToRel
<1>2. \A x, y \in Nat : y < x => <<y, x>> \in R
  OBVIOUS
<1> HIDE DEF R
<1>3. PICK x \in T : \A y \in T : ~ (<<y, x>> \in R)
  BY <1>1, WFMin
<1>4. ASSUME NEW y \in T PROVE x <= y
  <2>1. x \in Nat /\ y \in Nat /\ ~ (y < x)
    BY <1>2, <1>3, <1>4
  <2> QED
    BY <2>1
<1> QED
  BY <1>4

LEMMA GreatestExists ==
  ASSUME NEW n \in Nat, NEW T, T \subseteq 0..n, T # {}
  PROVE  \E x \in T : \A y \in T : x >= y
<1> DEFINE U == {m \in Nat : \E t \in T : m = n - t}
<1>1. U # {}
  <2>1. PICK t \in T : TRUE
    OBVIOUS
  <2>2. n - t \in U
    BY <2>1
  <2> QED
    BY <2>2
<1>2. PICK m \in U : \A k \in U : m <= k
  BY <1>1, LeastExists
<1>3. PICK x \in T : m = n - x
  OBVIOUS
<1>4. ASSUME NEW y \in T PROVE x >= y
  <2>1. n - y \in U
    OBVIOUS
  <2>2. n - x <= n - y
    BY <1>2, <1>3, <2>1
  <2> QED
    BY <2>2
<1> QED
  BY <1>4

LEMMA FirstOfIds ==
  ASSUME NEW S, S \subseteq Ids, S # {}
  PROVE  First(S) \in S
<1>1. S \subseteq Nat
  BY IdsAssumption DEF Ids
<1>2. \E x \in S : \A y \in S : x <= y
  BY <1>1, LeastExists
<1> QED
  BY <1>2 DEF First

LEMMA LastOfSet ==
  ASSUME NEW n \in Nat, NEW S, S \subseteq 0..n, S # {}
  PROVE  Last(S) \in S
<1>1. \E x \in S : \A y \in S : x >= y
  BY GreatestExists
<1> QED
  BY <1>1 DEF Last

\* With plain names the lines are at most one word wider than those of the free.
LEMMA WidthOfPlain ==
  ASSUME Plain, names \in [Ids -> Names \cup {NoName}]
  PROVE  Width \in {0, 1}
<1> DEFINE widths == {Words(names[i]) : i \in Ids}
<1>1. widths \subseteq {0, 1}
  BY DEF Plain, Words
<1>2. widths # {}
  <2>1. 1 \in Ids
    BY IdsAssumption DEF Ids
  <2> QED
    BY <2>1
<1> HIDE DEF widths
<1>3. Last(widths) \in widths
  <2>1. widths \subseteq 0..1
    BY <1>1
  <2> QED
    BY <1>2, <2>1, LastOfSet
<1>4. Width = Last(widths)
  BY DEF Width, widths
<1> QED
  BY <1>1, <1>3, <1>4

-------------------------------------------------------------------------------
(* Types *)

LEMMA InitTyped == Init => TypeOK
<1> SUFFICES ASSUME Init PROVE TypeOK
  OBVIOUS
<1>1. 1 \in Ids
  BY IdsAssumption DEF Ids
<1>2. 0 \in 0..MaxFaults
  BY FaultsAssumption
<1>3. given \subseteq Ids /\ halfMade \subseteq Ids
  BY DEF Init
<1>4. args \in Args /\ channels \in (SUBSET Channels) \ {{}} /\ channel \in Channels
  BY DEF Init, Channels
<1> QED
  BY <1>1, <1>2, <1>3, <1>4 DEF Init, TypeOK

\* The places the configuration may go to after its parts
LEMMA AfterTyped ==
  /\ AfterLan \in {"restart", "done"}
  /\ AfterUser \in {"ipsrc", "restart", "done"}
  /\ AfterSetup \in {"lookup", "ipsrc", "restart", "done"}
BY DEF AfterLan, AfterUser, AfterSetup

LEMMA LanIs ==
  /\ DOMAIN Lan = 1..5 /\ Len(Lan) = 5
  /\ \A i \in 1..5 : Lan[i] \in Settings
  /\ \A i \in 1..5 : i # 5 => Lan[i + 1] \in Settings
BY DEF Lan, Settings

\* The commands of configureIPMI keep the types.
LEMMA StepTyped == TypeOK /\ [Next]_vars => TypeOK'
<1> SUFFICES ASSUME TypeOK, [Next]_vars PROVE TypeOK'
  OBVIOUS
<1> USE DEF TypeOK
<1>1. Fault => faults' \in 0..MaxFaults
  BY FaultsAssumption DEF Fault
<1>2. CASE ConfigureIPMIIfNeeded \/ SetupIPMIDriver \/ RestartIPMI \/ Rerun
  BY <1>2 DEF ConfigureIPMIIfNeeded, SetupIPMIDriver, RestartIPMI, Rerun, GoTo, table, history
<1>3. CASE SetAvailableChannel
  <2>1. channel' \in Channels
    BY <1>3 DEF SetAvailableChannel, Channels
  <2>2. pc' \in {"lookup", "ipsrc", "restart", "done", "raised"}
    BY <1>3, AfterTyped DEF SetAvailableChannel
  <2>3. faults' \in 0..MaxFaults
    BY <1>1, <1>3 DEF SetAvailableChannel
  <2> QED
    BY <1>3, <2>1, <2>2, <2>3 DEF SetAvailableChannel, table, Settings
<1>4. CASE GetUsernameID
  <2> DEFINE found == {i \in Ids : names[i] \in {username} \cup Alike}
  <2>1. found # {} => First(found) \in Ids
    BY FirstOfIds
  <2>2. userid' \in Ids
    BY <1>4, <2>1 DEF GetUsernameID
  <2>3. pc' \in {"change", "free"} /\ UNCHANGED <<args, channels, channel, table, lan>>
        /\ UNCHANGED history
    BY <1>4 DEF GetUsernameID
  <2>4. faults' \in 0..MaxFaults
    BY <1>1, <1>4 DEF GetUsernameID
  <2> QED
    BY <2>2, <2>3, <2>4 DEF table, history
<1>5. CASE ChangePassword
  BY <1>5, AfterTyped DEF ChangePassword, GoTo, Settings, history
<1>6. CASE GetFreeUserID
  <2> DEFINE free == {i \in Ids : Words(names[i]) < Width}
  <2>1. free # {} => Last(free) \in Ids
    <3>1. NrIds \in Nat /\ free \subseteq 0..NrIds
      BY IdsAssumption DEF Ids
    <3> QED
      BY <3>1, LastOfSet
  <2>2. userid' \in Ids
    BY <1>6, <2>1 DEF GetFreeUserID
  <2> QED
    BY <1>6, <2>2 DEF GetFreeUserID, table, history
<1>7. CASE SetName
  BY <1>7, NamesAssumption DEF SetName, GoTo, history
<1>8. CASE SetPassword
  BY <1>8 DEF SetPassword, GoTo, history
<1>9. CASE SetPrivilege \/ SetAccess
  BY <1>9 DEF SetPrivilege, SetAccess, GoTo, history
<1>10. CASE Enable
  BY <1>10, AfterTyped DEF Enable, GoTo, Settings, history
<1>11. CASE SetLan
  <2>1. PICK i \in 1..5 : /\ lan' = lan \cup {<<channel, Lan[i]>>}
                          /\ GoTo(IF i = 5 THEN AfterLan ELSE Lan[i + 1])
    BY <1>11, LanIs DEF SetLan
  <2>2. pc' \in {"restart", "done"} \cup Settings
    BY <2>1, LanIs, AfterTyped DEF GoTo
  <2>3. lan' \subseteq Channels \X Settings
    BY <2>1, LanIs
  <2> QED
    BY <1>11, <2>1, <2>2, <2>3 DEF SetLan, GoTo, table, history
<1>12. CASE CommandFails
  BY <1>1, <1>12 DEF CommandFails, table
<1>13. CASE UNCHANGED vars
  BY <1>13 DEF vars, table, history
<1> QED
  BY <1>2, <1>3, <1>4, <1>5, <1>6, <1>7, <1>8, <1>9, <1>10, <1>11, <1>12, <1>13
     DEF Next, ConfigureIPMI, CreateNewUser

\* The tables of the BMC and the state of the configuration keep their types;
\* the ID that a free user is given is one the BMC has.
THEOREM TypeCorrect == Safety => []TypeOK
BY InitTyped, StepTyped, PTL DEF Safety

-------------------------------------------------------------------------------
(* Other users *)

LEMMA InitFound == Init => UserFound
BY DEF Init, UserFound

LEMMA StepFound == TypeOK /\ UserFound /\ [Next]_vars => UserFound'
<1> SUFFICES ASSUME TypeOK, UserFound, [Next]_vars PROVE UserFound'
  OBVIOUS
<1>1. names \in [Ids -> Names \cup {NoName}] /\ userid \in Ids
  BY DEF TypeOK
<1>2. CASE \/ ConfigureIPMIIfNeeded \/ SetupIPMIDriver \/ SetAvailableChannel
           \/ RestartIPMI \/ Rerun \/ ChangePassword \/ Enable
  BY <1>2, AfterTyped
     DEF ConfigureIPMIIfNeeded, SetupIPMIDriver, SetAvailableChannel, RestartIPMI, Rerun,
         ChangePassword, Enable, GoTo, UserFound
<1>3. CASE GetUsernameID
  <2> DEFINE found == {i \in Ids : names[i] \in {username} \cup Alike}
  <2>1. CASE found # {} /\ userid' = First(found) /\ pc' = "change"
    <3>1. First(found) \in found
      BY <2>1, FirstOfIds
    <3>2. names' = names
      BY <1>3 DEF GetUsernameID, table
    <3> QED
      BY <2>1, <3>1, <3>2 DEF UserFound
  <2>2. CASE pc' = "free"
    BY <2>2 DEF UserFound
  <2> QED
    BY <1>3, <2>1, <2>2 DEF GetUsernameID, GoTo
<1>4. CASE GetFreeUserID
  <2> DEFINE free == {i \in Ids : Words(names[i]) < Width}
  <2>1. CASE free # {} /\ userid' = Last(free) /\ pc' = "name"
    <3>1. NrIds \in Nat /\ free \subseteq 0..NrIds
      BY IdsAssumption DEF Ids
    <3>2. Last(free) \in free
      BY <2>1, <3>1, LastOfSet
    <3>3. names' = names
      BY <1>4 DEF GetFreeUserID, table
    <3>4. Plain => names[userid'] = NoName
      BY <1>1, <2>1, <3>2, WidthOfPlain DEF Words
    <3> QED
      BY <2>1, <3>3, <3>4 DEF UserFound, Plain
  <2>2. CASE pc' = "raised"
    BY <2>2 DEF UserFound
  <2> QED
    BY <1>4, <2>1, <2>2 DEF GetFreeUserID, GoTo
<1>5. CASE SetName
  BY <1>1, <1>5 DEF SetName, GoTo, UserFound
<1>6. CASE SetPassword \/ SetPrivilege \/ SetAccess
  BY <1>6 DEF SetPassword, SetPrivilege, SetAccess, GoTo, UserFound
<1>7. CASE SetLan
  <2>1. pc' \in {"restart", "done"} \cup Settings
    BY <1>7, LanIs, AfterTyped DEF SetLan, GoTo
  <2> QED
    BY <2>1 DEF UserFound, Settings
<1>8. CASE CommandFails
  BY <1>8 DEF CommandFails, UserFound
<1>9. CASE UNCHANGED vars
  BY <1>9 DEF vars, table, UserFound, Plain
<1> QED
  BY <1>2, <1>3, <1>4, <1>5, <1>6, <1>7, <1>8, <1>9
     DEF Next, ConfigureIPMI, CreateNewUser

\* Whatever fails and however often the station is inaugurated, the users with
\* other names keep their names and passwords, as long as no name contains the
\* configured one or has two words: the last free ID is really free then.
THEOREM OthersKept == Safety => OtherUsersKept
<1>1. ASSUME TypeOK, UserFound, [Next]_vars
      PROVE  [Plain => \A i \in Ids :
                names[i] \notin {username, NoName} =>
                  names'[i] = names[i] /\ (i \in passwords' => i \in passwords)]_vars
  <2> SUFFICES ASSUME Plain, NEW i \in Ids, names[i] \notin {username, NoName}
               PROVE  names'[i] = names[i] /\ (i \in passwords' => i \in passwords)
    OBVIOUS
  <2>1. names \in [Ids -> Names \cup {NoName}] /\ userid \in Ids
    BY <1>1 DEF TypeOK
  <2>2. CASE ChangePassword
    <3>1. names[userid] = username
      BY <1>1, <2>1, <2>2 DEF ChangePassword, UserFound, Plain
    <3> QED
      BY <2>2, <3>1 DEF ChangePassword
  <2>3. CASE SetName
    <3>1. names[userid] = NoName
      BY <1>1, <2>3 DEF SetName, UserFound
    <3> QED
      BY <2>1, <2>3, <3>1 DEF SetName
  <2>4. CASE SetPassword
    <3>1. names[userid] = username
      BY <1>1, <2>4 DEF SetPassword, UserFound
    <3> QED
      BY <2>4, <3>1 DEF SetPassword
  <2>5. CASE names' = names /\ passwords' = passwords
    BY <2>5
  <2> QED
    BY <1>1, <2>2, <2>3, <2>4, <2>5
       DEF Next, ConfigureIPMI, CreateNewUser, ConfigureIPMIIfNeeded, SetupIPMIDriver,
           SetAvailableChannel, GetUsernameID, GetFreeUserID, SetPrivilege, SetAccess,
           Enable, SetLan, RestartIPMI, CommandFails, Rerun, table, vars
<1> QED
  BY <1>1, InitTyped, StepTyped, InitFound, StepFound, PTL DEF Safety, OtherUsersKept

-------------------------------------------------------------------------------
(* What a configuration leaves *)

AfterChannel ==
  {"lookup", "change", "free", "name", "restart"} \cup Creating \cup Settings

\* The channel is the one it should be, or 1 if 3 was missed, as soon as it is
\* used; the tool has been tried on 1 before it is looked for.
ChannelChosen ==
  /\ pc = "channel" => 1 \in channels
  /\ pc \in AfterChannel \/ (pc = "done" /\ (args.user \/ args.lan)) =>
       channel \in channels /\ (channel = Chosen \/ (missed /\ channel = 1))

\* Made for the channel it should be on, or for another if channel 3 was missed.
Whole(i) == \E c \in channels : Made(i, c) /\ (missed \/ c = Chosen)

\* But for the one that is being made, and those whose making was cut short, the
\* users that inaugurator has given that name are whole.
UsersWhole ==
  \A i \in Ids : /\ names[i] = username /\ i \notin given \cup halfMade
                 /\ i = userid => pc \notin Creating
                 => Whole(i)

\* What has been done for the one that is being made.
NewUserSoFar ==
  /\ pc \in {"priv", "setaccess", "enable"} => userid \in passwords
  /\ pc \in {"setaccess", "enable"} => <<userid, channel>> \in privileged
  /\ pc = "enable" => <<userid, channel>> \in accessible

\* A user that is as the property says it should be left.
Left(i) ==
  /\ names[i] = username /\ i \in passwords
  /\ i \in given \cup halfMade \/ Made(i, channel) \/ (missed /\ \E c \in channels : Made(i, c))

UserThere ==
  Plain /\ args.user /\ pc \in Settings \cup {"restart", "done"} => \E i \in Ids : Left(i)

\* The settings are made in the order of Lan.
LanSoFar ==
  /\ pc \in {"ipaddr", "netmask", "defgw", "access"} => <<channel, "ipsrc">> \in lan
  /\ pc \in {"netmask", "defgw", "access"} => <<channel, "ipaddr">> \in lan
  /\ pc \in {"defgw", "access"} => <<channel, "netmask">> \in lan
  /\ pc = "access" => <<channel, "defgw">> \in lan
  /\ pc \in {"restart", "done"} /\ args.lan =>
       \A setting \in Settings : <<channel, setting>> \in lan

Configuring == ChannelChosen /\ UsersWhole /\ NewUserSoFar /\ UserThere /\ LanSoFar

LEMMA InitConfiguring == Init => Configuring
<1> SUFFICES ASSUME Init PROVE Configuring
  OBVIOUS
<1>1. ChannelChosen /\ NewUserSoFar /\ UserThere /\ LanSoFar
  BY DEF Init, ChannelChosen, NewUserSoFar, UserThere, LanSoFar, AfterChannel,
         Creating, Settings
<1>2. UsersWhole
  BY DEF Init, UsersWhole
<1> QED
  BY <1>1, <1>2 DEF Configuring

\* Rights are only added, so that a user stays whole; what is given is given.
LEMMA WholeStays ==
  ASSUME UNCHANGED <<args, channels, missed>>,
         enabled \subseteq enabled', privileged \subseteq privileged',
         accessible \subseteq accessible', NEW i, Whole(i)
  PROVE  Whole(i)'
<1>1. PICK c \in channels : Made(i, c) /\ (missed \/ c = Chosen)
  BY DEF Whole
<1>2. Made(i, c)'
  BY <1>1 DEF Made
<1>3. Chosen' = Chosen
  BY DEF Chosen
<1> QED
  BY <1>1, <1>2, <1>3 DEF Whole

LEMMA StepConfiguring ==
  TypeOK /\ UserFound /\ Configuring /\ [Next]_vars => Configuring'
<1> SUFFICES ASSUME TypeOK, UserFound, Configuring, [Next]_vars
             PROVE  /\ ChannelChosen' /\ UsersWhole' /\ NewUserSoFar'
                    /\ UserThere' /\ LanSoFar'
  BY DEF Configuring
<1>0. ChannelChosen /\ UsersWhole /\ NewUserSoFar /\ UserThere /\ LanSoFar
  BY DEF Configuring
<1>1. /\ names \in [Ids -> Names \cup {NoName}] /\ userid \in Ids
      /\ channels \in (SUBSET {1, 3}) \ {{}}
  BY DEF TypeOK, Channels
<1>2. UNCHANGED <<args, channels, given>>
  BY DEF Next, ConfigureIPMI, CreateNewUser, ConfigureIPMIIfNeeded, SetupIPMIDriver,
         SetAvailableChannel, GetUsernameID, ChangePassword, GetFreeUserID, SetName,
         SetPassword, SetPrivilege, SetAccess, Enable, SetLan, RestartIPMI,
         CommandFails, Rerun, GoTo, vars, history
<1>3. Chosen' = Chosen
  BY <1>2 DEF Chosen
<1>4. ASSUME UNCHANGED <<table, halfMade>>, missed => missed',
             pc \notin Creating, pc' \notin Creating
      PROVE  UsersWhole' /\ NewUserSoFar'
  <2>1. ASSUME NEW i \in Ids, Whole(i) PROVE Whole(i)'
    BY <1>2, <1>3, <1>4, <2>1 DEF Whole, Made, table
  <2>2. UsersWhole'
    BY <1>0, <1>2, <1>4, <2>1 DEF UsersWhole, table
  <2> QED
    BY <1>4, <2>2 DEF NewUserSoFar, Creating
<1>5. CASE ConfigureIPMIIfNeeded \/ SetupIPMIDriver \/ Rerun
  <2>1. pc' \in {"start", "modules", "device", "tool", "channel", "raised", "done"}
    BY <1>5 DEF ConfigureIPMIIfNeeded, SetupIPMIDriver, Rerun, GoTo
  <2>2. /\ pc' = "done" => ~args.user /\ ~args.lan
        /\ pc' = "channel" => 1 \in channels
    BY <1>5 DEF ConfigureIPMIIfNeeded, SetupIPMIDriver, Rerun, GoTo
  <2>3. pc \in {"start", "modules", "device", "tool", "done", "raised"}
    BY <1>5 DEF ConfigureIPMIIfNeeded, SetupIPMIDriver, Rerun, Over
  <2>4. UNCHANGED <<table, history>>
    BY <1>5 DEF ConfigureIPMIIfNeeded, SetupIPMIDriver, Rerun, GoTo
  <2>5. UsersWhole' /\ NewUserSoFar'
    BY <1>4, <2>1, <2>3, <2>4 DEF Creating, history
  <2>6. ChannelChosen' /\ UserThere' /\ LanSoFar'
    BY <1>2, <2>1, <2>2
       DEF ChannelChosen, UserThere, LanSoFar, AfterChannel, Creating, Settings
  <2> QED
    BY <2>5, <2>6
<1>6. CASE SetAvailableChannel
  <2>0. pc = "channel" /\ UNCHANGED <<table, halfMade>> /\ (missed => missed')
    BY <1>6 DEF SetAvailableChannel
  <2>1. CASE pc' = "raised"
    <3>1. UsersWhole' /\ NewUserSoFar'
      BY <1>4, <2>0, <2>1 DEF Creating
    <3> QED
      BY <2>1, <3>1
         DEF ChannelChosen, UserThere, LanSoFar, AfterChannel, Creating, Settings
  <2>2. CASE pc' = AfterSetup /\ pc' # "raised"
    <3>0. 0 \notin channels /\ 1 \in channels
      BY <1>0, <1>1, <2>0 DEF ChannelChosen
    <3>1. channel' \in channels /\ (channel' = Chosen \/ (missed' /\ channel' = 1))
      <4>1. CASE args.channel = 0
        BY <1>6, <2>2, <3>0, <4>1 DEF SetAvailableChannel, Chosen
      <4>2. CASE args.channel # 0
        BY <1>6, <2>2, <4>2 DEF SetAvailableChannel, Chosen
      <4> QED
        BY <4>1, <4>2
    <3>3. pc' \in {"lookup", "ipsrc", "restart", "done"}
      BY <2>2, AfterTyped
    <3>4. UsersWhole' /\ NewUserSoFar'
      BY <1>4, <2>0, <3>3 DEF Creating
    <3>5. args'.user => pc' = "lookup"
      BY <1>2, <2>2 DEF AfterSetup
    <3>6. args'.lan => pc' \in {"lookup", "ipsrc"}
      BY <1>2, <2>2 DEF AfterSetup, AfterUser
    <3>7. ChannelChosen'
      BY <1>2, <1>3, <3>0, <3>1 DEF ChannelChosen
    <3>8. UserThere' /\ LanSoFar'
      BY <3>3, <3>5, <3>6 DEF UserThere, LanSoFar, Settings
    <3> QED
      BY <3>4, <3>7, <3>8
  <2> QED
    BY <1>6, <2>1, <2>2, AfterTyped DEF SetAvailableChannel
<1>8. ASSUME pc \in AfterChannel, pc' # "channel", UNCHANGED <<channel, missed>>
      PROVE  ChannelChosen'
  BY <1>0, <1>2, <1>3, <1>8 DEF ChannelChosen
<1>7. CASE GetUsernameID \/ GetFreeUserID
  <2>1. pc \in {"lookup", "free"} /\ pc' \in {"change", "free", "name", "raised"}
    BY <1>7 DEF GetUsernameID, GetFreeUserID
  <2>2. UNCHANGED <<table, channel, history>>
    BY <1>7 DEF GetUsernameID, GetFreeUserID
  <2>3. UsersWhole' /\ NewUserSoFar'
    BY <1>4, <2>1, <2>2 DEF Creating, history
  <2>4. ChannelChosen'
    BY <1>8, <2>1, <2>2 DEF AfterChannel, history
  <2>5. UserThere' /\ LanSoFar'
    BY <2>1 DEF UserThere, LanSoFar, Settings
  <2> QED
    BY <2>3, <2>4, <2>5
<1>9. ASSUME pc' = AfterUser
      PROVE  /\ pc' \in {"ipsrc", "restart", "done"}
             /\ args'.lan => pc' = "ipsrc"
  BY <1>2, <1>9 DEF AfterUser, AfterLan
<1>10. CASE ChangePassword
  <2>1. pc = "change" /\ pc' = AfterUser /\ UNCHANGED <<channel, missed, halfMade, userid>>
    BY <1>10 DEF ChangePassword, GoTo, history
  <2>2. pc' \in {"ipsrc", "restart", "done"} /\ (args'.lan => pc' = "ipsrc")
    BY <1>9, <2>1
  <2>3. UNCHANGED <<names, privileged, accessible, enabled>>
        /\ passwords' = passwords \cup {userid}
    BY <1>10 DEF ChangePassword
  <2>4. UsersWhole'
    <3>1. ASSUME NEW i \in Ids, Whole(i) PROVE Whole(i)'
      BY <1>2, <2>1, <2>3, <3>1, WholeStays
    <3> QED
      BY <1>0, <1>2, <2>1, <2>3, <3>1 DEF UsersWhole, Creating
  <2>5. NewUserSoFar' /\ LanSoFar'
    BY <2>2 DEF NewUserSoFar, LanSoFar
  <2>6. ASSUME Plain' PROVE Left(userid)'
    <3>1. Plain
      BY <2>3, <2>6 DEF Plain
    <3>2. names[userid] = username
      BY <1>1, <2>1, <3>1 DEF UserFound, Plain
    <3>3. userid \in given \cup halfMade \/ Whole(userid)
      BY <1>0, <1>1, <2>1, <3>2 DEF UsersWhole, Creating
    <3>4. channel = Chosen \/ missed
      BY <1>0, <2>1 DEF ChannelChosen, AfterChannel
    <3>5. \/ userid \in given \cup halfMade \/ Made(userid, channel)
          \/ missed /\ \E c \in channels : Made(userid, c)
      BY <3>3, <3>4 DEF Whole
    <3>6. \A c : Made(userid, c)' = Made(userid, c)
      BY <2>1, <2>3 DEF Made
    <3> QED
      BY <1>2, <2>1, <2>3, <3>2, <3>5, <3>6 DEF Left
  <2>7. UserThere'
    BY <1>1, <2>1, <2>6 DEF UserThere
  <2>8. ChannelChosen'
    BY <1>8, <2>1, <2>2 DEF AfterChannel
  <2> QED
    BY <2>4, <2>5, <2>7, <2>8
<1>11. CASE SetName
  <2>1. pc = "name" /\ pc' = "password" /\ UNCHANGED <<channel, userid, missed, halfMade>>
    BY <1>11 DEF SetName, GoTo, history
  <2>2. ChannelChosen'
    BY <1>8, <2>1 DEF AfterChannel
  <2>3. UNCHANGED <<privileged, accessible, enabled>>
        /\ \A i \in Ids : i # userid => names'[i] = names[i]
    BY <1>1, <1>11 DEF SetName
  <2>4. UsersWhole'
    <3>1. ASSUME NEW i \in Ids, Whole(i) PROVE Whole(i)'
      BY <1>2, <2>1, <2>3, <3>1, WholeStays
    <3> QED
      BY <1>0, <1>2, <2>1, <2>3, <3>1 DEF UsersWhole, Creating
  <2> QED
    BY <2>1, <2>2, <2>4 DEF NewUserSoFar, UserThere, LanSoFar, Settings
<1>12. CASE SetPassword \/ SetPrivilege \/ SetAccess
  <2>1. /\ pc \in Creating /\ pc' \in {"priv", "setaccess", "enable"}
        /\ UNCHANGED <<names, enabled, channel, userid, missed, halfMade>>
    BY <1>12 DEF SetPassword, SetPrivilege, SetAccess, GoTo, Creating, history
  <2>2. passwords \subseteq passwords' /\ privileged \subseteq privileged'
        /\ accessible \subseteq accessible'
    BY <1>12 DEF SetPassword, SetPrivilege, SetAccess
  <2>3. ChannelChosen'
    BY <1>8, <2>1 DEF AfterChannel
  <2>4. UsersWhole'
    <3>1. ASSUME NEW i \in Ids, Whole(i) PROVE Whole(i)'
      BY <1>2, <2>1, <2>2, <3>1, WholeStays
    <3> QED
      BY <1>0, <1>2, <2>1, <3>1 DEF UsersWhole, Creating
  <2>5. NewUserSoFar'
    BY <1>0, <1>12 DEF NewUserSoFar, SetPassword, SetPrivilege, SetAccess, GoTo
  <2> QED
    BY <2>1, <2>3, <2>4, <2>5 DEF UserThere, LanSoFar, Settings
<1>13. CASE Enable
  <2>1. pc = "enable" /\ pc' = AfterUser /\ UNCHANGED <<channel, userid, missed, halfMade>>
    BY <1>13 DEF Enable, GoTo, history
  <2>2. pc' \in {"ipsrc", "restart", "done"} /\ (args'.lan => pc' = "ipsrc")
    BY <1>9, <2>1
  <2>3. UNCHANGED <<names, passwords, privileged, accessible>>
        /\ enabled' = enabled \cup {userid}
    BY <1>13 DEF Enable
  <2>4. channel \in channels /\ (channel = Chosen \/ missed)
    BY <1>0, <2>1 DEF ChannelChosen, AfterChannel, Creating
  <2>5. names[userid] = username /\ userid \in passwords
        /\ <<userid, channel>> \in privileged /\ <<userid, channel>> \in accessible
    BY <1>0, <2>1 DEF UserFound, NewUserSoFar
  <2>6. Made(userid, channel)'
    BY <2>1, <2>3, <2>5 DEF Made
  <2>7. UsersWhole'
    <3>1. ASSUME NEW i \in Ids, Whole(i) PROVE Whole(i)'
      BY <1>2, <2>1, <2>3, <3>1, WholeStays
    <3>2. Whole(userid)'
      BY <1>2, <1>3, <2>1, <2>4, <2>6 DEF Whole
    <3> QED
      BY <1>0, <1>2, <2>1, <2>3, <3>1, <3>2 DEF UsersWhole
  <2>8. UserThere'
    <3>1. Left(userid)'
      BY <2>1, <2>3, <2>5, <2>6 DEF Left
    <3> QED
      BY <1>1, <2>1, <3>1 DEF UserThere
  <2>9. ChannelChosen'
    BY <1>8, <2>1, <2>2 DEF AfterChannel, Creating
  <2>10. NewUserSoFar' /\ LanSoFar'
    BY <2>2 DEF NewUserSoFar, LanSoFar
  <2> QED
    BY <2>7, <2>8, <2>9, <2>10
<1>14. CASE SetLan \/ RestartIPMI
  <2>1. pc \in Settings \cup {"restart"} /\ pc' \in Settings \cup {"restart", "done"}
    BY <1>14, LanIs, AfterTyped DEF SetLan, RestartIPMI, GoTo
  <2>2. UNCHANGED <<table, channel, userid, history>>
    BY <1>14 DEF SetLan, RestartIPMI, GoTo
  <2>3. UsersWhole' /\ NewUserSoFar'
    BY <1>4, <2>1, <2>2 DEF Creating, Settings, history
  <2>4. ChannelChosen'
    BY <1>8, <2>1, <2>2 DEF AfterChannel, Settings, history
  <2>5. UserThere'
    <3>1. ASSUME NEW i \in Ids, Left(i) PROVE Left(i)'
      BY <1>2, <2>2, <3>1 DEF Left, Made, table, history
    <3>2. Plain' = Plain
      BY <2>2 DEF Plain, table
    <3> QED
      BY <1>0, <1>2, <2>1, <3>1, <3>2 DEF UserThere
  <2>6. CASE RestartIPMI
    BY <1>0, <1>2, <2>2, <2>3, <2>4, <2>5, <2>6 DEF RestartIPMI, GoTo, LanSoFar
  <2>7. CASE SetLan
    <3>1. PICK i \in 1..5 : /\ pc = Lan[i] /\ lan' = lan \cup {<<channel, Lan[i]>>}
                            /\ pc' = IF i = 5 THEN AfterLan ELSE Lan[i + 1]
      BY <2>7, LanIs DEF SetLan, GoTo
    <3>2. LanSoFar'
      <4>1. CASE i = 5
        BY <1>0, <2>2, <3>1, <4>1, AfterTyped DEF LanSoFar, Lan, Settings
      <4>2. CASE i \in 1..4
        BY <1>0, <2>2, <3>1, <4>2 DEF LanSoFar, Lan
      <4> QED
        BY <4>1, <4>2
    <3> QED
      BY <2>3, <2>4, <2>5, <3>2
  <2> QED
    BY <1>14, <2>6, <2>7
<1>15. CASE CommandFails
  <2>1. /\ pc' = "raised" /\ UNCHANGED <<table, userid, missed>>
        /\ halfMade' = IF pc \in Creating THEN halfMade \cup {userid} ELSE halfMade
    BY <1>15 DEF CommandFails
  <2>2. ASSUME NEW i \in Ids, Whole(i) PROVE Whole(i)'
    BY <1>2, <2>1, <2>2, WholeStays DEF table
  <2>3. UsersWhole'
    BY <1>0, <1>2, <2>1, <2>2 DEF UsersWhole, table
  <2> QED
    BY <2>1, <2>3
       DEF ChannelChosen, NewUserSoFar, UserThere, LanSoFar, AfterChannel, Creating, Settings
<1>16. CASE UNCHANGED vars
  <2>1. UNCHANGED <<args, channels, names, passwords, privileged, accessible, enabled>>
        /\ UNCHANGED <<lan, pc, channel, userid, given, halfMade, missed>>
    BY <1>16 DEF vars, table, history
  <2>2. \A i : Whole(i)' = Whole(i) /\ Left(i)' = Left(i)
    BY <1>3, <2>1 DEF Whole, Left, Made
  <2> QED
    BY <1>0, <1>3, <2>1, <2>2
       DEF ChannelChosen, UsersWhole, NewUserSoFar, UserThere, LanSoFar, Plain
<1> QED
  BY <1>5, <1>6, <1>7, <1>10, <1>11, <1>12, <1>13, <1>14, <1>15, <1>16
     DEF Next, ConfigureIPMI, CreateNewUser

\* A configuration that is over is complete, whatever was in the tables, however
\* often it was made before and whatever failed then: there is a user of the name
\* with the password, made so that it can log in unless it was there to begin with
\* or its making was cut short; the network is set; both on the channel they should
\* be on, unless channel 3 was missed.
THEOREM Configured == Safety => []DoneIsConfigured
<1>1. Configuring => DoneIsConfigured
  BY DEF Configuring, DoneIsConfigured, ChannelChosen, UserThere, Left, LanSoFar
<1> QED
  BY <1>1, InitTyped, StepTyped, InitFound, StepFound, InitConfiguring, StepConfiguring,
     PTL DEF Safety
===============================================================================
