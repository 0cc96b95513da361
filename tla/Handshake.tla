------------------------------ MODULE Handshake -------------------------------
(***************************************************************************)
(* The check-in and the label: stations that boot, connect, check in and   *)
(* wait for their label, the StatusServer, and an application that answers *)
(* each check-in reported to it with provideLabel.                         *)
(*                                                                         *)
(* A station declares and binds its label queue before it checks in, and   *)
(* waits for the label without a timeout and without checking in again.    *)
(* Its queue is exclusive: it is gone when the station reboots.            *)
(***************************************************************************)
EXTENDS StatusServer

CONSTANT MaxBoots    \* bound on the boots of each station

ASSUME BootsAssumption == MaxBoots \in Nat

VARIABLES
  station,           \* "off", "connected", "waiting" for a label or "labelled"
  boots,             \* the boots of each station so far
  labelQueue,        \* the labels in the label queue of each station
  heardBy,           \* the listener whose queue a station's check-in reached
  owed               \* the ids the application has yet to provide a label for

stationVars == <<station, boots, labelQueue, heardBy>>
handshakeVars == <<stationVars, owed>>
allVars == <<vars, handshakeVars>>

HandshakeInit ==
  /\ Init
  /\ station = [i \in Ids |-> "off"]
  /\ boots = [i \in Ids |-> 0]
  /\ labelQueue = [i \in Ids |-> 0]
  /\ heardBy = [i \in Ids |-> None]
  /\ owed = {}

-------------------------------------------------------------------------------
(* The stations *)

\* TalkToServerSpooler._connect: the exchanges are declared, the label queue is
\* declared and bound, all before the constructor returns.
Connect(id) ==
  /\ station[id] = "off"
  /\ boots[id] < MaxBoots
  /\ station' = [station EXCEPT ![id] = "connected"]
  /\ boots' = [boots EXCEPT ![id] = @ + 1]
  /\ UNCHANGED <<vars, labelQueue, heardBy, owed>>

\* checkIn: the fanout exchange copies the status to the queues bound to it, and
\* drops it when the server has bound none.
CheckIn(id) ==
  /\ station[id] = "connected"
  /\ StationPublishes(id)
  /\ station' = [station EXCEPT ![id] = "waiting"]
  /\ heardBy' = [heardBy EXCEPT ![id] =
                   IF listeners[id] \in bound THEN listeners[id] ELSE None]
  /\ UNCHANGED <<boots, labelQueue, owed>>

\* label() returns the first label in the queue.
GetLabel(id) ==
  /\ station[id] = "waiting"
  /\ labelQueue[id] > 0
  /\ station' = [station EXCEPT ![id] = "labelled"]
  /\ labelQueue' = [labelQueue EXCEPT ![id] = @ - 1]
  /\ UNCHANGED <<vars, boots, heardBy, owed>>

Reboot(id) ==
  /\ station[id] # "off"
  /\ boots[id] < MaxBoots
  /\ station' = [station EXCEPT ![id] = "off"]
  /\ labelQueue' = [labelQueue EXCEPT ![id] = 0]
  /\ heardBy' = [heardBy EXCEPT ![id] = None]
  /\ UNCHANGED <<vars, boots, owed>>

-------------------------------------------------------------------------------
(* The application *)

\* checkInCallback: the application owes a label to the id.
CheckInReported(l) ==
  /\ SendDataToCallback(l)
  /\ owed' = IF l \in stopped THEN owed ELSE owed \cup {ids[l]}
  /\ UNCHANGED stationVars

\* A label that is not refused reaches the label queue of the station, if there
\* is one.  provideLabel tells the application neither way.
Answer(id) ==
  /\ id \in owed
  /\ ProvideLabel(id)
  /\ owed' = owed \ {id}
  /\ labelQueue' = IF id \in labelExchanges /\ station[id] # "off"
                   THEN [labelQueue EXCEPT ![id] = @ + 1]
                   ELSE labelQueue
  /\ UNCHANGED <<station, boots, heardBy>>

-------------------------------------------------------------------------------
(* The composition: every other step of the server leaves the stations alone *)

ApplicationStep ==
  /\ \E id \in Ids : \/ ListenOnID(id) \/ StopListeningOnID(id)
                     \/ StopListeningWhileClosing(id)
  /\ UNCHANGED handshakeVars

ConnectionStep == Connection /\ UNCHANGED handshakeVars

BrokerStep == BrokerPerforms /\ UNCHANGED handshakeVars

DeliveryStep(l) == BrokerDelivers(l) /\ UNCHANGED handshakeVars

ReplyStep(l) ==
  /\ \/ OnExchangeDeclared(l)
     \/ OnLabelExchangeDeclared(l)
     \/ OnQueueDeclared(l)
     \/ OnQueueBind(l)
     \/ OnReplyWithoutCallback(l)
  /\ UNCHANGED handshakeVars

HandshakeNext ==
  \/ ConnectionStep \/ ApplicationStep \/ BrokerStep
  \/ \E l \in Created : DeliveryStep(l) \/ ReplyStep(l) \/ CheckInReported(l)
  \/ \E id \in Ids :
       Connect(id) \/ CheckIn(id) \/ GetLabel(id) \/ Reboot(id) \/ Answer(id)
  \/ Terminated /\ UNCHANGED handshakeVars

\* A connection that is being closed goes down.
ConnectionEnds == link = "closing" /\ OnConnectionClosed /\ UNCHANGED handshakeVars

\* The broker serves the server, the server handles what it receives, the
\* application answers, and a station that waits for a label takes it.
HandshakeFairness ==
  /\ WF_allVars(OnChannelOpen /\ UNCHANGED handshakeVars)
  /\ WF_allVars(ConnectionEnds)
  /\ WF_allVars(BrokerStep)
  /\ \A l \in 1 .. MaxListeners : WF_allVars(DeliveryStep(l))
  /\ WF_allVars(\E l \in Created : ReplyStep(l) \/ CheckInReported(l))
  /\ \A id \in Ids : WF_allVars(Answer(id)) /\ WF_allVars(GetLabel(id))

HandshakeSafety == HandshakeInit /\ [][HandshakeNext]_allVars
HandshakeSpec == HandshakeSafety /\ HandshakeFairness

-------------------------------------------------------------------------------
(* Properties *)

InHand(l) ==
  \/ contents[l] # <<>>
  \/ \E i \in 1 .. Len(frames) :
       frames[i].kind = "deliver" /\ frames[i].listener = l

\* A check-in that reached the queue of a listener is never dropped on its way to
\* the label, as long as that listener goes on and the server is connected: the
\* status is in the queue or on its way to the listener, or the application owes
\* the label, or the label is in the station's queue. It needs the declaration of
\* the label exchange to be ahead of the status: provideLabel would drop the
\* label otherwise (server.py:44), and tell nobody but the log.
HeardCheckInInHand ==
  \A id \in Ids :
    station[id] = "waiting" /\ heardBy[id] # None /\ heardBy[id] \notin stopped
      /\ link = "ready" =>
        InHand(heardBy[id]) \/ id \in owed \/ labelQueue[id] > 0

\* A station whose check-in reached the queue of a listener gets its label,
\* unless it reboots, that listener is stopped, or the server loses its
\* connection.  The station neither repeats its check-in nor gives up, so
\* nothing else would get it out of label().
CheckInAnswered ==
  \A id \in Ids :
    station[id] = "waiting" /\ heardBy[id] # None
      ~> \/ station[id] # "waiting"
         \/ heardBy[id] \in stopped
         \/ link # "ready"
===============================================================================
