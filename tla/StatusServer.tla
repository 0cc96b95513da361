----------------------------- MODULE StatusServer -----------------------------
(***************************************************************************)
(* The inaugurator server: Server and its IDListeners, in the thread that  *)
(* runs pika's ioloop, and the RabbitMQ broker they talk to.               *)
(*                                                                         *)
(* The commands listenOnID, stopListeningOnID and provideLabel are handed  *)
(* over to the ioloop's thread and run there one at a time (PikaWakeUp), so *)
(* each is one step here.  What makes them hard is that nothing they ask of *)
(* the broker is done when they return: a listener is set up by a chain of *)
(* requests (declare the exchange, declare a queue, bind it, consume), each *)
(* sent by the callback of the one before, while the application may stop  *)
(* and listen again at any point of the chain.                             *)
(*                                                                         *)
(* The channel sends its synchronous requests one at a time and keeps the  *)
(* others waiting, in order.                                               *)
(***************************************************************************)
EXTENDS Naturals, Sequences

CONSTANTS
  Ids,               \* the ids of the stations
  None,              \* no listener
  MaxListeners,      \* bound on the IDListener objects created
  MaxMessages        \* bound on the status messages published, over all ids

ASSUME NoneAssumption == None \notin Nat /\ None \notin Ids
ASSUME BoundsAssumption == MaxListeners \in Nat /\ MaxMessages \in Nat

VARIABLES
  \* Server
  link,              \* connection and channel, as the server sees them
  closed,            \* self._closed
  killed,            \* the server has sent SIGTERM to its own process
  listeners,         \* self._listeners: the listener of an id, or None
  labelExchanges,    \* self._idsWithLabelExchanges
  \* IDListener objects, numbered in the order of their creation
  ids,               \* self._id
  stopped,           \* self._notListeningAnymore (and self._callback = None)
  statusQueue,       \* the listeners whose self._statusQueue is not None
  \* The channel
  requests,          \* the requests sent or waiting to be sent, in order
  answered,          \* the reply to the first of them is on its way
  frames,            \* what the broker has sent to the server, in order
  \* The broker
  queues,            \* the listeners whose exclusive queue exists,
  bound,             \* is bound to the status exchange of their id,
  consumed,          \* is consumed from
  contents,          \* the messages in each of these queues
  \* History
  published,         \* the number of messages published; the n-th is message n
  handled,           \* the messages reported to the application, per id
  lastLabel          \* what became of the last label provided

serverVars == <<link, closed, killed, listeners, labelExchanges>>
listenerVars == <<ids, stopped, statusQueue>>
channelVars == <<requests, answered, frames>>
brokerVars == <<queues, bound, consumed, contents>>
historyVars == <<published, handled, lastLabel>>
vars == <<serverVars, listenerVars, channelVars, brokerVars, historyVars>>

Created == 1 .. Len(ids)

Ops == {"statusExchange", "labelExchange", "queue", "bind", "consume", "delete"}
Request(op, l) == [op |-> op, listener |-> l]
Delivery(l, n) == [kind |-> "deliver", listener |-> l, message |-> n]
Reply == [kind |-> "reply"]

Init ==
  /\ link = "connecting"
  /\ closed = FALSE
  /\ killed = FALSE
  /\ listeners = [i \in Ids |-> None]
  /\ labelExchanges = {}
  /\ ids = <<>>
  /\ stopped = {}
  /\ statusQueue = {}
  /\ requests = <<>>
  /\ answered = FALSE
  /\ frames = <<>>
  /\ queues = {}
  /\ bound = {}
  /\ consumed = {}
  /\ contents = [l \in 1 .. MaxListeners |-> <<>>]
  /\ published = 0
  /\ handled = [i \in Ids |-> <<>>]
  /\ lastLabel = [id |-> None, outcome |-> "none"]

-------------------------------------------------------------------------------
(* The connection *)

\* SelectConnection raises: the thread kills its process.
ConnectFails ==
  /\ link = "connecting"
  /\ link' = "down"
  /\ killed' = TRUE
  /\ UNCHANGED <<closed, listeners, labelExchanges, listenerVars, channelVars,
                 brokerVars, historyVars>>

\* The connection is lost before _onConnectionOpen has registered the callback
\* for it: nobody is told, and __init__ waits on.
LostBeforeOpen ==
  /\ link = "connecting"
  /\ link' = "orphaned"
  /\ UNCHANGED <<closed, killed, listeners, labelExchanges, listenerVars,
                 channelVars, brokerVars, historyVars>>

OnConnectionOpen ==
  /\ link = "connecting"
  /\ link' = "opening"
  /\ UNCHANGED <<closed, killed, listeners, labelExchanges, listenerVars,
                 channelVars, brokerVars, historyVars>>

\* The server is ready: __init__ returns and the application may call it.
OnChannelOpen ==
  /\ link = "opening"
  /\ link' = "ready"
  /\ UNCHANGED <<closed, killed, listeners, labelExchanges, listenerVars,
                 channelVars, brokerVars, historyVars>>

\* The broker closes the channel; the callback closes the connection.
OnChannelClosed ==
  /\ link = "ready"
  /\ link' = "closing"
  /\ UNCHANGED <<closed, killed, listeners, labelExchanges, listenerVars,
                 channelVars, brokerVars, historyVars>>

\* Mutant: the callback only logs, whoever closed the connection.
OnConnectionClosedOnlyLogs ==
  /\ link \in {"opening", "ready", "closing"}
  /\ link' = "down"
  /\ UNCHANGED killed
  /\ queues' = {} /\ bound' = {} /\ consumed' = {}
  /\ contents' = [l \in 1 .. MaxListeners |-> <<>>]
  /\ UNCHANGED <<closed, listeners, labelExchanges, listenerVars, channelVars,
                 historyVars>>

\* The connection is gone, lost or closed.  The ioloop stops if close() asked
\* for it, otherwise the process is killed.  The broker drops the exclusive
\* queues of the connection.
OnConnectionClosed ==
  /\ link \in {"opening", "ready", "closing"}
  /\ link' = "down"
  /\ killed' = ~ closed
  /\ queues' = {} /\ bound' = {} /\ consumed' = {}
  /\ contents' = [l \in 1 .. MaxListeners |-> <<>>]
  /\ UNCHANGED <<closed, listeners, labelExchanges, listenerVars, channelVars,
                 historyVars>>

\* close(), in the application's thread
Close ==
  /\ link \in {"ready", "closing"}
  /\ ~ closed
  /\ closed' = TRUE
  /\ link' = "closing"
  /\ UNCHANGED <<killed, listeners, labelExchanges, listenerVars, channelVars,
                 brokerVars, historyVars>>

-------------------------------------------------------------------------------
(* The commands of the application.  While the connection closes, an operation *)
(* on the channel raises, and the exception ends the command.                  *)

\* Mutant: the label exchange is not declared.
ListenWithoutLabelExchange(id) ==
  /\ link = "ready"
  /\ listeners[id] = None
  /\ Len(ids) < MaxListeners
  /\ LET l == Len(ids) + 1
     IN  /\ ids' = Append(ids, id)
         /\ listeners' = [listeners EXCEPT ![id] = l]
         /\ requests' = Append(requests, Request("statusExchange", l))
  /\ UNCHANGED <<link, closed, killed, labelExchanges, stopped, statusQueue,
                 answered, frames, brokerVars, historyVars>>

\* A second _listenOnID for the same id only logs an error.
ListenOnID(id) ==
  /\ link = "ready"
  /\ listeners[id] = None
  /\ Len(ids) < MaxListeners
  /\ LET l == Len(ids) + 1
     IN  /\ ids' = Append(ids, id)
         /\ listeners' = [listeners EXCEPT ![id] = l]
         /\ requests' = requests \o <<Request("statusExchange", l),
                                      Request("labelExchange", l)>>
  /\ UNCHANGED <<link, closed, killed, labelExchanges, stopped, statusQueue,
                 answered, frames, brokerVars, historyVars>>

\* Mutant: the listener is forgotten but not told to stop.
ForgetListener(id) ==
  /\ link = "ready"
  /\ listeners[id] # None
  /\ listeners' = [listeners EXCEPT ![id] = None]
  /\ UNCHANGED <<link, closed, killed, labelExchanges, listenerVars,
                 channelVars, brokerVars, historyVars>>

\* A _stopListeningOnID for an id without a listener only logs an error.
StopListeningOnID(id) ==
  /\ link = "ready"
  /\ listeners[id] # None
  /\ LET l == listeners[id]
     IN  /\ stopped' = stopped \cup {l}
         /\ requests' = IF l \in statusQueue
                        THEN Append(requests, Request("delete", l))
                        ELSE requests
  /\ listeners' = [listeners EXCEPT ![id] = None]
  /\ UNCHANGED <<link, closed, killed, labelExchanges, ids, statusQueue,
                 answered, frames, brokerVars, historyVars>>

\* queue_delete raises, if the listener has a queue to delete: it has stopped,
\* but self._listeners keeps it.  A second stopListening returns early.
StopListeningWhileClosing(id) ==
  /\ link = "closing"
  /\ listeners[id] # None
  /\ LET l == listeners[id]
     IN  /\ stopped' = stopped \cup {l}
         /\ listeners' = IF l \in statusQueue \ stopped
                         THEN listeners
                         ELSE [listeners EXCEPT ![id] = None]
  /\ UNCHANGED <<link, closed, killed, labelExchanges, ids, statusQueue,
                 channelVars, brokerVars, historyVars>>

RefuseLabel(id) ==
  /\ link \in {"ready", "closing"}
  /\ id \notin labelExchanges
  /\ lastLabel' = [id |-> id, outcome |-> "refused"]
  /\ UNCHANGED <<serverVars, listenerVars, channelVars, brokerVars,
                 published, handled>>

PublishLabel(id) ==
  /\ link = "ready"
  /\ id \in labelExchanges
  /\ lastLabel' = [id |-> id, outcome |-> "published"]
  /\ UNCHANGED <<serverVars, listenerVars, channelVars, brokerVars,
                 published, handled>>

ProvideLabel(id) == RefuseLabel(id) \/ PublishLabel(id)

-------------------------------------------------------------------------------
(* The broker: it performs the requests in order, and delivers messages *)

BrokerPerforms ==
  /\ link = "ready"
  /\ requests # <<>>
  /\ ~ answered
  /\ answered' = TRUE
  /\ frames' = Append(frames, Reply)
  /\ LET op == Head(requests).op
         l == Head(requests).listener
     IN  /\ queues' = CASE op = "queue"  -> queues \cup {l}
                        [] op = "delete" -> queues \ {l}
                        [] OTHER         -> queues
         /\ bound' = CASE op = "bind"   -> bound \cup {l}
                       [] op = "delete" -> bound \ {l}
                       [] OTHER         -> bound
         /\ consumed' = CASE op = "consume" -> consumed \cup {l}
                          [] op = "delete"  -> consumed \ {l}
                          [] OTHER          -> consumed
         /\ contents' = IF op = "delete" THEN [contents EXCEPT ![l] = <<>>]
                                         ELSE contents
  /\ UNCHANGED <<serverVars, listenerVars, requests, historyVars>>

BrokerDelivers(l) ==
  /\ link = "ready"
  /\ l \in consumed
  /\ contents[l] # <<>>
  /\ frames' = Append(frames, Delivery(l, Head(contents[l])))
  /\ contents' = [contents EXCEPT ![l] = Tail(@)]
  /\ UNCHANGED <<serverVars, listenerVars, requests, answered, queues, bound,
                 consumed, historyVars>>

\* A station publishes a status: the fanout exchange copies it to the queues
\* bound to it, and drops it when there is none.
StationPublishes(id) ==
  /\ link = "ready"
  /\ published < MaxMessages
  /\ published' = published + 1
  /\ contents' = [l \in 1 .. MaxListeners |->
                    IF l \in bound /\ ids[l] = id
                    THEN Append(contents[l], published + 1)
                    ELSE contents[l]]
  /\ UNCHANGED <<serverVars, listenerVars, channelVars, queues, bound,
                 consumed, handled, lastLabel>>

-------------------------------------------------------------------------------
(* What the broker sends back, in the ioloop's thread *)

\* The reply to the first request has arrived; its callback sends more.
Replied(op, l) ==
  /\ link = "ready"
  /\ frames # <<>>
  /\ Head(frames) = Reply
  /\ Head(requests) = Request(op, l)
  /\ frames' = Tail(frames)
  /\ answered' = FALSE

Then(more) == requests' = Tail(requests) \o more

\* Mutant: the check of _notListeningAnymore is inverted.
OnExchangeDeclaredInverted(l) ==
  /\ Replied("statusExchange", l)
  /\ Then(IF l \notin stopped THEN <<>> ELSE <<Request("queue", l)>>)
  /\ UNCHANGED <<serverVars, listenerVars, brokerVars, historyVars>>


OnExchangeDeclared(l) ==
  /\ Replied("statusExchange", l)
  /\ Then(IF l \in stopped THEN <<>> ELSE <<Request("queue", l)>>)
  /\ UNCHANGED <<serverVars, listenerVars, brokerVars, historyVars>>

OnLabelExchangeDeclared(l) ==
  /\ Replied("labelExchange", l)
  /\ Then(<<>>)
  /\ labelExchanges' = labelExchanges \cup {ids[l]}
  /\ UNCHANGED <<link, closed, killed, listeners, listenerVars, brokerVars,
                 historyVars>>

\* Mutant: _onQueueDeclared does not check _notListeningAnymore.
OnQueueDeclaredUnchecked(l) ==
  /\ Replied("queue", l)
  /\ statusQueue' = statusQueue \cup {l}
  /\ Then(<<Request("bind", l)>>)
  /\ UNCHANGED <<serverVars, ids, stopped, brokerVars, historyVars>>

OnQueueDeclared(l) ==
  /\ Replied("queue", l)
  /\ statusQueue' = statusQueue \cup {l}
  /\ Then(<<Request(IF l \in stopped THEN "delete" ELSE "bind", l)>>)
  /\ UNCHANGED <<serverVars, ids, stopped, brokerVars, historyVars>>

\* Mutants: _onQueueBind does not check _notListeningAnymore, or takes the
\* queue for missing.
OnQueueBindUnchecked(l) ==
  /\ Replied("bind", l)
  /\ Then(<<Request("consume", l)>>)
  /\ UNCHANGED <<serverVars, listenerVars, brokerVars, historyVars>>

OnQueueBindNoQueue(l) ==
  /\ Replied("bind", l)
  /\ Then(<<>>)
  /\ UNCHANGED <<serverVars, listenerVars, brokerVars, historyVars>>

OnQueueBind(l) ==
  /\ Replied("bind", l)
  /\ Then(IF l \in stopped THEN <<>> ELSE <<Request("consume", l)>>)
  /\ UNCHANGED <<serverVars, listenerVars, brokerVars, historyVars>>

\* basic_consume and queue_delete have no callback of the listener's.
OnReplyWithoutCallback(l) ==
  /\ \E op \in {"consume", "delete"} : Replied(op, l)
  /\ Then(<<>>)
  /\ UNCHANGED <<serverVars, listenerVars, brokerVars, historyVars>>

\* The callback of the application that the status names; what it raises is
\* logged and dropped.
HandleStatus(id, n) == handled' = [handled EXCEPT ![id] = Append(@, n)]

\* A status message: handed to _handleStatus, unless the listener has stopped.
SendDataToCallback(l) ==
  /\ link = "ready"
  /\ frames # <<>>
  /\ Head(frames).kind = "deliver"
  /\ Head(frames).listener = l
  /\ frames' = Tail(frames)
  /\ IF l \in stopped THEN UNCHANGED handled
                       ELSE HandleStatus(ids[l], Head(frames).message)
  /\ UNCHANGED <<serverVars, listenerVars, requests, answered, brokerVars,
                 published, lastLabel>>

Receive(l) ==
  \/ OnExchangeDeclared(l)
  \/ OnLabelExchangeDeclared(l)
  \/ OnQueueDeclared(l)
  \/ OnQueueBind(l)
  \/ OnReplyWithoutCallback(l)
  \/ SendDataToCallback(l)

Terminated ==
  /\ link \in {"down", "orphaned"}
  /\ UNCHANGED vars

Connection ==
  \/ ConnectFails \/ LostBeforeOpen \/ OnConnectionOpen \/ OnChannelOpen
  \/ OnChannelClosed \/ OnConnectionClosed \/ Close

Command(id) ==
  \/ ListenOnID(id) \/ StopListeningOnID(id) \/ StopListeningWhileClosing(id)
  \/ ProvideLabel(id)

Next ==
  \/ Connection
  \/ \E id \in Ids : Command(id) \/ StationPublishes(id)
  \/ BrokerPerforms
  \/ \E l \in Created : BrokerDelivers(l) \/ Receive(l)
  \/ Terminated

Safety == Init /\ [][Next]_vars

\* The broker serves the connection, the ioloop handles what it receives, and a
\* connection that is being closed goes down.  Nothing obliges the application
\* to call, a station to publish or the connection to fail, and the start may
\* hang on the broker.
Fairness ==
  /\ WF_vars(BrokerPerforms)
  /\ \A l \in 1 .. MaxListeners : WF_vars(BrokerDelivers(l))
  /\ WF_vars(\E l \in Created : Receive(l))
  /\ WF_vars(OnChannelOpen)
  /\ WF_vars(link = "closing" /\ OnConnectionClosed)

Spec == Safety /\ Fairness

-------------------------------------------------------------------------------
(* Properties *)

ListenerNumbers == 1 .. MaxListeners
Requests == [op : Ops, listener : ListenerNumbers]
Deliveries == [kind : {"deliver"}, listener : ListenerNumbers,
               message : 1 .. MaxMessages]

\* The variables of the server, its channel and the broker keep their types,
\* and a reply is on its way only to a request that was sent.
TypeOK ==
  /\ link \in {"connecting", "orphaned", "opening", "ready", "closing", "down"}
  /\ closed \in BOOLEAN /\ killed \in BOOLEAN
  /\ listeners \in [Ids -> ListenerNumbers \cup {None}]
  /\ labelExchanges \subseteq Ids
  /\ ids \in Seq(Ids) /\ Len(ids) <= MaxListeners
  /\ stopped \subseteq Created /\ statusQueue \subseteq Created
  /\ requests \in Seq(Requests)
  /\ answered \in BOOLEAN
  /\ answered => requests # <<>>
  /\ frames \in Seq({Reply} \cup Deliveries)
  /\ queues \subseteq Created /\ bound \subseteq Created
  /\ consumed \subseteq Created
  /\ contents \in [ListenerNumbers -> Seq(1 .. MaxMessages)]
  /\ published \in 0 .. MaxMessages
  /\ handled \in [Ids -> Seq(1 .. MaxMessages)]
  /\ lastLabel \in [id : Ids \cup {None},
                    outcome : {"none", "published", "refused"}]

\* The application sees the status messages of an id in the order in which the
\* station published them and each at most once, also when it stops listening
\* and listens again while messages of the first listener are in flight.
HandledInPublishOrder ==
  \A id \in Ids :
    \A i, j \in 1 .. Len(handled[id]) :
      i < j => handled[id][i] < handled[id][j]

\* A status is reported only for an id that is listened to at that moment: a
\* message that was in flight when its listener stopped is dropped.
OnlyListenedReported ==
  [][\A id \in Ids : handled'[id] # handled[id] => listeners[id] # None]_vars

\* Once a status of an id was reported, provideLabel for it is not refused: the
\* label exchange is declared before the queue of the status messages, so an
\* application that answers a check-in with a label is never turned down.
ReportedImpliesLabelExchange ==
  \A id \in Ids : handled[id] # <<>> => id \in labelExchanges

\* A queue is bound, consumed from or deleted only while it exists.  The broker
\* closes the channel otherwise, and the server kills its process; it takes all
\* the checks of _notListeningAnymore in the chain of callbacks to prevent it.
QueueThereWhenUsed ==
  link = "ready" /\ requests # <<>> /\ ~ answered =>
    (Head(requests).op \in {"bind", "consume", "delete"}
       => Head(requests).listener \in queues)

\* The queue of a stopped listener is on its way out: its deletion was sent, or
\* the reply that makes _onQueueDeclared delete it has yet to arrive.
StoppedQueueOnItsWayOut ==
  link = "ready" =>
    \A l \in stopped \cap queues :
      \/ \E i \in 1 .. Len(requests) : requests[i] = Request("delete", l)
      \/ answered /\ Head(requests) = Request("queue", l)

\* Each listener that was stopped leaves the broker without its queue for good,
\* wherever in the chain of declarations it was stopped.
StoppedQueueFreed ==
  \A l \in ListenerNumbers : l \in stopped ~> [](l \notin queues)

\* A listener comes to consume its queue, unless it is stopped first or the
\* connection does not last.
ListeningGetsConsumer ==
  \A l \in ListenerNumbers :
    l \in Created ~> l \in consumed \/ l \in stopped \/ link # "ready"

\* A server that is past its start and has lost its channel does not live on
\* deaf and dumb: it kills its process, or stops since close() was called.
DisconnectedServerEnds ==
  link \notin {"connecting", "orphaned", "opening", "ready"}
    ~> killed \/ (closed /\ link = "down")

\* _provideLabel: "Tried to provide a label to ID %(id)s which is not listened
\* to" (server.py:44). While the server is connected a label is refused, with
\* these words, only for an id that is not listened to, or whose label exchange
\* is still on its way: listening is never at an end without it.
LabelRefusedOnlyTooEarly ==
  [][\A id \in Ids :
       link = "ready" /\ lastLabel' # lastLabel /\ lastLabel'.id = id
         /\ lastLabel'.outcome = "refused" =>
           \/ listeners[id] = None
           \/ \E i \in 1 .. Len(requests) :
                /\ requests[i].op = "labelExchange"
                /\ ids[requests[i].listener] = id]_vars
===============================================================================
