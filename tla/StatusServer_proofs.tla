-------------------------- MODULE StatusServer_proofs -------------------------
(***************************************************************************)
(* Proofs about StatusServer, for any set of ids and any number of         *)
(* listeners and messages, and about Handshake, for any number of boots.   *)
(***************************************************************************)
EXTENDS Handshake, SequenceTheorems, TLAPS

Requested(r) == \E i \in 1 .. Len(requests) : requests[i] = r
InFlight(f) == \E i \in 1 .. Len(frames) : frames[i] = f

\* What the numbers of the listeners stand for: a listener that has not stopped
\* is the one of its id, and only listeners that exist are talked about.
Numbered ==
  /\ \A id \in Ids :
       listeners[id] # None => /\ listeners[id] \in Created
                               /\ ids[listeners[id]] = id
  /\ \A l \in Created \ stopped : listeners[ids[l]] = l
  /\ \A r \in Requests : Requested(r) => r.listener \in Created
  /\ \A d \in Deliveries : InFlight(d) => d.listener \in Created

\* At most one reply is on its way, and only to a request that was performed.
OneReply ==
  /\ \A i \in 1 .. Len(frames) : frames[i] = Reply => answered
  /\ \A i, j \in 1 .. Len(frames) :
       frames[i] = Reply /\ frames[j] = Reply => i = j

Typed == TypeOK /\ Numbered /\ OneReply

-------------------------------------------------------------------------------
(* Sequences *)

\* The requests after a reply: the first is gone, more come at the end.
LEMMA TailThen ==
  ASSUME NEW S, NEW s \in Seq(S), s # <<>>, NEW m \in Seq(S)
  PROVE  /\ Tail(s) \o m \in Seq(S)
         /\ Len(s) \in Nat \ {0} /\ Len(m) \in Nat
         /\ Len(Tail(s) \o m) = Len(s) - 1 + Len(m)
         /\ \A i \in 1 .. Len(s) - 1 : (Tail(s) \o m)[i] = s[i + 1]
         /\ \A i \in 1 .. Len(m) : (Tail(s) \o m)[Len(s) - 1 + i] = m[i]
  <1>1. Tail(s) \in Seq(S) /\ Len(Tail(s)) = Len(s) - 1
          /\ Len(s) \in Nat \ {0} /\ Len(m) \in Nat
    OBVIOUS
  <1>2. \A i \in 1 .. Len(s) - 1 : Tail(s)[i] = s[i + 1]
    OBVIOUS
  <1>3. Tail(s) \o m \in Seq(S) /\ Len(Tail(s) \o m) = Len(s) - 1 + Len(m)
    BY <1>1
  <1>4. ASSUME NEW i \in 1 .. Len(s) - 1
        PROVE  (Tail(s) \o m)[i] = s[i + 1]
    BY <1>1, <1>2
  <1>5. ASSUME NEW i \in 1 .. Len(m)
        PROVE  (Tail(s) \o m)[Len(s) - 1 + i] = m[i]
    BY <1>1
  <1> QED
    BY <1>1, <1>3, <1>4, <1>5

\* What is in the channel after a reply was in it before, or is new.
LEMMA InTailThen ==
  ASSUME NEW S, NEW s \in Seq(S), s # <<>>, NEW m \in Seq(S),
         NEW i \in 1 .. Len(Tail(s) \o m)
  PROVE  \/ i + 1 \in 2 .. Len(s) /\ (Tail(s) \o m)[i] = s[i + 1]
         \/ \E j \in 1 .. Len(m) :
              i = Len(s) - 1 + j /\ (Tail(s) \o m)[i] = m[j]
  <1>1. CASE i \in 1 .. Len(s) - 1
    BY <1>1, TailThen
  <1>2. CASE i \notin 1 .. Len(s) - 1
    <2>1. i - (Len(s) - 1) \in 1 .. Len(m)
      BY <1>2, TailThen
    <2>2. i = Len(s) - 1 + (i - (Len(s) - 1))
      BY TailThen
    <2> QED
      BY <2>1, <2>2, TailThen
  <1> QED
    BY <1>1, <1>2

-------------------------------------------------------------------------------
(* Type correctness *)

LEMMA RequestTyped ==
  ASSUME NEW op \in Ops, NEW l \in ListenerNumbers
  PROVE  Request(op, l) \in Requests
  BY DEF Request, Requests

\* The shape of a reply: its request is the first one, of a known listener.
LEMMA RepliedTo ==
  ASSUME Typed, NEW op \in Ops, NEW l \in Created, Replied(op, l)
  PROVE  /\ requests # <<>> /\ requests[1] = Request(op, l) /\ answered
         /\ Tail(requests) \in Seq(Requests)
         /\ l \in ListenerNumbers /\ ids[l] \in Ids
         /\ frames' = Tail(frames) /\ frames' \in Seq({Reply} \cup Deliveries)
         /\ answered' = FALSE /\ link = "ready"
  <1>1. frames \in Seq({Reply} \cup Deliveries) /\ frames # <<>>
          /\ frames[1] = Reply
    BY DEF Replied, Typed, TypeOK
  <1>2. 1 \in 1 .. Len(frames)
    BY <1>1
  <1>3. answered
    BY <1>1, <1>2 DEF Typed, OneReply
  <1>4. requests # <<>> /\ requests \in Seq(Requests)
    BY <1>3 DEF Typed, TypeOK
  <1>5. ids \in Seq(Ids) /\ Len(ids) <= MaxListeners /\ MaxListeners \in Nat
    BY BoundsAssumption DEF Typed, TypeOK
  <1>6. l \in ListenerNumbers /\ ids[l] \in Ids
    BY <1>5 DEF Created, ListenerNumbers
  <1> QED
    BY <1>1, <1>3, <1>4, <1>6 DEF Replied

LEMMA InitTyped == Init => Typed
  <1> SUFFICES ASSUME Init
               PROVE  Typed
    OBVIOUS
  <1>1. TypeOK
    <2>1. /\ ids \in Seq(Ids) /\ Len(ids) <= MaxListeners
          /\ requests \in Seq(Requests)
          /\ frames \in Seq({Reply} \cup Deliveries)
          /\ published \in 0 .. MaxMessages
      BY BoundsAssumption DEF Init
    <2>2. /\ closed \in BOOLEAN /\ killed \in BOOLEAN /\ answered \in BOOLEAN
          /\ ~ answered
      BY Zenon DEF Init
    <2>3. /\ listeners \in [Ids -> ListenerNumbers \cup {None}]
          /\ handled \in [Ids -> Seq(1 .. MaxMessages)]
          /\ contents \in [ListenerNumbers -> Seq(1 .. MaxMessages)]
      BY DEF Init, ListenerNumbers
    <2>4. lastLabel \in [id : Ids \cup {None},
                         outcome : {"none", "published", "refused"}]
      BY DEF Init
    <2>5. /\ labelExchanges \subseteq Ids
          /\ stopped \subseteq Created /\ statusQueue \subseteq Created
          /\ queues \subseteq Created /\ bound \subseteq Created
          /\ consumed \subseteq Created /\ link = "connecting"
      BY DEF Init
    <2> QED
      BY <2>1, <2>2, <2>3, <2>4, <2>5 DEF TypeOK
  <1>2. Numbered
    BY DEF Init, Numbered, Requested, InFlight, Created
  <1>3. OneReply
    BY DEF Init, OneReply
  <1> QED
    BY <1>1, <1>2, <1>3 DEF Typed

\* The callback of a reply sends nothing or one request of the same listener.
LEMMA CallbackSends ==
  ASSUME Typed, NEW l \in Created,
         \/ OnExchangeDeclared(l) \/ OnLabelExchangeDeclared(l)
         \/ OnQueueDeclared(l) \/ OnQueueBind(l) \/ OnReplyWithoutCallback(l)
  PROVE  \E op \in Ops : \E m \in {<<>>} \cup {<<Request(o, l)>> : o \in Ops} :
           Replied(op, l) /\ Then(m)
  BY DEF OnExchangeDeclared, OnLabelExchangeDeclared, OnQueueDeclared,
         OnQueueBind, OnReplyWithoutCallback, Ops

LEMMA CallbackTyped ==
  ASSUME Typed, NEW l \in Created, NEW op \in Ops,
         NEW m \in {<<>>} \cup {<<Request(o, l)>> : o \in Ops},
         Replied(op, l), Then(m)
  PROVE  /\ m \in Seq(Requests) /\ requests' \in Seq(Requests)
         /\ requests' = Tail(requests) \o m
         /\ \A r \in Requests : Requested(r)' =>
              Requested(r) \/ \E i \in 1 .. Len(m) : m[i] = r
         /\ \A i \in 1 .. Len(m) : m[i].listener = l
  <1>1. requests # <<>> /\ requests \in Seq(Requests) /\ l \in ListenerNumbers
    BY RepliedTo DEF Typed, TypeOK
  <1>2. m \in Seq(Requests) /\ \A i \in 1 .. Len(m) : m[i].listener = l
    <2>1. CASE m = <<>>
      BY <2>1
    <2>2. CASE m # <<>>
      <3>1. PICK o \in Ops : m = <<Request(o, l)>>
        BY <2>2
      <3>2. Request(o, l) \in Requests /\ Request(o, l).listener = l
        BY <1>1, RequestTyped DEF Request
      <3> QED
        BY <3>1, <3>2
    <2> QED
      BY <2>1, <2>2
  <1>3. requests' = Tail(requests) \o m
    BY DEF Then
  <1>4. requests' \in Seq(Requests)
    BY <1>1, <1>2, <1>3, TailThen
  <1>5. ASSUME NEW r \in Requests, Requested(r)'
        PROVE  Requested(r) \/ \E i \in 1 .. Len(m) : m[i] = r
    <2>1. PICK i \in 1 .. Len(requests') : requests'[i] = r
      BY <1>5 DEF Requested
    <2>2. \/ i + 1 \in 2 .. Len(requests) /\ requests'[i] = requests[i + 1]
          \/ \E j \in 1 .. Len(m) : requests'[i] = m[j]
      BY <1>1, <1>2, <1>3, InTailThen
    <2>3. \A k \in 2 .. Len(requests) : k \in 1 .. Len(requests)
      BY <1>1
    <2> QED
      BY <2>1, <2>2, <2>3 DEF Requested
  <1> QED
    BY <1>2, <1>3, <1>4, <1>5

\* Taking the first frame off leaves only frames that were there.
LEMMA FrameTaken ==
  ASSUME Typed, frames # <<>>, frames' = Tail(frames)
  PROVE  /\ frames' \in Seq({Reply} \cup Deliveries)
         /\ \A f : InFlight(f)' => InFlight(f)
         /\ Len(frames') = Len(frames) - 1 /\ Len(frames) \in Nat
         /\ \A i \in 1 .. Len(frames') :
              frames'[i] = frames[i + 1] /\ i + 1 \in 1 .. Len(frames)
  <1>1. frames \in Seq({Reply} \cup Deliveries)
    BY DEF Typed, TypeOK
  <1>2. /\ frames' \in Seq({Reply} \cup Deliveries)
        /\ Len(frames') = Len(frames) - 1 /\ Len(frames) \in Nat
        /\ \A i \in 1 .. Len(frames') :
             frames'[i] = frames[i + 1] /\ i + 1 \in 1 .. Len(frames)
    BY <1>1
  <1>3. ASSUME NEW f, InFlight(f)'
        PROVE  InFlight(f)
    BY <1>2, <1>3 DEF InFlight
  <1> QED
    BY <1>2, <1>3

\* A reply is not a delivery.
LEMMA ReplyIsNoDelivery == Reply \notin Deliveries
  <1>1. Reply.kind # "deliver"
    BY DEF Reply
  <1>2. \A d \in Deliveries : d.kind = "deliver"
    BY DEF Deliveries
  <1> QED
    BY <1>1, <1>2

LEMMA CreatedTyped ==
  ASSUME TypeOK
  PROVE  /\ Created \subseteq ListenerNumbers /\ Len(ids) \in Nat
         /\ \A l \in Created : ids[l] \in Ids
         /\ None \notin Created
  BY BoundsAssumption, NoneAssumption DEF TypeOK, Created, ListenerNumbers

LEMMA NextTypeOK == Typed /\ [Next]_vars => TypeOK'
  <1> SUFFICES ASSUME Typed, [Next]_vars
               PROVE  TypeOK'
    OBVIOUS
  <1>0. TypeOK /\ Created \subseteq ListenerNumbers /\ Len(ids) \in Nat
          /\ \A l \in Created : ids[l] \in Ids
    BY CreatedTyped DEF Typed
  <1>1. CASE Connection
    <2>1. CASE OnConnectionClosed
      <3>1. killed' \in BOOLEAN
        BY <2>1, <1>0 DEF OnConnectionClosed, TypeOK
      <3>2. contents' \in [ListenerNumbers -> Seq(1 .. MaxMessages)]
        BY <2>1 DEF OnConnectionClosed, ListenerNumbers
      <3> QED
        BY <1>0, <2>1, <3>1, <3>2
        DEF OnConnectionClosed, TypeOK, Created, listenerVars, channelVars,
            historyVars
    <2>2. CASE ~ OnConnectionClosed
      <3>1. /\ link' \in {"orphaned", "opening", "ready", "closing", "down"}
            /\ closed' = closed \/ closed' = TRUE
            /\ killed' = killed \/ killed' = TRUE
            /\ UNCHANGED <<listeners, labelExchanges, listenerVars, channelVars,
                           brokerVars, historyVars>>
        BY <1>1, <2>2 DEF Connection, ConnectFails, LostBeforeOpen,
           OnConnectionOpen, OnChannelOpen, OnChannelClosed, Close
      <3>2. closed' \in BOOLEAN /\ killed' \in BOOLEAN
        BY <1>0, <3>1 DEF TypeOK
      <3> QED
        BY <1>0, <3>1, <3>2
        DEF TypeOK, Created, listenerVars, channelVars, brokerVars, historyVars
    <2> QED
      BY <2>1, <2>2
  <1>2. ASSUME NEW id \in Ids, ListenOnID(id)
        PROVE  TypeOK'
    <2> DEFINE l == Len(ids) + 1
    <2>1. l \in ListenerNumbers
      BY <1>0, <1>2, BoundsAssumption DEF ListenOnID, ListenerNumbers
    <2>2. ids' \in Seq(Ids) /\ Len(ids') = l /\ Len(ids') <= MaxListeners
      BY <1>0, <1>2, BoundsAssumption DEF ListenOnID, TypeOK
    <2>3. Created \subseteq Created'
      BY <1>0, <2>2 DEF Created
    <2>4. <<Request("statusExchange", l), Request("labelExchange", l)>>
            \in Seq(Requests)
      <3>1. Request("statusExchange", l) \in Requests
              /\ Request("labelExchange", l) \in Requests
        BY <2>1, RequestTyped DEF Ops
      <3> QED
        BY <3>1
    <2>5. requests' = requests \o <<Request("statusExchange", l),
                                    Request("labelExchange", l)>>
      BY <1>2 DEF ListenOnID
    <2>6. requests' \in Seq(Requests) /\ (requests # <<>> => requests' # <<>>)
      BY <1>0, <2>4, <2>5 DEF TypeOK
    <2>7. listeners' \in [Ids -> ListenerNumbers \cup {None}]
      BY <1>0, <1>2, <2>1 DEF ListenOnID, TypeOK
    <2>8. UNCHANGED <<link, closed, killed, labelExchanges, stopped, statusQueue,
                      answered, frames, brokerVars, historyVars>>
      BY <1>2 DEF ListenOnID
    <2> QED
      BY <1>0, <2>2, <2>3, <2>6, <2>7, <2>8 DEF TypeOK, brokerVars, historyVars
  <1>3. ASSUME NEW id \in Ids, StopListeningOnID(id)
        PROVE  TypeOK'
    <2>1. listeners[id] \in Created /\ listeners[id] \in ListenerNumbers
      BY <1>0, <1>3 DEF StopListeningOnID, Typed, Numbered
    <2>2. Request("delete", listeners[id]) \in Requests
      BY <2>1, RequestTyped DEF Ops
    <2>3. requests' \in Seq(Requests) /\ (requests # <<>> => requests' # <<>>)
      <3>1. \/ requests' = requests
            \/ requests' = Append(requests, Request("delete", listeners[id]))
        BY <1>3 DEF StopListeningOnID
      <3>2. requests \in Seq(Requests)
        BY <1>0 DEF TypeOK
      <3> QED
        BY <2>2, <3>1, <3>2
    <2>4. /\ stopped' = stopped \cup {listeners[id]}
          /\ listeners' = [listeners EXCEPT ![id] = None]
          /\ UNCHANGED <<link, closed, killed, labelExchanges, ids, statusQueue,
                         answered, frames, brokerVars, historyVars>>
      BY <1>3 DEF StopListeningOnID
    <2> QED
      BY <1>0, <2>1, <2>3, <2>4 DEF TypeOK, Created, brokerVars, historyVars
  <1>4. ASSUME NEW id \in Ids, StopListeningWhileClosing(id)
        PROVE  TypeOK'
    <2>1. listeners[id] \in Created
      BY <1>4 DEF StopListeningWhileClosing, Typed, Numbered
    <2>2. /\ stopped' = stopped \cup {listeners[id]}
          /\ listeners' \in {listeners, [listeners EXCEPT ![id] = None]}
          /\ UNCHANGED <<link, closed, killed, labelExchanges, ids, statusQueue,
                         channelVars, brokerVars, historyVars>>
      BY <1>4 DEF StopListeningWhileClosing
    <2> QED
      BY <1>0, <2>1, <2>2 DEF TypeOK, Created, channelVars, brokerVars,
                              historyVars
  <1>5. ASSUME NEW id \in Ids, ProvideLabel(id)
        PROVE  TypeOK'
    <2>1. /\ lastLabel' \in [id : Ids \cup {None},
                             outcome : {"none", "published", "refused"}]
          /\ UNCHANGED <<serverVars, listenerVars, channelVars, brokerVars,
                         published, handled>>
      BY <1>5 DEF ProvideLabel, RefuseLabel, PublishLabel
    <2> QED
      BY <1>0, <2>1 DEF TypeOK, Created, serverVars, listenerVars, channelVars,
                        brokerVars
  <1>6. ASSUME NEW id \in Ids, StationPublishes(id)
        PROVE  TypeOK'
    <2>1. published \in 0 .. MaxMessages /\ published < MaxMessages
            /\ published' = published + 1
      BY <1>0, <1>6 DEF StationPublishes, TypeOK
    <2>2. published' \in 0 .. MaxMessages /\ published + 1 \in 1 .. MaxMessages
      BY <2>1, BoundsAssumption
    <2>3. contents' \in [ListenerNumbers -> Seq(1 .. MaxMessages)]
      <3>1. ASSUME NEW l \in ListenerNumbers
            PROVE  /\ contents[l] \in Seq(1 .. MaxMessages)
                   /\ Append(contents[l], published + 1) \in Seq(1 .. MaxMessages)
        BY <1>0, <2>2, AppendProperties DEF TypeOK
      <3>2. contents' = [l \in ListenerNumbers |->
                           IF l \in bound /\ ids[l] = id
                           THEN Append(contents[l], published + 1)
                           ELSE contents[l]]
        BY <1>6 DEF StationPublishes, ListenerNumbers
      <3> QED
        BY <3>1, <3>2
    <2>4. UNCHANGED <<serverVars, listenerVars, channelVars, queues, bound,
                      consumed, handled, lastLabel>>
      BY <1>6 DEF StationPublishes
    <2> QED
      BY <1>0, <2>2, <2>3, <2>4 DEF TypeOK, Created, serverVars, listenerVars,
                                    channelVars
  <1>7. CASE BrokerPerforms
    <2>1. requests # <<>> /\ requests \in Seq(Requests)
            /\ Head(requests) \in Requests /\ Requested(Head(requests))
      <3>1. requests # <<>> /\ requests \in Seq(Requests)
        BY <1>0, <1>7 DEF BrokerPerforms, TypeOK
      <3>2. Head(requests) = requests[1] /\ 1 \in 1 .. Len(requests)
              /\ Head(requests) \in Requests
        BY <3>1
      <3> QED
        BY <3>1, <3>2 DEF Requested
    <2>2. Head(requests).listener \in Created
      BY <2>1 DEF Typed, Numbered
    <2>3. /\ queues' \subseteq Created /\ bound' \subseteq Created
          /\ consumed' \subseteq Created
      BY <1>0, <1>7, <2>2 DEF BrokerPerforms, TypeOK
    <2>4. contents' \in [ListenerNumbers -> Seq(1 .. MaxMessages)]
      <3>1. \/ contents' = contents
            \/ contents' = [contents EXCEPT ![Head(requests).listener] = <<>>]
        BY <1>7 DEF BrokerPerforms
      <3>2. contents \in [ListenerNumbers -> Seq(1 .. MaxMessages)]
        BY <1>0 DEF TypeOK
      <3>3. <<>> \in Seq(1 .. MaxMessages)
        OBVIOUS
      <3>4. CASE contents' = contents
        BY <3>2, <3>4
      <3>5. CASE contents' = [contents EXCEPT ![Head(requests).listener] = <<>>]
        BY <3>2, <3>3, <3>5
      <3> QED
        BY <3>1, <3>4, <3>5
    <2>5. frames' \in Seq({Reply} \cup Deliveries) /\ answered' = TRUE
            /\ UNCHANGED <<serverVars, listenerVars, requests, historyVars>>
      BY <1>0, <1>7 DEF BrokerPerforms, TypeOK
    <2> QED
      BY <1>0, <2>1, <2>3, <2>4, <2>5 DEF TypeOK, Created, serverVars,
                                          listenerVars, historyVars
  <1>8. ASSUME NEW l \in Created, BrokerDelivers(l)
        PROVE  TypeOK'
    <2>1. l \in ListenerNumbers /\ contents[l] \in Seq(1 .. MaxMessages)
            /\ contents[l] # <<>>
      <3>1. contents[l] # <<>>
        BY <1>8 DEF BrokerDelivers
      <3> QED
        BY <1>0, <3>1 DEF TypeOK
    <2>2. Head(contents[l]) \in 1 .. MaxMessages
            /\ Tail(contents[l]) \in Seq(1 .. MaxMessages)
      BY <2>1, HeadTailProperties
    <2>3. Delivery(l, Head(contents[l])) \in Deliveries
      BY <2>1, <2>2 DEF Delivery, Deliveries
    <2>4. frames' \in Seq({Reply} \cup Deliveries)
      BY <1>0, <1>8, <2>3 DEF BrokerDelivers, TypeOK
    <2>5. contents' \in [ListenerNumbers -> Seq(1 .. MaxMessages)]
      BY <1>0, <1>8, <2>1, <2>2 DEF BrokerDelivers, TypeOK
    <2>6. UNCHANGED <<serverVars, listenerVars, requests, answered, queues,
                      bound, consumed, historyVars>>
      BY <1>8 DEF BrokerDelivers
    <2> QED
      BY <1>0, <2>4, <2>5, <2>6 DEF TypeOK, Created, serverVars, listenerVars,
                                    historyVars
  <1>9. ASSUME NEW l \in Created,
               \/ OnExchangeDeclared(l) \/ OnLabelExchangeDeclared(l)
               \/ OnQueueDeclared(l) \/ OnQueueBind(l)
               \/ OnReplyWithoutCallback(l)
        PROVE  TypeOK'
    <2>1. PICK op \in Ops, m \in {<<>>} \cup {<<Request(o, l)>> : o \in Ops} :
            Replied(op, l) /\ Then(m)
      BY <1>9, CallbackSends
    <2>2. requests' \in Seq(Requests)
      BY <2>1, CallbackTyped
    <2>3. frames' \in Seq({Reply} \cup Deliveries) /\ answered' = FALSE
      BY <2>1, RepliedTo
    <2>4. /\ labelExchanges' \in {labelExchanges, labelExchanges \cup {ids[l]}}
          /\ statusQueue' \in {statusQueue, statusQueue \cup {l}}
          /\ UNCHANGED <<link, closed, killed, listeners, ids, stopped,
                         brokerVars, historyVars>>
      BY <1>9 DEF OnExchangeDeclared, OnLabelExchangeDeclared, OnQueueDeclared,
                  OnQueueBind, OnReplyWithoutCallback, serverVars, listenerVars
    <2>5. labelExchanges' \subseteq Ids /\ statusQueue' \subseteq Created
      BY <1>0, <2>4 DEF TypeOK
    <2> QED
      BY <1>0, <2>2, <2>3, <2>4, <2>5 DEF TypeOK, Created, brokerVars,
                                          historyVars
  <1>10. ASSUME NEW l \in Created, SendDataToCallback(l)
         PROVE  TypeOK'
    <2>1. frames # <<>> /\ frames' = Tail(frames) /\ frames[1].kind = "deliver"
            /\ frames \in Seq({Reply} \cup Deliveries)
      BY <1>0, <1>10 DEF SendDataToCallback, TypeOK
    <2>2. frames[1] \in Deliveries
      BY <2>1 DEF Reply
    <2>3. frames[1].message \in 1 .. MaxMessages
      BY <2>2 DEF Deliveries
    <2>4. handled' \in [Ids -> Seq(1 .. MaxMessages)]
      <3>1. UNCHANGED handled
              \/ handled' = [handled EXCEPT ![ids[l]] =
                               Append(@, frames[1].message)]
        BY <1>10, <2>1 DEF SendDataToCallback, HandleStatus
      <3>2. handled \in [Ids -> Seq(1 .. MaxMessages)] /\ ids[l] \in Ids
        BY <1>0 DEF TypeOK
      <3>3. Append(handled[ids[l]], frames[1].message) \in Seq(1 .. MaxMessages)
        BY <2>3, <3>2, AppendProperties
      <3> QED
        BY <3>1, <3>2, <3>3
    <2>5. frames' \in Seq({Reply} \cup Deliveries)
      BY <2>1
    <2>6. UNCHANGED <<serverVars, listenerVars, requests, answered, brokerVars,
                      published, lastLabel>>
      BY <1>10 DEF SendDataToCallback
    <2> QED
      BY <1>0, <2>4, <2>5, <2>6 DEF TypeOK, Created, serverVars, listenerVars,
                                    brokerVars
  <1>11. CASE UNCHANGED vars
    BY <1>0, <1>11 DEF TypeOK, Created, vars, serverVars, listenerVars,
                       channelVars, brokerVars, historyVars
  <1> QED
    BY <1>1, <1>2, <1>3, <1>4, <1>5, <1>6, <1>7, <1>8, <1>9, <1>10, <1>11
    DEF Next, Command, Receive, Terminated

LEMMA NextOneReply == Typed /\ [Next]_vars => OneReply'
  <1> SUFFICES ASSUME Typed, [Next]_vars
               PROVE  OneReply'
    OBVIOUS
  <1>0. TypeOK /\ OneReply /\ frames \in Seq({Reply} \cup Deliveries)
          /\ Len(frames) \in Nat
    BY DEF Typed, TypeOK
  <1>1. CASE BrokerPerforms
    <2>1. frames' = Append(frames, Reply) /\ ~ answered /\ answered' = TRUE
      BY <1>1 DEF BrokerPerforms
    <2>2. \A i \in 1 .. Len(frames) : frames[i] # Reply
      BY <1>0, <2>1 DEF OneReply
    <2>3. /\ Len(frames') = Len(frames) + 1
          /\ \A i \in 1 .. Len(frames) : frames'[i] = frames[i]
      BY <1>0, <2>1
    <2>4. \A i \in 1 .. Len(frames') : frames'[i] = Reply => i = Len(frames) + 1
      BY <1>0, <2>2, <2>3
    <2> QED
      BY <2>1, <2>4 DEF OneReply
  <1>2. ASSUME NEW l \in Created, BrokerDelivers(l)
        PROVE  OneReply'
    <2>1. /\ frames' = Append(frames, Delivery(l, Head(contents[l])))
          /\ UNCHANGED answered
      BY <1>2 DEF BrokerDelivers
    <2>2. Delivery(l, Head(contents[l])) # Reply
      <3>1. Delivery(l, Head(contents[l])).kind = "deliver"
              /\ Reply.kind = "reply"
        BY DEF Delivery, Reply
      <3> QED
        BY <3>1
    <2>3. /\ Len(frames') = Len(frames) + 1
          /\ \A i \in 1 .. Len(frames) : frames'[i] = frames[i]
          /\ frames'[Len(frames) + 1] # Reply
      BY <1>0, <2>1, <2>2
    <2>4. \A i \in 1 .. Len(frames') :
            frames'[i] = Reply => i \in 1 .. Len(frames) /\ frames[i] = Reply
      BY <1>0, <2>3
    <2> QED
      BY <1>0, <2>1, <2>4 DEF OneReply
  <1>3. ASSUME NEW l \in Created,
               \/ OnExchangeDeclared(l) \/ OnLabelExchangeDeclared(l)
               \/ OnQueueDeclared(l) \/ OnQueueBind(l)
               \/ OnReplyWithoutCallback(l)
        PROVE  OneReply'
    <2>1. PICK op \in Ops, m \in {<<>>} \cup {<<Request(o, l)>> : o \in Ops} :
            Replied(op, l) /\ Then(m)
      BY <1>3, CallbackSends
    <2>2. frames # <<>> /\ frames' = Tail(frames) /\ frames[1] = Reply
      BY <1>0, <2>1 DEF Replied
    <2>3. \A i \in 1 .. Len(frames') :
            frames'[i] = frames[i + 1] /\ i + 1 \in 1 .. Len(frames) /\ i + 1 # 1
      BY <2>2, FrameTaken
    <2>4. 1 \in 1 .. Len(frames)
      BY <1>0, <2>2
    <2>5. \A i \in 1 .. Len(frames) : frames[i] = Reply => i = 1
      BY <1>0, <2>2, <2>4 DEF OneReply
    <2>6. \A i \in 1 .. Len(frames') : frames'[i] # Reply
      BY <2>3, <2>5
    <2> QED
      BY <2>6 DEF OneReply
  <1>4. ASSUME NEW l \in Created, SendDataToCallback(l)
        PROVE  OneReply'
    <2>1. frames # <<>> /\ frames' = Tail(frames) /\ UNCHANGED answered
      BY <1>4 DEF SendDataToCallback
    <2>2. /\ Len(frames') = Len(frames) - 1
          /\ \A i \in 1 .. Len(frames') :
               frames'[i] = frames[i + 1] /\ i + 1 \in 1 .. Len(frames)
      BY <2>1, FrameTaken
    <2>3. \A i \in 1 .. Len(frames') : frames'[i] = Reply => answered
      BY <1>0, <2>2 DEF OneReply
    <2>4. \A i, j \in 1 .. Len(frames') :
            frames'[i] = Reply /\ frames'[j] = Reply => i + 1 = j + 1
      BY <1>0, <2>2 DEF OneReply
    <2>5. \A i, j \in 1 .. Len(frames') : i + 1 = j + 1 => i = j
      OBVIOUS
    <2> QED
      BY <2>1, <2>3, <2>4, <2>5 DEF OneReply
  <1>5. CASE ~ BrokerPerforms /\ ~ \E l \in Created : BrokerDelivers(l) \/ Receive(l)
    <2>1. UNCHANGED <<frames, answered>>
      BY <1>5 DEF Next, Connection, Command, ConnectFails, LostBeforeOpen,
         OnConnectionOpen, OnChannelOpen, OnChannelClosed, OnConnectionClosed,
         Close, ListenOnID, StopListeningOnID, StopListeningWhileClosing,
         ProvideLabel, RefuseLabel, PublishLabel, StationPublishes, Terminated,
         channelVars, vars
    <2> QED
      BY <1>0, <2>1 DEF OneReply
  <1> QED
    BY <1>1, <1>2, <1>3, <1>4, <1>5 DEF Receive

LEMMA NextNumbered == Typed /\ [Next]_vars => Numbered'
  <1> SUFFICES ASSUME Typed, [Next]_vars
               PROVE  Numbered'
    OBVIOUS
  <1>0. /\ TypeOK /\ Numbered /\ Created \subseteq ListenerNumbers
        /\ Len(ids) \in Nat /\ None \notin Created
        /\ \A l \in Created : ids[l] \in Ids
        /\ requests \in Seq(Requests) /\ frames \in Seq({Reply} \cup Deliveries)
    BY CreatedTyped DEF Typed, TypeOK
  \* Most steps leave the listeners as they are.
  <1>a. ASSUME UNCHANGED <<listeners, ids, stopped>>,
               \A r \in Requests :
                 Requested(r)' => Requested(r) \/ r.listener \in Created,
               \A d \in Deliveries :
                 InFlight(d)' => InFlight(d) \/ d.listener \in Created
        PROVE  Numbered'
    BY <1>0, <1>a DEF Numbered, Created
  <1>1. ASSUME NEW id \in Ids, ListenOnID(id)
        PROVE  Numbered'
    <2> DEFINE n == Len(ids) + 1
    <2>1. /\ ids' = Append(ids, id) /\ listeners' = [listeners EXCEPT ![id] = n]
          /\ requests' = requests \o <<Request("statusExchange", n),
                                       Request("labelExchange", n)>>
          /\ UNCHANGED <<stopped, frames>> /\ listeners[id] = None
      BY <1>1 DEF ListenOnID
    <2>2. /\ Len(ids') = n /\ ids'[n] = id
          /\ \A l \in Created : ids'[l] = ids[l]
          /\ Created' = Created \cup {n} /\ n \notin Created
      BY <1>0, <2>1 DEF TypeOK, Created
    <2>3. \A k \in Ids :
            listeners'[k] # None => /\ listeners'[k] \in Created'
                                    /\ ids'[listeners'[k]] = k
      BY <1>0, <2>1, <2>2 DEF TypeOK, Numbered
    <2>4. \A l \in Created \ stopped : ids[l] # id
      BY <1>0, <2>1 DEF Numbered
    <2>5. \A l \in Created' \ stopped' : listeners'[ids'[l]] = l
      <3> SUFFICES ASSUME NEW l \in Created' \ stopped'
                   PROVE  listeners'[ids'[l]] = l
        OBVIOUS
      <3>1. CASE l = n
        <4>1. ids'[l] = id
          BY <2>2, <3>1
        <4> QED
          BY <1>0, <2>1, <3>1, <4>1 DEF TypeOK
      <3>2. CASE l # n
        <4>1. l \in Created \ stopped /\ ids'[l] = ids[l] /\ ids[l] \in Ids
          BY <1>0, <2>1, <2>2, <3>2
        <4>2. listeners[ids[l]] = l /\ ids[l] # id
          BY <1>0, <2>4, <4>1 DEF Numbered
        <4> QED
          BY <1>0, <2>1, <4>1, <4>2 DEF TypeOK
      <3> QED
        BY <3>1, <3>2
    <2>6. ASSUME NEW r \in Requests, Requested(r)'
          PROVE  r.listener \in Created'
      <3>1. PICK i \in 1 .. Len(requests') : requests'[i] = r
        BY <2>6 DEF Requested
      <3>2. \/ i \in 1 .. Len(requests) /\ r = requests[i]
            \/ r = Request("statusExchange", n)
            \/ r = Request("labelExchange", n)
        <4>1. Len(requests') = Len(requests) + 2 /\ Len(requests) \in Nat
          BY <1>0, <2>1
        <4>2. i \in 1 .. Len(requests) \/ i = Len(requests) + 1
                \/ i = Len(requests) + 2
          BY <4>1
        <4> HIDE DEF n
        <4>3. /\ \A k \in 1 .. Len(requests) : requests'[k] = requests[k]
              /\ requests'[Len(requests) + 1] = Request("statusExchange", n)
              /\ requests'[Len(requests) + 2] = Request("labelExchange", n)
          BY <1>0, <2>1
        <4> QED
          BY <3>1, <4>2, <4>3
      <3>3. CASE i \in 1 .. Len(requests) /\ r = requests[i]
        BY <1>0, <2>2, <3>3 DEF Requested, Numbered
      <3> QED
        BY <2>2, <3>2, <3>3 DEF Request
    <2>7. \A d \in Deliveries : InFlight(d)' => d.listener \in Created'
      BY <1>0, <2>1, <2>2 DEF InFlight, Numbered
    <2> QED
      BY <2>3, <2>5, <2>6, <2>7 DEF Numbered
  <1>2. ASSUME NEW id \in Ids, StopListeningOnID(id) \/ StopListeningWhileClosing(id)
        PROVE  Numbered'
    <2>1. /\ listeners[id] # None
          /\ stopped' = stopped \cup {listeners[id]}
          /\ \/ listeners' = [listeners EXCEPT ![id] = None]
             \/ listeners' = listeners
          /\ UNCHANGED <<ids, frames>>
          /\ \/ requests' = requests
             \/ requests' = Append(requests, Request("delete", listeners[id]))
      BY <1>2 DEF StopListeningOnID, StopListeningWhileClosing, channelVars
    <2>2. listeners[id] \in Created /\ ids[listeners[id]] = id
      BY <1>0, <2>1 DEF Numbered
    <2>3. \A k \in Ids :
            listeners'[k] # None => /\ listeners'[k] \in Created
                                    /\ ids[listeners'[k]] = k
      BY <1>0, <2>1 DEF TypeOK, Numbered
    <2>4. \A l \in Created \ stopped' : listeners'[ids[l]] = l
      <3> SUFFICES ASSUME NEW l \in Created \ stopped'
                   PROVE  listeners'[ids[l]] = l
        OBVIOUS
      <3>1. l \notin stopped /\ l # listeners[id] /\ listeners[ids[l]] = l
        BY <1>0, <2>1 DEF Numbered
      <3>2. ids[l] # id
        BY <3>1
      <3> QED
        BY <1>0, <2>1, <3>1, <3>2 DEF TypeOK
    <2>5. ASSUME NEW r \in Requests, Requested(r)'
          PROVE  r.listener \in Created
      <3>1. PICK i \in 1 .. Len(requests') : requests'[i] = r
        BY <2>5 DEF Requested
      <3>2. \/ i \in 1 .. Len(requests) /\ r = requests[i]
            \/ r = Request("delete", listeners[id])
        <4>1. CASE requests' = requests
          BY <3>1, <4>1
        <4>2. CASE requests' = Append(requests, Request("delete", listeners[id]))
          <5>1. /\ Len(requests') = Len(requests) + 1 /\ Len(requests) \in Nat
                /\ \A k \in 1 .. Len(requests) : requests'[k] = requests[k]
                /\ requests'[Len(requests) + 1] = Request("delete", listeners[id])
            BY <1>0, <4>2
          <5> QED
            BY <3>1, <5>1
        <4> QED
          BY <2>1, <4>1, <4>2
      <3>3. CASE i \in 1 .. Len(requests) /\ r = requests[i]
        BY <1>0, <3>3 DEF Requested, Numbered
      <3> QED
        BY <2>2, <3>2, <3>3 DEF Request
    <2>6. \A d \in Deliveries : InFlight(d)' => d.listener \in Created
      BY <1>0, <2>1 DEF InFlight, Numbered
    <2> QED
      BY <2>1, <2>3, <2>4, <2>5, <2>6 DEF Numbered, Created
  <1>3. CASE BrokerPerforms
    <2>1. frames' = Append(frames, Reply)
            /\ UNCHANGED <<listeners, ids, stopped, requests>>
      BY <1>3 DEF BrokerPerforms, serverVars, listenerVars
    <2>2. ASSUME NEW d \in Deliveries, InFlight(d)'
          PROVE  InFlight(d)
      <3>1. PICK i \in 1 .. Len(frames') : frames'[i] = d
        BY <2>2 DEF InFlight
      <3>2. d # Reply
        BY ReplyIsNoDelivery
      <3> QED
        BY <1>0, <2>1, <3>1, <3>2 DEF InFlight
    <2> QED
      BY <1>a, <2>1, <2>2 DEF Requested
  <1>4. ASSUME NEW l \in Created, BrokerDelivers(l)
        PROVE  Numbered'
    <2>1. frames' = Append(frames, Delivery(l, Head(contents[l])))
            /\ UNCHANGED <<listeners, ids, stopped, requests>>
      BY <1>4 DEF BrokerDelivers, serverVars, listenerVars
    <2>2. Delivery(l, Head(contents[l])).listener = l
      BY DEF Delivery
    <2>3. ASSUME NEW d \in Deliveries, InFlight(d)'
          PROVE  InFlight(d) \/ d.listener \in Created
      <3>1. PICK i \in 1 .. Len(frames') : frames'[i] = d
        BY <2>3 DEF InFlight
      <3> QED
        BY <1>0, <2>1, <2>2, <3>1 DEF InFlight
    <2> QED
      BY <1>a, <2>1, <2>3 DEF Requested
  <1>5. ASSUME NEW l \in Created,
               \/ OnExchangeDeclared(l) \/ OnLabelExchangeDeclared(l)
               \/ OnQueueDeclared(l) \/ OnQueueBind(l)
               \/ OnReplyWithoutCallback(l)
        PROVE  Numbered'
    <2>1. PICK op \in Ops, m \in {<<>>} \cup {<<Request(o, l)>> : o \in Ops} :
            Replied(op, l) /\ Then(m)
      BY <1>5, CallbackSends
    <2>2. \A r \in Requests : Requested(r)' => Requested(r) \/ r.listener \in Created
      BY <2>1, CallbackTyped
    <2>3. \A d \in Deliveries : InFlight(d)' => InFlight(d)
      BY <2>1, FrameTaken DEF Replied
    <2>4. UNCHANGED <<listeners, ids, stopped>>
      BY <1>5 DEF OnExchangeDeclared, OnLabelExchangeDeclared, OnQueueDeclared,
                  OnQueueBind, OnReplyWithoutCallback, serverVars, listenerVars
    <2> QED
      BY <1>a, <2>2, <2>3, <2>4
  <1>6. ASSUME NEW l \in Created, SendDataToCallback(l)
        PROVE  Numbered'
    <2>1. \A d \in Deliveries : InFlight(d)' => InFlight(d)
      BY <1>6, FrameTaken DEF SendDataToCallback
    <2>2. UNCHANGED <<listeners, ids, stopped, requests>>
      BY <1>6 DEF SendDataToCallback, serverVars, listenerVars
    <2> QED
      BY <1>a, <2>1, <2>2 DEF Requested
  <1>7. CASE \/ Connection \/ Terminated \/ UNCHANGED vars
             \/ \E id \in Ids : ProvideLabel(id) \/ StationPublishes(id)
    <2>1. UNCHANGED <<listeners, ids, stopped, requests, frames>>
      BY <1>7 DEF Connection, ConnectFails, LostBeforeOpen,
         OnConnectionOpen, OnChannelOpen, OnChannelClosed, OnConnectionClosed,
         Close, ProvideLabel, RefuseLabel, PublishLabel, StationPublishes,
         Terminated, serverVars, listenerVars, channelVars, vars
    <2> QED
      BY <1>a, <2>1 DEF Requested, InFlight
  <1> QED
    BY <1>1, <1>2, <1>3, <1>4, <1>5, <1>6, <1>7 DEF Next, Command, Receive

LEMMA TypedInductive == Safety => []Typed
  <1>1. Typed /\ [Next]_vars => Typed'
    BY NextTypeOK, NextNumbered, NextOneReply DEF Typed
  <1> QED
    BY <1>1, InitTyped, PTL DEF Safety

\* The variables of the server, the channel and the broker keep their types; in
\* particular a reply is on its way only while its request is still the first.
THEOREM TypeCorrect == Safety => []TypeOK
  BY TypedInductive, PTL DEF Typed

\* A status is reported only for an id that is listened to at that moment: the
\* listener whose delivery is handed on has not stopped, so it is still the
\* listener of its id.
THEOREM ReportedWhileListened == Safety => OnlyListenedReported
  <1>1. ASSUME Typed, Next
        PROVE  \A id \in Ids : handled'[id] # handled[id] => listeners[id] # None
    <2> SUFFICES ASSUME NEW id \in Ids, handled'[id] # handled[id]
                 PROVE  listeners[id] # None
      OBVIOUS
    <2>1. PICK l \in Created : SendDataToCallback(l)
      BY <1>1 DEF Next, Connection, Command, Receive, ConnectFails,
         LostBeforeOpen, OnConnectionOpen, OnChannelOpen, OnChannelClosed,
         OnConnectionClosed, Close, ListenOnID, StopListeningOnID,
         StopListeningWhileClosing, ProvideLabel, RefuseLabel, PublishLabel,
         BrokerPerforms, BrokerDelivers, StationPublishes, OnExchangeDeclared,
         OnLabelExchangeDeclared, OnQueueDeclared, OnQueueBind,
         OnReplyWithoutCallback, Terminated, historyVars, vars
    <2>2. l \notin stopped /\ ids[l] = id
      BY <1>1, <2>1 DEF SendDataToCallback, HandleStatus, Typed, TypeOK
    <2>3. listeners[id] = l
      BY <1>1, <2>2 DEF Typed, Numbered
    <2> QED
      BY <1>1, <2>3, CreatedTyped DEF Typed
  <1>2. Typed /\ [Next]_vars =>
          [\A id \in Ids : handled'[id] # handled[id] => listeners[id] # None]_vars
    BY <1>1
  <1> QED
    BY <1>2, TypedInductive, PTL DEF Safety, OnlyListenedReported

-------------------------------------------------------------------------------
(* What is asked of the broker *)

\* The ways in which a step changes the requests of the channel: not at all, by
\* a new listener, by the deletion of a queue, or by a callback.
LEMMA Sends ==
  ASSUME Typed, [Next]_vars
  PROVE  \/ UNCHANGED <<requests, statusQueue>> /\ stopped \subseteq stopped'
         \/ \E id \in Ids : ListenOnID(id)
         \/ \E id \in Ids :
              /\ StopListeningOnID(id) /\ listeners[id] \in statusQueue
              /\ requests' = Append(requests, Request("delete", listeners[id]))
         \/ \E l \in Created :
              \/ OnExchangeDeclared(l) \/ OnLabelExchangeDeclared(l)
              \/ OnQueueDeclared(l) \/ OnQueueBind(l)
              \/ OnReplyWithoutCallback(l)
  <1>1. ASSUME NEW id \in Ids, StopListeningOnID(id)
        PROVE  \/ UNCHANGED <<requests, statusQueue>> /\ stopped \subseteq stopped'
               \/ /\ listeners[id] \in statusQueue
                  /\ requests' = Append(requests, Request("delete", listeners[id]))
    BY <1>1 DEF StopListeningOnID
  <1>2. CASE \/ Connection \/ BrokerPerforms \/ Terminated \/ UNCHANGED vars
             \/ \E id \in Ids : \/ StopListeningWhileClosing(id)
                                \/ ProvideLabel(id) \/ StationPublishes(id)
             \/ \E l \in Created : BrokerDelivers(l) \/ SendDataToCallback(l)
    BY <1>2 DEF Connection, ConnectFails, LostBeforeOpen, OnConnectionOpen,
       OnChannelOpen, OnChannelClosed, OnConnectionClosed, Close,
       StopListeningWhileClosing, ProvideLabel, RefuseLabel, PublishLabel,
       BrokerPerforms, BrokerDelivers, StationPublishes, SendDataToCallback,
       Terminated, channelVars, listenerVars, vars
  <1> QED
    BY <1>1, <1>2 DEF Next, Command, Receive

\* The sequence after each of them.
LEMMA Listened ==
  ASSUME Typed, NEW id \in Ids, ListenOnID(id)
  PROVE  LET n == Len(ids) + 1
         IN  /\ Len(requests') = Len(requests) + 2 /\ Len(requests) \in Nat
             /\ \A i \in 1 .. Len(requests) : requests'[i] = requests[i]
             /\ requests'[Len(requests) + 1] = Request("statusExchange", n)
             /\ requests'[Len(requests) + 2] = Request("labelExchange", n)
             /\ Created' = Created \cup {n} /\ n \notin Created
             /\ ids'[n] = id /\ \A l \in Created : ids'[l] = ids[l]
  <1> DEFINE n == Len(ids) + 1
  <1>1. /\ ids' = Append(ids, id)
        /\ requests' = requests \o <<Request("statusExchange", n),
                                     Request("labelExchange", n)>>
    BY DEF ListenOnID
  <1>2. requests \in Seq(Requests) /\ ids \in Seq(Ids) /\ Len(ids) \in Nat
    BY DEF Typed, TypeOK
  <1>3. /\ Created' = Created \cup {n} /\ n \notin Created
        /\ ids'[n] = id /\ \A l \in Created : ids'[l] = ids[l]
    BY <1>1, <1>2 DEF Created
  <1> HIDE DEF n
  <1>4. /\ Len(requests') = Len(requests) + 2 /\ Len(requests) \in Nat
        /\ \A i \in 1 .. Len(requests) : requests'[i] = requests[i]
        /\ requests'[Len(requests) + 1] = Request("statusExchange", n)
        /\ requests'[Len(requests) + 2] = Request("labelExchange", n)
    BY <1>1, <1>2
  <1> QED
    BY <1>3, <1>4 DEF n

LEMMA Deleted ==
  ASSUME Typed, NEW l \in Created, requests' = Append(requests, Request("delete", l))
  PROVE  /\ Len(requests') = Len(requests) + 1 /\ Len(requests) \in Nat
         /\ \A i \in 1 .. Len(requests) : requests'[i] = requests[i]
         /\ requests'[Len(requests) + 1] = Request("delete", l)
  BY DEF Typed, TypeOK

LEMMA Answered ==
  ASSUME Typed, NEW l \in Created,
         \/ OnExchangeDeclared(l) \/ OnLabelExchangeDeclared(l)
         \/ OnQueueDeclared(l) \/ OnQueueBind(l) \/ OnReplyWithoutCallback(l)
  PROVE  /\ Len(requests) \in Nat \ {0} /\ Len(requests') \in Nat
         /\ Len(requests') \in {Len(requests) - 1, Len(requests)}
         /\ \A i \in 1 .. Len(requests) - 1 : requests'[i] = requests[i + 1]
         /\ requests[1] \in Requests /\ requests[1].listener = l
         /\ frames # <<>> /\ frames' = Tail(frames)
  <1>1. PICK op \in Ops, m \in {<<>>} \cup {<<Request(o, l)>> : o \in Ops} :
          Replied(op, l) /\ Then(m)
    BY CallbackSends
  <1>2. /\ requests # <<>> /\ requests \in Seq(Requests)
        /\ requests[1] = Request(op, l) /\ l \in ListenerNumbers
    BY <1>1, RepliedTo DEF Typed, TypeOK
  <1>3. m \in Seq(Requests) /\ requests' = Tail(requests) \o m
    BY <1>1, CallbackTyped
  <1>4. Len(m) \in {0, 1}
    BY <1>1
  <1>5. requests[1] \in Requests /\ requests[1].listener = l
    BY <1>2, RequestTyped DEF Request
  <1>6. frames # <<>> /\ frames' = Tail(frames)
    BY <1>1 DEF Replied
  <1>7. /\ Len(requests) \in Nat \ {0}
        /\ Len(requests') = Len(requests) - 1 + Len(m)
        /\ \A i \in 1 .. Len(requests) - 1 : requests'[i] = requests[i + 1]
    <2>1. requests \in Seq(Requests) /\ requests # <<>> /\ m \in Seq(Requests)
            /\ requests' = Tail(requests) \o m
      BY <1>2, <1>3
    <2>2. /\ Len(requests) \in Nat \ {0}
          /\ Len(Tail(requests) \o m) = Len(requests) - 1 + Len(m)
      BY <2>1, TailThen
    <2>3. \A i \in 1 .. Len(requests) - 1 : (Tail(requests) \o m)[i] = requests[i + 1]
      BY <2>1, TailThen
    <2> QED
      BY <2>1, <2>2, <2>3
  <1>8. Len(requests') \in Nat /\ Len(requests') \in {Len(requests) - 1, Len(requests)}
    <2>1. Len(requests) \in Nat \ {0} /\ Len(requests') = Len(requests) - 1 + Len(m)
      BY <1>7
    <2>2. CASE Len(m) = 0
      BY <2>1, <2>2
    <2>3. CASE Len(m) = 1
      BY <2>1, <2>3
    <2> QED
      BY <1>4, <2>2, <2>3
  <1> QED
    BY <1>5, <1>6, <1>7, <1>8

-------------------------------------------------------------------------------
(* The label exchange comes first *)

Declared(l) == ids[l] \in labelExchanges

\* Until the label exchange of an id is declared, that request is ahead of all
\* requests that lead to the consumer of the listener ...
LabelFirst ==
  \A l \in Created :
    ~ Declared(l) =>
      \E p \in 1 .. Len(requests) :
        /\ requests[p] = Request("labelExchange", l)
        /\ \A i \in 1 .. Len(requests) :
             requests[i].listener = l
               /\ requests[i].op \in {"queue", "bind", "consume"} => p < i

\* ... and nothing was delivered to the listener.
NothingYet ==
  \A l \in Created :
    ~ Declared(l) => /\ l \notin consumed
                     /\ \A d \in Deliveries : InFlight(d) => d.listener # l

LabelInv == LabelFirst /\ NothingYet /\ ReportedImpliesLabelExchange

LEMMA OnlyListenCreates ==
  ASSUME [Next]_vars, ~ \E id \in Ids : ListenOnID(id)
  PROVE  UNCHANGED ids
  BY DEF Next, Connection, Command, Receive, ConnectFails, LostBeforeOpen,
     OnConnectionOpen, OnChannelOpen, OnChannelClosed, OnConnectionClosed, Close,
     StopListeningOnID, StopListeningWhileClosing, ProvideLabel, RefuseLabel,
     PublishLabel, BrokerPerforms, BrokerDelivers, StationPublishes,
     OnExchangeDeclared, OnLabelExchangeDeclared, OnQueueDeclared, OnQueueBind,
     OnReplyWithoutCallback, SendDataToCallback, Terminated, listenerVars, vars

LEMMA LabelExchangesGrow ==
  ASSUME Typed, [Next]_vars
  PROVE  /\ labelExchanges \subseteq labelExchanges'
         /\ \A l \in Created : l \in Created' /\ ids'[l] = ids[l]
         /\ \A l \in Created' : l \in Created \/ l = Len(ids) + 1
  <1>1. CASE \E id \in Ids : ListenOnID(id)
    <2>1. PICK id \in Ids : ListenOnID(id)
      BY <1>1
    <2>2. UNCHANGED labelExchanges
      BY <2>1 DEF ListenOnID
    <2> QED
      BY <2>1, <2>2, Listened
  <1>2. CASE ~ \E id \in Ids : ListenOnID(id)
    <2>1. UNCHANGED ids
      BY <1>2, OnlyListenCreates
    <2>2. labelExchanges \subseteq labelExchanges'
      BY <1>2 DEF Next, Connection, Command, Receive, ConnectFails,
         LostBeforeOpen, OnConnectionOpen, OnChannelOpen, OnChannelClosed,
         OnConnectionClosed, Close, StopListeningOnID,
         StopListeningWhileClosing, ProvideLabel, RefuseLabel, PublishLabel,
         BrokerPerforms, BrokerDelivers, StationPublishes, OnExchangeDeclared,
         OnLabelExchangeDeclared, OnQueueDeclared, OnQueueBind,
         OnReplyWithoutCallback, SendDataToCallback, Terminated, serverVars,
         vars
    <2> QED
      BY <2>1, <2>2 DEF Created
  <1> QED
    BY <1>1, <1>2

LEMMA NextLabelFirst == Typed /\ LabelFirst /\ [Next]_vars => LabelFirst'
  <1> DEFINE First(p, l) ==
        /\ requests[p] = Request("labelExchange", l)
        /\ \A i \in 1 .. Len(requests) :
             requests[i].listener = l
               /\ requests[i].op \in {"queue", "bind", "consume"} => p < i
  <1> SUFFICES ASSUME Typed, LabelFirst, [Next]_vars,
                      NEW l \in Created', ~ Declared(l)'
               PROVE  \E p \in 1 .. Len(requests') : First(p, l)'
    BY DEF LabelFirst
  <1>0. /\ requests \in Seq(Requests) /\ Len(requests) \in Nat /\ Numbered
        /\ Len(ids) \in Nat
    BY DEF Typed, TypeOK
  <1>1. l \in Created => \E p \in 1 .. Len(requests) : First(p, l)
    BY LabelExchangesGrow DEF LabelFirst, Declared
  <1>2. CASE UNCHANGED requests /\ l \in Created
    BY <1>1, <1>2
  <1>3. ASSUME NEW id \in Ids, ListenOnID(id)
        PROVE  \E p \in 1 .. Len(requests') : First(p, l)'
    <2> DEFINE n == Len(ids) + 1
    <2>1. /\ Len(requests') = Len(requests) + 2
          /\ \A i \in 1 .. Len(requests) : requests'[i] = requests[i]
          /\ requests'[Len(requests) + 1] = Request("statusExchange", n)
          /\ requests'[Len(requests) + 2] = Request("labelExchange", n)
          /\ Created' = Created \cup {n} /\ n \notin Created
      BY <1>3, Listened
    <2> HIDE DEF n
    <2>2. \A i \in 1 .. Len(requests') :
            requests'[i].op \in {"queue", "bind", "consume"}
              => i \in 1 .. Len(requests)
      <3> SUFFICES ASSUME NEW i \in 1 .. Len(requests') \ 1 .. Len(requests)
                   PROVE  requests'[i].op \notin {"queue", "bind", "consume"}
        OBVIOUS
      <3>1. i = Len(requests) + 1 \/ i = Len(requests) + 2
        BY <1>0, <2>1
      <3> QED
        BY <2>1, <3>1 DEF Request
    <2>3. CASE l \in Created
      <3>1. PICK p \in 1 .. Len(requests) : First(p, l)
        BY <1>1, <2>3
      <3>2. p \in 1 .. Len(requests')
        BY <1>0, <2>1
      <3>3. First(p, l)'
        BY <2>1, <2>2, <3>1
      <3> QED
        BY <3>2, <3>3
    <2>4. CASE l = n
      <3>1. \A i \in 1 .. Len(requests) : requests[i].listener # n
        <4> SUFFICES ASSUME NEW i \in 1 .. Len(requests)
                     PROVE  requests[i].listener # n
          OBVIOUS
        <4>1. requests[i] \in Requests /\ Requested(requests[i])
          BY <1>0 DEF Requested
        <4> QED
          BY <1>0, <2>1, <4>1 DEF Numbered
      <3>2. PICK p \in Nat : p = Len(requests) + 2
        BY <1>0
      <3>3. p \in 1 .. Len(requests') /\ requests'[p] = Request("labelExchange", l)
        BY <1>0, <2>1, <2>4, <3>2
      <3>4. ASSUME NEW i \in 1 .. Len(requests'), requests'[i].listener = l,
                   requests'[i].op \in {"queue", "bind", "consume"}
            PROVE  FALSE
        BY <2>1, <2>2, <2>4, <3>1, <3>4
      <3> QED
        BY <3>3, <3>4
    <2> QED
      BY <2>1, <2>3, <2>4
  <1>4. ASSUME NEW d \in Created, requests' = Append(requests, Request("delete", d)),
               l \in Created
        PROVE  \E p \in 1 .. Len(requests') : First(p, l)'
    <2>1. PICK p \in 1 .. Len(requests) : First(p, l)
      BY <1>1, <1>4
    <2>2. /\ Len(requests') = Len(requests) + 1
          /\ \A i \in 1 .. Len(requests) : requests'[i] = requests[i]
          /\ requests'[Len(requests) + 1].op = "delete"
      BY <1>4, Deleted DEF Request
    <2>3. \A i \in 1 .. Len(requests') :
            requests'[i].op \in {"queue", "bind", "consume"}
              => i \in 1 .. Len(requests)
      BY <1>0, <2>2
    <2>4. p \in 1 .. Len(requests') /\ First(p, l)'
      BY <1>0, <2>1, <2>2, <2>3
    <2> QED
      BY <2>4
  <1>5. ASSUME NEW k \in Created, l \in Created,
               \/ OnExchangeDeclared(k) \/ OnLabelExchangeDeclared(k)
               \/ OnQueueDeclared(k) \/ OnQueueBind(k)
               \/ OnReplyWithoutCallback(k)
        PROVE  \E p \in 1 .. Len(requests') : First(p, l)'
    <2>1. PICK p \in 1 .. Len(requests) : First(p, l)
      BY <1>1, <1>5
    <2>2. /\ Len(requests) \in Nat \ {0} /\ Len(requests') \in Nat
          /\ Len(requests') \in {Len(requests) - 1, Len(requests)}
          /\ \A i \in 1 .. Len(requests) - 1 : requests'[i] = requests[i + 1]
      BY <1>5, Answered
    <2>3. p # 1
      <3>1. SUFFICES ASSUME requests[1] = Request("labelExchange", l)
                     PROVE  FALSE
        BY <2>1
      <3>2. Head(requests) = Request("labelExchange", l)
        BY <1>0, <2>2, <3>1
      <3>3. \A o \in Ops : Replied(o, k) => o = "labelExchange" /\ k = l
        BY <3>2 DEF Replied, Request
      <3>4. OnLabelExchangeDeclared(l)
        BY <1>5, <3>3 DEF OnExchangeDeclared, OnQueueDeclared, OnQueueBind,
                          OnReplyWithoutCallback, OnLabelExchangeDeclared, Ops
      <3>5. ids[l] \in labelExchanges' /\ UNCHANGED ids
        BY <3>4 DEF OnLabelExchangeDeclared, listenerVars
      <3> QED
        BY <3>5 DEF Declared
    <2>4. p - 1 \in 1 .. Len(requests) - 1 /\ (p - 1) + 1 = p
            /\ p - 1 \in 1 .. Len(requests')
      BY <2>2, <2>3
    <2>5. requests'[p - 1] = Request("labelExchange", l)
      BY <2>1, <2>2, <2>4
    <2>6. ASSUME NEW i \in 1 .. Len(requests'), requests'[i].listener = l,
                 requests'[i].op \in {"queue", "bind", "consume"}
          PROVE  p - 1 < i
      <3>1. CASE i \in 1 .. Len(requests) - 1
        <4>1. requests'[i] = requests[i + 1] /\ i + 1 \in 1 .. Len(requests)
          BY <2>2, <3>1
        <4>2. p < i + 1
          BY <2>1, <2>6, <4>1
        <4> QED
          BY <4>2
      <3>2. CASE i \notin 1 .. Len(requests) - 1
        BY <2>2, <2>4, <3>2
      <3> QED
        BY <3>1, <3>2
    <2> QED
      BY <2>4, <2>5, <2>6
  <1>6. ~ (\E id \in Ids : ListenOnID(id)) => l \in Created
    BY OnlyListenCreates DEF Created
  <1>7. \A id \in Ids : StopListeningOnID(id) => listeners[id] \in Created
    BY <1>0 DEF StopListeningOnID, Numbered
  <1> HIDE DEF First
  <1> QED
    BY <1>2, <1>3, <1>4, <1>5, <1>6, <1>7, Sends

LEMMA NextNothingYet == Typed /\ LabelFirst /\ NothingYet /\ [Next]_vars => NothingYet'
  <1> SUFFICES ASSUME Typed, LabelFirst, NothingYet, [Next]_vars,
                      NEW l \in Created', ~ Declared(l)'
               PROVE  l \notin consumed' /\ \A d \in Deliveries : InFlight(d)' => d.listener # l
    BY DEF NothingYet
  <1>0. /\ requests \in Seq(Requests) /\ Numbered /\ consumed \subseteq Created
        /\ frames \in Seq({Reply} \cup Deliveries)
    BY DEF Typed, TypeOK
  <1>1. l \in Created =>
          ~ Declared(l) /\ l \notin consumed
            /\ \A d \in Deliveries : InFlight(d) => d.listener # l
    BY LabelExchangesGrow DEF NothingYet, Declared
  <1>2. l \notin Created =>
          l \notin consumed /\ \A d \in Deliveries : InFlight(d) => d.listener # l
    BY <1>0 DEF Numbered
  <1>3. l \notin consumed /\ \A d \in Deliveries : InFlight(d) => d.listener # l
    BY <1>1, <1>2
  <1>4. CASE BrokerPerforms
    <2>1. requests # <<>> /\ frames' = Append(frames, Reply) /\ UNCHANGED ids
      BY <1>4 DEF BrokerPerforms, listenerVars
    <2>2. l \in Created
      BY <2>1 DEF Created
    <2>3. PICK p \in 1 .. Len(requests) :
            \A i \in 1 .. Len(requests) :
              requests[i].listener = l
                /\ requests[i].op \in {"queue", "bind", "consume"} => p < i
      BY <1>1, <2>2 DEF LabelFirst
    <2>4. 1 \in 1 .. Len(requests) /\ Head(requests) = requests[1] /\ ~ p < 1
      BY <1>0, <2>1
    <2>5. ~ (Head(requests).op = "consume" /\ Head(requests).listener = l)
      BY <2>3, <2>4
    <2>6. l \notin consumed'
      BY <1>3, <1>4, <2>5 DEF BrokerPerforms
    <2>7. ASSUME NEW d \in Deliveries, InFlight(d)'
          PROVE  InFlight(d)
      <3>1. PICK i \in 1 .. Len(frames') : frames'[i] = d
        BY <2>7 DEF InFlight
      <3>2. d # Reply
        BY ReplyIsNoDelivery
      <3> QED
        BY <1>0, <2>1, <3>1, <3>2 DEF InFlight
    <2> QED
      BY <1>3, <2>6, <2>7
  <1>5. ASSUME NEW k \in Created, BrokerDelivers(k)
        PROVE  l \notin consumed' /\ \A d \in Deliveries : InFlight(d)' => d.listener # l
    <2>1. /\ frames' = Append(frames, Delivery(k, Head(contents[k])))
          /\ UNCHANGED consumed /\ k \in consumed
      BY <1>5 DEF BrokerDelivers
    <2>2. Delivery(k, Head(contents[k])).listener # l
      BY <1>3, <2>1 DEF Delivery
    <2>3. ASSUME NEW d \in Deliveries, InFlight(d)'
          PROVE  InFlight(d) \/ d = Delivery(k, Head(contents[k]))
      <3>1. PICK i \in 1 .. Len(frames') : frames'[i] = d
        BY <2>3 DEF InFlight
      <3> QED
        BY <1>0, <2>1, <3>1 DEF InFlight
    <2> QED
      BY <1>3, <2>1, <2>2, <2>3
  <1>6. CASE ~ BrokerPerforms /\ ~ \E k \in Created : BrokerDelivers(k)
    <2>1. consumed' \subseteq consumed
      BY <1>6 DEF Next, Connection, Command, Receive, ConnectFails,
         LostBeforeOpen, OnConnectionOpen, OnChannelOpen, OnChannelClosed,
         OnConnectionClosed, Close, ListenOnID, StopListeningOnID,
         StopListeningWhileClosing, ProvideLabel, RefuseLabel, PublishLabel,
         StationPublishes, OnExchangeDeclared, OnLabelExchangeDeclared,
         OnQueueDeclared, OnQueueBind, OnReplyWithoutCallback,
         SendDataToCallback, Terminated, brokerVars, vars
    <2>2. UNCHANGED frames \/ (frames # <<>> /\ frames' = Tail(frames))
      BY <1>6 DEF Next, Connection, Command, Receive, ConnectFails,
         LostBeforeOpen, OnConnectionOpen, OnChannelOpen, OnChannelClosed,
         OnConnectionClosed, Close, ListenOnID, StopListeningOnID,
         StopListeningWhileClosing, ProvideLabel, RefuseLabel, PublishLabel,
         StationPublishes, OnExchangeDeclared, OnLabelExchangeDeclared,
         OnQueueDeclared, OnQueueBind, OnReplyWithoutCallback, Replied,
         SendDataToCallback, Terminated, channelVars, vars
    <2>3. \A d \in Deliveries : InFlight(d)' => InFlight(d)
      BY <2>2, FrameTaken DEF InFlight
    <2> QED
      BY <1>3, <2>1, <2>3
  <1> QED
    BY <1>4, <1>5, <1>6

LEMMA NextReported ==
  Typed /\ NothingYet /\ ReportedImpliesLabelExchange /\ [Next]_vars
    => ReportedImpliesLabelExchange'
  <1> SUFFICES ASSUME Typed, NothingYet, ReportedImpliesLabelExchange, [Next]_vars,
                      NEW id \in Ids, handled'[id] # <<>>
               PROVE  id \in labelExchanges'
    BY DEF ReportedImpliesLabelExchange
  <1>0. handled[id] # <<>> => id \in labelExchanges'
    BY LabelExchangesGrow DEF ReportedImpliesLabelExchange
  <1>1. ASSUME NEW l \in Created, SendDataToCallback(l)
        PROVE  id \in labelExchanges'
    <2>1. /\ frames # <<>> /\ frames \in Seq({Reply} \cup Deliveries)
          /\ frames[1].kind = "deliver" /\ frames[1].listener = l
      BY <1>1 DEF SendDataToCallback, Typed, TypeOK
    <2>2. 1 \in 1 .. Len(frames) /\ frames[1] \in Deliveries
      BY <2>1 DEF Reply
    <2>3. ids[l] \in labelExchanges
      BY <2>1, <2>2 DEF InFlight, NothingYet, Declared
    <2>4. handled'[id] = handled[id] \/ id = ids[l]
      BY <1>1 DEF SendDataToCallback, HandleStatus, Typed, TypeOK
    <2> QED
      BY <1>0, <2>3, <2>4, LabelExchangesGrow
  <1>2. CASE ~ \E l \in Created : SendDataToCallback(l)
    <2>1. UNCHANGED handled
      BY <1>2 DEF Next, Connection, Command, Receive, ConnectFails,
         LostBeforeOpen, OnConnectionOpen, OnChannelOpen, OnChannelClosed,
         OnConnectionClosed, Close, ListenOnID, StopListeningOnID,
         StopListeningWhileClosing, ProvideLabel, RefuseLabel, PublishLabel,
         BrokerPerforms, BrokerDelivers, StationPublishes, OnExchangeDeclared,
         OnLabelExchangeDeclared, OnQueueDeclared, OnQueueBind,
         OnReplyWithoutCallback, Terminated, historyVars, vars
    <2> QED
      BY <1>0, <2>1
  <1> QED
    BY <1>1, <1>2

LEMMA InitLabelInv == Init => LabelInv
  <1> SUFFICES ASSUME Init
               PROVE  LabelInv
    OBVIOUS
  <1>1. Created = {}
    BY DEF Init, Created
  <1>2. ReportedImpliesLabelExchange
    BY DEF Init, ReportedImpliesLabelExchange
  <1> QED
    BY <1>1, <1>2 DEF LabelInv, LabelFirst, NothingYet

\* Once a status of an id was reported, provideLabel for it is not refused.  The
\* label exchange is asked for when the listener is created, and the broker
\* answers in order: until that answer has come, no request that leads to the
\* consumer of the listener has been performed, so nothing was delivered to it.
THEOREM LabelExchangeBeforeReports == Safety => []ReportedImpliesLabelExchange
  <1>1. Typed /\ LabelInv /\ [Next]_vars => LabelInv'
    BY NextLabelFirst, NextNothingYet, NextReported DEF LabelInv
  <1>2. Safety => []LabelInv
    BY <1>1, InitLabelInv, TypedInductive, PTL DEF Safety
  <1> QED
    BY <1>2, PTL DEF LabelInv

\* A label is refused only for an id that is not listened to, or whose label
\* exchange is still asked for: its request is in the channel from the creation of
\* the listener to the step that adds the id to _idsWithLabelExchanges.
THEOREM RefusedOnlyTooEarly == Safety => LabelRefusedOnlyTooEarly
  <1>1. ASSUME Typed, LabelFirst, Next
        PROVE  \A id \in Ids :
                 link = "ready" /\ lastLabel' # lastLabel /\ lastLabel'.id = id
                   /\ lastLabel'.outcome = "refused" =>
                     \/ listeners[id] = None
                     \/ \E i \in 1 .. Len(requests) :
                          /\ requests[i].op = "labelExchange"
                          /\ ids[requests[i].listener] = id
    <2> SUFFICES ASSUME NEW id \in Ids, lastLabel' # lastLabel, lastLabel'.id = id,
                        lastLabel'.outcome = "refused", listeners[id] # None
                 PROVE  \E i \in 1 .. Len(requests) :
                          /\ requests[i].op = "labelExchange"
                          /\ ids[requests[i].listener] = id
      OBVIOUS
    <2>1. \E i \in Ids : ProvideLabel(i)
      BY <1>1 DEF Next, Connection, Command, Receive, ConnectFails,
         LostBeforeOpen, OnConnectionOpen, OnChannelOpen, OnChannelClosed,
         OnConnectionClosed, Close, ListenOnID, StopListeningOnID,
         StopListeningWhileClosing, BrokerPerforms, BrokerDelivers,
         StationPublishes, OnExchangeDeclared, OnLabelExchangeDeclared,
         OnQueueDeclared, OnQueueBind, OnReplyWithoutCallback,
         SendDataToCallback, Terminated, historyVars, vars
    <2>2. id \notin labelExchanges
      BY <2>1 DEF ProvideLabel, RefuseLabel, PublishLabel
    <2> DEFINE l == listeners[id]
    <2>3. l \in Created /\ ids[l] = id
      BY <1>1 DEF Typed, Numbered
    <2>4. PICK p \in 1 .. Len(requests) : requests[p] = Request("labelExchange", l)
      BY <1>1, <2>2, <2>3 DEF LabelFirst, Declared
    <2> QED
      BY <2>3, <2>4 DEF Request
  <1>2. Typed /\ LabelInv /\ [Next]_vars =>
          [\A id \in Ids :
             link = "ready" /\ lastLabel' # lastLabel /\ lastLabel'.id = id
               /\ lastLabel'.outcome = "refused" =>
                 \/ listeners[id] = None
                 \/ \E i \in 1 .. Len(requests) :
                      /\ requests[i].op = "labelExchange"
                      /\ ids[requests[i].listener] = id]_vars
    BY <1>1 DEF LabelInv
  <1>3. Typed /\ LabelInv /\ [Next]_vars => LabelInv'
    BY NextLabelFirst, NextNothingYet, NextReported DEF LabelInv
  <1>4. Safety => []LabelInv
    BY <1>3, InitLabelInv, TypedInductive, PTL DEF Safety
  <1> QED
    BY <1>2, <1>4, TypedInductive, PTL DEF Safety, LabelRefusedOnlyTooEarly

-------------------------------------------------------------------------------
(* The chain of requests of a listener, and its queue *)

Working == link \in {"connecting", "opening", "ready"}
ChainOps == {"statusExchange", "queue", "bind", "consume"}

\* At most one link of the chain of a listener is on its way.
OneInChain ==
  \A i, j \in 1 .. Len(requests) :
    /\ requests[i].op \in ChainOps /\ requests[j].op \in ChainOps
    /\ requests[i].listener = requests[j].listener
    => i = j

\* The first two links precede the reply that tells the name of the queue; a
\* deletion follows it, and the listener has stopped; nothing comes after it.
QueueUnknown ==
  \A i \in 1 .. Len(requests) :
    requests[i].op \in {"statusExchange", "queue"}
      => requests[i].listener \notin statusQueue

DeleteOfStopped ==
  \A i \in 1 .. Len(requests) :
    requests[i].op = "delete"
      => requests[i].listener \in stopped \cap statusQueue

DeleteLast ==
  \A i, j \in 1 .. Len(requests) :
    requests[i].op = "delete" /\ requests[j].listener = requests[i].listener
      => j <= i

\* While nothing has failed, the server knows no listener that has stopped.
ListenersLive ==
  Working => \A id \in Ids : listeners[id] # None => listeners[id] \notin stopped

Chain ==
  OneInChain /\ QueueUnknown /\ DeleteOfStopped /\ DeleteLast /\ ListenersLive

\* What is used exists at the broker.
UsedExists ==
  Working =>
    \A i \in 1 .. Len(requests) :
      \/ requests[i].op \in {"bind", "consume"}
      \/ requests[i].op = "delete" /\ ~ (i = 1 /\ answered)
      \/ requests[i].op = "queue" /\ i = 1 /\ answered
      => requests[i].listener \in queues

KnownExists ==
  Working => \A l \in statusQueue \ stopped : l \in queues

\* A queue the server does not know yet is the one just declared, and the
\* queue just deleted is gone.
UnknownDeclared ==
  Working =>
    \A l \in queues \ statusQueue :
      /\ answered /\ 1 \in 1 .. Len(requests)
      /\ requests[1] = Request("queue", l)

DeletedGone ==
  Working /\ answered /\ requests[1].op = "delete"
    => requests[1].listener \notin queues

WayOut ==
  Working =>
    \A l \in stopped \cap queues :
      \/ \E i \in 1 .. Len(requests) : requests[i] = Request("delete", l)
      \/ answered /\ requests[1] = Request("queue", l)

Broker == UsedExists /\ KnownExists /\ UnknownDeclared /\ DeletedGone /\ WayOut

\* What a callback does to the channel: the first request, answered, is gone;
\* at most one request of the same listener follows at the end.
LEMMA Callback ==
  ASSUME Typed, NEW l \in Created,
         \/ OnExchangeDeclared(l) \/ OnLabelExchangeDeclared(l)
         \/ OnQueueDeclared(l) \/ OnQueueBind(l) \/ OnReplyWithoutCallback(l)
  PROVE  /\ answered /\ answered' = FALSE /\ link = "ready"
         /\ UNCHANGED <<link, listeners, ids, stopped, queues>>
         /\ requests[1].listener = l
         /\ \/ /\ Len(requests') = Len(requests) - 1
               /\ requests[1].op # "queue" /\ UNCHANGED statusQueue
               /\ requests[1].op = "statusExchange" => l \in stopped
            \/ /\ Len(requests') = Len(requests) /\ l \notin stopped
               /\ requests[1].op = "statusExchange" /\ UNCHANGED statusQueue
               /\ requests'[Len(requests)] = Request("queue", l)
            \/ /\ Len(requests') = Len(requests) /\ l \notin stopped
               /\ requests[1].op = "bind" /\ UNCHANGED statusQueue
               /\ requests'[Len(requests)] = Request("consume", l)
            \/ /\ Len(requests') = Len(requests) /\ requests[1].op = "queue"
               /\ statusQueue' = statusQueue \cup {l}
               /\ requests'[Len(requests)]
                    = Request(IF l \in stopped THEN "delete" ELSE "bind", l)
  <1>0. requests \in Seq(Requests) /\ l \in ListenerNumbers
    BY CreatedTyped DEF Typed, TypeOK
  <1>1. /\ UNCHANGED <<link, listeners, ids, stopped, queues>>
    BY DEF OnExchangeDeclared, OnLabelExchangeDeclared, OnQueueDeclared,
           OnQueueBind, OnReplyWithoutCallback, serverVars, listenerVars,
           brokerVars
  <1>2. ASSUME NEW op \in Ops, Replied(op, l)
        PROVE  /\ answered /\ answered' = FALSE /\ link = "ready"
               /\ requests # <<>> /\ requests[1].listener = l
               /\ requests[1].op = op
    <2>1. /\ requests # <<>> /\ requests[1] = Request(op, l)
          /\ answered' = FALSE /\ link = "ready"
      BY <1>2, RepliedTo
    <2>2. answered
      BY <1>2, RepliedTo
    <2> QED
      BY <2>1, <2>2 DEF Request
  <1>3. ASSUME requests # <<>>, Then(<<>>)
        PROVE  Len(requests') = Len(requests) - 1
    BY <1>0, <1>3 DEF Then
  <1>4. ASSUME requests # <<>>, NEW o \in Ops, Then(<<Request(o, l)>>)
        PROVE  /\ Len(requests') = Len(requests)
               /\ requests'[Len(requests)] = Request(o, l)
    <2> DEFINE t == <<Request(o, l)>>
    <2>1. Request(o, l) \in Requests
      BY <1>0, RequestTyped
    <2>2. t \in Seq(Requests) /\ Len(t) = 1 /\ t[1] = Request(o, l)
      BY <2>1
    <2>3. requests' = Tail(requests) \o t
      BY <1>4 DEF Then
    <2> HIDE DEF t
    <2>4. /\ Len(requests) \in Nat \ {0} /\ Len(requests') = Len(requests) - 1 + 1
          /\ requests'[Len(requests) - 1 + 1] = Request(o, l)
      <3>0. requests \in Seq(Requests) /\ requests # <<>> /\ t \in Seq(Requests)
        BY <1>0, <1>4, <2>2
      <3>1. /\ Len(requests) \in Nat \ {0}
            /\ Len(Tail(requests) \o t) = Len(requests) - 1 + Len(t)
            /\ \A i \in 1 .. Len(t) :
                 (Tail(requests) \o t)[Len(requests) - 1 + i] = t[i]
        BY <3>0, TailThen
      <3>2. 1 \in 1 .. Len(t)
        BY <2>2
      <3> QED
        BY <2>2, <2>3, <3>1, <3>2
    <2>5. Len(requests) - 1 + 1 = Len(requests)
      BY <2>4
    <2> QED
      BY <2>4, <2>5
  <1>5. CASE OnExchangeDeclared(l)
    <2>1. Replied("statusExchange", l) /\ UNCHANGED statusQueue
      BY <1>5 DEF OnExchangeDeclared, listenerVars
    <2>2. CASE l \in stopped
      <3>1. Then(<<>>)
        BY <1>5, <2>2 DEF OnExchangeDeclared
      <3> QED
        BY <1>1, <1>2, <1>3, <2>1, <2>2, <3>1 DEF Ops
    <2>3. CASE l \notin stopped
      <3>1. Then(<<Request("queue", l)>>)
        BY <1>5, <2>3 DEF OnExchangeDeclared
      <3> QED
        BY <1>1, <1>2, <1>4, <2>1, <2>3, <3>1 DEF Ops
    <2> QED
      BY <2>2, <2>3
  <1>6. CASE OnQueueDeclared(l)
    <2>1. Replied("queue", l) /\ statusQueue' = statusQueue \cup {l}
            /\ Then(<<Request(IF l \in stopped THEN "delete" ELSE "bind", l)>>)
      BY <1>6 DEF OnQueueDeclared
    <2>2. CASE l \in stopped
      <3>1. Then(<<Request("delete", l)>>)
        BY <2>1, <2>2
      <3> QED
        BY <1>1, <1>2, <1>4, <2>1, <2>2, <3>1 DEF Ops
    <2>3. CASE l \notin stopped
      <3>1. Then(<<Request("bind", l)>>)
        BY <2>1, <2>3
      <3> QED
        BY <1>1, <1>2, <1>4, <2>1, <2>3, <3>1 DEF Ops
    <2> QED
      BY <2>2, <2>3
  <1>7. CASE OnQueueBind(l)
    <2>1. Replied("bind", l) /\ UNCHANGED statusQueue
      BY <1>7 DEF OnQueueBind, listenerVars
    <2>2. CASE l \in stopped
      <3>1. Then(<<>>)
        BY <1>7, <2>2 DEF OnQueueBind
      <3> QED
        BY <1>1, <1>2, <1>3, <2>1, <3>1 DEF Ops
    <2>3. CASE l \notin stopped
      <3>1. Then(<<Request("consume", l)>>)
        BY <1>7, <2>3 DEF OnQueueBind
      <3> QED
        BY <1>1, <1>2, <1>4, <2>1, <2>3, <3>1 DEF Ops
    <2> QED
      BY <2>2, <2>3
  <1>8. CASE OnLabelExchangeDeclared(l) \/ OnReplyWithoutCallback(l)
    <2>1. PICK op \in {"labelExchange", "consume", "delete"} : Replied(op, l)
      BY <1>8 DEF OnLabelExchangeDeclared, OnReplyWithoutCallback
    <2>2. Then(<<>>) /\ UNCHANGED statusQueue
      BY <1>8 DEF OnLabelExchangeDeclared, OnReplyWithoutCallback, listenerVars
    <2> QED
      BY <1>1, <1>2, <1>3, <2>1, <2>2 DEF Ops
  <1> QED
    BY <1>5, <1>6, <1>7, <1>8

LEMMA NextListenersLive == Typed /\ ListenersLive /\ [Next]_vars => ListenersLive'
  <1> SUFFICES ASSUME Typed, ListenersLive, [Next]_vars, Working',
                      NEW id \in Ids, listeners'[id] # None
               PROVE  listeners'[id] \notin stopped'
    BY DEF ListenersLive
  <1>0. /\ listeners \in [Ids -> ListenerNumbers \cup {None}]
        /\ stopped \subseteq Created /\ Numbered
    BY DEF Typed, TypeOK
  <1>1. ASSUME NEW k \in Ids, ListenOnID(k)
        PROVE  listeners'[id] \notin stopped'
    <2>1. /\ Working /\ UNCHANGED stopped
          /\ listeners' = [listeners EXCEPT ![k] = Len(ids) + 1]
      BY <1>1 DEF ListenOnID, Working
    <2>2. Len(ids) + 1 \notin stopped
      BY <1>0, <1>1, Listened
    <2> QED
      BY <1>0, <2>1, <2>2 DEF ListenersLive
  <1>2. ASSUME NEW k \in Ids, StopListeningOnID(k)
        PROVE  listeners'[id] \notin stopped'
    <2>1. /\ Working /\ stopped' = stopped \cup {listeners[k]}
          /\ listeners' = [listeners EXCEPT ![k] = None] /\ listeners[k] # None
      BY <1>2 DEF StopListeningOnID, Working
    <2>2. id # k /\ listeners'[id] = listeners[id]
      BY <1>0, <2>1
    <2>3. listeners[id] # listeners[k]
      BY <1>0, <2>1, <2>2 DEF Numbered
    <2> QED
      BY <2>1, <2>2, <2>3 DEF ListenersLive
  <1>3. CASE ~ \E k \in Ids : ListenOnID(k) \/ StopListeningOnID(k)
    <2>1. Working /\ UNCHANGED <<listeners, stopped>>
      BY <1>3 DEF Next, Connection, Command, Receive, ConnectFails,
         LostBeforeOpen, OnConnectionOpen, OnChannelOpen, OnChannelClosed,
         OnConnectionClosed, Close, StopListeningWhileClosing, ProvideLabel,
         RefuseLabel, PublishLabel, BrokerPerforms, BrokerDelivers,
         StationPublishes, OnExchangeDeclared, OnLabelExchangeDeclared,
         OnQueueDeclared, OnQueueBind, OnReplyWithoutCallback,
         SendDataToCallback, Terminated, Working, serverVars, listenerVars, vars
    <2> QED
      BY <2>1 DEF ListenersLive
  <1> QED
    BY <1>1, <1>2, <1>3

\* A live listener has no deletion on its way.
LEMMA LiveNotDeleted ==
  ASSUME DeleteOfStopped, NEW l, l \notin stopped, NEW i \in 1 .. Len(requests),
         requests[i].listener = l
  PROVE  requests[i].op # "delete"
  BY DEF DeleteOfStopped

LEMMA NextChain == Typed /\ Chain /\ [Next]_vars => Chain'
  <1> SUFFICES ASSUME Typed, Chain, [Next]_vars
               PROVE  Chain'
    OBVIOUS
  <1>0. /\ requests \in Seq(Requests) /\ Len(requests) \in Nat /\ Numbered
        /\ statusQueue \subseteq Created /\ stopped \subseteq Created
        /\ OneInChain /\ QueueUnknown /\ DeleteOfStopped /\ DeleteLast
    BY DEF Typed, TypeOK, Chain
  <1>a. ListenersLive'
    BY NextListenersLive DEF Chain
  <1>1. CASE UNCHANGED <<requests, statusQueue>> /\ stopped \subseteq stopped'
    BY <1>0, <1>1, <1>a
    DEF Chain, OneInChain, QueueUnknown, DeleteOfStopped, DeleteLast
  <1>2. ASSUME NEW id \in Ids, ListenOnID(id)
        PROVE  Chain'
    <2> DEFINE n == Len(ids) + 1
    <2>1. /\ Len(requests') = Len(requests) + 2
          /\ \A i \in 1 .. Len(requests) : requests'[i] = requests[i]
          /\ requests'[Len(requests) + 1] = Request("statusExchange", n)
          /\ requests'[Len(requests) + 2] = Request("labelExchange", n)
          /\ n \notin Created
      BY <1>2, Listened
    <2>2. UNCHANGED <<statusQueue, stopped>>
      BY <1>2 DEF ListenOnID
    <2> HIDE DEF n
    <2>3. \A i \in 1 .. Len(requests) : requests[i].listener # n
      <3> SUFFICES ASSUME NEW i \in 1 .. Len(requests)
                   PROVE  requests[i].listener # n
        OBVIOUS
      <3>1. requests[i] \in Requests /\ Requested(requests[i])
        BY <1>0 DEF Requested
      <3> QED
        BY <1>0, <2>1, <3>1 DEF Numbered
    <2>4. \A i \in 1 .. Len(requests') :
            \/ i \in 1 .. Len(requests) /\ requests'[i] = requests[i]
            \/ /\ i = Len(requests) + 1 /\ requests'[i].op = "statusExchange"
               /\ requests'[i].listener = n
            \/ /\ i = Len(requests) + 2 /\ requests'[i].op = "labelExchange"
               /\ requests'[i].listener = n
      BY <1>0, <2>1 DEF Request
    <2>5. OneInChain'
      BY <1>0, <2>3, <2>4 DEF OneInChain, ChainOps
    <2>6. QueueUnknown'
      BY <1>0, <2>1, <2>2, <2>4 DEF QueueUnknown
    <2>7. DeleteOfStopped'
      BY <1>0, <2>2, <2>4 DEF DeleteOfStopped
    <2>8. DeleteLast'
      BY <1>0, <2>3, <2>4 DEF DeleteLast
    <2> QED
      BY <1>a, <2>5, <2>6, <2>7, <2>8 DEF Chain
  <1>3. ASSUME NEW id \in Ids, StopListeningOnID(id), listeners[id] \in statusQueue,
               requests' = Append(requests, Request("delete", listeners[id]))
        PROVE  Chain'
    <2>1. PICK l \in Created : l = listeners[id]
      BY <1>0, <1>3 DEF StopListeningOnID, Numbered
    <2>2. /\ stopped' = stopped \cup {l} /\ UNCHANGED statusQueue
          /\ l \in statusQueue /\ l \notin stopped
      BY <1>3, <2>1 DEF StopListeningOnID, Chain, ListenersLive, Working
    <2>3. \A i \in 1 .. Len(requests') :
            \/ i \in 1 .. Len(requests) /\ requests'[i] = requests[i]
            \/ /\ i = Len(requests) + 1 /\ requests'[i].op = "delete"
               /\ requests'[i].listener = l
      <3>1. /\ Len(requests') = Len(requests) + 1
            /\ \A i \in 1 .. Len(requests) : requests'[i] = requests[i]
            /\ requests'[Len(requests) + 1] = Request("delete", l)
        BY <1>3, <2>1, Deleted
      <3> QED
        BY <1>0, <3>1 DEF Request
    <2>4. \A i \in 1 .. Len(requests) :
            requests[i].listener = l => requests[i].op # "delete"
      BY <1>0, <2>2, LiveNotDeleted
    <2>5. OneInChain'
      BY <1>0, <2>3 DEF OneInChain, ChainOps
    <2>6. QueueUnknown'
      BY <1>0, <2>2, <2>3 DEF QueueUnknown
    <2>7. DeleteOfStopped'
      BY <1>0, <2>2, <2>3 DEF DeleteOfStopped
    <2>8. DeleteLast'
      BY <1>0, <2>3, <2>4 DEF DeleteLast
    <2> QED
      BY <1>a, <2>5, <2>6, <2>7, <2>8 DEF Chain
  <1>4. ASSUME NEW l \in Created,
               \/ OnExchangeDeclared(l) \/ OnLabelExchangeDeclared(l)
               \/ OnQueueDeclared(l) \/ OnQueueBind(l)
               \/ OnReplyWithoutCallback(l)
        PROVE  Chain'
    <2> DEFINE last == Len(requests)
    <2>1. /\ Len(requests) \in Nat \ {0} /\ Len(requests') \in Nat
          /\ Len(requests') \in {Len(requests) - 1, Len(requests)}
          /\ \A i \in 1 .. Len(requests) - 1 : requests'[i] = requests[i + 1]
          /\ requests[1].listener = l
      BY <1>4, Answered
    <2>2. \A i \in 1 .. Len(requests') :
            \/ /\ i \in 1 .. Len(requests) - 1 /\ i + 1 \in 2 .. Len(requests)
               /\ requests'[i] = requests[i + 1]
            \/ i = Len(requests) /\ Len(requests') = Len(requests)
      BY <2>1
    <2>3. UNCHANGED stopped
      BY <1>4, Callback
    <2>4. CASE Len(requests') = Len(requests) - 1 /\ UNCHANGED statusQueue
      <3>1. \A i \in 1 .. Len(requests') :
              i + 1 \in 1 .. Len(requests) /\ requests'[i] = requests[i + 1]
        BY <2>1, <2>4
      <3>2. \A i, j \in 1 .. Len(requests') :
              (i + 1 = j + 1 => i = j) /\ (j + 1 <= i + 1 => j <= i)
        OBVIOUS
      <3>3. OneInChain'
        BY <1>0, <3>1, <3>2 DEF OneInChain
      <3>4. QueueUnknown' /\ DeleteOfStopped'
        BY <1>0, <2>3, <2>4, <3>1 DEF QueueUnknown, DeleteOfStopped
      <3>5. DeleteLast'
        BY <1>0, <3>1, <3>2 DEF DeleteLast
      <3> QED
        BY <1>a, <3>3, <3>4, <3>5 DEF Chain
    <2>5. ASSUME NEW o \in {"queue", "bind", "consume", "delete"},
                 requests'[Len(requests)] = Request(o, l),
                 Len(requests') = Len(requests),
                 requests[1].op \in {"statusExchange", "queue", "bind"},
                 \A i \in 1 .. Len(requests) :
                   requests[i].listener = l => requests[i].op # "delete"
          PROVE  OneInChain' /\ DeleteLast'
      <3>1. \A i \in 2 .. Len(requests) :
              requests[i].op \in ChainOps => requests[i].listener # l
        BY <1>0, <2>1, <2>5 DEF OneInChain, ChainOps
      <3>2. \A i \in 1 .. Len(requests') :
              \/ i + 1 \in 2 .. Len(requests) /\ requests'[i] = requests[i + 1]
              \/ /\ i = Len(requests) /\ requests'[i].op = o
                 /\ requests'[i].listener = l
        BY <2>2, <2>5 DEF Request
      <3>3. \A i \in 2 .. Len(requests) : i \in 1 .. Len(requests)
        OBVIOUS
      <3>4. \A i, j \in 1 .. Len(requests') :
              (i + 1 = j + 1 => i = j) /\ (j + 1 <= i + 1 => j <= i)
        OBVIOUS
      <3>5. OneInChain'
        <4> SUFFICES ASSUME NEW i \in 1 .. Len(requests'),
                            NEW j \in 1 .. Len(requests'),
                            requests'[i].op \in ChainOps,
                            requests'[j].op \in ChainOps,
                            requests'[i].listener = requests'[j].listener
                     PROVE  i = j
          BY DEF OneInChain
        <4>1. CASE i = Len(requests) \/ j = Len(requests)
          BY SMTT(30), <3>1, <3>2, <4>1
        <4>2. CASE i # Len(requests) /\ j # Len(requests)
          <5>1. i + 1 = j + 1
            BY <1>0, <3>2, <3>3, <4>2 DEF OneInChain
          <5> QED
            BY <3>4, <5>1
        <4> QED
          BY <4>1, <4>2
      <3>6. DeleteLast'
        <4> SUFFICES ASSUME NEW i \in 1 .. Len(requests'),
                            NEW j \in 1 .. Len(requests'),
                            requests'[i].op = "delete",
                            requests'[j].listener = requests'[i].listener
                     PROVE  j <= i
          BY DEF DeleteLast
        <4>1. CASE i = Len(requests)
          BY <2>1, <2>5, <4>1
        <4>2. CASE i # Len(requests)
          <5>1. i + 1 \in 1 .. Len(requests) /\ requests'[i] = requests[i + 1]
            BY <3>2, <3>3, <4>2
          <5>2. requests'[i].listener # l
            BY <2>5, <5>1
          <5>3. j + 1 \in 1 .. Len(requests) /\ requests'[j] = requests[j + 1]
            BY <3>2, <3>3, <5>2
          <5>4. j + 1 <= i + 1
            BY <1>0, <5>1, <5>3 DEF DeleteLast
          <5> QED
            BY <3>4, <5>4
        <4> QED
          BY <4>1, <4>2
      <3> QED
        BY <3>5, <3>6
    <2>6. CASE /\ Len(requests') = Len(requests) /\ l \notin stopped
               /\ UNCHANGED statusQueue
               /\ \/ /\ requests[1].op = "statusExchange"
                     /\ requests'[Len(requests)] = Request("queue", l)
                  \/ /\ requests[1].op = "bind"
                     /\ requests'[Len(requests)] = Request("consume", l)
      <3>1. \A i \in 1 .. Len(requests) :
              requests[i].listener = l => requests[i].op # "delete"
        BY <1>0, <2>6, LiveNotDeleted
      <3>2. OneInChain' /\ DeleteLast'
        BY <2>5, <2>6, <3>1
      <3>3. requests[1].op = "statusExchange" => l \notin statusQueue
        BY <1>0, <2>1 DEF QueueUnknown
      <3>4. QueueUnknown'
        BY <1>0, <2>2, <2>6, <3>3 DEF QueueUnknown, Request
      <3>5. DeleteOfStopped'
        BY <1>0, <2>2, <2>3, <2>6 DEF DeleteOfStopped, Request
      <3> QED
        BY <1>a, <3>2, <3>4, <3>5 DEF Chain
    <2>7. CASE /\ Len(requests') = Len(requests) /\ requests[1].op = "queue"
               /\ statusQueue' = statusQueue \cup {l}
               /\ requests'[Len(requests)]
                    = Request(IF l \in stopped THEN "delete" ELSE "bind", l)
      <3>1. l \notin statusQueue
        BY <1>0, <2>1, <2>7 DEF QueueUnknown
      <3>2. \A i \in 1 .. Len(requests) :
              requests[i].listener = l => requests[i].op # "delete"
        BY <1>0, <3>1 DEF DeleteOfStopped
      <3>3. OneInChain' /\ DeleteLast'
        <4>1. CASE l \in stopped
          <5>1. requests'[Len(requests)] = Request("delete", l)
            BY <2>7, <4>1
          <5> QED
            BY <2>5, <2>7, <3>2, <5>1
        <4>2. CASE l \notin stopped
          <5>1. requests'[Len(requests)] = Request("bind", l)
            BY <2>7, <4>2
          <5> QED
            BY <2>5, <2>7, <3>2, <5>1
        <4> QED
          BY <4>1, <4>2
      <3>4. \A i \in 2 .. Len(requests) :
              requests[i].op \in ChainOps => requests[i].listener # l
        BY <1>0, <2>1, <2>7 DEF OneInChain, ChainOps
      <3>5. QueueUnknown'
        <4> SUFFICES ASSUME NEW i \in 1 .. Len(requests'),
                            requests'[i].op \in {"statusExchange", "queue"}
                     PROVE  requests'[i].listener \notin statusQueue'
          BY DEF QueueUnknown
        <4>1. i # Len(requests)
          BY <2>7 DEF Request
        <4>2. i + 1 \in 2 .. Len(requests) /\ requests'[i] = requests[i + 1]
                /\ i + 1 \in 1 .. Len(requests)
          BY <2>2, <4>1
        <4>3. requests'[i].listener # l
          BY <3>4, <4>2 DEF ChainOps
        <4> QED
          BY <1>0, <2>7, <4>2, <4>3 DEF QueueUnknown
      <3>6. DeleteOfStopped'
        <4> SUFFICES ASSUME NEW i \in 1 .. Len(requests'),
                            requests'[i].op = "delete"
                     PROVE  requests'[i].listener \in stopped' \cap statusQueue'
          BY DEF DeleteOfStopped
        <4>1. CASE i = Len(requests)
          BY <2>3, <2>7, <4>1 DEF Request
        <4>2. CASE i # Len(requests)
          <5>1. i + 1 \in 1 .. Len(requests) /\ requests'[i] = requests[i + 1]
            BY <2>2, <4>2
          <5> QED
            BY <1>0, <2>3, <2>7, <5>1 DEF DeleteOfStopped
        <4> QED
          BY <4>1, <4>2
      <3> QED
        BY <1>a, <3>3, <3>5, <3>6 DEF Chain
    <2> QED
      BY <1>4, <2>4, <2>6, <2>7, Callback
  <1> QED
    BY <1>1, <1>2, <1>3, <1>4, Sends

\* The ways in which a step changes what Chain and Broker speak about, while the
\* connection lasts.
LEMMA WorkingStep ==
  ASSUME [Next]_vars, Working'
  PROVE  /\ Working
         /\ \/ UNCHANGED <<requests, answered, statusQueue, stopped, queues>>
            \/ \E id \in Ids : ListenOnID(id) \/ StopListeningOnID(id)
            \/ BrokerPerforms
            \/ \E l \in Created :
                 \/ OnExchangeDeclared(l) \/ OnLabelExchangeDeclared(l)
                 \/ OnQueueDeclared(l) \/ OnQueueBind(l)
                 \/ OnReplyWithoutCallback(l)
  BY DEF Next, Connection, Command, Receive, ConnectFails, LostBeforeOpen,
     OnConnectionOpen, OnChannelOpen, OnChannelClosed, OnConnectionClosed, Close,
     ListenOnID, StopListeningOnID, StopListeningWhileClosing, ProvideLabel,
     RefuseLabel, PublishLabel, BrokerPerforms, BrokerDelivers, StationPublishes,
     OnExchangeDeclared, OnLabelExchangeDeclared, OnQueueDeclared, OnQueueBind,
     OnReplyWithoutCallback, SendDataToCallback, Terminated, Working, Replied,
     serverVars, listenerVars, channelVars, brokerVars, vars

LEMMA ListenBroker ==
  ASSUME Typed, Broker, Working, NEW id \in Ids, ListenOnID(id)
  PROVE  Broker'
  <1> DEFINE n == Len(ids) + 1
  <1>1. /\ Len(requests') = Len(requests) + 2 /\ Len(requests) \in Nat
        /\ \A i \in 1 .. Len(requests) : requests'[i] = requests[i]
        /\ requests'[Len(requests) + 1].op = "statusExchange"
        /\ requests'[Len(requests) + 2].op = "labelExchange"
    BY Listened DEF Request
  <1>2. UNCHANGED <<link, answered, statusQueue, stopped, queues>>
    BY DEF ListenOnID, brokerVars
  <1>3. answered => 1 \in 1 .. Len(requests)
    BY <1>1 DEF Typed, TypeOK
  <1>4. \A i \in 1 .. Len(requests') :
          \/ i \in 1 .. Len(requests) /\ requests'[i] = requests[i]
          \/ requests'[i].op \in {"statusExchange", "labelExchange"}
    BY <1>1
  <1>5. \A i \in 1 .. Len(requests) :
          i \in 1 .. Len(requests') /\ requests'[i] = requests[i]
    BY <1>1
  <1>6. UsedExists'
    <2> SUFFICES ASSUME NEW i \in 1 .. Len(requests'),
                        \/ requests'[i].op \in {"bind", "consume"}
                        \/ requests'[i].op = "delete" /\ ~ (i = 1 /\ answered)
                        \/ requests'[i].op = "queue" /\ i = 1 /\ answered
                 PROVE  requests'[i].listener \in queues
      BY <1>2 DEF UsedExists
    <2>1. i \in 1 .. Len(requests) /\ requests'[i] = requests[i]
      BY <1>4
    <2> QED
      BY <2>1 DEF UsedExists, Broker
  <1>7. KnownExists' /\ UnknownDeclared' /\ DeletedGone'
    BY <1>2, <1>3, <1>5 DEF Broker, KnownExists, UnknownDeclared, DeletedGone
  <1>8. WayOut'
    BY <1>2, <1>3, <1>5 DEF Broker, WayOut
  <1> QED
    BY <1>6, <1>7, <1>8 DEF Broker

LEMMA StopBroker ==
  ASSUME Typed, Chain, Broker, Working, NEW id \in Ids, StopListeningOnID(id)
  PROVE  Broker'
  <1>1. PICK l \in Created : l = listeners[id]
    BY DEF StopListeningOnID, Typed, Numbered
  <1>2. /\ UNCHANGED <<link, answered, statusQueue, queues>>
        /\ stopped' = stopped \cup {l}
        /\ requests' = IF l \in statusQueue
                       THEN Append(requests, Request("delete", l))
                       ELSE requests
    BY <1>1 DEF StopListeningOnID, brokerVars
  <1>3. l \notin stopped
    BY <1>1 DEF StopListeningOnID, Chain, ListenersLive
  <1>4. Len(requests) \in Nat /\ (answered => 1 \in 1 .. Len(requests))
    BY DEF Typed, TypeOK
  <1>5. CASE l \in statusQueue
    <2>1. l \in queues
      BY <1>3, <1>5 DEF Broker, KnownExists
    <2>2. /\ Len(requests') = Len(requests) + 1
          /\ \A i \in 1 .. Len(requests) : requests'[i] = requests[i]
          /\ requests'[Len(requests) + 1] = Request("delete", l)
      BY <1>2, <1>5, Deleted
    <2>3. \A i \in 1 .. Len(requests') :
            \/ i \in 1 .. Len(requests) /\ requests'[i] = requests[i]
            \/ requests'[i].op = "delete" /\ requests'[i].listener = l
      BY <1>4, <2>2 DEF Request
    <2>4. /\ \A i \in 1 .. Len(requests) :
               i \in 1 .. Len(requests') /\ requests'[i] = requests[i]
          /\ Len(requests) + 1 \in 1 .. Len(requests')
      BY <1>4, <2>2
    <2>5. UsedExists'
      <3> SUFFICES ASSUME NEW i \in 1 .. Len(requests'),
                          \/ requests'[i].op \in {"bind", "consume"}
                          \/ requests'[i].op = "delete" /\ ~ (i = 1 /\ answered)
                          \/ requests'[i].op = "queue" /\ i = 1 /\ answered
                   PROVE  requests'[i].listener \in queues
        BY <1>2 DEF UsedExists
      <3>1. CASE i \in 1 .. Len(requests) /\ requests'[i] = requests[i]
        BY <3>1 DEF UsedExists, Broker
      <3> QED
        BY <2>1, <2>3, <3>1
    <2>6. KnownExists' /\ UnknownDeclared' /\ DeletedGone'
      BY <1>2, <1>4, <2>4 DEF Broker, KnownExists, UnknownDeclared, DeletedGone
    <2>7. WayOut'
      <3> SUFFICES ASSUME NEW x \in stopped' \cap queues
                   PROVE  \/ \E i \in 1 .. Len(requests') :
                                requests'[i] = Request("delete", x)
                          \/ answered /\ requests'[1] = Request("queue", x)
        BY <1>2 DEF WayOut
      <3>1. CASE x = l
        BY <2>2, <2>4, <3>1
      <3>2. CASE x # l
        <4>1. x \in stopped \cap queues
          BY <1>2, <3>2
        <4> QED
          BY <1>4, <2>4, <4>1 DEF Broker, WayOut
      <3> QED
        BY <3>1, <3>2
    <2> QED
      BY <2>5, <2>6, <2>7 DEF Broker
  <1>6. CASE l \notin statusQueue
    <2>1. UNCHANGED requests
      BY <1>2, <1>6
    <2>2. UsedExists' /\ KnownExists' /\ UnknownDeclared' /\ DeletedGone'
      BY <1>2, <2>1
      DEF Broker, UsedExists, KnownExists, UnknownDeclared, DeletedGone
    <2>3. WayOut'
      BY <1>2, <1>6, <2>1 DEF Broker, UnknownDeclared, WayOut
    <2> QED
      BY <2>2, <2>3 DEF Broker
  <1> QED
    BY <1>5, <1>6

LEMMA PerformBroker ==
  ASSUME Typed, Chain, Broker, Working, BrokerPerforms
  PROVE  Broker'
  <1>1. /\ requests \in Seq(Requests) /\ Len(requests) \in Nat \ {0}
        /\ ~ answered /\ answered'
        /\ UNCHANGED <<link, requests, statusQueue, stopped>>
        /\ Head(requests) = requests[1] /\ 1 \in 1 .. Len(requests)
    <2>1. requests \in Seq(Requests) /\ requests # <<>>
      BY DEF Typed, TypeOK, BrokerPerforms
    <2>2. answered' /\ ~ answered
      BY Zenon DEF BrokerPerforms
    <2>3. UNCHANGED <<link, requests, statusQueue, stopped>>
      BY DEF BrokerPerforms, serverVars, listenerVars
    <2> QED
      BY <2>1, <2>2, <2>3
  <1>2. PICK op \in Ops, h \in ListenerNumbers :
          requests[1] = Request(op, h)
    <2>1. requests[1] \in Requests
      BY <1>1
    <2>2. requests[1] = Request(requests[1].op, requests[1].listener)
      BY <2>1 DEF Requests, Request
    <2>3. requests[1].op \in Ops /\ requests[1].listener \in ListenerNumbers
      BY <2>1 DEF Requests
    <2> QED
      BY <2>2, <2>3
  <1>3. queues' = CASE op = "queue"  -> queues \cup {h}
                    [] op = "delete" -> queues \ {h}
                    [] OTHER         -> queues
    <2>1. Head(requests).op = op /\ Head(requests).listener = h
      BY <1>1, <1>2 DEF Request
    <2> QED
      BY <2>1 DEF BrokerPerforms
  <1>4. requests[1].op = op /\ requests[1].listener = h
    BY <1>2 DEF Request
  <1>5. queues \subseteq statusQueue
    BY <1>1 DEF Broker, UnknownDeclared
  <1>6. CASE op = "queue"
    <2>1. queues' = queues \cup {h}
      BY <1>3, <1>6
    <2>2. UsedExists'
      BY <1>1, <1>4, <2>1 DEF Broker, UsedExists
    <2>3. KnownExists' /\ UnknownDeclared' /\ DeletedGone'
      BY <1>1, <1>2, <1>4, <1>5, <1>6, <2>1
      DEF Broker, KnownExists, UnknownDeclared, DeletedGone
    <2>4. WayOut'
      BY <1>1, <1>2, <1>6, <2>1 DEF Broker, WayOut
    <2> QED
      BY <2>2, <2>3, <2>4 DEF Broker
  <1>7. CASE op = "delete"
    <2>1. queues' = queues \ {h}
      BY <1>3, <1>7
    <2>2. UsedExists'
      <3> SUFFICES ASSUME NEW i \in 1 .. Len(requests),
                          \/ requests[i].op \in {"bind", "consume"}
                          \/ requests[i].op = "delete" /\ i # 1
                          \/ requests[i].op = "queue" /\ i = 1
                   PROVE  requests[i].listener \in queues'
        BY <1>1 DEF UsedExists
      <3>1. i # 1 /\ requests[i].op \in {"bind", "consume", "delete"}
        BY <1>4, <1>7
      <3>2. requests[i].listener # h
        BY <1>1, <1>4, <1>7, <3>1 DEF Chain, DeleteLast
      <3>3. requests[i].listener \in queues
        BY <3>1 DEF Broker, UsedExists
      <3> QED
        BY <2>1, <3>2, <3>3
    <2>3. KnownExists'
      BY <1>1, <1>4, <1>7, <2>1
      DEF Broker, KnownExists, Chain, DeleteOfStopped
    <2>4. UnknownDeclared' /\ DeletedGone'
      BY <1>1, <1>4, <1>5, <2>1 DEF UnknownDeclared, DeletedGone
    <2>5. WayOut'
      BY <1>1, <2>1 DEF Broker, WayOut
    <2> QED
      BY <2>2, <2>3, <2>4, <2>5 DEF Broker
  <1>8. CASE op \notin {"queue", "delete"}
    <2>1. UNCHANGED queues
      BY <1>3, <1>8
    <2>2. UsedExists'
      BY <1>1, <1>4, <1>8, <2>1 DEF Broker, UsedExists
    <2>3. KnownExists' /\ UnknownDeclared' /\ DeletedGone'
      BY <1>1, <1>4, <1>5, <1>8, <2>1
      DEF Broker, KnownExists, UnknownDeclared, DeletedGone
    <2>4. WayOut'
      BY <1>1, <2>1 DEF Broker, WayOut
    <2> QED
      BY <2>2, <2>3, <2>4 DEF Broker
  <1> QED
    BY <1>6, <1>7, <1>8

LEMMA CallbackBroker ==
  ASSUME Typed, Chain, Broker, Working, NEW l \in Created,
         \/ OnExchangeDeclared(l) \/ OnLabelExchangeDeclared(l)
         \/ OnQueueDeclared(l) \/ OnQueueBind(l) \/ OnReplyWithoutCallback(l)
  PROVE  Broker'
  <1>1. /\ Len(requests) \in Nat \ {0} /\ Len(requests') \in Nat
        /\ Len(requests') \in {Len(requests) - 1, Len(requests)}
        /\ \A i \in 1 .. Len(requests) - 1 : requests'[i] = requests[i + 1]
    BY Answered
  <1>2. /\ answered /\ answered' = FALSE
        /\ UNCHANGED <<link, stopped, queues>>
        /\ requests[1].listener = l
    BY Callback
  <1>3. \A i \in 1 .. Len(requests') :
          \/ i + 1 \in 1 .. Len(requests) /\ i + 1 # 1
             /\ requests'[i] = requests[i + 1]
          \/ i = Len(requests) /\ Len(requests') = Len(requests)
    BY <1>1
  <1>4. \A i \in 1 .. Len(requests) :
          \/ i = 1
          \/ i - 1 \in 1 .. Len(requests') /\ requests'[i - 1] = requests[i]
    <2> SUFFICES ASSUME NEW i \in 1 .. Len(requests), i # 1
                 PROVE  i - 1 \in 1 .. Len(requests')
                        /\ requests'[i - 1] = requests[i]
      OBVIOUS
    <2>1. i - 1 \in 1 .. Len(requests) - 1 /\ (i - 1) + 1 = i
      BY <1>1
    <2> QED
      BY <1>1, <2>1
  <1>5. 1 \in 1 .. Len(requests)
    BY <1>1
  <1>6. requests[1].op \in {"queue", "bind", "consume"} => l \in queues
    BY <1>2, <1>5 DEF Broker, UsedExists
  <1>7. ASSUME Len(requests') = Len(requests)
        PROVE  LET r == requests'[Len(requests)]
               IN  \/ r.op = "queue"
                   \/ r.listener = l /\ l \in queues
    <2>1. Len(requests') # Len(requests) - 1
      BY <1>1, <1>7
    <2>2. \/ requests'[Len(requests)] = Request("queue", l)
          \/ /\ requests'[Len(requests)] = Request("consume", l)
             /\ requests[1].op = "bind"
          \/ /\ requests'[Len(requests)]
                  = Request(IF l \in stopped THEN "delete" ELSE "bind", l)
             /\ requests[1].op = "queue"
      BY <2>1, Callback, Zenon
    <2> QED
      BY <1>6, <2>2 DEF Request
  <1>8. UsedExists'
    <2> SUFFICES ASSUME NEW i \in 1 .. Len(requests'),
                        requests'[i].op \in {"bind", "consume", "delete"}
                 PROVE  requests'[i].listener \in queues
      BY <1>2 DEF UsedExists
    <2>1. CASE i + 1 \in 1 .. Len(requests) /\ i + 1 # 1
               /\ requests'[i] = requests[i + 1]
      BY <2>1 DEF Broker, UsedExists
    <2>2. CASE i = Len(requests) /\ Len(requests') = Len(requests)
      BY <1>7, <2>2
    <2> QED
      BY <1>3, <2>1, <2>2
  <1>9. \/ requests[1].op # "queue" /\ UNCHANGED statusQueue
        \/ /\ requests[1].op = "queue" /\ Len(requests') = Len(requests)
           /\ statusQueue' = statusQueue \cup {l}
           /\ requests'[Len(requests)]
                = Request(IF l \in stopped THEN "delete" ELSE "bind", l)
    BY Callback
  <1>10. KnownExists'
    BY <1>2, <1>6, <1>9 DEF Broker, KnownExists
  <1>11. UnknownDeclared' /\ DeletedGone'
    BY <1>2, <1>9 DEF Broker, UnknownDeclared, DeletedGone, Request
  <1>12. WayOut'
    <2> SUFFICES ASSUME NEW x \in stopped \cap queues
                 PROVE  \E i \in 1 .. Len(requests') :
                          requests'[i] = Request("delete", x)
      BY <1>2 DEF WayOut
    <2>1. CASE \E i \in 1 .. Len(requests) : requests[i] = Request("delete", x)
      <3>1. PICK i \in 1 .. Len(requests) : requests[i] = Request("delete", x)
        BY <2>1
      <3>2. i # 1
        BY <1>2, <3>1 DEF Broker, DeletedGone, Request
      <3> QED
        BY <1>4, <3>1, <3>2
    <2>2. CASE requests[1] = Request("queue", x)
      <3>1. x = l /\ requests[1].op = "queue"
        BY <1>2, <2>2 DEF Request
      <3>2. Len(requests) \in 1 .. Len(requests')
        BY <1>1, <1>9, <3>1
      <3> QED
        BY <1>9, <3>1, <3>2
    <2> QED
      BY <2>1, <2>2 DEF Broker, WayOut
  <1> QED
    BY <1>8, <1>10, <1>11, <1>12 DEF Broker

LEMMA NextBroker == Typed /\ Chain /\ Broker /\ [Next]_vars => Broker'
  <1> SUFFICES ASSUME Typed, Chain, Broker, [Next]_vars
               PROVE  Broker'
    OBVIOUS
  <1>1. CASE ~ Working'
    BY <1>1 DEF Broker, UsedExists, KnownExists, UnknownDeclared, DeletedGone,
                WayOut
  <1>2. CASE Working'
    <2>1. Working
      BY <1>2, WorkingStep
    <2>2. CASE UNCHANGED <<requests, answered, statusQueue, stopped, queues>>
      BY <2>1, <2>2
      DEF Broker, UsedExists, KnownExists, UnknownDeclared, DeletedGone, WayOut
    <2> QED
      BY <1>2, <2>1, <2>2, WorkingStep, ListenBroker, StopBroker, PerformBroker,
         CallbackBroker
  <1> QED
    BY <1>1, <1>2

LEMMA InitChain == Init => Chain /\ Broker
  <1> SUFFICES ASSUME Init
               PROVE  Chain /\ Broker
    OBVIOUS
  <1>1. requests = <<>> /\ Len(requests) = 0 /\ queues = {} /\ stopped = {}
        /\ statusQueue = {} /\ ~ answered
    BY DEF Init
  <1>2. Chain
    BY <1>1 DEF Chain, OneInChain, QueueUnknown, DeleteOfStopped, DeleteLast,
                ListenersLive
  <1>3. Broker
    BY <1>1 DEF Broker, UsedExists, KnownExists, UnknownDeclared, DeletedGone,
                WayOut
  <1> QED
    BY <1>2, <1>3

LEMMA ChainInductive == Safety => [](Typed /\ Chain /\ Broker)
  BY InitChain, NextChain, NextBroker, TypedInductive, PTL DEF Safety

\* A queue is bound, consumed from or deleted only while it exists, wherever in
\* its chain of declarations a listener is stopped: the request for it was sent
\* after the reply that told its name, and nothing follows its deletion.
THEOREM QueueUsedWhileThere == Safety => []QueueThereWhenUsed
  <1>1. Typed /\ Broker => QueueThereWhenUsed
    <2> SUFFICES ASSUME Typed, Broker, link = "ready", requests # <<>>,
                        ~ answered,
                        Head(requests).op \in {"bind", "consume", "delete"}
                 PROVE  Head(requests).listener \in queues
      BY DEF QueueThereWhenUsed
    <2>1. Head(requests) = requests[1] /\ 1 \in 1 .. Len(requests)
      BY DEF Typed, TypeOK
    <2> QED
      BY <2>1 DEF Broker, UsedExists, Working
  <1> QED
    BY <1>1, ChainInductive, PTL

\* The queue of a stopped listener is on its way out: the stop sent its deletion,
\* or the reply that makes _onQueueDeclared send it is still to come.
THEOREM StoppedQueueLeaves == Safety => []StoppedQueueOnItsWayOut
  <1>1. Typed /\ Broker => StoppedQueueOnItsWayOut
    <2>1. ASSUME Typed, answered
          PROVE  Head(requests) = requests[1]
      BY <2>1 DEF Typed, TypeOK
    <2> QED
      BY <2>1 DEF Broker, WayOut, StoppedQueueOnItsWayOut, Working
  <1> QED
    BY <1>1, ChainInductive, PTL

-------------------------------------------------------------------------------
(* The order of the messages *)

Increasing(s) == \A i, j \in 1 .. Len(s) : i < j => s[i] < s[j]
Delivered(i, l) == frames[i].kind = "deliver" /\ frames[i].listener = l

\* A queue holds messages in the order of their publication, and none before
\* its listener exists.
QueuesInOrder ==
  \A l \in ListenerNumbers :
    /\ Increasing(contents[l])
    /\ \A k \in 1 .. Len(contents[l]) : contents[l][k] <= published
    /\ l \notin Created => contents[l] = <<>>

\* What is on its way to a listener is in this order too, and older than what
\* is still in its queue.
FramesInOrder ==
  \A l \in Created : \A i \in 1 .. Len(frames) : Delivered(i, l) =>
    /\ frames[i].message <= published
    /\ \A j \in 1 .. Len(frames) :
         i < j /\ Delivered(j, l) => frames[i].message < frames[j].message
    /\ \A k \in 1 .. Len(contents[l]) : frames[i].message < contents[l][k]

\* What was reported of an id is older than all that the listener of this id,
\* who may be the second one, has yet to receive.
HandledFirst ==
  \A l \in Created \ stopped : \A h \in 1 .. Len(handled[ids[l]]) :
    /\ \A i \in 1 .. Len(frames) :
         Delivered(i, l) => handled[ids[l]][h] < frames[i].message
    /\ \A k \in 1 .. Len(contents[l]) : handled[ids[l]][h] < contents[l][k]

HandledPublished ==
  \A id \in Ids : \A h \in 1 .. Len(handled[id]) : handled[id][h] <= published

InOrder ==
  QueuesInOrder /\ FramesInOrder /\ HandledFirst /\ HandledPublished
    /\ HandledInPublishOrder

\* The types of messages, wherever they are.
LEMMA MessagesTyped ==
  ASSUME TypeOK
  PROVE  /\ \A l \in ListenerNumbers : /\ contents[l] \in Seq(Nat)
                                       /\ Len(contents[l]) \in Nat
         /\ \A id \in Ids : handled[id] \in Seq(Nat) /\ Len(handled[id]) \in Nat
         /\ \A i \in 1 .. Len(frames) :
              frames[i].kind = "deliver" => frames[i].message \in Nat
         /\ \A i \in 1 .. Len(frames) :
              frames[i] = Reply \/ frames[i] \in Deliveries
         /\ frames \in Seq({Reply} \cup Deliveries) /\ Len(frames) \in Nat
         /\ published \in Nat
  <1>1. 1 .. MaxMessages \subseteq Nat
    BY BoundsAssumption
  <1>2. \A l \in ListenerNumbers : contents[l] \in Seq(1 .. MaxMessages)
    BY DEF TypeOK
  <1>3. \A id \in Ids : handled[id] \in Seq(1 .. MaxMessages)
    BY DEF TypeOK
  <1>4. frames \in Seq({Reply} \cup Deliveries) /\ Len(frames) \in Nat
    BY DEF TypeOK
  <1>5. \A i \in 1 .. Len(frames) : frames[i] = Reply \/ frames[i] \in Deliveries
    BY <1>4
  <1>6. \A i \in 1 .. Len(frames) :
          frames[i].kind = "deliver" => frames[i].message \in Nat
    <2>1. Reply.kind # "deliver"
      BY DEF Reply
    <2>2. \A d \in Deliveries : d.message \in Nat
      BY <1>1 DEF Deliveries
    <2> QED
      BY <1>5, <2>1, <2>2
  <1>7. ASSUME NEW s \in Seq(1 .. MaxMessages)
        PROVE  s \in Seq(Nat) /\ Len(s) \in Nat
    BY <1>1, SeqMonotonic, LenProperties
  <1>8. published \in Nat
    BY BoundsAssumption DEF TypeOK
  <1> QED
    BY <1>2, <1>3, <1>4, <1>5, <1>6, <1>7, <1>8

LEMMA InitInOrder == Init => InOrder
  <1> SUFFICES ASSUME Init PROVE InOrder
    OBVIOUS
  <1>1. Created = {} /\ Len(frames) = 0
    BY DEF Init, Created
  <1>2. \A l \in ListenerNumbers : contents[l] = <<>>
    BY DEF Init, ListenerNumbers
  <1>3. \A id \in Ids : handled[id] = <<>>
    BY DEF Init
  <1> QED
    BY <1>1, <1>2, <1>3 DEF InOrder, QueuesInOrder, FramesInOrder, HandledFirst,
       HandledPublished, HandledInPublishOrder, Increasing

\* The first frame may be taken and a reply added, and queues may be emptied: what
\* is left on its way stays in order.
LEMMA FramesLeft ==
  ASSUME Typed, TypeOK', InOrder, NEW k \in {0, 1}, UNCHANGED <<ids, published>>,
         \A l \in ListenerNumbers : contents'[l] \in {contents[l], <<>>},
         \A i \in 1 .. Len(frames') :
           \/ frames'[i] = Reply
           \/ i + k \in 1 .. Len(frames) /\ frames'[i] = frames[i + k]
  PROVE  /\ \A l \in Created : \A i \in 1 .. Len(frames') : Delivered(i, l)' =>
              /\ i + k \in 1 .. Len(frames) /\ Delivered(i + k, l)
              /\ frames'[i] = frames[i + k]
         /\ Created' = Created
         /\ QueuesInOrder' /\ FramesInOrder'
  <1> USE DEF Typed
  <1>1. Created' = Created /\ Created \subseteq ListenerNumbers
          /\ \A l \in Created : ids[l] \in Ids
    BY CreatedTyped DEF Created
  <1>2. QueuesInOrder'
    BY <1>1 DEF InOrder, QueuesInOrder, Increasing
  <1>4. ASSUME NEW l \in Created, NEW i \in 1 .. Len(frames'), Delivered(i, l)'
        PROVE  /\ i + k \in 1 .. Len(frames) /\ Delivered(i + k, l)
               /\ frames'[i] = frames[i + k]
    BY <1>4 DEF Delivered, Reply
  <1>5. FramesInOrder'
    <2> SUFFICES ASSUME NEW l \in Created, NEW i \in 1 .. Len(frames'),
                        Delivered(i, l)'
                 PROVE  /\ frames'[i].message <= published
                        /\ \A j \in 1 .. Len(frames') : i < j /\ Delivered(j, l)' =>
                             frames'[i].message < frames'[j].message
                        /\ \A m \in 1 .. Len(contents'[l]) :
                             frames'[i].message < contents'[l][m]
      BY <1>1 DEF FramesInOrder
    <2>1. /\ i + k \in 1 .. Len(frames) /\ Delivered(i + k, l)
          /\ frames'[i] = frames[i + k]
      BY <1>4
    <2>2. frames'[i].message <= published
      BY <2>1 DEF InOrder, FramesInOrder
    <2>3. ASSUME NEW j \in 1 .. Len(frames'), i < j, Delivered(j, l)'
          PROVE  frames'[i].message < frames'[j].message
      <3>1. /\ j + k \in 1 .. Len(frames) /\ Delivered(j + k, l)
            /\ frames'[j] = frames[j + k]
        BY <1>4, <2>3
      <3>2. i + k < j + k
        BY <2>3
      <3> QED
        BY <2>1, <3>1, <3>2 DEF InOrder, FramesInOrder
    <2>4. ASSUME NEW m \in 1 .. Len(contents'[l])
          PROVE  frames'[i].message < contents'[l][m]
      <3>1. contents'[l] = contents[l]
        BY <1>1, <2>4
      <3> QED
        BY <2>1, <2>4, <3>1 DEF InOrder, FramesInOrder
    <2> QED
      BY <2>2, <2>3, <2>4
  <1> QED
    BY <1>1, <1>2, <1>4, <1>5

\* Steps that neither publish, deliver nor report.
LEMMA NothingMoved ==
  ASSUME Typed, TypeOK', InOrder, NEW k \in {0, 1},
         UNCHANGED <<ids, published, handled>>, stopped \subseteq stopped',
         \A l \in ListenerNumbers : contents'[l] \in {contents[l], <<>>},
         \A i \in 1 .. Len(frames') :
           \/ frames'[i] = Reply
           \/ i + k \in 1 .. Len(frames) /\ frames'[i] = frames[i + k]
  PROVE  InOrder'
  <1> USE DEF Typed
  <1>1. Created' = Created /\ Created \subseteq ListenerNumbers
          /\ \A l \in Created : ids[l] \in Ids
    BY CreatedTyped DEF Created
  <1>3. HandledPublished' /\ HandledInPublishOrder'
    BY DEF InOrder, HandledPublished, HandledInPublishOrder
  <1>4. ASSUME NEW l \in Created, NEW i \in 1 .. Len(frames'), Delivered(i, l)'
        PROVE  /\ i + k \in 1 .. Len(frames) /\ Delivered(i + k, l)
               /\ frames'[i] = frames[i + k]
    BY <1>4, FramesLeft
  <1>6. HandledFirst'
    <2> SUFFICES ASSUME NEW l \in Created \ stopped,
                        NEW h \in 1 .. Len(handled[ids[l]])
                 PROVE  /\ \A i \in 1 .. Len(frames') : Delivered(i, l)' =>
                             handled[ids[l]][h] < frames'[i].message
                        /\ \A m \in 1 .. Len(contents'[l]) :
                             handled[ids[l]][h] < contents'[l][m]
      BY <1>1 DEF HandledFirst
    <2>1. ASSUME NEW i \in 1 .. Len(frames'), Delivered(i, l)'
          PROVE  handled[ids[l]][h] < frames'[i].message
      BY <1>4, <2>1 DEF InOrder, HandledFirst
    <2>2. ASSUME NEW m \in 1 .. Len(contents'[l])
          PROVE  handled[ids[l]][h] < contents'[l][m]
      <3>1. contents'[l] = contents[l]
        BY <1>1, <2>2
      <3> QED
        BY <2>2, <3>1 DEF InOrder, HandledFirst
    <2> QED
      BY <2>1, <2>2
  <1> QED
    BY <1>3, <1>6, FramesLeft DEF InOrder

\* One more message at the end of a queue, younger than all in it.
LEMMA IncreasingAppended ==
  ASSUME NEW s \in Seq(Nat), Increasing(s), NEW n \in Nat,
         \A k \in 1 .. Len(s) : s[k] < n
  PROVE  /\ Append(s, n) \in Seq(Nat) /\ Len(Append(s, n)) = Len(s) + 1
         /\ Increasing(Append(s, n))
         /\ \A k \in 1 .. Len(s) + 1 :
              Append(s, n)[k] = IF k = Len(s) + 1 THEN n ELSE s[k]
  <1>1. /\ Append(s, n) \in Seq(Nat) /\ Len(Append(s, n)) = Len(s) + 1
        /\ Len(s) \in Nat
        /\ \A k \in 1 .. Len(s) + 1 :
             Append(s, n)[k] = IF k = Len(s) + 1 THEN n ELSE s[k]
    OBVIOUS
  <1>2. ASSUME NEW i \in 1 .. Len(s) + 1, NEW j \in 1 .. Len(s) + 1, i < j
        PROVE  Append(s, n)[i] < Append(s, n)[j]
    <2>1. i \in 1 .. Len(s) /\ Append(s, n)[i] = s[i]
      BY <1>1, <1>2
    <2>2. CASE j = Len(s) + 1
      BY <1>1, <2>1, <2>2
    <2>3. CASE j # Len(s) + 1
      <3>1. j \in 1 .. Len(s)
        BY <1>1, <2>3
      <3> QED
        BY <1>1, <1>2, <2>1, <3>1 DEF Increasing
    <2> QED
      BY <2>2, <2>3
  <1> QED
    BY <1>1, <1>2 DEF Increasing

LEMMA PublishInOrder ==
  ASSUME Typed, InOrder, NEW id \in Ids, StationPublishes(id)
  PROVE  InOrder'
  <1> USE DEF Typed
  <1> DEFINE n == published + 1
  <1>1. /\ published' = n /\ UNCHANGED <<ids, stopped, frames, handled>>
        /\ published \in Nat
    BY MessagesTyped DEF StationPublishes, listenerVars, channelVars
  <1>2. Created' = Created /\ Created \subseteq ListenerNumbers
          /\ bound \subseteq Created /\ \A l \in Created : ids[l] \in Ids
    BY <1>1, CreatedTyped DEF Created, TypeOK
  <1>3. ASSUME NEW l \in ListenerNumbers
        PROVE  /\ contents'[l] = contents[l] \/
                    (l \in Created /\ contents'[l] = Append(contents[l], n))
               /\ contents[l] \in Seq(Nat) /\ Increasing(contents[l])
               /\ \A k \in 1 .. Len(contents[l]) : contents[l][k] < n
    <2>1. contents[l] \in Seq(Nat)
      BY MessagesTyped
    <2>2. contents'[l] = IF l \in bound /\ ids[l] = id
                           THEN Append(contents[l], n) ELSE contents[l]
      BY DEF StationPublishes, ListenerNumbers
    <2>3. \A k \in 1 .. Len(contents[l]) :
            contents[l][k] \in Nat /\ contents[l][k] <= published
      BY <2>1 DEF InOrder, QueuesInOrder
    <2>4. \A k \in 1 .. Len(contents[l]) : contents[l][k] < n
      <3>1. \A x \in Nat : x <= published => x < n
        BY <1>1
      <3> QED
        BY <2>3, <3>1
    <2>5. Increasing(contents[l])
      BY DEF InOrder, QueuesInOrder
    <2> HIDE DEF n
    <2> QED
      BY <1>2, <2>1, <2>2, <2>4, <2>5
  <1>5. n \in Nat /\ published < n
    BY <1>1
  <1> HIDE DEF n
  <1>4. ASSUME NEW l \in ListenerNumbers, NEW k \in 1 .. Len(contents'[l])
        PROVE  \/ k \in 1 .. Len(contents[l]) /\ contents'[l][k] = contents[l][k]
               \/ contents'[l][k] = n
    <2>1. CASE contents'[l] = contents[l]
      BY <2>1
    <2>2. CASE contents'[l] = Append(contents[l], n)
      <3>1. /\ Len(contents'[l]) = Len(contents[l]) + 1 /\ Len(contents[l]) \in Nat
            /\ contents'[l][k] =
                 IF k = Len(contents[l]) + 1 THEN n ELSE contents[l][k]
        BY <1>3, <1>5, <2>2, IncreasingAppended
      <3>2. k = Len(contents[l]) + 1 \/ k \in 1 .. Len(contents[l])
        BY <3>1
      <3> QED
        BY <3>1, <3>2
    <2> QED
      BY <1>3, <2>1, <2>2
  <1>6. QueuesInOrder'
    <2> SUFFICES ASSUME NEW l \in ListenerNumbers
                 PROVE  /\ Increasing(contents'[l])
                        /\ \A k \in 1 .. Len(contents'[l]) : contents'[l][k] <= n
                        /\ l \notin Created => contents'[l] = <<>>
      BY <1>1, <1>2 DEF QueuesInOrder, Increasing
    <2>1. Increasing(contents'[l])
      BY <1>3, <1>5, IncreasingAppended
    <2>2. ASSUME NEW k \in 1 .. Len(contents'[l])
          PROVE  contents'[l][k] <= n
      <3>1. CASE contents'[l][k] = n
        BY <1>5, <3>1
      <3>2. CASE k \in 1 .. Len(contents[l]) /\ contents'[l][k] = contents[l][k]
        BY SMTT(30), <1>3, <1>5, <3>2
      <3> QED
        BY <1>4, <3>1, <3>2
    <2>3. l \notin Created => contents'[l] = <<>>
      BY <1>3 DEF InOrder, QueuesInOrder
    <2> QED
      BY <2>1, <2>2, <2>3
  <1>7. FramesInOrder'
    <2> SUFFICES ASSUME NEW l \in Created, NEW i \in 1 .. Len(frames), Delivered(i, l)
                 PROVE  /\ frames[i].message <= n
                        /\ \A j \in 1 .. Len(frames) : i < j /\ Delivered(j, l) =>
                             frames[i].message < frames[j].message
                        /\ \A k \in 1 .. Len(contents'[l]) :
                             frames[i].message < contents'[l][k]
      BY <1>1, <1>2 DEF FramesInOrder, Delivered
    <2>1. frames[i].message \in Nat /\ frames[i].message <= published
      BY MessagesTyped DEF InOrder, FramesInOrder, Delivered
    <2>2. \A j \in 1 .. Len(frames) :
            i < j /\ Delivered(j, l) => frames[i].message < frames[j].message
      BY DEF InOrder, FramesInOrder
    <2>3. ASSUME NEW k \in 1 .. Len(contents'[l])
          PROVE  frames[i].message < contents'[l][k]
      <3>1. CASE contents'[l][k] = n
        <4>1. \A x \in Nat : x <= published => x < n
          BY <1>1, <1>5
        <4> QED
          BY <2>1, <3>1, <4>1
      <3>2. CASE k \in 1 .. Len(contents[l]) /\ contents'[l][k] = contents[l][k]
        BY <3>2 DEF InOrder, FramesInOrder
      <3> QED
        BY <1>2, <1>4, <3>1, <3>2
    <2> QED
      BY <1>1, <1>5, <2>1, <2>2, <2>3
  <1>8. HandledFirst'
    <2> SUFFICES ASSUME NEW l \in Created \ stopped,
                        NEW h \in 1 .. Len(handled[ids[l]])
                 PROVE  /\ \A i \in 1 .. Len(frames) : Delivered(i, l) =>
                             handled[ids[l]][h] < frames[i].message
                        /\ \A k \in 1 .. Len(contents'[l]) :
                             handled[ids[l]][h] < contents'[l][k]
      BY <1>1, <1>2 DEF HandledFirst, Delivered
    <2>1. ids[l] \in Ids /\ l \in ListenerNumbers
      BY <1>2
    <2>2. handled[ids[l]] \in Seq(Nat) /\ Len(handled[ids[l]]) \in Nat
      BY <2>1, MessagesTyped
    <2>3. handled[ids[l]][h] \in Nat /\ handled[ids[l]][h] <= published
      BY SMTT(30), <2>1, <2>2 DEF InOrder, HandledPublished
    <2>4. ASSUME NEW k \in 1 .. Len(contents'[l])
          PROVE  handled[ids[l]][h] < contents'[l][k]
      <3>1. CASE contents'[l][k] = n
        <4>1. \A x \in Nat : x <= published => x < n
          BY <1>1, <1>5
        <4> QED
          BY <2>3, <3>1, <4>1
      <3>2. CASE k \in 1 .. Len(contents[l]) /\ contents'[l][k] = contents[l][k]
        BY <3>2 DEF InOrder, HandledFirst
      <3> QED
        BY <2>1, <1>4, <3>1, <3>2
    <2> QED
      BY <2>4 DEF InOrder, HandledFirst
  <1>9. HandledPublished'
    <2> SUFFICES ASSUME NEW i \in Ids, NEW h \in 1 .. Len(handled[i])
                 PROVE  handled[i][h] <= n
      BY <1>1 DEF HandledPublished
    <2>1. handled[i] \in Seq(Nat) /\ Len(handled[i]) \in Nat
      BY MessagesTyped
    <2>2. handled[i][h] \in Nat /\ handled[i][h] <= published
      BY <2>1 DEF InOrder, HandledPublished
    <2> QED
      BY <1>1, <1>5, <2>2
  <1> QED
    BY <1>1, <1>6, <1>7, <1>8, <1>9 DEF InOrder, HandledInPublishOrder

LEMMA DeliverInOrder ==
  ASSUME Typed, TypeOK', InOrder, NEW l \in Created, BrokerDelivers(l)
  PROVE  InOrder'
  <1> USE DEF Typed
  <1> DEFINE d == Delivery(l, Head(contents[l]))
  <1>1. /\ UNCHANGED <<ids, stopped, published, handled>>
        /\ contents[l] # <<>> /\ frames' = Append(frames, d)
        /\ contents' = [contents EXCEPT ![l] = Tail(@)]
    BY DEF BrokerDelivers, listenerVars, historyVars
  <1>2. Created' = Created /\ Created \subseteq ListenerNumbers
          /\ \A m \in Created : ids[m] \in Ids
    BY <1>1, CreatedTyped DEF Created
  <1>3. /\ d.kind = "deliver" /\ d.listener = l /\ d.message = contents[l][1]
        /\ contents[l] \in Seq(Nat) /\ Len(contents[l]) \in Nat \ {0}
        /\ 1 \in 1 .. Len(contents[l])
    BY <1>1, <1>2, MessagesTyped DEF Delivery
  <1>4. /\ Len(frames') = Len(frames) + 1 /\ Len(frames) \in Nat
        /\ frames'[Len(frames) + 1] = d
        /\ \A i \in 1 .. Len(frames) : frames'[i] = frames[i]
    <2> HIDE DEF d
    <2>1. frames \in Seq({Reply} \cup Deliveries)
      BY MessagesTyped
    <2> QED
      BY <1>1, <2>1
  <1> HIDE DEF d
  <1>5. /\ \A m \in ListenerNumbers \ {l} : contents'[m] = contents[m]
        /\ contents'[l] = Tail(contents[l]) /\ Len(contents'[l]) = Len(contents[l]) - 1
        /\ \A k \in 1 .. Len(contents'[l]) :
             contents'[l][k] = contents[l][k + 1] /\ 1 < k + 1
             /\ k + 1 \in 1 .. Len(contents[l])
    <2>1. contents \in [ListenerNumbers -> Seq(1 .. MaxMessages)] /\ l \in ListenerNumbers
      BY <1>2 DEF TypeOK
    <2>2. /\ \A m \in ListenerNumbers \ {l} : contents'[m] = contents[m]
          /\ contents'[l] = Tail(contents[l])
      BY <1>1, <2>1
    <2>3. /\ Len(Tail(contents[l])) = Len(contents[l]) - 1
          /\ \A k \in 1 .. Len(Tail(contents[l])) :
               Tail(contents[l])[k] = contents[l][k + 1]
      BY <1>1, <1>3
    <2>4. \A k \in 1 .. Len(contents[l]) - 1 :
            1 < k + 1 /\ k + 1 \in 1 .. Len(contents[l])
      BY <1>3
    <2> QED
      BY <2>2, <2>3, <2>4
  <1>6. QueuesInOrder'
    <2> SUFFICES ASSUME NEW m \in ListenerNumbers
                 PROVE  /\ Increasing(contents'[m])
                        /\ \A k \in 1 .. Len(contents'[m]) : contents'[m][k] <= published
                        /\ m \notin Created => contents'[m] = <<>>
      BY <1>1, <1>2 DEF QueuesInOrder, Increasing
    <2>1. CASE m = l
      <3>1. Increasing(contents[l])
              /\ \A k \in 1 .. Len(contents[l]) : contents[l][k] <= published
        BY <2>1 DEF InOrder, QueuesInOrder
      <3>2. Increasing(contents'[l])
        BY <1>3, <1>5, <3>1 DEF Increasing
      <3>3. \A k \in 1 .. Len(contents'[l]) : contents'[l][k] <= published
        BY <1>3, <1>5, <3>1
      <3> QED
        BY <2>1, <3>2, <3>3
    <2>2. CASE m # l
      BY <1>5, <2>2 DEF InOrder, QueuesInOrder
    <2> QED
      BY <2>1, <2>2
  <1>7. ASSUME NEW m \in Created, NEW i \in 1 .. Len(frames'), Delivered(i, m)'
        PROVE  \/ i \in 1 .. Len(frames) /\ Delivered(i, m) /\ frames'[i] = frames[i]
               \/ i = Len(frames) + 1 /\ m = l /\ frames'[i].message = contents[l][1]
    BY <1>3, <1>4, <1>7 DEF Delivered
  <1>8. FramesInOrder'
    <2> SUFFICES ASSUME NEW m \in Created, NEW i \in 1 .. Len(frames'), Delivered(i, m)'
                 PROVE  /\ frames'[i].message <= published
                        /\ \A j \in 1 .. Len(frames') : i < j /\ Delivered(j, m)' =>
                             frames'[i].message < frames'[j].message
                        /\ \A k \in 1 .. Len(contents'[m]) :
                             frames'[i].message < contents'[m][k]
      BY <1>1, <1>2 DEF FramesInOrder
    <2>1. CASE i \in 1 .. Len(frames) /\ Delivered(i, m) /\ frames'[i] = frames[i]
      <3>1. frames'[i].message <= published
        BY <2>1 DEF InOrder, FramesInOrder
      <3>2. ASSUME NEW j \in 1 .. Len(frames'), i < j, Delivered(j, m)'
            PROVE  frames'[i].message < frames'[j].message
        <4>1. CASE j \in 1 .. Len(frames) /\ Delivered(j, m) /\ frames'[j] = frames[j]
          BY <2>1, <3>2, <4>1 DEF InOrder, FramesInOrder
        <4>2. CASE m = l /\ frames'[j].message = contents[l][1]
          BY <1>3, <2>1, <4>2 DEF InOrder, FramesInOrder
        <4> QED
          BY <1>7, <3>2, <4>1, <4>2
      <3>3. ASSUME NEW k \in 1 .. Len(contents'[m])
            PROVE  frames'[i].message < contents'[m][k]
        <4>1. CASE m = l
          <5>1. contents'[l][k] = contents[l][k + 1] /\ k + 1 \in 1 .. Len(contents[l])
            BY <1>3, <1>5, <3>3, <4>1
          <5> QED
            BY <2>1, <4>1, <5>1 DEF InOrder, FramesInOrder
        <4>2. CASE m # l
          <5>1. contents'[m] = contents[m]
            BY <1>2, <1>5, <4>2
          <5> QED
            BY <2>1, <5>1 DEF InOrder, FramesInOrder
        <4> QED
          BY <4>1, <4>2
      <3> QED
        BY <3>1, <3>2, <3>3
    <2>2. CASE i = Len(frames) + 1 /\ m = l /\ frames'[i].message = contents[l][1]
      <3>1. frames'[i].message <= published
        BY <1>2, <1>3, <2>2 DEF InOrder, QueuesInOrder
      <3>2. \A j \in 1 .. Len(frames') : ~ (i < j)
        BY <1>4, <2>2
      <3>3. ASSUME NEW k \in 1 .. Len(contents'[l])
            PROVE  contents[l][1] < contents'[l][k]
        <4>1. /\ contents'[l][k] = contents[l][k + 1] /\ k + 1 \in 1 .. Len(contents[l])
              /\ 1 < k + 1
          BY <1>3, <1>5, <3>3
        <4> QED
          BY <1>2, <1>3, <4>1 DEF InOrder, QueuesInOrder, Increasing
      <3> QED
        BY <2>2, <3>1, <3>2, <3>3
    <2> QED
      BY <1>7, <2>1, <2>2
  <1>9. HandledFirst'
    <2> SUFFICES ASSUME NEW m \in Created \ stopped,
                        NEW h \in 1 .. Len(handled[ids[m]])
                 PROVE  /\ \A i \in 1 .. Len(frames') : Delivered(i, m)' =>
                             handled[ids[m]][h] < frames'[i].message
                        /\ \A k \in 1 .. Len(contents'[m]) :
                             handled[ids[m]][h] < contents'[m][k]
      BY <1>1, <1>2 DEF HandledFirst
    <2>1. ASSUME NEW i \in 1 .. Len(frames'), Delivered(i, m)'
          PROVE  handled[ids[m]][h] < frames'[i].message
      <3>1. CASE i \in 1 .. Len(frames) /\ Delivered(i, m) /\ frames'[i] = frames[i]
        BY <3>1 DEF InOrder, HandledFirst
      <3>2. CASE m = l /\ frames'[i].message = contents[l][1]
        BY <1>3, <3>2 DEF InOrder, HandledFirst
      <3> QED
        BY <1>7, <2>1, <3>1, <3>2
    <2>2. ASSUME NEW k \in 1 .. Len(contents'[m])
          PROVE  handled[ids[m]][h] < contents'[m][k]
      <3>1. CASE m = l
        <4>1. contents'[l][k] = contents[l][k + 1] /\ k + 1 \in 1 .. Len(contents[l])
          BY <1>3, <1>5, <2>2, <3>1
        <4> QED
          BY <3>1, <4>1 DEF InOrder, HandledFirst
      <3>2. CASE m # l
        <4>1. contents'[m] = contents[m]
          BY <1>2, <1>5, <3>2
        <4> QED
          BY <4>1 DEF InOrder, HandledFirst
      <3> QED
        BY <3>1, <3>2
    <2> QED
      BY <2>1, <2>2
  <1> QED
    BY <1>1, <1>6, <1>8, <1>9 DEF InOrder, HandledPublished, HandledInPublishOrder

\* A second listener of an id starts with nothing in its queue and nothing on its
\* way: what the first one had not received yet is not delivered to it.
LEMMA ListenInOrder ==
  ASSUME Typed, InOrder, NEW id \in Ids, ListenOnID(id)
  PROVE  InOrder'
  <1> USE DEF Typed
  <1> DEFINE n == Len(ids) + 1
  <1>1. UNCHANGED <<stopped, frames, contents, published, handled>>
    BY DEF ListenOnID, brokerVars, historyVars
  <1>2. /\ Created' = Created \cup {n} /\ n \notin Created
        /\ ids'[n] = id /\ \A l \in Created : ids'[l] = ids[l]
        /\ n \in ListenerNumbers
    <2>1. n \in ListenerNumbers
      BY BoundsAssumption, CreatedTyped DEF ListenOnID, ListenerNumbers
    <2> QED
      BY <2>1, Listened
  <1> HIDE DEF n
  <1>3. \A i \in 1 .. Len(frames) : ~ Delivered(i, n)
    <2> SUFFICES ASSUME NEW i \in 1 .. Len(frames), Delivered(i, n)
                 PROVE  FALSE
      OBVIOUS
    <2>1. frames[i] \in Deliveries
      BY MessagesTyped DEF Delivered, Reply
    <2>2. InFlight(frames[i])
      BY DEF InFlight
    <2> QED
      BY <1>2, <2>1, <2>2 DEF Numbered, Delivered
  <1>4. contents[n] = <<>>
    BY <1>2 DEF InOrder, QueuesInOrder
  <1>5. QueuesInOrder'
    BY <1>1, <1>2 DEF InOrder, QueuesInOrder, Increasing
  <1>6. FramesInOrder'
    BY <1>1, <1>2, <1>3 DEF InOrder, FramesInOrder, Delivered
  <1>7. HandledFirst'
    <2>1. ASSUME NEW l \in Created \ stopped
          PROVE  handled'[ids'[l]] = handled[ids[l]]
      BY <1>1, <1>2
    <2> QED
      BY <1>1, <1>2, <1>3, <1>4, <2>1 DEF InOrder, HandledFirst, Delivered
  <1> QED
    BY <1>1, <1>5, <1>6, <1>7 DEF InOrder, HandledPublished, HandledInPublishOrder

\* A message that is reported is the oldest that its listener had yet to receive;
\* no other listener that still listens has the same id.
LEMMA ReportInOrder ==
  ASSUME Typed, TypeOK', InOrder, NEW l \in Created, SendDataToCallback(l)
  PROVE  InOrder'
  <1> USE DEF Typed
  <1>1. /\ UNCHANGED <<ids, stopped, contents, published>>
        /\ frames # <<>> /\ frames' = Tail(frames)
    BY DEF SendDataToCallback, listenerVars, brokerVars
  <1>2. \A i \in 1 .. Len(frames') :
          i + 1 \in 1 .. Len(frames) /\ frames'[i] = frames[i + 1]
    BY <1>1, FrameTaken
  <1>3. CASE l \in stopped
    <2>1. UNCHANGED handled
      BY <1>3 DEF SendDataToCallback
    <2> QED
      BY <1>1, <1>2, <2>1, NothingMoved, 1 \in {0, 1}
  <1>4. CASE l \notin stopped
    <2> DEFINE n == frames[1].message
               s == handled[ids[l]]
    <2>1. /\ 1 \in 1 .. Len(frames) /\ Delivered(1, l) /\ n \in Nat
          /\ Head(frames) = frames[1]
      BY <1>1, MessagesTyped DEF Delivered, SendDataToCallback
    <2>2. ids[l] \in Ids
      BY CreatedTyped
    <2>3. handled' = [handled EXCEPT ![ids[l]] = Append(s, n)]
      BY <1>4, <2>1 DEF SendDataToCallback, HandleStatus
    <2>4. \A i \in Ids : handled'[i] = IF i = ids[l] THEN Append(s, n) ELSE handled[i]
      BY <2>2, <2>3 DEF TypeOK
    <2>5. s \in Seq(Nat) /\ Len(s) \in Nat /\ Increasing(s)
      BY <2>2, MessagesTyped DEF InOrder, HandledInPublishOrder, Increasing
    <2>6. \A k \in 1 .. Len(s) : s[k] < n
      BY <1>4, <2>1 DEF InOrder, HandledFirst
    <2>7. n <= published
      BY <2>1 DEF InOrder, FramesInOrder
    <2> HIDE DEF n, s
    <2>8. /\ Len(Append(s, n)) = Len(s) + 1 /\ Increasing(Append(s, n))
          /\ \A k \in 1 .. Len(s) + 1 :
               Append(s, n)[k] = IF k = Len(s) + 1 THEN n ELSE s[k]
      BY <2>1, <2>5, <2>6, IncreasingAppended
    <2>9. ASSUME NEW k \in 1 .. Len(Append(s, n))
          PROVE  \/ k \in 1 .. Len(s) /\ Append(s, n)[k] = s[k]
                 \/ Append(s, n)[k] = n
      BY <2>5, <2>8
    <2>10. /\ Created' = Created /\ QueuesInOrder' /\ FramesInOrder'
           /\ \A m \in Created : \A i \in 1 .. Len(frames') : Delivered(i, m)' =>
                /\ i + 1 \in 1 .. Len(frames) /\ Delivered(i + 1, m)
                /\ frames'[i] = frames[i + 1]
      BY <1>1, <1>2, FramesLeft, 1 \in {0, 1}
    <2>11. HandledInPublishOrder'
      BY <2>4, <2>8 DEF InOrder, HandledInPublishOrder, Increasing
    <2>12. HandledPublished'
      <3> SUFFICES ASSUME NEW i \in Ids, NEW h \in 1 .. Len(handled'[i])
                   PROVE  handled'[i][h] <= published
        BY <1>1 DEF HandledPublished
      <3>1. CASE i = ids[l]
        <4>1. \A k \in 1 .. Len(s) : s[k] <= published
          BY <2>2 DEF InOrder, HandledPublished, s
        <4> QED
          BY <2>4, <2>7, <2>9, <3>1, <4>1
      <3>2. CASE i # ids[l]
        BY <2>4, <3>2 DEF InOrder, HandledPublished
      <3> QED
        BY <3>1, <3>2
    <2>13. HandledFirst'
      <3> SUFFICES ASSUME NEW m \in Created \ stopped,
                          NEW h \in 1 .. Len(handled'[ids[m]])
                   PROVE  /\ \A i \in 1 .. Len(frames') : Delivered(i, m)' =>
                               handled'[ids[m]][h] < frames'[i].message
                          /\ \A k \in 1 .. Len(contents[m]) :
                               handled'[ids[m]][h] < contents[m][k]
        BY <1>1, <2>10 DEF HandledFirst
      <3>1. ids[m] \in Ids
        BY CreatedTyped
      <3>2. CASE m = l
        <4>1. handled'[ids[m]] = Append(s, n)
          BY <2>2, <2>4, <3>2
        <4>2. CASE h \in 1 .. Len(s) /\ Append(s, n)[h] = s[h]
          <5>1. \A i \in 1 .. Len(frames) : Delivered(i, m) => s[h] < frames[i].message
            BY <3>2, <4>2 DEF InOrder, HandledFirst, s
          <5>2. \A k \in 1 .. Len(contents[m]) : s[h] < contents[m][k]
            BY <3>2, <4>2 DEF InOrder, HandledFirst, s
          <5> QED
            BY <2>10, <4>1, <4>2, <5>1, <5>2
        <4>3. CASE Append(s, n)[h] = n
          <5>1. \A i \in 1 .. Len(frames) : 1 < i /\ Delivered(i, m) => n < frames[i].message
            BY <2>1, <3>2 DEF InOrder, FramesInOrder, n
          <5>2. \A k \in 1 .. Len(contents[m]) : n < contents[m][k]
            BY <2>1, <3>2 DEF InOrder, FramesInOrder, n
          <5>3. \A i \in 1 .. Len(frames') : 1 < i + 1
            OBVIOUS
          <5> QED
            BY <2>10, <4>1, <4>3, <5>1, <5>2, <5>3
        <4> QED
          BY <2>9, <4>1, <4>2, <4>3
      <3>3. CASE m # l
        <4>1. ids[m] # ids[l]
          BY <1>4, <3>3 DEF Numbered
        <4>2. handled'[ids[m]] = handled[ids[m]]
          BY <2>4, <3>1, <4>1
        <4>3. \A i \in 1 .. Len(frames) : Delivered(i, m) =>
                handled[ids[m]][h] < frames[i].message
          BY <4>2 DEF InOrder, HandledFirst
        <4>4. \A k \in 1 .. Len(contents[m]) : handled[ids[m]][h] < contents[m][k]
          BY <4>2 DEF InOrder, HandledFirst
        <4> QED
          BY <2>10, <4>2, <4>3, <4>4
      <3> QED
        BY <3>2, <3>3
    <2> QED
      BY <2>10, <2>11, <2>12, <2>13 DEF InOrder
  <1> QED
    BY <1>3, <1>4

LEMMA NextInOrder == Typed /\ InOrder /\ TypeOK' /\ [Next]_vars => InOrder'
  <1> SUFFICES ASSUME Typed, InOrder, TypeOK', [Next]_vars
               PROVE  InOrder'
    OBVIOUS
  <1>1. CASE UNCHANGED <<ids, published, handled, frames, contents>>
               /\ stopped \subseteq stopped'
    <2>1. \A i \in 1 .. Len(frames') :
            i + 0 \in 1 .. Len(frames) /\ frames'[i] = frames[i + 0]
      BY <1>1
    <2>2. \A l \in ListenerNumbers : contents'[l] \in {contents[l], <<>>}
      BY <1>1
    <2> QED
      BY <1>1, <2>1, <2>2, NothingMoved, 0 \in {0, 1}
  <1>2. CASE OnConnectionClosed
    <2>1. UNCHANGED <<ids, stopped, published, handled, frames>>
      BY <1>2 DEF OnConnectionClosed, listenerVars, channelVars, historyVars
    <2>2. \A l \in ListenerNumbers : contents'[l] = <<>>
      BY <1>2 DEF OnConnectionClosed, ListenerNumbers
    <2>3. \A i \in 1 .. Len(frames') :
            i + 0 \in 1 .. Len(frames) /\ frames'[i] = frames[i + 0]
      BY <2>1
    <2> QED
      BY <2>1, <2>2, <2>3, NothingMoved, 0 \in {0, 1}
  <1>3. CASE BrokerPerforms
    <2>1. UNCHANGED <<ids, stopped, published, handled>> /\ frames' = Append(frames, Reply)
      BY <1>3 DEF BrokerPerforms, listenerVars, historyVars
    <2>2. \A l \in ListenerNumbers : contents'[l] \in {contents[l], <<>>}
      BY <1>3 DEF BrokerPerforms, Typed, TypeOK
    <2>3. \A i \in 1 .. Len(frames') :
            \/ frames'[i] = Reply
            \/ i + 0 \in 1 .. Len(frames) /\ frames'[i] = frames[i + 0]
      <3>1. frames \in Seq({Reply} \cup Deliveries)
        BY MessagesTyped DEF Typed
      <3>2. /\ Len(frames') = Len(frames) + 1 /\ Len(frames) \in Nat
            /\ \A i \in 1 .. Len(frames) : frames'[i] = frames[i]
            /\ frames'[Len(frames) + 1] = Reply
        BY <2>1, <3>1
      <3> QED
        BY <3>2
    <2> QED
      BY <2>1, <2>2, <2>3, NothingMoved, 0 \in {0, 1}
  <1>4. ASSUME NEW l \in Created, Receive(l), ~ SendDataToCallback(l)
        PROVE  InOrder'
    <2>1. /\ UNCHANGED <<ids, stopped, contents, published, handled>>
          /\ frames # <<>> /\ frames' = Tail(frames)
      BY <1>4 DEF Receive, OnExchangeDeclared, OnLabelExchangeDeclared,
         OnQueueDeclared, OnQueueBind, OnReplyWithoutCallback, Replied,
         listenerVars, brokerVars, historyVars
    <2>2. \A i \in 1 .. Len(frames') :
            i + 1 \in 1 .. Len(frames) /\ frames'[i] = frames[i + 1]
      BY <2>1, FrameTaken
    <2>3. \A m \in ListenerNumbers : contents'[m] \in {contents[m], <<>>}
      BY <2>1
    <2> QED
      BY <2>1, <2>2, <2>3, NothingMoved, 1 \in {0, 1}
  <1>5. CASE \/ Terminated \/ UNCHANGED vars
             \/ Connection /\ ~ OnConnectionClosed
             \/ \E id \in Ids : \/ StopListeningOnID(id) \/ StopListeningWhileClosing(id)
                                \/ ProvideLabel(id)
    <2>1. UNCHANGED <<ids, published, handled, frames, contents>>
            /\ stopped \subseteq stopped'
      BY <1>5 DEF Terminated, Connection, ConnectFails, LostBeforeOpen,
         OnConnectionOpen, OnChannelOpen, OnChannelClosed, Close,
         StopListeningOnID, StopListeningWhileClosing, ProvideLabel, RefuseLabel,
         PublishLabel, listenerVars, channelVars, brokerVars, historyVars, vars
    <2> QED
      BY <1>1, <2>1
  <1> QED
    BY <1>2, <1>3, <1>4, <1>5, PublishInOrder, DeliverInOrder, ListenInOrder,
       ReportInOrder DEF Next, Command, Receive

\* The application sees the status messages of an id in the order in which they
\* were published and each at most once, however often it stops listening and
\* listens again: what the first listener had not received is dropped, and the
\* queue of the next one is bound later.
THEOREM ReportedInOrder == Safety => []HandledInPublishOrder
  <1>1. Typed /\ [Next]_vars => TypeOK'
    BY NextTypeOK
  <1>2. InOrder => HandledInPublishOrder
    BY DEF InOrder
  <1> QED
    BY <1>1, <1>2, InitInOrder, NextInOrder, TypedInductive, PTL DEF Safety

-------------------------------------------------------------------------------
(* The stations and the application around the server *)

\* A step of the composition is a step of the server, or leaves the server alone.
LEMMA ServerStep ==
  ASSUME [HandshakeNext]_allVars
  PROVE  [Next]_vars
  <1>1. CASE \/ ConnectionStep \/ ApplicationStep \/ BrokerStep
             \/ \E id \in Ids : CheckIn(id) \/ Answer(id)
             \/ Terminated /\ UNCHANGED handshakeVars
    BY <1>1 DEF ConnectionStep, ApplicationStep, BrokerStep, CheckIn, Answer, Command,
       Next
  <1>2. CASE \E l \in Created : DeliveryStep(l) \/ ReplyStep(l) \/ CheckInReported(l)
    BY <1>2 DEF DeliveryStep, ReplyStep, CheckInReported, Receive, Next
  <1>3. CASE \/ UNCHANGED allVars
             \/ \E id \in Ids : Connect(id) \/ GetLabel(id) \/ Reboot(id)
    BY <1>3 DEF allVars, Connect, GetLabel, Reboot
  <1> QED
    BY <1>1, <1>2, <1>3 DEF HandshakeNext

\* The server with the stations and the application around it behaves as
\* StatusServer says: what is proved of the server holds of the composition.
THEOREM HandshakeRunsServer == HandshakeSafety => Safety
  <1>1. HandshakeInit => Init
    BY DEF HandshakeInit
  <1>2. [HandshakeNext]_allVars => [Next]_vars
    BY ServerStep
  <1> QED
    BY <1>1, <1>2, PTL DEF HandshakeSafety, Safety

HandshakeTyped ==
  /\ station \in [Ids -> {"off", "connected", "waiting", "labelled"}]
  /\ labelQueue \in [Ids -> Nat]
  /\ heardBy \in [Ids -> Created \cup {None}]
  /\ owed \subseteq Ids

\* The listener whose queue a check-in reached is one of the station's.
HeardByOwn == \A id \in Ids : heardBy[id] # None => ids[heardBy[id]] = id

\* A label is owed only to an id of which a status was reported.
OwedReported == \A id \in owed : handled[id] # <<>>

\* HeardCheckInInHand, from before the server is ready to the end of its
\* connection.
StillInHand ==
  Working =>
    \A id \in Ids :
      station[id] = "waiting" /\ heardBy[id] # None /\ heardBy[id] \notin stopped =>
        InHand(heardBy[id]) \/ id \in owed \/ labelQueue[id] > 0

HandshakeInv == HandshakeTyped /\ HeardByOwn /\ OwedReported /\ StillInHand

\* Listeners are never destroyed, and stay those of their id.
LEMMA CreatedKept ==
  ASSUME Typed, [Next]_vars
  PROVE  Created \subseteq Created' /\ \A l \in Created : ids'[l] = ids[l]
  <1>1. CASE \E id \in Ids : ListenOnID(id)
    BY <1>1, Listened
  <1>2. CASE ~ \E id \in Ids : ListenOnID(id)
    BY <1>2, OnlyListenCreates DEF Created
  <1> QED
    BY <1>1, <1>2

\* A connection that works has worked before, and a listener that goes on has not
\* been stopped before.
LEMMA WorkedBefore ==
  ASSUME [Next]_vars
  PROVE  Working' => Working /\ stopped \subseteq stopped'
  BY DEF Next, Connection, Command, Receive, ConnectFails, LostBeforeOpen,
     OnConnectionOpen, OnChannelOpen, OnChannelClosed, OnConnectionClosed, Close,
     ListenOnID, StopListeningOnID, StopListeningWhileClosing, ProvideLabel,
     RefuseLabel, PublishLabel, BrokerPerforms, BrokerDelivers, StationPublishes,
     OnExchangeDeclared, OnLabelExchangeDeclared, OnQueueDeclared, OnQueueBind,
     OnReplyWithoutCallback, SendDataToCallback, Terminated, serverVars,
     listenerVars, vars, Working

\* A status that is in the queue of a listener, or on its way to it, stays so
\* until it is reported: the queue is deleted only for a listener that has stopped.
LEMMA InHandKept ==
  ASSUME Typed, DeleteOfStopped, [Next]_vars, Working', NEW l \in Created,
         l \notin stopped', ~ SendDataToCallback(l), InHand(l)
  PROVE  InHand(l)'
  <1> USE DEF Typed
  <1>1. /\ frames \in Seq({Reply} \cup Deliveries) /\ Len(frames) \in Nat
        /\ contents \in [ListenerNumbers -> Seq(1 .. MaxMessages)]
        /\ l \in ListenerNumbers /\ l \notin stopped
    BY MessagesTyped, CreatedTyped, WorkedBefore DEF TypeOK
  <1>2. ASSUME UNCHANGED <<contents, frames>>
        PROVE  InHand(l)'
    BY <1>2 DEF InHand
  <1>3. ASSUME NEW f \in {Reply} \cup Deliveries, frames' = Append(frames, f),
               contents'[l] = contents[l]
        PROVE  InHand(l)'
    <2>1. /\ Len(frames') = Len(frames) + 1
          /\ \A i \in 1 .. Len(frames) : frames'[i] = frames[i]
      BY <1>1, <1>3
    <2> QED
      BY <1>1, <1>3, <2>1 DEF InHand
  <1>4. ASSUME frames # <<>>, frames' = Tail(frames), contents' = contents,
               ~ (frames[1].kind = "deliver" /\ frames[1].listener = l)
        PROVE  InHand(l)'
    <2>1. CASE contents[l] # <<>>
      BY <1>4, <2>1 DEF InHand
    <2>2. CASE contents[l] = <<>>
      <3>1. PICK i \in 1 .. Len(frames) :
              frames[i].kind = "deliver" /\ frames[i].listener = l
        BY <2>2 DEF InHand
      <3>2. i # 1
        BY <1>4, <3>1
      <3>3. Len(frames') = Len(frames) - 1
              /\ \A j \in 1 .. Len(frames') : frames'[j] = frames[j + 1]
        BY <1>4, FrameTaken
      <3>4. i - 1 \in 1 .. Len(frames') /\ frames'[i - 1] = frames[i]
        BY <1>1, <3>2, <3>3
      <3> QED
        BY <3>1, <3>4 DEF InHand
    <2> QED
      BY <2>1, <2>2
  <1>5. CASE \/ Connection \/ Terminated \/ UNCHANGED vars
             \/ \E id \in Ids : Command(id)
    BY <1>2, <1>5 DEF Connection, ConnectFails, LostBeforeOpen, OnConnectionOpen,
       OnChannelOpen, OnChannelClosed, OnConnectionClosed, Close, Command,
       ListenOnID, StopListeningOnID, StopListeningWhileClosing, ProvideLabel,
       RefuseLabel, PublishLabel, Terminated, channelVars, brokerVars, vars, Working
  <1>6. CASE \E id \in Ids : StationPublishes(id)
    <2>1. PICK id \in Ids : StationPublishes(id)
      BY <1>6
    <2>2. /\ frames' = frames
          /\ contents'[l] \in {contents[l], Append(contents[l], published + 1)}
      BY <1>1, <2>1 DEF StationPublishes, channelVars, ListenerNumbers
    <2>3. CASE contents'[l] = contents[l]
      BY <2>2, <2>3 DEF InHand
    <2>4. CASE contents'[l] = Append(contents[l], published + 1)
      <3>1. contents[l] \in Seq(Nat) /\ published + 1 \in Nat
        BY <1>1, MessagesTyped
      <3>2. contents'[l] # <<>>
        BY <2>4, <3>1, AppendProperties
      <3> QED
        BY <3>2 DEF InHand
    <2> QED
      BY <2>2, <2>3, <2>4
  <1>7. CASE BrokerPerforms
    <2>1. frames' = Append(frames, Reply)
      BY <1>7 DEF BrokerPerforms
    <2>2. contents'[l] = contents[l]
      <3>1. requests \in Seq(Requests) /\ requests # <<>>
        BY <1>7 DEF BrokerPerforms, TypeOK
      <3>2. Head(requests) = requests[1] /\ 1 \in 1 .. Len(requests)
        BY <3>1
      <3>3. CASE Head(requests).op = "delete"
        <4>1. Head(requests).listener # l
          BY <1>1, <3>2, <3>3 DEF DeleteOfStopped
        <4> QED
          BY <1>1, <1>7, <4>1 DEF BrokerPerforms
      <3>4. CASE Head(requests).op # "delete"
        BY <1>7, <3>4 DEF BrokerPerforms
      <3> QED
        BY <3>3, <3>4
    <2> QED
      BY <1>3, <2>1, <2>2
  <1>8. CASE \E m \in Created : BrokerDelivers(m)
    <2>1. PICK m \in Created : BrokerDelivers(m)
      BY <1>8
    <2> DEFINE f == Delivery(m, Head(contents[m]))
    <2>2. /\ frames' = Append(frames, f)
          /\ contents' = [contents EXCEPT ![m] = Tail(@)]
          /\ f.kind = "deliver" /\ f.listener = m
      BY <2>1 DEF BrokerDelivers, Delivery
    <2>3. f \in Deliveries
      <3>1. m \in ListenerNumbers /\ contents[m] # <<>>
        BY <2>1, CreatedTyped DEF BrokerDelivers
      <3>2. contents[m] \in Seq(1 .. MaxMessages)
        BY <1>1, <3>1
      <3>3. Head(contents[m]) \in 1 .. MaxMessages
        BY <3>1, <3>2, HeadTailProperties
      <3> QED
        BY <3>1, <3>3 DEF Delivery, Deliveries
    <2> HIDE DEF f
    <2>4. CASE m = l
      <3>1. frames'[Len(frames) + 1] = f /\ Len(frames') = Len(frames) + 1
        BY <1>1, <2>2, <2>3
      <3> QED
        BY <1>1, <2>2, <2>4, <3>1 DEF InHand
    <2>5. CASE m # l
      <3>1. contents'[l] = contents[l]
        BY <1>1, <2>2, <2>5
      <3> QED
        BY <1>3, <2>2, <2>3, <3>1
    <2> QED
      BY <2>4, <2>5
  <1>9. CASE \E m \in Created : Receive(m)
    <2>1. PICK m \in Created : Receive(m)
      BY <1>9
    <2>2. CASE SendDataToCallback(m)
      <3>1. m # l
        BY <2>2
      <3>2. /\ frames # <<>> /\ frames' = Tail(frames) /\ contents' = contents
            /\ Head(frames).listener = m
        BY <2>2 DEF SendDataToCallback, brokerVars
      <3>3. Head(frames) = frames[1]
        BY <1>1, <3>2
      <3> QED
        BY <1>4, <3>1, <3>2, <3>3
    <2>3. CASE ~ SendDataToCallback(m)
      <3>1. /\ frames # <<>> /\ frames' = Tail(frames) /\ contents' = contents
            /\ Head(frames) = Reply
        BY <2>1, <2>3 DEF Receive, OnExchangeDeclared, OnLabelExchangeDeclared,
           OnQueueDeclared, OnQueueBind, OnReplyWithoutCallback, Replied, brokerVars
      <3>2. frames[1].kind # "deliver"
        BY <1>1, <3>1 DEF Reply
      <3> QED
        BY <1>4, <3>1, <3>2
    <2> QED
      BY <2>2, <2>3
  <1> QED
    BY <1>5, <1>6, <1>7, <1>8, <1>9 DEF Next

\* What was reported stays so, and a report adds to it.
LEMMA ReportedKept ==
  ASSUME Typed, [Next]_vars, NEW id \in Ids,
         \/ handled[id] # <<>>
         \/ \E l \in Created \ stopped : SendDataToCallback(l) /\ ids[l] = id
  PROVE  handled'[id] # <<>>
  <1> USE DEF Typed
  <1>1. ASSUME NEW l \in Created, SendDataToCallback(l)
        PROVE  \/ l \in stopped /\ UNCHANGED handled
               \/ /\ ids[l] = id => handled'[id] # <<>>
                  /\ ids[l] # id => handled'[id] = handled[id]
    <2>1. CASE l \in stopped
      BY <1>1, <2>1 DEF SendDataToCallback
    <2>2. CASE l \notin stopped
      <3> DEFINE n == Head(frames).message
      <3>1. handled' = [handled EXCEPT ![ids[l]] = Append(@, n)]
        BY <1>1, <2>2 DEF SendDataToCallback, HandleStatus
      <3>2. ids[l] \in Ids /\ DOMAIN handled = Ids /\ handled[ids[l]] \in Seq(Nat)
        BY CreatedTyped, MessagesTyped DEF TypeOK
      <3> HIDE DEF n
      <3>3. Append(handled[ids[l]], n) # <<>>
        BY <3>2, AppendProperties
      <3> QED
        BY <3>1, <3>2, <3>3
    <2> QED
      BY <2>1, <2>2
  <1>2. CASE \E l \in Created : SendDataToCallback(l)
    BY <1>1, <1>2
  <1>3. CASE ~ \E l \in Created : SendDataToCallback(l)
    <2>1. UNCHANGED handled
      BY <1>3 DEF Next, Connection, Command, Receive, ConnectFails, LostBeforeOpen,
         OnConnectionOpen, OnChannelOpen, OnChannelClosed, OnConnectionClosed, Close,
         ListenOnID, StopListeningOnID, StopListeningWhileClosing, ProvideLabel,
         RefuseLabel, PublishLabel, BrokerPerforms, BrokerDelivers,
         StationPublishes, OnExchangeDeclared, OnLabelExchangeDeclared,
         OnQueueDeclared, OnQueueBind, OnReplyWithoutCallback, Terminated,
         historyVars, vars
    <2> QED
      BY <1>3, <2>1
  <1> QED
    BY <1>2, <1>3

LEMMA InitHandshake == HandshakeInit => HandshakeInv
  BY DEF HandshakeInit, Init, HandshakeInv, HandshakeTyped, HeardByOwn, OwedReported,
     StillInHand

LEMMA ReportSeen ==
  ASSUME Typed, NEW l \in Created \ stopped, SendDataToCallback(l)
  PROVE  handled' # handled
  <1> DEFINE n == Head(frames).message
  <1>1. handled' = [handled EXCEPT ![ids[l]] = Append(@, n)]
    BY DEF SendDataToCallback, HandleStatus
  <1>2. ids[l] \in Ids /\ DOMAIN handled = Ids
    BY CreatedTyped DEF Typed, TypeOK
  <1>3. handled[ids[l]] \in Seq(1 .. MaxMessages)
    BY <1>2 DEF Typed, TypeOK
  <1> HIDE DEF n
  <1>4. Len(Append(handled[ids[l]], n)) # Len(handled[ids[l]])
    BY <1>3, AppendProperties
  <1> QED
    BY <1>1, <1>2, <1>4

\* Steps of the server, the broker and the application that a station has no
\* part in.
LEMMA ServerKeepsHandshake ==
  ASSUME Typed, DeleteOfStopped, HandshakeInv, [Next]_vars,
         UNCHANGED <<handled, handshakeVars>>
  PROVE  HandshakeInv'
  <1> USE DEF Typed, HandshakeInv
  <1>1. UNCHANGED <<station, boots, labelQueue, heardBy, owed>>
    BY DEF handshakeVars, stationVars
  <1>2. HandshakeTyped'
    BY <1>1, CreatedKept DEF HandshakeTyped
  <1>3. HeardByOwn'
    BY <1>1, CreatedKept DEF HandshakeTyped, HeardByOwn
  <1>4. OwedReported'
    BY <1>1, ReportedKept DEF HandshakeTyped, OwedReported
  <1>5. StillInHand'
    <2> SUFFICES ASSUME Working', NEW id \in Ids, station[id] = "waiting",
                        heardBy[id] # None, heardBy[id] \notin stopped',
                        ~ (id \in owed \/ labelQueue[id] > 0)
                 PROVE  InHand(heardBy[id])'
      BY <1>1 DEF StillInHand, InHand
    <2>1. heardBy[id] \in Created /\ heardBy[id] \notin stopped /\ Working
      BY WorkedBefore DEF HandshakeTyped
    <2>2. InHand(heardBy[id])
      BY <2>1 DEF StillInHand
    <2>3. PICK l \in Created : l = heardBy[id] /\ l = heardBy'[id]
      BY <1>1, <2>1
    <2>4. l \in Created \ stopped /\ InHand(l) /\ l \notin stopped'
      BY <2>1, <2>2, <2>3
    <2>5. ~ SendDataToCallback(l)
      BY <1>1, <2>4, ReportSeen
    <2>6. InHand(l)'
      BY <2>1, <2>4, <2>5, InHandKept
    <2> QED
      BY <2>3, <2>6 DEF InHand
  <1> QED
    BY <1>2, <1>3, <1>4, <1>5

LEMMA CheckInKeepsHandshake ==
  ASSUME Typed, DeleteOfStopped, HandshakeInv, [Next]_vars, NEW id \in Ids, CheckIn(id)
  PROVE  HandshakeInv'
  <1> USE DEF Typed, HandshakeInv
  <1>1. /\ StationPublishes(id) /\ UNCHANGED <<boots, labelQueue, owed>>
        /\ station' = [station EXCEPT ![id] = "waiting"]
        /\ heardBy' = [heardBy EXCEPT ![id] =
                         IF listeners[id] \in bound THEN listeners[id] ELSE None]
    BY DEF CheckIn
  <1>2. UNCHANGED <<ids, stopped, frames, handled>>
    BY <1>1 DEF StationPublishes, listenerVars, channelVars
  <1>3. Created' = Created /\ bound \subseteq Created /\ None \notin Created
    BY <1>2, CreatedTyped DEF TypeOK, Created
  <1>4. /\ heardBy'[id] \in Created \cup {None}
        /\ heardBy'[id] # None => heardBy'[id] = listeners[id] /\ listeners[id] \in bound
                                   /\ ids[listeners[id]] = id
        /\ station' \in [Ids -> {"off", "connected", "waiting", "labelled"}]
        /\ heardBy' \in [Ids -> Created \cup {None}]
        /\ \A i \in Ids \ {id} : heardBy'[i] = heardBy[i] /\ station'[i] = station[i]
    BY <1>1, <1>3 DEF HandshakeTyped, Numbered
  <1>5. HandshakeTyped' /\ HeardByOwn'
    BY <1>1, <1>2, <1>3, <1>4 DEF HandshakeTyped, HeardByOwn
  <1>6. OwedReported'
    BY <1>1, <1>2 DEF OwedReported
  <1>7. StillInHand'
    <2> SUFFICES ASSUME Working', NEW i \in Ids, station'[i] = "waiting",
                        heardBy'[i] # None, heardBy'[i] \notin stopped',
                        ~ (i \in owed \/ labelQueue[i] > 0)
                 PROVE  InHand(heardBy[i])'
      BY <1>1 DEF StillInHand, InHand
    <2>1. ASSUME NEW l \in Created, l = heardBy'[i], InHand(l)'
          PROVE  InHand(heardBy[i])'
      BY <2>1
    <2>2. CASE i = id
      <3>1. PICK l \in Created : l = heardBy'[id] /\ l \in bound /\ ids[l] = id
        BY <1>3, <1>4, <2>2
      <3>2. l \in ListenerNumbers /\ contents[l] \in Seq(Nat) /\ published + 1 \in Nat
        BY CreatedTyped, MessagesTyped
      <3>3. contents'[l] = Append(contents[l], published + 1)
        BY <1>1, <3>1, <3>2 DEF StationPublishes, ListenerNumbers
      <3>4. contents'[l] # <<>>
        BY <3>2, <3>3, AppendProperties
      <3> QED
        BY <2>1, <2>2, <3>1, <3>4 DEF InHand
    <2>3. CASE i # id
      <3>1. PICK l \in Created : l = heardBy[i] /\ l = heardBy'[i]
        BY <1>4, <2>3 DEF HandshakeTyped
      <3>2. station[i] = "waiting" /\ heardBy[i] # None /\ Working /\ l \notin stopped
        BY <1>2, <1>4, <2>3, <3>1, WorkedBefore
      <3>3. InHand(l)
        BY <3>1, <3>2 DEF StillInHand
      <3>4. ~ SendDataToCallback(l)
        <4>1. published' # published
          BY <1>1, MessagesTyped DEF StationPublishes
        <4> QED
          BY <4>1 DEF SendDataToCallback
      <3>5. InHand(l)'
        BY <3>1, <3>2, <3>3, <3>4, InHandKept
      <3> QED
        BY <2>1, <3>1, <3>5
    <2> QED
      BY <2>2, <2>3
  <1> QED
    BY <1>5, <1>6, <1>7

\* A report: the application owes the label from then on.
LEMMA ReportKeepsHandshake ==
  ASSUME Typed, DeleteOfStopped, HandshakeInv, [Next]_vars, NEW l \in Created,
         CheckInReported(l)
  PROVE  HandshakeInv'
  <1> USE DEF Typed, HandshakeInv
  <1>1. /\ SendDataToCallback(l) /\ UNCHANGED <<station, boots, labelQueue, heardBy>>
        /\ owed' = IF l \in stopped THEN owed ELSE owed \cup {ids[l]}
    BY DEF CheckInReported, stationVars
  <1>2. UNCHANGED <<ids, stopped>> /\ Created' = Created /\ ids[l] \in Ids
    BY <1>1, CreatedTyped DEF SendDataToCallback, listenerVars, Created
  <1>3. HandshakeTyped' /\ HeardByOwn'
    BY <1>1, <1>2 DEF HandshakeTyped, HeardByOwn
  <1>4. OwedReported'
    <2> SUFFICES ASSUME NEW id \in owed'
                 PROVE  handled'[id] # <<>>
      BY DEF OwedReported
    <2>1. id \in Ids
      BY <1>3 DEF HandshakeTyped
    <2>2. CASE id \in owed
      BY <2>1, <2>2, ReportedKept DEF OwedReported
    <2>3. CASE id \notin owed
      <3>1. l \in Created \ stopped /\ ids[l] = id
        BY <1>1, <2>3
      <3> QED
        BY <1>1, <2>1, <3>1, ReportedKept
    <2> QED
      BY <2>2, <2>3
  <1>5. StillInHand'
    <2> SUFFICES ASSUME Working', NEW id \in Ids, station[id] = "waiting",
                        heardBy[id] # None, heardBy[id] \notin stopped',
                        id \notin owed', ~ (labelQueue[id] > 0)
                 PROVE  InHand(heardBy[id])'
      BY <1>1 DEF StillInHand, InHand
    <2>1. PICK m \in Created : m = heardBy[id]
      BY DEF HandshakeTyped
    <2>2. m \notin stopped /\ Working /\ id \notin owed
      BY <1>1, <1>2, <2>1, WorkedBefore
    <2>3. InHand(m)
      BY <2>1, <2>2 DEF StillInHand
    <2>4. m # l
      BY <1>1, <2>1, <2>2 DEF HeardByOwn
    <2>5. ~ SendDataToCallback(m)
      BY <1>1, <2>4 DEF SendDataToCallback
    <2>6. InHand(m)'
      BY <1>2, <2>2, <2>3, <2>5, InHandKept
    <2> QED
      BY <1>1, <2>1, <2>6 DEF InHand
  <1> QED
    BY <1>3, <1>4, <1>5

\* An answer is not refused, for a status of the id was reported: the label
\* reaches the station's queue.
LEMMA AnswerKeepsHandshake ==
  ASSUME Typed, ReportedImpliesLabelExchange, HandshakeInv, NEW id \in Ids, Answer(id)
  PROVE  HandshakeInv'
  <1> USE DEF Typed, HandshakeInv
  <1>1. /\ ProvideLabel(id) /\ id \in owed /\ owed' = owed \ {id}
        /\ UNCHANGED <<station, boots, heardBy>>
        /\ labelQueue' = IF id \in labelExchanges /\ station[id] # "off"
                         THEN [labelQueue EXCEPT ![id] = @ + 1] ELSE labelQueue
    BY DEF Answer
  <1>2. UNCHANGED <<link, ids, stopped, frames, contents, handled>> /\ Created' = Created
    BY <1>1 DEF ProvideLabel, RefuseLabel, PublishLabel, serverVars, listenerVars,
       channelVars, brokerVars, Created
  <1>3. id \in labelExchanges
    BY <1>1 DEF OwedReported, ReportedImpliesLabelExchange
  <1>4. /\ labelQueue' \in [Ids -> Nat]
        /\ station[id] # "off" => labelQueue'[id] > 0
        /\ \A i \in Ids \ {id} : labelQueue'[i] = labelQueue[i]
    BY <1>1, <1>3 DEF HandshakeTyped
  <1>5. HandshakeTyped' /\ HeardByOwn' /\ OwedReported'
    BY <1>1, <1>2, <1>4 DEF HandshakeTyped, HeardByOwn, OwedReported
  <1>6. StillInHand'
    <2> SUFFICES ASSUME Working, NEW i \in Ids, station[i] = "waiting",
                        heardBy[i] # None, heardBy[i] \notin stopped
                 PROVE  InHand(heardBy[i]) \/ i \in owed' \/ labelQueue'[i] > 0
      BY <1>1, <1>2 DEF StillInHand, Working, InHand
    <2>1. InHand(heardBy[i]) \/ i \in owed \/ labelQueue[i] > 0
      BY DEF StillInHand
    <2> QED
      BY <1>1, <1>4, <2>1
  <1> QED
    BY <1>5, <1>6

\* What a station does by itself.
LEMMA StationKeepsHandshake ==
  ASSUME HandshakeInv, NEW id \in Ids, Connect(id) \/ GetLabel(id) \/ Reboot(id)
  PROVE  HandshakeInv'
  <1> USE DEF HandshakeInv
  <1>1. UNCHANGED <<link, ids, stopped, frames, contents, handled, owed>>
    BY DEF Connect, GetLabel, Reboot, vars, serverVars, listenerVars, channelVars,
       brokerVars, historyVars
  <1>2. Created' = Created
    BY <1>1 DEF Created
  <1>3. /\ station' \in [Ids -> {"off", "connected", "waiting", "labelled"}]
        /\ station'[id] # "waiting"
        /\ labelQueue' \in [Ids -> Nat]
        /\ heardBy' \in [Ids -> Created \cup {None}]
        /\ heardBy'[id] \in {heardBy[id], None}
        /\ \A i \in Ids \ {id} : /\ station'[i] = station[i]
                                  /\ labelQueue'[i] = labelQueue[i]
                                  /\ heardBy'[i] = heardBy[i]
    <2>1. CASE Connect(id)
      BY <2>1 DEF Connect, HandshakeTyped
    <2>2. CASE GetLabel(id)
      BY <2>2 DEF GetLabel, HandshakeTyped
    <2>3. CASE Reboot(id)
      BY <2>3 DEF Reboot, HandshakeTyped
    <2> QED
      BY <2>1, <2>2, <2>3
  <1>4. HandshakeTyped' /\ HeardByOwn' /\ OwedReported'
    BY <1>1, <1>2, <1>3 DEF HandshakeTyped, HeardByOwn, OwedReported
  <1>5. StillInHand'
    <2> SUFFICES ASSUME Working, NEW i \in Ids, station'[i] = "waiting",
                        heardBy'[i] # None, heardBy'[i] \notin stopped
                 PROVE  InHand(heardBy'[i]) \/ i \in owed \/ labelQueue'[i] > 0
      BY <1>1 DEF StillInHand, Working, InHand
    <2>1. i # id
      BY <1>3
    <2> QED
      BY <1>3, <2>1 DEF StillInHand
  <1> QED
    BY <1>4, <1>5

LEMMA NextHandshake ==
  ASSUME Typed, DeleteOfStopped, ReportedImpliesLabelExchange, HandshakeInv,
         [HandshakeNext]_allVars
  PROVE  HandshakeInv'
  <1>1. [Next]_vars
    BY ServerStep
  <1>2. CASE \/ ConnectionStep \/ ApplicationStep \/ BrokerStep
             \/ \E l \in Created : DeliveryStep(l) \/ ReplyStep(l)
             \/ Terminated /\ UNCHANGED handshakeVars
             \/ UNCHANGED allVars
    <2>1. UNCHANGED handshakeVars
      BY <1>2 DEF ConnectionStep, ApplicationStep, BrokerStep, DeliveryStep, ReplyStep,
         allVars
    <2>2. UNCHANGED handled
      BY <1>2 DEF ConnectionStep, ApplicationStep, BrokerStep, DeliveryStep, ReplyStep,
         allVars, vars, historyVars, Connection, ConnectFails, LostBeforeOpen,
         OnConnectionOpen, OnChannelOpen, OnChannelClosed, OnConnectionClosed, Close,
         ListenOnID, StopListeningOnID, StopListeningWhileClosing, BrokerPerforms,
         BrokerDelivers, OnExchangeDeclared, OnLabelExchangeDeclared,
         OnQueueDeclared, OnQueueBind, OnReplyWithoutCallback, Terminated
    <2> QED
      BY <1>1, <2>1, <2>2, ServerKeepsHandshake
  <1>3. CASE \E l \in Created : CheckInReported(l)
    BY <1>1, <1>3, ReportKeepsHandshake
  <1>4. CASE \E id \in Ids : CheckIn(id)
    BY <1>1, <1>4, CheckInKeepsHandshake
  <1>5. CASE \E id \in Ids : Answer(id)
    BY <1>5, AnswerKeepsHandshake
  <1>6. CASE \E id \in Ids : Connect(id) \/ GetLabel(id) \/ Reboot(id)
    BY <1>6, StationKeepsHandshake
  <1> QED
    BY <1>2, <1>3, <1>4, <1>5, <1>6 DEF HandshakeNext

\* A check-in that was heard is in hand until its label is in the station's queue.
THEOREM CheckInNeverDropped == HandshakeSafety => []HeardCheckInInHand
  <1>1. HandshakeSafety => [](Typed /\ DeleteOfStopped /\ ReportedImpliesLabelExchange)
    <2>1. Typed /\ Chain /\ Broker => Typed /\ DeleteOfStopped
      BY DEF Chain
    <2> QED
      BY <2>1, HandshakeRunsServer, ChainInductive, LabelExchangeBeforeReports, PTL
  <1>2. HandshakeInv => HeardCheckInInHand
    BY DEF HandshakeInv, StillInHand, HeardCheckInInHand, Working
  <1>3. Typed /\ DeleteOfStopped /\ ReportedImpliesLabelExchange /\ HandshakeInv
          /\ [HandshakeNext]_allVars => HandshakeInv'
    BY NextHandshake
  <1> QED
    BY <1>1, <1>2, <1>3, InitHandshake, PTL DEF HandshakeSafety

===============================================================================
