------------------------- MODULE TalkToServer_proofs --------------------------
(***************************************************************************)
(* Proofs about TalkToServer, for any number of progress reports.  They    *)
(* rest on what a call in progress is to the spooler: at most one command  *)
(* of each thread is queued or being run, that thread waits for it, and it *)
(* is still the command that the state of the thread calls for.            *)
(***************************************************************************)
EXTENDS TalkToServer, SequenceTheorems, TLAPS

\* A thread is inside a call only where its script lets it call.
MidCall ==
  /\ pc[Main] # "idle" => stage \in Ops
  /\ pc[Reporter] # "idle" => reports < MaxReports

Typed == TypeOK /\ MidCall

\* This command is one its thread waits for.
Awaited(c) == pc[c.caller] = "wait" /\ c = Command(c.caller)

InHand(c) == c = current \/ \E i \in 1 .. Len(queue) : c = queue[i]

OnePerThread ==
  /\ current # None =>
       \A i \in 1 .. Len(queue) : queue[i].caller # current.caller
  /\ \A i, j \in 1 .. Len(queue) :
       i # j => queue[i].caller # queue[j].caller

Pending ==
  /\ \A c \in Commands : InHand(c) => Awaited(c)
  /\ OnePerThread

\* How the spooler ends, and where that leaves the main thread.
Endings ==
  /\ isFinished =>
       spooler = "exited" \/ (spooler = "finish" /\ current.op = "cleanup")
  /\ spooler = "dead" => connection = "lost"
  /\ spooler = "exited" =>
       \/ stage = "cleanup" /\ pc[Main] = "woken"
       \/ stage = "over" /\ pc[Main] = "idle"

\* The ceremony only goes forward.
Rank(s) ==
  CASE s = "checkin" -> 1
    [] s = "label"   -> 2
    [] s = "osmosis" -> 3
    [] s \in {"done", "failed"} -> 4
    [] s = "cleanup" -> 5
    [] s = "over"    -> 6
    [] OTHER         -> 0

\* A command that was put belongs to a stage, or a report, that is past, or
\* to the call in progress.
Past(c) ==
  IF c.caller = Main
  THEN \/ Rank(c.op) < Rank(stage)
       \/ c.op = stage /\ pc[Main] \in {"wait", "woken"}
  ELSE \/ c.n < reports
       \/ c.n = reports /\ pc[Reporter] \in {"wait", "woken"}

WasPut(c) == \E i \in 1 .. Len(submitted) : submitted[i] = c

Once == \A c \in Commands : WasPut(c) => Past(c)

\* What follows "executed" in the order of the puts: the command about to be
\* run, then the queue.
Running == IF spooler = "run" THEN 1 ELSE 0

Order ==
  /\ Len(submitted) = Len(executed) + Running + Len(queue)
  /\ \A i \in 1 .. Len(executed) : submitted[i] = executed[i]
  /\ spooler = "run" => current = submitted[Len(executed) + 1]
  /\ \A i \in 1 .. Len(queue) :
       submitted[Len(executed) + Running + i] = queue[i]


-------------------------------------------------------------------------------
(* Type correctness *)

LEMMA CommandTyped ==
  ASSUME Typed, NEW t \in Callers, pc[t] # "idle"
  PROVE  Command(t) \in Commands
  <1>1. About(t) \in Ops
    BY ThreadsAssumption
    DEF Typed, MidCall, About, Callers, Ops, Statuses
  <1>2. reports \in 0 .. MaxReports /\ 0 \in 0 .. MaxReports
    BY ReportsAssumption DEF Typed, TypeOK
  <1>3. \A o \in Ops, k \in 0 .. MaxReports :
          [caller |-> t, op |-> o, n |-> k] \in Commands
    BY DEF Commands
  <1>4. CASE t = Main
    <2>1. Command(t) = [caller |-> t, op |-> About(t), n |-> 0]
      BY <1>4 DEF Command
    <2> QED
      BY <1>1, <1>2, <1>3, <2>1
  <1>5. CASE t # Main
    <2>1. Command(t) = [caller |-> t, op |-> About(t), n |-> reports]
      BY <1>5 DEF Command
    <2> QED
      BY <1>1, <1>2, <1>3, <2>1
  <1> QED
    BY <1>4, <1>5

LEMMA InitTyped == Init => Typed
  <1> SUFFICES ASSUME Init
               PROVE  Typed
    OBVIOUS
  <1>1. TypeOK
    <2>1. stage \in Stages /\ reports \in 0 .. MaxReports /\ labels \in 0 .. 1
      BY ReportsAssumption DEF Init, Stages, Ops, Statuses
    <2>2. reporterAlive \in BOOLEAN /\ isFinished \in BOOLEAN
      BY Zenon DEF Init
    <2>3. /\ pc \in [Callers -> {"idle", "put", "wait", "woken"}]
          /\ outcome \in [Callers -> {"ok", "raised"}]
      BY DEF Init
    <2>4. /\ queue \in Seq(Commands) /\ published \in Seq(Statuses)
          /\ submitted \in Seq(Commands) /\ executed \in Seq(Commands)
      BY DEF Init
    <2>5. /\ spooler = "get" /\ current = None /\ connection = "up"
      BY DEF Init
    <2> QED
      BY <2>1, <2>2, <2>3, <2>4, <2>5 DEF TypeOK
  <1>2. MidCall
    BY DEF Init, MidCall, Callers
  <1> QED
    BY <1>1, <1>2 DEF Typed

LEMMA CallReturnsTyped ==
  ASSUME Typed, NEW t \in Callers, NEW result \in {"ok", "raised"},
         CallReturns(t, result), MayCall(t) \/ pc[t] # "idle"
  PROVE  /\ stage' \in Stages /\ reporterAlive' \in BOOLEAN
         /\ reports' \in 0 .. MaxReports
         /\ t = Main => UNCHANGED reports
         /\ t = Reporter => UNCHANGED stage
  <1>1. CASE t = Main
    <2>1. stage' = AfterStage(result) /\ UNCHANGED <<reports, reporterAlive>>
      BY <1>1 DEF CallReturns
    <2>2. AfterStage(result) \in Stages
      BY DEF AfterStage, Stages, Ops, Statuses
    <2> QED
      BY <1>1, <2>1, <2>2, ThreadsAssumption DEF Typed, TypeOK
  <1>2. CASE t = Reporter
    <2>1. reports < MaxReports
      BY <1>2, ThreadsAssumption DEF MayCall, Typed, MidCall
    <2>2. reporterAlive' = (result = "ok") /\ reports' = reports + 1
            /\ UNCHANGED stage
      BY <1>2, ThreadsAssumption DEF CallReturns
    <2>3. reporterAlive' \in BOOLEAN
      BY <2>2, Zenon
    <2> QED
      BY <1>2, <2>1, <2>2, <2>3, ThreadsAssumption, ReportsAssumption
      DEF Typed, TypeOK
  <1> QED
    BY <1>1, <1>2 DEF Callers

LEMMA NextTyped == Typed /\ Pending /\ [Next]_vars => Typed'
  <1> USE ThreadsAssumption, ReportsAssumption
  <1> SUFFICES ASSUME Typed, Pending, [Next]_vars
               PROVE  Typed'
    OBVIOUS
  <1>1. ASSUME NEW t \in Callers, Call(t)
        PROVE  Typed'
    <2>1. TypeOK'
      BY <1>1 DEF Call, Typed, TypeOK, callerVars, spoolerVars, brokerVars,
                  orderVars
    <2>2. MidCall'
      BY <1>1 DEF Call, Typed, TypeOK, MidCall, MayCall, Callers, callerVars
    <2> QED
      BY <2>1, <2>2 DEF Typed
  <1>2. ASSUME NEW t \in Callers, CannotReuse(t)
        PROVE  Typed'
    <2>1. /\ stage' \in Stages /\ reporterAlive' \in BOOLEAN
          /\ reports' \in 0 .. MaxReports
          /\ t = Main => UNCHANGED reports
          /\ t = Reporter => UNCHANGED stage
      BY <1>2, CallReturnsTyped DEF CannotReuse
    <2>2. UNCHANGED <<callVars, spoolerVars, brokerVars, orderVars>>
            /\ pc[t] = "idle"
      BY <1>2 DEF CannotReuse
    <2>3. TypeOK'
      BY <2>1, <2>2 DEF Typed, TypeOK, callVars, spoolerVars, brokerVars,
                        orderVars
    <2>4. MidCall'
      BY <2>1, <2>2 DEF Typed, MidCall, Callers, callVars
    <2> QED
      BY <2>3, <2>4 DEF Typed
  <1>3. ASSUME NEW t \in Callers, Put(t)
        PROVE  Typed'
    <2>1. Command(t) \in Commands
      BY <1>3, CommandTyped DEF Put
    <2>2. TypeOK'
      BY <1>3, <2>1 DEF Put, Typed, TypeOK, callerVars, brokerVars
    <2>3. MidCall'
      BY <1>3 DEF Put, Typed, TypeOK, MidCall, Callers, callerVars
    <2> QED
      BY <2>2, <2>3 DEF Typed
  <1>4. ASSUME NEW t \in Callers, Return(t)
        PROVE  Typed'
    <2>1. outcome[t] \in {"ok", "raised"}
      BY DEF Typed, TypeOK
    <2>2. /\ stage' \in Stages /\ reporterAlive' \in BOOLEAN
          /\ reports' \in 0 .. MaxReports
          /\ t = Main => UNCHANGED reports
          /\ t = Reporter => UNCHANGED stage
      BY <1>4, <2>1, CallReturnsTyped DEF Return
    <2>3. UNCHANGED <<outcome, spoolerVars, brokerVars, orderVars>>
            /\ pc' = [pc EXCEPT ![t] = "idle"]
      BY <1>4 DEF Return
    <2>4. TypeOK'
      BY <2>2, <2>3 DEF Typed, TypeOK, spoolerVars, brokerVars, orderVars
    <2>5. MidCall'
      BY <2>2, <2>3 DEF Typed, TypeOK, MidCall, Callers
    <2> QED
      BY <2>4, <2>5 DEF Typed
  <1>5. CASE OsmosisSucceeds \/ OsmosisFails \/ CeremonyFails
    BY <1>5 DEF OsmosisSucceeds, OsmosisFails, CeremonyFails, Typed, TypeOK,
                MidCall, Stages, Ops, Statuses, callVars, spoolerVars,
                brokerVars, orderVars
  <1>6. CASE Get
    <2>1. Head(queue) \in Commands /\ Tail(queue) \in Seq(Commands)
      BY <1>6 DEF Get, Typed, TypeOK
    <2>2. Head(queue) # None
      BY <2>1, NoneAssumption
    <2>3. TypeOK'
      BY <1>6, <2>1, <2>2 DEF Get, Typed, TypeOK, callerVars, callVars,
                              brokerVars, orderVars
    <2> QED
      BY <1>6, <2>3 DEF Get, Typed, MidCall, callerVars, callVars
  <1>7. CASE PublishStatus \/ GetLabel \/ CleanUpResources
    <2>1. spooler = "run" /\ executed' = Append(executed, current)
            /\ UNCHANGED <<callerVars, pc, queue, current, submitted>>
      BY <1>7 DEF PublishStatus, GetLabel, CleanUpResources, Run
    <2>2. current \in Commands /\ current.caller \in Callers
      BY <2>1 DEF Typed, TypeOK, Commands
    <2>3. /\ spooler' \in {"events", "finish"}
          /\ \/ outcome' = [outcome EXCEPT ![current.caller] = "ok"]
             \/ outcome' = [outcome EXCEPT ![current.caller] = "raised"]
      BY <1>7 DEF PublishStatus, GetLabel, CleanUpResources, CommandReturns,
                  CommandRaises
    <2>4. \/ UNCHANGED published
          \/ published' = Append(published, current.op) /\ current.op \in Statuses
      BY <1>7 DEF PublishStatus, GetLabel, CleanUpResources
    <2>5. published' \in Seq(Statuses)
      <3>1. published \in Seq(Statuses)
        BY DEF Typed, TypeOK
      <3> QED
        BY <2>4, <3>1, AppendProperties
    <2>6. /\ labels' \in 0 .. 1 /\ connection' \in {"up", "lost", "closed"}
          /\ isFinished' \in BOOLEAN
      <3>1. CASE PublishStatus
        BY <3>1 DEF PublishStatus, Typed, TypeOK
      <3>2. CASE GetLabel
        <4>1. UNCHANGED <<isFinished, connection>>
          BY <3>2 DEF GetLabel
        <4>2. UNCHANGED labels \/ (labels > 0 /\ labels' = labels - 1)
          BY <3>2 DEF GetLabel
        <4> QED
          BY <4>1, <4>2 DEF Typed, TypeOK
      <3>3. CASE CleanUpResources
        BY <3>3 DEF CleanUpResources, Typed, TypeOK
      <3> QED
        BY <1>7, <3>1, <3>2, <3>3
    <2>7. outcome' \in [Callers -> {"ok", "raised"}]
      BY <2>3 DEF Typed, TypeOK
    <2>8. executed' \in Seq(Commands)
      BY <2>1, <2>2 DEF Typed, TypeOK
    <2>9. TypeOK'
      BY <2>1, <2>3, <2>5, <2>6, <2>7, <2>8 DEF Typed, TypeOK, callerVars
    <2> QED
      BY <2>1, <2>9 DEF Typed, MidCall, callerVars
  <1>8. CASE ProcessDataEvents
    <2>1. current \in Commands /\ current.caller \in Callers
      BY <1>8 DEF ProcessDataEvents, Typed, TypeOK, Commands
    <2> QED
      BY <1>8, <2>1 DEF ProcessDataEvents, Typed, TypeOK, MidCall, callerVars,
                        brokerVars, orderVars
  <1>9. CASE Finish
    <2>1. current \in Commands /\ current.caller \in Callers
      BY <1>9 DEF Finish, Typed, TypeOK, Commands
    <2>2. pc[current.caller] = "wait"
      BY <1>9, <2>1 DEF Finish, Pending, InHand, Awaited
    <2>3. /\ pc' = [pc EXCEPT ![current.caller] = "woken"]
          /\ current' = None /\ spooler' \in {"exited", "get"}
          /\ UNCHANGED <<callerVars, outcome, queue, isFinished, brokerVars,
                         orderVars>>
      BY <1>9 DEF Finish
    <2>4. TypeOK'
      BY <2>3 DEF Typed, TypeOK, callerVars, brokerVars, orderVars
    <2>5. MidCall'
      BY <2>1, <2>2, <2>3 DEF Typed, TypeOK, MidCall, callerVars
    <2> QED
      BY <2>4, <2>5 DEF Typed
  <1>10. CASE IdleDeath \/ ConnectionLost \/ LabelArrives \/ UNCHANGED vars
    BY <1>10 DEF IdleDeath, ConnectionLost, LabelArrives, Typed, TypeOK, MidCall,
                 vars, callerVars, callVars, spoolerVars, brokerVars, orderVars
  <1> QED
    BY <1>1, <1>2, <1>3, <1>4, <1>5, <1>6, <1>7, <1>8, <1>9, <1>10
    DEF Next, Spool

-------------------------------------------------------------------------------
(* The calls in progress *)

\* A command stays the one its thread waits for as long as the thread waits
\* and its own part of the script stands still.
LEMMA StillAwaited ==
  ASSUME Typed, NEW c \in Commands, Awaited(c),
         pc'[c.caller] = pc[c.caller],
         c.caller = Main => UNCHANGED stage,
         c.caller = Reporter => UNCHANGED reports
  PROVE  Awaited(c)'
  <1>1. c.caller \in {Main, Reporter}
    BY DEF Commands, Callers
  <1>2. CASE c.caller = Main
    <2>1. Command(c.caller)' = Command(c.caller)
      BY <1>2 DEF Command, About
    <2> QED
      BY <2>1 DEF Awaited
  <1>3. CASE c.caller = Reporter
    <2>1. Command(c.caller)' = Command(c.caller)
      BY <1>3, ThreadsAssumption DEF Command, About
    <2> QED
      BY <2>1 DEF Awaited
  <1> QED
    BY <1>1, <1>2, <1>3

LEMMA NextAwaited ==
  ASSUME Typed, Pending, [Next]_vars, NEW c \in Commands, InHand(c)'
  PROVE  Awaited(c)'
  <1>0. c.caller \in Callers /\ c # None
    BY NoneAssumption DEF Commands
  \* The steps that leave the spooler's hands as they are
  <1>a. ASSUME UNCHANGED <<queue, current>>,
               pc'[c.caller] = pc[c.caller] \/ pc[c.caller] # "wait",
               pc[c.caller] = "wait" /\ c.caller = Main => UNCHANGED stage,
               pc[c.caller] = "wait" /\ c.caller = Reporter => UNCHANGED reports
        PROVE  Awaited(c)'
    <2>1. Awaited(c)
      BY <1>a DEF InHand, Pending
    <2>2. pc[c.caller] = "wait"
      BY <2>1 DEF Awaited
    <2> QED
      BY <1>a, <2>1, <2>2, StillAwaited
  <1>1. ASSUME NEW t \in Callers, Call(t)
        PROVE  Awaited(c)'
    <2>1. pc'[c.caller] = pc[c.caller] \/ pc[c.caller] # "wait"
      BY <1>0, <1>1 DEF Call, Typed, TypeOK
    <2>2. UNCHANGED <<queue, current, stage, reports>>
      BY <1>1 DEF Call, callerVars, spoolerVars
    <2> QED
      BY <1>a, <2>1, <2>2
  <1>2. ASSUME NEW t \in Callers, CannotReuse(t)
        PROVE  Awaited(c)'
    <2>1. UNCHANGED <<queue, current, pc>> /\ pc[t] = "idle"
      BY <1>2 DEF CannotReuse, callVars, spoolerVars
    <2>2. /\ t = Main => UNCHANGED reports
          /\ t = Reporter => UNCHANGED stage
      BY <1>2, ThreadsAssumption DEF CannotReuse, CallReturns
    <2> QED
      BY <1>0, <1>a, <2>1, <2>2 DEF Callers
  <1>3. ASSUME NEW t \in Callers, Put(t)
        PROVE  Awaited(c)'
    <2>1. /\ queue' = Append(queue, Command(t)) /\ pc[t] = "put"
          /\ pc' = [pc EXCEPT ![t] = "wait"]
          /\ UNCHANGED <<stage, reports, current>>
      BY <1>3 DEF Put, callerVars
    <2>2. CASE InHand(c)
      <3>1. Awaited(c)
        BY <2>2 DEF Pending
      <3>2. pc'[c.caller] = pc[c.caller]
        BY <1>0, <2>1, <3>1 DEF Awaited, Typed, TypeOK
      <3> QED
        BY <2>1, <3>1, <3>2, StillAwaited
    <2>3. CASE ~ InHand(c)
      <3>1. queue \in Seq(Commands) /\ Command(t) \in Commands
        BY <2>1, CommandTyped DEF Typed, TypeOK
      <3>2. PICK i \in 1 .. Len(queue') : c = queue'[i]
        BY <2>1, <2>3 DEF InHand
      <3>3. i \notin 1 .. Len(queue)
        BY <2>1, <2>3, <3>1, <3>2 DEF InHand
      <3>4. c = Command(t)
        BY <2>1, <3>1, <3>2, <3>3
      <3>5. c.caller = t
        BY <3>4 DEF Command
      <3>6. c = Command(t)'
        BY <2>1, <3>4 DEF Command, About
      <3>7. pc'[t] = "wait"
        BY <2>1 DEF Typed, TypeOK
      <3> QED
        BY <3>5, <3>6, <3>7 DEF Awaited
    <2> QED
      BY <2>2, <2>3
  <1>4. ASSUME NEW t \in Callers, Return(t)
        PROVE  Awaited(c)'
    <2>1. UNCHANGED <<queue, current>> /\ pc[t] = "woken"
            /\ pc' = [pc EXCEPT ![t] = "idle"]
      BY <1>4 DEF Return, spoolerVars
    <2>2. /\ t = Main => UNCHANGED reports
          /\ t = Reporter => UNCHANGED stage
      BY <1>4, ThreadsAssumption DEF Return, CallReturns
    <2>3. pc'[c.caller] = pc[c.caller] \/ pc[c.caller] # "wait"
      BY <1>0, <2>1 DEF Typed, TypeOK
    <2> QED
      BY <1>0, <1>a, <2>1, <2>2, <2>3 DEF Callers
  <1>5. CASE OsmosisSucceeds \/ OsmosisFails \/ CeremonyFails
    <2>1. UNCHANGED <<queue, current, pc, reports>> /\ stage = "osmosis"
      BY <1>5 DEF OsmosisSucceeds, OsmosisFails, CeremonyFails, callVars,
                  spoolerVars
    <2>2. pc[Main] = "idle"
      BY <2>1 DEF Typed, MidCall, Ops, Statuses
    <2> QED
      BY <1>a, <2>1, <2>2
  <1>6. CASE Get
    <2>1. UNCHANGED <<pc, stage, reports>> /\ queue # <<>>
            /\ current' = Head(queue) /\ queue' = Tail(queue)
      BY <1>6 DEF Get, callVars, callerVars
    <2>2. queue \in Seq(Commands)
      BY DEF Typed, TypeOK
    <2>3. InHand(c)
      BY <2>1, <2>2 DEF InHand
    <2>4. Awaited(c)
      BY <2>3 DEF Pending
    <2> QED
      BY <2>1, <2>4, StillAwaited
  <1>7. CASE Finish
    <2>1. /\ UNCHANGED <<queue, stage, reports>> /\ current' = None
          /\ pc' = [pc EXCEPT ![current.caller] = "woken"]
          /\ current # None
      BY <1>7 DEF Finish, callerVars, Typed, TypeOK
    <2>2. PICK i \in 1 .. Len(queue) : c = queue[i]
      BY <1>0, <2>1 DEF InHand
    <2>3. c.caller # current.caller
      BY <2>1, <2>2 DEF Pending, OnePerThread
    <2>4. pc'[c.caller] = pc[c.caller]
      BY <1>0, <2>1, <2>3 DEF Typed, TypeOK
    <2>5. Awaited(c)
      BY <2>2 DEF Pending, InHand
    <2> QED
      BY <2>1, <2>4, <2>5, StillAwaited
  <1>8. CASE \/ PublishStatus \/ GetLabel \/ CleanUpResources
             \/ ProcessDataEvents \/ IdleDeath \/ ConnectionLost
             \/ LabelArrives \/ UNCHANGED vars
    <2>1. UNCHANGED <<queue, current, pc, stage, reports>>
      BY <1>8 DEF PublishStatus, GetLabel, CleanUpResources, ProcessDataEvents,
                  IdleDeath, ConnectionLost, LabelArrives, vars, callerVars,
                  callVars, spoolerVars
    <2> QED
      BY <1>a, <2>1
  <1> QED
    BY <1>1, <1>2, <1>3, <1>4, <1>5, <1>6, <1>7, <1>8 DEF Next, Spool

LEMMA NextOnePerThread == Typed /\ Pending /\ [Next]_vars => OnePerThread'
  <1> SUFFICES ASSUME Typed, Pending, [Next]_vars
               PROVE  OnePerThread'
    OBVIOUS
  <1>0. queue \in Seq(Commands)
    BY DEF Typed, TypeOK
  <1>1. ASSUME NEW t \in Callers, Put(t)
        PROVE  OnePerThread'
    <2>1. queue' = Append(queue, Command(t)) /\ pc[t] = "put"
            /\ UNCHANGED current
      BY <1>1 DEF Put
    <2>2. Command(t) \in Commands /\ Command(t).caller = t
      BY <2>1, CommandTyped DEF Command
    <2>3. \A i \in 1 .. Len(queue) : queue[i].caller # t
      BY <1>0, <2>1 DEF Pending, InHand, Awaited
    <2>4. current # None => current.caller # t
      BY <2>1 DEF Typed, TypeOK, Pending, InHand, Awaited
    <2>5. /\ Len(queue') = Len(queue) + 1
          /\ \A i \in 1 .. Len(queue) : queue'[i] = queue[i]
          /\ queue'[Len(queue) + 1].caller = t
      BY <1>0, <2>1, <2>2
    <2>6. \A i \in 1 .. Len(queue') :
            i \in 1 .. Len(queue) \/ i = Len(queue) + 1
      BY <1>0, <2>5
    <2> QED
      BY <2>1, <2>3, <2>4, <2>5, <2>6 DEF Pending, OnePerThread
  <1>2. CASE Get
    <2>1. /\ Len(queue') = Len(queue) - 1
          /\ \A i \in 1 .. Len(queue') :
               queue'[i] = queue[i + 1] /\ i + 1 \in 1 .. Len(queue)
          /\ current' = queue[1] /\ 1 \in 1 .. Len(queue)
      BY <1>0, <1>2 DEF Get
    <2>2. \A i, j \in 1 .. Len(queue) :
            i # j => queue[i].caller # queue[j].caller
      BY DEF Pending, OnePerThread
    <2>3. \A i \in 1 .. Len(queue') : queue'[i].caller # current'.caller
      BY <2>1, <2>2
    <2>4. \A i, j \in 1 .. Len(queue') :
            i # j => queue'[i].caller # queue'[j].caller
      BY <2>1, <2>2
    <2> QED
      BY <2>3, <2>4 DEF OnePerThread
  <1>3. CASE Finish
    BY <1>3 DEF Finish, Pending, OnePerThread
  <1>4. CASE ~ (Get \/ Finish \/ \E t \in Callers : Put(t))
    <2>1. UNCHANGED <<queue, current>>
      BY <1>4 DEF Next, Spool, Call, CannotReuse, Return, OsmosisSucceeds,
                  OsmosisFails, CeremonyFails, PublishStatus, GetLabel,
                  CleanUpResources, ProcessDataEvents, IdleDeath,
                  ConnectionLost, LabelArrives, vars, spoolerVars
    <2> QED
      BY <2>1 DEF Pending, OnePerThread
  <1> QED
    BY <1>1, <1>2, <1>3, <1>4

LEMMA InitPending == Init => Pending
  <1> SUFFICES ASSUME Init
               PROVE  Pending
    OBVIOUS
  <1>1. current = None /\ queue = <<>>
    BY DEF Init
  <1> QED
    BY <1>1, NoneAssumption DEF Pending, OnePerThread, InHand

LEMMA NextPending == Typed /\ Pending /\ [Next]_vars => Pending'
  <1> SUFFICES ASSUME Typed, Pending, [Next]_vars
               PROVE  Pending'
    OBVIOUS
  <1>1. ASSUME NEW c \in Commands, InHand(c)'
        PROVE  Awaited(c)'
    BY <1>1, NextAwaited
  <1>2. OnePerThread'
    BY NextOnePerThread
  <1> QED
    BY <1>1, <1>2 DEF Pending

LEMMA PendingInductive == Safety => [](Typed /\ Pending)
  <1>1. Init => Typed /\ Pending
    BY InitTyped, InitPending
  <1>2. (Typed /\ Pending) /\ [Next]_vars => (Typed /\ Pending)'
    BY NextTyped, NextPending
  <1> QED
    BY <1>1, <1>2, PTL DEF Safety

\* The variables of the station keep their types; in particular the spooler has
\* a command in hand exactly from the moment it takes it to the moment it sets
\* its finishedEvent.
THEOREM TypeCorrect == Safety => []TypeOK
  BY PendingInductive, PTL DEF Typed

-------------------------------------------------------------------------------
(* No call is forgotten *)

LEMMA NextServed ==
  Typed /\ WaitingCallIsServed /\ [Next]_vars => WaitingCallIsServed'
  <1> SUFFICES ASSUME Typed, WaitingCallIsServed, [Next]_vars, ~ Ended',
                      NEW t \in Callers, pc'[t] = "wait"
               PROVE  \/ current' # None /\ current'.caller = t
                      \/ \E i \in 1 .. Len(queue') : queue'[i].caller = t
    BY DEF WaitingCallIsServed
  <1>0. queue \in Seq(Commands)
    BY DEF Typed, TypeOK
  <1>1. ASSUME NEW u \in Callers, Put(u)
        PROVE  \/ current' # None /\ current'.caller = t
               \/ \E i \in 1 .. Len(queue') : queue'[i].caller = t
    <2>1. /\ queue' = Append(queue, Command(u)) /\ pc[u] = "put"
          /\ pc' = [pc EXCEPT ![u] = "wait"] /\ UNCHANGED <<current, spooler>>
      BY <1>1 DEF Put
    <2>2. Command(u) \in Commands /\ Command(u).caller = u
      BY <2>1, CommandTyped DEF Command
    <2>3. /\ Len(queue') = Len(queue) + 1 /\ Len(queue) \in Nat
          /\ \A i \in 1 .. Len(queue) : queue'[i] = queue[i]
          /\ queue'[Len(queue) + 1].caller = u
      BY <1>0, <2>1, <2>2
    <2>4. CASE t = u
      BY <2>3, <2>4
    <2>5. CASE t # u
      <3>1. pc[t] = "wait" /\ ~ Ended
        BY <2>1, <2>5 DEF Typed, TypeOK, Ended
      <3>2. \/ current # None /\ current.caller = t
            \/ \E i \in 1 .. Len(queue) : queue[i].caller = t
        BY <3>1 DEF WaitingCallIsServed
      <3> QED
        BY <2>1, <2>3, <3>2
    <2> QED
      BY <2>4, <2>5
  <1>2. ASSUME ~ \E u \in Callers : Put(u)
        PROVE  pc[t] = "wait" /\ ~ Ended
    BY <1>2 DEF Next, Spool, Call, CannotReuse, Return, OsmosisSucceeds,
                OsmosisFails, CeremonyFails, PublishStatus, GetLabel, Get,
                CleanUpResources, ProcessDataEvents, IdleDeath, Finish,
                ConnectionLost, LabelArrives, CommandReturns, CommandRaises,
                Run, vars, spoolerVars, callVars, Ended, Typed, TypeOK
  <1>3. ASSUME ~ \E u \in Callers : Put(u)
        PROVE  \/ current # None /\ current.caller = t
               \/ \E i \in 1 .. Len(queue) : queue[i].caller = t
    BY <1>2, <1>3 DEF WaitingCallIsServed
  <1>4. CASE Get
    <2>1. /\ Len(queue') = Len(queue) - 1 /\ Len(queue) \in Nat
          /\ \A i \in 1 .. Len(queue') : queue'[i] = queue[i + 1]
          /\ current' = queue[1] /\ current = None
          /\ queue # <<>> /\ Len(queue) > 0
      BY <1>0, <1>4 DEF Get, Typed, TypeOK
    <2>2. current' # None
      BY <1>0, <2>1, NoneAssumption
    <2>3. ~ \E u \in Callers : Put(u)
      BY <1>4 DEF Get, Put, callVars, Typed, TypeOK
    <2>4. PICK i \in 1 .. Len(queue) : queue[i].caller = t
      BY <1>3, <2>1, <2>3
    <2>5. CASE i = 1
      BY <2>1, <2>2, <2>4, <2>5
    <2>6. CASE i # 1
      <3>1. i - 1 \in 1 .. Len(queue') /\ (i - 1) + 1 = i
        BY <2>1, <2>6
      <3> QED
        BY <2>1, <2>4, <3>1
    <2> QED
      BY <2>5, <2>6
  <1>5. CASE Finish
    <2>1. /\ UNCHANGED queue /\ current # None
          /\ pc' = [pc EXCEPT ![current.caller] = "woken"]
      BY <1>5 DEF Finish, Typed, TypeOK
    <2>2. current.caller # t
      BY <2>1 DEF Typed, TypeOK
    <2>3. ~ \E u \in Callers : Put(u)
      BY <1>5 DEF Finish, Put
    <2> QED
      BY <1>3, <2>1, <2>2, <2>3
  <1>6. CASE ~ (Get \/ Finish \/ \E u \in Callers : Put(u))
    <2>1. UNCHANGED <<queue, current>>
      BY <1>6 DEF Next, Spool, Call, CannotReuse, Return, OsmosisSucceeds,
                  OsmosisFails, CeremonyFails, PublishStatus, GetLabel,
                  CleanUpResources, ProcessDataEvents, IdleDeath,
                  ConnectionLost, LabelArrives, vars, spoolerVars
    <2> QED
      BY <1>3, <1>6, <2>1
  <1> QED
    BY <1>1, <1>4, <1>5, <1>6

\* The finishedEvent of a thread that waits is never forgotten while the spooler
\* lives: its command is queued or in hand, whatever the commands before it
\* raised.
THEOREM WaitersServed == Safety => []WaitingCallIsServed
  <1>1. Init => WaitingCallIsServed
    BY DEF Init, WaitingCallIsServed
  <1> QED
    BY <1>1, PendingInductive, NextServed, PTL DEF Safety

-------------------------------------------------------------------------------
(* How the spooler ends *)

LEMMA InitEndings == Init => Endings
  BY DEF Init, Endings

LEMMA NextEndings == Typed /\ Pending /\ Endings /\ [Next]_vars => Endings'
  <1> USE ThreadsAssumption
  <1> SUFFICES ASSUME Typed, Pending, Endings, [Next]_vars
               PROVE  Endings'
    OBVIOUS
  <1>1. ASSUME NEW t \in Callers, Call(t) \/ CannotReuse(t) \/ Put(t) \/ Return(t)
        PROVE  Endings'
    <2>1. UNCHANGED <<spooler, current, isFinished, connection>>
      BY <1>1 DEF Call, CannotReuse, Put, Return, spoolerVars, brokerVars
    <2>2. ASSUME spooler = "exited", t = Main
          PROVE  \/ stage' = "cleanup" /\ pc'[Main] = "woken"
                 \/ stage' = "over" /\ pc'[Main] = "idle"
      <3>1. \/ stage = "cleanup" /\ pc[Main] = "woken"
            \/ stage = "over" /\ pc[Main] = "idle"
        BY <2>2 DEF Endings
      <3>2. ~ MayCall(Main) \/ pc[Main] = "woken"
        BY <3>1 DEF MayCall, Ops, Statuses
      <3>3. Return(Main) /\ stage = "cleanup"
        BY <1>1, <2>2, <3>1, <3>2 DEF Call, CannotReuse, Put, Return
      <3>4. pc'[Main] = "idle"
        BY <3>3 DEF Return, Typed, TypeOK, Callers
      <3>5. stage' = AfterStage(outcome[Main])
        BY <3>3 DEF Return, CallReturns
      <3>6. stage' = "over"
        BY <3>3, <3>5 DEF AfterStage
      <3> QED
        BY <3>4, <3>6
    <2>3. ASSUME t = Reporter
          PROVE  UNCHANGED stage /\ pc'[Main] = pc[Main]
      BY <1>1, <2>3 DEF Call, CannotReuse, Put, Return, CallReturns, callerVars,
                        callVars, Typed, TypeOK, Callers
    <2> QED
      BY <2>1, <2>2, <2>3 DEF Endings, Callers
  <1>2. CASE OsmosisSucceeds \/ OsmosisFails \/ CeremonyFails
    <2>1. UNCHANGED <<spooler, current, isFinished, connection>>
            /\ stage = "osmosis"
      BY <1>2 DEF OsmosisSucceeds, OsmosisFails, CeremonyFails, spoolerVars,
                  brokerVars
    <2> QED
      BY <2>1 DEF Endings
  <1>3. CASE CleanUpResources
    BY <1>3 DEF CleanUpResources, Run, Endings
  <1>4. CASE Finish
    <2>1. /\ UNCHANGED <<stage, isFinished, connection>> /\ current # None
          /\ pc' = [pc EXCEPT ![current.caller] = "woken"]
          /\ spooler' = IF isFinished THEN "exited" ELSE "get"
          /\ spooler = "finish"
      BY <1>4 DEF Finish, callerVars, brokerVars, Typed, TypeOK
    <2>2. CASE isFinished
      <3>1. current.op = "cleanup"
        BY <2>1, <2>2 DEF Endings
      <3>2. current = Command(current.caller) /\ current.caller \in Callers
              /\ pc[current.caller] = "wait"
        BY <2>1 DEF Typed, TypeOK, Pending, InHand, Awaited, Commands
      <3>3. About(current.caller) = "cleanup"
        BY <3>1, <3>2 DEF Command
      <3>4. current.caller = Main /\ stage = "cleanup"
        BY <3>2, <3>3 DEF About
      <3>5. pc'[Main] = "woken"
        BY <2>1, <3>4 DEF Typed, TypeOK, Callers
      <3> QED
        BY <2>1, <2>2, <3>4, <3>5 DEF Endings
    <2>3. CASE ~ isFinished
      BY <2>1, <2>3 DEF Endings
    <2> QED
      BY <2>2, <2>3
  <1>5. CASE ~ isFinished /\ (Get \/ PublishStatus \/ GetLabel \/ ProcessDataEvents)
    BY <1>5 DEF Get, PublishStatus, GetLabel, Run, CommandReturns, CommandRaises,
                ProcessDataEvents, Endings
  <1>6. Get \/ PublishStatus \/ GetLabel \/ ProcessDataEvents => ~ isFinished
    <2>1. Get \/ PublishStatus \/ GetLabel \/ ProcessDataEvents
            => spooler \in {"get", "run", "events"}
      BY DEF Get, PublishStatus, GetLabel, Run, ProcessDataEvents
    <2> QED
      BY <2>1 DEF Endings
  <1>7. CASE IdleDeath
    BY <1>7 DEF IdleDeath, brokerVars, Endings
  <1>8. CASE ConnectionLost \/ LabelArrives \/ UNCHANGED vars
    BY <1>8 DEF ConnectionLost, LabelArrives, vars, callerVars, callVars,
                spoolerVars, brokerVars, Endings
  <1> QED
    BY <1>1, <1>2, <1>3, <1>4, <1>5, <1>6, <1>7, <1>8 DEF Next, Spool

\* The main thread waits for a spooler that is gone only if the spooler died of
\* a connection that it found lost when idle: the clean-up, which the main
\* thread asks for itself, sets its event before it ends the spooler.
THEOREM MainNotStranded == Safety => []MainStrandedOnlyByLoss
  <1>1. Typed /\ Endings => MainStrandedOnlyByLoss
    BY DEF Typed, TypeOK, Endings, MainStrandedOnlyByLoss, Ended
  <1> QED
    BY <1>1, PendingInductive, InitEndings, NextEndings, PTL DEF Safety

-------------------------------------------------------------------------------
(* The order of the commands, and the abstract queue *)

\* The ceremony goes forward with every call that returns.
LEMMA RankIncreases ==
  ASSUME NEW s \in {"checkin", "label", "done", "failed", "cleanup"},
         NEW result \in {"ok", "raised"}, stage = s
  PROVE  Rank(stage) < Rank(AfterStage(result))
  BY DEF Rank, AfterStage

LEMMA NextPast ==
  ASSUME Typed, Pending, [Next]_vars, NEW c \in Commands, Past(c)
  PROVE  Past(c)'
  <1> USE ThreadsAssumption
  <1>0. /\ c.caller \in {Main, Reporter} /\ c.caller \in Callers
        /\ c.n \in Nat /\ reports \in Nat
    BY ReportsAssumption DEF Commands, Callers, Typed, TypeOK
  <1>a. ASSUME c.caller = Main, Rank(stage) < Rank(stage')
        PROVE  Past(c)'
    <2>1. Rank(c.op) \in Nat /\ Rank(stage) \in Nat /\ Rank(stage') \in Nat
      BY DEF Rank
    <2>2. Rank(c.op) <= Rank(stage)
      BY <1>a, <2>1 DEF Past
    <2>3. Rank(c.op) < Rank(stage')
      BY <1>a, <2>1, <2>2
    <2> QED
      BY <1>a, <2>3 DEF Past, Rank
  <1>b. ASSUME c.caller = Reporter, reports' = reports + 1
        PROVE  Past(c)'
    BY <1>0, <1>b DEF Past
  <1>c. ASSUME pc'[c.caller] = pc[c.caller]
                 \/ pc[c.caller] \notin {"wait", "woken"}
                 \/ pc'[c.caller] \in {"wait", "woken"},
               c.caller = Main => UNCHANGED stage,
               c.caller = Reporter => UNCHANGED reports
        PROVE  Past(c)'
    <2>1. CASE c.caller = Main
      BY <1>c, <2>1 DEF Past, Rank
    <2>2. CASE c.caller = Reporter
      BY <1>c, <2>2 DEF Past
    <2> QED
      BY <1>0, <2>1, <2>2
  <1>1. ASSUME NEW t \in Callers, Call(t) \/ Put(t)
        PROVE  Past(c)'
    <2>1. UNCHANGED <<stage, reports>>
      BY <1>1 DEF Call, Put, callerVars
    <2>2. \/ pc' = [pc EXCEPT ![t] = "put"] /\ pc[t] = "idle"
          \/ pc' = [pc EXCEPT ![t] = "wait"] /\ pc[t] = "put"
      BY <1>1 DEF Call, Put
    <2>3. \/ pc'[c.caller] = pc[c.caller]
          \/ pc[c.caller] \notin {"wait", "woken"}
      BY <1>0, <2>2 DEF Typed, TypeOK
    <2> QED
      BY <1>c, <2>1, <2>3
  <1>2. ASSUME NEW t \in Callers, CannotReuse(t) \/ Return(t)
        PROVE  Past(c)'
    <2>0. PICK result \in {"ok", "raised"} : CallReturns(t, result)
      BY <1>2 DEF CannotReuse, Return, Typed, TypeOK
    <2>1. CASE c.caller = t /\ t = Main
      <3>1. stage \in Ops /\ stage # "progress"
        BY <1>2, <2>1 DEF CannotReuse, Return, MayCall, Typed, TypeOK, MidCall,
                          Stages
      <3>2. Rank(stage) < Rank(AfterStage(result))
        BY <3>1, RankIncreases DEF Ops, Statuses
      <3>3. stage' = AfterStage(result)
        BY <2>0, <2>1 DEF CallReturns
      <3> QED
        BY <1>a, <2>1, <3>2, <3>3
    <2>2. CASE c.caller = t /\ t = Reporter
      BY <1>b, <2>0, <2>2 DEF CallReturns
    <2>3. CASE c.caller # t
      <3>1. pc'[c.caller] = pc[c.caller]
        <4>1. UNCHANGED pc \/ pc' = [pc EXCEPT ![t] = "idle"]
          BY <1>2 DEF CannotReuse, Return, callVars
        <4> QED
          BY <1>0, <2>3, <4>1 DEF Typed, TypeOK
      <3>2. /\ c.caller = Main => UNCHANGED stage
            /\ c.caller = Reporter => UNCHANGED reports
        BY <1>0, <2>0, <2>3 DEF CallReturns, Callers
      <3> QED
        BY <1>c, <3>1, <3>2
    <2> QED
      BY <1>0, <2>1, <2>2, <2>3
  <1>3. CASE OsmosisSucceeds \/ OsmosisFails \/ CeremonyFails
    <2>1. UNCHANGED <<pc, reports>> /\ stage = "osmosis"
            /\ stage' \in {"done", "failed", "over"}
      BY <1>3 DEF OsmosisSucceeds, OsmosisFails, CeremonyFails, callVars
    <2>2. Rank(stage) < Rank(stage')
      BY <2>1 DEF Rank
    <2> QED
      BY <1>0, <1>a, <1>c, <2>1, <2>2
  <1>4. CASE Finish
    <2>1. UNCHANGED <<stage, reports>>
            /\ pc' = [pc EXCEPT ![current.caller] = "woken"]
      BY <1>4 DEF Finish, callerVars
    <2>2. pc'[c.caller] = pc[c.caller] \/ pc'[c.caller] \in {"wait", "woken"}
      BY <1>0, <2>1 DEF Typed, TypeOK, Callers
    <2> QED
      BY <1>c, <2>1, <2>2
  <1>5. CASE \/ Get \/ PublishStatus \/ GetLabel \/ CleanUpResources
             \/ ProcessDataEvents \/ IdleDeath \/ ConnectionLost
             \/ LabelArrives \/ UNCHANGED vars
    <2>1. UNCHANGED <<pc, stage, reports>>
      BY <1>5 DEF Get, PublishStatus, GetLabel, CleanUpResources,
                  ProcessDataEvents, IdleDeath, ConnectionLost, LabelArrives,
                  vars, callerVars, callVars
    <2> QED
      BY <1>c, <2>1
  <1> QED
    BY <1>1, <1>2, <1>3, <1>4, <1>5 DEF Next, Spool

LEMMA NextOnce == Typed /\ Pending /\ Once /\ [Next]_vars => Once'
  <1> SUFFICES ASSUME Typed, Pending, Once, [Next]_vars,
                      NEW c \in Commands, WasPut(c)'
               PROVE  Past(c)'
    BY DEF Once
  <1>0. submitted \in Seq(Commands)
    BY DEF Typed, TypeOK
  <1>1. CASE WasPut(c)
    BY <1>1, NextPast DEF Once
  <1>2. CASE ~ WasPut(c)
    <2>1. PICK t \in Callers : Put(t)
      BY <1>2 DEF WasPut, Next, Spool, Call, CannotReuse, Return, OsmosisSucceeds,
                  OsmosisFails, CeremonyFails, Get, PublishStatus, GetLabel,
                  CleanUpResources, ProcessDataEvents, Finish, IdleDeath,
                  ConnectionLost, LabelArrives, vars, orderVars
    <2>2. /\ submitted' = Append(submitted, Command(t)) /\ pc[t] = "put"
          /\ pc' = [pc EXCEPT ![t] = "wait"] /\ UNCHANGED <<stage, reports>>
      BY <2>1 DEF Put, callerVars
    <2>3. Command(t) \in Commands
      BY <2>2, CommandTyped
    <2>4. PICK i \in 1 .. Len(submitted') : submitted'[i] = c
      BY DEF WasPut
    <2>5. i \notin 1 .. Len(submitted)
      BY <1>0, <1>2, <2>2, <2>3, <2>4 DEF WasPut
    <2>6. c = Command(t)
      BY <1>0, <2>2, <2>3, <2>4, <2>5
    <2>7. pc'[t] = "wait"
      BY <2>2 DEF Typed, TypeOK
    <2> QED
      BY <2>2, <2>6, <2>7, ThreadsAssumption DEF Past, Command, About, Callers
  <1> QED
    BY <1>1, <1>2

LEMMA InitOrder == Init => Once /\ Order
  BY DEF Init, Once, WasPut, Order, Running

LEMMA NextOrder == Typed /\ Order /\ [Next]_vars => Order'
  <1> SUFFICES ASSUME Typed, Order, [Next]_vars
               PROVE  Order'
    OBVIOUS
  <1>0. /\ queue \in Seq(Commands) /\ submitted \in Seq(Commands)
        /\ executed \in Seq(Commands) /\ Len(queue) \in Nat
        /\ Len(submitted) \in Nat /\ Len(executed) \in Nat
    BY DEF Typed, TypeOK
  <1>a. /\ Len(submitted) = Len(executed) + Running + Len(queue)
        /\ \A i \in 1 .. Len(executed) : submitted[i] = executed[i]
        /\ spooler = "run" => current = submitted[Len(executed) + 1]
        /\ \A i \in 1 .. Len(queue) :
             submitted[Len(executed) + Running + i] = queue[i]
        /\ Running \in {0, 1} /\ (spooler = "run" => Running = 1)
    BY DEF Order, Running
  <1>1. ASSUME NEW t \in Callers, Put(t)
        PROVE  Order'
    <2>0. Command(t) \in Commands
      BY <1>1, CommandTyped DEF Put
    <2>1. /\ Len(submitted') = Len(submitted) + 1
          /\ \A i \in 1 .. Len(submitted) : submitted'[i] = submitted[i]
          /\ submitted'[Len(submitted) + 1] = Command(t)
      BY <1>0, <1>1, <2>0 DEF Put
    <2>2. /\ Len(queue') = Len(queue) + 1
          /\ \A i \in 1 .. Len(queue) : queue'[i] = queue[i]
          /\ queue'[Len(queue) + 1] = Command(t)
      BY <1>0, <1>1, <2>0 DEF Put
    <2>3. UNCHANGED <<spooler, current, executed>> /\ Running' = Running
      BY <1>1 DEF Put, Running
    <2>4. Len(submitted') = Len(executed') + Running' + Len(queue')
      BY <1>0, <1>a, <2>1, <2>2, <2>3
    <2>5. \A i \in 1 .. Len(executed') : submitted'[i] = executed'[i]
      <3>1. \A i \in 1 .. Len(executed) : i \in 1 .. Len(submitted)
        BY <1>0, <1>a
      <3> QED
        BY <1>a, <2>1, <2>3, <3>1
    <2>6. spooler' = "run" => current' = submitted'[Len(executed') + 1]
      BY <1>0, <1>a, <2>1, <2>3
    <2>7. \A i \in 1 .. Len(queue') :
            submitted'[Len(executed') + Running' + i] = queue'[i]
      <3> SUFFICES ASSUME NEW i \in 1 .. Len(queue) + 1
                   PROVE  submitted'[Len(executed) + Running + i] = queue'[i]
        BY <2>2, <2>3
      <3>1. CASE i = Len(queue) + 1
        <4>1. Len(executed) + Running + i = Len(submitted) + 1
          BY <1>0, <1>a, <3>1
        <4> QED
          BY <3>1, <4>1, <2>1, <2>2
      <3>2. CASE i # Len(queue) + 1
        <4>1. i \in 1 .. Len(queue)
          BY <1>0, <3>2
        <4>2. Len(executed) + Running + i \in 1 .. Len(submitted)
          BY <1>0, <1>a, <4>1
        <4> QED
          BY <1>a, <4>1, <4>2, <2>1, <2>2
      <3> QED
        BY <3>1, <3>2
    <2> QED
      BY <2>4, <2>5, <2>6, <2>7 DEF Order
  <1>2. CASE Get
    <2>1. /\ Len(queue') = Len(queue) - 1 /\ Len(queue) > 0
          /\ \A i \in 1 .. Len(queue') : queue'[i] = queue[i + 1]
          /\ current' = queue[1]
      BY <1>0, <1>2 DEF Get
    <2>2. UNCHANGED <<submitted, executed>> /\ Running = 0 /\ Running' = 1
      BY <1>2 DEF Get, Running, orderVars
    <2>3. Len(submitted) = Len(executed) + 0 + Len(queue)
      BY <1>a, <2>2
    <2>4. Len(submitted') = Len(executed') + Running' + Len(queue')
      BY <1>0, <2>1, <2>2, <2>3
    <2>5. current' = submitted'[Len(executed') + 1]
      <3>1. 1 \in 1 .. Len(queue) /\ Len(executed) + Running + 1 = Len(executed) + 1
        BY <1>0, <2>1, <2>2
      <3> QED
        BY <1>a, <3>1, <2>1, <2>2
    <2>6. ASSUME NEW i \in 1 .. Len(queue')
          PROVE  submitted'[Len(executed') + Running' + i] = queue'[i]
      <3>1. i + 1 \in 1 .. Len(queue)
        BY <1>0, <2>1
      <3>2. Len(executed') + Running' + i = Len(executed) + Running + (i + 1)
        BY <1>0, <2>2
      <3> QED
        BY <1>a, <3>1, <3>2, <2>1, <2>2
    <2>7. \A i \in 1 .. Len(executed') : submitted'[i] = executed'[i]
      BY <1>a, <2>2
    <2> QED
      BY <2>4, <2>5, <2>6, <2>7 DEF Order
  <1>3. CASE PublishStatus \/ GetLabel \/ CleanUpResources
    <2>0. /\ executed' = Append(executed, current)
          /\ spooler = "run" /\ spooler' \in {"events", "finish"}
          /\ UNCHANGED <<submitted, queue>>
      BY <1>3 DEF PublishStatus, GetLabel, CleanUpResources, Run, CommandReturns,
                  CommandRaises
    <2>1. /\ Len(executed') = Len(executed) + 1
          /\ \A i \in 1 .. Len(executed) : executed'[i] = executed[i]
          /\ executed'[Len(executed) + 1] = current
      <3>1. current \in Commands
        BY <2>0 DEF Typed, TypeOK
      <3> QED
        BY <1>0, <2>0, <3>1
    <2>2. Running = 1 /\ Running' = 0
      BY <2>0 DEF Running
    <2>3. Len(submitted) = Len(executed) + 1 + Len(queue)
      BY <1>a, <2>2
    <2>4. Len(submitted') = Len(executed') + Running' + Len(queue')
      BY <1>0, <2>0, <2>1, <2>2, <2>3
    <2>5. \A i \in 1 .. Len(executed') : submitted'[i] = executed'[i]
      <3> SUFFICES ASSUME NEW i \in 1 .. Len(executed) + 1
                   PROVE  submitted[i] = executed'[i]
        BY <2>0, <2>1
      <3>1. i \in 1 .. Len(executed) \/ i = Len(executed) + 1
        BY <1>0
      <3> QED
        BY <1>a, <2>0, <2>1, <3>1
    <2>6. ASSUME NEW i \in 1 .. Len(queue')
          PROVE  submitted'[Len(executed') + Running' + i] = queue'[i]
      <3>1. Len(executed') + Running' + i = Len(executed) + Running + i
        BY <1>0, <2>1, <2>2
      <3> QED
        BY <1>a, <2>0, <3>1
    <2> QED
      BY <2>0, <2>4, <2>5, <2>6 DEF Order
  <1>4. ASSUME ~ (Get \/ PublishStatus \/ GetLabel \/ CleanUpResources),
               ~ \E t \in Callers : Put(t)
        PROVE  Order'
    <2>1. UNCHANGED <<submitted, queue, executed>>
      BY <1>4 DEF Next, Spool, Call, CannotReuse, Return, OsmosisSucceeds,
                  OsmosisFails, CeremonyFails, ProcessDataEvents, Finish,
                  IdleDeath, ConnectionLost, LabelArrives, vars, orderVars,
                  spoolerVars
    <2>2. UNCHANGED <<spooler, current>> \/ (spooler # "run" /\ spooler' # "run")
      BY <1>4 DEF Next, Spool, Call, CannotReuse, Return, OsmosisSucceeds,
                  OsmosisFails, CeremonyFails, ProcessDataEvents, Finish,
                  IdleDeath, ConnectionLost, LabelArrives, vars, spoolerVars
    <2> QED
      BY <1>a, <2>1, <2>2 DEF Order, Running
  <1> QED
    BY <1>1, <1>2, <1>3, <1>4

\* A put submits a command that was never submitted before, the run of a
\* command executes the oldest one not executed yet, and all other steps change
\* nothing the abstract queue sees.
LEMMA StepImplements ==
  Typed /\ Once /\ Order /\ [Next]_vars => [Abstract!Next]_(Abstract!vars)
  <1> SUFFICES ASSUME Typed, Once, Order, [Next]_vars
               PROVE  [Abstract!Next]_(Abstract!vars)
    OBVIOUS
  <1>1. ASSUME NEW t \in Callers, Put(t)
        PROVE  Abstract!Next
    <2>1. Command(t) \in Commands /\ pc[t] = "put"
      BY <1>1, CommandTyped DEF Put
    <2>2. ~ Past(Command(t))
      BY <2>1, ReportsAssumption, ThreadsAssumption
      DEF Past, Command, About, Rank, Callers, Typed, TypeOK
    <2>3. ~ WasPut(Command(t))
      BY <2>1, <2>2 DEF Once
    <2>4. Abstract!Submit(Command(t))
      BY <1>1, <2>3 DEF Put, WasPut, Abstract!Submit, Abstract!WasSubmitted
    <2> QED
      BY <2>1, <2>4 DEF Abstract!Next
  <1>2. CASE PublishStatus \/ GetLabel \/ CleanUpResources
    <2>1. /\ spooler = "run" /\ executed' = Append(executed, current)
          /\ UNCHANGED submitted
      BY <1>2 DEF PublishStatus, GetLabel, CleanUpResources, Run
    <2>2. current = submitted[Len(executed) + 1]
      BY <2>1 DEF Order
    <2>3. Len(executed) < Len(submitted)
      <3>1. Len(submitted) = Len(executed) + 1 + Len(queue)
        BY <2>1 DEF Order, Running
      <3>2. Len(executed) \in Nat /\ Len(queue) \in Nat
        BY DEF Typed, TypeOK
      <3> QED
        BY <3>1, <3>2
    <2>4. Abstract!Execute
      BY <2>1, <2>2, <2>3 DEF Abstract!Execute
    <2> QED
      BY <2>4 DEF Abstract!Next
  <1>3. ASSUME ~ (PublishStatus \/ GetLabel \/ CleanUpResources),
               ~ \E t \in Callers : Put(t)
        PROVE  UNCHANGED Abstract!vars
    BY <1>3 DEF Next, Spool, Call, CannotReuse, Return, OsmosisSucceeds,
                OsmosisFails, CeremonyFails, Get, ProcessDataEvents, Finish,
                IdleDeath, ConnectionLost, LabelArrives, vars, orderVars,
                Abstract!vars
  <1> QED
    BY <1>1, <1>2, <1>3

\* The spooler implements the queue its callers believe in (the safety part of
\* ImplementsCommandQueue): each call of a method of TalkToServer is executed
\* at most once, in the order of the puts of its two threads.
THEOREM Implementation == Safety => ImplementsCommandQueue
  <1>1. Init => Abstract!Init
    BY DEF Init, Abstract!Init
  <1>2. Init => Once /\ Order
    BY InitOrder
  <1>3. (Typed /\ Pending) /\ (Once /\ Order) /\ [Next]_vars => (Once /\ Order)'
    BY NextOnce, NextOrder
  <1>4. Safety => [](Once /\ Order)
    BY <1>2, <1>3, PendingInductive, PTL DEF Safety
  <1> QED
    BY <1>1, <1>4, PendingInductive, StepImplements, PTL
    DEF Safety, Abstract!Safety, ImplementsCommandQueue
===============================================================================
