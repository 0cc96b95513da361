----------------------------- MODULE TalkToServer -----------------------------
(***************************************************************************)
(* The station's side: TalkToServer, whose methods hand commands to the    *)
(* thread that owns the connection (TalkToServerSpooler) and wait for that *)
(* thread to set an event.  Two threads call it: the main thread, which    *)
(* goes through the ceremony (check in, wait for the label, osmosis, then  *)
(* done or failed), and the ReportThread, which forwards the progress that *)
(* osmosis reports and dies of the first exception.                        *)
(*                                                                         *)
(* The connection may be lost at any time.  The spooler finds out when it  *)
(* uses it, at once or only later: a publish to a connection that is lost  *)
(* may raise, or may return as if it had been sent.                        *)
(***************************************************************************)
EXTENDS Naturals, Sequences

CONSTANTS
  Main,              \* the main thread
  Reporter,          \* the ReportThread
  None,              \* no command
  MaxReports         \* bound on the progress reports of osmosis

ASSUME ThreadsAssumption == Main # Reporter
ASSUME ReportsAssumption == MaxReports \in Nat

Callers == {Main, Reporter}
Statuses == {"checkin", "progress", "done", "failed"}
Ops == Statuses \cup {"label", "cleanup"}

\* A call; the number tells the progress reports apart.
Commands == [caller : Callers, op : Ops, n : 0 .. MaxReports]

ASSUME NoneAssumption == None \notin Commands

VARIABLES
  \* The callers
  stage,             \* where the ceremony is; of a stage that calls a method
                     \* of TalkToServer this is the command it is about
  reports,           \* the progress reports made so far
  reporterAlive,     \* the ReportThread has not died of an exception
  pc,                \* in _executeCommandInConnectionThread: "idle" outside
                     \* it, "put" past the check of _isFinished, "wait" for
                     \* the finishedEvent, "woken" when that is set
  outcome,           \* returnValue: whether the command raised
  \* The spooler
  queue,             \* self._queue
  spooler,           \* "get", "run", "events", "finish"; "dead" of an
                     \* exception, or "exited" after the clean-up
  current,           \* the command taken from the queue
  isFinished,        \* self._isFinished
  \* The connection and the broker
  connection,        \* "up", "lost" or "closed"
  labels,            \* the labels in the station's label queue
  \* History
  published,         \* the statuses that reached the broker, in order
  submitted,         \* the commands put on the queue, in order
  executed           \* the commands run by the spooler, in order

callerVars == <<stage, reports, reporterAlive>>
callVars == <<pc, outcome>>
spoolerVars == <<queue, spooler, current, isFinished>>
brokerVars == <<connection, labels, published>>
orderVars == <<submitted, executed>>
vars == <<callerVars, callVars, spoolerVars, brokerVars, orderVars>>

Stages == (Ops \ {"progress"}) \cup {"osmosis", "over"}

\* The constructor has connected, declared the exchanges and bound the label
\* queue before the thread starts.
Init ==
  /\ stage = "checkin"
  /\ reports = 0
  /\ reporterAlive = TRUE
  /\ pc = [t \in Callers |-> "idle"]
  /\ outcome = [t \in Callers |-> "ok"]
  /\ queue = <<>>
  /\ spooler = "get"
  /\ current = None
  /\ isFinished = FALSE
  /\ connection = "up"
  /\ labels = 0
  /\ published = <<>>
  /\ submitted = <<>>
  /\ executed = <<>>

-------------------------------------------------------------------------------
(* _executeCommandInConnectionThread, in the calling thread *)

\* The main thread calls what its stage is about.  The ReportThread, started
\* after the check-in, calls progress whenever osmosis reports.
About(t) == IF t = Main THEN stage ELSE "progress"

\* The command of a call of this thread
Command(t) ==
  [caller |-> t, op |-> About(t), n |-> IF t = Main THEN 0 ELSE reports]

MayCall(t) ==
  IF t = Main THEN stage \in Ops
              ELSE reporterAlive /\ stage # "checkin" /\ reports < MaxReports

\* The ceremony goes on from its stage: an exception of checkIn or done ends
\* it, one of label is reported by failed, one of failed is ignored.
AfterStage(result) ==
  CASE stage = "checkin" -> IF result = "ok" THEN "label" ELSE "over"
    [] stage = "label"   -> IF result = "ok" THEN "osmosis" ELSE "failed"
    [] stage = "done"    -> IF result = "ok" THEN "cleanup" ELSE "over"
    [] OTHER             -> "over"

CallReturns(t, result) ==
  IF t = Main
  THEN /\ stage' = AfterStage(result)
       /\ UNCHANGED <<reports, reporterAlive>>
  ELSE /\ reporterAlive' = (result = "ok")
       /\ reports' = reports + 1
       /\ UNCHANGED stage

\* self._isFinished is FALSE: the call goes on ...
Call(t) ==
  /\ pc[t] = "idle"
  /\ MayCall(t)
  /\ ~ isFinished
  /\ pc' = [pc EXCEPT ![t] = "put"]
  /\ UNCHANGED <<callerVars, outcome, spoolerVars, brokerVars, orderVars>>

\* ... or it raises CannotReuseTalkToServerAfterDone.
CannotReuse(t) ==
  /\ pc[t] = "idle"
  /\ MayCall(t)
  /\ isFinished
  /\ CallReturns(t, "raised")
  /\ UNCHANGED <<callVars, spoolerVars, brokerVars, orderVars>>

Put(t) ==
  /\ pc[t] = "put"
  /\ queue' = Append(queue, Command(t))
  /\ submitted' = Append(submitted, Command(t))
  /\ pc' = [pc EXCEPT ![t] = "wait"]
  /\ UNCHANGED <<callerVars, outcome, spooler, current, isFinished, brokerVars,
                 executed>>

Return(t) ==
  /\ pc[t] = "woken"
  /\ pc' = [pc EXCEPT ![t] = "idle"]
  /\ CallReturns(t, outcome[t])
  /\ UNCHANGED <<outcome, spoolerVars, brokerVars, orderVars>>

-------------------------------------------------------------------------------
(* The ceremony between its calls *)

\* Osmosis succeeds, and so does the rest of the ceremony up to kexec.
OsmosisSucceeds ==
  /\ stage = "osmosis"
  /\ stage' = "done"
  /\ UNCHANGED <<reports, reporterAlive, callVars, spoolerVars, brokerVars, orderVars>>

OsmosisFails ==
  /\ stage = "osmosis"
  /\ stage' = "failed"
  /\ UNCHANGED <<reports, reporterAlive, callVars, spoolerVars, brokerVars, orderVars>>

\* An exception after osmosis is not reported to the server.
CeremonyFails ==
  /\ stage = "osmosis"
  /\ stage' = "over"
  /\ UNCHANGED <<reports, reporterAlive, callVars, spoolerVars, brokerVars, orderVars>>

-------------------------------------------------------------------------------
(* TalkToServerSpooler.run *)

\* Mutant: a LifoQueue in place of the Queue.
GetLast ==
  /\ spooler = "get"
  /\ queue # <<>>
  /\ current' = queue[Len(queue)]
  /\ queue' = SubSeq(queue, 1, Len(queue) - 1)
  /\ spooler' = "run"
  /\ UNCHANGED <<callerVars, callVars, isFinished, brokerVars, orderVars>>

Get ==
  /\ spooler = "get"
  /\ queue # <<>>
  /\ current' = Head(queue)
  /\ queue' = Tail(queue)
  /\ spooler' = "run"
  /\ UNCHANGED <<callerVars, callVars, isFinished, brokerVars, orderVars>>

\* After ten seconds without a command process_data_events is called outside
\* of any try: when it finds the connection lost, the exception ends the
\* thread.  When it finds nothing, it changes nothing.
IdleDeath ==
  /\ spooler = "get"
  /\ queue = <<>>
  /\ connection = "lost"
  /\ spooler' = "dead"
  /\ UNCHANGED <<callerVars, callVars, queue, current, isFinished, brokerVars, orderVars>>

\* The command taken is called.
Run ==
  /\ spooler = "run"
  /\ executed' = Append(executed, current)

\* The command raises: the exception goes into the returnValue.
CommandRaises ==
  /\ spooler' = "finish"
  /\ outcome' = [outcome EXCEPT ![current.caller] = "raised"]

\* The command returns: the events of the connection are processed next.
CommandReturns ==
  /\ spooler' = "events"
  /\ outcome' = [outcome EXCEPT ![current.caller] = "ok"]

PublishStatus ==
  /\ Run
  /\ current.op \in Statuses
  /\ \/ /\ connection = "up"
        /\ CommandReturns
        /\ published' = Append(published, current.op)
     \/ /\ connection = "lost"
        /\ CommandReturns \/ CommandRaises
        /\ UNCHANGED published
  /\ UNCHANGED <<callerVars, pc, queue, current, isFinished, connection, labels,
                 submitted>>

\* Mutant: waiting for the label does not notice that the connection is lost.
GetLabelDeaf ==
  /\ Run
  /\ current.op = "label"
  /\ connection = "up"
  /\ labels > 0
  /\ CommandReturns
  /\ labels' = labels - 1
  /\ UNCHANGED <<callerVars, pc, queue, current, isFinished, connection, published,
                 submitted>>

\* Blocks, without a timeout, until there is a label or the connection is lost.
GetLabel ==
  /\ Run
  /\ current.op = "label"
  /\ \/ /\ connection = "up"
        /\ labels > 0
        /\ CommandReturns
        /\ labels' = labels - 1
     \/ /\ connection = "lost"
        /\ CommandRaises
        /\ UNCHANGED labels
  /\ UNCHANGED <<callerVars, pc, queue, current, isFinished, connection, published,
                 submitted>>

\* Whatever deleting the queue and closing the connection raise is ignored.
CleanUpResources ==
  /\ Run
  /\ current.op = "cleanup"
  /\ connection' = "closed"
  /\ labels' = 0
  /\ isFinished' = TRUE
  /\ spooler' = "finish"
  /\ outcome' = [outcome EXCEPT ![current.caller] = "ok"]
  /\ UNCHANGED <<callerVars, pc, queue, current, published, submitted>>

\* process_data_events after a command that returned: a connection found lost
\* here makes the command look as if it had failed.
ProcessDataEvents ==
  /\ spooler = "events"
  /\ spooler' = "finish"
  /\ \/ UNCHANGED outcome
     \/ /\ connection = "lost"
        /\ outcome' = [outcome EXCEPT ![current.caller] = "raised"]
  /\ UNCHANGED <<callerVars, pc, queue, current, isFinished, brokerVars, orderVars>>

\* Mutant: the event is set by a command that returns, not in a finally block.
FinishUnlessRaised ==
  /\ spooler = "finish"
  /\ pc' = IF outcome[current.caller] = "ok"
           THEN [pc EXCEPT ![current.caller] = "woken"] ELSE pc
  /\ current' = None
  /\ spooler' = IF isFinished THEN "exited" ELSE "get"
  /\ UNCHANGED <<callerVars, outcome, queue, isFinished, brokerVars, orderVars>>

\* Mutant: the break comes before finishedEvent.set().
BreakBeforeSet ==
  /\ spooler = "finish"
  /\ pc' = IF isFinished THEN pc ELSE [pc EXCEPT ![current.caller] = "woken"]
  /\ current' = None
  /\ spooler' = IF isFinished THEN "exited" ELSE "get"
  /\ UNCHANGED <<callerVars, outcome, queue, isFinished, brokerVars, orderVars>>

\* The finally block: finishedEvent.set(), and break once finished.
Finish ==
  /\ spooler = "finish"
  /\ pc' = [pc EXCEPT ![current.caller] = "woken"]
  /\ current' = None
  /\ spooler' = IF isFinished THEN "exited" ELSE "get"
  /\ UNCHANGED <<callerVars, outcome, queue, isFinished, brokerVars, orderVars>>

Spool ==
  \/ Get \/ PublishStatus \/ GetLabel \/ CleanUpResources
  \/ ProcessDataEvents \/ Finish

-------------------------------------------------------------------------------
(* The environment *)

ConnectionLost ==
  /\ connection = "up"
  /\ connection' = "lost"
  /\ labels' = 0
  /\ UNCHANGED <<callerVars, callVars, spoolerVars, published, orderVars>>

\* The server provides the label; it is queued until the station consumes it.
LabelArrives ==
  /\ connection = "up"
  /\ stage \in {"checkin", "label"}
  /\ labels = 0
  /\ labels' = 1
  /\ UNCHANGED <<callerVars, callVars, spoolerVars, connection, published,
                 orderVars>>

Next ==
  \/ \E t \in Callers : Call(t) \/ CannotReuse(t) \/ Put(t) \/ Return(t)
  \/ OsmosisSucceeds \/ OsmosisFails \/ CeremonyFails
  \/ Spool \/ IdleDeath
  \/ ConnectionLost \/ LabelArrives

Safety == Init /\ [][Next]_vars

\* The spooler goes on with its work and notices, when idle, a lost connection;
\* the main thread goes on with the ceremony, and osmosis ends.  The server
\* provides a label to a station that waits for it.  The ReportThread finishes
\* a call it has begun.
Fairness ==
  /\ WF_vars(Spool)
  /\ WF_vars(IdleDeath)
  /\ WF_vars(Call(Main) \/ CannotReuse(Main))
  /\ WF_vars(OsmosisSucceeds \/ OsmosisFails \/ CeremonyFails)
  /\ \A t \in Callers : WF_vars(Put(t)) /\ WF_vars(Return(t))
  /\ WF_vars(LabelArrives)

Spec == Safety /\ Fairness

-------------------------------------------------------------------------------
(* Properties *)

\* The variables of the station keep their types.
TypeOK ==
  /\ stage \in Stages
  /\ reports \in 0 .. MaxReports
  /\ reporterAlive \in BOOLEAN
  /\ pc \in [Callers -> {"idle", "put", "wait", "woken"}]
  /\ outcome \in [Callers -> {"ok", "raised"}]
  /\ queue \in Seq(Commands)
  /\ spooler \in {"get", "run", "events", "finish", "dead", "exited"}
  /\ current \in Commands \cup {None}
  /\ spooler \in {"run", "events", "finish"} <=> current # None
  /\ isFinished \in BOOLEAN
  /\ connection \in {"up", "lost", "closed"}
  /\ labels \in 0 .. 1
  /\ published \in Seq(Statuses)
  /\ submitted \in Seq(Commands) /\ executed \in Seq(Commands)

Ended == spooler \in {"dead", "exited"}

\* While the spooler lives no call is forgotten: the command of a thread that
\* waits for its finishedEvent is in the queue or being executed, whatever
\* commands before it raised.
WaitingCallIsServed ==
  ~ Ended => \A t \in Callers :
    pc[t] = "wait" => \/ current # None /\ current.caller = t
                      \/ \E i \in 1 .. Len(queue) : queue[i].caller = t

\* The main thread is never left waiting for a spooler that is gone, unless the
\* connection was lost while the spooler was idle: nothing else ends it early.
MainStrandedOnlyByLoss ==
  Ended /\ pc[Main] = "wait" => spooler = "dead" /\ connection = "lost"

\* CannotReuseTalkToServerAfterDone is what a call gets once the resources are
\* cleaned up (talktoserver.py:99, integration_test.py:205): no call is left
\* waiting for a spooler that has exited.
CleanUpStrandsNobody ==
  spooler = "exited" => \A t \in Callers : pc[t] # "wait"

\* The main thread gets through the ceremony, or to its end by an exception,
\* unless a lost connection kills the idle spooler: the progress reports that
\* compete with it for the spooler cannot hold it up, nor can the wait for the
\* label, which comes, or is ended by the loss of the connection.
MainGetsThrough == <>(stage = "over" \/ spooler = "dead")

\* The spooler executes every command at most once, in the order of the puts.
Abstract ==
  INSTANCE CommandQueue WITH submitted <- submitted, executed <- executed
ImplementsCommandQueue == Abstract!Safety
===============================================================================
