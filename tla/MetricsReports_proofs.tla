------------------------ MODULE MetricsReports_proofs ------------------------
(***************************************************************************)
(* Theorems about the metrics service and the heartbeat monitor that it    *)
(* hears, for every capacity of their channels and every number of beats:  *)
(* beside the service the monitor does nothing it would not do alone, and  *)
(* a server that is there has a report on the way.                         *)
(***************************************************************************)
EXTENDS MetricsReports, HeartbeatMonitor_proofs

LEMMA MetricsBounds == ConnCap \in Nat \ {0} /\ MetricsTimerCap \in Nat \ {0}
BY MetricsAssumption

\* A step of the two services is a step of the monitor, or leaves it alone.
LEMMA MonitorMoves ==
  ASSUME [MetricsNext]_allVars
  PROVE  [Next]_vars
<1>1. CASE MonitorStep
  BY <1>1 DEF MonitorStep, Next, Handler
<1>2. CASE Announce
  BY <1>2 DEF Announce, Next, Handler
<1>3. CASE Metrics \/ MetricsTimer \/ MetricsTimerExpire \/ UNCHANGED allVars
  <2>1. UNCHANGED vars
    BY <1>3 DEF Metrics, MetricsTimer, TakeConnection, TakeTimeout, Report, Command, MetricsTimerReceive,
                MetricsTimerFire, MetricsTimerExpire, allVars
  <2> QED BY <2>1
<1> QED BY <1>1, <1>2, <1>3 DEF MetricsNext

\* The monitor that waits for the metrics service is still the monitor: what holds of it
\* alone holds of it here.
THEOREM MonitorImplemented == MetricsSpec => Spec
<1>1. MetricsInit => Init
  BY DEF MetricsInit
<1>2. [MetricsNext]_allVars => [Next]_vars
  BY MonitorMoves
<1> QED BY <1>1, <1>2, PTL DEF MetricsSpec, Spec

\* So it tells the services and watches the server whatever the metrics service does.
THEOREM MonitorPromises == MetricsSpec => [](ServicesTold /\ Watched)
BY MonitorImplemented, ServicesToldCorrect, WatchedCorrect, PTL
-----------------------------------------------------------------------------
(* The types *)

\* What the service does because of the status of the server.
LEMMA CommandsIs ==
  ASSUME NEW status \in Status
  PROVE  /\ Commands(status) \in Seq(TimerCommand \cup {Collect})
         /\ status = "Connected" => Commands(status) = << "InitTimer" >>
<1>1. "InitTimer" \in TimerCommand \cup {Collect} /\ "StopTimer" \in TimerCommand \cup {Collect}
  BY DEF TimerCommand
<1>2. Commands(status) = IF status = "Connected" THEN << "InitTimer" >> ELSE << "StopTimer" >>
  BY DEF Commands
<1>3. \A S, x : x \in S => << x >> \in Seq(S)
  OBVIOUS
<1> QED BY <1>1, <1>2, <1>3

\* The news for the service come from the monitor.
LEMMA AnnounceIs ==
  ASSUME TypeOK, Announce
  PROVE  \/ /\ Len(conn) < ConnCap
            /\ \E x \in Status : conn' = Append(conn, x) /\ told' = [told EXCEPT !["metrics"] = x]
         \/ UNCHANGED conn /\ told'["metrics"] = told["metrics"]
<1>1. PICK m : m = Head(outbox)
  OBVIOUS
<1>2. m \in Message /\ told \in [Services -> Status \cup {"None"}]
  <2>1. outbox \in Seq(Message) /\ outbox # << >>
    BY DEF TypeOK, Announce, HandlerSend
  <2> QED BY <1>1, <2>1, TailElements DEF TypeOK
<1>3. CASE m.to = "metrics"
  <2>1. m.msg \in Status
    BY <1>2, <1>3 DEF Message, ToFsm, Services
  <2>2. Len(conn) < ConnCap /\ conn' = Append(conn, m.msg)
    BY <1>1, <1>3 DEF Announce
  <2>3. told' = [told EXCEPT !["metrics"] = m.msg]
    BY <1>1, <1>3 DEF Announce, HandlerSend
  <2> QED BY <2>1, <2>2, <2>3
<1>4. CASE m.to # "metrics"
  <2>1. UNCHANGED conn
    BY <1>1, <1>4 DEF Announce
  <2>2. told'["metrics"] = told["metrics"]
    <3>1. UNCHANGED told \/ told' = [told EXCEPT ![m.to] = m.msg]
      BY <1>1 DEF Announce, HandlerSend
    <3>2. "metrics" \in Services
      BY DEF Services
    <3> QED BY <1>2, <1>4, <3>1, <3>2
  <2> QED BY <2>1, <2>2
<1> QED BY <1>3, <1>4

LEMMA MetricsTypeInduction ==
  ASSUME MetricsTypeOK, [MetricsNext]_allVars
  PROVE  MetricsTypeOK'
<1>1. /\ TypeOK /\ conn \in Seq(Status) /\ Len(conn) <= ConnCap /\ pending \in Seq(TimerCommand \cup {Collect})
      /\ metricsTimer \in TimerState /\ timeouts \in 0 .. 1
      /\ metricsCmds \in Seq(TimerCommand) /\ Len(metricsCmds) <= MetricsTimerCap
  BY DEF MetricsTypeOK
<1>2. TypeOK'
  BY <1>1, MonitorMoves, TypeInduction
<1>3. CASE MonitorStep \/ UNCHANGED allVars
  BY <1>2, <1>3 DEF MetricsTypeOK, MonitorStep, allVars, metricsVars
<1>4. CASE Announce
  <2>1. conn' \in Seq(Status) /\ Len(conn') <= ConnCap
    <3>1. CASE UNCHANGED conn
      BY <1>1, <3>1
    <3>2. ASSUME NEW x \in Status, Len(conn) < ConnCap, conn' = Append(conn, x)
          PROVE  conn' \in Seq(Status) /\ Len(conn') <= ConnCap
      <4>1. conn' \in Seq(Status) /\ Len(conn') = Len(conn) + 1 /\ Len(conn) \in Nat
        BY <1>1, <3>2, AppendElements, EmptyLength
      <4> QED BY <3>2, <4>1, MetricsBounds
    <3> QED BY <1>1, <1>4, <3>1, <3>2, AnnounceIs
  <2> QED BY <1>2, <1>4, <2>1 DEF MetricsTypeOK, Announce
<1>5. CASE TakeConnection
  <2>1. conn' \in Seq(Status) /\ Len(conn') <= ConnCap /\ Head(conn) \in Status
    <3>1. conn' \in Seq(Status) /\ Len(conn') = Len(conn) - 1 /\ Len(conn) \in Nat \ {0} /\ Head(conn) \in Status
      BY <1>1, <1>5, TailElements DEF TakeConnection
    <3> QED BY <1>1, <3>1, MetricsBounds
  <2>2. pending' \in Seq(TimerCommand \cup {Collect})
    BY <1>5, <2>1, CommandsIs DEF TakeConnection
  <2> QED BY <1>2, <1>5, <2>1, <2>2 DEF MetricsTypeOK, TakeConnection
<1>6. CASE TakeTimeout
  <2>1. pending' \in Seq(TimerCommand \cup {Collect})
    BY <1>6 DEF TakeTimeout, Reporting, TimerCommand
  <2>2. timeouts' \in 0 .. 1
    BY <1>1, <1>6 DEF TakeTimeout
  <2> QED BY <1>2, <1>6, <2>1, <2>2 DEF MetricsTypeOK, TakeTimeout
<1>7. CASE Report
  <2>1. pending' \in Seq(TimerCommand \cup {Collect})
    BY <1>1, <1>7, TailElements DEF Report
  <2> QED BY <1>2, <1>7, <2>1 DEF MetricsTypeOK, Report
<1>8. CASE Command
  <2>1. PICK c : c = Head(pending)
    OBVIOUS
  <2>2. pending' \in Seq(TimerCommand \cup {Collect}) /\ c \in TimerCommand
    BY <1>1, <1>8, <2>1, TailElements DEF Command
  <2>3. metricsCmds' \in Seq(TimerCommand) /\ Len(metricsCmds') = Len(metricsCmds) + 1 /\ Len(metricsCmds) \in Nat
    BY <1>1, <1>8, <2>1, <2>2, AppendElements, EmptyLength DEF Command
  <2>4. Len(metricsCmds') <= MetricsTimerCap
    BY <1>8, <2>3, MetricsBounds DEF Command
  <2> QED BY <1>2, <1>8, <2>2, <2>3, <2>4 DEF MetricsTypeOK, Command
<1>9. CASE MetricsTimerReceive
  <2>1. Head(metricsCmds) \in TimerCommand /\ metricsCmds' \in Seq(TimerCommand)
        /\ Len(metricsCmds') = Len(metricsCmds) - 1 /\ Len(metricsCmds) \in Nat \ {0}
    BY <1>1, <1>9, TailElements DEF MetricsTimerReceive
  <2>2. Len(metricsCmds') <= MetricsTimerCap
    BY <1>1, <2>1, MetricsBounds
  <2>3. metricsTimer' \in TimerState
    BY <1>9, <2>1 DEF MetricsTimerReceive, Listening, Received, TimerCommand, TimerState
  <2> QED BY <1>2, <1>9, <2>1, <2>2, <2>3 DEF MetricsTypeOK, MetricsTimerReceive
<1>10. CASE MetricsTimerExpire \/ MetricsTimerFire
  <2>1. metricsTimer' \in TimerState /\ timeouts' \in 0 .. 1
    BY <1>1, <1>10 DEF MetricsTimerExpire, MetricsTimerFire, TimerState
  <2> QED BY <1>2, <1>10, <2>1 DEF MetricsTypeOK, MetricsTimerExpire, MetricsTimerFire
<1> QED BY <1>3, <1>4, <1>5, <1>6, <1>7, <1>8, <1>9, <1>10 DEF MetricsNext, Metrics, MetricsTimer

LEMMA InitMetricsType == MetricsInit => MetricsTypeOK
<1> SUFFICES ASSUME MetricsInit PROVE MetricsTypeOK
  OBVIOUS
<1>1. TypeOK
  BY InitType DEF MetricsInit
<1>2. conn \in Seq(Status) /\ Len(conn) = 0 /\ metricsCmds \in Seq(TimerCommand) /\ Len(metricsCmds) = 0
  BY EmptyLength DEF MetricsInit
<1>3. pending \in Seq(TimerCommand \cup {Collect})
  BY DEF MetricsInit, TimerCommand
<1> QED BY <1>1, <1>2, <1>3, MetricsBounds DEF MetricsInit, MetricsTypeOK, TimerState

\* The variables of the two services keep their types, and none of their channels holds
\* more than its capacity.
THEOREM MetricsTypeCorrect == MetricsSpec => []MetricsTypeOK
<1>1. MetricsTypeOK /\ [MetricsNext]_allVars => MetricsTypeOK'
  BY MetricsTypeInduction
<1> QED BY InitMetricsType, <1>1, PTL DEF MetricsSpec
-----------------------------------------------------------------------------
(* A report is on the way *)

\* While the last news is of a server that is there, the last thing on its way to the timer
\* is a command to start; when nothing is on its way the timer runs, or its Timeout does.
ArmedInv ==
  told["metrics"] = "Connected" =>
    /\ conn # << >> => Newest(conn) = "Connected"
    /\ conn = << >> /\ pending # << >> => Newest(pending) = "InitTimer"
    /\ conn = << >> /\ pending = << >> /\ metricsCmds # << >> => Newest(metricsCmds) = "InitTimer"
    /\ conn = << >> /\ pending = << >> /\ metricsCmds = << >> =>
         Sleeping(metricsTimer) \/ metricsTimer = "firing" \/ timeouts > 0

LEMMA ArmedInduction ==
  ASSUME MetricsTypeOK, ArmedInv, [MetricsNext]_allVars
  PROVE  ArmedInv'
<1>1. /\ TypeOK /\ conn \in Seq(Status) /\ pending \in Seq(TimerCommand \cup {Collect})
      /\ metricsTimer \in TimerState /\ timeouts \in 0 .. 1 /\ metricsCmds \in Seq(TimerCommand)
      /\ told \in [Services -> Status \cup {"None"}]
  BY DEF MetricsTypeOK, TypeOK
<1>2. CASE MonitorStep \/ UNCHANGED allVars
  <2>1. UNCHANGED << told, conn, pending, metricsCmds, metricsTimer, timeouts >>
    BY <1>2 DEF MonitorStep, RunFsm, FsmTurn, FsmUnblocked, TakeBeat, Perform, TakeActions, Timer, TimerReceive,
                TimerFire, Beat, TimerExpire, allVars, vars, handlerVars, metricsVars
  <2> QED BY <2>1 DEF ArmedInv
<1>3. CASE Announce
  <2>1. ASSUME NEW x \in Status, conn' = Append(conn, x), told' = [told EXCEPT !["metrics"] = x]
        PROVE  ArmedInv'
    <3>1. told'["metrics"] = x
      BY <1>1, <2>1 DEF Services
    <3>2. conn' # << >> /\ Newest(conn') = x
      BY <1>1, <2>1, NewestOfAppend
    <3> QED BY <3>1, <3>2 DEF ArmedInv
  <2>2. CASE UNCHANGED conn /\ told'["metrics"] = told["metrics"]
    BY <1>3, <2>2 DEF ArmedInv, Announce
  <2> QED BY <1>1, <1>3, <2>1, <2>2, AnnounceIs
<1>4. CASE TakeConnection
  <2>1. conn # << >> /\ conn' = Tail(conn) /\ pending' = Commands(Head(conn)) /\ told' = told
    BY <1>4 DEF TakeConnection, vars, handlerVars
  <2>2. CASE conn' # << >>
    BY <1>1, <2>1, <2>2, NewestOfTail DEF ArmedInv
  <2>3. CASE conn' = << >> /\ told["metrics"] = "Connected"
    <3>1. Head(conn) = "Connected"
      BY <1>1, <2>1, <2>3, NewestOfTail DEF ArmedInv
    <3>2. pending' = << "InitTimer" >>
      BY <2>1, <3>1, CommandsIs DEF Status
    <3>3. pending' # << >> /\ Newest(pending') = "InitTimer"
      BY <3>2 DEF Newest
    <3> QED BY <2>3, <3>3 DEF ArmedInv
  <2> QED BY <2>1, <2>2, <2>3 DEF ArmedInv
<1>5. CASE TakeTimeout
  <2>1. pending' # << >> /\ Newest(pending') = "InitTimer"
    BY <1>5 DEF TakeTimeout, Reporting, Newest
  <2> QED BY <1>5, <2>1 DEF TakeTimeout, ArmedInv, vars, handlerVars
<1>6. CASE Report
  <2>1. /\ pending # << >> /\ Head(pending) # "InitTimer" /\ pending' = Tail(pending)
        /\ UNCHANGED << told, conn, metricsTimer, metricsCmds, timeouts >>
    BY <1>6 DEF Report, Collect, vars, handlerVars
  <2>2. IF pending' # << >> THEN Newest(pending') = Newest(pending) ELSE Newest(pending) # "InitTimer"
    BY <1>1, <2>1, NewestOfTail
  <2> QED BY <2>1, <2>2 DEF ArmedInv
<1>7. CASE Command
  <2>1. PICK c : c = Head(pending)
    OBVIOUS
  <2>2. /\ pending # << >> /\ pending' = Tail(pending) /\ metricsCmds' = Append(metricsCmds, c) /\ c \in TimerCommand
        /\ UNCHANGED << told, conn, metricsTimer, timeouts >>
    BY <1>1, <1>7, <2>1, TailElements DEF Command, vars, handlerVars
  <2>3. IF pending' # << >> THEN Newest(pending') = Newest(pending) ELSE Newest(pending) = c
    BY <1>1, <2>1, <2>2, NewestOfTail
  <2>4. metricsCmds' # << >> /\ Newest(metricsCmds') = c
    BY <1>1, <2>2, NewestOfAppend
  <2> QED BY <2>2, <2>3, <2>4 DEF ArmedInv
<1>8. CASE MetricsTimerReceive
  <2>1. /\ metricsCmds # << >> /\ metricsCmds' = Tail(metricsCmds) /\ metricsTimer \in {"idle", "active"}
        /\ metricsTimer' = Received(metricsTimer, Head(metricsCmds))
        /\ UNCHANGED << told, conn, pending, timeouts >>
    BY <1>8 DEF MetricsTimerReceive, Listening, vars, handlerVars
  <2>2. IF metricsCmds' # << >> THEN Newest(metricsCmds') = Newest(metricsCmds)
                                ELSE Newest(metricsCmds) = Head(metricsCmds)
    BY <1>1, <2>1, NewestOfTail
  <2>3. Head(metricsCmds) = "InitTimer" => Sleeping(metricsTimer')
    BY <2>1 DEF Received, Sleeping
  <2> QED BY <2>1, <2>2, <2>3 DEF ArmedInv
<1>9. CASE MetricsTimerExpire
  BY <1>9 DEF MetricsTimerExpire, ArmedInv, vars, handlerVars
<1>10. CASE MetricsTimerFire
  BY <1>10 DEF MetricsTimerFire, ArmedInv, vars, handlerVars
<1> QED BY <1>2, <1>3, <1>4, <1>5, <1>6, <1>7, <1>8, <1>9, <1>10 DEF MetricsNext, Metrics, MetricsTimer

LEMMA InitArmed == MetricsInit => ArmedInv
BY DEF MetricsInit, Init, Services, ArmedInv

\* A server that is there has a report on the way, whatever command was swallowed and
\* whatever Timeout raced a stop: when all is quiet the timer sleeps.
THEOREM ArmedCorrect == MetricsSpec => []Armed
<1>1. MetricsTypeOK /\ ArmedInv /\ [MetricsNext]_allVars => ArmedInv'
  BY ArmedInduction
<1>2. ArmedInv => Armed
  BY DEF ArmedInv, Armed, MetricsQuiet, Sleeping
<1> QED BY <1>1, <1>2, InitArmed, MetricsTypeCorrect, PTL DEF MetricsSpec
=============================================================================
