--------------------------- MODULE MetricsReports ---------------------------
(***************************************************************************)
(* The metrics service (src/third_layer/metrics), told by the heartbeat    *)
(* monitor through the third layer's middleware whether the server is      *)
(* there: the tasks system_metrics and metrics_timer, with the monitor of  *)
(* HeartbeatMonitor.  The relays of the middleware and of                  *)
(* MetricsService::run count as parts of the channel; what is measured is  *)
(* left out.  A sleep of either service ends when both have handled what   *)
(* is in flight.                                                           *)
(***************************************************************************)
EXTENDS HeartbeatMonitor

CONSTANTS
  ConnCap,        \* capacity of the channels MetricsHandle -> rx_conn
  MetricsTimerCap \* capacity of the channel of commands into metrics_timer

ASSUME MetricsAssumption == {ConnCap, MetricsTimerCap} \subseteq Nat \ {0}

VARIABLES
  conn,         \* MetricsHandle -> MetricsService -> rx_conn
  pending,      \* system_metrics: what the event in hand still makes it do
  metricsTimer, \* metrics_timer
  metricsCmds,  \* tx_to_timer -> cmd_rx
  timeouts      \* tx_to_metrics -> rx_from_timer (at most the one: its sleep ended)

metricsVars == << conn, pending, metricsTimer, metricsCmds, timeouts >>
allVars     == << vars, metricsVars >>

Collect == "collect"

MetricsTypeOK ==
  /\ TypeOK
  /\ conn \in Seq(Status) /\ Len(conn) <= ConnCap
  /\ pending \in Seq(TimerCommand \cup {Collect})
  /\ metricsTimer \in TimerState /\ timeouts \in 0 .. 1
  /\ metricsCmds \in Seq(TimerCommand) /\ Len(metricsCmds) <= MetricsTimerCap

MetricsInit ==
  /\ Init
  /\ conn = << >> /\ pending = << "InitTimer" >>
  /\ metricsTimer = "idle" /\ metricsCmds = << >> /\ timeouts = 0

MetricsQuiet ==
  /\ conn = << >> /\ pending = << >> /\ timeouts = 0
  /\ metricsTimer # "firing" /\ (metricsCmds = << >> \/ metricsTimer = "deaf")

\* The service waits for the sleep, or system_metrics for a deaf timer.
MetricsWait ==
  \/ MetricsQuiet
  \/ metricsTimer = "deaf" /\ Len(metricsCmds) = MetricsTimerCap
     /\ pending # << >> /\ Head(pending) # Collect
-----------------------------------------------------------------------------
(* The monitor's news. *)

\* The handler of the monitor waits for room on the way to system_metrics.
Announce ==
  /\ HandlerSend
  /\ IF Head(outbox).to = "metrics"
     THEN Len(conn) < ConnCap /\ conn' = Append(conn, Head(outbox).msg)
     ELSE UNCHANGED conn
  /\ UNCHANGED << pending, metricsTimer, metricsCmds, timeouts >>
-----------------------------------------------------------------------------
(* system_metrics *)

\* Mutant: a connection does not start the timer again.
Commands_OnlyStop(status) == IF status = "Connected" THEN << >> ELSE << "StopTimer" >>

Commands(status) == IF status = "Connected" THEN << "InitTimer" >> ELSE << "StopTimer" >>

TakeConnection ==
  /\ pending = << >> /\ conn # << >>
  /\ conn' = Tail(conn) /\ pending' = Commands(Head(conn))
  /\ UNCHANGED << vars, metricsTimer, metricsCmds, timeouts >>

\* A report, whether the server is there or not, and the next sleep.
Reporting == << Collect, "InitTimer" >>

TakeTimeout ==
  /\ pending = << >> /\ timeouts > 0
  /\ timeouts' = timeouts - 1 /\ pending' = Reporting
  /\ UNCHANGED << vars, conn, metricsTimer, metricsCmds >>

\* Half a second of measuring; the message service takes the report.
Report ==
  /\ pending # << >> /\ Head(pending) = Collect
  /\ pending' = Tail(pending)
  /\ UNCHANGED << vars, conn, metricsTimer, metricsCmds, timeouts >>

Command ==
  /\ pending # << >> /\ Head(pending) # Collect /\ Len(metricsCmds) < MetricsTimerCap
  /\ metricsCmds' = Append(metricsCmds, Head(pending)) /\ pending' = Tail(pending)
  /\ UNCHANGED << vars, conn, metricsTimer, timeouts >>
-----------------------------------------------------------------------------
(* metrics_timer *)

MetricsTimerReceive ==
  /\ Listening(metricsTimer) /\ metricsCmds # << >>
  /\ metricsTimer' = Received(metricsTimer, Head(metricsCmds)) /\ metricsCmds' = Tail(metricsCmds)
  /\ UNCHANGED << vars, conn, pending, timeouts >>

MetricsTimerExpire ==
  /\ Sleeping(metricsTimer) /\ MetricsWait /\ AllWait
  /\ metricsTimer' = "firing"
  /\ UNCHANGED << vars, conn, pending, metricsCmds, timeouts >>

MetricsTimerFire ==
  /\ metricsTimer = "firing" /\ timeouts = 0
  /\ timeouts' = 1 /\ metricsTimer' = "idle"
  /\ UNCHANGED << vars, conn, pending, metricsCmds >>
-----------------------------------------------------------------------------
Metrics      == TakeConnection \/ TakeTimeout \/ Report \/ Command
MetricsTimer == MetricsTimerReceive \/ MetricsTimerFire

MonitorStep ==
  /\ RunFsm \/ TakeBeat \/ Perform \/ TakeActions \/ Timer \/ Beat \/ (TimerExpire /\ MetricsWait)
  /\ UNCHANGED metricsVars

MetricsNext == MonitorStep \/ Announce \/ Metrics \/ MetricsTimer \/ MetricsTimerExpire

MetricsSpec == MetricsInit /\ [][MetricsNext]_allVars

\* As in HeartbeatMonitor; the tasks of the metrics service run when they can,
\* and no sleep is put off for ever by the other service.
MetricsFairSpec ==
  /\ MetricsSpec
  /\ WF_allVars(RunFsm /\ UNCHANGED metricsVars)
  /\ WF_allVars(((TakeBeat \/ Perform) /\ UNCHANGED metricsVars) \/ Announce)
  /\ SF_allVars(TakeActions /\ UNCHANGED metricsVars)
  /\ WF_allVars(Timer /\ UNCHANGED metricsVars) /\ SF_allVars(TimerExpire /\ MetricsWait /\ UNCHANGED metricsVars)
  /\ WF_allVars(Metrics) /\ WF_allVars(MetricsTimer) /\ SF_allVars(MetricsTimerExpire)
-----------------------------------------------------------------------------
(* Properties *)

\* Whatever InitTimer was swallowed and whatever Timeout raced a StopTimer, a server that is
\* there has a report on the way: when all is quiet the timer sleeps.
Armed == Quiet /\ MetricsQuiet /\ told["metrics"] = "Connected" => Sleeping(metricsTimer)
=============================================================================
