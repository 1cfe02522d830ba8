\* Seven beats, at any pace, and what the metrics service makes of them.  The handler can wait
\* for room with the watchdog and the machine with the handler, but there is room for the
\* events of the beats, and for the changes of the server's status.
SPECIFICATION MetricsFairSpec
CONSTANTS
  BeatCap = 2
  EventCap = 8
  ActionCap = 1
  TimerCap = 4
  MaxBeats = 7
  ConnCap = 4
  MetricsTimerCap = 3
INVARIANTS
  MetricsTypeOK
  ServicesTold
  Watched
  Armed
PROPERTIES
  Detects
\* The machine rests once the server is dead, and metrics_timer may.
CHECK_DEADLOCK FALSE
