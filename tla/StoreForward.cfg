\* Two readings, an outage, and a monitor that changes its mind twice.
SPECIFICATION Spec
CONSTANTS
  Readings <- Monitors
  HandleCap = 3
  OutboundCap = 3
  EventsCap = 1
  SessionCap = 1
  InboxCap = 1
  MaxOutages = 1
  Limit = 1
  BatchSize = 2
  OwnCap = 4
  MiddleCap = 1
  DataCap = 1
  MaxReports = 0
  MaxTurns = 2
INVARIANTS
  TypeOK
  Conserved
\* The edge rests once the hubs are silent and the bounds are spent.
CHECK_DEADLOCK FALSE
