\* A reading, an outage and a state of the edge, with room for the uploads of the outage.
SPECIFICATION FairSpec
CONSTANTS
  Readings <- OneMonitor
  HandleCap = 3
  OutboundCap = 3
  EventsCap = 1
  SessionCap = 1
  InboxCap = 1
  MaxOutages = 1
  Limit = 1
  BatchSize = 2
  OwnCap = 4
  MiddleCap = 1
  DataCap = 1
  MaxReports = 1
  MaxTurns = 1
PROPERTIES
  EventuallyDelivered
  Reconnects
\* The edge rests once the hubs are silent and the bounds are spent.
CHECK_DEADLOCK FALSE
