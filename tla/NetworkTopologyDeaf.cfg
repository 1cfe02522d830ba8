\* One network is inserted on an edge that had none; nothing fails.
SPECIFICATION Spec
CONSTANTS
  Networks = {n1}
  Hubs = {h1}
  CmdCap = 2
  EventCap = 1
  InboxCap = 1
  RunCap = 1
  MaxOutages = 0
  MaxCommands = 2
  MaxCrashes = 0
  MaxFaults = 0
INVARIANTS
  HubsCanLink
\* The edge rests once the bounds are spent.
CHECK_DEADLOCK FALSE
