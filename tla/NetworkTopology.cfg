\* Three commands, an outage, a crash and a failed statement, for two networks and a hub that
\* may be in either; the channels into the client and the FSM fill up.
SPECIFICATION FairSpec
CONSTANTS
  Networks = {n1, n2}
  Hubs = {h1}
  CmdCap = 2
  EventCap = 1
  InboxCap = 1
  RunCap = 1
  MaxOutages = 1
  MaxCommands = 3
  MaxCrashes = 1
  MaxFaults = 1
INVARIANTS
  TypeOK
  AcksAreDurable
  NetworksAreDatabase
  HearsNetworks
  HubsRunTheFsm
  DeletionsAreComplete
PROPERTIES
  Reconnects
  FsmKnowsTheLink
\* The edge rests once the bounds are spent.
CHECK_DEADLOCK FALSE
