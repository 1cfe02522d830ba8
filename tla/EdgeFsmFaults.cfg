\* The epoch cannot be read, the process dies, and hubs are linked and deleted meanwhile.
SPECIFICATION Spec
CONSTANTS
  h1 = h1
  Hubs = {h1}
  HubCounts = {0, 1}
  MaxAttempts = 1
  PenaltyStep = 5
  EventCap = 50
  ActionCap = 50
  TimerCap = 50
  CommandCap = 50
  Prompt = FALSE
  SaveMayFail = FALSE
  MaxHubMessages = 1
  MaxLinkEvents = 2
  MaxReadErrors = 1
  MaxCrashes = 1
INVARIANTS
  TypeOK
  Hierarchy
  NeverStranded
  EpochRecorded
  FreshEpoch
\* The runtime rests in the normal mode once the environment is spent.
CHECK_DEADLOCK FALSE
