\* Fair scheduling over channels that hold one message: run_fsm and the handler block on
\* their sends, and the hubs and the broker may fall silent at any point.
SPECIFICATION FairSpec
CONSTANTS
  h1 = h1
  Hubs = {h1}
  HubCounts = {1}
  MaxAttempts = 1
  PenaltyStep = 5
  EventCap = 50
  ActionCap = 1
  TimerCap = 1
  CommandCap = 1
  Prompt = FALSE
  SaveMayFail = FALSE
  MaxHubMessages = 2
  MaxLinkEvents = 2
  MaxReadErrors = 0
  MaxCrashes = 0
INVARIANTS
  NeverStranded
PROPERTIES
  Settles
\* The runtime rests in the normal mode once the environment is spent.
CHECK_DEADLOCK FALSE
