\* Two hubs answer, late, twice or not at all, through up to three repeated handshakes,
\* while hubs are linked and deleted: one or two count.  The penalty is 40 for the code's 5,
\* as there are 2 attempts for its 14: repetitions bring the quorum within one hub's reach.
SPECIFICATION Spec
CONSTANTS
  h1 = h1
  h2 = h2
  Hubs = {h1, h2}
  HubCounts = {1, 2}
  MaxAttempts = 2
  PenaltyStep = 40
  EventCap = 50
  ActionCap = 50
  TimerCap = 50
  CommandCap = 50
  Prompt = TRUE
  SaveMayFail = FALSE
  MaxHubMessages = 4
  MaxLinkEvents = 0
  MaxReadErrors = 0
  MaxCrashes = 0
INVARIANTS
  SessionFollows
  NormalDisarmed
SYMMETRY Symmetry
\* The runtime rests in the normal mode once the environment is spent.
CHECK_DEADLOCK FALSE
