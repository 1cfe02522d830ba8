\* The broker is lost and found again twice in the middle of anything; a hub that is
\* registered meanwhile makes the one that answers too few for the quorum.
SPECIFICATION Spec
CONSTANTS
  h1 = h1
  Hubs = {h1}
  HubCounts = {1, 2}
  MaxAttempts = 1
  PenaltyStep = 5
  EventCap = 50
  ActionCap = 50
  TimerCap = 50
  CommandCap = 50
  Prompt = TRUE
  SaveMayFail = TRUE
  MaxHubMessages = 1
  MaxLinkEvents = 4
  MaxReadErrors = 0
  MaxCrashes = 0
INVARIANTS
  LinkFollowed
  ModeAnnounced
  HeartbeatsMatch
  RepeatsBounded
\* The runtime rests in the normal mode once the environment is spent.
CHECK_DEADLOCK FALSE
