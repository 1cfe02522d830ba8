\* Two requests that may overlap, for a network of two hubs or an empty one, an update of
\* the edge itself, and three answers, late, repeated or missing.
SPECIFICATION FairSpec
CONSTANTS
  Networks <- TwoNetworks
  HubsOf <- TwoHubsOrNone
  InboxCap = 1
  CmdCap = 1
  TimerCap = 2
  MaxRequests = 2
  MaxUpdates = 1
  MaxAnswers = 3
INVARIANTS
  TypeOK
  Watched
  OnlyReported
PROPERTIES
  RolloutEnds
\* The service rests once the bounds are spent.
CHECK_DEADLOCK FALSE
