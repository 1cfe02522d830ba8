\* One rollout over two hubs; nothing overlaps but a Timeout and an answer.
SPECIFICATION Spec
CONSTANTS
  Networks <- OneNetwork
  HubsOf <- TwoHubs
  InboxCap = 1
  CmdCap = 1
  TimerCap = 2
  MaxRequests = 1
  MaxUpdates = 0
  MaxAnswers = 2
PROPERTIES
  TimeoutOfRollout
\* The service rests once the bounds are spent.
CHECK_DEADLOCK FALSE
