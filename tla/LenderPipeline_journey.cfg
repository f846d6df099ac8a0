CONSTANTS
  Clients = {c1}
  Offers = {o1}
  NoOffer = NoOffer
  Versions = {1, 2, 3, 4}
  CanPoll = TRUE
  MaxPolls = 1
  CallLimit <- Journey
  MaxFailures = 1
  MaxCrashes = 1
  MaxReplays = 1
SPECIFICATION Spec
CHECK_DEADLOCK FALSE
INVARIANTS VerdictHonoured DecisionRequested NoUpdateSkipped
