CONSTANTS
  d1 = d1
  d2 = d2
  d3 = d3
  Requests = {r1}
  Deliveries = {d1, d2, d3}
  Content <- MixedContent
  MaxAttempts = 2
  Limits <- Everything
SPECIFICATION FairSpec
CHECK_DEADLOCK FALSE
INVARIANTS WelcomeOnce ScheduleBacksDisbursal 
PROPERTY RequestAnswered
