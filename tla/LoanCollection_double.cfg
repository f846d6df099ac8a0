SPECIFICATION Spec
CONSTANTS
  w1 = w1
  w2 = w2
  l1 = l1
  Workers <- Alone
  Links <- OneLink
  Jobs <- UpiLinkJobs
  MandateType = "UPI"
  Emi = 2
  MandateLimit = 2
  MaxAttempts = 2
  MaxDebits = 2
  MaxRuns = 3
  MaxCrashes = 0
  Overdue = FALSE
INVARIANT CollectedOnce
CHECK_DEADLOCK FALSE
