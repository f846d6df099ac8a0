SPECIFICATION FairSpec
CONSTANTS
  w1 = w1
  w2 = w2
  l1 = l1
  Workers <- Together
  Links <- NoLinks
  Jobs <- CronJobs
  MandateType = "ENACH"
  Emi = 2
  MandateLimit = 3
  MaxAttempts = 2
  MaxDebits = 2
  MaxRuns = 4
  MaxCrashes = 1
  Overdue = FALSE
INVARIANT CollectedOnce
 
CHECK_DEADLOCK FALSE
