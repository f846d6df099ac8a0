SPECIFICATION Spec
CONSTANTS
  w1 = w1
  w2 = w2
  l1 = l1
  Workers <- Together
  Links <- OneLink
  Jobs <- AllUpiJobs
  MandateType = "UPI"
  Emi = 2
  MandateLimit = 1
  MaxAttempts = 2
  MaxDebits = 2
  MaxRuns = 3
  MaxCrashes = 1
  Overdue = FALSE
INVARIANT NeverOvercredited
CHECK_DEADLOCK FALSE
