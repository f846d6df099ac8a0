CONSTANTS
  JnTabs = {t1, t2}
  MaxApps = 2
  CoolingOff = 1
  Pages = {p1, p2}
  MaxTokens = 4
  MaxLost = 1
  SlowNetwork = FALSE
  Callers = {c1, c2, c3}
  MaxAuthFailures = 2
SPECIFICATION JourneySpec
CHECK_DEADLOCK FALSE
INVARIANT OneActiveApplication
PROPERTIES PaidReachesLender RevokedEndsEverywhere 
