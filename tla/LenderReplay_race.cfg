CONSTANTS
  e1 = e1
  e2 = e2
  a1 = a1
  Events = {e1, e2}
  Applications = {a1}
  AppOf <- MCAppOf
  Workers = {w1}
  Tokens = {t1, t2, t3}
  NoToken = NoToken
  MaxAttempts = 2
  Concurrency = 2
  MaxFaults = 1
  MaxReplays = 2
SPECIFICATION ReplaySpec
CHECK_DEADLOCK FALSE
INVARIANT SingleFlight
PROPERTY EveryEventSettles
