\* Two worker processes (an overlapping reload): the fencing token has to do the work.
CONSTANTS
  e1 = e1
  e2 = e2
  e3 = e3
  a1 = a1
  a2 = a2
  Events = {e1, e2}
  Applications = {a1, a2}
  AppOf <- MCAppOf
  Workers = {w1, w2}
  Tokens = {t1, t2, t3, t4, t5}
  NoToken = NoToken
  MaxAttempts = 2
  Concurrency = 2
  MaxFaults = 2
SYMMETRY WorkerTokenSymmetry
SPECIFICATION Spec
CHECK_DEADLOCK FALSE
INVARIANTS OneOwner ResentOnlyAfterSweep
PROPERTY ImplementsQueue
