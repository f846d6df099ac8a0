CONSTANTS
  Tabs = {t1, t2}
  Emails = {e1, e2}
  MaxOtps = 2
  MaxTries = 2
  Arrivals = {{}, {"RM"}, {"REFERRAL", "MARKETING"}}
  Users = {u1, u2}
  Browsers = {b1, b2}
  MaxSessions = 2
  MaxRefresh = 3
  MaxChanges = 2
  Threshold = 2
SPECIFICATION AccessSpec
SYMMETRY AccessSymmetry
CHECK_DEADLOCK FALSE
INVARIANTS
   EndedSessionIsDead OneGrantPerSession
