CONSTANTS
  Tasks = {p1, p2}
  MaxRequests = 1
  MaxFaults = 1
  Reordered = FALSE
  PaTabs = {t1, t2}
  MaxAttempts = 2
  MaxPaFaults = 1
SPECIFICATION BankSpec
CHECK_DEADLOCK FALSE
INVARIANTS VerifiedHasEvidence MandateProven
PROPERTIES NoticeSettles JourneyCompletes
