CONSTANTS
  Runners = {w1}
  StagesSent = {"CREATE", "CONSENT", "UPDATE", "DOCUMENT", "DECISION", "DISBURSE", "REPAYMENT",
                "CHARGE", "CHARGE_WAIVER"}
  Gaps <- MCGaps
  Setups <- MCSetups
  Troubles = {"timeout", "503", "401", "RATE_LIMITED", "VALIDATION_ERROR", "malformed", "other",
              "undecided"}
  MaxTries = 3
  MaxTroubles = 1
  MaxEdits = 1
  MaxDeaths = 1
  Overrun = FALSE
  Calls = {c1}
  Keys = {k1}
  Concurrent = FALSE
  MaxDeliveries = 2
  MaxCrashes = 1
  MaxBacklog = 2
  MaxKycSessions = 1
  MaxKycLost = 1
  CrashPoints = {"initiate", "persist", "webhook", "commit", "document", "face"}
  FailedDetails = FALSE
  PhotoTabs = {t1}
  FeeTabs = {t1}
  MaxTxns = 2
  Lives <- MCLives
  MaxReminders = 2
  MaxMoves = 2
  MaxRmFaults = 1
  LostAdds = FALSE
  Overlap = FALSE
SPECIFICATION ExchangeSpec
CHECK_DEADLOCK FALSE
INVARIANTS AcceptedOnce 
PROPERTIES SoundRequestCompletes  PaidSessionCounts 
