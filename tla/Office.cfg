CONSTANTS
  Kinds = {"lender", "product", "policy", "mlm"}
  Operators = {u1, u2}
  Slots = {s1, s2}
  Broken = {3}
  MaxVersions = 2
  MaxWrites = 5
  Routes <- MCRoutes
  Percent <- MCPercent
  Apps = {a1, a2, a3}
  Callers = {c1, c2}
  MaxSwitches = 1
  Overlapping = FALSE
  Entered <- MCEntered
  Births <- MCBirths
  Today <- MCToday
  Balances = {4, 5}
  MaxRules = 2
  Configs <- MCConfigs
  Limits = {4, 11, 17, 30}
  OfferTabs = {t1, t2}
  Tenures = {3, 6}
  MaxLoans = 3
  Holders = {h1, h2}
  PanTabs = {t1}
  Pans = {q, r}
  NoPan = NoPan
  EsTabs = {t1, t2}
  MaxResends = 1
  Interest = 1
  Principal = 2
  BounceCharge = 1
  PenalCharge = 2
  OperatorCharge = 2
  WaiverAmounts = {1}
  Desks = {d1}
  PayLinks = {l1}
  MandateAmount = 2
  DueDay = 1
  MaxDays = 2
  MaxCharges = 2
  MaxDebitRuns = 1
  MaxReruns = 1
  SharedCharges = FALSE
  Instances <- MCInstances
  Scopes <- MCScopes
  Servers = {n1}
  Batch = 2
  Lookback = 6
SPECIFICATION OfficeSpec
CHECK_DEADLOCK FALSE
INVARIANTS
  FourEyes   OfferHonoured
  OnePanOneHolder   
