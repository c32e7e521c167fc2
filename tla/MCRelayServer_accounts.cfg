\* Two borrowers, two requests across one midnight; the process may die anywhere.
\* Two days of four hours, the last of which is closed, for the sale; two of two
\* seconds, summaries of a day and lists shorter than the log for the reports.
SPECIFICATION ServerSpec
CONSTANTS
  b1 = b1
  b2 = b2
  r1 = r1
  r2 = r2
  t1 = t1
  t2 = t2
  NoTx = NoTx
  NoBorrower = NoBorrower
  Borrowers = {b1, b2}
  Requests = {r1, r2}
  TxHashes = {t1, t2}
  Payments = {t1, t2}
  Grants = {3}
  Models = {"small", "other"}
  ModelPricing <- OneListed
  DefaultPricing <- Default
  Usages <- ThreeUsages
  EstimatedUsage <- Estimated
  MinEstimate = 1
  MaxDailySpend = 4
  MaxDay = 1
  MaxTranches = 3
  MaxSessions = 1
  CrashPoints = {"await", "reset", "sweep", "suspend"}
  HoursPerDay = 4
  SaleCutoffHour = 3
  AdvanceDiscountRate = 3
  MinDiscountRate = 4
  MaxDiscountRate = 1
  MaxHours = 7
  Charges = {0, 1}
  DAY = 2
  SummaryDays = 1
  AskedDays = {1}
  AdminLimit = 1
  MaxTime = 5
  MaxLogs = 2
CHECK_DEADLOCK FALSE
SYMMETRY RelaySymmetry
INVARIANTS TypeOK BalanceInSync DaysSoldApart UsageAgrees
PROPERTIES ImplementsAccounts SuspendedLockedOut
