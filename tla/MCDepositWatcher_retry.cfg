\* What becomes of an event whose processing failed.
SPECIFICATION Spec
CONSTANTS
  u1 = u1
  u2 = u2
  m1 = m1
  m2 = m2
  NoAdmin = NoAdmin
  Payers = {u1}
  Admins = {m1}
  FirstAdmin = m1
  Payments = {4}
  MinDeposits = {}
  FeeRates = {}
  DEFAULT_MIN_DEPOSIT = 2
  DEFAULT_FEE_BPS = 1
  MAX_FEE_BPS = 2
  BPS_DENOMINATOR = 4
  MaxAdminCalls = 0
  MaxEvents = 2
  MaxHead = 3
  MaxStops = 0
  TxOf <- SeparateTxs
  VaultEvent <- AsDeclared
  Faults = {"request"}
CHECK_DEADLOCK FALSE
INVARIANTS NothingLost
