\* Failed calls, a crash or shutdown; two of three deposits in one transaction.
SPECIFICATION FairSpec
CONSTANTS
  u1 = u1
  u2 = u2
  m1 = m1
  m2 = m2
  NoAdmin = NoAdmin
  Payers = {u1, u2}
  Admins = {m1}
  FirstAdmin = m1
  Payments = {4}
  MinDeposits = {5}
  FeeRates = {2}
  DEFAULT_MIN_DEPOSIT = 2
  DEFAULT_FEE_BPS = 1
  MAX_FEE_BPS = 2
  BPS_DENOMINATOR = 4
  MaxAdminCalls = 2
  MaxEvents = 3
  MaxHead = 4
  MaxStops = 1
  TxOf <- FirstTwoTogether
  VaultEvent <- AsDeclared
  Faults = {"request"}
CHECK_DEADLOCK FALSE
INVARIANTS CreditedOnce CreditsBacked
PROPERTIES DeliveredCredited
