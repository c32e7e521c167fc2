\* One redeemer, everybody helping, sDIEM paying in full as soon as it is time.
SPECIFICATION FairSpec
CONSTANTS
  u1 = u1
  u2 = u2
  m1 = m1
  NoOne = NoOne
  Users = {u1}
  Managers = {m1}
  FirstAdmin = m1
  Nominees = {}
  Pauses = {}
  Amounts = {3}
  ShareAmounts = {2, 4}
  Yields = {}
  MaxYield = 0
  InitialDiem = 3
  WithdrawalDelay = 2
  MinRedeem = 1
  SdiemMinWithdraw = 1
  VirtualShares = 2
  PartialPayouts = FALSE
PROPERTIES RedemptionsPaid
