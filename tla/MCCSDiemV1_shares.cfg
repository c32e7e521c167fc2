\* Two holders, harvests of one unit, sDIEM paying in parts or not at all.
SPECIFICATION Spec
CONSTANTS
  u1 = u1
  u2 = u2
  m1 = m1
  NoOne = NoOne
  Users = {u1, u2}
  Managers = {m1}
  FirstAdmin = m1
  Nominees = {m1}
  Pauses = {TRUE, FALSE}
  Amounts = {1, 2}
  ShareAmounts = {3, 4}
  Yields = {1}
  MaxYield = 2
  InitialDiem = 3
  WithdrawalDelay = 2
  MinRedeem = 2
  SdiemMinWithdraw = 2
  VirtualShares = 2
  PartialPayouts = TRUE
SYMMETRY UserSymmetry
INVARIANTS RedemptionsBacked
PROPERTIES NobodyDiluted
