\* Reward accounting: rounding everywhere, a period of three units of time.
SPECIFICATION Spec
CONSTANTS
  u1 = u1
  u2 = u2
  m1 = m1
  NoOne = NoOne
  Users = {u1, u2}
  Managers = {m1}
  FirstAdmin = m1
  FirstOperator = m1
  Candidates = {m1}
  Amounts = {2}
  Donations = {}
  Pauses = {}
  RewardAmounts = {1, 6}
  InitialDiem = 2
  InitialUsdc = 7
  VeniceCooldown = 1
  WithdrawalDelay = 1
  RewardsDuration = 3
  MinWithdraw = 2
  Precision = 3
SYMMETRY UserSymmetry
INVARIANTS TypeOK Solvency
PROPERTIES OnlyTimeEarns OperatorNeverGains
