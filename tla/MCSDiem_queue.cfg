\* The withdrawal queue of both generations: two users, Venice's cooldown twice as
\* long as the delay of a request, and a request below the minimum by exit alone.
SPECIFICATION DeployedFairSpec
CONSTANTS
  u1 = u1
  u2 = u2
  m1 = m1
  NoOne = NoOne
  Users = {u1, u2}
  Managers = {m1}
  FirstAdmin = m1
  FirstOperator = m1
  Candidates = {m1}
  Amounts = {1, 2}
  Donations = {2}
  Pauses = {FALSE}
  RewardAmounts = {1}
  InitialDiem = 2
  InitialUsdc = 1
  VeniceCooldown = 2
  WithdrawalDelay = 1
  RewardsDuration = 1
  MinWithdraw = 2
  Precision = 1
INVARIANTS Backing NeverStalled CounterCovers
PROPERTIES CooldownNotRestarted ImplementsLedger WithdrawalsPaid
