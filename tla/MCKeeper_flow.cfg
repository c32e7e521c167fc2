\* One vault of csDIEM v2, two batches of revenue, one fault; a day of three
\* units, a cooldown of two, and everything the admins of both contracts do.
SPECIFICATION FairKeeperSpec
CONSTANTS
  u1 = u1
  m1 = m1
  splitter = splitter
  safe = safe
  safe2 = safe2
  m2 = m2
  NoOne = NoOne
  Unset = Unset
  Users = {u1}
  Managers = {m1, splitter}
  FirstAdmin = m1
  FirstOperator = splitter
  Splitter = splitter
  Candidates = {m1}
  Pauses = {TRUE}
  Amounts = {1}
  Donations = {}
  RewardAmounts = {}
  InitialDiem = 1
  InitialUsdc = 10
  VeniceCooldown = 1
  WithdrawalDelay = 1
  RewardsDuration = 3
  MinWithdraw = 1
  Precision = 1
  Payments = {5}
  MinAmounts = {5}
  Cooldowns = {1}
  Receivers = {safe2}
  SplitterAdmins = {m1}
  FirstReceiver = safe
  DefaultMinAmount = 4
  DefaultCooldown = 2
  MaxCooldown = 2
  PlatformBps = 1
  BpsDenominator = 5
  DryRun = FALSE
  VaultV1 = Unset
  VaultV2 = u1
  MinHarvest = 2
  DiemForSale = 1
  DiemPerHarvest = 1
  VaultPauses = {TRUE}
  Day = 3
  MaxAge = 4
  MaxFaults = 2
INVARIANTS UsdcConserved
PROPERTIES RevenueServed StreamToppedUp SilentRunsServe
