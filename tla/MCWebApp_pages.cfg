\* A holder with 2 DIEM who types 1, and another holder; days of two instants.
SPECIFICATION FairWebSpec
CONSTANTS
  u1 = u1
  u2 = u2
  vault = vault
  m1 = m1
  NoOne = NoOne
  Me = u1
  Others = {u2}
  MaxMoves = 1
  Unlimited = 9
  MaxOpen = 2
  MaxPresses = 3
  Users = {u1, u2, vault}
  Vault = vault
  Managers = {m1}
  FirstAdmin = m1
  FirstOperator = m1
  Candidates = {}
  VaultAdmins = {m1}
  FirstVaultAdmin = m1
  Amounts = {1}
  ShareAmounts = {1}
  Yields = {1}
  Donations = {}
  Pauses = {TRUE}
  RewardAmounts = {1}
  InitialDiem = 2
  InitialUsdc = 1
  VeniceCooldown = 1
  WithdrawalDelay = 1
  RewardsDuration = 1
  MinWithdraw = 1
  MinHarvest = 1
  Quotes = {2}
  MaxSlippageBps = 1
  BpsDenominator = 2
  MinDiemPerUsdc = 5
  OneUsdc = 2
  Precision = 1
  VirtualShares = 1
  DAY = 2
  windowDays = 2
  MAX_PRICE_GAP = 2
  BASE_BLOCK_SECONDS = 2
  Instants = 7
  MaxLog = 2
  InnerWidth = 7
  LabelRoom = 3
  MonthLength = 2
  monthDays = 3
  ONE = 4
  Blocks = 5
CHECK_DEADLOCK FALSE
INVARIANTS StatusAgrees FeesExact ChartsDrawn AprExact
PROPERTIES OfferedCallsWork DelayNotRestarted SupplyGoesThrough
