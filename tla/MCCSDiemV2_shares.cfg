\* Two holders and the vault in sDIEM; a reward of one unit of USDC, two of which must
\* fetch 5 units of DIEM; quoted at 2 or 4, half of the quote allowed as slippage.
SPECIFICATION CSSpec
CONSTANTS
  u1 = u1
  u2 = u2
  vault = vault
  m1 = m1
  NoOne = NoOne
  Users = {u1, u2, vault}
  Vault = vault
  Managers = {m1}
  FirstAdmin = m1
  FirstOperator = m1
  Candidates = {}
  VaultAdmins = {m1}
  FirstVaultAdmin = m1
  Amounts = {2}
  ShareAmounts = {1, 3}
  Yields = {1, 2, 3}
  Donations = {1}
  Pauses = {}
  RewardAmounts = {1}
  InitialDiem = 2
  InitialUsdc = 1
  VeniceCooldown = 1
  WithdrawalDelay = 1
  RewardsDuration = 1
  MinWithdraw = 2
  MinHarvest = 1
  Quotes = {2, 4}
  MaxSlippageBps = 1
  BpsDenominator = 2
  MinDiemPerUsdc = 5
  OneUsdc = 2
  Precision = 1
  VirtualShares = 2
SYMMETRY HolderSymmetry
PROPERTIES NobodyDiluted FairPurchase SoldAboveFloor
