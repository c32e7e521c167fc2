\* One client, started with or without --session, and others behind its address.
SPECIFICATION FairSpec
CONSTANTS
  c1 = c1
  ip1 = ip1
  Clients = {c1}
  Ips = {ip1}
  IpOf <- OneIp
  Ttl = 3
  Margin = 1
  Window = 1
  Limit = 2
  Estimate = 1
  Costs = {1, 2}
  InitialCredit = 3
  MaxHistory = 4
  Suspendable = {c1}
  MaxLosses = 2
INVARIANTS TurnChargedOnce TurnsComplete LoginsLimited
PROPERTIES MarginHolds TurnsEnd
