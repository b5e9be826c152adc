CONSTANTS
  p1 = p1
  p2 = p2
  r1 = r1
  r2 = r2
  u1 = u1
  ip1 = ip1
  Operator = operator
  None = none
  Relays <- OneRelay
  Requests <- OneRequest
  Home <- Alone
  Users = {u1}
  Ips = {ip1}
  Limit <- BudgetOnly
  Duration = 4
  Costs = {1}
  Estimates = {0}
  SharedCache = FALSE
  NumPresets = 1
  PresetTier <- OpTiers
  PresetLink <- OpLinks
  StartTime = 1
  FirstTime = 1
  ClockStep = 2
  MaxTime = 9
  MaxPlans = 3
  MaxPaid = 3
  MaxEvictions = 1
SPECIFICATION Spec
INVARIANTS LimiterPromises
PROPERTIES ResetsOnTime
CHECK_DEADLOCK FALSE
