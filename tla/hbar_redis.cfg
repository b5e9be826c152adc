CONSTANTS
  p1 = p1
  p2 = p2
  r1 = r1
  r2 = r2
  u1 = u1
  ip1 = ip1
  Operator = operator
  None = none
  Relays <- TwoRelays
  Requests <- TwoRequests
  Home <- OwnRelay
  Users = {u1}
  Ips <- NoIps
  Limit <- Limits
  Duration = 4
  Costs = {1}
  Estimates = {0}
  SharedCache = TRUE
  NumPresets = 0
  PresetTier <- NoTiers
  PresetLink <- NoLinks
  StartTime = 3
  FirstTime = 5
  ClockStep = 1
  MaxTime = 5
  MaxPlans = 4
  MaxPaid = 2
  MaxEvictions = 0
SPECIFICATION FairSpec
INVARIANTS NoPhantomSpending RefusedForSpending ChargedToOwnPlan
PROPERTIES RequestsEnd
