CONSTANTS
  c1 = c1
  c2 = c2
  c3 = c3
  ip1 = ip1
  NoTag = NoTag
  NoConn = NoConn
  Conns = {c1, c2, c3}
  IpOf <- OneIp
  Ips = {ip1}
  Requests = {r1, r2}
  LogTags = {logs}
  HeadTags = {}
  ConnLimit = 2
  IpLimit = 1
  SubLimit = 1
  SameSub = FALSE
  BatchMax = 2
  MaxSubs = 3
SPECIFICATION Spec
SYMMETRY SymmetricTags
CHECK_DEADLOCK FALSE
INVARIANTS PollsMatchSubscriptions CounterMatches LimitsHold
