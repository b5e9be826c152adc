CONSTANTS
  c1 = c1
  c2 = c2
  c3 = c3
  ip1 = ip1
  NoTag = NoTag
  NoConn = NoConn
  Conns = {c1, c2}
  IpOf <- OneIp
  Ips = {ip1}
  Requests = {r1, r2}
  LogTags = {logs}
  HeadTags = {heads}
  ConnLimit = 1
  IpLimit = 2
  SubLimit = 1
  SameSub = TRUE
  BatchMax = 2
  MaxSubs = 2
SPECIFICATION FairSpec
CHECK_DEADLOCK FALSE
INVARIANTS OneSubscriptionPerEvent HeadsEndWithConnection
PROPERTIES ClosingEnds
