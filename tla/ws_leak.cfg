CONSTANTS
  c1 = c1
  c2 = c2
  c3 = c3
  ip1 = ip1
  NoTag = NoTag
  NoConn = NoConn
  Conns = {c1}
  IpOf <- OneIp
  Ips = {ip1}
  Requests = {r1, r2}
  LogTags = {logs}
  HeadTags = {heads}
  ConnLimit = 2
  IpLimit = 2
  SubLimit = 2
  SameSub = TRUE
  BatchMax = 2
  MaxSubs = 3
SPECIFICATION Spec
CHECK_DEADLOCK FALSE
INVARIANTS ClosedHaveNoSubscriptions
