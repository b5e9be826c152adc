CONSTANTS
  s1 = s1
  Ticks = {t1, t2}
  Subscribers = {s1}
  MaxActive = 3
  LogRange = 1
  MaxHead = 3
  Expirable <- OneHash
SPECIFICATION DSpec
CHECK_DEADLOCK FALSE
INVARIANTS DeliveredRight
PROPERTIES EventuallySent
