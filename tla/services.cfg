CONSTANTS
  p1 = p1
  p2 = p2
  a1 = a1
  i1 = i1
  call = call
  blocked = blocked
  single = single
  appends = appends
  query = query
  x = x
  y = y
  long = long
  zero = zero
  Populaters = {r1, r2}
  PresetPlans = {p1, p2}
  BasicTier = {}
  Evm = {a1}
  Ip = {i1}
  PlanConfigs <- SomeConfigs
  MaxStarts = 3
  Clients = {c1}
  Methods = {call, blocked}
  Total <- SomeTotal
  Duration = 2
  MaxClock = 3
  Slots = {s1, s2}
  Bodies <- SomeBodies
  BatchEnabled = TRUE
  BatchMax = 3
  Disallowed = {blocked}
  Registered = {call, blocked}
  MaxMessages = 3
  CacheKeys = {k1, k2, k3}
  ReservedKeys = {k1}
  MaxEntries = 2
  Ttls = {0, 1}
  MaxTick = 2
  MaxFailures = 1
  MaxWrites = 3
  Askers = {q1, q2}
  Questions <- SomeQuestions
  AnswerTtl = 2
  ShortTtl = 1
  MaxLatest = 4
  MaxAsked = 3
  MaxAskTime = 1
  Checkers = {q1}
  RawTxs <- SomeTxs
  SenderStates <- SomeSenders
  NetworkPrices = {2, 3}
  Coef = 2
  Percentage = 50
  PriceBuffer = 2
  BaseCost = 2
  ZeroCost = 1
  NonZeroCost = 2
  MaxGas = 12
  DataLimit = 4
  SizeLimit = 6
  MaxChecked = 1
  Estimators = {q1, q2}
  EstimateAsks <- SomeEstimates
  AverageGas = 6
  HollowGas = 8
  DefaultGas = 5
  SelectorSize = 2
  ThrowsRevert = TRUE
  MaxEstimates = 2
  Jobs = {single, appends, query}
  KindOf <- KindOfJob
  Chunks = 2
  RecordTries = 2
  MaxFaults = 2
  LogQueries <- SomeLogQueries
  LogsOf <- SomeLogs
  ZeroAddress = zero
  PageSize = 2
  PageMax = 3
  Retries = 1
  ErrorStatuses = {404, 429}
  MaxErrors = 3
  Calls <- SomeCalls
SPECIFICATION ServicesSpec
INVARIANTS PlansAsConfigured MessagesRight CacheRight KeptIsRight PrechecksRight EstimatesRight BookedOnceIfPaid LossBounded LogsRight ArgumentsRight
PROPERTIES CountsInWindows
CHECK_DEADLOCK FALSE
