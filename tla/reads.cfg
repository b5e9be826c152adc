SPECIFICATION ReadsSpec
CONSTANTS
  q1 = q1
  q2 = q2
  t1 = t1
  t2 = t2
  t3 = t3
  u1 = u1
  u2 = u2
  Readers = {q1, q2}
  BlockKinds <- SomeKinds
  BlockNumberTtl = 1
  NonceTtl = 1
  MaxBlockRange = 1
  UpdateInterval = 6
  SnapshotEvery = 2
  PageSize = 1
  MaxBlocks = 4
  MaxDuration = 1
  MaxReads = 3
  StartBlocks = 1
  ReadParams <- SomeReads
  Resolvers = {q1, q2}
  CacheTtl = 1
  CodeBlocks = {0, 2}
  MaxHeight = 5
  MaxResolves = 2
  MaxStepTime = 1
  Lookers = {q1, q2}
  Txs = {t1, t2, t3}
  BlockTxs <- SomeBlockTxs
  LookParams <- SomeLooks
  RetryCount = 2
  MaxRows = 2
  MaxDetailed = 2
  MaxLooks = 2
  FeeReaders = {q1, q2}
  Fees = {1, 2}
  MaxResults = 3
  FeeTtl = 1
  FeeParams <- SomeHistories
  MaxTip = 3
  MaxFeeReads = 2
  MaxFeeTime = 1
  Tracers = {q1, q2}
  TracedTxs = {t1, t2}
  Touches <- SomeTouches
  TopTouches <- SomeTopTouches
  TraceParams <- SomeTraces
  MaxTraces = 2
SYMMETRY Requests
INVARIANTS AccountsRight EntitiesRight BlocksRight FeesRight TracesRight
CHECK_DEADLOCK FALSE
