CONSTANTS
  t1 = t1
  t2 = t2
  t3 = t3
  a1 = a1
  Accounts = {a1}
  Sender <- OneSender
  Txs = {t1, t2, t3}
  Nonce <- SameNonceTwice
  Large = {t1}
  BaseNonce <- FromOne
  Async = FALSE
  Retries = 2
  k1 = k1
  Callers = {q1, q2}
  TxReset = 2
  DurReset = 1
  Codes = {21, 22}
  ErrorReset = {21}
  MaxPoolTime = 2
  CallParams <- SomeCalls
  TimeoutRetries = 2
  FeeRetries = 1
  CallTtl = 1
  MaxCalls = 3
SPECIFICATION ConsensusSpec
CHECK_DEADLOCK FALSE
INVARIANTS AnswersAgree FileRemovedAfterExecution CallTypeOK PoolBounds
PROPERTIES NonceErrorsAreRight RequestsEnd FailedClientNotReused CallsEnd
