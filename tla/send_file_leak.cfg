CONSTANTS
  t1 = t1
  t2 = t2
  t3 = t3
  a1 = a1
  Accounts = {a1}
  Sender <- OneSender
  Txs = {t1}
  Nonce <- Consecutive
  Large = {t1}
  BaseNonce <- FromOne
  Async = FALSE
  Retries = 2
SPECIFICATION Spec
CHECK_DEADLOCK FALSE
INVARIANTS FileAlwaysRemoved
