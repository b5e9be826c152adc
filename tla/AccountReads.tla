----------------------------- MODULE AccountReads -----------------------------
(***************************************************************************)
(* eth_getBalance and eth_getTransactionCount of one account: which block  *)
(* is the newest one, which of the mirror node's records the answer is     *)
(* computed from, and the caches in front of it.  Blocks go on being made  *)
(* while a request is processed.                                           *)
(*                                                                         *)
(* A block has two transactions, the n-th of block b at the time 2b + n.   *)
(* Every transaction of the account adds one to its balance, so a balance  *)
(* tells of which moment it is.  A cached value can be gone at any time    *)
(* (eviction, Redis) and is not used after its time to live, in blocks.    *)
(***************************************************************************)
EXTENDS Integers, Sequences, FiniteSets

CONSTANTS
  Readers,         \* requests being processed at the same time
  BlockKinds,      \* the pairs of transactions a block can have
  BlockNumberTtl,  \* ETH_BLOCK_NUMBER_CACHE_TTL_MS
  NonceTtl,        \* ETH_GET_TRANSACTION_COUNT_CACHE_TTL
  MaxBlockRange,   \* MAX_BLOCK_RANGE
  UpdateInterval,  \* BALANCES_UPDATE_INTERVAL
  SnapshotEvery,   \* blocks between two balance snapshots of the mirror node
  PageSize,        \* MIRROR_NODE_QUERY_LIMIT
  MaxBlocks,       \* bound on the chain
  ReadParams,      \* what is asked for: pairs of an operation and a block, 0 for `latest'
  StartBlocks,     \* the chain's length at first
  MaxReads,        \* bound on the requests
  MaxDuration      \* bound on the blocks made while a request is processed

Slots == {"sent", "received", "other"}
Ops == {"balance", "nonce"}

ASSUME AccountConstants ==
  /\ BlockKinds \subseteq Slots \X Slots
  /\ ReadParams \subseteq Ops \X (0..MaxBlocks)
  /\ {BlockNumberTtl, NonceTtl, MaxBlockRange, UpdateInterval, MaxReads,
      MaxDuration} \subseteq Nat
  /\ {SnapshotEvery, PageSize, MaxBlocks, StartBlocks} \subseteq Nat \ {0}
  /\ StartBlocks <= MaxBlocks

VARIABLES
  chain,        \* the blocks
  blockNumber,  \* cached ETH_BLOCK_NUMBER
  answered,     \* answered[op][b]: what the cache decorator keeps
  nonceCache,   \* nonceCache[b]: what getTransactionCount keeps; 0 stands for `latest'
  read,         \* the requests
  reads         \* how many there were

accountVars == <<chain, blockNumber, answered, nonceCache, read, reads>>

LastBlock == Len(chain)
From(b) == 2 * b + 1
To(b) == 2 * b + 2
SlotAt(t) == chain[(t - 1) \div 2][((t - 1) % 2) + 1]
AccountTxs == {t \in From(1) .. To(LastBlock) : SlotAt(t) # "other"}
TxsUpTo(b) == {t \in AccountTxs : t <= To(b)}
End(b) == Cardinality(TxsUpTo(b))
NonceAt(b) == Cardinality({t \in TxsUpTo(b) : SlotAt(t) = "sent"})

NotCached == [v |-> -1, since |-> 0, until |-> 0]
IdleRead == [pc |-> "idle", op |-> "balance", b |-> 0, start |-> 0, since |-> 0, head |-> 0,
             v |-> -1]

Values == -1 .. 2 * MaxBlocks
Heads == 0..MaxBlocks
Entries == [v : Values, since : Heads, until : Nat]
ReadStates == {"idle", "extract", "stamp", "block", "inner", "newest", "result",
               "account", "keep", "put", "done"}

AccountTypeOK ==
  /\ chain \in Seq(BlockKinds) /\ LastBlock \in 1..MaxBlocks
  /\ blockNumber \in Entries
  /\ answered \in [Ops -> [1..MaxBlocks -> Entries]]
  /\ nonceCache \in [Heads -> Entries]
  /\ read \in [Readers -> [pc : ReadStates, op : Ops, b : Heads, start : Heads, since : Heads,
                           head : Heads, v : Values]]
  /\ reads \in 0..MaxReads

AccountInit ==
  /\ chain \in [1..StartBlocks -> BlockKinds]
  /\ blockNumber = NotCached
  /\ answered = [op \in Ops |-> [b \in 1..MaxBlocks |-> NotCached]]
  /\ nonceCache = [b \in Heads |-> NotCached]
  /\ read = [q \in Readers |-> IdleRead]
  /\ reads = 0

Going(q) == read[q].pc \notin {"idle", "done"}

NewBlock ==
  /\ LastBlock < MaxBlocks
  /\ \A q \in Readers : Going(q) => LastBlock - read[q].start < MaxDuration
  /\ \E k \in BlockKinds : chain' = Append(chain, k)
  /\ UNCHANGED <<blockNumber, answered, nonceCache, read, reads>>

-----------------------------------------------------------------------------
(* Moves of a request                                                      *)

GoTo(q, pc) == read' = [read EXCEPT ![q].pc = pc]
Found(q, pc, v) == read' = [read EXCEPT ![q].pc = pc, ![q].v = v]
Hit(q, pc, entry) == read' = [read EXCEPT ![q].pc = pc, ![q].v = entry.v, ![q].since = entry.since]
Usable(entry) == entry.v >= 0 /\ LastBlock <= entry.until

\* mutant: the time to live does not end
EntryForever(q, ttl) ==
  [v |-> read[q].v, since |-> read[q].since, until |-> LastBlock + 2 * MaxBlocks]

Entry(q, ttl) == [v |-> read[q].v, since |-> read[q].since, until |-> LastBlock + ttl]

KeepCaches == UNCHANGED <<blockNumber, answered, nonceCache>>
KeepWorld == UNCHANGED <<chain, reads>>

\* the mirror node's client fails: the caller gets an error
LookupFails(q) ==
  /\ read[q].pc \in {"extract", "stamp", "block", "newest", "result", "account"}
  /\ read' = [read EXCEPT ![q] = [IdleRead EXCEPT !.pc = "done", !.op = read[q].op]]
  /\ KeepCaches /\ KeepWorld

CachePut(q) ==
  LET r == read[q] IN
  /\ r.pc = "put"
  /\ GoTo(q, "done")
  /\ answered' = IF r.b = 0 THEN answered
                 ELSE [answered EXCEPT ![r.op][r.b] = Entry(q, MaxBlocks)]
  /\ UNCHANGED <<blockNumber, nonceCache>> /\ KeepWorld

\* getBalance, getTransactionCount of eth.ts: the cache decorator keeps nothing for a tag (b = 0)
StateAfterMiss(op, b) ==
  IF op = "nonce" THEN "inner" ELSE IF b = 0 THEN "account" ELSE "extract"

Request(q, op, b) ==
  LET asked == [IdleRead EXCEPT !.op = op, !.b = b, !.start = LastBlock, !.since = LastBlock] IN
  /\ ~Going(q)
  /\ reads < MaxReads
  /\ reads' = reads + 1
  /\ \/ /\ b # 0 /\ Usable(answered[op][b])
        /\ read' = [read EXCEPT ![q] = [asked EXCEPT !.pc = "done", !.v = answered[op][b].v,
                                                     !.since = answered[op][b].since]]
     \/ read' = [read EXCEPT ![q] = [asked EXCEPT !.pc = StateAfterMiss(op, b)]]
  /\ KeepCaches /\ UNCHANGED chain

-----------------------------------------------------------------------------
(* eth_getBalance                                                          *)

\* blockNumberTimestamp: the newest block, and its number is cached
blockNumberTimestamp ==
  /\ blockNumber' = [v |-> LastBlock, since |-> LastBlock, until |-> LastBlock + BlockNumberTtl]
  /\ UNCHANGED <<answered, nonceCache>> /\ KeepWorld

\* mutant: one block more
NearByTwo(b, head) == head - b <= 2

Near(b, head) == head - b <= 1

\* a cached number comes without a time: unless the block is near, it is fetched again
extractBlockNumberAndTimestamp(q) ==
  LET b == read[q].b IN
  /\ read[q].pc = "extract"
  /\ \/ /\ Usable(blockNumber)
        /\ GoTo(q, IF Near(b, blockNumber.v) THEN "account" ELSE "stamp")
        /\ KeepCaches /\ KeepWorld
     \/ /\ read' = [read EXCEPT ![q].head = LastBlock,
                                ![q].pc = IF Near(b, LastBlock) THEN "account" ELSE "block"]
        /\ blockNumberTimestamp

fetchTimestamp(q) ==
  /\ read[q].pc = "stamp"
  /\ read' = [read EXCEPT ![q].head = LastBlock, ![q].pc = "block"]
  /\ blockNumberTimestamp

\* getAccountPageLimit: the newest transactions; getPagedTransactions: the others, if the
\* page may not reach back to the block
Newest(n) == {t \in AccountTxs : Cardinality({u \in AccountTxs : u >= t}) <= n}
Listed(b) ==
  LET page == Newest(PageSize)
      rest == AccountTxs \ page IN
  IF rest # {} /\ \A t \in page : t >= To(b) THEN AccountTxs ELSE page

\* getBalanceAtBlockTimestamp takes off the transactions since the end of the block
BalanceFromTxs(b) == End(LastBlock) - Cardinality({t \in Listed(b) : t >= To(b)})

\* the balance in the mirror node's last snapshot before the block; without one it is 0
SnapshotBefore(b) ==
  LET snapshots == {k \in 1 .. b - 1 : k % SnapshotEvery = 0}
      last == {k \in snapshots : \A l \in snapshots : l <= k} IN
  IF snapshots = {} THEN 0 ELSE End(CHOOSE k \in last : TRUE)

getBalanceAtBlockNumber(q) ==
  LET r == read[q] IN
  /\ r.pc = "block"
  /\ Found(q, "put", IF To(r.head) - From(r.b) > UpdateInterval THEN SnapshotBefore(r.b)
                                                                ELSE BalanceFromTxs(r.b))
  /\ KeepCaches /\ KeepWorld

-----------------------------------------------------------------------------
(* eth_getTransactionCount                                                 *)

getTransactionCount(q) ==
  LET b == read[q].b IN
  /\ read[q].pc = "inner"
  /\ \/ Usable(nonceCache[b]) /\ Hit(q, "put", nonceCache[b])
     \/ b = 0 /\ GoTo(q, "account")
     \/ b = 1 /\ Found(q, "put", 0)
     \/ b > 1 /\ GoTo(q, "newest")
  /\ KeepCaches /\ KeepWorld

getAccountNonceForHistoricBlock(q) ==
  /\ read[q].pc = "newest"
  /\ GoTo(q, IF LastBlock - read[q].b <= MaxBlockRange THEN "account" ELSE "result")
  /\ KeepCaches /\ KeepWorld

\* mutant: the oldest first
First(txs) == CHOOSE t \in txs : \A u \in txs : t <= u

Last(txs) == CHOOSE t \in txs : \A u \in txs : u <= t

SentUpTo(t) == Cardinality({u \in AccountTxs : u <= t /\ SlotAt(u) = "sent"})

\* one transaction is taken for one that the account sent; if the last one was sent by
\* another account, the newest nonce is the best there is
getAccountNonceFromContractResult(q) ==
  LET txs == TxsUpTo(read[q].b) IN
  /\ read[q].pc = "result"
  /\ IF Cardinality(txs) <= 1 THEN Found(q, "keep", Cardinality(txs))
     ELSE IF SlotAt(Last(txs)) = "sent" THEN Found(q, "keep", SentUpTo(Last(txs)))
     ELSE GoTo(q, "account")
  /\ KeepCaches /\ KeepWorld

\* the account as it is now: its balance, or its nonce
ReadAccount(q) ==
  /\ read[q].pc = "account"
  /\ IF read[q].op = "balance" THEN Found(q, "put", End(LastBlock))
                               ELSE Found(q, "keep", NonceAt(LastBlock))
  /\ KeepCaches /\ KeepWorld

\* mutant: the two are swapped
TtlSwapped(b) == IF b # 0 THEN NonceTtl ELSE MaxBlocks

\* the nonce at a block is kept for a day, the newest one for a moment
TtlOfNonce(b) == IF b = 0 THEN NonceTtl ELSE MaxBlocks

KeepNonce(q) ==
  LET b == read[q].b IN
  /\ read[q].pc = "keep"
  /\ GoTo(q, "put")
  /\ nonceCache' = [nonceCache EXCEPT ![b] = Entry(q, TtlOfNonce(b))]
  /\ UNCHANGED <<blockNumber, answered>> /\ KeepWorld

AccountStep(q) ==
  \/ CachePut(q) \/ LookupFails(q)
  \/ extractBlockNumberAndTimestamp(q) \/ fetchTimestamp(q) \/ getBalanceAtBlockNumber(q)
  \/ getTransactionCount(q) \/ getAccountNonceForHistoricBlock(q)
  \/ getAccountNonceFromContractResult(q) \/ ReadAccount(q) \/ KeepNonce(q)

AccountNext ==
  \/ NewBlock
  \/ \E q \in Readers :
       AccountStep(q) \/ \E p \in ReadParams : Request(q, p[1], p[2])

AccountSpec == AccountInit /\ [][AccountNext]_accountVars

-----------------------------------------------------------------------------
(* Correctness.  A block that did not exist when it was asked for has no   *)
(* answer: the account as it was then is given, and kept.                  *)

Answered(q, op) == read[q].pc = "done" /\ read[q].op = op /\ read[q].v >= 0
Existed(q) == read[q].b \in 1 .. read[q].since

\* The balance of a block is the one at its end, give or take the block's last transaction
\* (getBalanceAtBlockTimestamp); it is newer only if the block was next to the newest one
\* known, and older, by less than a snapshot interval, only if the block is old (getBalance,
\* extractBlockNumberAndTimestamp, and every answer cached by either).
BalanceNearBlock ==
  \A q \in Readers : Answered(q, "balance") /\ Existed(q) =>
    LET b == read[q].b
        v == read[q].v IN
    \/ v \in End(b) - 1 .. End(b)
    \/ v > End(b) /\ b >= read[q].since - 1 - BlockNumberTtl
    \/ /\ To(read[q].since + MaxDuration) - From(b) > UpdateInterval
       /\ v \in End(b - SnapshotEvery) .. End(b)

\* The nonce at a block is the number of transactions the account had sent by then; it is a
\* later one only if the block was within MAX_BLOCK_RANGE of the newest or its last
\* transaction up to it was received (getAccountNonceForHistoricBlock and the day's cache).
NonceOfBlock ==
  \A q \in Readers : Answered(q, "nonce") /\ Existed(q) /\ read[q].b > 1 =>
    LET b == read[q].b
        v == read[q].v IN
    \/ v = NonceAt(b)
    \/ v > NonceAt(b) /\ b >= read[q].since - MaxBlockRange
    \/ /\ v > NonceAt(b)
       /\ \E t \in TxsUpTo(b) : SlotAt(t) = "received" /\ \A u \in TxsUpTo(b) : u <= t

\* The newest nonce lags behind by no more than the time to live of its cache and the time a
\* request takes: a slow request may cache its older nonce after a faster one's newer nonce
\* (getTransactionCount: the account is read before the cache is written).
LatestNonceFresh ==
  \A q \in Readers : Answered(q, "nonce") /\ read[q].b = 0 =>
    read[q].v >= NonceAt(read[q].start - NonceTtl - MaxDuration)

\* Balances and nonces are those of the block asked for, up to the caches (AccountService).
AccountsRight == AccountTypeOK /\ BalanceNearBlock /\ NonceOfBlock /\ LatestNonceFresh
=============================================================================
