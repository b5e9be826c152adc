# TLA+ models of the Hedera JSON-RPC relay

The relay answers Ethereum JSON-RPC calls by talking to Hedera consensus nodes
(through the SDK) and to a mirror node (REST). Two things make it hard. A few
parts keep state that concurrent requests and several relays share: the budget
for transaction fees, subscriptions, filters, the pool of SDK clients, the
caches. And every answer is put together from several look-ups of a mirror node
that goes on importing blocks in between, and is then kept in a cache. These
modules model both.

Paths below are relative to `src/packages/`; `relay/…` stands for
`relay/src/lib/…` and `ws/…` for `ws-server/src/…`.

## The system

| Component | State | Operations | What is hard | What makes it correct | Modules |
|---|---|---|---|---|---|
| HBAR limiter (`relay/services/hbarLimitService`) | `reset` timestamp per relay | `shouldLimit`, `addExpense`, `resetLimiter` | every cache call is awaited; relays share the amounts but not the timestamp | nobody is refused without reason, charges go to the right plan | `HbarLimiter` |
| Plan repositories (`relay/db/repositories/hbarLimiter`) | cache entries with TTL: address → plan, plan, amount | find, create, save, `addToAmountSpent`, reset | read followed by write; entries expire one by one | recorded amounts are real | `HbarLimiter`, `SpendingPlans` |
| Plan configuration (`relay/config/hbarSpendingPlanConfigService.ts`) | preconfigured plans | populate, update, delete | several relays start on one cache, and crash half-way | the cache holds what the file lists | `SpendingPlans` |
| Metric service (`relay/services/metricService`) | – | fetch the record, add the expense | runs after the answer, may fail at every step | a fee is booked once, or not if nobody paid | `Expenses`, `HbarLimiter` |
| SDK client (`relay/clients/sdkClient.ts`) | the client | `executeTransaction`, `executeQuery`, `createFile`, `deleteFile` | time-outs with unknown outcome | files are removed, expenses reported | `SendRawTransaction`, `ContractCalls`, `Expenses` |
| Client pool (`relay/services/hapiService`) | client, uses, age, `shouldReset` | `getSDKClient`, `decrementErrorCounter` | errors of a client come back after it was replaced | a client is not used too often, too long, or after an error | `HapiPool`, `ContractCalls` |
| Raw transactions (`relay/services/ethService/transactionService`, `relay/precheck.ts`) | locals of a request | `sendRawTransaction`, prechecks | lagging mirror node, time-outs, two modes | the answer agrees with what the network did | `SendRawTransaction`, `Prechecks` |
| Gas estimates and `eth_call` (`ethService/contractService`) | cached answers of consensus nodes | `estimateGas`, `call` | two routes, nested retries, errors turned into answers | every call ends; an estimate passes the prechecks | `GasEstimates`, `ContractCalls` |
| Accounts (`ethService/accountService`) | cached block number, nonces, balances | `getBalance`, `getTransactionCount` | records newer and older than the block asked for | the answer is of that block | `AccountReads` |
| Entities (`mirrorNodeClient.resolveEntityType`, `getCode`) | cached types | `resolveEntityType`, `getCode`, address resolution | two look-ups that are not one; a cache fed by a cache | the type is the entity's | `Entities` |
| Blocks and receipts (`ethService/blockService`, `transactionService`) | cached answers | `getBlock…`, `getBlockReceipts`, `getTransaction…` | immature rows, rows not there yet, pages | blocks are whole, nothing immature is kept | `BlockReads` |
| Fees (`ethService/feeService`) | cached histories | `feeHistory` | blocks made meanwhile; failures become answers | each fee is its block's | `FeeHistory` |
| Debug (`relay/debug.ts`) | cached traces and states | `traceTransaction`, `traceBlockByNumber` | parallel look-ups, partial failure | a trace has every call | `Tracing`, `Parameters` |
| Cache decorator (`relay/decorators/cache.decorator.ts`, `relay/eth.ts`) | – | decides what is kept, under which key | tags that move | no stale answer for a moving block | `CachedMethods`, `Parameters` |
| Cache service (`relay/services/cacheService`, `relay/clients/cache`) | LRU and Redis | get, set, delete, `incrBy` | fallback when Redis fails, eviction of anything, the plans included | old values come back only after a fallback | `CacheService` |
| Mirror node client (`relay/clients/mirrorNodeClient.ts`) | – | requests, retries, pages | retries, accepted errors | an answer is whole or marked | `LogPages` and the reading modules |
| Filters (`ethService/ethFilterService`) | filters in the cache | create, poll, uninstall | read–await–write | no log twice, none lost | `Filters` |
| Validation, dispatch (`relay/validators`, `relay/dispatcher`) | – | parameters → arguments → answer | rules, layout and signatures written at three places | a handler gets what it declares | `Parameters`, `Gateway` |
| IP rate limiter (`relay/services/rateLimiterService`) | windows or counters | `incrementAndCheck` | failing store | fixed windows | `RateLimiter`, `FixedWindow` |
| RPC server (`server/`) | fields of one object | single requests, batches | requests overlap at awaits | every item answered | `Gateway` |
| WebSocket server, connection limiter (`ws/webSocketServer.ts`, `ws/metrics`) | connections, counters, timers | connect, message, close | handlers await while the connection closes | limits hold, slots come back | `WsSubscriptions`, `Gateway` |
| Subscriptions, poller (`ws/service`, `ws/controllers`) | subscriptions by tag, polls, interval, cache of what was sent | subscribe, notify, poll | overlapping ticks, shared polls | polls match subscriptions; every event once | `WsSubscriptions`, `Delivery` |
| Configuration, formatters, wiring | – | pure, or once at start | – | – | – |

`PROJECT.json` lists the same components with their files and what is modelled
of each, and the hazards, each at its line.

How they interact: a message passes the servers (`Gateway`), the rate limiter,
validation and layout (`Parameters`) and the cache decorator
(`CachedMethods`), and reaches a service. Reading services ask the mirror node
(`AccountReads`, `Entities`, `BlockReads`, `FeeHistory`, `Tracing`, `LogPages`,
`Filters`); paying ones ask the HBAR limiter and a consensus node
(`SendRawTransaction`, `ContractCalls` on `HapiPool`), and what they paid comes
back to the limiter as an event (`Expenses`, `HbarLimiter`). Where two parts
share state that a step of one can disturb in the other, one module EXTENDS the
other (`ContractCalls` → `HapiPool`, `Gateway` → `RateLimiter`, `GasEstimates` →
`Prechecks`) or holds both (`HbarLimiter`, `WsSubscriptions`).

## The modules

The shared conventions: a request is a record with a program counter that
stands at its next awaited call, and one action is that call with all the
synchronous code up to the next, so that requests interleave where the event
loop, or another relay, can interleave them. Fields that only the properties
read are ghosts or history and are named as such in the modules. Cached values
may vanish at any time where the code uses a bounded cache or Redis.

### HbarLimiter

*Code:* `hbarLimitService/index.ts`, `hbarSpendingPlanRepository.ts`, the two
address repositories, `CacheService.incrBy` and the caches under it,
`SDKClient.executeTransaction` and the metric service's path to `addExpense`.

Each of `Requests` is a small process. Its program counter `pc` stands at the
next awaited cache or network call, and one action is one such call with all
the synchronous code up to the next: so requests interleave exactly where the
event loop, or with Redis another relay, can interleave them. The three kinds
of cache entries (`link`, `plans`, `amount`) carry their expiry times; an
action sees an entry only while it is live. `reset` is the private timestamp of
each relay instance.

`getSpendingPlan` is called from six places. It is a subroutine: `LookUp` sets
the address and the place to return to (`ret`), `FindLink`, `FindPlan`,
`FindAmount`, `CreatePlan` and `SaveLink` are its steps, `NotFound` and `Miss`
its catch branches (EVM address, then IP address, then a new plan).

| Code | Actions |
|---|---|
| `shouldLimit`, `isTotalBudgetExceeded` | `Start`, `CheckBudget`, `CheckPlan`, `Refuse` |
| `resetLimiter`, `resetAmountSpentOfAllPlans` | `ResetKeys`, `ResetDelete`, `ResetGauge`, `ResetDone` |
| `executeTransaction`, `captureTransactionMetrics` | `Execute`, `ExecuteFails`, `AddExpense`, `RecordUnavailable` |
| `addExpense`, `addToAmountSpent` | `ChargeExists`, `ChargeRead`, `ChargeSet`, `ChargeIncr` (Redis), `ChargeIncrRead` and `ChargeIncrSet` (memory), `ChargeUser` |
| the LRU cache, full (`localLRUCache.ts:22`) | `Evict` (`EvictLink`, `EvictPlan`, `EvictAmount`) |

The in-process cache has `CACHE_MAX` entries for these and for all answers the
relay keeps. `Evict` takes away any one of them, a preconfigured plan too: the
keys that `relay.ts:141` wants reserved are not (see `CacheService` below).

`paid`, `ledger`, `settled`, `opened`, `evicted` (did an eviction strike the
operator's plan or link, or its amount in this window?) and the field `before`
of a request are ghosts that the properties speak about; no guard reads them,
except that `MaxPaid` bounds `paid`, and `MaxEvictions` the count `evictions`.

Abstractions. Amounts are small numbers. A plan id is a counter (a UUID in the
code). `checkExistsAndActive` reads the plan once more right after it was
read; plans are never set inactive, so the two reads are one step. Reading the
remaining TTL and writing the amount in `incrBy` are one step as well, since
nothing but expiry can come between. With the in-process cache most of these
calls resolve within one turn of the event loop, where the model lets requests
interleave more freely; what holds in the model holds in the code.

### WsSubscriptions

*Code:* `webSocketServer.ts`, `connectionLimiter.ts`, `subscribeController.ts`,
`unsubscribeController.ts`, `jsonRpcController.ts`, `subscriptionService.ts`,
`pollerService.ts`, `utils.ts`, `validators.ts`.

A connection goes through "new", "tcp" (socket accepted), "open" or "closing"
(WebSocket accepted, or the server sent a close frame), "gone" (socket
destroyed, close event pending) and "closed". The number of clients is taken
from the sockets at an upgrade and decremented at a close event, as the code
does, so that the two need not agree.

The server is one event loop. Messages, timers and socket events start a new
turn, and only when the continuations of the previous one have run
(`Drained`); a log subscription that waits for the mirror node ("validate")
lets other turns pass. A batch starts several handlers in one turn; the model
lets them go on in any order, the code in a fixed one.

| Code | Actions |
|---|---|
| connection handler, `applyLimits` | `Connect`, `Upgrade` |
| `startInactivityTTLTimer` and its callback | `InactivityTimeout`, `ttl` |
| `handleConnectionClose` | `SocketGone`, `Close` |
| message handler, `getRequestResult` | `Message`, `Limited`, `Answer` |
| `handleEthSubscribeNewHeads` | `SubscribeHeads` |
| `handleEthSubscribeLogs`, `handleEthSubscribe` | `ValidateLogs`, `RejectLogs`, `SubscribeLogs`, `IncrementSubs` |
| `handleEthUnsubscribe` | `Unsubscribe` |
| `subscribe`, `unsubscribe`, `add`, `start`, `remove`, `stop` | operators of the same or a similar name (`PollerAdd`, `PollerRemove`) |
| `notifySubscribers` | `Notify` (it resets the inactivity timer; what it sends is in `Delivery`) |

Subscription ids are fresh numbers (random in the code; a collision would
depend on 128 bits). Filters are tags. Methods other than the two subscription
calls change none of this state.

### SendRawTransaction

*Code:* `TransactionService.ts` (`sendRawTransaction` to `submitTransaction`),
`precheck.ts`, `sdkClient.ts`, `MirrorNodeClient.repeatedRequest`.

One request per transaction; each network call is one step that succeeds,
fails, or times out with or without effect. The consensus network is the set
`accepted` and the `log` of what was executed, with the nonce of the sender
before it; the mirror node has seen the first `seen` entries. `early` says that
the client has its answer already (asynchronous mode); `cleanup` that
`deleteFile` was called. Prechecks other than the nonce are "some check
failed". Whether the HBAR limiter refuses is left open: `HbarLimiter` says when.

| Code | Actions |
|---|---|
| `sendRawTransaction`, prechecks | `Receive`, `Precheck` |
| `submitTransaction`, `createFile`, `executeAllTransaction` | `ExchangeRate`, `FileLimit`, `FileCreate`, `FileAppend` |
| `executeTransaction` | `Limit`, `Execute`, `Receipt` |
| `deleteFile` | `DeleteFile` |
| `sendRawTransactionProcessor`, `repeatedRequest` | `Found`, `NotFound` |
| `sendRawTransactionErrorHandler` | `HandleError`, `NoncePoll` |
| the network and the mirror node | `Consensus`, `MirrorImport` |

### Filters

*Code:* `FilterService.ts`, and of `CommonService.ts` and
`MirrorNodeClient.ts` what a filter asks for: `getLogs` by block range with its
validation, `getBlocks`, `getLatestBlockNumber`.

`cache` holds the filters, shared by all relays; each call (`Calls`) works on a
copy that it read at its start. `head` and `logs` are the mirror node, which may
import a block (`Mine`) between any two calls of a poll. A block stands for
itself and for the logs in it that match the filter. `lastQueried` is 0 where
the code has `null` or 0: both are false in `lastQueried || …`. The logs up to a
resolved `toBlock` are final, so that resolving it and fetching them is one
step.

| Code | Actions |
|---|---|
| `newFilter`, `validateBlockRange`, `newBlockFilter`, `createFilter` | actions of the same names |
| `getFilterChanges`, `getFilterLogs`, `uninstallFilter`: the read of the filter | actions of the same names (`Begin`) |
| `getLogs`, `validateBlockRangeAndAddTimestampToParams` | `getFromBlock`, `getToBlock` (with `Nothing` where the answer is empty) |
| `mirrorNodeClient.getBlocks` | `getBlocks` |
| `getLatestBlockNumber` after an empty result | `getLatestBlockNumber` |
| the filter written back, the answer | `setFilter`, `deleteFilter` |
| TTL, errors of mirror node and cache | `Expire`, `Fail` |

`made`, `begun`, `delivered`, `repeated`, `skipped`, `unread`, `overlapped` and
`removed` are history. The only guard that reads one is that ids are fresh
(`made`). `skipped` collects the blocks a poll moved the filter past although
they were mined after it had looked, `unread` those it moved past without
having looked, because the filter's `toBlock` was not mined. These are the two
ways to lose a log; `LostOnlyByEmptyPolls` is about every filter and says that
there is no third. `begun` are the filters whose `fromBlock` was mined when they
were created: only what they return is sure to come from their range (see
"Behaviour worth knowing").

Not in the module: tags other than "latest", filters by block hash (the API has
none), the limits on timestamps and pages of logs (the error is `Fail`), and
answers lost on the way to the client.

### Delivery

*Code:* `pollerService.ts` (`poll`), `subscriptionService.notifySubscribers`,
`eth.blockNumber` with its cache, `getLogs` as far as its range limit.

`Tick` is one turn of the interval. It does not wait for the previous one, so
several run at a time, each with the `fromBlock` it read at its start, and their
answers come back in any order. `NumberRead` / `TickCached` are the look-up of
the block number, `Fetched` / `FetchFails` the poll itself, `Deliver` the code
after the await: it sets `lastPolled` to the `latestBlock` known *then*
(line 79) and notifies. A subscriber is due from the first block after it
joined. `missed` collects what no later poll will ask for: the blocks mined
between the creation of the poll and its first tick, which starts at the latest
block (nothing has to fail for that), and what a failing poll left. Members of the
tag come and go as `WsSubscriptions` lets them. Of `newHeads` the module has what
is sent, when, and whether it is sent twice; a head that the next replaced is
not due any more.

### HapiPool and ContractCalls

*Code:* `hapiService.ts`; `ContractService.call` with both routes,
`sdkClient.submitContractCallQueryWithRetry` and `increaseCostAndRetryExecution`,
the error handling of both routes.

`getSDKClient` replaces the client when a reset is due and then works out
whether the *next* call finds one due, so that a client that is too old serves
one more call. `ReportError` does not know which client saw the error.
`ContractCalls` is a request on top of it: the checks (`eth_call`), the cache,
the query with time-outs (`TimeoutRetries`) and fees (`FeeRetries`), each of
them taking its client from the pool.

### SpendingPlans

*Code:* `hbarSpendingPlanConfigService.ts` and the repository operations it
calls.

`StartRelay`, one `PopulateStep` per awaited read, delete or write, and
`StopRelay` (a crash) for each of `Populaters`. Meanwhile the configuration
changes (`ChangeConfig`), links of the limiter's own plans appear and expire
(`LookupFails`, `SaveOwnPlan`, `LinkExpires`). `alone` says of a relay that
nobody else wrote since it started.

### RateLimiter, FixedWindow, Gateway

*Code:* `IPRateLimiterService`, `LruRateLimitStore`, `RedisRateLimitStore`;
`server/src/koaJsonRpc/`, `ws/controllers/jsonRpcController.ts`,
`rpcMethodDispatcher.ts`.

`FixedWindow` is the abstract specification: windows of a fixed length, at most
`Limit` calls in each, none refused before; a store that can fail may let a
call pass uncounted. `RateLimiter` has the two stores, in memory one window per
address whose counters start again together, in Redis a counter with a TTL per
address and method. `CountsInWindows` says that `RateSpec` implements `FWSpec`
under the mapping `Windows` (calls granted, last instant); it is checked by TLC
and proved.

`Gateway` takes a message through a server: `Receive`, the rate limit and
execution of every item, and the answer with its status. The HTTP server keeps
request details in fields of its one object (`details`), overwritten by the next
message; the WebSocket server copies them.

### CacheService, CachedMethods

*Code:* `cacheService.ts`, `localLRUCache.ts`, `redisCache.ts`;
`cache.decorator.ts` with the methods of `eth.ts` it is on.

In `CacheService` an operation on Redis may fail and then falls back to memory;
`latest` is what the last write meant, against which `seen` (a read) is judged.
`incrBy` in memory is a read and a write (`StoreSum`). The LRU cache can keep
reserved keys apart, and the module has that; but `getInstance` makes the one
cache at its first call, which the `@cache` decorators of `eth.ts` make without
any keys when the module is loaded, and the keys that `relay.ts:141` passes later
are dropped (`cacheService.ts:125-136`). So `Reserved` is empty whatever
`ReservedKeys` the relay asks for, and any entry can be evicted.

In `CachedMethods` a question is a method and the blocks its parameters name:
a tag, a number, a field of an object, or none. `SkipsCaching` and `CacheKey`
are the decorator's decisions; the answer is abstracted to the blocks it is
about.

### AccountReads, Entities, BlockReads, FeeHistory, Tracing

*Code:* `AccountService.ts`; `resolveEntityType`, `getCode`, `resolveEvmAddress`;
`BlockService.ts` and the look-ups of `TransactionService.ts`; `FeeService.ts`;
`debug.ts`. Each of them has the mirror node beside it, which makes blocks
(or rows of one block) between any two look-ups of a request.

| Module | Mirror node | Abstraction of an answer |
|---|---|---|
| `AccountReads` | a chain of blocks with two transactions each; balances in snapshots | a balance counts the account's transactions, so it tells of which moment it is |
| `Entities` | an entity that is created at some block, look-ups that fail | a type, or code / no code |
| `BlockReads` | rows of results and logs, absent, immature, then mature; page limits | which transactions are listed, which as regular, which from immature rows |
| `FeeHistory` | blocks with fees | first block, fees, number of ratios, or "beyond the head" |
| `Tracing` | results and actions written at different moments | per transaction the addresses touched, null, or absent |

The actions bear the names of the methods they start (`getCode`, `feeHistory`,
`trace`, `Look`) and then of the look-ups; `Put…`, `Keep`, `Store…` are the
writes to a cache.

`feeHistory` looks the newest block up once for the head and, for the tags "safe"
and "finalized", a second time for the end of the range (`FeeService.ts:86-94`).
A block made in between makes the tag's block exceed the head, and the error
`REQUEST_BEYOND_HEAD_BLOCK` is given for a block that exists. `BeyondWasBeyond`
names that case. It is not kept: the decorator keeps nothing for these tags
(`NON_CACHABLE_BLOCK_PARAMS`, `constants.ts:275`).

### Prechecks, GasEstimates, Expenses, LogPages, Parameters

*Code:* `precheck.ts`; `estimateGas` and what it calls; `sdkClient.ts` and
`metricService.ts` as far as money is concerned; `createAxiosClient`,
`getPaginatedResults`, `getLogsByAddress`; `validators/`, `decorators/`,
`objectTypes.ts`, `schemas`, `arrangeRpcParams` and the rules of `eth.ts` and
`debug.ts`.

`Prechecks` looks up price, sender and receiver at three moments, with the
checks of `sendRawTransactionCheck` in their order, on small amounts and gas
costs of which `Coef` weibars are a tinybar. `broken` collects the rules that the
transaction broke at some moment of its request. `GasEstimates` extends it, since
what it promises is that its answers pass these checks. `Expenses` has jobs
(a transaction, the appends of a file, a query) and their records; `paid` and
`booked` are per item, so that a charge made twice is seen. `LogPages` reads
the pages of several addresses at once and merges them. `Parameters` abstracts a
JSON value to its kind, a string to the patterns it matches, and walks the
positions of one request as the validator does, which strips unknown
properties in place, before the arguments are laid out.

### MC modules

`MCHbarLimiter`, `MCWsSubscriptions`, `MCSendRawTransaction`, `MCFilters` and
`MCDelivery` give the constants of one component their values. `MCConsensus`
(which adds `eth_call` to `MCSendRawTransaction`), `MCReads` and `MCServices` hold several components that share no state: a
variable `part` chooses the one a behaviour runs, and the others stay where
they start. Each part is explored exactly as it would be by itself.

Definitions marked "mutant" are plausible mistakes; putting one in the place of
the operator that follows it makes the property named in `PROJECT.json` fail,
which shows that the property is not empty.

## The runs

| Run | Instance | Question | Result |
|---|---|---|---|
| `hbar_redis` | two relays with a shared cache, one user, two requests, a reset due at the start, at most two fees | Are amounts real, refusals justified by fees booked and paid, plans the right ones, and does every request end? | holds |
| `hbar_budget` | one relay with the in-process cache, one request at a time, the operator plan preconfigured, the clock runs through two periods and never stops on a boundary | Does the limiter keep the promises of `docs/design/hbar-limiter.md` when nothing is concurrent, and until when, with one entry evicted at any moment? (`BlockedUntilReset`, `OperatorPlanIsSeparate`, `ResetInFuture`, `ResetsKeepPace`) | holds until the cache evicts the operator's plan, link or amount |
| `ws_limits` | three connections of one address, two requests, one log tag, limits 2 / 1 / 1 | Polls, timer, counters, connection limits, inactivity timers | holds |
| `ws_same_sub` | two connections, a log tag and a newHeads tag, `WS_SAME_SUB_FOR_SAME_EVENT` | One subscription per event, newHeads end with the connection, closing ends | holds |
| `ws_leak` | one connection | Does every subscription end with its connection? | violated: a log subscription validated after the close event stays |
| `delivery` | two overlapping ticks, one subscriber that comes and goes, three blocks, range limit 1 | Is anything passed over or sent twice, and does what is due arrive? | holds but for what was mined before the first poll, and for failed polls that nobody repeats |
| `consensus`, part send | three transactions of one account, two with the same nonce, one with a file, a mirror node that is any number of them behind | Do answers agree with what the network did, do nonce errors tell the side, are files removed, is every request answered? | holds; "nonce too high" may be wrong if the mirror node misses two transactions of the sender |
| part calls | two `eth_call`s at a time out of five kinds, three in all, clients for two uses or one unit of time | Are clients replaced in time and after their errors, and does every call end? | holds |
| `send_file_leak` | one large transaction | Is the file always removed? | violated: `fileId` is assigned only when `submitEthereumTransaction` returns |
| `filters` | one filter, two calls at a time, three blocks mined, pages of two blocks, range limit 2 | Is anything lost or returned twice or from outside the range, does a removed filter come back? | holds: lost is only what is mined while an empty poll ends, and what is there when a poll finds `toBlock` not mined; twice and back only with overlapping calls |
| `reads` | six parts (balances of one block, nonces of one block, entities, blocks, fees, traces), two requests at a time, cached values that live one block | Are answers about the block asked for, complete, and not older than the caches allow? | holds, with the exceptions the properties name |
| `errors_as_results` | the part fees, Redis | Is an error always answered as an error? | violated: read back from Redis it is no `JsonRpcError` any more and becomes a result |
| `services`, part plans | two relays that start three times, two plans, a configuration that changes | Are plans and links those of the configuration, after crashes and when relays start together? | holds |
| part gateway | two messages at a time over HTTP or WebSocket, single and batch, with invalid, null and disallowed items, rate limit 1 and 2 in a window of two | Fixed windows, batches answered, details of WebSocket requests their own | holds |
| part cache | three keys, one of them to be reserved, room for one entry, one failure of Redis | When can an old or deleted value come back, is what is read the last write or nothing? | holds; the reservation has no effect |
| part methods | two requests at a time out of nine questions, four blocks | Is a kept answer right for everybody who gets it? | holds |
| parts prechecks, estimates | nine transactions against four senders and two prices; nine estimates | Was what passed right at one moment, was what was refused wrong, does an estimate pass? | holds, with two cases left out that the property names |
| part expenses | a transaction, a file of two appends, a query, two faults | Booked once, only if paid, and how much is lost? | holds |
| part logs | six lists of addresses, up to seven logs on pages of two, three pages, three failures | Are logs whole, in order, refused only if many, with bounded requests? | holds |
| part parameters | every method with up to one parameter too many, each position with every kind of value | Do handlers get what they declare, and is nothing kept for a moving block? | holds |

All parts of `services` are one run, as are those of `reads` and `consensus`.

A property that a run checks is often a conjunction of named parts, defined and
explained one by one in its module:

| Property | Parts beside the types |
|---|---|
| `RefusedForSpending` | `LimitedOnlyIfBooked`, `LimitedOnlyIfPaid` |
| `LimiterPromises`, `ResetsOnTime` | `BlockedUntilReset`, `OperatorPlanIsSeparate`; `ResetsKeepPace`, `ResetInFuture` |
| `LimitsHold` | `OvershootBounded`, `ConnectionLimits`, `OpenHasTimer` |
| `DeliveredRight` | `PassedOverOnlyIfMissed`, `RepeatedOnlyAfterExpiry`, `PollsKnownBlocks` |
| `AnswersAgree` | `HashMeansAccepted`, `RefusedIsNotExecuted` |
| `SeenOnceInRange` | `ReturnedOnce`, `ReturnedInRange`, `UninstalledStaysAway` |
| `AccountsRight` | `BalanceNearBlock`, `NonceOfBlock`, `LatestNonceFresh` |
| `EntitiesRight` | `CachedTypeIsRight`, `CodeIsRight` |
| `BlocksRight` | `NoImmatureServed`, `BlockIsWhole`, `ReceiptsCoverBlock`, `FoundIfVisible` |
| `FeesRight` | `FeesAreOfBlocks`, `BeyondWasBeyond` |
| `TracesRight` | `CallTraceIsWhole`, `StatesMissOnlyFailed` |
| `PlansAsConfigured` | `PopulatedAsConfigured`, `TogetherAsConfigured`, `NoLinkToDropped` |
| `MessagesRight` | `SocketDetailsAreOwn`, `BatchesAnswered` |
| `CacheRight` | `StaleOnlyAfterFallback`, `LatestOrNone` |
| `KeptIsRight` | `TagsAreNow`, `NumbersAreExact`, `OldestAnswer` |
| `PrechecksRight`, `EstimatesRight` | `PassedWasRight`, `RefusedWasWrong`, `NothingIsLost`; `EstimateIsEnough` |
| `LogsRight` | `AnswerIsWhole`, `AnswerInTimeOrder`, `RefusedOnlyIfLong`, `RequestsBounded` |
| `ArgumentsRight` | `DetailsInPlace`, `MovingNotKept`, `BlocksNamedOnce`, `OptionsOfTracer`, `CleanArguments` |

The types of the limiter, the subscriptions, the submission, the filters, the
rate limiter and the expenses are theorems and no run repeats them.
`RefusedForSpending` is checked where no plan belongs to an IP address: with
one, a fee can be booked twice on a plan (see "Behaviour worth knowing").

What the properties do not claim, because the code does not do it:

- `ResetsOnTime`: at exactly the boundary the new timestamp is the present time
  and not in the future. Neither the run's clock nor `ResetsAreOnTime` stands
  there (`OffBoundary`); `ResetsKeepPace` is proved with that moment.
- `AnswersAgree`: an answer does not claim what did not happen, but the client of
  an executed transaction may get an error instead of its hash.
- `SeenOnceInRange`: filters on which calls overlapped are left out, since these
  do return logs twice and bring removed filters back.
- `MessagesRight`: over HTTP the details of a request may be another's
  (`DetailsAreOwn`, which no run checks), and a batch with a null item is not
  answered with 200.
- `LogsRight`: after an error that is accepted (`cut`) the answer is a prefix only.
- `ArgumentsRight`: `onlyTopCall` without a tracer is accepted; answers for tags
  within an object of `eth_call`, and of `eth_getLogs` without blocks, are kept.
- `RefusedOnlyAtLimit`: with `SameSub`, repeated subscriptions count.

### Bounds

- `MaxPaid` bounds the fees paid, `MaxPlans` the plans created, `MaxTime` the
  clock, `MaxEvictions` the entries evicted: one in `hbar_budget`, at any moment
  and of any kind, none in `hbar_redis`, whose shared cache is Redis. `MaxPlans` is chosen so that no run reaches it
  (otherwise a request would be stuck in `CreatePlan` and `RequestsEnd` would
  fail). Two fees are what it takes to lose one update or to book one on the
  wrong plan. In `hbar_redis` the clock stands at 5, after the reset timestamp
  4: a reset is due for the first requests and races with their charges. Only
  `hbar_budget` lets time pass, in steps of two over odd numbers,
  so that no request runs at the millisecond of a boundary; entries expire in it.
- The limits are 2 for the operator and 1 for BASIC, so that both refusals
  occur within two fees; where the budget is the question the tier limits are
  out of reach (`BudgetOnly`).
- Three calls are one more than a client serves, so that each reset (by uses, by
  age, by error) comes while another call holds the old client.
- Two WebSocket requests at a time are enough for a batch, for two validations
  at once, and for an unsubscription between check and count. Three connections
  are one more than the limit. `MaxSubs` bounds the subscriptions ever created;
  requests that would exceed it are not sent.
- Two ticks overlap in every order; three blocks against a range limit of 1 let
  the poller fall behind it. One hash may leave the sent cache (`Expirable`).
- `Retries` is 2 in `consensus`: a first and a last round. Nothing bounds how far
  the mirror node is behind; with three transactions of one account it can miss
  all of them, which is more than it takes for the loop over nonces to stop at an
  older nonce that differs and to give the error for the wrong side. The run
  reaches that, and `NonceErrorsAreRight` says exactly when it happens.
- `RetryCount` is 2 in `reads`, a first look at immature rows and a second one
  after the wait, and one of the two blocks of `SomeBlockTxs` has more logs than
  the pages hold (`MaxRows` = 2).
- Three blocks after the start are enough for a full page and a rest of a block
  filter, for a range over the limit, for a block mined before and one mined
  after a poll looked, and for a `fromBlock` and a `toBlock` (2) that are mined, or
  not, at the creation. The chain starts at block 0, where the number is false in
  `lastQueried || …`. Calls on different filters share no state, so one filter
  is enough; the theorems hold for any number of them.
- In the reading modules caches live for one block (`…Ttl`), a request lasts at
  most one block (`MaxDuration`, `MaxStepTime`, `MaxFeeTime`, `MaxAskTime`) and
  there are one or two requests per reader: enough for an answer that was
  computed before a block, kept, and served after it. The properties name these
  constants, so that a longer request or cache would only move the bound.
- `MaxStarts` = 3: one relay twice, and the other in between; a configuration
  changes only while a start is left (`ChangeConfig`), since nothing reads it later.
- `MaxFaults`, `MaxFailures`, `MaxErrors` let a failure hit every step, and two or
  three of them the same thing.
- `SYMMETRY` is used in `ws_limits` (log tags), `filters` (calls), `reads` and
  `errors_as_results` (requests), which check no liveness.

`CHECK_DEADLOCK FALSE` stands where the system really stops: all connections
closed (ids are not used again), all transactions answered, the filter removed
and no block left to mine, all requests of a bounded number answered.

### Fairness

- `HbarLimiter`: weak fairness of the steps of a request that was received.
  Each is a cache or network call that returns or throws; their clients have
  time-outs. Nothing is assumed of arriving requests or of the clock.
- `ContractCalls`: weak fairness of the steps of a call, for the same reason.
- `WsSubscriptions`: weak fairness of the handlers, for the same reason;
  strong fairness of the end of a socket whose close frame was sent (the `ws`
  library destroys it after its own time-out) and of the close event. They are
  strong because a turn of the loop waits for the continuations of another, and
  so an event is not enabled continuously; the loop does not skip pending
  events for ever.
- `Delivery`: weak fairness of the interval, of what has arrived, and of the
  expiry of the cached number; strong fairness of a successful block number and
  a successful poll: a mirror node that is asked again and again answers some
  time. That covers the first polls of a tag too, however many of them fail: as
  long as none has ended well, `EventuallySent` excuses nothing.
- `SendRawTransaction`: weak fairness of the steps of a request. Nothing is
  assumed of the consensus nodes or the mirror node, which may stop.
- The other modules have no fairness: their properties are about what was
  answered.

## What is proved

TLAPS checks the following for every value of the constants that meets the
assumptions of the modules: any number of relays, requests, addresses,
connections, transactions, filters, blocks, questions; any limits and times to
live. The assumptions are the named `ASSUME`s beside the constants. Nearly all
say of which set a constant is: a limit is a natural number, an amount of
retries is not 0 (with none a query is never sent), there is something to ask
for. Four say more:

- `LimiterConstants`: preconfigured plans exist, time starts before requests do.
- `PresetConstants`: a preconfigured plan is neither "own" nor "none", and no
  address is listed in two plans. Nothing checks the latter
  (`validateSpendingPlanConfig`, `hbarSpendingPlanConfigService.ts:159`, looks at
  each plan by itself): with an address in two plans its link is that of whichever
  relay and plan wrote last, and `PlansAsConfigured` has no meaning for it.
- `GasFits`: the gas the relay assumes for a transfer, a call and a new account
  is at least the base cost and at most the gas limit it accepts, no request
  carries data beyond that limit, and the default covers data that are shorter
  than a selector. The defaults (21000, 587000, 500000 and 400000 of 15
  million) meet it; `TX_DEFAULT_GAS` can be configured otherwise, and then an
  estimate may be refused by the relay that gave it.
- `ParameterConstants`: the parameters of a call are a sequence of parsed JSON,
  in which only an object has fields and nothing is undefined, and its method is
  one that the relay knows.

| Module | Theorem | States |
|---|---|---|
| `HbarLimiterProofs` | `LimiterTypeCorrect` | `[]TypeOK` |
| | `SpendingIsReal` | `[]NoPhantomSpending` |
| | `RefusalsAreJustified` | `[]LimitedOnlyIfBooked` |
| | `RequestsUseTheirOwnPlan` | `[]ChargedToOwnPlan` |
| | `RefusedForRealSpending` | `[]RefusedForSpending`, if `OperatorSeparate` |
| | `ResetsAlwaysKeepPace` | `ResetsKeepPace` |
| | `ResetsAreOnTime` | `ResetsOnTime`, if `OffBoundary` |
| | `PromisesKept` | `[]LimiterPromises`, if also `OneAtATime` and `HasPreset`; until the cache evicts the operator's plan, link or amount |
| | `LimiterMovesOn` | each step of a request lowers its rank |
| `WsSubscriptionsProofs` | `WsTypeCorrect` | `[]TypeOK` |
| | `PollsFollowSubscriptions` | `[]PollsMatchSubscriptions` |
| | `CounterIsExact` | `[]CounterMatches` |
| | `RefusalsAtTheLimit` | `[]RefusedOnlyAtLimit`, without `SameSub` |
| | `SameEventSameSubscription` | `[]OneSubscriptionPerEvent` |
| | `OvershootIsBounded`, `ConnectionLimitsHold`, `OpenConnectionsAreTimed`, and all three: `LimiterLimits` | `[]LimitsHold` |
| | `HeadsAreUnsubscribed` | `[]HeadsEndWithConnection` |
| | `HandlersMoveOn` | each step of a handler lowers its rank, and each of a connection |
| `SendRawTransactionProofs` | `SendTypeCorrect` | `[]TypeOK` |
| | `HashesAreOfAccepted`, `RefusalsAreFinal`, and both: `AnswersAreTrue` | `[]AnswersAgree` |
| | `SubmittedFilesAreRemoved` | `[]FileRemovedAfterExecution` |
| | `NonceErrorsTell` | `NonceErrorsAreRight`, however far the mirror node is behind |
| | `PassedTransactionsAreRight` | `[]PrechecksRight`: of what passed and of what was refused |
| | `EstimatesAreEnough` | `[]EstimatesRight` |
| | `RequestsMoveOn` | each step of a request lowers its rank |
| `FiltersProofs` | `FiltersTypeCorrect` | `[]TypeOK` |
| | `OnlyEmptyPollsLose` | `[]LostOnlyByEmptyPolls` |
| | `NothingReturnedTwice`, `AnswersAreInRange`, `UninstalledIsGone`, and all three: `FiltersAreSeenOnce` | `[]SeenOnceInRange` |
| `DeliveryProofs` | `DeliveryIsRight` | `[]DeliveredRight` |
| | `TurnsMoveOn` | each step of a turn of the interval lowers its rank |
| `ConsensusProofs` | `ClientsAreBounded` | `[]PoolBounds` |
| | `FailedClientsAreReplaced` | `FailedClientNotReused` |
| | `CallsTyped` | `[]CallTypeOK`, with the bounds of both retry loops |
| | `ExpensesTyped` | `[]ExpensesTypeOK` |
| | `BookedOnce` | `[]BookedOnceIfPaid` |
| | `LossIsBounded` | `[]LossBounded` |
| | `CallsMoveOn` | each step of an `eth_call` lowers its rank |
| `ServicesProofs` | `RateTyped` | `[]RateTypeOK` |
| | `StoresCountInWindows` | `CountsInWindows`: both stores implement `FixedWindow` |
| | `TagsAreAlwaysNow`, `NumbersAreAlwaysExact`, `AnswersAreNeverOlder`, and all three: `KeptAnswersAreRight` | `[]KeptIsRight` |
| | `CacheIsRight` | `[]CacheRight` |
| | `MessagesAreRight` | `[]MessagesRight` |
| | `PlansAreConfigured` | `[]PlansAsConfigured` |
| | `LogsAreRight` | `[]LogsRight` |
| | `ArgumentsAreRight` | `[]ArgumentsRight` |
| `ReadsProofs` | `TracesAreRight` | `[]TracesRight` |
| | `BlocksAreRight` | `[]BlocksRight` |
| | `FeesAreRight` | `[]FeesRight` |
| | `EntitiesAreRight` | `[]EntitiesRight` |
| | `AccountsAreRight` | `[]AccountsRight` |

Three theorems about the limiter have hypotheses, which the runs that check
these properties meet, and one about subscriptions has `~SameSub`.

- `OperatorSeparate`: the operator's key is no user or IP address and shares no
  preconfigured plan, and its look-up does not fall back to an IP address.
  Otherwise a fee can be booked twice on a plan (see "Behaviour worth knowing").
- `OffBoundary`: no request reads the clock at the millisecond of a boundary,
  where `getResetTimestamp` returns the present time.
- `OneAtATime`: with two requests, two first charges can lose one.
- `HasPreset`: the operator has a plan in the configuration, so that it never
  gets a second one when a link expires.

No hypothesis is made about evictions. The promises end with them, and the
properties say so themselves: `OperatorPlanIsSeparate` and the part of
`RefusedForSpending` about what was paid hold until the operator's plan or link is
evicted (from then on its look-up falls back to the plan of the IP address),
`BlockedUntilReset` until that or, within one window, until its amount is.

The arguments:

- *HbarLimiter.* `TypeOK` is not inductive, since `FindPlan` indexes `plans`
  with a field that may be `NoPlan`: `TypeInv` adds, per program counter, that
  the field is a plan. `LimiterInv` adds what a request remembers: an amount it
  has seen was booked on the plan it looked at (`seen <= ledger[plan]`), and a
  plan found through a link has the address among its owners. Amounts vanish by
  resets and expiry, and old ones are written back, but the ledger only grows;
  so whatever was read remains a lower bound of it. That is why lost updates
  are possible and phantom spending is not. For what the operator *paid*,
  `OpInv` counts the fees paid and still to be booked as a finite set of pairs
  (`Pending`): what is on any plan of the operator together with these is at
  most `paid`, so a charge moves one fee from one side to the other.
  Resets: `ResetsOnBoundary` and arithmetic on rounding up. The promises need
  `AloneInv`: what was booked since the last reset is on the operator's one
  plan, or is in the hands of the only request at a known stage of the reset or
  of the charge, or was evicted. `EvictFacts` says what an eviction leaves alone
  when it does not set the mark `evicted`.
- *WsSubscriptions.* `PollInv` joins `TypeOK`, the property and two facts
  (a pending subscription has a tag; finitely many subscriptions). The step that
  matters is `unsubscribe`: the tags removed from the polls are those without
  a remaining subscriber. `CountInv` adds that ids are fresh, that a
  connection not yet upgraded has no subscriptions and no requests, because an
  upgrade sets the counter to 0, and, with `SameSub`, that the counter is at
  least the number of subscriptions. How far the limit is exceeded follows by
  counting the requests in flight behind a check; the connection limits, from
  an exact count per address of the sockets that hold a place (`Held`), which a
  socket does until its close event. `HeadInv` needs only that the requests
  that wait for the mirror node are for logs.
- *SendRawTransaction.* `SendInv` says what the program counter implies: before
  the limiter and the execution the transaction was not taken by any node;
  `own`, `submitted` and an error "nonce" mean that it was; what is in the log
  was accepted. For the errors about nonces, `NonceInv` says that each entry of
  the log compares with the sender's nonce at that moment (`LogTrue`), and for
  each request in the loop what the account nonces seen so far leave possible
  (`NonceGood`). An account's nonce grows by at most one with each entry
  (`NonceGrowsByOne`), so a mirror node that misses one transaction of the sender
  shows the nonce used, or one on the same side of the transaction's
  (`LagIsHarmless`). One that misses more can only show too low a nonce, so that
  "too low" is right in any case.
- *Prechecks, GasEstimates.* `PrecheckInv`: what a check under way has seen was
  so at a moment of it, and `FirstRefusal` gives "none" only if every check of
  the list passes. So the price, the sender and the receiver are right at three
  moments, and the sender's nonce and balance at one; and the rule that a refusal
  names (`Breaks`) was broken at the moment when what it is about was looked up. `EstimateInv`: data that
  the fallback does not see came as `input` without a price, and a receiver
  that exists goes on existing, also in the cache.
- *Filters.* `FilterInv` has three parts. `CallOK` relates a call in flight to
  the chain: its copy is the filter as created up to `lastQueried`; everything
  of the range before that `lastQueried` was delivered, skipped or left unread; and
  everything before its cursor is so too, is in its result, was mined after it
  looked, or it did not look. What was delivered, skipped or unread stays so, and new blocks come after the
  cursor or were not seen; so the facts survive whatever other calls do, and
  it does not matter which copy is written last: that is why overlapping calls
  repeat logs but lose none besides. `FilterOK` says the same of the entry in the
  cache. `AloneOK` is about filters without overlapping calls only: the one call
  holds the same copy as the cache, nothing delivered is at or after
  `lastQueried`, and a removed filter has neither entry nor call.
- *Delivery.* A block is settled for a subscriber that was sent it, that missed
  it for a reason, or for which a poll under way covers it. `BeforeIsSettled`:
  every block due to a member is settled if it is before `lastPolled`, and,
  while no log poll is under way, before the latest block known. That the poller
  never knows more than the mirror node (`PollerBehind`) makes the ranges of
  overlapping turns meet.
- *HapiPool, ContractCalls.* `PoolInv`: uses made and uses left add up to the
  configured number, and with the last use, the first late use, or a reported
  error of the present client, `shouldReset` is set. `getSDKClient` acts on it
  before it hands the client out. The calls of `ContractCalls` only enter as the
  source of errors, so the theorems are about its whole specification.
  `CallsTyped` bounds the two nested loops by what is left of each.
- *Expenses.* `ExpenseInv` says for each item what its job's and record's state
  imply: nothing is asked for before the job is done, what is still to be
  booked is paid and not booked. The case that needs care is a file: each
  append was answered, hence paid, before the event of any of them is emitted.
  For the loss, `BillOK` says who can have run up an item, and `LossInv` that
  the items settled without being booked are finite and at most `Reach` for
  each failure: a step that fails adds those of one file, or of one record.
- *RateLimiter.* The refinement needs one fact beside the types
  (`EntriesInWindow`): in memory a method has a counter only if its address has
  a window, and no more calls left than in all. Each check then maps to one
  abstract call, by cases of the store, of an expired or running window, and of
  calls left; a failure of Redis maps to a call that passes uncounted and leaves
  the window alone. Other methods of an address whose window starts again have
  an abstract window that opens with no call granted.
- *CachedMethods.* `CachedInv` says that each kept answer is right (`Right`) for
  its question, counted from when it was kept less the longest request, and that
  no question that names a moving block has one. Since the key is the whole
  question, who reads it asked the same.
- *CacheService.* `RedisHasLast`: while nothing was written past it, Redis has
  the last write of each key; `MemoryHasLast`: without Redis the memory has it,
  or nothing, if the entry was evicted or had expired when it was written. Any key
  can be evicted (`NothingIsReserved`). `OrderOK` ties the order of the LRU to its
  entries, so that what is evicted is an entry, and not one just written.
- *Gateway.* One invariant per message (`SlotOK`) and per item (`ItemOK`): the
  item's details are those of its message over a WebSocket, and what it was
  answered follows from its form and method.
- *SpendingPlans.* Two relays that populate the same cache read, delete and save
  links in turns. `PlansInv` says that, once a relay has begun, each address has
  the link of the configuration or some relay will see to it (`Watched`): one
  that has begun and will not be made to give up by what it finds. A relay that
  is overtaken hands its duties to the one that was faster, since the plans
  each has left are tails of one list. For a relay that is `alone`, what it
  found is still so, because every other write ends that.
- *LogPages.* `PagesOK`: what is read of an address are its first logs, up to
  the page that is asked for. So the address is long when a page is refused, and
  whole when it is done, unless an error was accepted (`cut`). The order is a
  matter of counting: a log's place is the number of logs that precede it, which
  grows along the order, so that the places are all taken (`PlacesAreTaken`) and
  the merged list is that of the logs collected, in order (`SortedIsRight`). The
  requests made are as many as the triples of address, page and attempt in a set
  that each request adds to (`Attempted`).
- *Tracing, BlockReads, FeeHistory.* The world of a request only grows: rows
  become visible and mature, blocks are added, a look-up that failed has failed.
  Each invariant states what a request has read *relative to* the world
  (`World`, `BlockWorld`, `FeeWorld`) and that the statement survives growth
  (`Grows` …); the rest is about what one step reads. In `FeeHistory` an error
  is as old as its request, and its cache entry adds the time to live; one for a
  tag comes of a block made since the request began, and has no cache entry.
- *AccountReads.* The chain only grows as well (`AccountWorld`,
  `AccountGrows`). Nonces and balances count transactions, so the proof goes
  through cardinalities of their sets. What makes an answer right is that a page
  of newest transactions which reaches back beyond a moment has all that
  followed (`ListedIsEnough`), that the last snapshot of balances is recent
  (`SnapshotIsRecent`), and that the last transaction of the account alone
  decides its nonce (`LastDecides`). The newest nonce is fresh since a block
  (`FreshSince`) that the entry in the cache keeps with it.
- *Entities.* `EntityInv` bounds when the look-up took place that misled a
  request, a cached type or a cached code: each cache that was filled from
  another adds its time to live and the time of a request.

- *Parameters.* Rules, layout and cached position of a method stand in tables of
  different files. `RowOK` says how they have to fit: with the default layout every
  rule is required, since the details would move up otherwise, a rule that can
  name a moving block is at the position the cache decorator looks at, and so on;
  each table is gone through once (`FeeRows`, ... `AllRows`), whatever the
  parameters.
  `ParamInv` says that each parameter so far was admitted by its rule
  (`Admitted`); what an admitted object can hold is a matter of the schemas
  (`FilterObjectsAreRight` ...).

Five theorems are about progress. A rank (`Work`, `Rank`, `CallRank`, `Left`,
`Life`) is a natural number that each step of a request, handler, turn or
connection lowers and that nobody else's step raises. So the loops that retry
are bounded and nobody takes a step of another, in any interleaving; how
many steps there can be is in the comment of each theorem. The ranks of the
loops rest on the invariants above: that a loop starts with its
whole number of tries and goes on only with one left (`SendInv`, `CallsOK`), that
a shared stage of the limiter knows where it returns to and only a reset has
plans left to go through (`StagesOK`).
`ConnectionsMoveOn` makes the close event, which gives back a place, happen once.

This is the half of liveness that is a matter of safety. The other half, that a
step which is possible is taken, needs fairness and `ENABLED`, which the prover
does not reason about. So only model-checked are the liveness properties
themselves: `RequestsEnd` of two modules, `CallsEnd` and `ClosingEnds`, whose
ranks are proved, and `EventuallySent`, where the turns end by a rank too
but delivery needs one of them to succeed. Every other property of a passing
run is a theorem.

## Behaviour worth knowing

Besides the three runs with a violation, modelling showed the following. The
modules contain it unless it is said otherwise; where a property would fail
without it, the property names it as an exception.

*Limiter and plans.*

- Two first charges of a plan that run together both see no amount and both set
  it: one is lost (`hbarSpendingPlanRepository.ts:219`), so with two concurrent
  requests `BlockedUntilReset` fails although `docs/design/hbar-limiter.md:107`
  promises it.
- `getOperatorSpendingPlan` uses the look-up of users with its fallback to the
  IP address (`hbarLimitService/index.ts:549`): without an own plan the operator
  gets that of the requester's address, while `hbar-limiter.md:105` wants a
  separate one; a fee is then booked on it twice.
- The keys of the preconfigured plans are to be reserved in the LRU cache
  (`localLRUCache.ts:49`: "A set of keys that should never be evicted from the
  cache"), but `getInstance` keeps the cache that the decorators of `eth.ts` made
  without them (`cacheService.ts:125-136`), and `relay.ts:141` comes too late. So
  `CACHE_MAX` answers to anybody's reads evict a plan, its link or its amount. With
  the amount, the spending of the window is forgotten; with the operator's plan or
  link, its look-up falls back as above, for good: the plans are populated
  at the start only.
- The amount of a plan has a TTL of its own, so spending can be forgotten in the
  middle of a window; every relay resets the shared amounts at its own first
  request after a boundary; at exactly the boundary `getResetTimestamp` returns
  the present time; two first requests of an address create two plans.
- An empty plan configuration leaves the old plans; the tier of a plan that
  exists is never updated; `deleteObsolete…Associations` changes nothing in the
  result; a crash after a plan was deleted leaves links without a plan. Plans
  are populated without anybody waiting for it (`relay.ts`).
- Never booked: executions without an answer, an interrupted `executeAll`,
  records that are not found, an `addExpense` that fails (an unhandled rejection,
  `server.ts:312`). A query that fails with its payment set is booked though it
  may not have been paid. Pending expenses are lost at a restart (not modelled),
  and the metric service keeps the first SDK client.

*Submission.* A submitted transaction that the mirror node does not show in
time is answered with an internal error and not with its hash; an account nonce
of 0 is taken for "not found" (`TransactionService.ts:686`); the loop that waits
for the nonce of a failed transaction takes any other nonce for the newer one
(`TransactionService.ts:669`), so that a mirror node that misses two transactions of
the sender makes it answer "too high" to one that was too low. Passing prechecks
reserve neither nonce nor balance.

*WebSocket.* With `WS_SAME_SUB_FOR_SAME_EVENT` repeated subscriptions are
counted; requests in flight together exceed the subscription limit
(`OvershootBounded` says by how much). A batch with a null item is answered with
status 500 as a whole over HTTP (`koaJsonRpc/index.ts:146`; a comment there says
always 200) and not at all over a WebSocket.

*HTTP server.* It keeps the details of a request in its one object
(`koaJsonRpc/index.ts:81`), so that a request that waits for the rate limiter
may go on with those of another: `DetailsAreOwn` in `Gateway` is the property
that does not hold there, `SocketDetailsAreOwn` the part that does.

*Filters.* A block mined between an empty `getLogs` and `getLatestBlockNumber`
is passed over (`FilterService.ts:226`; `docs/design/eth-filter.md:104` promises
every log since the last poll). A filter without a single address that has
fallen behind by more than the range limit fails at every poll until it
expires; so does one with a fixed `toBlock` after a poll went past that block. A
filter whose `toBlock` is not mined yet answers nothing and moves past logs
already there, which the same promise does not provide for; if its `fromBlock` is not mined either, later polls return logs
from before it. `fromBlock` "latest" is resolved twice at the creation, the
second time without the range check. `getFilterLogs` that overlaps a poll puts
the older `lastQueried` back.

*Caches.* After a write or deletion that fell back to memory, old values come
back with Redis; `incrBy` on a missing entry makes one without a TTL. Answers
about future blocks (balance, nonce, `"0x"`, the error of a fee history for a
number, no logs) are kept though the block later exists. `eth_getLogs` without
`fromBlock` and `toBlock` and `eth_call` with `{blockNumber: "latest"}` are kept
for `CACHE_TTL` (`cache.decorator.ts:80`). Errors that `eth_call` returns are
kept like results.

*Accounts, blocks, fees.* The balance at a block leaves out the block's last
transaction; one received ethereum transaction counts as nonce 1.
`BlockService.ts:151` passes the timestamp in the place of the request's
details, so block receipts carry the current gas price; `getBlockReceipts`
answers `[]` for a block with synthetic transactions only, and serves and keeps
immature rows; a transaction whose result is not visible yet may be answered,
and kept, as synthetic; one with logs of several addresses may be listed twice
in detail. A fixed fee history near the genesis block is cut to block 1 alone;
the reward array has `blockCount` entries even if the range is cut; failing
look-ups give zero fees or an empty history for fifteen minutes.

*Entities and traces.* A contract created between the two look-ups of
`resolveEntityType` is cached as an account. Entities that fail in
`prestateTracer` are left out and the rest is cached; actions that are not
written yet give a trace `null`, cached in a block's trace.

*Gas and calls.* A simple transfer without `value` on a failing mirror node is
answered with INVALID_PARAMETER; data given as `input` when the gas price cannot
be fetched are taken for a simple transfer (`ContractService.ts:448`); the
average for a contract call is below the intrinsic cost of more than about
30 kB of data; `error?.isContractReverted()` (line 767) is called on errors that
have no such function.

*Mirror node client.* `MIRROR_NODE_RETRY_CODES` is an array of strings
(`globalConfig.ts:529`) and is searched for a number (`mirrorNodeClient.ts:241`):
no error status is ever retried. A list is refused when the last allowed page
is read even if there is no next one; an accepted 404 in the middle answers the
pages read so far. Logs of several addresses within one transaction are not in
the order of their index; a repeated address gives its logs twice.

*Parameters.* Without a tracer `onlyTopCall` is accepted by
`debug_traceTransaction`, which then starts the opcode logger (the comment at
`objectTypes.ts:326` wants it with the call tracer only), while options of the
opcode logger are refused; `debug_traceBlockByNumber` with a configuration but no
tracer answers `[]`; `{}` as a block of `eth_call` passes the validation and is
refused later; an array of one string passes the patterns for a string; null for
an optional parameter is refused; `0x` as the count of `eth_feeHistory` is NaN.

## Not modelled

- *Configuration* is read once; its values are constants of the modules.
- *Formatters*, logging, metrics, health endpoints, HTTP middleware: no state
  and no control. Where a property depends on a conversion (tinybars, block
  numbers, time to live), its module has it.
- *Wiring at the start*: it happens once. The population of plans that it starts
  is in `SpendingPlans`.
- Of the parts marked "partly" in `PROJECT.json`: the spending history of plans
  (written by no production code), `multiSet` and `clear` of the cache (unused),
  the SDK client's getters (each one query), timestamps in the range limit of
  logs, hashes and blooms of blocks, the opcode logger (forwards one answer).
- Recovery of the process: nothing but the cache survives a restart, and the
  modules whose state is in it (`HbarLimiter`, `SpendingPlans`, `Filters`) let
  requests, relays and entries end at any point.

The asynchronous mode (`USE_ASYNC_TX_PROCESSING`) is in `SendRawTransaction` and
covered by its theorems; the run `consensus` checks the synchronous mode.
`WS_SAME_SUB_FOR_SAME_EVENT` has a run of its own.

What would come next: the composition of `Delivery` with the subscriptions of
several tags.

## Running

    tlc -workers 2 -config hbar_redis.cfg MCHbarLimiter
    tlapm HbarLimiterProofs.tla

Every run ends within four minutes, and every module's proofs within about ten.
