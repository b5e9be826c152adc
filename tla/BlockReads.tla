------------------------------ MODULE BlockReads ------------------------------
(***************************************************************************)
(* Blocks, their receipts, and single transactions and receipts, read from *)
(* a mirror node that is importing the block: the rows of a transaction's  *)
(* contract result and of its logs appear one after the other and are      *)
(* immature at first.  The relay polls until they are mature, and caches   *)
(* what it answers.  A transaction without a contract result, of which     *)
(* there are only logs, is synthetic.  A cached answer can be gone at any  *)
(* time.                                                                   *)
(***************************************************************************)
EXTENDS Integers, FiniteSets

CONSTANTS
  Lookers,      \* requests being processed at the same time
  Txs,          \* the block's transactions
  BlockTxs,     \* the blocks looked at: the kind of each transaction
  LookParams,   \* what is asked for: pairs of a method and a transaction
  RetryCount,   \* MIRROR_NODE_REQUEST_RETRY_COUNT
  MaxRows,      \* rows that fit in MIRROR_NODE_CONTRACT_RESULTS_(LOGS_)PG_MAX pages
  MaxDetailed,  \* ETH_GET_TRANSACTION_COUNT_MAX_BLOCK_RANGE
  MaxLooks      \* bound on the requests

BlockOps == {"hashes", "details", "receipts"}
TxOps == {"transaction", "receipt"}
Rows == {"absent", "immature", "mature"}

\* A call has a result and logs; one refused before the EVM has a result only.
TxKinds == {"call", "synthetic", "refused"}

ASSUME BlockConstants ==
  /\ Txs # {}
  /\ BlockTxs \subseteq [Txs -> TxKinds]
  /\ LookParams \subseteq (BlockOps \cup TxOps) \X Txs
  /\ {RetryCount, MaxRows, MaxDetailed, MaxLooks} \subseteq Nat

VARIABLES
  kindOf,      \* the kind of each transaction
  result,      \* the row of each contract result
  log,         \* the rows of each transaction's logs
  imported,    \* the block itself can be seen
  resultCache, \* contract results kept by getContractResult
  kept,        \* answers kept by the cache decorator
  look,        \* the requests
  looks        \* how many there were

mirror == <<kindOf, result, log, imported>>
blockVars == <<mirror, resultCache, kept, look, looks>>

HasResult == {t \in Txs : kindOf[t] # "synthetic"}
HasLog == {t \in Txs : kindOf[t] # "refused"}
Visible(rows) == {t \in Txs : rows[t] # "absent"}
Immature(rows) == {t \in Txs : rows[t] = "immature"}

\* null is no answer, and is not kept
NullAnswer == [null |-> TRUE, listed |-> {}, regular |-> {}, immature |-> {}, before |-> {}]
IdleLook == [pc |-> "idle", op |-> "hashes", tx |-> CHOOSE t \in Txs : TRUE, todo |-> {},
             resultTries |-> 0, logTries |-> 0, results |-> {}, logs |-> {}, immature |-> {},
             before |-> {}, answer |-> NullAnswer]
SomeAnswer == [null : BOOLEAN, listed : SUBSET Txs, regular : SUBSET Txs, immature : SUBSET Txs,
               before : SUBSET Txs]

BlockTypeOK ==
  /\ kindOf \in BlockTxs
  /\ result \in [Txs -> Rows] /\ log \in [Txs -> Rows]
  /\ imported \in BOOLEAN
  /\ resultCache \subseteq Txs
  /\ kept \in [BlockOps \cup TxOps -> [Txs -> SomeAnswer]]
  /\ look \in [Lookers -> [pc : {"idle", "block", "rows", "put", "error", "done"},
                           op : BlockOps \cup TxOps, tx : Txs, todo : SUBSET {"results", "logs"},
                           resultTries : 0..RetryCount, logTries : 0..RetryCount,
                           results : SUBSET Txs, logs : SUBSET Txs, immature : SUBSET Txs,
                           before : SUBSET Txs, answer : SomeAnswer]]
  /\ looks \in 0..MaxLooks

BlockInit ==
  /\ kindOf \in BlockTxs
  /\ result = [t \in Txs |-> "absent"]
  /\ log = [t \in Txs |-> "absent"]
  /\ imported = FALSE
  /\ resultCache = {}
  /\ kept = [op \in BlockOps \cup TxOps |-> [t \in Txs |-> NullAnswer]]
  /\ look = [q \in Lookers |-> IdleLook]
  /\ looks = 0

-----------------------------------------------------------------------------
(* The mirror node imports the block                                       *)

After(row) == IF row = "absent" THEN "immature" ELSE "mature"

ResultImported(t) ==
  /\ t \in HasResult /\ result[t] # "mature"
  /\ result' = [result EXCEPT ![t] = After(@)]
  /\ UNCHANGED <<kindOf, log, imported>>

LogImported(t) ==
  /\ t \in HasLog /\ log[t] # "mature"
  /\ log' = [log EXCEPT ![t] = After(@)]
  /\ UNCHANGED <<kindOf, result, imported>>

\* a block can be seen once its rows can
BlockImported ==
  /\ ~imported
  /\ HasResult \subseteq Visible(result) /\ HasLog \subseteq Visible(log)
  /\ imported' = TRUE
  /\ UNCHANGED <<kindOf, result, log>>

Import ==
  /\ BlockImported \/ \E t \in Txs : ResultImported(t) \/ LogImported(t)
  /\ UNCHANGED <<resultCache, kept, look, looks>>

-----------------------------------------------------------------------------
(* Requests                                                                *)

Busy(q) == look[q].pc \in {"block", "rows", "put"}
KeepLookCaches == UNCHANGED <<resultCache, kept>>
Conclude(q, pc, answer) == [look EXCEPT ![q] =
  [IdleLook EXCEPT !.pc = pc, !.op = look[q].op, !.tx = look[q].tx, !.answer = answer]]
LookFails(q) == look' = Conclude(q, "error", NullAnswer)

\* the methods of eth.ts: the cache decorator, then the service
Look(q, op, t) ==
  /\ ~Busy(q)
  /\ looks < MaxLooks
  /\ looks' = looks + 1
  /\ \/ /\ ~kept[op][t].null
        /\ look' = [look EXCEPT ![q] = [IdleLook EXCEPT !.pc = "done", !.op = op, !.tx = t,
                                                        !.answer = kept[op][t]]]
     \/ look' = [look EXCEPT ![q] =
          [IdleLook EXCEPT !.pc = IF op \in BlockOps THEN "block" ELSE "rows", !.op = op, !.tx = t,
                           !.todo = {"results"}, !.before = Visible(result)]]
  /\ KeepLookCaches /\ UNCHANGED mirror

\* getHistoricalBlockResponse; a block's results and logs are then fetched at the same time
ReadBlock(q) ==
  /\ look[q].pc = "block"
  /\ \/ ~imported /\ look' = Conclude(q, "done", NullAnswer)
     \/ /\ imported
        /\ look' = [look EXCEPT ![q].pc = "rows",
                                ![q].todo = IF look[q].op = "receipts" THEN {"results"}
                                                                       ELSE {"results", "logs"}]
     \/ LookFails(q)
  /\ KeepLookCaches /\ UNCHANGED <<mirror, looks>>

\* the rows a query returns: those of the block, or of one transaction
Asked(q) == IF look[q].op \in BlockOps THEN Txs ELSE {look[q].tx}

\* mutant: one attempt too many
GivesUpLate(tries) == tries = RetryCount + 1

\* the last attempt throws DEPENDENT_SERVICE_IMMATURE_RECORDS
GivesUp(tries) == tries + 1 = RetryCount

\* mutant: only the results of blocks are polled
NeedsMatureInBlocks(q) == look[q].op \in {"hashes", "details"} /\ RetryCount > 0

\* getContractResults, getContractResult: polled until mature, but not for receipts
NeedsMature(q) == look[q].op # "receipts" /\ RetryCount > 0

GotResults(q, rows) ==
  LET r == look[q] IN
  look' = [look EXCEPT ![q].results = rows,
                       ![q].immature = rows \cap Immature(result),
                       ![q].todo = IF \/ r.op = "receipts" /\ rows # {}
                                      \/ r.op \in TxOps /\ rows = {}
                                   THEN {"logs"} ELSE r.todo \ {"results"}]

\* mutant: in the end they are taken for missing
AgainOrMissing(q, field, tries) ==
  IF GivesUp(tries) THEN GotResults(q, {}) ELSE look' = [look EXCEPT ![q][field] = tries + 1]

\* the rows are immature: another attempt, or the end
Again(q, field, tries) ==
  IF GivesUp(tries) THEN LookFails(q) ELSE look' = [look EXCEPT ![q][field] = tries + 1]

\* getContractResult keeps a mature result, if the transaction succeeded
FetchResults(q) ==
  LET rows == Asked(q) \cap Visible(result) IN
  /\ look[q].pc = "rows" /\ "results" \in look[q].todo
  /\ \/ look[q].op \in TxOps /\ look[q].tx \in resultCache /\ GotResults(q, Asked(q))
        /\ UNCHANGED resultCache
     \/ Cardinality(rows) > MaxRows /\ LookFails(q) /\ UNCHANGED resultCache
     \/ /\ Cardinality(rows) <= MaxRows
        /\ NeedsMature(q) /\ rows \cap Immature(result) # {}
        /\ Again(q, "resultTries", look[q].resultTries)
        /\ UNCHANGED resultCache
     \/ /\ Cardinality(rows) <= MaxRows
        /\ ~NeedsMature(q) \/ rows \cap Immature(result) = {}
        /\ GotResults(q, rows)
        /\ resultCache' \in {resultCache} \cup
             (IF look[q].op \in TxOps THEN {resultCache \cup (rows \ Immature(result))} ELSE {})
  /\ UNCHANGED <<mirror, kept, looks>>

\* mutant: what does not fit in the pages is left out
FetchLogsCut(q) ==
  /\ look[q].pc = "rows" /\ "logs" \in look[q].todo
  /\ \E rows \in SUBSET (Asked(q) \cap Visible(log)) :
       /\ rows = Asked(q) \cap Visible(log) \/ Cardinality(rows) = MaxRows
       /\ RetryCount = 0 \/ rows \cap Immature(log) = {}
       /\ look' = [look EXCEPT ![q].logs = rows, ![q].todo = @ \ {"logs"}]
  /\ KeepLookCaches /\ UNCHANGED <<mirror, looks>>

\* getLogsWithParams without an address: polled until mature
FetchLogs(q) ==
  LET rows == Asked(q) \cap Visible(log) IN
  /\ look[q].pc = "rows" /\ "logs" \in look[q].todo
  /\ \/ Cardinality(rows) > MaxRows /\ LookFails(q)
     \/ /\ Cardinality(rows) <= MaxRows
        /\ RetryCount > 0 /\ rows \cap Immature(log) # {}
        /\ Again(q, "logTries", look[q].logTries)
     \/ /\ Cardinality(rows) <= MaxRows
        /\ RetryCount = 0 \/ rows \cap Immature(log) = {}
        /\ look' = [look EXCEPT ![q].logs = rows, ![q].todo = @ \ {"logs"}]
  /\ KeepLookCaches /\ UNCHANGED <<mirror, looks>>

\* isRevertedDueToHederaSpecificValidation
Refused == {t \in Txs : kindOf[t] = "refused"}

\* mutants: every log is a transaction of its own; no log is
SyntheticAlways(r) == r.logs
SyntheticNever(r) == {}

Synthetic(r) == r.logs \ r.results

\* prepareTransactionArray, populateSyntheticTransactions, and the same for receipts
AnswerOf(r) ==
  LET regular == IF r.op \in BlockOps THEN r.results \ Refused ELSE r.results
      listed == regular \cup Synthetic(r) IN
  [null |-> r.op \in TxOps /\ listed = {}, listed |-> listed,
   regular |-> regular \ Synthetic(r), immature |-> r.immature, before |-> r.before]

\* MAX_BLOCK_SIZE
TooBig(r) == r.op = "details" /\ Cardinality(r.results) >= MaxDetailed

\* the price of gas and the addresses may fail to come
Compose(q) ==
  LET r == look[q] IN
  /\ r.pc = "rows" /\ r.todo = {}
  /\ IF TooBig(r) THEN LookFails(q)
     ELSE \/ look' = Conclude(q, IF AnswerOf(r).null THEN "done" ELSE "put", AnswerOf(r))
          \/ LookFails(q)
  /\ KeepLookCaches /\ UNCHANGED <<mirror, looks>>

\* an empty array is kept like any other answer
Put(q) ==
  LET r == look[q] IN
  /\ r.pc = "put"
  /\ kept' = [kept EXCEPT ![r.op][r.tx] = r.answer]
  /\ look' = [look EXCEPT ![q].pc = "done"]
  /\ UNCHANGED <<mirror, resultCache, looks>>

BlockNext ==
  \/ Import
  \/ \E q \in Lookers :
       \/ \E p \in LookParams : Look(q, p[1], p[2])
       \/ ReadBlock(q) \/ FetchResults(q) \/ FetchLogs(q) \/ Compose(q) \/ Put(q)

BlockSpec == BlockInit /\ [][BlockNext]_blockVars

-----------------------------------------------------------------------------
(* Correctness                                                             *)

AnsweredLook(q) == look[q].pc = "done" /\ ~look[q].answer.null

\* Only eth_getBlockReceipts answers from, and keeps, rows that are immature: everything else
\* polls until they are mature, or fails (getContractResultWithRetry).
NoImmatureServed ==
  RetryCount > 0 =>
    \A q \in Lookers : AnsweredLook(q) /\ look[q].op # "receipts" => look[q].answer.immature = {}

\* A block lists each of its transactions but the refused ones, as regular if it has a
\* result: none is lost by a page limit, or between the queries for results and logs
\* (BlockService.getBlock).
BlockIsWhole ==
  \A q \in Lookers : AnsweredLook(q) /\ look[q].op \in {"hashes", "details"} =>
    /\ look[q].answer.listed = Txs \ Refused
    /\ look[q].answer.regular = HasResult \ Refused

\* The receipts of a block are those of the transactions it lists, if any of them has a
\* result (BlockService.getBlockReceipts returns early otherwise).
ReceiptsCoverBlock ==
  \A q \in Lookers : AnsweredLook(q) /\ look[q].op = "receipts" /\ HasResult # {} =>
    look[q].answer.listed = Txs \ Refused

\* A transaction whose result could be seen when it was asked for is found, and not taken
\* for a synthetic one; one that could not may be, and be kept as such
\* (TransactionService.getTransactionByHash, getTransactionReceipt).
FoundIfVisible ==
  \A q \in Lookers : look[q].pc = "done" /\ look[q].op \in TxOps
                       /\ look[q].tx \in look[q].answer.before =>
    look[q].tx \in look[q].answer.regular

\* Blocks, receipts and transactions are complete and mature when they are answered and kept
\* (BlockService, getTransactionByHash, getTransactionReceipt).
BlocksRight ==
  BlockTypeOK /\ NoImmatureServed /\ BlockIsWhole /\ ReceiptsCoverBlock /\ FoundIfVisible
=============================================================================
