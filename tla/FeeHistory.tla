------------------------------ MODULE FeeHistory ------------------------------
(***************************************************************************)
(* eth_feeHistory: the fees of a range of blocks, one look-up each, while  *)
(* blocks go on being made; or one repeated fee (ETH_FEE_HISTORY_FIXED).   *)
(* Whatever comes of it is an answer, and is cached under the number of    *)
(* the block: a history with fees missing, an empty one, and the error for *)
(* a block beyond the newest.  A cached answer can be gone at any time.    *)
(***************************************************************************)
EXTENDS Integers, Sequences

CONSTANTS
  FeeReaders,   \* requests being processed at the same time
  Fees,         \* the fees a block can have
  MaxResults,   \* FEE_HISTORY_MAX_RESULTS
  FeeTtl,       \* the time to live of the cache, in blocks
  FeeParams,    \* what is asked for: how many blocks up to which one, or up to a tag
  MaxTip,       \* bound on the blocks
  MaxFeeReads,  \* bound on the requests
  MaxFeeTime    \* bound on the blocks made while a request is processed

\* `latest' and `pending' are the newest block; for `safe' and `finalized' that is looked up again
LatestTag == -1
SafeTag == -2
Tags == {LatestTag, SafeTag}

ASSUME FeeConstants ==
  /\ Fees \subseteq Nat \ {0}
  /\ FeeParams # {} /\ FeeParams \subseteq [count : Nat, newest : Tags \cup 0 .. MaxTip]
  /\ {MaxResults, FeeTtl, MaxTip, MaxFeeReads, MaxFeeTime} \subseteq Nat

VARIABLES
  fixedFees,  \* ETH_FEE_HISTORY_FIXED
  redis,      \* the cache is Redis, and keeps what can be written as JSON
  fees,       \* fees[b + 1]: the fee of block b
  feeCache,   \* feeCache[p]: the cached answer
  feeRead,    \* the requests
  feeReads    \* how many there were

feeVars == <<fixedFees, redis, fees, feeCache, feeRead, feeReads>>

Tip == Len(fees) - 1
FeeOf(b) == fees[b + 1]

\* an error is one by its class, which JSON does not keep
AnswerKinds == {"none", "history", "empty", "zero blocks", "error", "error as result"}
NoFees == [kind |-> "none", oldest |-> 0, base |-> <<>>, ratios |-> 0, lost |-> FALSE]
Uncached == [answer |-> NoFees, until |-> -1]
SomeParam == CHOOSE p \in FeeParams : TRUE
IdleFeeRead == [pc |-> "idle", param |-> SomeParam, start |-> 0, tip |-> 0, answer |-> NoFees]

FeeAnswers == [kind : AnswerKinds, oldest : Nat, base : Seq(Fees \cup {0}),
               ratios : Nat, lost : BOOLEAN]

FeeTypeOK ==
  /\ fixedFees \in BOOLEAN /\ redis \in BOOLEAN
  /\ fees \in Seq(Fees) /\ Tip \in 0..MaxTip
  /\ feeCache \in [FeeParams -> [answer : FeeAnswers, until : -1 .. MaxTip + FeeTtl]]
  /\ feeRead \in [FeeReaders -> [pc : {"idle", "head", "again", "blocks", "next", "price", "put", "done"},
                                 param : FeeParams, start : 0..MaxTip, tip : 0..MaxTip,
                                 answer : FeeAnswers]]
  /\ feeReads \in 0..MaxFeeReads

FeeInit ==
  /\ fixedFees \in BOOLEAN /\ redis \in BOOLEAN
  /\ \E f \in Fees : fees = <<f>>
  /\ feeCache = [p \in FeeParams |-> Uncached]
  /\ feeRead = [q \in FeeReaders |-> IdleFeeRead]
  /\ feeReads = 0

Reading(q) == feeRead[q].pc \notin {"idle", "done"}

NewFee ==
  /\ Tip < MaxTip
  /\ \A q \in FeeReaders : Reading(q) => Tip - feeRead[q].start < MaxFeeTime
  /\ \E f \in Fees : fees' = Append(fees, f)
  /\ UNCHANGED <<fixedFees, redis, feeCache, feeRead, feeReads>>

-----------------------------------------------------------------------------
(* Steps of a request                                                      *)

KeepFees == UNCHANGED <<fixedFees, redis, fees>>
FeeStep(q, pc, answer) == feeRead' = [feeRead EXCEPT ![q].pc = pc, ![q].answer = answer]
Ready(q, kind) == FeeStep(q, "put", [NoFees EXCEPT !.kind = kind])

\* what is read from the cache: the dispatcher takes an error from Redis for a result
FromCache(answer) ==
  IF redis /\ answer.kind = "error" THEN [answer EXCEPT !.kind = "error as result"] ELSE answer

feeHistory(q, p) ==
  LET asked == [IdleFeeRead EXCEPT !.param = p, !.start = Tip] IN
  /\ ~Reading(q)
  /\ feeReads < MaxFeeReads
  /\ feeReads' = feeReads + 1
  /\ \/ /\ feeCache[p].answer # NoFees /\ Tip <= feeCache[p].until
        /\ feeRead' = [feeRead EXCEPT ![q] =
             [asked EXCEPT !.pc = "done", !.answer = FromCache(feeCache[p].answer)]]
     \/ feeRead' = [feeRead EXCEPT ![q] = [asked EXCEPT !.pc = "head"]]
  /\ KeepFees /\ UNCHANGED feeCache

NewestAt(p, tip) == IF p.newest \in Tags THEN tip ELSE p.newest
NewestOf(q) == NewestAt(feeRead[q].param, feeRead[q].tip)
Count(q) == IF feeRead[q].param.count > MaxResults THEN MaxResults ELSE feeRead[q].param.count

\* mutant: the range is not cut at block 0
OldestUncut(q, newest) == newest - Count(q) + 1

\* mutant: a block more than asked for
OldestBefore(q, newest) == IF newest < Count(q) THEN 0 ELSE newest - Count(q)

Oldest(q, newest) == IF newest < Count(q) THEN 0 ELSE newest - Count(q) + 1

\* what follows from the numbers of the head block and of the newest block asked for
Begin(q, tip, newest) ==
  \/ newest > tip /\ Ready(q, "error")
  \/ newest <= tip /\ Count(q) = 0 /\ Ready(q, "zero blocks")
  \/ /\ newest <= tip /\ Count(q) > 0
     /\ feeRead' = [feeRead EXCEPT ![q].tip = tip,
          ![q].pc = IF fixedFees THEN "price" ELSE "blocks",
          ![q].answer = [NoFees EXCEPT !.kind = "history", !.oldest = Oldest(q, newest)]]

LooksAgain(q) == feeRead[q].param.newest = SafeTag

\* the newest block's number
ReadHead(q) ==
  /\ feeRead[q].pc = "head"
  /\ \/ Ready(q, "empty")
     \/ LooksAgain(q) /\ feeRead' = [feeRead EXCEPT ![q].tip = Tip, ![q].pc = "again"]
     \/ ~LooksAgain(q) /\ Begin(q, Tip, NewestAt(feeRead[q].param, Tip))
  /\ KeepFees /\ UNCHANGED <<feeCache, feeReads>>

\* translateBlockTag: the number again, which may be that of a later block
ReadHeadAgain(q) ==
  /\ feeRead[q].pc = "again"
  /\ Ready(q, "empty") \/ Begin(q, feeRead[q].tip, Tip)
  /\ KeepFees /\ UNCHANGED <<feeCache, feeReads>>

\* getRepeatedFeeHistory: a range that begins before block 1 is cut to block 1 alone
Repeated(q, fee) ==
  LET tooLong == NewestOf(q) - Count(q) + 1 <= 0
      count == IF tooLong THEN 1 ELSE Count(q) IN
  [kind |-> "history", oldest |-> IF tooLong THEN 1 ELSE NewestOf(q) - Count(q) + 1,
   base |-> [i \in 1 .. count + 1 |-> fee], ratios |-> count, lost |-> FALSE]

RepeatFee(q) ==
  /\ feeRead[q].pc = "price"
  /\ FeeStep(q, "put", Repeated(q, FeeOf(Tip))) \/ Ready(q, "empty")
  /\ KeepFees /\ UNCHANGED <<feeCache, feeReads>>

\* a fee that could not be found is given as 0
WithFee(answer, fee) ==
  [answer EXCEPT !.base = Append(@, fee), !.lost = @ \/ fee = 0]

\* getFeeHistory, getFeeByBlockNumber: block by block
ReadFee(q) ==
  LET a == feeRead[q].answer
      b == a.oldest + a.ratios IN
  /\ feeRead[q].pc = "blocks"
  /\ \E fee \in {FeeOf(b), 0} :
       FeeStep(q, IF b = NewestOf(q) THEN "next" ELSE "blocks",
               [WithFee(a, fee) EXCEPT !.ratios = @ + 1])
  /\ KeepFees /\ UNCHANGED <<feeCache, feeReads>>

NextIsKnown(q) == feeRead[q].tip > NewestOf(q)

\* the fee of the next block is its own if it was there already, else the last one again
ReadNextFee(q) ==
  LET a == feeRead[q].answer IN
  /\ feeRead[q].pc = "next"
  /\ \E fee \in IF NextIsKnown(q) THEN {FeeOf(NewestOf(q) + 1), 0} ELSE {a.base[Len(a.base)]} :
       FeeStep(q, "put", WithFee(a, fee))
  /\ KeepFees /\ UNCHANGED <<feeCache, feeReads>>

\* mutant: the answer is kept twice as long
KeptTwice == Tip + 2 * FeeTtl

KeptUntil == Tip + FeeTtl

\* mutant: only `latest' is skipped
SkipsLatest(p) == p.newest = LatestTag

\* the cache decorator skips tags only
SkipsTags(p) == p.newest \in Tags

PutFees(q) ==
  LET p == feeRead[q].param IN
  /\ feeRead[q].pc = "put"
  /\ FeeStep(q, "done", feeRead[q].answer)
  /\ feeCache' = IF SkipsTags(p) THEN feeCache
                 ELSE [feeCache EXCEPT ![p] = [answer |-> feeRead[q].answer, until |-> KeptUntil]]
  /\ KeepFees /\ UNCHANGED feeReads

FeeNext ==
  \/ NewFee
  \/ \E q \in FeeReaders :
       \/ \E p \in FeeParams : feeHistory(q, p)
       \/ ReadHead(q) \/ ReadHeadAgain(q) \/ RepeatFee(q) \/ ReadFee(q) \/ ReadNextFee(q) \/ PutFees(q)

FeeSpec == FeeInit /\ [][FeeNext]_feeVars

-----------------------------------------------------------------------------
(* Correctness                                                             *)

Got(q, kinds) == feeRead[q].pc = "done" /\ feeRead[q].answer.kind \in kinds

\* A history has the blocks asked for, as many as there are and as the limit allows, and one
\* fee more; each fee is its block's, or the repeated one, or 0 if a look-up failed; the one
\* more is the next block's, or the last again if there was none (FeeService.getFeeHistory).
FeesAreOfBlocks ==
  \A q \in FeeReaders : Got(q, {"history"}) =>
    LET a == feeRead[q].answer
        last == a.oldest + a.ratios - 1 IN
    /\ Len(a.base) = a.ratios + 1
    /\ a.ratios <= Count(q)
    /\ ~fixedFees => a.ratios = Count(q) \/ a.oldest = 0
    /\ feeRead[q].param.newest \notin Tags /\ ~fixedFees => last = feeRead[q].param.newest
    /\ ~fixedFees /\ ~a.lost =>
         /\ \A i \in 1 .. a.ratios : a.base[i] = FeeOf(a.oldest + i - 1)
         /\ \/ a.base[a.ratios + 1] = FeeOf(last)
            \/ last < Tip /\ a.base[a.ratios + 1] = FeeOf(last + 1)

\* The error for a block beyond the newest may be answered when the block is there, but for
\* no longer than the time to live of the cache and the time a request takes; a tag gets it if
\* a block was made between the two look-ups of `safe' and `finalized' only, and never from the
\* cache (FeeService.feeHistory returns it, the cache keeps what is returned).
BeyondWasBeyond ==
  \A q \in FeeReaders : Got(q, {"error", "error as result"}) =>
    LET newest == feeRead[q].param.newest IN
    IF newest \in Tags THEN newest = SafeTag /\ feeRead[q].start < Tip
    ELSE newest > feeRead[q].start - FeeTtl - MaxFeeTime

\* rpcMethodDispatcher.ts: an error is an error, regardless of whether the handler returns or
\* throws it.
ErrorsStayErrors == \A q \in FeeReaders : ~Got(q, {"error as result"})

\* A fee history has the fees of its blocks, and an error is true when it is answered, up to the
\* cache (FeeService.feeHistory).
FeesRight == FeeTypeOK /\ FeesAreOfBlocks /\ BeyondWasBeyond
=============================================================================
