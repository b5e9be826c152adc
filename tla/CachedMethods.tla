---------------------------- MODULE CachedMethods ----------------------------
(***************************************************************************)
(* The methods of eth.ts behind the cache decorator, while blocks go on    *)
(* being made.  The parameters of a request name blocks: by a tag, by a    *)
(* number, in an object, or not at all.  The decorator decides from them   *)
(* alone whether an answer may be kept, and under which key.  An answer    *)
(* is abstracted to the blocks it is about.  A cached answer can be gone   *)
(* at any time.                                                            *)
(***************************************************************************)
EXTENDS Integers, Sequences

CONSTANTS
  Askers,      \* requests being processed at the same time
  Questions,   \* what is asked for: a method and the blocks its parameters name
  AnswerTtl,   \* CACHE_TTL, in blocks
  ShortTtl,    \* the ttl of blockNumber and gasPrice
  MaxLatest,   \* bound on the chain
  MaxAsked,    \* bound on the requests
  MaxAskTime   \* bound on the blocks made while a request is processed

\* the block is a parameter of its own
PlacedMethods == {"getStorageAt", "call"}
NumberedMethods == {"getBlockByNumber", "getBlockTransactionCountByNumber",
                    "getTransactionByBlockNumberAndIndex", "getBlockReceipts"}
\* the block is named by its hash, for which its number stands
HashedMethods == {"getBlockByHash", "getBlockTransactionCountByHash",
                  "getTransactionByBlockHashAndIndex"}
\* the blocks are two fields of an object
RangeMethods == {"getLogs"}
\* the answer does not depend on parameters
TimedMethods == {"blockNumber", "gasPrice"}

CachedMethodNames ==
  PlacedMethods \cup NumberedMethods \cup HashedMethods \cup RangeMethods \cup TimedMethods

\* blocks that are named, but not by a number
Tag == -1      \* latest, pending, safe or finalized
Missing == -2  \* the field is not there
InObject == -3 \* { blockNumber: "latest" }
Unnumbered == {Tag, Missing, InObject}

ASSUME CachedConstants ==
  /\ Questions \subseteq [method : CachedMethodNames, blocks : Seq(Unnumbered \cup Nat)]
  /\ {AnswerTtl, ShortTtl, MaxLatest, MaxAsked, MaxAskTime} \subseteq Nat

VARIABLES
  newest,     \* the newest block
  answerCache,\* answerCache[k]: the answer kept under the key k
  asking,     \* the requests
  asked       \* how many there were

cachedVars == <<newest, answerCache, asking, asked>>

SomeQuestion == CHOOSE p \in Questions : TRUE
Nothing == [kind |-> "none", from |-> 0, to |-> 0]
NotKept == [answer |-> Nothing, until |-> -1]
IdleAsk == [pc |-> "idle", question |-> SomeQuestion, start |-> 0, answer |-> Nothing]

\* generateCacheKey: the method and all its arguments
\* mutant: of the two fields of an object the first only
KeyOfFirst(p) == [method |-> p.method, blocks |-> SubSeq(p.blocks, 1, (Len(p.blocks) + 1) \div 2)]

CacheKey(p) == [method |-> p.method, blocks |-> p.blocks]

Keys == {CacheKey(p) : p \in Questions}

AnswerRecords == [kind : {"none", "value", "empty", "error"}, from : Int, to : Int]
AskStates ==
  [pc : {"idle", "compute", "keep", "done"}, question : Questions \cup {SomeQuestion},
   start : Nat, answer : AnswerRecords]

CachedMethodsTypeOK ==
  /\ newest \in Nat
  /\ answerCache \in [Keys -> [answer : AnswerRecords, until : Int]]
  /\ asking \in [Askers -> AskStates]

CachedMethodsInit ==
  /\ newest = 1
  /\ answerCache = [k \in Keys |-> NotKept]
  /\ asking = [q \in Askers |-> IdleAsk]
  /\ asked = 0

Open(q) == asking[q].pc \in {"compute", "keep"}

Mined ==
  /\ newest < MaxLatest
  /\ \A q \in Askers : Open(q) => newest - asking[q].start < MaxAskTime
  /\ newest' = newest + 1
  /\ UNCHANGED <<answerCache, asking, asked>>

-----------------------------------------------------------------------------
(* The cache decorator                                                     *)

\* the parameter validation: a tag for every method but those with a hash, an object for
\* eth_call, a field may be left out in eth_getLogs
Accepts(p) ==
  /\ Len(p.blocks) = IF p.method \in RangeMethods THEN 2
                     ELSE IF p.method \in TimedMethods THEN 0 ELSE 1
  /\ \A i \in DOMAIN p.blocks :
       /\ p.blocks[i] = Missing => p.method \in RangeMethods
       /\ p.blocks[i] = Tag => p.method \notin HashedMethods
       /\ p.blocks[i] = InObject => p.method = "call"

Ask(q, p) ==
  LET entry == answerCache[CacheKey(p)] IN
  /\ ~Open(q)
  /\ asked < MaxAsked
  /\ asked' = asked + 1
  /\ \/ /\ ~Accepts(p)
        /\ asking' = [asking EXCEPT ![q] = [pc |-> "done", question |-> p, start |-> newest,
                                            answer |-> [Nothing EXCEPT !.kind = "error"]]]
     \/ /\ Accepts(p) /\ entry.answer # Nothing /\ newest <= entry.until
        /\ asking' = [asking EXCEPT ![q] = [pc |-> "done", question |-> p, start |-> newest,
                                            answer |-> entry.answer]]
     \/ /\ Accepts(p)
        /\ asking' = [asking EXCEPT ![q] = [pc |-> "compute", question |-> p, start |-> newest,
                                            answer |-> Nothing]]
  /\ UNCHANGED <<newest, answerCache>>

\* a value among the tags, at the position or in a field named: nothing is kept
\* mutant: only the first field is looked at
SkipsFirst(p) == Len(p.blocks) > 0 /\ p.blocks[1] = Tag

SkipsCaching(p) == \E i \in DOMAIN p.blocks : p.blocks[i] = Tag

\* mutants: the other one
TtlOfOther(p) == IF p.method \in TimedMethods THEN AnswerTtl ELSE ShortTtl

TtlOfMethod(p) == IF p.method \in TimedMethods THEN ShortTtl ELSE AnswerTtl

-----------------------------------------------------------------------------
(* The methods                                                             *)

\* getHistoricalBlockResponse
BlockAt(block) == IF block \in Unnumbered THEN newest ELSE block

\* a block that is not there: null, or an error of the mirror node or the relay
NumberedAnswer(p) ==
  LET b == BlockAt(p.blocks[1]) IN
  IF b <= newest THEN [kind |-> "value", from |-> b, to |-> b]
  ELSE IF p.method \in NumberedMethods \cup HashedMethods THEN Nothing
  ELSE [Nothing EXCEPT !.kind = "error"]

\* getLogs, validateBlockRangeAndAddTimestampToParams: no logs if a block is not there
RangeAnswer(p) ==
  LET from == BlockAt(p.blocks[1])
      to == BlockAt(p.blocks[2]) IN
  IF p.blocks[1] = Missing /\ p.blocks[2] \notin Unnumbered /\ to # newest
  THEN [Nothing EXCEPT !.kind = "error"]
  ELSE IF from > newest \/ to > newest THEN [Nothing EXCEPT !.kind = "empty"]
  ELSE IF from > to THEN [Nothing EXCEPT !.kind = "error"]
  ELSE [kind |-> "value", from |-> from, to |-> to]

AnswerNow(p) ==
  IF p.method \in TimedMethods THEN [kind |-> "value", from |-> newest, to |-> newest]
  ELSE IF p.method \in RangeMethods THEN RangeAnswer(p)
  ELSE NumberedAnswer(p)

\* null and an error that is thrown are not kept; an empty array and an error that is returned,
\* a revert, are kept as values
IsKept(p, answer) == answer.kind \notin {"none", "error"} /\ ~SkipsCaching(p)

Compute(q) ==
  LET p == asking[q].question
      answer == AnswerNow(p) IN
  /\ asking[q].pc = "compute"
  /\ asking' = [asking EXCEPT ![q].answer = answer,
       ![q].pc = IF IsKept(p, answer) THEN "keep" ELSE "done"]
  /\ UNCHANGED <<newest, answerCache, asked>>

Keep(q) ==
  LET p == asking[q].question IN
  /\ asking[q].pc = "keep"
  /\ answerCache' = [answerCache EXCEPT ![CacheKey(p)] =
       [answer |-> asking[q].answer, until |-> newest + TtlOfMethod(p)]]
  /\ asking' = [asking EXCEPT ![q].pc = "done"]
  /\ UNCHANGED <<newest, asked>>

CachedMethodsNext ==
  \/ Mined
  \/ \E q \in Askers : Compute(q) \/ Keep(q) \/ \E p \in Questions : Ask(q, p)

CachedMethodsSpec == CachedMethodsInit /\ [][CachedMethodsNext]_cachedVars

-----------------------------------------------------------------------------
(* Correctness                                                             *)

Got(q, kind) == asking[q].pc = "done" /\ asking[q].answer.kind = kind
BlocksOf(q) == {asking[q].question.blocks[i] : i \in DOMAIN asking[q].question.blocks}

\* A request that names a moving block by a tag is answered for the block it is when the
\* request is processed, whatever was answered before (cache, skipParams, skipNamedParams).
TagsAreNow ==
  \A q \in Askers : Got(q, "value") /\ Tag \in BlocksOf(q) => asking[q].answer.to >= asking[q].start

\* A request that names a block by its number is answered for that block, however the cache was
\* filled and whatever its other block is; that eth_getLogs found no such block is true no
\* longer than CACHE_TTL and the time a request takes (getLogs: then there are no logs).
NumbersAreExact ==
  \A q \in Askers :
    LET blocks == asking[q].question.blocks
        n == Len(blocks) IN
    /\ Got(q, "value") /\ n > 0 =>
         /\ blocks[1] \in Nat => asking[q].answer.from = blocks[1]
         /\ blocks[n] \in Nat => asking[q].answer.to = blocks[n]
    /\ Got(q, "empty") =>
         \E i \in 1..n : blocks[i] \in Nat /\ blocks[i] > asking[q].start - AnswerTtl - MaxAskTime

\* the last block is not a number, or no block is named: the answer goes up to the newest
EndsAtNewest(p) == \A i \in DOMAIN p.blocks : i = Len(p.blocks) => p.blocks[i] \in Unnumbered

\* An answer that goes up to the newest block is for one no older than its time to live and the
\* time a request takes allow (the ttl of the decorator, counted from when the answer is kept):
\* eth_getLogs from a number on included.
OldestAnswer ==
  \A q \in Askers : Got(q, "value") /\ EndsAtNewest(asking[q].question) =>
      asking[q].answer.to >= asking[q].start - MaxAskTime -
        (IF asking[q].question.method \in TimedMethods THEN ShortTtl ELSE AnswerTtl)

\* Whatever the decorator kept is right for everybody who gets it (cache.decorator.ts).
KeptIsRight == CachedMethodsTypeOK /\ TagsAreNow /\ NumbersAreExact /\ OldestAnswer
=============================================================================
