-------------------------- MODULE ConsensusProofs ---------------------------
(***************************************************************************)
(* Proofs about what the relay does with consensus nodes: how long an SDK  *)
(* client is used and that one that failed is not used again, how often a  *)
(* query is repeated, and that what was paid is booked once.               *)
(***************************************************************************)
EXTENDS ContractCalls, Expenses, FiniteSetTheorems, TLAPS

(***************************************************************************)
(* The pool of SDK clients, with any number of eth_calls that take clients *)
(* from it and report errors to it.                                        *)
(***************************************************************************)

(* The uses left are those not made, and with the last one a reset is due. *)
UsesCounted ==
  TxReset # 0 => uses + transactionCount = TxReset /\ (transactionCount = 0 => shouldReset)

(* So it is once a client was handed out too late ...                      *)
LateOnce == lateUses \in {0, 1} /\ (lateUses = 1 => shouldReset)

(* ... and once its error was reported.                                    *)
BlamedIsReset == blamed => shouldReset

PoolInv == PoolTypeOK /\ UsesCounted /\ LateOnce /\ BlamedIsReset

(* What any handler does to the pool.                                      *)
PoolNext ==
  \/ getSDKClient
  \/ \E code \in Codes, q \in Callers : ReportError(code, call[q].client)
  \/ ClockTicks
  \/ UNCHANGED poolVars

-----------------------------------------------------------------------------

LEMMA PoolConstantsAreNat ==
  TxReset \in Nat /\ DurReset \in Nat /\ MaxPoolTime \in Nat /\ ErrorReset \subseteq Codes
BY PoolConstants

LEMMA PoolStarts == CallInit => PoolInv
<1> SUFFICES ASSUME PoolInit PROVE PoolInv
  BY DEF CallInit
<1>1. PoolTypeOK
  <2>1. clock = 0 /\ 0 \in 0..MaxPoolTime /\ TxReset \in 0..TxReset
    BY PoolConstantsAreNat DEF PoolInit
  <2>2. shouldReset \in BOOLEAN /\ blamed \in BOOLEAN
    BY DEF PoolInit
  <2>3. client \in Nat \ {0} /\ uses \in Nat /\ lateUses \in Nat /\ resetDuration \in Nat
    BY PoolConstantsAreNat DEF PoolInit
  <2> QED BY <2>1, <2>2, <2>3 DEF PoolInit, PoolTypeOK
<1>2. UsesCounted /\ LateOnce
  BY PoolConstantsAreNat DEF PoolInit, UsesCounted, LateOnce
<1>3. BlamedIsReset
  BY DEF PoolInit, BlamedIsReset
<1> QED BY <1>1, <1>2, <1>3 DEF PoolInv

(* A reset that is due comes before the client is handed out, and the next *)
(* one is due when the uses or the time are up.                            *)
LEMMA GetClientKeeps == ASSUME PoolInv, getSDKClient PROVE PoolInv'
<1> USE PoolConstantsAreNat
<1>1. PoolTypeOK /\ UsesCounted /\ LateOnce /\ BlamedIsReset
  BY DEF PoolInv
<1>2. clock' = clock /\ blamed' = (blamed /\ client' = client)
  BY DEF getSDKClient
<1>3. CASE isReinitEnabled /\ shouldReset
  <2>1. HandOut(shouldReset)
    BY <1>3 DEF getSDKClient, ResetDue
  <2>2. /\ client' = client + 1 /\ uses' = 1
        /\ resetDuration' = clock + DurReset
        /\ transactionCount' = IF TxReset = 0 THEN 0 ELSE TxReset - 1
    BY <2>1, <1>3 DEF HandOut
  <2>3. ~Late
    BY <2>2, <1>1 DEF Late, PoolTypeOK
  <2>4. lateUses' = 0 /\ shouldReset' = (TxReset = 1)
    <3>1. lateUses' = 0
      BY <2>1, <2>3, <1>3 DEF HandOut
    <3>2. shouldReset' = ((shouldReset /\ ~shouldReset) \/ TxReset = 1 \/ Late)
      BY <2>1, <1>3 DEF HandOut
    <3> QED BY <3>1, <3>2, <2>3
  <2>5. ~blamed' /\ blamed' \in BOOLEAN
    <3>1. client' # client
      BY <2>2, <1>1 DEF PoolTypeOK
    <3> QED BY <3>1, <1>2
  <2>6. PoolTypeOK'
    <3>1. client' \in Nat \ {0} /\ uses' \in Nat /\ resetDuration' \in Nat /\ lateUses' \in Nat
          /\ transactionCount' \in 0..TxReset
      BY <2>2, <2>4, <1>1 DEF PoolTypeOK
    <3>2. shouldReset' \in BOOLEAN /\ clock' \in 0..MaxPoolTime
      BY <2>4, <1>1, <1>2 DEF PoolTypeOK
    <3> QED BY <3>1, <3>2, <2>5 DEF PoolTypeOK
  <2>7. UsesCounted'
    <3>1. uses' = 1 /\ (TxReset # 0 => transactionCount' = TxReset - 1)
      BY <2>2
    <3>2. TxReset # 0 => uses' + transactionCount' = TxReset
      BY <3>1
    <3>3. TxReset # 0 /\ transactionCount' = 0 => TxReset = 1
      BY <3>1
    <3> QED BY <3>2, <3>3, <2>4 DEF UsesCounted
  <2> QED BY <2>4, <2>5, <2>6, <2>7 DEF PoolInv, LateOnce, BlamedIsReset
<1>4. CASE isReinitEnabled /\ ~shouldReset
  <2>1. HandOut(shouldReset)
    BY <1>4 DEF getSDKClient, ResetDue
  <2>2. /\ client' = client /\ uses' = uses + 1 /\ resetDuration' = resetDuration
        /\ transactionCount' = IF transactionCount = 0 THEN 0 ELSE transactionCount - 1
        /\ lateUses' = lateUses + (IF Late THEN 1 ELSE 0)
    BY <2>1, <1>4 DEF HandOut
  <2>3. lateUses = 0 /\ ~blamed
    BY <1>1, <1>4 DEF LateOnce, BlamedIsReset
  <2>4. shouldReset' = (transactionCount = 1 \/ Late)
    <3>1. shouldReset' = ((shouldReset /\ ~shouldReset) \/ transactionCount = 1 \/ Late)
      BY <2>1, <1>4 DEF HandOut
    <3> QED BY <3>1
  <2>5. ~blamed' /\ blamed' \in BOOLEAN
    BY <2>3, <1>2
  <2>6. lateUses' \in {0, 1} /\ (lateUses' = 1 => Late)
    BY <2>2, <2>3
  <2>7. PoolTypeOK'
    <3>1. client' \in Nat \ {0} /\ uses' \in Nat /\ resetDuration' \in Nat /\ lateUses' \in Nat
          /\ transactionCount' \in 0..TxReset
      BY <2>2, <2>6, <1>1 DEF PoolTypeOK
    <3>2. shouldReset' \in BOOLEAN /\ clock' \in 0..MaxPoolTime
      BY <2>4, <1>1, <1>2 DEF PoolTypeOK
    <3> QED BY <3>1, <3>2, <2>5 DEF PoolTypeOK
  <2>8. UsesCounted'
    <3> SUFFICES ASSUME TxReset # 0
                 PROVE  uses' + transactionCount' = TxReset
                        /\ (transactionCount' = 0 => shouldReset')
      BY DEF UsesCounted
    <3>1. uses + transactionCount = TxReset /\ transactionCount # 0
      BY <1>1, <1>4 DEF UsesCounted
    <3>2. uses \in Nat /\ transactionCount \in Nat
      BY <1>1 DEF PoolTypeOK
    <3>3. transactionCount' = transactionCount - 1 /\ uses' = uses + 1
      BY <2>2, <3>1
    <3>4. uses' + transactionCount' = TxReset
      BY <3>1, <3>2, <3>3
    <3>5. transactionCount' = 0 => transactionCount = 1
      BY <3>2, <3>3
    <3> QED BY <3>4, <3>5, <2>4
  <2>9. LateOnce' /\ BlamedIsReset'
    BY <2>4, <2>5, <2>6 DEF LateOnce, BlamedIsReset
  <2> QED BY <2>7, <2>8, <2>9 DEF PoolInv
<1>5. CASE ~isReinitEnabled
  <2>1. UNCHANGED <<client, transactionCount, resetDuration, shouldReset, uses, lateUses>>
    BY <1>5 DEF getSDKClient, poolClient
  <2>2. blamed' = blamed
    BY <2>1, <1>1, <1>2 DEF PoolTypeOK
  <2> QED BY <2>1, <2>2, <1>1, <1>2
          DEF PoolInv, PoolTypeOK, UsesCounted, LateOnce, BlamedIsReset
<1> QED BY <1>3, <1>4, <1>5

(* An error with one of the codes makes a reset due.                       *)
LEMMA ReportKeeps ==
  ASSUME PoolInv, NEW code \in Codes, NEW of, ReportError(code, of) PROVE PoolInv'
<1>1. code \in ErrorReset => isReinitEnabled
  BY DEF isReinitEnabled
<1>2. shouldReset => shouldReset'
  BY DEF ReportError
<1>3. blamed' => shouldReset'
  BY <1>1, <1>2 DEF ReportError, PoolInv, BlamedIsReset
<1>4. shouldReset' \in BOOLEAN /\ blamed' \in BOOLEAN
  BY DEF ReportError
<1>5. UNCHANGED <<clock, client, transactionCount, resetDuration, uses, lateUses>>
  BY DEF ReportError
<1> QED BY <1>2, <1>3, <1>4, <1>5
        DEF PoolInv, PoolTypeOK, UsesCounted, LateOnce, BlamedIsReset

LEMMA PoolStep == ASSUME PoolInv, PoolNext PROVE PoolInv'
<1>1. CASE ClockTicks
  BY <1>1, PoolConstantsAreNat DEF ClockTicks, poolClient, poolHistory, PoolInv, PoolTypeOK,
     UsesCounted, LateOnce, BlamedIsReset
<1>2. CASE UNCHANGED poolVars
  BY <1>2 DEF poolVars, poolClient, poolHistory, PoolInv, PoolTypeOK, UsesCounted, LateOnce,
     BlamedIsReset
<1> QED BY <1>1, <1>2, GetClientKeeps, ReportKeeps DEF PoolNext

(* A request touches the pool by those operations only.                    *)
LEMMA CallsUsePool == [CallNext]_ccVars => PoolNext
<1> SUFFICES ASSUME [CallNext]_ccVars PROVE PoolNext
  OBVIOUS
<1>1. ASSUME NEW q \in Callers, CallStep(q) PROVE PoolNext
  <2>1. CASE ExtractBlock(q) \/ contractCallFormat(q) \/ callMirrorNode(q)
    BY <2>1 DEF ExtractBlock, contractCallFormat, callMirrorNode, PoolNext
  <2>2. CASE callConsensusNode(q)
    BY <2>2 DEF callConsensusNode, PoolNext
  <2>3. CASE getCost(q)
    BY <2>3 DEF getCost, Failed, PoolNext
  <2>4. CASE executeQuery(q)
    BY <2>4 DEF executeQuery, Succeeds, FeeTooLow, Fails, Failed, PoolNext
  <2> QED BY <1>1, <2>1, <2>2, <2>3, <2>4 DEF CallStep
<1>2. ASSUME NEW q \in Callers, NextCall(q) PROVE PoolNext
  BY <1>2 DEF NextCall, PoolNext
<1>3. ASSUME NEW q \in Callers, NEW p \in CallParams, eth_call(q, p) PROVE PoolNext
  BY <1>3 DEF eth_call, PoolNext
<1>4. CASE ClockTicks
  BY <1>4 DEF PoolNext
<1>5. CASE UNCHANGED ccVars
  BY <1>5 DEF ccVars, PoolNext
<1> QED BY <1>1, <1>2, <1>3, <1>4, <1>5 DEF CallNext

LEMMA PoolAlways == CallSpec => []PoolInv
<1>1. PoolInv /\ [CallNext]_ccVars => PoolInv'
  BY CallsUsePool, PoolStep
<1> QED BY <1>1, PoolStarts, PTL DEF CallSpec

(* No client serves more calls than HAPI_CLIENT_TRANSACTION_RESET, nor     *)
(* more than one after HAPI_CLIENT_DURATION_RESET (getSDKClient).          *)
THEOREM ClientsAreBounded == CallSpec => []PoolBounds
<1>1. PoolInv => PoolBounds
  BY PoolConstantsAreNat DEF PoolInv, PoolTypeOK, UsesCounted, LateOnce, PoolBounds
<1> QED BY <1>1, PoolAlways, PTL

(* A client whose error was reported (decrementErrorCounter) is not handed *)
(* out again.                                                              *)
THEOREM FailedClientsAreReplaced == CallSpec => FailedClientNotReused
<1>1. ASSUME PoolInv, PoolNext PROVE [uses' # uses /\ blamed => client' # client]_poolVars
  <2> SUFFICES ASSUME uses' # uses, blamed PROVE client' # client
    OBVIOUS
  <2>1. shouldReset /\ client \in Nat
    BY <1>1 DEF PoolInv, BlamedIsReset, PoolTypeOK
  <2>2. getSDKClient
    BY <1>1 DEF PoolNext, ReportError, ClockTicks, poolVars, poolHistory
  <2>3. HandOut(shouldReset)
    BY <2>2 DEF getSDKClient, ResetDue
  <2> QED BY <2>1, <2>3 DEF HandOut
<1>2. PoolInv /\ [CallNext]_ccVars => [uses' # uses /\ blamed => client' # client]_poolVars
  BY <1>1, CallsUsePool
<1> QED BY <1>2, PoolAlways, PTL DEF CallSpec, FailedClientNotReused

-----------------------------------------------------------------------------
(***************************************************************************)
(* eth_call: what a request can be, in both retry loops and after every    *)
(* error; the counters of the loops stay within their limits.              *)
(***************************************************************************)

CallRecords == [pc : CallStates, params : CallParams \cup {NoParams}, client : Nat,
                tries : 0..TimeoutRetries, fee : 0..FeeRetries, answer : CallAnswers]

(* A request that is about to query has a try and an increase left.        *)
Querying == \A q \in Callers : call[q].pc # "done" => call[q].tries < TimeoutRetries

CallsOK ==
  /\ call \in [Callers -> CallRecords] /\ Querying
  /\ callCache \in [CallKeys -> 0..MaxPoolTime + CallTtl]
  /\ calls \in 0..MaxCalls

LEMMA IdleCallType == IdleCall \in CallRecords
BY CallConstants DEF IdleCall, CallRecords, CallStates, CallAnswers

LEMMA CallsStart == CallInit => CallsOK
BY IdleCallType, CallConstants, PoolConstants DEF CallInit, CallsOK, Querying, IdleCall

(* The record of one request is replaced by another one of its kind.       *)
LEMMA OneCallMoves ==
  ASSUME CallsOK, NEW q \in Callers, NEW c \in CallRecords, call' = [call EXCEPT ![q] = c],
         c.pc # "done" => c.tries < TimeoutRetries
  PROVE  call' \in [Callers -> CallRecords] /\ Querying'
BY DEF CallsOK, Querying

LEMMA CallsStep == ASSUME CallsOK, PoolInv, [CallNext]_ccVars PROVE CallsOK'
<1>c. /\ TimeoutRetries \in Nat \ {0} /\ FeeRetries \in Nat /\ CallTtl \in Nat /\ MaxCalls \in Nat
      /\ \A p \in CallParams : p.key \in CallKeys
  BY CallConstants DEF CallKeys
<1>1. /\ clock \in 0..MaxPoolTime /\ MaxPoolTime \in Nat
      /\ \A q \in Callers : call[q] \in CallRecords
      /\ \A q \in Callers : call[q].pc # "done" => call[q].tries < TimeoutRetries
  BY PoolConstantsAreNat DEF PoolInv, PoolTypeOK, CallsOK, Querying
<1>2. ASSUME UNCHANGED callVars PROVE CallsOK'
  BY <1>2 DEF callVars, CallsOK, Querying
<1>3. ASSUME NEW q \in Callers, NEW c \in CallRecords, call' = [call EXCEPT ![q] = c],
             c.pc # "done" => c.tries < TimeoutRetries, NoQuery
      PROVE  CallsOK'
  BY <1>3, OneCallMoves DEF CallsOK, NoQuery
<1>4. ASSUME NEW q \in Callers, NEW pc \in CallStates, Move(q, pc), call[q].pc # "done", NoQuery
      PROVE  CallsOK'
  <2>1. call' = [call EXCEPT ![q] = [call[q] EXCEPT !.pc = pc]]
    BY <1>4 DEF Move
  <2>2. /\ [call[q] EXCEPT !.pc = pc] \in CallRecords
        /\ [call[q] EXCEPT !.pc = pc].tries = call[q].tries
    BY <1>1, <1>4 DEF CallRecords
  <2> QED BY <1>1, <1>3, <1>4, <2>1, <2>2
<1>5. ASSUME NEW q \in Callers, NEW answer \in CallAnswers, ReplyTo(q, answer)
      PROVE  call' \in [Callers -> CallRecords] /\ Querying'
  <2> DEFINE c == [IdleCall EXCEPT !.pc = "done", !.answer = answer]
  <2>1. call' = [call EXCEPT ![q] = c]
    BY <1>5 DEF ReplyTo
  <2>2. c \in CallRecords /\ c.pc = "done"
    BY IdleCallType DEF CallRecords, IdleCall, CallStates
  <2> HIDE DEF c
  <2> QED BY <2>1, <2>2, OneCallMoves
<1>6. ASSUME NEW q \in Callers, NEW answer \in CallAnswers, ReplyTo(q, answer), NoQuery
      PROVE  CallsOK'
  BY <1>5, <1>6 DEF CallsOK, NoQuery
<1>7. ASSUME NEW q \in Callers, call[q].pc # "done", TimedOut(q)
      PROVE  call' \in [Callers -> CallRecords] /\ Querying'
  <2> DEFINE last == ~(call[q].tries + 1 < TimeoutRetries)
             c0 == [call[q] EXCEPT !.tries = call[q].tries + 1]
             c1 == [c0 EXCEPT !.fee = 0]
             c == [c1 EXCEPT !.pc = IF last THEN "done" ELSE "cost",
                             !.answer = IF last THEN "internal error" ELSE "none"]
  <2>1. call' = [call EXCEPT ![q] = c]
    BY <1>7, <1>1 DEF TimedOut, CallRecords
  <2>2. call[q].tries + 1 \in 0..TimeoutRetries
    BY <1>c, <1>1, <1>7 DEF CallRecords
  <2>3. c1 \in CallRecords /\ c1.tries = call[q].tries + 1
    <3>1. c0 \in CallRecords /\ c0.tries = call[q].tries + 1
      BY <1>1, <2>2 DEF CallRecords
    <3> HIDE DEF c0
    <3>2. 0 \in 0..FeeRetries
      BY <1>c
    <3> QED BY <3>1, <3>2 DEF CallRecords
  <2> HIDE DEF c1
  <2>4. c \in CallRecords /\ c.tries = c1.tries /\ (last => c.pc = "done")
    BY <2>3 DEF CallRecords, CallStates, CallAnswers
  <2> HIDE DEF c
  <2>5. c.pc # "done" => c.tries < TimeoutRetries
    BY <1>1, <2>3, <2>4
  <2> QED BY <2>1, <2>4, <2>5, OneCallMoves
<1>8. ASSUME NEW q \in Callers, NEW p \in CallParams, eth_call(q, p) PROVE CallsOK'
  <2> DEFINE pc == IF p.to = "invalid" THEN "done" ELSE IF p.byHash THEN "block" ELSE "price"
             answer == IF p.to = "invalid" THEN "invalid address" ELSE "none"
             c1 == [IdleCall EXCEPT !.params = p, !.pc = pc]
             c == [c1 EXCEPT !.answer = answer]
  <2>1. call' = [call EXCEPT ![q] = c]
    BY <1>8 DEF eth_call, IdleCall
  <2>2. c1 \in CallRecords /\ c1.tries = 0
    <3>1. pc \in CallStates
      BY DEF CallStates
    <3> HIDE DEF pc
    <3> QED BY <3>1, IdleCallType DEF CallRecords, IdleCall
  <2>3. answer \in CallAnswers
    BY DEF CallAnswers
  <2> HIDE DEF c1, answer
  <2>4. c \in CallRecords /\ c.tries = 0
    BY <2>2, <2>3 DEF CallRecords
  <2> HIDE DEF c
  <2>5. TimeoutRetries \in Nat /\ TimeoutRetries > 0 /\ MaxCalls \in Nat
    BY <1>c
  <2>6. calls' \in 0..MaxCalls /\ callCache' = callCache
    BY <1>8, <2>5 DEF eth_call, CallsOK
  <2>7. call' \in [Callers -> CallRecords] /\ Querying'
    BY <2>5, <2>1, <2>4, OneCallMoves
  <2> QED BY <2>6, <2>7 DEF CallsOK
<1>9. ASSUME NEW q \in Callers, CallStep(q) PROVE CallsOK'
  <2> USE DEF CallAnswers, CallStates
  <2>1. CASE ExtractBlock(q)
    BY <2>1, <1>4, <1>6 DEF ExtractBlock
  <2>2. CASE contractCallFormat(q)
    BY <2>2, <1>4, <1>6 DEF contractCallFormat, RouteOf
  <2>3. CASE callMirrorNode(q)
    BY <2>3, <1>6 DEF callMirrorNode, MirrorReplies
  <2>4. CASE callConsensusNode(q)
    <3>1. call[q].pc = "lookup" /\ NoQuery
      BY <2>4 DEF callConsensusNode
    <3>2. ASSUME getSDKClient, call' = [call EXCEPT ![q].pc = "cost", ![q].client = Handed]
          PROVE  CallsOK'
      <4> DEFINE c == [call[q] EXCEPT !.pc = "cost", !.client = Handed]
      <4>1. call' = [call EXCEPT ![q] = c]
        BY <3>2
      <4>2. Handed \in Nat
        BY <3>2, GetClientKeeps DEF PoolInv, PoolTypeOK, Handed
      <4>3. c \in CallRecords /\ c.tries = call[q].tries
        BY <1>1, <4>2 DEF CallRecords
      <4> HIDE DEF c
      <4> QED BY <1>1, <1>3, <3>1, <4>1, <4>3
    <3> QED BY <2>4, <1>6, <3>1, <3>2 DEF callConsensusNode
  <2>5. CASE getCost(q)
    <3>1. call[q].pc = "cost" /\ NoQuery
      BY <2>5 DEF getCost
    <3>2. TimedOut(q) => CallsOK'
      BY <1>7, <3>1 DEF CallsOK, NoQuery
    <3> QED BY <2>5, <1>4, <1>6, <3>1, <3>2 DEF getCost, Failed
  <2>6. CASE executeQuery(q)
    <3>1. call[q].pc = "pay" /\ calls' = calls
      BY <2>6 DEF executeQuery
    <3>2. CASE Succeeds(q)
      <4>1. callCache' \in [CallKeys -> 0..MaxPoolTime + CallTtl]
        <5>1. clock + CallTtl \in 0..MaxPoolTime + CallTtl
          BY <1>c, <1>1
        <5> QED BY <3>2, <5>1 DEF Succeeds, CallsOK
      <4> QED BY <1>5, <3>1, <3>2, <4>1 DEF Succeeds, CallsOK
    <3>3. CASE FeeTooLow(q)
      <4> DEFINE c == [call[q] EXCEPT !.fee = call[q].fee + 1]
      <4>1. call' = [call EXCEPT ![q] = c]
        BY <3>3 DEF FeeTooLow
      <4>2. c \in CallRecords /\ c.tries = call[q].tries
        <5>1. call[q].fee + 1 \in 0..FeeRetries
          <6>1. call[q].fee \in 0..FeeRetries
            BY <1>1 DEF CallRecords
          <6>2. call[q].fee < FeeRetries /\ FeeRetries \in Nat
            BY <1>c, <3>3 DEF FeeTooLow
          <6> QED BY <6>1, <6>2
        <5> QED BY <1>1, <5>1 DEF CallRecords
      <4> HIDE DEF c
      <4> QED BY <1>1, <1>3, <3>1, <3>3, <4>1, <4>2 DEF NoQuery, FeeTooLow
    <3>4. CASE Fails(q)
      <4>1. NoQuery
        BY <3>1, <3>4 DEF Fails, NoQuery
      <4>2. TimedOut(q) => CallsOK'
        BY <1>7, <3>1, <4>1 DEF CallsOK, NoQuery
      <4> QED BY <1>6, <3>4, <4>1, <4>2 DEF Fails, Failed
    <3> QED BY <2>6, <3>2, <3>3, <3>4 DEF executeQuery
  <2> QED BY <1>9, <2>1, <2>2, <2>3, <2>4, <2>5, <2>6 DEF CallStep
<1>10. ASSUME NEW q \in Callers, NextCall(q) PROVE CallsOK'
  <2>1. IdleCall.tries < TimeoutRetries
    BY <1>c DEF IdleCall
  <2> QED BY <1>3, <1>10, <2>1, IdleCallType DEF NextCall
<1> QED BY <1>2, <1>8, <1>9, <1>10 DEF CallNext, ccVars

(* However time-outs, low fees, errors and the cache of answers combine,   *)
(* a call is in one of its states with an answer of its own, and neither   *)
(* retry loop exceeds its limit (submitContractCallQueryWithRetry,         *)
(* increaseCostAndRetryExecution).                                         *)
THEOREM CallsTyped == CallSpec => []CallTypeOK
<1>1. PoolInv /\ CallsOK => CallTypeOK
  BY DEF PoolInv, CallsOK, CallTypeOK, CallRecords
<1> QED BY <1>1, PoolAlways, CallsStart, CallsStep, PTL DEF CallSpec

-----------------------------------------------------------------------------
(***************************************************************************)
(* Every eth_call makes progress.  A round of the outer loop (time-outs)   *)
(* is worth more than all increases of the fee, which the inner loop       *)
(* starts again in each of them; so the two loops together end, whatever   *)
(* consensus nodes answer.  With the fairness of CallFairness this is why  *)
(* CallsEnd holds.                                                         *)
(***************************************************************************)
RoundWorth == FeeRetries + 2
RoundsLeft(c) == (TimeoutRetries - c.tries) * RoundWorth
BeforeQuery == [block |-> 3, price |-> 2, mirror |-> 1, lookup |-> 1]

\* how much a request with this record has left to do
CallRankOf(c) ==
  CASE c.pc \in {"idle", "done"} -> 0
    [] c.pc = "cost" -> RoundsLeft(c)
    [] c.pc = "pay" -> RoundsLeft(c) - 1 - c.fee
    [] OTHER -> TimeoutRetries * RoundWorth + BeforeQuery[c.pc]

CallRank(q) == CallRankOf(call[q])

LEMMA LoopNumbers == RoundWorth \in Nat /\ RoundWorth > FeeRetries + 1
                     /\ TimeoutRetries \in Nat /\ FeeRetries \in Nat
BY CallConstants DEF RoundWorth

\* A round that is left is worth at least RoundWorth, and a round used up exactly that.
LEMMA RoundsAreWorth ==
  ASSUME NEW n \in 0..TimeoutRetries
  PROVE  /\ (TimeoutRetries - n) * RoundWorth \in 0..TimeoutRetries * RoundWorth
         /\ n < TimeoutRetries => (TimeoutRetries - n) * RoundWorth >= RoundWorth
         /\ (TimeoutRetries - (n + 1)) * RoundWorth = (TimeoutRetries - n) * RoundWorth - RoundWorth
<1>1. PICK w \in Nat, m \in Nat : w = RoundWorth /\ m = TimeoutRetries
  BY LoopNumbers
<1>2. (m - n) * w \in 0..m * w
  <2>1. m * w \in Nat /\ (m - n) * w \in Nat /\ n * w \in Nat
    BY <1>1
  <2>2. (m - n) * w = m * w - n * w
    BY <1>1
  <2> QED BY <2>1, <2>2
<1>3. n < m => (m - n) * w >= w
  <2>1. ASSUME n < m PROVE (m - n) * w >= w
    <3>1. PICK k \in Nat : m - n = k + 1
      BY <1>1, <2>1
    <3>2. (k + 1) * w = k * w + w /\ k * w \in Nat
      BY <1>1
    <3> QED BY <1>1, <3>1, <3>2
  <2> QED BY <2>1
<1>4. (m - (n + 1)) * w = (m - n) * w - w
  BY <1>1
<1> QED BY <1>1, <1>2, <1>3, <1>4

\* what a query that times out, a fee that is too low and an answer leave to do
LEMMA QueryRanks ==
  ASSUME NEW c \in CallRecords, c.pc \in {"cost", "pay"}, c.tries < TimeoutRetries
  PROVE  /\ CallRankOf(c) > 0
         /\ CallRankOf(c) > RoundsLeft(c) - RoundWorth
         /\ CallRankOf(c) <= TimeoutRetries * RoundWorth
         /\ CallRankOf(c) \in Nat
<1>1. PICK n \in 0..TimeoutRetries : n = c.tries
  BY DEF CallRecords
<1>2. c.fee \in Nat /\ c.fee <= FeeRetries
  BY LoopNumbers DEF CallRecords
<1>3. PICK x : x = RoundsLeft(c) /\ x \in 0..TimeoutRetries * RoundWorth /\ x >= RoundWorth
  BY <1>1, RoundsAreWorth DEF RoundsLeft
<1>4. PICK y \in Nat : y = TimeoutRetries * RoundWorth
  BY LoopNumbers
<1>5. x \in Nat /\ x <= y
  BY <1>3, <1>4
<1>6. CallRankOf(c) = x \/ CallRankOf(c) = x - 1 - c.fee
  BY <1>3 DEF CallRankOf
<1> QED BY <1>2, <1>3, <1>4, <1>5, <1>6, LoopNumbers

LEMMA CallRankIsNat ==
  ASSUME NEW c \in CallRecords, c.pc # "done" => c.tries < TimeoutRetries
  PROVE  CallRankOf(c) \in Nat /\ (c.pc \notin {"idle", "done"} => CallRankOf(c) > 0)
<1>1. CASE c.pc \in {"idle", "done"}
  BY <1>1 DEF CallRankOf
<1>2. CASE c.pc \in {"cost", "pay"}
  BY <1>2, QueryRanks
<1>3. CASE c.pc \in {"block", "price", "mirror", "lookup"}
  <2>1. PICK y \in Nat : y = TimeoutRetries * RoundWorth
    BY LoopNumbers
  <2>2. CallRankOf(c) = y + BeforeQuery[c.pc] /\ BeforeQuery[c.pc] \in 1..3
    BY <1>3, <2>1 DEF CallRankOf, BeforeQuery
  <2> QED BY <2>1, <2>2
<1> QED BY <1>1, <1>2, <1>3 DEF CallRecords, CallStates

\* what the steps of a call do to its record
LEMMA CallReplaced ==
  ASSUME CallsOK, NEW q \in Callers
  PROVE  /\ \A pc : Move(q, pc) => call'[q] = [call[q] EXCEPT !.pc = pc] /\ call'[q].pc = pc
         /\ \A answer : ReplyTo(q, answer) => call'[q].pc = "done"
<1>1. ASSUME NEW answer, ReplyTo(q, answer) PROVE call'[q].pc = "done"
  <2>1. call'[q] = [IdleCall EXCEPT !.pc = "done", !.answer = answer]
    BY <1>1 DEF ReplyTo, CallsOK
  <2> QED BY <2>1 DEF IdleCall
<1>2. ASSUME NEW pc, Move(q, pc)
      PROVE  call'[q] = [call[q] EXCEPT !.pc = pc] /\ call'[q].pc = pc
  <2>1. call'[q] = [call[q] EXCEPT !.pc = pc]
    BY <1>2 DEF Move, CallsOK
  <2> QED BY <2>1 DEF CallsOK, CallRecords
<1> QED BY <1>1, <1>2

LEMMA AnsweredIsLess ==
  ASSUME NEW c \in CallRecords, c.pc \notin {"idle", "done"}, c.tries < TimeoutRetries,
         NEW d, d.pc = "done"
  PROVE  CallRankOf(d) < CallRankOf(c)
BY CallRankIsNat DEF CallRankOf

LEMMA TimeOutIsLess ==
  ASSUME CallsOK, NEW q \in Callers, call[q].pc \in {"cost", "pay"}, TimedOut(q)
  PROVE  CallRankOf(call'[q]) < CallRankOf(call[q])
<1>1. call[q] \in CallRecords /\ call[q].tries < TimeoutRetries
  BY DEF CallsOK, Querying
<1>2. PICK d : d = call'[q]
  OBVIOUS
<1>3. CASE call[q].tries + 1 < TimeoutRetries
  <2>1. d.pc = "cost" /\ d.tries = call[q].tries + 1
    BY <1>1, <1>2, <1>3 DEF TimedOut, CallsOK, CallRecords
  <2>2. PICK n \in 0..TimeoutRetries : n = call[q].tries
    BY <1>1 DEF CallRecords
  <2>3. CallRankOf(d) = RoundsLeft(call[q]) - RoundWorth
    BY <2>1, <2>2, RoundsAreWorth DEF CallRankOf, RoundsLeft
  <2>4. CallRankOf(call[q]) > RoundsLeft(call[q]) - RoundWorth
    BY <1>1, QueryRanks
  <2> QED BY <1>2, <2>3, <2>4
<1>4. CASE ~(call[q].tries + 1 < TimeoutRetries)
  <2>1. d.pc = "done"
    BY <1>1, <1>2, <1>4 DEF TimedOut, CallsOK, CallRecords
  <2> QED BY <1>1, <1>2, <2>1, AnsweredIsLess
<1> QED BY <1>3, <1>4

\* The checks, the route and the client, up to the query.
LEMMA RoutingIsLess ==
  ASSUME CallsOK, NEW q \in Callers,
         ExtractBlock(q) \/ contractCallFormat(q) \/ callMirrorNode(q) \/ callConsensusNode(q)
  PROVE  CallRankOf(call'[q]) < CallRankOf(call[q])
<1>1. call[q] \in CallRecords /\ (call[q].pc # "done" => call[q].tries < TimeoutRetries)
  BY DEF CallsOK, Querying
<1>2. PICK d : d = call'[q]
  OBVIOUS
<1>3. PICK y \in Nat : y = TimeoutRetries * RoundWorth
  BY LoopNumbers
<1>4. CASE d.pc = "done"
  <2>1. call[q].pc \notin {"idle", "done"} /\ call[q].tries < TimeoutRetries
    BY <1>1 DEF ExtractBlock, contractCallFormat, callMirrorNode, callConsensusNode
  <2> QED BY <1>1, <1>2, <1>4, <2>1, AnsweredIsLess
<1>5. CASE call[q].pc = "block" /\ d.pc = "price"
  BY <1>2, <1>3, <1>5 DEF CallRankOf, BeforeQuery
<1>6. CASE call[q].pc = "price" /\ d.pc \in {"mirror", "lookup"}
  BY <1>2, <1>3, <1>6 DEF CallRankOf, BeforeQuery
<1>7. CASE call[q].pc = "lookup" /\ d.pc = "cost" /\ d.tries = call[q].tries
  <2>1. CallRankOf(call[q]) = y + 1
    BY <1>3, <1>7 DEF CallRankOf, BeforeQuery
  <2>2. PICK n \in 0..TimeoutRetries : n = call[q].tries
    BY <1>1 DEF CallRecords
  <2>3. CallRankOf(d) = (TimeoutRetries - n) * RoundWorth
    BY <1>7, <2>2 DEF CallRankOf, RoundsLeft
  <2>4. CallRankOf(d) \in 0..y
    BY <1>3, <2>3, RoundsAreWorth
  <2> QED BY <1>2, <1>3, <2>1, <2>4
<1>8. CASE ExtractBlock(q)
  BY <1>2, <1>4, <1>5, <1>8, CallReplaced DEF ExtractBlock
<1>9. CASE contractCallFormat(q)
  <2>1. Move(q, RouteOf(call[q].params)) => d.pc \in {"mirror", "lookup"}
    BY <1>2, CallReplaced DEF RouteOf
  <2> QED BY <1>2, <1>4, <1>6, <1>9, <2>1, CallReplaced DEF contractCallFormat
<1>10. CASE callMirrorNode(q)
  BY <1>2, <1>4, <1>10, CallReplaced DEF callMirrorNode
<1>11. CASE callConsensusNode(q)
  <2>1. ASSUME call' = [call EXCEPT ![q].pc = "cost", ![q].client = Handed]
        PROVE  d.pc = "cost" /\ d.tries = call[q].tries
    <3>1. d = [call[q] EXCEPT !.pc = "cost", !.client = Handed]
      BY <1>2, <2>1 DEF CallsOK
    <3> QED BY <1>1, <3>1 DEF CallRecords
  <2> QED BY <1>2, <1>4, <1>7, <1>11, <2>1, CallReplaced DEF callConsensusNode
<1> QED BY <1>8, <1>9, <1>10, <1>11

\* The query and both loops around it.
LEMMA QueryIsLess ==
  ASSUME CallsOK, NEW q \in Callers, getCost(q) \/ executeQuery(q)
  PROVE  CallRankOf(call'[q]) < CallRankOf(call[q])
<1>1. call[q] \in CallRecords /\ call[q].pc \in {"cost", "pay"} /\ call[q].tries < TimeoutRetries
  BY DEF CallsOK, Querying, getCost, executeQuery
<1>2. PICK d : d = call'[q]
  OBVIOUS
<1>3. PICK n \in 0..TimeoutRetries : n = call[q].tries
  BY <1>1 DEF CallRecords
<1>4. PICK x : x = (TimeoutRetries - n) * RoundWorth /\ x \in 0..TimeoutRetries * RoundWorth
  BY RoundsAreWorth
<1>5. x \in Int
  BY <1>4, LoopNumbers
<1>6. call[q].fee \in Nat
  BY <1>1, LoopNumbers DEF CallRecords
<1>7. \A answer : ReplyTo(q, answer) => CallRankOf(call'[q]) < CallRankOf(call[q])
  BY <1>1, CallReplaced, AnsweredIsLess
<1>8. CASE getCost(q)
  <2>1. ASSUME Move(q, "pay") PROVE CallRankOf(call'[q]) < CallRankOf(call[q])
    <3>1. call[q].pc = "cost"
      BY <1>8 DEF getCost
    <3>2. d = [call[q] EXCEPT !.pc = "pay"]
      BY <1>2, <2>1, CallReplaced
    <3>3. d.pc = "pay" /\ d.tries = call[q].tries /\ d.fee = call[q].fee
      BY <1>1, <3>2 DEF CallRecords
    <3>4. CallRankOf(call[q]) = x /\ CallRankOf(d) = x - 1 - call[q].fee
      BY <1>3, <1>4, <3>1, <3>3 DEF CallRankOf, RoundsLeft
    <3> QED BY <1>2, <1>5, <1>6, <3>4
  <2> QED BY <1>1, <1>7, <1>8, <2>1, TimeOutIsLess DEF getCost, Failed
<1>9. CASE executeQuery(q)
  <2>1. ASSUME FeeTooLow(q) PROVE CallRankOf(call'[q]) < CallRankOf(call[q])
    <3>1. call[q].pc = "pay"
      BY <1>9 DEF executeQuery
    <3>2. d = [call[q] EXCEPT !.fee = call[q].fee + 1]
      BY <1>2, <2>1 DEF FeeTooLow, CallsOK
    <3>3. d.pc = "pay" /\ d.tries = call[q].tries /\ d.fee = call[q].fee + 1
      BY <1>1, <3>1, <3>2 DEF CallRecords
    <3>4. CallRankOf(call[q]) = x - 1 - call[q].fee /\ CallRankOf(d) = x - 1 - (call[q].fee + 1)
      BY <1>3, <1>4, <3>1, <3>3 DEF CallRankOf, RoundsLeft
    <3> QED BY <1>2, <1>5, <1>6, <3>4
  <2> QED BY <1>1, <1>7, <1>9, <2>1, TimeOutIsLess DEF executeQuery, Succeeds, Fails, Failed
<1> QED BY <1>8, <1>9

\* Nobody else touches a call under way.
LEMMA OtherCallsLeaveIt ==
  ASSUME CallsOK, [CallNext]_ccVars, NEW q \in Callers,
         call[q].pc \notin {"idle", "done"}, ~CallStep(q)
  PROVE  call'[q] = call[q]
<1>1. ASSUME NEW u \in Callers,
             NextCall(u) \/ CallStep(u) \/ \E p \in CallParams : eth_call(u, p)
      PROVE  call'[q] = call[q]
  <2>1. u # q
    BY <1>1 DEF NextCall, eth_call
  <2>2. call \in [Callers -> CallRecords]
    BY DEF CallsOK
  <2>3. CASE NextCall(u) \/ \E p \in CallParams : eth_call(u, p)
    BY <2>1, <2>2, <2>3 DEF NextCall, eth_call
  <2>4. CASE CallStep(u)
    BY <2>1, <2>2, <2>4 DEF CallStep, ExtractBlock, contractCallFormat, callMirrorNode,
       callConsensusNode, getCost, executeQuery, Succeeds, FeeTooLow, Fails, Failed, TimedOut,
       Move, ReplyTo
  <2> QED BY <1>1, <2>3, <2>4
<1>2. CASE UNCHANGED callVars
  BY <1>2 DEF callVars
<1> QED BY <1>1, <1>2 DEF CallNext, ccVars

(* Whatever the consensus nodes answer, each step of an eth_call lowers a  *)
(* natural number that nothing else changes until the answer: the time-outs *)
(* and the increases of the fee, nested as they are, lead to at most       *)
(* TimeoutRetries * (FeeRetries + 2) + 3 steps                             *)
(* (submitContractCallQueryWithRetry, increaseCostAndRetryExecution).      *)
THEOREM CallsMoveOn ==
  CallSpec => [][\A q \in Callers :
                   /\ CallRank(q) \in Nat /\ CallRank(q)' \in Nat
                   /\ CallStep(q) => CallRank(q)' < CallRank(q)
                   /\ call[q].pc \in {"idle", "done"} \/ CallStep(q) \/ call'[q] = call[q]]_ccVars
<1>1. ASSUME CallsOK, CallsOK', [CallNext]_ccVars, NEW q \in Callers
      PROVE  /\ CallRank(q) \in Nat /\ CallRank(q)' \in Nat
             /\ CallStep(q) => CallRank(q)' < CallRank(q)
             /\ call[q].pc \in {"idle", "done"} \/ CallStep(q) \/ call'[q] = call[q]
  <2>1. /\ call[q] \in CallRecords /\ (call[q].pc # "done" => call[q].tries < TimeoutRetries)
        /\ call'[q] \in CallRecords /\ (call'[q].pc # "done" => call'[q].tries < TimeoutRetries)
    BY <1>1 DEF CallsOK, Querying
  <2>2. CallRankOf(call[q]) \in Nat /\ CallRankOf(call'[q]) \in Nat
    BY <2>1, CallRankIsNat
  <2>3. CallStep(q) => CallRankOf(call'[q]) < CallRankOf(call[q])
    BY <1>1, RoutingIsLess, QueryIsLess DEF CallStep
  <2>4. call[q].pc \in {"idle", "done"} \/ CallStep(q) \/ call'[q] = call[q]
    BY <1>1, OtherCallsLeaveIt
  <2> QED BY <2>2, <2>3, <2>4 DEF CallRank, CallRankOf, RoundsLeft
<1>2. CallsOK /\ CallsOK' /\ [CallNext]_ccVars =>
        [\A q \in Callers :
           /\ CallRank(q) \in Nat /\ CallRank(q)' \in Nat
           /\ CallStep(q) => CallRank(q)' < CallRank(q)
           /\ call[q].pc \in {"idle", "done"} \/ CallStep(q) \/ call'[q] = call[q]]_ccVars
  BY <1>1
<1> QED BY <1>2, PoolAlways, CallsStart, CallsStep, PTL DEF CallSpec

-----------------------------------------------------------------------------
(***************************************************************************)
(* Expenses: the types of the variables, and that nothing is booked twice  *)
(* or without having been paid.                                            *)
(***************************************************************************)

(* An append job that is not done has chunks left, and those that were     *)
(* answered are paid; so is a transaction whose receipt is awaited.        *)
SentPaid ==
  \A j \in Jobs :
    /\ job[j] = "execute" /\ KindOf[j] = "appends" =>
         sent[j] < Chunks /\ \A c \in 1..sent[j] : Fee(<<j, c>>) \in paid
    /\ job[j] = "receipt" => Fee(<<j, 1>>) \in paid

(* No record is asked for before the job is done.                          *)
NotAsked == \A t \in Transactions : job[t[1]] # "done" => capture[t] = "none"

(* What is still to be booked of a transaction is paid and not booked yet. *)
FeeBooked ==
  \A t \in Transactions :
    /\ capture[t] \in {"none", "fetch", "fee"} => booked[Fee(t)] = 0
    /\ capture[t] \in {"fetch", "fee", "charge"} => Fee(t) \in paid
    /\ booked[Fee(t)] <= 1
    /\ booked[Fee(t)] = 1 => Fee(t) \in paid

ChargeBooked ==
  \A t \in Transactions :
    /\ capture[t] # "ended" => booked[RecordCharge(t)] = 0
    /\ capture[t] = "fee" /\ fromConsensus => RecordCharge(t) \in paid
    /\ capture[t] = "charge" => RecordCharge(t) \in paid
    /\ booked[RecordCharge(t)] <= 1
    /\ booked[RecordCharge(t)] = 1 => RecordCharge(t) \in paid

Answerable(j) == Payment(j) \in paid \/ j \in owing

(* A query is handed over once, and what is handed over is not booked yet. *)
QueryBooked ==
  \A j \in Jobs :
    /\ job[j] = "execute" => j \notin queued
    /\ job[j] = "execute" \/ j \in queued => booked[Payment(j)] = 0
    /\ j \in queued => Answerable(j)
    /\ booked[Payment(j)] <= 1
    /\ booked[Payment(j)] = 1 => Answerable(j)

(* A query is no series: only its first item is ever booked.               *)
NoOtherPayment == \A t \in Transactions : t[2] # 1 => booked[Item(t, "QUERY")] = 0

ExpenseInv ==
  /\ ExpensesTypeOK /\ SentPaid /\ NotAsked
  /\ FeeBooked /\ ChargeBooked /\ QueryBooked /\ NoOtherPayment

-----------------------------------------------------------------------------

LEMMA Bounds == Chunks \in Nat /\ Chunks >= 1 /\ RecordTries \in Nat /\ RecordTries >= 1
BY ExpensesAssumption

(* Items are told apart by their transaction and their mode.               *)
LEMMA ItemsDiffer ==
  /\ \A t \in Transactions : Fee(t) \in Items /\ RecordCharge(t) \in Items
  /\ \A t \in Transactions : Item(t, "QUERY") \in Items
  /\ \A j \in Jobs : Payment(j) \in Items /\ Payment(j) = Item(<<j, 1>>, "QUERY")
  /\ \A j \in Jobs : \A c \in 1..Chunks : <<j, c>> \in Transactions
  /\ \A t \in Transactions : t[1] \in Jobs /\ t[2] \in 1..Chunks /\ t = <<t[1], t[2]>>
  /\ 1 \in 1..Chunks
  /\ \A t, u \in Transactions :
       /\ Fee(t) = Fee(u) => t = u
       /\ RecordCharge(t) = RecordCharge(u) => t = u
       /\ Item(t, "QUERY") = Item(u, "QUERY") => t = u
       /\ Fee(t) # RecordCharge(u) /\ Fee(t) # Item(u, "QUERY")
       /\ RecordCharge(t) # Item(u, "QUERY")
  /\ \A i, j \in Jobs : Payment(i) = Payment(j) => i = j
<1>1. 1 \in 1..Chunks
  BY Bounds
<1>2. \A j \in Jobs : \A c \in 1..Chunks : <<j, c>> \in Transactions
  BY DEF Transactions
<1>3. \A t \in Transactions : t[1] \in Jobs /\ t[2] \in 1..Chunks /\ t = <<t[1], t[2]>>
  BY DEF Transactions
<1>4. \A t \in Transactions : \A m \in {"TRANSACTION", "RECORD", "QUERY"} : Item(t, m) \in Items
  BY DEF Item, Items
<1>5. \A t, u : \A m, n : Item(t, m) = Item(u, n) => t = u /\ m = n
  <2>1. \A t, m : Item(t, m).of = t /\ Item(t, m).mode = m
    BY DEF Item
  <2> QED BY <2>1
<1>6. \A t, u \in Transactions :
        /\ Fee(t) = Fee(u) => t = u
        /\ RecordCharge(t) = RecordCharge(u) => t = u
        /\ Item(t, "QUERY") = Item(u, "QUERY") => t = u
        /\ Fee(t) # RecordCharge(u) /\ Fee(t) # Item(u, "QUERY")
        /\ RecordCharge(t) # Item(u, "QUERY")
  BY <1>5 DEF Fee, RecordCharge
<1>7. \A i, j \in Jobs : Payment(i) = Payment(j) => i = j
  <2> SUFFICES ASSUME NEW i \in Jobs, NEW j \in Jobs, Payment(i) = Payment(j)
               PROVE  i = j
    OBVIOUS
  <2>1. <<i, 1>> = <<j, 1>>
    BY <1>5 DEF Payment
  <2> QED BY <2>1
<1> QED BY <1>1, <1>2, <1>3, <1>4, <1>6, <1>7 DEF Fee, RecordCharge, Payment

(* addExpense changes the count of one item.                               *)
LEMMA AddedOne ==
  ASSUME booked \in [Items -> Nat], NEW i \in Items, Added(i)
  PROVE  /\ booked' \in [Items -> Nat]
         /\ booked'[i] = booked[i] + 1
         /\ \A k \in Items : k # i => booked'[k] = booked[k]
BY DEF Added

(* Nothing is sent, asked for or booked at the start.                      *)
LEMMA ExpenseStarts == ExpensesInit => ExpenseInv
<1> SUFFICES ASSUME ExpensesInit PROVE ExpenseInv
  OBVIOUS
<1> USE ExpensesAssumption, ItemsDiffer
<1>1. ExpensesTypeOK
  BY DEF ExpensesInit, ExpensesTypeOK
<1>2. SentPaid /\ NotAsked
  BY DEF ExpensesInit, SentPaid, NotAsked
<1>3. FeeBooked /\ ChargeBooked
  BY DEF ExpensesInit, FeeBooked, ChargeBooked
<1>4. QueryBooked
  <2>1. queued = {} /\ booked = [i \in Items |-> 0]
    BY DEF ExpensesInit
  <2>2. \A j \in Jobs : booked[Payment(j)] = 0
    BY <2>1
  <2> QED BY <2>1, <2>2 DEF QueryBooked
<1>5. NoOtherPayment
  BY DEF ExpensesInit, NoOtherPayment
<1> QED BY <1>1, <1>2, <1>3, <1>4, <1>5 DEF ExpenseInv

(* A transaction is answered: its fee is paid, the receipt is next.        *)
LEMMA ExecuteAnswersKeeps ==
  ASSUME ExpenseInv, NEW j \in Jobs, ExecuteAnswers(j) PROVE ExpenseInv'
<1> USE ExpensesAssumption, ItemsDiffer DEF ExpenseInv, ExecuteAnswers
<1>1. ExpensesTypeOK'
  BY DEF ExpensesTypeOK
<1>2. SentPaid'
  BY DEF SentPaid, ExpensesTypeOK
<1>3. NotAsked'
  BY DEF NotAsked, ExpensesTypeOK
<1>4. FeeBooked' /\ ChargeBooked'
  BY DEF FeeBooked, ChargeBooked
<1>5. QueryBooked'
  BY DEF QueryBooked, Answerable, ExpensesTypeOK
<1>6. NoOtherPayment'
  BY DEF NoOtherPayment
<1> QED BY <1>1, <1>2, <1>3, <1>4, <1>5, <1>6

(* It is not answered: it may be paid for, and nobody is told.             *)
LEMMA ExecuteUnansweredKeeps ==
  ASSUME ExpenseInv, NEW j \in Jobs, ExecuteUnanswered(j) PROVE ExpenseInv'
<1> USE ExpensesAssumption, ItemsDiffer DEF ExpenseInv, ExecuteUnanswered, MayHavePaid, Fault
<1>1. paid \subseteq paid' /\ paid' \subseteq Items
  BY DEF ExpensesTypeOK
<1>2. ExpensesTypeOK'
  BY <1>1 DEF ExpensesTypeOK
<1>3. SentPaid'
  BY <1>1 DEF SentPaid, ExpensesTypeOK
<1>4. NotAsked'
  BY DEF NotAsked, ExpensesTypeOK
<1>5. FeeBooked' /\ ChargeBooked'
  BY <1>1 DEF FeeBooked, ChargeBooked
<1>6. QueryBooked'
  BY <1>1 DEF QueryBooked, Answerable, ExpensesTypeOK
<1>7. NoOtherPayment'
  BY DEF NoOtherPayment
<1> QED BY <1>2, <1>3, <1>4, <1>5, <1>6, <1>7

(* The receipt, or its error: the record is asked for.                     *)
LEMMA ReceiptComesKeeps ==
  ASSUME ExpenseInv, NEW j \in Jobs, ReceiptComes(j) PROVE ExpenseInv'
<1> USE ExpensesAssumption, ItemsDiffer DEF ExpenseInv, ReceiptComes, EmitExecuted, Emit
<1>1. ExpensesTypeOK'
  BY DEF ExpensesTypeOK
<1>2. SentPaid'
  BY DEF SentPaid, ExpensesTypeOK
<1>3. NotAsked'
  BY DEF NotAsked, ExpensesTypeOK
<1>4. capture[<<j, 1>>] = "none" /\ Fee(<<j, 1>>) \in paid
  BY DEF NotAsked, SentPaid
<1>5. FeeBooked' /\ ChargeBooked'
  BY <1>4 DEF FeeBooked, ChargeBooked
<1>6. QueryBooked'
  BY DEF QueryBooked, Answerable, ExpensesTypeOK
<1>7. NoOtherPayment'
  BY DEF NoOtherPayment
<1> QED BY <1>1, <1>2, <1>3, <1>5, <1>6, <1>7

(* A chunk is answered; after the last one every record is asked for.      *)
LEMMA AppendChunkKeeps ==
  ASSUME ExpenseInv, NEW j \in Jobs, AppendChunk(j) PROVE ExpenseInv'
<1> DEFINE n == sent[j] + 1
<1> USE ExpensesAssumption, ItemsDiffer DEF ExpenseInv
<1>1. /\ KindOf[j] = "appends" /\ job[j] = "execute"
      /\ sent' = [sent EXCEPT ![j] = n]
      /\ paid' = paid \union {Fee(<<j, n>>)}
      /\ n = Chunks => /\ capture' = [t \in Transactions |->
                            IF t \in {<<j, c>> : c \in 1..n} THEN "fetch" ELSE capture[t]]
                       /\ job' = [job EXCEPT ![j] = "done"]
      /\ n # Chunks => capture' = capture /\ job' = job
      /\ UNCHANGED <<fromConsensus, tries, shown, queued, booked, owing, faults>>
  BY DEF AppendChunk, EmitAppended, Emit
<1>2. /\ sent[j] \in Nat /\ n \in 1..Chunks
      /\ \A c \in 1..sent[j] : Fee(<<j, c>>) \in paid
  <2>1. sent[j] \in 0..Chunks
    BY DEF ExpensesTypeOK
  <2>2. sent[j] < Chunks /\ \A c \in 1..sent[j] : Fee(<<j, c>>) \in paid
    BY <1>1 DEF SentPaid
  <2> QED BY <2>1, <2>2, Bounds
<1>3. \A c \in 1..n : Fee(<<j, c>>) \in paid'
  <2> SUFFICES ASSUME NEW c \in 1..n PROVE Fee(<<j, c>>) \in paid'
    OBVIOUS
  <2>1. c = n \/ c \in 1..sent[j]
    BY <1>2
  <2> QED BY <2>1, <1>1, <1>2
<1> HIDE DEF n
<1>4. ExpensesTypeOK'
  <2>1. sent' \in [Jobs -> 0..Chunks] /\ paid' \subseteq Items
    BY <1>1, <1>2 DEF ExpensesTypeOK
  <2> QED BY <2>1, <1>1, SMTT(20) DEF ExpensesTypeOK
<1>5. SentPaid'
  <2> SUFFICES ASSUME NEW i \in Jobs
               PROVE  /\ job'[i] = "execute" /\ KindOf[i] = "appends" =>
                           sent'[i] < Chunks /\ \A c \in 1..sent'[i] : Fee(<<i, c>>) \in paid'
                      /\ job'[i] = "receipt" => Fee(<<i, 1>>) \in paid'
    BY DEF SentPaid, Fee, Item
  <2>1. CASE i # j
    BY <2>1, <1>1 DEF SentPaid, ExpensesTypeOK
  <2>2. CASE i = j
    <3>1. sent'[j] = n
      BY <1>1 DEF ExpensesTypeOK
    <3>2. n # Chunks => n < Chunks
      BY <1>2, Bounds
    <3>3. job'[j] = IF n = Chunks THEN "done" ELSE "execute"
      BY <1>1 DEF ExpensesTypeOK
    <3> QED BY <2>2, <3>1, <3>3, <3>2, <1>3
  <2> QED BY <2>1, <2>2
<1>6. NotAsked'
  BY <1>1 DEF NotAsked, ExpensesTypeOK
<1>7. \A c \in 1..n : capture[<<j, c>>] = "none"
  BY <1>1, <1>2 DEF NotAsked
<1>8. \A t \in Transactions : capture'[t] = capture[t] \/
        (capture[t] = "none" /\ capture'[t] = "fetch" /\ Fee(t) \in paid')
  <2> SUFFICES ASSUME NEW t \in Transactions, capture'[t] # capture[t]
               PROVE  capture[t] = "none" /\ capture'[t] = "fetch" /\ Fee(t) \in paid'
    OBVIOUS
  <2>1. n = Chunks /\ t \in {<<j, c>> : c \in 1..n} /\ capture'[t] = "fetch"
    BY <1>1
  <2>2. PICK c \in 1..n : t = <<j, c>>
    BY <2>1
  <2> QED BY <2>1, <2>2, <1>3, <1>7
<1>9. FeeBooked' /\ ChargeBooked'
  BY <1>1, <1>8 DEF FeeBooked, ChargeBooked
<1>10. QueryBooked' /\ NoOtherPayment'
  BY <1>1 DEF QueryBooked, NoOtherPayment, Answerable, ExpensesTypeOK
<1> QED BY <1>4, <1>5, <1>6, <1>9, <1>10

(* A chunk fails: the job is done, and no record is asked for.             *)
LEMMA AppendFailsKeeps ==
  ASSUME ExpenseInv, NEW j \in Jobs, AppendFails(j) PROVE ExpenseInv'
<1> USE ExpensesAssumption, ItemsDiffer DEF ExpenseInv, AppendFails, MayHavePaid, Fault
<1>1. sent[j] + 1 \in 1..Chunks
  <2>1. sent[j] \in 0..Chunks /\ sent[j] < Chunks
    BY DEF SentPaid, ExpensesTypeOK
  <2> QED BY <2>1, Bounds
<1>2. paid \subseteq paid' /\ paid' \subseteq Items
  BY <1>1 DEF ExpensesTypeOK
<1>3. ExpensesTypeOK'
  BY <1>2 DEF ExpensesTypeOK
<1>4. SentPaid'
  BY <1>2 DEF SentPaid, ExpensesTypeOK
<1>5. NotAsked'
  BY DEF NotAsked, ExpensesTypeOK
<1>6. FeeBooked' /\ ChargeBooked'
  BY <1>2 DEF FeeBooked, ChargeBooked
<1>7. QueryBooked' /\ NoOtherPayment'
  BY <1>2 DEF QueryBooked, NoOtherPayment, Answerable, ExpensesTypeOK
<1> QED BY <1>3, <1>4, <1>5, <1>6, <1>7

(* A query is answered: if it cost something it is paid and handed over.   *)
LEMMA QueryAnswersKeeps ==
  ASSUME ExpenseInv, NEW j \in Jobs, QueryAnswers(j) PROVE ExpenseInv'
<1> USE ExpensesAssumption, ItemsDiffer DEF ExpenseInv, QueryAnswers
<1>1. paid \subseteq paid' /\ paid' \subseteq Items
  BY DEF ExpensesTypeOK
<1>2. queued' = queued \/ (queued' = queued \union {j} /\ Payment(j) \in paid')
  OBVIOUS
<1>3. ExpensesTypeOK'
  BY <1>1, <1>2 DEF ExpensesTypeOK
<1>4. SentPaid'
  BY <1>1 DEF SentPaid, ExpensesTypeOK
<1>5. NotAsked'
  BY DEF NotAsked, ExpensesTypeOK
<1>6. FeeBooked' /\ ChargeBooked'
  BY <1>1 DEF FeeBooked, ChargeBooked
<1>7. QueryBooked'
  BY <1>1, <1>2 DEF QueryBooked, Answerable, ExpensesTypeOK
<1>8. NoOtherPayment'
  BY DEF NoOtherPayment
<1> QED BY <1>3, <1>4, <1>5, <1>6, <1>7, <1>8

(* A query fails: it is handed over if its payment had been set.           *)
LEMMA QueryFailsKeeps ==
  ASSUME ExpenseInv, NEW j \in Jobs, QueryFails(j) PROVE ExpenseInv'
<1> USE ExpensesAssumption, ItemsDiffer DEF ExpenseInv, QueryFails, MayHavePaid, Fault
<1>1. paid \subseteq paid' /\ paid' \subseteq Items /\ owing \subseteq owing'
  BY DEF ExpensesTypeOK
<1>2. queued' = queued \/ (queued' = queued \union {j} /\ j \in owing')
  OBVIOUS
<1>3. ExpensesTypeOK'
  BY <1>1, <1>2 DEF ExpensesTypeOK
<1>4. SentPaid'
  BY <1>1 DEF SentPaid, ExpensesTypeOK
<1>5. NotAsked'
  BY DEF NotAsked, ExpensesTypeOK
<1>6. FeeBooked' /\ ChargeBooked'
  BY <1>1 DEF FeeBooked, ChargeBooked
<1>7. QueryBooked'
  BY <1>1, <1>2 DEF QueryBooked, Answerable, ExpensesTypeOK
<1>8. NoOtherPayment'
  BY DEF NoOtherPayment
<1> QED BY <1>3, <1>4, <1>5, <1>6, <1>7, <1>8

(* The handler of a query's event books its payment, or fails to.          *)
LEMMA BookQueryKeeps ==
  ASSUME ExpenseInv, NEW j \in Jobs, BookQuery(j) PROVE ExpenseInv'
<1> USE ExpensesAssumption, ItemsDiffer DEF ExpenseInv
<1>1. /\ j \in queued /\ queued' = queued \ {j}
      /\ UNCHANGED <<fromConsensus, job, sent, capture, tries, shown, paid, owing>>
      /\ Added(Payment(j)) \/ booked' = booked
      /\ faults' \in 0..MaxFaults
  BY DEF BookQuery, Fault, ExpensesTypeOK
<1>2. booked' \in [Items -> Nat] /\ booked[Payment(j)] = 0 /\ Answerable(j)
  BY <1>1, AddedOne DEF QueryBooked, ExpensesTypeOK
<1>3. /\ \A k \in Items : k # Payment(j) => booked'[k] = booked[k]
      /\ booked'[Payment(j)] \in {0, 1}
  <2>1. CASE Added(Payment(j))
    <3>1. booked \in [Items -> Nat] /\ Payment(j) \in Items
      BY DEF ExpensesTypeOK
    <3>2. /\ booked'[Payment(j)] = booked[Payment(j)] + 1
          /\ \A k \in Items : k # Payment(j) => booked'[k] = booked[k]
      BY <2>1, <3>1, AddedOne
    <3> QED BY <3>2, <1>2
  <2>2. CASE booked' = booked
    BY <2>2, <1>2
  <2> QED BY <1>1, <2>1, <2>2
<1>4. ExpensesTypeOK'
  BY <1>1, <1>2 DEF ExpensesTypeOK
<1>5. SentPaid' /\ NotAsked'
  BY <1>1 DEF SentPaid, NotAsked
<1>6. \A t \in Transactions : booked'[Fee(t)] = booked[Fee(t)]
                              /\ booked'[RecordCharge(t)] = booked[RecordCharge(t)]
  BY <1>3
<1>7. FeeBooked' /\ ChargeBooked'
  BY <1>1, <1>6 DEF FeeBooked, ChargeBooked
<1>8. QueryBooked'
  <2> SUFFICES ASSUME NEW i \in Jobs
               PROVE  /\ job'[i] = "execute" => i \notin queued'
                      /\ job'[i] = "execute" \/ i \in queued' => booked'[Payment(i)] = 0
                      /\ i \in queued' => Answerable(i)
                      /\ booked'[Payment(i)] <= 1
                      /\ booked'[Payment(i)] = 1 => Answerable(i)
    BY <1>1 DEF QueryBooked, Answerable, Payment, Item
  <2>1. CASE i = j
    BY <2>1, <1>1, <1>2, <1>3 DEF QueryBooked
  <2>2. CASE i # j
    BY <2>2, <1>1, <1>3 DEF QueryBooked
  <2> QED BY <2>1, <2>2
<1>9. NoOtherPayment'
  <2> SUFFICES ASSUME NEW t \in Transactions, t[2] # 1 PROVE booked'[Item(t, "QUERY")] = 0
    BY DEF NoOtherPayment, Item
  <2>1. <<j, 1>> \in Transactions /\ t # <<j, 1>>
    OBVIOUS
  <2>2. Item(t, "QUERY") # Payment(j) /\ Item(t, "QUERY") \in Items
    BY <2>1
  <2> QED BY <2>2, <1>3 DEF NoOtherPayment
<1> QED BY <1>4, <1>5, <1>7, <1>8, <1>9

(* The mirror node shows a transaction.                                    *)
LEMMA ImportKeeps ==
  ASSUME ExpenseInv, NEW t \in Transactions, Import(t) PROVE ExpenseInv'
<1>1. UNCHANGED <<fromConsensus, job, sent, capture, tries, paid, queued, booked, owing, faults>>
      /\ shown' = shown \union {t}
  BY DEF Import
<1>2. ExpensesTypeOK'
  BY <1>1 DEF ExpenseInv, ExpensesTypeOK
<1> QED BY <1>1, <1>2 DEF ExpenseInv, SentPaid, NotAsked, FeeBooked, ChargeBooked, QueryBooked,
                          NoOtherPayment, Answerable, Fee, RecordCharge, Payment, Item

(* The record is asked for at the consensus node and paid, or not had.     *)
LEMMA AskConsensusKeeps ==
  ASSUME ExpenseInv, NEW t \in Transactions, AskConsensus(t) PROVE ExpenseInv'
<1> USE ExpensesAssumption, ItemsDiffer DEF ExpenseInv, AskConsensus, GiveUp, MayHavePaid, Fault
<1>1. paid \subseteq paid' /\ paid' \subseteq Items
  BY DEF ExpensesTypeOK
<1>2. /\ capture' = [capture EXCEPT ![t] = "fee"] /\ RecordCharge(t) \in paid'
      \/ capture' = [capture EXCEPT ![t] = "ended"]
  OBVIOUS
<1>3. job[t[1]] = "done"
  BY DEF NotAsked
<1>4. ExpensesTypeOK'
  BY <1>1, <1>2 DEF ExpensesTypeOK
<1>5. SentPaid'
  BY <1>1 DEF SentPaid
<1>6. NotAsked'
  BY <1>2, <1>3 DEF NotAsked, ExpensesTypeOK
<1>7. FeeBooked'
  BY <1>1, <1>2 DEF FeeBooked, ExpensesTypeOK
<1>8. ChargeBooked'
  BY <1>1, <1>2 DEF ChargeBooked, ExpensesTypeOK
<1>9. QueryBooked' /\ NoOtherPayment'
  BY <1>1 DEF QueryBooked, Answerable, NoOtherPayment
<1> QED BY <1>4, <1>5, <1>6, <1>7, <1>8, <1>9

(* The record is asked for at the mirror node: had, asked again or lost.   *)
LEMMA AskMirrorKeeps ==
  ASSUME ExpenseInv, NEW t \in Transactions, AskMirror(t) PROVE ExpenseInv'
<1> USE ItemsDiffer DEF ExpenseInv, GiveUp, Fault
<1>1. /\ ~fromConsensus /\ capture[t] = "fetch"
      /\ capture' = capture \/ capture' = [capture EXCEPT ![t] = "fee"]
         \/ capture' = [capture EXCEPT ![t] = "ended"]
      /\ UNCHANGED <<fromConsensus, job, sent, shown, paid, queued, booked, owing>>
  BY DEF AskMirror, NotYet
<1>2. tries' = tries \/ (tries[t] + 1 < RecordTries /\ tries' = [tries EXCEPT ![t] = @ + 1])
  BY DEF AskMirror, NotYet
<1>3. tries' \in [Transactions -> 0..RecordTries]
  <2>1. tries \in [Transactions -> 0..RecordTries]
    BY DEF ExpensesTypeOK
  <2>2. tries[t] + 1 < RecordTries => tries[t] + 1 \in 0..RecordTries
    BY <2>1, Bounds
  <2> QED BY <1>2, <2>1, <2>2
<1>4. faults' \in 0..MaxFaults
  BY ExpensesAssumption DEF AskMirror, NotYet, ExpensesTypeOK
<1>5. ExpensesTypeOK'
  BY <1>1, <1>3, <1>4 DEF ExpensesTypeOK
<1>6. job[t[1]] = "done"
  BY <1>1 DEF NotAsked
<1>7. SentPaid' /\ NotAsked'
  BY <1>1, <1>6 DEF SentPaid, NotAsked, ExpensesTypeOK
<1>8. FeeBooked' /\ ChargeBooked'
  BY <1>1 DEF FeeBooked, ChargeBooked, ExpensesTypeOK
<1>9. QueryBooked' /\ NoOtherPayment'
  BY <1>1 DEF QueryBooked, Answerable, NoOtherPayment
<1> QED BY <1>5, <1>7, <1>8, <1>9

(* addExpense throws: what is left of the transaction is not booked.       *)
LEMMA BookingFailsKeeps ==
  ASSUME ExpenseInv, NEW t \in Transactions, BookingFails(t) PROVE ExpenseInv'
<1> USE ExpensesAssumption, ItemsDiffer DEF ExpenseInv, BookingFails, GiveUp, Fault
<1>1. ExpensesTypeOK'
  BY DEF ExpensesTypeOK
<1>2. SentPaid' /\ NotAsked'
  BY DEF SentPaid, NotAsked, ExpensesTypeOK
<1>3. FeeBooked' /\ ChargeBooked'
  BY DEF FeeBooked, ChargeBooked, ExpensesTypeOK
<1>4. QueryBooked' /\ NoOtherPayment'
  BY DEF QueryBooked, Answerable, NoOtherPayment
<1> QED BY <1>1, <1>2, <1>3, <1>4

(* The fee of a transaction is booked, or the charge of its record.        *)
LEMMA BookTransactionKeeps ==
  ASSUME ExpenseInv, NEW t \in Transactions, BookTransaction(t) PROVE ExpenseInv'
<1> DEFINE i == IF capture[t] = "fee" THEN Fee(t) ELSE RecordCharge(t)
<1> USE ItemsDiffer DEF ExpenseInv
<1>1. /\ capture[t] \in {"fee", "charge"}
      /\ Added(i)
      /\ capture' = [capture EXCEPT ![t] =
                       IF capture[t] = "fee" /\ fromConsensus THEN "charge" ELSE "ended"]
      /\ UNCHANGED <<fromConsensus, job, sent, tries, shown, paid, queued, owing, faults>>
  BY DEF BookTransaction
<1>2. i \in Items /\ booked \in [Items -> Nat]
  BY DEF ExpensesTypeOK
<1>3. booked[i] = 0 /\ i \in paid
  BY <1>1 DEF FeeBooked, ChargeBooked
<1>4. /\ booked' \in [Items -> Nat]
      /\ booked'[i] = booked[i] + 1
      /\ \A k \in Items : k # i => booked'[k] = booked[k]
  BY <1>1, <1>2, AddedOne
<1>5. booked'[i] = 1
  BY <1>3, <1>4
<1>6. ExpensesTypeOK'
  BY <1>1, <1>4 DEF ExpensesTypeOK
<1>7. SentPaid'
  BY <1>1 DEF SentPaid
<1>8. NotAsked'
  <2>1. job[t[1]] = "done"
    BY <1>1 DEF NotAsked
  <2> QED BY <2>1, <1>1 DEF NotAsked, ExpensesTypeOK
<1>9. \A u \in Transactions : u # t =>
        /\ capture'[u] = capture[u]
        /\ booked'[Fee(u)] = booked[Fee(u)] /\ booked'[RecordCharge(u)] = booked[RecordCharge(u)]
  BY <1>1, <1>4 DEF ExpensesTypeOK
<1>10. /\ capture[t] = "fee" => booked'[RecordCharge(t)] = booked[RecordCharge(t)]
       /\ capture[t] = "charge" => booked'[Fee(t)] = booked[Fee(t)]
  BY <1>4
<1>11. capture'[t] = IF capture[t] = "fee" /\ fromConsensus THEN "charge" ELSE "ended"
  BY <1>1 DEF ExpensesTypeOK
<1>12. FeeBooked'
  <2> SUFFICES ASSUME NEW u \in Transactions
               PROVE  /\ capture'[u] \in {"none", "fetch", "fee"} => booked'[Fee(u)] = 0
                      /\ capture'[u] \in {"fetch", "fee", "charge"} => Fee(u) \in paid'
                      /\ booked'[Fee(u)] <= 1
                      /\ booked'[Fee(u)] = 1 => Fee(u) \in paid'
    BY DEF FeeBooked, Fee, Item
  <2>1. CASE u # t
    BY <2>1, <1>1, <1>9 DEF FeeBooked
  <2>2. CASE u = t
    BY <2>2, <1>1, <1>3, <1>5, <1>10, <1>11 DEF FeeBooked
  <2> QED BY <2>1, <2>2
<1>13. ChargeBooked'
  <2> SUFFICES ASSUME NEW u \in Transactions
               PROVE  /\ capture'[u] # "ended" => booked'[RecordCharge(u)] = 0
                      /\ capture'[u] = "fee" /\ fromConsensus' => RecordCharge(u) \in paid'
                      /\ capture'[u] = "charge" => RecordCharge(u) \in paid'
                      /\ booked'[RecordCharge(u)] <= 1
                      /\ booked'[RecordCharge(u)] = 1 => RecordCharge(u) \in paid'
    BY DEF ChargeBooked, RecordCharge, Item
  <2>1. CASE u # t
    BY <2>1, <1>1, <1>9 DEF ChargeBooked
  <2>2. CASE u = t
    BY <2>2, <1>1, <1>3, <1>5, <1>10, <1>11 DEF ChargeBooked
  <2> QED BY <2>1, <2>2
<1>14. \A u \in Transactions : booked'[Item(u, "QUERY")] = booked[Item(u, "QUERY")]
  BY <1>4
<1>15. QueryBooked' /\ NoOtherPayment'
  <2>1. \A j \in Jobs : booked'[Payment(j)] = booked[Payment(j)]
    <3> TAKE j \in Jobs
    <3>1. <<j, 1>> \in Transactions /\ Payment(j) = Item(<<j, 1>>, "QUERY")
      OBVIOUS
    <3> QED BY <3>1, <1>14
  <2>2. QueryBooked'
    BY <2>1, <1>1 DEF QueryBooked, Answerable
  <2> QED BY <2>2, <1>14 DEF NoOtherPayment
<1> QED BY <1>6, <1>7, <1>8, <1>12, <1>13, <1>15

(* Every step keeps the invariant.                                         *)
LEMMA ExpensesStep == ExpenseInv /\ [ExpensesNext]_expenseVars => ExpenseInv'
<1> SUFFICES ASSUME ExpenseInv, [ExpensesNext]_expenseVars PROVE ExpenseInv'
  OBVIOUS
<1>1. ASSUME NEW j \in Jobs, JobStep(j) PROVE ExpenseInv'
  BY <1>1, ExecuteAnswersKeeps, ExecuteUnansweredKeeps, ReceiptComesKeeps, AppendChunkKeeps,
     AppendFailsKeeps, QueryAnswersKeeps, QueryFailsKeeps, BookQueryKeeps DEF JobStep
<1>2. ASSUME NEW t \in Transactions, RecordStep(t) PROVE ExpenseInv'
  BY <1>2, ImportKeeps, AskConsensusKeeps, AskMirrorKeeps, BookTransactionKeeps,
     BookingFailsKeeps DEF RecordStep
<1>3. CASE UNCHANGED expenseVars
  BY <1>3 DEF expenseVars, ExpenseInv, ExpensesTypeOK, SentPaid, NotAsked, FeeBooked,
              ChargeBooked, QueryBooked, NoOtherPayment, Answerable, Fee, RecordCharge, Payment,
              Item
<1> QED BY <1>1, <1>2, <1>3 DEF ExpensesNext

(* The invariant says of every item what the property asks.                *)
LEMMA BookedFromInv == ExpenseInv => BookedOnceIfPaid
<1> SUFFICES ASSUME ExpenseInv, NEW i \in Items
             PROVE  /\ booked[i] <= 1
                    /\ booked[i] = 1 => i \in paid \/ i \in {Payment(j) : j \in owing}
  BY DEF BookedOnceIfPaid
<1>1. PICK t \in Transactions : i \in {Fee(t), RecordCharge(t), Item(t, "QUERY")}
  BY DEF Items, Item, Fee, RecordCharge
<1>2. CASE i = Fee(t)
  BY <1>2 DEF ExpenseInv, FeeBooked
<1>3. CASE i = RecordCharge(t)
  BY <1>3 DEF ExpenseInv, ChargeBooked
<1>4. CASE i = Item(t, "QUERY") /\ t[2] # 1
  BY <1>4 DEF ExpenseInv, NoOtherPayment
<1>5. CASE i = Item(t, "QUERY") /\ t[2] = 1
  <2>1. t[1] \in Jobs /\ i = Payment(t[1])
    BY <1>5, ItemsDiffer
  <2> QED BY <2>1 DEF ExpenseInv, QueryBooked, Answerable
<1> QED BY <1>1, <1>2, <1>3, <1>4, <1>5

(* The variables stay in their sets (sdkClient.ts, metricService.ts).      *)
THEOREM ExpensesTyped == ExpensesSpec => []ExpensesTypeOK
<1>1. ExpenseInv => ExpensesTypeOK
  BY DEF ExpenseInv
<1> QED BY <1>1, ExpenseStarts, ExpensesStep, PTL DEF ExpensesSpec

(* No expense is added to a spending plan twice, whatever fails and is     *)
(* tried again, and none that was not paid but for a query that failed     *)
(* after its payment was set (executeQuery, captureTransactionMetrics).    *)
THEOREM BookedOnce == ExpensesSpec => []BookedOnceIfPaid
BY BookedFromInv, ExpenseStarts, ExpensesStep, PTL DEF ExpensesSpec

-----------------------------------------------------------------------------
(***************************************************************************)
(* Expenses: each failure hides a bounded part of the bill.                *)
(***************************************************************************)

(* What is paid for ever and will not be booked.                           *)
Lost == {i \in paid : Settled(i) /\ booked[i] = 0}

(* The most that one failure hides.                                        *)
Reach == IF Chunks > 2 THEN Chunks ELSE 2

(* Who can have run up an item of the bill, and how far they are.          *)
BillItem(i) ==
  LET t == i.of
      j == i.of[1]
  IN
  /\ i.mode = "QUERY" => KindOf[j] = "query" /\ t[2] = 1 /\ job[j] # "execute"
  /\ i.mode = "TRANSACTION" =>
       /\ KindOf[j] # "query"
       /\ KindOf[j] = "transaction" => t[2] = 1 /\ job[j] # "execute"
       /\ KindOf[j] = "appends" /\ job[j] = "execute" => t[2] <= sent[j]
  /\ i.mode = "RECORD" => fromConsensus /\ capture[t] \notin {"none", "fetch"}

(* Records are fetched of transactions, and the fee is booked before them. *)
Fetched ==
  /\ \A j \in Jobs : job[j] = "receipt" => KindOf[j] = "transaction"
  /\ \A t \in Transactions :
       /\ capture[t] # "none" => KindOf[t[1]] # "query"
       /\ capture[t] = "charge" => booked[Fee(t)] = 1

BillOK == Fetched /\ \A i \in paid : BillItem(i)

LossInv == IsFiniteSet(Lost) /\ Cardinality(Lost) <= faults * Reach

LEMMA ItemKinds ==
  ASSUME NEW i \in Items
  PROVE  /\ i.of \in Transactions /\ i.of[1] \in Jobs /\ i.of[2] \in 1..Chunks
         /\ i.of = <<i.of[1], i.of[2]>>
         /\ \/ i.mode = "TRANSACTION" /\ i = Fee(i.of)
            \/ i.mode = "RECORD" /\ i = RecordCharge(i.of)
            \/ i.mode = "QUERY" /\ i = Item(i.of, "QUERY")
<1>1. i.of \in Transactions /\ i.mode \in {"TRANSACTION", "RECORD", "QUERY"} /\ i = Item(i.of, i.mode)
  BY DEF Items, Item
<1> QED BY <1>1, ItemsDiffer DEF Fee, RecordCharge

LEMMA ItemFields ==
  /\ \A t : Fee(t).of = t /\ Fee(t).mode = "TRANSACTION"
  /\ \A t : RecordCharge(t).of = t /\ RecordCharge(t).mode = "RECORD"
  /\ \A j : Payment(j).of = <<j, 1>> /\ Payment(j).mode = "QUERY"
BY DEF Fee, RecordCharge, Payment, Item

LEMMA BillStarts == ExpensesInit => BillOK
BY DEF ExpensesInit, BillOK, Fetched

(* The items of the bill stay in order when only the named part changes.   *)
LEMMA BillStep == ASSUME ExpenseInv, BillOK, [ExpensesNext]_expenseVars PROVE BillOK'
<1>1. /\ ExpensesTypeOK /\ ExpenseInv' /\ ExpensesTypeOK'
      /\ KindOf \in [Jobs -> {"transaction", "appends", "query"}]
  BY ExpensesStep, ExpensesAssumption DEF ExpenseInv
<1>2. \A i \in paid : i \in Items /\ BillItem(i)
  BY <1>1 DEF ExpensesTypeOK, BillOK
<1>3. CASE UNCHANGED expenseVars
  BY <1>3 DEF expenseVars, BillOK, Fetched, BillItem
<1>4. ASSUME NEW j \in Jobs, JobStep(j) PROVE BillOK'
  <2>1. CASE ExecuteAnswers(j)
    <3> USE <2>1 DEF ExecuteAnswers
    <3>1. Fetched'
      BY <1>1 DEF BillOK, Fetched, ExpensesTypeOK
    <3>2. ASSUME NEW i \in paid' PROVE BillItem(i)'
      <4>1. CASE i = Fee(<<j, 1>>)
        BY <1>1, <4>1, ItemFields DEF BillItem, ExpensesTypeOK
      <4>2. CASE i \in paid
        BY <1>1, <1>2, <4>2, ItemKinds DEF BillItem, ExpensesTypeOK
      <4> QED BY <3>2, <4>1, <4>2
    <3> QED BY <3>1, <3>2 DEF BillOK
  <2>2. CASE ExecuteUnanswered(j)
    <3> USE <2>2 DEF ExecuteUnanswered, MayHavePaid
    <3>1. Fetched'
      BY <1>1 DEF BillOK, Fetched, ExpensesTypeOK
    <3>2. ASSUME NEW i \in paid' PROVE BillItem(i)'
      <4>1. CASE i = Fee(<<j, 1>>)
        BY <1>1, <4>1, ItemFields DEF BillItem, ExpensesTypeOK
      <4>2. CASE i \in paid
        BY <1>1, <1>2, <4>2, ItemKinds DEF BillItem, ExpensesTypeOK
      <4> QED BY <3>2, <4>1, <4>2
    <3> QED BY <3>1, <3>2 DEF BillOK
  <2>3. CASE ReceiptComes(j)
    <3>1. /\ job[j] = "receipt" /\ job' = [job EXCEPT ![j] = "done"]
          /\ capture' = [t \in Transactions |-> IF t = <<j, 1>> THEN "fetch" ELSE capture[t]]
          /\ UNCHANGED <<fromConsensus, sent, paid, booked>>
      BY <2>3 DEF ReceiptComes, EmitExecuted, Emit
    <3>2. KindOf[j] = "transaction" /\ \A t \in Transactions : t[1] = j => capture[t] = "none"
      BY <3>1 DEF BillOK, Fetched, ExpenseInv, NotAsked
    <3>3. Fetched'
      BY <1>1, <3>1, <3>2, ItemsDiffer DEF BillOK, Fetched, ExpensesTypeOK
    <3>4. ASSUME NEW i \in paid PROVE BillItem(i)'
      BY <1>1, <1>2, <3>1, <3>2, ItemKinds DEF BillItem, ExpensesTypeOK
    <3> QED BY <3>1, <3>3, <3>4 DEF BillOK
  <2>4. CASE AppendChunk(j)
    <3> DEFINE n == sent[j] + 1
    <3>1. /\ KindOf[j] = "appends" /\ job[j] = "execute"
          /\ sent' = [sent EXCEPT ![j] = n] /\ paid' = paid \union {Fee(<<j, n>>)}
          /\ job' = IF n = Chunks THEN [job EXCEPT ![j] = "done"] ELSE job
          /\ UNCHANGED <<fromConsensus, booked>>
      BY <2>4 DEF AppendChunk
    <3>2. capture' = [t \in Transactions |->
                        IF n = Chunks /\ t \in {<<j, c>> : c \in 1..n} THEN "fetch" ELSE capture[t]]
      <4>1. CASE n = Chunks
        BY <2>4, <4>1 DEF AppendChunk, EmitAppended, Emit
      <4>2. CASE n # Chunks
        BY <1>1, <2>4, <4>2 DEF AppendChunk, EmitAppended, ExpensesTypeOK
      <4> QED BY <4>1, <4>2
    <3>3. \A t \in Transactions : t[1] = j => capture[t] = "none"
      BY <3>1 DEF ExpenseInv, NotAsked
    <3>4. Fetched'
      BY <1>1, <3>1, <3>2, <3>3, ItemsDiffer DEF BillOK, Fetched, ExpensesTypeOK
    <3>5. sent[j] \in Nat /\ n \in Nat
      BY <1>1, Bounds DEF ExpensesTypeOK
    <3>6. ASSUME NEW i \in paid' PROVE BillItem(i)'
      <4>1. CASE i = Fee(<<j, n>>)
        BY <1>1, <3>1, <3>5, <4>1, ItemFields DEF BillItem, ExpensesTypeOK
      <4>2. CASE i \in paid
        <5>1. i.of \in Transactions /\ i.of[1] \in Jobs /\ i.of[2] \in Nat /\ BillItem(i)
          BY <1>2, <4>2, ItemKinds, Bounds
        <5>2. i.of[1] = j => i.mode = "TRANSACTION" /\ i.of[2] <= sent[j]
          BY <1>1, <1>2, <3>1, <3>3, <4>2, <5>1, ItemKinds DEF BillItem
        <5>3. CASE i.of[1] = j
          BY <1>1, <3>1, <3>5, <5>1, <5>2, <5>3 DEF BillItem, ExpensesTypeOK
        <5>4. CASE i.of[1] # j
          <6>1. i.of \notin {<<j, c>> : c \in 1..n}
            BY <5>4
          <6>2. capture'[i.of] = capture[i.of] /\ job'[i.of[1]] = job[i.of[1]]
                /\ sent'[i.of[1]] = sent[i.of[1]] /\ fromConsensus' = fromConsensus
            BY <1>1, <3>1, <3>2, <5>1, <5>4, <6>1 DEF ExpensesTypeOK
          <6> QED BY <5>1, <6>2 DEF BillItem
        <5> QED BY <5>3, <5>4
      <4> QED BY <3>1, <3>6, <4>1, <4>2
    <3> QED BY <3>4, <3>6 DEF BillOK
  <2>5. CASE AppendFails(j)
    <3> USE <2>5 DEF AppendFails, MayHavePaid
    <3>1. Fetched'
      BY <1>1 DEF BillOK, Fetched, ExpensesTypeOK
    <3>2. ASSUME NEW i \in paid' PROVE BillItem(i)'
      <4>1. CASE i = Fee(<<j, sent[j] + 1>>)
        BY <1>1, <4>1, ItemFields DEF BillItem, ExpensesTypeOK
      <4>2. CASE i \in paid
        BY <1>1, <1>2, <4>2, ItemKinds DEF BillItem, ExpensesTypeOK
      <4> QED BY <3>2, <4>1, <4>2
    <3> QED BY <3>1, <3>2 DEF BillOK
  <2>6. CASE QueryAnswers(j) \/ QueryFails(j)
    <3>1. /\ KindOf[j] = "query" /\ job' = [job EXCEPT ![j] = "done"]
          /\ paid' \subseteq paid \union {Payment(j)}
          /\ UNCHANGED <<fromConsensus, sent, capture, booked>>
      BY <2>6 DEF QueryAnswers, QueryFails, MayHavePaid
    <3>2. Fetched'
      BY <1>1, <3>1 DEF BillOK, Fetched, ExpensesTypeOK
    <3>3. ASSUME NEW i \in paid' PROVE BillItem(i)'
      <4>1. CASE i = Payment(j)
        BY <1>1, <3>1, <4>1, ItemFields DEF BillItem, ExpensesTypeOK
      <4>2. CASE i \in paid
        BY <1>1, <1>2, <3>1, <4>2, ItemKinds DEF BillItem, ExpensesTypeOK
      <4> QED BY <3>1, <3>3, <4>1, <4>2
    <3> QED BY <3>2, <3>3 DEF BillOK
  <2>7. CASE BookQuery(j)
    <3>1. /\ UNCHANGED <<fromConsensus, job, sent, capture, paid>>
          /\ Added(Payment(j)) \/ UNCHANGED booked
      BY <2>7 DEF BookQuery
    <3>2. \A t \in Transactions : booked'[Fee(t)] = booked[Fee(t)]
      <4>1. Payment(j) \in Items /\ booked \in [Items -> Nat]
        BY <1>1, ItemsDiffer DEF ExpensesTypeOK
      <4>2. \A t \in Transactions : Fee(t) \in Items /\ Fee(t) # Payment(j)
        BY ItemsDiffer, ItemFields
      <4>3. CASE Added(Payment(j))
        BY <4>1, <4>2, <4>3, AddedOne
      <4> QED BY <3>1, <4>3
    <3> QED BY <3>1, <3>2 DEF BillOK, Fetched, BillItem
  <2> QED BY <1>4, <2>1, <2>2, <2>3, <2>4, <2>5, <2>6, <2>7 DEF JobStep
<1>5. ASSUME NEW t \in Transactions, RecordStep(t) PROVE BillOK'
  <2>1. capture \in [Transactions -> {"none", "fetch", "fee", "charge", "ended"}]
    BY <1>1 DEF ExpensesTypeOK
  <2>2. CASE Import(t)
    BY <2>2 DEF Import, BillOK, Fetched, BillItem
  <2>3. CASE AskConsensus(t) \/ AskMirror(t) \/ BookingFails(t)
    <3>1. PICK s \in {"fee", "ended", "fetch"} :
            /\ capture' = [capture EXCEPT ![t] = s] /\ capture[t] # "none"
            /\ s = "fetch" => capture[t] = "fetch"
            /\ paid' \subseteq paid \union {RecordCharge(t)}
            /\ RecordCharge(t) \in paid' \ paid => fromConsensus /\ s # "fetch"
            /\ UNCHANGED <<fromConsensus, job, sent, booked>>
      <4>1. CASE AskConsensus(t)
        BY <4>1 DEF AskConsensus, GiveUp, MayHavePaid
      <4>2. CASE AskMirror(t)
        <5>1. capture[t] = "fetch" => [capture EXCEPT ![t] = "fetch"] = capture
          BY <2>1
        <5> QED BY <4>2, <5>1 DEF AskMirror, GiveUp
      <4>3. CASE BookingFails(t)
        BY <4>3 DEF BookingFails, GiveUp
      <4> QED BY <2>3, <4>1, <4>2, <4>3
    <3>2. Fetched'
      BY <2>1, <3>1 DEF BillOK, Fetched
    <3>3. ASSUME NEW i \in paid' PROVE BillItem(i)'
      <4>1. CASE i = RecordCharge(t) /\ i \notin paid
        BY <2>1, <3>1, <3>3, <4>1, ItemFields DEF BillItem
      <4>2. CASE i \in paid
        BY <2>1, <1>2, <3>1, <4>2, ItemKinds DEF BillItem
      <4> QED BY <3>1, <3>3, <4>1, <4>2
    <3> QED BY <3>2, <3>3 DEF BillOK
  <2>4. CASE BookTransaction(t)
    <3> DEFINE charge == capture[t] = "fee" /\ fromConsensus
               i == IF capture[t] = "fee" THEN Fee(t) ELSE RecordCharge(t)
    <3>1. /\ capture[t] \in {"fee", "charge"} /\ Added(i)
          /\ capture' = [capture EXCEPT ![t] = IF charge THEN "charge" ELSE "ended"]
          /\ UNCHANGED <<fromConsensus, job, sent, paid>>
      BY <2>4 DEF BookTransaction
    <3>2. i \in Items /\ booked \in [Items -> Nat]
      BY <1>1, ItemsDiffer DEF ExpensesTypeOK
    <3>3. charge => booked'[Fee(t)] = 1
      <4>1. capture[t] = "fee" => booked[Fee(t)] = 0
        BY DEF ExpenseInv, FeeBooked
      <4> QED BY <3>1, <3>2, <4>1, AddedOne
    <3>4. \A u \in Transactions : u # t => booked'[Fee(u)] = booked[Fee(u)]
      BY <3>1, <3>2, AddedOne, ItemsDiffer
    <3>5. Fetched'
      BY <2>1, <3>1, <3>3, <3>4 DEF BillOK, Fetched
    <3>6. \A k \in paid : BillItem(k)'
      BY <2>1, <1>2, <3>1, ItemKinds DEF BillItem
    <3> QED BY <3>1, <3>5, <3>6 DEF BillOK
  <2> QED BY <1>5, <2>2, <2>3, <2>4 DEF RecordStep
<1> QED BY <1>3, <1>4, <1>5 DEF ExpensesNext

(* A failure adds at most its reach to what is lost ...                    *)
LEMMA LossGrows ==
  ASSUME LossInv, NEW N, IsFiniteSet(N), Cardinality(N) <= Reach, Lost' \subseteq Lost \union N,
         faults \in Nat, faults' = faults + 1
  PROVE  LossInv'
<1>1. IsFiniteSet(Lost) /\ Cardinality(Lost) \in Nat /\ Cardinality(Lost) <= faults * Reach
  BY FS_CardinalityType DEF LossInv
<1>2. /\ IsFiniteSet(Lost \union N)
      /\ Cardinality(Lost \union N) = Cardinality(Lost) + Cardinality(N) - Cardinality(Lost \intersect N)
  BY <1>1, FS_Union
<1>3. IsFiniteSet(Lost \intersect N)
  BY <1>1, FS_Intersection
<1>4. Cardinality(Lost \intersect N) \in Nat /\ Cardinality(N) \in Nat
  BY <1>3, FS_CardinalityType
<1>5. IsFiniteSet(Lost') /\ Cardinality(Lost') <= Cardinality(Lost \union N)
  BY <1>2, FS_Subset
<1>6. Reach \in Nat
  BY Bounds DEF Reach
<1>7. (faults + 1) * Reach = faults * Reach + Reach
  BY <1>6
<1>8. Cardinality(Lost') \in Nat
  BY <1>5, FS_CardinalityType
<1> QED BY <1>1, <1>2, <1>4, <1>5, <1>6, <1>7, <1>8 DEF LossInv, Reach

(* ... and no other step adds to it.                                       *)
LEMMA LossStays ==
  ASSUME LossInv, Lost' \subseteq Lost, faults \in Nat, faults' \in {faults, faults + 1}
  PROVE  LossInv'
<1>1. IsFiniteSet(Lost) /\ Cardinality(Lost) \in Nat /\ Cardinality(Lost) <= faults * Reach
  BY FS_CardinalityType DEF LossInv
<1>2. IsFiniteSet(Lost') /\ Cardinality(Lost') <= Cardinality(Lost)
  BY <1>1, FS_Subset
<1>3. Cardinality(Lost') \in Nat
  BY <1>2, FS_CardinalityType
<1>4. Reach \in Nat /\ Reach' = Reach
  BY Bounds DEF Reach
<1>5. (faults + 1) * Reach = faults * Reach + Reach
  BY <1>4
<1>6. CASE faults' = faults
  BY <1>1, <1>2, <1>3, <1>4, <1>6 DEF LossInv
<1>7. CASE faults' = faults + 1
  BY <1>1, <1>2, <1>3, <1>4, <1>5, <1>7 DEF LossInv
<1> QED BY <1>6, <1>7

LEMMA LossStarts == ExpensesInit => LossInv
<1> SUFFICES ASSUME ExpensesInit PROVE LossInv
  OBVIOUS
<1>1. Lost = {} /\ faults = 0 /\ Reach \in Nat
  BY Bounds DEF ExpensesInit, Lost, Reach
<1> QED BY <1>1, FS_EmptySet DEF LossInv

LEMMA OneOrTwo ==
  /\ \A a : IsFiniteSet({a}) /\ Cardinality({a}) <= Reach
  /\ \A a, b : IsFiniteSet({a, b}) /\ Cardinality({a, b}) <= Reach
<1>1. Reach \in Nat /\ Reach >= 2
  BY Bounds DEF Reach
<1>2. \A a : IsFiniteSet({a}) /\ Cardinality({a}) = 1
  BY FS_Singleton
<1>3. ASSUME NEW a, NEW b PROVE IsFiniteSet({a, b}) /\ Cardinality({a, b}) <= 2
  <2> DEFINE S == {a}
             T == S \union {b}
  <2>1. IsFiniteSet(S) /\ Cardinality(S) = 1
    BY <1>2
  <2>2. {a, b} = T
    OBVIOUS
  <2> HIDE DEF S
  <2>3. IsFiniteSet(T) /\ Cardinality(T) = IF b \in S THEN Cardinality(S) ELSE Cardinality(S) + 1
    BY <2>1, FS_AddElement
  <2> HIDE DEF T
  <2>4. IsFiniteSet(T) /\ Cardinality(T) <= 2
    BY <2>1, <2>3
  <2> QED BY <2>2, <2>4
<1>4. ASSUME NEW a PROVE IsFiniteSet({a}) /\ Cardinality({a}) <= Reach
  <2>1. Cardinality({a}) = 1 /\ IsFiniteSet({a})
    BY <1>2
  <2> QED BY <1>1, <2>1
<1>5. ASSUME NEW a, NEW b PROVE IsFiniteSet({a, b}) /\ Cardinality({a, b}) <= Reach
  <2>1. IsFiniteSet({a, b}) /\ Cardinality({a, b}) <= 2
    BY <1>3
  <2>2. Cardinality({a, b}) \in Nat
    BY <2>1, FS_CardinalityType
  <2> QED BY <1>1, <2>1, <2>2
<1> QED BY <1>4, <1>5

(* The chunks of one file.                                                 *)
LEMMA ChunkFees ==
  ASSUME NEW j, NEW n \in 1..Chunks
  PROVE  IsFiniteSet({Fee(<<j, c>>) : c \in 1..n}) /\ Cardinality({Fee(<<j, c>>) : c \in 1..n}) <= Reach
<1>1. IsFiniteSet(1..n) /\ Cardinality(1..n) = n
  BY Bounds, FS_Interval
<1>2. /\ IsFiniteSet({Fee(<<j, c>>) : c \in 1..n})
      /\ Cardinality({Fee(<<j, c>>) : c \in 1..n}) <= Cardinality(1..n)
  <2> DEFINE F == {Fee(<<j, c>>) : c \in 1..n}
             f == [c \in 1..n |-> Fee(<<j, c>>)]
  <2>1. f \in Surjection(1..n, F)
    BY DEF Surjection
  <2> HIDE DEF F, f
  <2>2. IsFiniteSet(F) /\ Cardinality(F) <= Cardinality(1..n)
    BY <1>1, <2>1, FS_Surjection
  <2> QED BY <2>2 DEF F
<1>3. Cardinality({Fee(<<j, c>>) : c \in 1..n}) \in Nat
  BY <1>2, FS_CardinalityType
<1> QED BY <1>1, <1>2, <1>3, Bounds DEF Reach

LEMMA LossStep == ASSUME ExpenseInv, BillOK, LossInv, [ExpensesNext]_expenseVars PROVE LossInv'
<1>1. /\ ExpensesTypeOK /\ ExpensesTypeOK' /\ ExpenseInv' /\ BillOK'
      /\ KindOf \in [Jobs -> {"transaction", "appends", "query"}]
  BY ExpensesStep, BillStep, ExpensesAssumption DEF ExpenseInv
<1>2. /\ \A i \in paid : i \in Items /\ BillItem(i)
      /\ \A i \in paid' : i \in Items /\ BillItem(i)'
      /\ faults \in Nat
      /\ job \in [Jobs -> {"execute", "receipt", "done"}]
      /\ capture \in [Transactions -> {"none", "fetch", "fee", "charge", "ended"}]
      /\ booked \in [Items -> Nat]
  BY <1>1 DEF ExpensesTypeOK, BillOK
<1> DEFINE LostThen(i) == i \in paid' /\ Settled(i)' /\ booked'[i] = 0
<1>3. /\ \A i \in Lost' : LostThen(i) /\ i \in Items
      /\ \A i : i \in paid /\ Settled(i) /\ booked[i] = 0 => i \in Lost
  BY <1>2 DEF Lost
<1>4. CASE UNCHANGED expenseVars
  BY <1>2, <1>4, LossStays DEF expenseVars, Lost, Settled
<1>5. ASSUME NEW j \in Jobs, JobStep(j) PROVE LossInv'
  <2>1. CASE ExecuteAnswers(j)
    <3>1. /\ job' = [job EXCEPT ![j] = "receipt"] /\ paid' = paid \union {Fee(<<j, 1>>)}
          /\ UNCHANGED <<capture, queued, booked, faults>>
      BY <2>1 DEF ExecuteAnswers
    <3>2. ASSUME NEW i \in Lost' PROVE i \in Lost
      <4>1. job'[i.of[1]] = "done" /\ i.of[1] \in Jobs
        BY <1>3, ItemKinds DEF Settled
      <4>2. i.of[1] # j /\ job[i.of[1]] = "done"
        BY <1>2, <3>1, <4>1
      <4>3. i \in paid
        BY <1>3, <3>1, <4>2, ItemFields
      <4> QED BY <1>3, <3>1, <4>2, <4>3 DEF Settled
    <3> QED BY <1>2, <3>1, <3>2, LossStays
  <2>2. CASE ExecuteUnanswered(j) \/ AppendFails(j)
    <3> DEFINE n == IF KindOf[j] = "transaction" THEN 1 ELSE sent[j] + 1
               N == {Fee(<<j, c>>) : c \in 1..n}
    <3>1. /\ job[j] = "execute" /\ job' = [job EXCEPT ![j] = "done"] /\ KindOf[j] \in {"transaction", "appends"}
          /\ paid' \subseteq paid \union {Fee(<<j, n>>)} /\ faults' = faults + 1
          /\ UNCHANGED <<capture, queued, booked>>
      BY <2>2 DEF ExecuteUnanswered, AppendFails, Fault, MayHavePaid
    <3>2. n \in 1..Chunks
      <4>1. CASE KindOf[j] = "transaction"
        BY <4>1, Bounds
      <4>2. CASE KindOf[j] # "transaction"
        <5>1. sent[j] \in 0..Chunks /\ sent[j] < Chunks
          BY <1>1, <3>1, <4>2 DEF ExpenseInv, SentPaid, ExpensesTypeOK
        <5> QED BY <4>2, <5>1, Bounds
      <4> QED BY <4>1, <4>2
    <3>3. ASSUME NEW i \in Lost' PROVE i \in Lost \union N
      <4>1. i \in Items /\ LostThen(i) /\ i.of \in Transactions /\ i.of[1] \in Jobs
        BY <1>3, ItemKinds
      <4>2. CASE i.of[1] # j
        BY <1>2, <1>3, <3>1, <4>1, <4>2, ItemFields DEF Settled
      <4>3. CASE i.of[1] = j /\ i \in paid
        <5>1. BillItem(i) /\ capture[i.of] = "none"
          BY <1>2, <3>1, <4>1, <4>3 DEF ExpenseInv, NotAsked
        <5>2. i.mode = "TRANSACTION" /\ i = Fee(i.of)
          BY <3>1, <4>1, <4>3, <5>1, ItemKinds DEF BillItem
        <5>3. KindOf[j] = "appends" /\ i.of[2] <= sent[j] /\ i.of[2] \in 1..Chunks
          BY <3>1, <4>1, <4>3, <5>1, <5>2, ItemKinds DEF BillItem
        <5>4. i.of[2] \in 1..n /\ i.of = <<j, i.of[2]>>
          BY <1>1, <3>2, <4>1, <4>3, <5>3, ItemKinds, Bounds DEF ExpensesTypeOK
        <5> QED BY <5>2, <5>4
      <4>4. CASE i = Fee(<<j, n>>)
        BY <3>2, <4>4
      <4> QED BY <3>1, <4>1, <4>2, <4>3, <4>4
    <3>4. IsFiniteSet(N) /\ Cardinality(N) <= Reach
      BY <3>2, ChunkFees
    <3> HIDE DEF N
    <3> QED BY <1>2, <3>1, <3>3, <3>4, LossGrows
  <2>3. CASE ReceiptComes(j)
    <3>1. /\ job[j] = "receipt" /\ job' = [job EXCEPT ![j] = "done"]
          /\ capture' = [t \in Transactions |-> IF t = <<j, 1>> THEN "fetch" ELSE capture[t]]
          /\ UNCHANGED <<paid, queued, booked, faults>>
      BY <2>3 DEF ReceiptComes, EmitExecuted, Emit
    <3>2. ASSUME NEW i \in Lost' PROVE i \in Lost
      <4>1. i \in paid /\ i \in Items /\ BillItem(i) /\ LostThen(i) /\ i.of \in Transactions /\ i.of[1] \in Jobs
        BY <1>2, <1>3, <3>1, ItemKinds
      <4>2. i.of # <<j, 1>>
        BY <3>1, <4>1 DEF Settled
      <4>3. i.of[1] # j
        <5> SUFFICES ASSUME i.of[1] = j PROVE FALSE
          OBVIOUS
        <5>1. KindOf[j] = "transaction" /\ capture[i.of] = "none"
          BY <3>1, <4>1 DEF BillOK, Fetched, ExpenseInv, NotAsked
        <5>2. i.of[2] = 1
          BY <4>1, <5>1, ItemKinds DEF BillItem
        <5> QED BY <4>1, <4>2, <5>2, ItemKinds
      <4> QED BY <1>2, <1>3, <3>1, <4>1, <4>2, <4>3 DEF Settled
    <3> QED BY <1>2, <3>1, <3>2, LossStays
  <2>4. CASE AppendChunk(j)
    <3> DEFINE n == sent[j] + 1
    <3>1. /\ KindOf[j] = "appends" /\ job[j] = "execute" /\ paid' = paid \union {Fee(<<j, n>>)}
          /\ job' = IF n = Chunks THEN [job EXCEPT ![j] = "done"] ELSE job
          /\ UNCHANGED <<queued, booked, faults>>
          /\ sent[j] \in Nat
      BY <1>1, <2>4, Bounds DEF AppendChunk, ExpensesTypeOK
    <3>2. IF n = Chunks
          THEN capture' = [t \in Transactions |-> IF t \in {<<j, c>> : c \in 1..n} THEN "fetch" ELSE capture[t]]
          ELSE capture' = capture
      BY <2>4 DEF AppendChunk, EmitAppended, Emit
    <3>3. ASSUME NEW i \in Lost' PROVE i \in Lost
      <4>1. i \in paid' /\ i \in Items /\ LostThen(i) /\ i.of \in Transactions /\ i.of[1] \in Jobs
            /\ i.of[2] \in 1..Chunks /\ i.of = <<i.of[1], i.of[2]>>
        BY <1>3, ItemKinds
      <4>2. i.of[1] # j
        <5> SUFFICES ASSUME i.of[1] = j PROVE FALSE
          OBVIOUS
        <5>1. job'[j] = "done"
          BY <4>1 DEF Settled
        <5>2. n = Chunks
          BY <1>2, <3>1, <5>1
        <5>3. capture'[i.of] = "fetch"
          BY <3>2, <4>1, <5>2
        <5> QED BY <4>1, <5>3 DEF Settled
      <4>3. i \in paid
        BY <3>1, <4>1, <4>2, ItemFields
      <4>4. job'[i.of[1]] = job[i.of[1]]
        BY <1>2, <3>1, <4>1, <4>2
      <4>5. capture'[i.of] = capture[i.of]
        <5>1. i.of \notin {<<j, c>> : c \in 1..n}
          BY <4>2
        <5> QED BY <3>2, <4>1, <5>1
      <4> QED BY <1>3, <3>1, <4>1, <4>3, <4>4, <4>5 DEF Settled
    <3> QED BY <1>2, <3>1, <3>3, LossStays
  <2>5. CASE QueryAnswers(j) \/ QueryFails(j)
    <3>1. /\ KindOf[j] = "query" /\ job[j] = "execute" /\ job' = [job EXCEPT ![j] = "done"]
          /\ paid' \subseteq paid \union {Payment(j)}
          /\ queued' \in {queued, queued \union {j}}
          /\ Payment(j) \in paid' => Payment(j) \in paid \/ j \in queued'
          /\ UNCHANGED <<capture, booked>> /\ faults' \in {faults, faults + 1}
      BY <2>5 DEF QueryAnswers, QueryFails, MayHavePaid, Fault
    <3>2. ASSUME NEW i \in Lost' PROVE i \in Lost
      <4>1. i \in paid' /\ i \in Items /\ LostThen(i) /\ i.of \in Transactions /\ i.of[1] \in Jobs
        BY <1>3, ItemKinds
      <4>2. i.of[1] # j
        <5> SUFFICES ASSUME i.of[1] = j PROVE FALSE
          OBVIOUS
        <5>1. capture[i.of] = "none"
          BY <3>1, <4>1 DEF ExpenseInv, NotAsked
        <5>2. i \in paid => BillItem(i)
          BY <1>2
        <5>3. i \notin paid
          BY <3>1, <4>1, <5>1, <5>2, ItemKinds DEF BillItem
        <5>4. i = Payment(j) /\ j \in queued'
          BY <3>1, <4>1, <5>3
        <5> QED BY <4>1, <5>4, ItemFields DEF Settled
      <4>3. i \in paid
        BY <3>1, <4>1, <4>2, ItemFields
      <4> QED BY <1>2, <1>3, <3>1, <4>1, <4>2, <4>3 DEF Settled
    <3> QED BY <1>2, <3>1, <3>2, LossStays
  <2>6. CASE BookQuery(j)
    <3>1. /\ queued' = queued \ {j} /\ UNCHANGED <<job, capture, paid>>
          /\ \/ Added(Payment(j)) /\ faults' = faults
             \/ faults' = faults + 1 /\ booked' = booked
      BY <2>6 DEF BookQuery, Fault
    <3>2. ASSUME NEW i \in Lost', i # Payment(j) PROVE i \in Lost
      <4>1. i \in paid /\ i \in Items /\ LostThen(i) /\ BillItem(i)
        BY <1>2, <1>3, <3>1
      <4>2. i.mode = "QUERY" => i.of[1] # j
        <5>1. i.mode = "QUERY" => i.of = <<i.of[1], 1>> /\ i = Item(i.of, "QUERY")
          BY <4>1, ItemKinds DEF BillItem
        <5> QED BY <3>2, <5>1 DEF Payment
      <4>3. booked'[i] = booked[i]
        BY <1>2, <3>1, <3>2, <4>1, AddedOne, ItemsDiffer, ZenonT(40)
      <4> QED BY <1>3, <3>1, <4>1, <4>2, <4>3 DEF Settled
    <3>3. CASE Added(Payment(j)) /\ faults' = faults
      <4>1. booked'[Payment(j)] = booked[Payment(j)] + 1 /\ booked[Payment(j)] \in Nat
        BY <1>2, <3>3, AddedOne, ItemsDiffer
      <4>2. Payment(j) \notin Lost'
        BY <1>3, <4>1
      <4> QED BY <1>2, <3>2, <3>3, <4>2, LossStays
    <3>4. CASE faults' = faults + 1
      <4>1. Lost' \subseteq Lost \union {Payment(j)}
        BY <3>2
      <4> QED BY <1>2, <3>4, <4>1, LossGrows, OneOrTwo
    <3> QED BY <3>1, <3>3, <3>4
  <2> QED BY <1>5, <2>1, <2>2, <2>3, <2>4, <2>5, <2>6 DEF JobStep
<1>6. ASSUME NEW t \in Transactions, RecordStep(t) PROVE LossInv'
  <2>1. CASE Import(t)
    <3>1. Lost' \subseteq Lost /\ faults' = faults
      BY <2>1 DEF Import, Lost, Settled
    <3> QED BY <1>2, <3>1, LossStays
  <2>a. ASSUME UNCHANGED <<job, queued, booked>>, NEW s, capture' = [capture EXCEPT ![t] = s],
               paid' \subseteq paid \union {RecordCharge(t)}, capture[t] \notin {"none"},
               NEW i \in Lost'
        PROVE  \/ i \in Lost
               \/ s \in {"none", "ended"} /\ i \in {Fee(t), RecordCharge(t)}
    <3>1. i \in paid' /\ i \in Items /\ LostThen(i) /\ BillItem(i)' /\ i.of \in Transactions
      BY <1>2, <1>3, ItemKinds
    <3>2. CASE i.of # t
      <4>1. i \in paid /\ capture'[i.of] = capture[i.of]
        BY <1>2, <2>a, <3>1, <3>2, ItemFields
      <4> QED BY <1>3, <2>a, <3>1, <4>1 DEF Settled
    <3>3. CASE i.of = t
      <4>1. capture'[t] = s
        BY <1>2, <2>a
      <4>2. s \in {"none", "ended"}
        BY <3>1, <3>3, <4>1 DEF Settled
      <4>3. KindOf[t[1]] # "query"
        BY <2>a DEF BillOK, Fetched
      <4> QED BY <3>1, <3>3, <4>2, <4>3, ItemKinds DEF BillItem
    <3> QED BY <3>2, <3>3
  <2>2. CASE AskConsensus(t) \/ AskMirror(t) \/ BookingFails(t)
    <3>1. PICK s \in {"fee", "ended", "fetch"} :
            /\ capture' = [capture EXCEPT ![t] = s] /\ capture[t] # "none"
            /\ paid' \subseteq paid \union {RecordCharge(t)}
            /\ IF s = "ended" THEN faults' = faults + 1 ELSE faults' = faults
            /\ UNCHANGED <<job, queued, booked>>
      <4>1. CASE AskConsensus(t)
        BY <4>1 DEF AskConsensus, GiveUp, MayHavePaid, Fault
      <4>2. CASE AskMirror(t)
        <5>1. capture[t] = "fetch" => [capture EXCEPT ![t] = "fetch"] = capture
          BY <1>2
        <5> QED BY <4>2, <5>1 DEF AskMirror, GiveUp, Fault
      <4>3. CASE BookingFails(t)
        BY <4>3 DEF BookingFails, GiveUp, Fault
      <4> QED BY <2>2, <4>1, <4>2, <4>3
    <3>2. \A i \in Lost' : i \in Lost \/ (s = "ended" /\ i \in {Fee(t), RecordCharge(t)})
      BY <2>a, <3>1
    <3>3. CASE s = "ended"
      <4>1. Lost' \subseteq Lost \union {Fee(t), RecordCharge(t)}
        BY <3>2
      <4> QED BY <1>2, <3>1, <3>3, <4>1, LossGrows, OneOrTwo
    <3>4. CASE s # "ended"
      BY <1>2, <3>1, <3>2, <3>4, LossStays
    <3> QED BY <3>3, <3>4
  <2>3. CASE BookTransaction(t)
    <3> DEFINE charge == capture[t] = "fee" /\ fromConsensus
               s == IF charge THEN "charge" ELSE "ended"
               k == IF capture[t] = "fee" THEN Fee(t) ELSE RecordCharge(t)
    <3>1. /\ capture[t] \in {"fee", "charge"} /\ Added(k) /\ capture' = [capture EXCEPT ![t] = s]
          /\ UNCHANGED <<fromConsensus, job, queued, paid, faults>>
      BY <2>3 DEF BookTransaction
    <3>2. k \in Items
      BY ItemsDiffer
    <3>3. booked'[k] = booked[k] + 1 /\ \A i \in Items : i # k => booked'[i] = booked[i]
      BY <1>2, <3>1, <3>2, AddedOne
    <3>4. ASSUME NEW i \in Lost' PROVE i \in Lost
      <4>1. i \in paid /\ i \in Items /\ LostThen(i) /\ BillItem(i) /\ i.of \in Transactions
        BY <1>2, <1>3, <3>1, ItemKinds
      <4>2. i # k
        BY <1>2, <3>2, <3>3, <4>1
      <4>3. CASE i.of # t
        BY <1>2, <1>3, <3>1, <3>3, <4>1, <4>2, <4>3 DEF Settled
      <4>4. CASE i.of = t
        <5>1. capture'[t] = s /\ s = "ended"
          BY <1>2, <3>1, <4>1, <4>4 DEF Settled
        <5>2. KindOf[t[1]] # "query" /\ (capture[t] = "charge" => booked[Fee(t)] = 1)
          BY <3>1 DEF BillOK, Fetched
        <5>3. i \in {Fee(t), RecordCharge(t)}
          BY <4>1, <4>4, <5>2, ItemKinds DEF BillItem
        <5>4. CASE capture[t] = "fee"
          <6>1. ~fromConsensus /\ i = RecordCharge(t)
            BY <4>2, <5>1, <5>3, <5>4
          <6> QED BY <4>1, <6>1, ItemFields DEF BillItem
        <5>5. CASE capture[t] = "charge"
          <6>1. i = Fee(t) /\ booked'[i] = booked[i]
            BY <3>3, <4>1, <4>2, <5>3, <5>5
          <6> QED BY <4>1, <5>2, <5>5, <6>1
        <5> QED BY <3>1, <5>4, <5>5
      <4> QED BY <4>3, <4>4
    <3> QED BY <1>2, <3>1, <3>4, LossStays
  <2> QED BY <1>6, <2>1, <2>2, <2>3 DEF RecordStep
<1> QED BY <1>4, <1>5, <1>6 DEF ExpensesNext

(* What is paid and never booked is at most what the failures so far can   *)
(* hide: for each the append transactions of one file, or a fee with the   *)
(* charge for its record; without a failure everything paid is booked      *)
(* (captureTransactionMetrics, executeAllTransaction).  It holds for any   *)
(* number of uses, without them being finite.                              *)
THEOREM LossIsBounded == ExpensesSpec => []LossBounded
<1>1. LossInv => LossBounded
  BY DEF LossInv, LossBounded, Lost, Reach
<1>2. ExpensesInit => ExpenseInv /\ BillOK /\ LossInv
  BY ExpenseStarts, BillStarts, LossStarts
<1>3. ExpenseInv /\ BillOK /\ LossInv /\ [ExpensesNext]_expenseVars => (ExpenseInv /\ BillOK /\ LossInv)'
  BY ExpensesStep, BillStep, LossStep
<1> QED BY <1>1, <1>2, <1>3, PTL DEF ExpensesSpec
=============================================================================
