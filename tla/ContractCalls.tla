---------------------------- MODULE ContractCalls ----------------------------
(***************************************************************************)
(* eth_call: the checks of the parameters, the route to the mirror node or *)
(* to a consensus node, the cached answers of consensus nodes, the query   *)
(* with its two retry loops (time-outs, and fees that were too low), and   *)
(* what becomes of the errors.                                             *)
(***************************************************************************)
EXTENDS HapiPool

CONSTANTS
  Callers,       \* requests being processed at the same time
  CallParams,    \* the calls; key: what identifies the call in the cache
  TimeoutRetries,\* CONTRACT_QUERY_TIMEOUT_RETRIES
  FeeRetries,    \* increases of the query payment, 3 in the code
  CallTtl,       \* ETH_CALL_CACHE_TTL
  MaxCalls       \* bound on the calls received

Addresses == {"valid", "invalid", "none"}
CallKeys == {p.key : p \in CallParams}

ASSUME CallConstants ==
  /\ CallParams \subseteq [to : Addresses, from : Addresses, byHash : BOOLEAN,
                           consensus : BOOLEAN, key : CallKeys]
  /\ TimeoutRetries \in Nat \ {0}  \* with none, no query is ever sent
  /\ FeeRetries \in Nat
  /\ CallTtl \in Nat
  /\ MaxCalls \in Nat

VARIABLES
  call,       \* the requests
  callCache,  \* callCache[k]: when the cached answer expires
  calls       \* calls received

callVars == <<call, callCache, calls>>
ccVars == <<poolVars, callVars>>

NoParams == [to |-> "none", from |-> "none", byHash |-> FALSE, consensus |-> FALSE,
             key |-> CHOOSE k \in CallKeys : TRUE]
IdleCall == [pc |-> "idle", params |-> NoParams, client |-> 0, tries |-> 0, fee |-> 0,
             answer |-> "none"]

CallAnswers == {"none", "result", "empty", "revert", "invalid address", "no such account",
            "no such block", "internal error", "request timeout", "mirror node error"}
CallStates == {"idle", "block", "price", "mirror", "lookup", "cost", "pay", "done"}

CallTypeOK ==
  /\ PoolTypeOK
  /\ call \in [Callers -> [pc : CallStates, params : CallParams \cup {NoParams}, client : Nat,
                           tries : 0..TimeoutRetries, fee : 0..FeeRetries,
                           answer : CallAnswers]]
  /\ callCache \in [CallKeys -> 0 .. MaxPoolTime + CallTtl]
  /\ calls \in 0..MaxCalls

CallInit ==
  /\ PoolInit
  /\ call = [q \in Callers |-> IdleCall]
  /\ callCache = [k \in CallKeys |-> 0]
  /\ calls = 0

-----------------------------------------------------------------------------
(* The steps of a request                                                  *)

Move(q, pc) == call' = [call EXCEPT ![q].pc = pc]
ReplyTo(q, answer) == call' = [call EXCEPT ![q] = [IdleCall EXCEPT !.pc = "done", !.answer = answer]]
NoQuery == UNCHANGED <<callCache, calls>>

RouteOf(p) == IF p.consensus THEN "lookup" ELSE "mirror"

eth_call(q, p) ==
  /\ call[q].pc = "idle"
  /\ calls < MaxCalls
  /\ calls' = calls + 1
  /\ call' = [call EXCEPT ![q] =
       [IdleCall EXCEPT !.params = p,
                        !.pc = IF p.to = "invalid" THEN "done"
                               ELSE IF p.byHash THEN "block" ELSE "price",
                        !.answer = IF p.to = "invalid" THEN "invalid address" ELSE "none"]]
  /\ UNCHANGED <<poolVars, callCache>>

\* extractBlockNumberOrTag: a hash is looked up
ExtractBlock(q) ==
  /\ call[q].pc = "block"
  /\ \/ Move(q, "price")
     \/ ReplyTo(q, "no such block")
     \/ ReplyTo(q, "mirror node error")
  /\ NoQuery /\ UNCHANGED poolVars

\* contractCallFormat: the gas price, and the sender if value is sent without one
contractCallFormat(q) ==
  /\ call[q].pc = "price"
  /\ \/ Move(q, RouteOf(call[q].params))
     \/ ReplyTo(q, "internal error")
     \/ ReplyTo(q, "mirror node error")
  /\ NoQuery /\ UNCHANGED poolVars

\* what the mirror node says of a call, and what the caller is told
MirrorReplies == {"result", "empty", "revert", "mirror node error", "internal error"}

callMirrorNode(q) ==
  /\ call[q].pc = "mirror"
  /\ \E answer \in MirrorReplies : ReplyTo(q, answer)
  /\ NoQuery /\ UNCHANGED poolVars

KeyOf(q) == call[q].params.key
Cached(k) == callCache[k] > clock

\* validateAddresses, then the cache, then the client of this call
callConsensusNode(q) ==
  LET p == call[q].params IN
  /\ call[q].pc = "lookup"
  /\ \/ /\ p.from = "invalid"
        /\ ReplyTo(q, "no such account")
        /\ UNCHANGED poolVars
     \/ /\ p.from # "invalid" /\ p.to # "valid"
        /\ ReplyTo(q, "invalid address")
        /\ UNCHANGED poolVars
     \/ /\ p.from # "invalid" /\ p.to = "valid" /\ Cached(KeyOf(q))
        /\ ReplyTo(q, "result") /\ UNCHANGED poolVars
     \/ /\ p.from # "invalid" /\ p.to = "valid" /\ ~Cached(KeyOf(q))
        /\ getSDKClient
        /\ call' = [call EXCEPT ![q].pc = "cost", ![q].client = Handed]
  /\ NoQuery

-----------------------------------------------------------------------------
(* executeQuery, and the two loops around it                               *)

\* mutant: the caller is not told of the end of the retries
RetryForever(q) ==
  call' = [call EXCEPT ![q].pc = "cost", ![q].tries = 0]

\* mutant: one retry too many
TimedOutOnceMore(q) ==
  call' = [call EXCEPT ![q].tries = @ + 1,
                       ![q].pc = IF call[q].tries < TimeoutRetries THEN "cost" ELSE "done",
                       ![q].answer = IF call[q].tries < TimeoutRetries THEN "none" ELSE "internal error"]

\* submitContractCallQueryWithRetry: a time-out is retried; in the end there is no response
TimedOut(q) ==
  call' = [call EXCEPT ![q].tries = @ + 1,
                       ![q].fee = 0,
                       ![q].pc = IF call[q].tries + 1 < TimeoutRetries THEN "cost" ELSE "done",
                       ![q].answer = IF call[q].tries + 1 < TimeoutRetries THEN "none"
                                                                          ELSE "internal error"]

\* handleConsensusNodeError
Failed(q, code) ==
  /\ ReplyTo(q, "internal error")
  /\ ReportError(code, call[q].client)

\* getCost: nothing is paid or booked yet
getCost(q) ==
  /\ call[q].pc = "cost"
  /\ \/ Move(q, "pay") /\ UNCHANGED poolVars
     \/ TimedOut(q) /\ UNCHANGED poolVars
     \/ ReplyTo(q, "request timeout") /\ UNCHANGED poolVars
     \/ \E code \in Codes : Failed(q, code)
  /\ NoQuery

\* cacheResponse: the key has neither the block nor gas nor value
Succeeds(q) ==
  /\ ReplyTo(q, "result")
  /\ callCache' = [callCache EXCEPT ![KeyOf(q)] = clock + CallTtl]
  /\ UNCHANGED poolVars

\* increaseCostAndRetryExecution
FeeTooLow(q) ==
  /\ call[q].fee < FeeRetries
  /\ call' = [call EXCEPT ![q].fee = @ + 1]
  /\ UNCHANGED <<poolVars, callCache>>

Fails(q) ==
  /\ UNCHANGED callCache
  /\ \/ TimedOut(q) /\ UNCHANGED poolVars
     \/ ReplyTo(q, "revert") /\ UNCHANGED poolVars
     \/ ReplyTo(q, "request timeout") /\ UNCHANGED poolVars
     \/ \E code \in Codes : Failed(q, code)

executeQuery(q) ==
  /\ call[q].pc = "pay"
  /\ \/ Succeeds(q)
     \/ FeeTooLow(q)
     \/ Fails(q)
  /\ UNCHANGED calls

CallStep(q) ==
  \/ ExtractBlock(q)
  \/ contractCallFormat(q)
  \/ callMirrorNode(q)
  \/ callConsensusNode(q)
  \/ getCost(q)
  \/ executeQuery(q)

\* the caller sends its next request
NextCall(q) ==
  /\ call[q].pc = "done"
  /\ call' = [call EXCEPT ![q] = IdleCall]
  /\ NoQuery /\ UNCHANGED poolVars

CallNext ==
  \/ ClockTicks /\ UNCHANGED callVars
  \/ \E q \in Callers : NextCall(q) \/ CallStep(q) \/ \E p \in CallParams : eth_call(q, p)

\* every awaited answer comes, or its time-out does
CallFairness == \A q \in Callers : WF_ccVars(CallStep(q))

CallSpec == CallInit /\ [][CallNext]_ccVars /\ CallFairness

-----------------------------------------------------------------------------
(* Correctness                                                             *)

\* Both retry loops end: every eth_call is answered.
CallsEnd == \A q \in Callers : call[q].pc # "idle" ~> call[q].pc = "done"
=============================================================================
