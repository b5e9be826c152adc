---------------------------- MODULE ReadsProofs -----------------------------
(***************************************************************************)
(* Proofs about the methods that read the mirror node while it imports     *)
(* what consensus decided: traces, blocks, fee histories, what an address  *)
(* is taken for, and the balances and nonces of an account.                *)
(***************************************************************************)
EXTENDS AccountReads, Entities, BlockReads, FeeHistory, Tracing, FiniteSetTheorems,
        WellFoundedInduction, TLAPS

(***************************************************************************)
(* Traces: what the parallel look-ups of a trace know, for any blocks,     *)
(* actions and moments at which the mirror node writes them.               *)
(***************************************************************************)

(* What the facts below are relative to; it only grows.                    *)
World == [early |-> tooEarly, lost |-> unresolved, txs |-> blockTxs \ wrongNonce]
Grows(h, k) == h.early \subseteq k.early /\ h.lost \subseteq k.lost /\ h.txs = k.txs

Work == [at : {"none", "cache", "reading", "entities", "done", "failed"},
         actions : {"unread", "some", "none"}, result : {"unread", "found", "null"},
         left : SUBSET Addresses, touched : SUBSET Addresses]
TraceRequests == [pc : {"idle", "block", "results", "opcodes", "txs", "done"},
                  param : TraceParams, answer : TraceAnswers, work : [TracedTxs -> Work]]

TxsOf(h, p) == IF p.op = "block" THEN h.txs ELSE {p.tx}

(* Only failed look-ups are missing, or the actions were not written yet.  *)
StatesFine(h, t, top, S) ==
  /\ S \subseteq Involved(t, top)
  /\ (\A a \in Involved(t, top) \ S : <<t, a>> \in h.lost) \/ (S = {} /\ t \in h.early)

WorkFine(h, p, t, w) ==
  /\ w.at # "none" => t \in TxsOf(h, p) /\ p.tracer \in {"call", "prestate"}
  /\ w.actions = "none" => t \in h.early
  /\ w.at \in {"cache", "reading"} => w.touched = {}
  /\ w.at \in {"cache", "entities"} => p.tracer = "prestate"
  /\ w.at = "done" /\ p.tracer = "call" => w.actions = "none" \/ w.touched = Involved(t, p.top)
  /\ w.at = "done" /\ p.tracer = "prestate" => StatesFine(h, t, p.top, w.touched)
  /\ w.at = "entities" =>
       /\ w.left \cup w.touched \subseteq Involved(t, p.top)
       /\ \A a \in Involved(t, p.top) \ (w.left \cup w.touched) : <<t, a>> \in h.lost

AnswerFine(h, p, answer) ==
  answer.kind = "traces" =>
    /\ p.tracer = "call" => \A t \in TracedTxs :
         /\ (answer.txs[t] = Absent) = (t \notin TxsOf(h, p))
         /\ answer.txs[t].kind = "calls" => answer.txs[t].touched = Involved(t, p.top)
         /\ answer.txs[t].kind = "null" => t \in h.early
    /\ p.tracer = "prestate" => \A t \in TxsOf(h, p) :
         StatesFine(h, t, p.top, answer.txs[t].touched)

RequestFine(h, r) ==
  /\ r.pc \in {"block", "results"} => r.param.op = "block"
  /\ r.pc = "txs" => \A t \in TxsOf(h, r.param) : r.work[t].at \notin {"none", "failed"}
  /\ \A t \in TracedTxs : WorkFine(h, r.param, t, r.work[t])
  /\ AnswerFine(h, r.param, r.answer)

CachedTraceFine(h, p, answer) == answer.kind # "error" /\ AnswerFine(h, p, answer)
CachedStatesFine(h, t, top, S) == S = NoStates \/ StatesFine(h, t, top, S)

TracingTypes ==
  /\ debugApi \in BOOLEAN /\ opcodeLogger \in BOOLEAN
  /\ blockTxs \subseteq TracedTxs
  /\ wrongNonce \subseteq blockTxs /\ mature \subseteq blockTxs /\ acted \subseteq blockTxs
  /\ traceCache \in [TraceParams -> TraceAnswers]
  /\ stateCache \in [TracedTxs \X BOOLEAN -> (SUBSET Addresses) \cup {NoStates}]
  /\ traces \in 0..MaxTraces
  /\ tooEarly \subseteq TracedTxs
  /\ unresolved \subseteq TracedTxs \X Addresses

TracingInv ==
  /\ TracingTypes
  /\ tracing \in [Tracers -> TraceRequests]
  /\ \A q \in Tracers : RequestFine(World, tracing[q])
  /\ \A p \in TraceParams : CachedTraceFine(World, p, traceCache[p])
  /\ \A t \in TracedTxs, top \in BOOLEAN : CachedStatesFine(World, t, top, stateCache[<<t, top>>])

-----------------------------------------------------------------------------

LEMMA TouchedAreAddresses ==
  ASSUME NEW t \in TracedTxs, NEW top PROVE Involved(t, top) \subseteq Addresses
<1>1. TopTouches[t] \subseteq Touches[t] /\ Touches[t] \subseteq Addresses
  BY TracingConstants DEF Addresses
<1> QED BY <1>1 DEF Involved

LEMMA ParamsTyped ==
  ASSUME NEW p \in TraceParams
  PROVE  /\ p.op \in {"block", "tx"} /\ p.tx \in TracedTxs /\ p.top \in BOOLEAN
         /\ p.tracer \in {"call", "prestate", "opcode"}
BY TracingConstants

(* Facts survive more tooEarly and unresolved.                             *)
LEMMA FineGrows ==
  ASSUME NEW h, NEW k, Grows(h, k)
  PROVE  /\ \A p : TxsOf(k, p) = TxsOf(h, p)
         /\ \A t, top, S : StatesFine(h, t, top, S) => StatesFine(k, t, top, S)
         /\ \A p, t, w : WorkFine(h, p, t, w) => WorkFine(k, p, t, w)
         /\ \A p, answer : AnswerFine(h, p, answer) => AnswerFine(k, p, answer)
         /\ \A r : RequestFine(h, r) => RequestFine(k, r)
         /\ \A p, answer : CachedTraceFine(h, p, answer) => CachedTraceFine(k, p, answer)
         /\ \A t, top, S : CachedStatesFine(h, t, top, S) => CachedStatesFine(k, t, top, S)
<1>1. \A p : TxsOf(k, p) = TxsOf(h, p)
  BY DEF TxsOf, Grows
<1>2. \A t, top, S : StatesFine(h, t, top, S) => StatesFine(k, t, top, S)
  BY DEF StatesFine, Grows
<1>3. \A p, t, w : WorkFine(h, p, t, w) => WorkFine(k, p, t, w)
  BY <1>1, <1>2 DEF WorkFine, Grows
<1>4. \A p, answer : AnswerFine(h, p, answer) => AnswerFine(k, p, answer)
  BY <1>1, <1>2 DEF AnswerFine, Grows
<1>5. \A r : RequestFine(h, r) => RequestFine(k, r)
  BY <1>1, <1>3, <1>4 DEF RequestFine
<1> QED BY <1>1, <1>2, <1>3, <1>4, <1>5 DEF CachedTraceFine, CachedStatesFine

(* A step of one request that leaves the caches or adds what is fine.      *)
LEMMA TracerStep ==
  ASSUME TracingInv, NEW q \in Tracers, NEW r \in TraceRequests, NEW k,
         tracing' = [tracing EXCEPT ![q] = r], TracingTypes',
         World' = k, Grows(World, k), RequestFine(k, r),
         \A p \in TraceParams : traceCache'[p] = traceCache[p] \/ CachedTraceFine(k, p, traceCache'[p]),
         \A t \in TracedTxs, top \in BOOLEAN :
           stateCache'[<<t, top>>] = stateCache[<<t, top>>]
           \/ CachedStatesFine(k, t, top, stateCache'[<<t, top>>])
  PROVE  TracingInv'
<1>1. PICK h : h = World
  OBVIOUS
<1>2. Grows(h, k) /\ \A p \in Tracers : RequestFine(h, tracing[p])
  BY <1>1 DEF TracingInv
<1>3. tracing \in [Tracers -> TraceRequests]
  BY DEF TracingInv
<1>4. ASSUME NEW p \in Tracers PROVE RequestFine(k, tracing'[p])
  BY <1>2, <1>3, FineGrows
<1>5. ASSUME NEW p \in TraceParams PROVE CachedTraceFine(k, p, traceCache'[p])
  <2>1. CachedTraceFine(h, p, traceCache[p])
    BY <1>1 DEF TracingInv
  <2>2. CachedTraceFine(k, p, traceCache[p])
    BY <2>1, <1>2, FineGrows
  <2> QED BY <2>2
<1>6. ASSUME NEW t \in TracedTxs, NEW top \in BOOLEAN
      PROVE  CachedStatesFine(k, t, top, stateCache'[<<t, top>>])
  <2>1. CachedStatesFine(h, t, top, stateCache[<<t, top>>])
    BY <1>1 DEF TracingInv
  <2>2. CachedStatesFine(k, t, top, stateCache[<<t, top>>])
    BY <2>1, <1>2, FineGrows
  <2> QED BY <2>2
<1>7. tracing' \in [Tracers -> TraceRequests]
  BY <1>3
<1> QED BY <1>4, <1>5, <1>6, <1>7 DEF TracingInv

(* Records changed in several fields.                                      *)
LEMMA AnswerMakes ==
  ASSUME tracing \in [Tracers -> TraceRequests], NEW q \in Tracers, NEW answer,
         AnswersTrace(q, answer)
  PROVE  tracing' = [tracing EXCEPT ![q] =
           [pc |-> "done", param |-> tracing[q].param, answer |-> answer, work |-> tracing[q].work]]
<1>1. PICK r \in TraceRequests : r = tracing[q]
  OBVIOUS
<1> DEFINE half == [pc |-> "done", param |-> r.param, answer |-> r.answer, work |-> r.work]
           all == [pc |-> "done", param |-> r.param, answer |-> answer, work |-> r.work]
           one == [tracing EXCEPT ![q] = half]
<1>2. [r EXCEPT !.pc = "done"] = half /\ [half EXCEPT !.answer = answer] = all
  BY DEF TraceRequests
<1>3. tracing' = [[tracing EXCEPT ![q] = [tracing[q] EXCEPT !.pc = "done"]]
                    EXCEPT ![q].answer = answer]
  BY DEF AnswersTrace
<1>4. tracing' = [one EXCEPT ![q].answer = answer] /\ one[q] = half
  BY <1>1, <1>2, <1>3
<1>5. tracing' = [one EXCEPT ![q] = all]
  BY <1>2, <1>4
<1>6. [one EXCEPT ![q] = all] = [tracing EXCEPT ![q] = all]
  <2> HIDE DEF half, all
  <2> QED OBVIOUS
<1> QED BY <1>1, <1>5, <1>6

LEMMA WorkMakes ==
  ASSUME tracing \in [Tracers -> TraceRequests], NEW q \in Tracers, NEW t \in TracedTxs, NEW w,
         Working1(q, t, w)
  PROVE  tracing' = [tracing EXCEPT ![q] =
           [pc |-> tracing[q].pc, param |-> tracing[q].param, answer |-> tracing[q].answer,
            work |-> [tracing[q].work EXCEPT ![t] = w]]]
<1>1. PICK r \in TraceRequests : r = tracing[q]
  OBVIOUS
<1>2. [r EXCEPT !.work[t] = w] =
        [pc |-> r.pc, param |-> r.param, answer |-> r.answer, work |-> [r.work EXCEPT ![t] = w]]
  <2>1. PICK works : works = [r.work EXCEPT ![t] = w]
    OBVIOUS
  <2>2. [r EXCEPT !.work = works] =
          [pc |-> r.pc, param |-> r.param, answer |-> r.answer, work |-> works]
    BY DEF TraceRequests
  <2> QED BY <2>1, <2>2
<1>3. tracing' = [tracing EXCEPT ![q] = [r EXCEPT !.work[t] = w]]
  BY <1>1 DEF Working1
<1> QED BY <1>1, <1>2, <1>3

LEMMA FailMakes ==
  ASSUME tracing \in [Tracers -> TraceRequests], NEW q \in Tracers, NEW t \in TracedTxs, Fails1(q, t)
  PROVE  \E w \in Work, a \in TraceAnswers :
           /\ w.at = "failed" /\ w.actions = tracing[q].work[t].actions
           /\ a = tracing[q].answer \/ a = FailsWith
           /\ tracing' = [tracing EXCEPT ![q] =
                [pc |-> "done", param |-> tracing[q].param, answer |-> a,
                 work |-> [tracing[q].work EXCEPT ![t] = w]]]
<1>1. PICK r \in TraceRequests : r = tracing[q]
  OBVIOUS
<1>2. PICK v \in Work : v = r.work[t]
  BY DEF TraceRequests
<1>3. PICK a : a = IF r.answer.kind = "none" THEN FailsWith ELSE r.answer
  OBVIOUS
<1> DEFINE w == [v EXCEPT !.at = "failed"]
           works == [r.work EXCEPT ![t] = w]
           first == [pc |-> r.pc, param |-> r.param, answer |-> r.answer, work |-> works]
           second == [pc |-> "done", param |-> r.param, answer |-> r.answer, work |-> works]
           third == [pc |-> "done", param |-> r.param, answer |-> a, work |-> works]
           one == [tracing EXCEPT ![q] = first]
           two == [one EXCEPT ![q] = second]
           three == [two EXCEPT ![q] = third]
<1>4. a \in TraceAnswers /\ (a = r.answer \/ a = FailsWith)
  BY <1>3 DEF TraceRequests, TraceAnswers, FailsWith, Trace, NoTxs, Absent
<1>5. w \in Work /\ w.at = "failed" /\ w.actions = v.actions
  BY DEF Work
<1>6. [r EXCEPT !.work[t].at = "failed"] = first
  BY <1>2, SMTT(20) DEF TraceRequests
<1>7. [first EXCEPT !.pc = "done"] = second /\ [second EXCEPT !.answer = a] = third
       /\ second.answer = r.answer
  OBVIOUS
<1> HIDE DEF first, second, third
<1>8. tracing' = [[[tracing EXCEPT ![q] = [tracing[q] EXCEPT !.work[t].at = "failed"]]
                     EXCEPT ![q].pc = "done"]
                     EXCEPT ![q].answer = IF @.kind = "none" THEN FailsWith ELSE @]
  BY DEF Fails1
<1>9. tracing' = [[one EXCEPT ![q].pc = "done"]
                    EXCEPT ![q].answer = IF @.kind = "none" THEN FailsWith ELSE @]
  BY <1>1, <1>6, <1>8
<1>10. one[q] = first /\ two[q] = second
  OBVIOUS
<1>11. tracing' = [two EXCEPT ![q].answer = IF @.kind = "none" THEN FailsWith ELSE @]
  BY <1>7, <1>9, <1>10
<1>12. tracing' = three
  BY <1>3, <1>7, <1>10, <1>11
<1>13. three = [tracing EXCEPT ![q] = third]
  OBVIOUS
<1>14. tracing' = [tracing EXCEPT ![q] = third]
  BY <1>12, <1>13
<1>15. tracing' = [tracing EXCEPT ![q] =
         [pc |-> "done", param |-> tracing[q].param, answer |-> a,
          work |-> [tracing[q].work EXCEPT ![t] = w]]]
  <2> HIDE DEF w
  <2> QED BY <1>1, <1>14 DEF third
<1> HIDE DEF w
<1> QED BY <1>1, <1>2, <1>4, <1>5, <1>15

-----------------------------------------------------------------------------

LEMMA NoTxsTyped ==
  /\ NoWork \in Work /\ NoTrace \in TraceAnswers /\ FailsWith \in TraceAnswers
  /\ \A k \in {"none", "error", "opcodes", "traces"} : Trace(k, NoTxs) \in TraceAnswers
BY DEF NoWork, Work, NoTrace, FailsWith, Trace, NoTxs, Absent, TraceAnswers

LEMMA IdleIsFine ==
  ASSUME NEW h
  PROVE  /\ IdleTrace \in TraceRequests /\ RequestFine(h, IdleTrace)
         /\ \A p : CachedTraceFine(h, p, NoTrace) /\ AnswerFine(h, p, FailsWith)
         /\ \A p, t : WorkFine(h, p, t, NoWork)
<1>1. \A p : CachedTraceFine(h, p, NoTrace) /\ AnswerFine(h, p, FailsWith)
  BY DEF CachedTraceFine, AnswerFine, NoTrace, FailsWith, Trace
<1>2. \A p, t : WorkFine(h, p, t, NoWork)
  BY DEF WorkFine, NoWork
<1>3. SomeTraceParam \in TraceParams
  BY TracingConstants DEF SomeTraceParam
<1>4. IdleTrace \in TraceRequests
  BY <1>3, NoTxsTyped DEF IdleTrace, TraceRequests
<1>5. IdleTrace.pc = "idle" /\ IdleTrace.answer = NoTrace
      /\ \A t \in TracedTxs : IdleTrace.work[t] = NoWork
  BY DEF IdleTrace
<1> QED BY <1>1, <1>2, <1>4, <1>5 DEF RequestFine, CachedTraceFine

LEMMA TracingStarts == TracingInit => TracingInv
<1> SUFFICES ASSUME TracingInit PROVE TracingInv
  OBVIOUS
<1>1. TracingTypes
  <2>1. traceCache \in [TraceParams -> TraceAnswers]
    BY NoTxsTyped DEF TracingInit
  <2>2. stateCache \in [TracedTxs \X BOOLEAN -> (SUBSET Addresses) \cup {NoStates}]
    BY DEF TracingInit
  <2>3. traces \in 0..MaxTraces
    BY TracingConstants DEF TracingInit
  <2> QED BY <2>1, <2>2, <2>3 DEF TracingInit, TracingTypes
<1>2. \A p \in TraceParams : traceCache[p] = NoTrace
  BY DEF TracingInit
<1>3. \A t \in TracedTxs, top \in BOOLEAN : stateCache[<<t, top>>] = NoStates
  BY DEF TracingInit
<1>4. tracing \in [Tracers -> TraceRequests] /\ \A q \in Tracers : tracing[q] = IdleTrace
  BY IdleIsFine DEF TracingInit
<1> QED BY <1>1, <1>2, <1>3, <1>4, IdleIsFine DEF TracingInv, CachedStatesFine

(* The mirror node writes: nothing that the facts depend on.               *)
LEMMA WrittenKeeps == ASSUME TracingInv, Written PROVE TracingInv'
<1>1. /\ UNCHANGED <<debugApi, opcodeLogger, blockTxs, wrongNonce, traceCache, stateCache, tracing,
                     traces, tooEarly, unresolved>>
      /\ mature' \subseteq blockTxs /\ acted' \subseteq blockTxs
  BY DEF Written, KeepConfig, KeepHistory, TracingInv, TracingTypes
<1>2. World' = World
  BY <1>1 DEF World
<1>3. TracingTypes'
  BY <1>1 DEF TracingInv, TracingTypes
<1> QED BY <1>1, <1>2, <1>3 DEF TracingInv

(* What a request that goes on with the world as it is has to show.        *)
LEMMA QuietStep ==
  ASSUME TracingInv, NEW q \in Tracers, NEW r \in TraceRequests,
         tracing' = [tracing EXCEPT ![q] = r], RequestFine(World, r),
         KeepConfig, KeepMirror, KeepHistory, UNCHANGED stateCache, traces' \in 0..MaxTraces,
         UNCHANGED traceCache \/ \E p \in TraceParams, a \in TraceAnswers :
           CachedTraceFine(World, p, a) /\ traceCache' = [traceCache EXCEPT ![p] = a]
  PROVE  TracingInv'
<1>1. World' = World /\ Grows(World, World)
  BY DEF World, Grows, KeepConfig, KeepHistory
<1>2. TracingTypes'
  BY DEF TracingInv, TracingTypes, KeepConfig, KeepMirror, KeepHistory
<1>3. \A p \in TraceParams :
        traceCache'[p] = traceCache[p] \/ CachedTraceFine(World, p, traceCache'[p])
  BY DEF TracingInv, TracingTypes
<1>4. PICK h : h = World
  OBVIOUS
<1>5. World' = h /\ Grows(World, h) /\ RequestFine(h, r)
      /\ \A p \in TraceParams :
           traceCache'[p] = traceCache[p] \/ CachedTraceFine(h, p, traceCache'[p])
  BY <1>1, <1>3, <1>4
<1> QED BY <1>2, <1>5, TracerStep

LEMMA RequestsTyped ==
  ASSUME TracingInv, NEW q \in Tracers
  PROVE  /\ tracing \in [Tracers -> TraceRequests] /\ tracing[q] \in TraceRequests
         /\ tracing[q].param \in TraceParams /\ tracing[q].answer \in TraceAnswers
         /\ tracing[q].work \in [TracedTxs -> Work]
         /\ tracing[q].pc \in {"idle", "block", "results", "opcodes", "txs", "done"}
         /\ RequestFine(World, tracing[q]) /\ traceCache \in [TraceParams -> TraceAnswers]
BY DEF TracingInv, TracingTypes, TraceRequests

(* An answer that is fine ends the request; it may be kept.                *)
LEMMA AnswerKeeps ==
  ASSUME TracingInv, NEW q \in Tracers, NEW answer \in TraceAnswers, AnswersTrace(q, answer),
         AnswerFine(World, tracing[q].param, answer),
         KeepConfig, KeepMirror, KeepHistory, UNCHANGED <<stateCache, traces>>,
         UNCHANGED traceCache \/ ( /\ answer.kind # "error"
                                   /\ traceCache' = [traceCache EXCEPT ![tracing[q].param] = answer])
  PROVE  TracingInv'
<1>1. PICK o \in TraceRequests : o = tracing[q]
  BY RequestsTyped
<1>2. RequestFine(World, o) /\ o.param \in TraceParams /\ o.work \in [TracedTxs -> Work]
  BY <1>1, RequestsTyped
<1> DEFINE r == [pc |-> "done", param |-> o.param, answer |-> answer, work |-> o.work]
<1>3. r \in TraceRequests
  BY <1>2 DEF TraceRequests
<1>4. tracing' = [tracing EXCEPT ![q] = r]
  BY <1>1, AnswerMakes, RequestsTyped
<1>5. RequestFine(World, r)
  BY <1>1, <1>2 DEF RequestFine
<1>6. UNCHANGED traceCache \/ \E p \in TraceParams, a \in TraceAnswers :
        CachedTraceFine(World, p, a) /\ traceCache' = [traceCache EXCEPT ![p] = a]
  BY <1>1, <1>2 DEF CachedTraceFine
<1>7. traces' \in 0..MaxTraces
  BY DEF TracingInv, TracingTypes
<1> HIDE DEF r
<1> QED BY <1>3, <1>4, <1>5, <1>6, <1>7, QuietStep

(* The traces begin with nothing known.                                    *)
LEMMA StartIsFine ==
  ASSUME TracingInv, NEW q, NEW p \in TraceParams, p.tracer \in {"call", "prestate"}
  PROVE  /\ Started(q, p) \in [TracedTxs -> Work]
         /\ \A t \in TracedTxs : WorkFine(World, p, t, Started(q, p)[t])
         /\ \A t \in TxsOf(World, p) : t \in TracedTxs /\ Started(q, p)[t].at \in {"reading", "cache"}
<1> DEFINE txs == IF p.op = "block" THEN blockTxs \ wrongNonce ELSE {p.tx}
           begun == [NoWork EXCEPT !.at = IF p.tracer = "call" THEN "reading" ELSE "cache"]
<1>1. TxsOf(World, p) = txs /\ txs \subseteq TracedTxs
  BY ParamsTyped DEF TxsOf, World, TracingInv, TracingTypes
<1>2. begun = [at |-> IF p.tracer = "call" THEN "reading" ELSE "cache", actions |-> "unread",
               result |-> "unread", left |-> {}, touched |-> {}]
  BY DEF NoWork
<1>3. begun \in Work /\ NoWork \in Work
  BY <1>2, NoTxsTyped DEF Work
<1>4. \A t \in TracedTxs : Started(q, p)[t] = IF t \in txs THEN begun ELSE NoWork
  BY DEF Started
<1>5. Started(q, p) = [t \in TracedTxs |-> IF t \in txs THEN begun ELSE NoWork]
  BY DEF Started
<1>6. ASSUME NEW t \in txs PROVE WorkFine(World, p, t, begun)
  BY <1>1, <1>2, <1>6 DEF WorkFine
<1>7. begun.at \in {"reading", "cache"}
  BY <1>2
<1> HIDE DEF begun, txs
<1> QED BY <1>1, <1>3, <1>4, <1>5, <1>6, <1>7, IdleIsFine

LEMMA TraceBeginKeeps ==
  ASSUME TracingInv, NEW q \in Tracers, NEW p \in TraceParams, trace(q, p) PROVE TracingInv'
<1> DEFINE asked == [IdleTrace EXCEPT !.param = p]
           R(pc, answer, work) == [pc |-> pc, param |-> p, answer |-> answer, work |-> work]
           none == [t \in TracedTxs |-> NoWork]
<1>1. asked = [pc |-> "idle", param |-> p, answer |-> NoTrace, work |-> none]
  BY DEF IdleTrace
<1>2. PICK c : c = traceCache[p]
  OBVIOUS
<1>3. PICK w : w = Started(q, p)
  OBVIOUS
<1>4. /\ [asked EXCEPT !.pc = "done", !.answer = traceCache[p]] = R("done", traceCache[p], none)
      /\ [asked EXCEPT !.pc = "done", !.answer = FailsWith] = R("done", FailsWith, none)
      /\ [asked EXCEPT !.pc = "block"] = R("block", NoTrace, none)
      /\ [asked EXCEPT !.pc = "opcodes"] = R("opcodes", NoTrace, none)
      /\ [asked EXCEPT !.pc = "txs", !.work = Started(q, p)] = R("txs", NoTrace, Started(q, p))
  <2> HIDE DEF none, asked
  <2>1. [asked EXCEPT !.pc = "done", !.answer = c] = R("done", c, none)
    <3>1. [asked EXCEPT !.pc = "done"] = R("done", NoTrace, none)
      BY <1>1
    <3>2. [R("done", NoTrace, none) EXCEPT !.answer = c] = R("done", c, none)
      OBVIOUS
    <3> HIDE DEF R
    <3> QED BY <3>1, <3>2
  <2>2. [asked EXCEPT !.pc = "done", !.answer = FailsWith] = R("done", FailsWith, none)
    <3>1. [asked EXCEPT !.pc = "done"] = R("done", NoTrace, none)
      BY <1>1
    <3>2. [R("done", NoTrace, none) EXCEPT !.answer = FailsWith] = R("done", FailsWith, none)
      OBVIOUS
    <3> HIDE DEF R
    <3> QED BY <3>1, <3>2
  <2>3. [asked EXCEPT !.pc = "block"] = R("block", NoTrace, none)
    BY <1>1
  <2>4. [asked EXCEPT !.pc = "opcodes"] = R("opcodes", NoTrace, none)
    BY <1>1
  <2>5. [asked EXCEPT !.pc = "txs", !.work = w] = R("txs", NoTrace, w)
    <3>1. [asked EXCEPT !.pc = "txs"] = R("txs", NoTrace, none)
      BY <1>1
    <3>2. [R("txs", NoTrace, none) EXCEPT !.work = w] = R("txs", NoTrace, w)
      OBVIOUS
    <3> HIDE DEF R
    <3> QED BY <3>1, <3>2
  <2> HIDE DEF R
  <2> QED BY <1>2, <1>3, <2>1, <2>2, <2>3, <2>4, <2>5
<1>5. PICK r :
        /\ tracing' = [tracing EXCEPT ![q] = r]
        /\ \/ r = R("done", traceCache[p], none)
           \/ r = R("done", FailsWith, none)
           \/ r = R("block", NoTrace, none) /\ p.op = "block"
           \/ r = R("opcodes", NoTrace, none)
           \/ r = R("txs", NoTrace, Started(q, p)) /\ p.tracer \in {"call", "prestate"}
  <2>1. PICK r \in
           (IF traceCache[p].kind # "none"
            THEN {[asked EXCEPT !.pc = "done", !.answer = traceCache[p]]} ELSE {}) \cup
           (IF NotTraced(p) THEN {[asked EXCEPT !.pc = "done", !.answer = FailsWith]}
            ELSE {CASE p.op = "block" -> [asked EXCEPT !.pc = "block"]
                    [] p.op = "tx" /\ p.tracer = "opcode" -> [asked EXCEPT !.pc = "opcodes"]
                    [] OTHER -> [asked EXCEPT !.pc = "txs", !.work = Started(q, p)]}) :
         tracing' = [tracing EXCEPT ![q] = r]
    BY DEF trace
  <2>2. \/ r = [asked EXCEPT !.pc = "done", !.answer = traceCache[p]]
        \/ r = [asked EXCEPT !.pc = "done", !.answer = FailsWith]
        \/ r = CASE p.op = "block" -> [asked EXCEPT !.pc = "block"]
                 [] p.op = "tx" /\ p.tracer = "opcode" -> [asked EXCEPT !.pc = "opcodes"]
                 [] OTHER -> [asked EXCEPT !.pc = "txs", !.work = Started(q, p)]
    <3> HIDE DEF asked
    <3> QED BY <2>1
  <2>3. CASE r = [asked EXCEPT !.pc = "done", !.answer = traceCache[p]]
    <3> HIDE DEF asked, R
    <3> QED BY <1>4, <2>1, <2>3
  <2>4. CASE r = [asked EXCEPT !.pc = "done", !.answer = FailsWith]
    <3> HIDE DEF asked, R
    <3> QED BY <1>4, <2>1, <2>4
  <2>5. CASE r = CASE p.op = "block" -> [asked EXCEPT !.pc = "block"]
                   [] p.op = "tx" /\ p.tracer = "opcode" -> [asked EXCEPT !.pc = "opcodes"]
                   [] OTHER -> [asked EXCEPT !.pc = "txs", !.work = Started(q, p)]
    <3>1. p.op \in {"block", "tx"} /\ p.tracer \in {"call", "prestate", "opcode"}
      BY ParamsTyped
    <3> HIDE DEF asked, R
    <3>2. CASE p.op = "block"
      <4>1. r = [asked EXCEPT !.pc = "block"]
        BY <2>5, <3>2
      <4> QED BY <1>4, <2>1, <3>2, <4>1
    <3>3. CASE p.op = "tx" /\ p.tracer = "opcode"
      <4>1. r = [asked EXCEPT !.pc = "opcodes"]
        BY <2>5, <3>3
      <4> QED BY <1>4, <2>1, <4>1
    <3>4. CASE p.op = "tx" /\ p.tracer # "opcode"
      <4>1. r = [asked EXCEPT !.pc = "txs", !.work = Started(q, p)]
        BY <2>5, <3>4
      <4> QED BY <1>4, <2>1, <3>1, <3>4, <4>1
    <3> QED BY <3>1, <3>2, <3>3, <3>4
  <2> QED BY <2>2, <2>3, <2>4, <2>5
<1>6. /\ KeepConfig /\ KeepMirror /\ KeepHistory /\ UNCHANGED <<traceCache, stateCache>>
      /\ traces' \in 0..MaxTraces
  BY TracingConstants DEF trace, TracingInv, TracingTypes
<1>7. /\ none \in [TracedTxs -> Work] /\ NoTrace \in TraceAnswers /\ FailsWith \in TraceAnswers
      /\ traceCache[p] \in TraceAnswers /\ AnswerFine(World, p, traceCache[p])
      /\ AnswerFine(World, p, NoTrace) /\ AnswerFine(World, p, FailsWith)
      /\ \A t \in TracedTxs : WorkFine(World, p, t, none[t])
  BY NoTxsTyped, IdleIsFine DEF TracingInv, TracingTypes, CachedTraceFine
<1>8. ASSUME NEW pc \in {"done", "block", "opcodes"}, NEW a \in TraceAnswers,
             AnswerFine(World, p, a), pc = "block" => p.op = "block", r = R(pc, a, none)
      PROVE  r \in TraceRequests /\ RequestFine(World, r)
  <2> HIDE DEF none
  <2> QED BY <1>7, <1>8 DEF TraceRequests, RequestFine
<1>9. ASSUME p.tracer \in {"call", "prestate"}, r = R("txs", NoTrace, Started(q, p))
      PROVE  r \in TraceRequests /\ RequestFine(World, r)
  BY <1>7, <1>9, StartIsFine DEF TraceRequests, RequestFine
<1>10. r \in TraceRequests /\ RequestFine(World, r)
  <2> HIDE DEF none, R
  <2> QED BY <1>5, <1>7, <1>8, <1>9
<1> QED BY <1>5, <1>6, <1>10, QuietStep

LEMMA ReadTracedBlockKeeps ==
  ASSUME TracingInv, NEW q \in Tracers, ReadTracedBlock(q) PROVE TracingInv'
<1>1. PICK o \in TraceRequests : o = tracing[q]
  BY RequestsTyped
<1>2. /\ KeepConfig /\ KeepMirror /\ KeepHistory /\ UNCHANGED <<traceCache, stateCache, traces>>
      /\ o.pc = "block" /\ RequestFine(World, o)
  BY <1>1, RequestsTyped DEF ReadTracedBlock
<1>3. CASE AnswersTrace(q, FailsWith)
  BY <1>2, <1>3, AnswerKeeps, NoTxsTyped, IdleIsFine
<1>4. CASE tracing' = [tracing EXCEPT ![q].pc = "results"]
  <2> DEFINE r == [pc |-> "results", param |-> o.param, answer |-> o.answer, work |-> o.work]
  <2>1. [o EXCEPT !.pc = "results"] = r /\ r \in TraceRequests
    BY DEF TraceRequests
  <2>2. tracing' = [tracing EXCEPT ![q] = r]
    BY <1>1, <1>4, <2>1
  <2>3. RequestFine(World, r)
    BY <1>2 DEF RequestFine
  <2>4. traces' \in 0..MaxTraces
    BY <1>2 DEF TracingInv, TracingTypes
  <2> HIDE DEF r
  <2> QED BY <1>2, <2>1, <2>2, <2>3, <2>4, QuietStep
<1> QED BY <1>3, <1>4 DEF ReadTracedBlock

LEMMA FailsKeeps ==
  ASSUME TracingInv, NEW q \in Tracers, Fails(q),
         KeepConfig, KeepMirror, KeepHistory, UNCHANGED <<stateCache, traces>>
  PROVE  TracingInv'
<1>1. AnswersTrace(q, FailsWith) /\ UNCHANGED traceCache
  BY DEF Fails
<1> QED BY <1>1, AnswerKeeps, NoTxsTyped, IdleIsFine

LEMMA ReturnedKeeps ==
  ASSUME TracingInv, NEW q \in Tracers, NEW answer \in TraceAnswers, Returned(q, answer),
         AnswerFine(World, tracing[q].param, answer), answer.kind # "error",
         KeepConfig, KeepMirror, KeepHistory, UNCHANGED <<stateCache, traces>>
  PROVE  TracingInv'
<1>1. /\ AnswersTrace(q, answer)
      /\ traceCache' = [traceCache EXCEPT ![tracing[q].param] = answer]
  BY DEF Returned
<1> QED BY <1>1, AnswerKeeps

LEMMA ReadResultsKeeps ==
  ASSUME TracingInv, NEW q \in Tracers, ReadResults(q) PROVE TracingInv'
<1>1. PICK o \in TraceRequests : o = tracing[q]
  BY RequestsTyped
<1> DEFINE p == o.param
<1>2. /\ KeepConfig /\ KeepMirror /\ KeepHistory /\ UNCHANGED <<stateCache, traces>>
      /\ o.pc = "results" /\ RequestFine(World, o) /\ p.op = "block" /\ p \in TraceParams
  BY <1>1, RequestsTyped DEF ReadResults, RequestFine
<1>3. CASE Fails(q)
  BY <1>2, <1>3, FailsKeeps
<1>4. CASE /\ p.tracer = "opcode" \/ blockTxs \subseteq wrongNonce
           /\ Returned(q, Trace("traces", NoTxs))
  <2>1. p.tracer # "opcode" => TxsOf(World, p) = {}
    BY <1>2, <1>4 DEF TxsOf, World
  <2>2. Trace("traces", NoTxs).kind = "traces"
        /\ \A t \in TracedTxs : Trace("traces", NoTxs).txs[t] = Absent
    BY DEF Trace, NoTxs
  <2>3. AnswerFine(World, p, Trace("traces", NoTxs))
    <3>1. \A t \in TracedTxs : Trace("traces", NoTxs).txs[t].kind = "absent"
      BY <2>2 DEF Absent
    <3> QED BY <2>1, <2>2, <3>1 DEF AnswerFine
  <2> QED BY <1>1, <1>2, <1>4, <2>2, <2>3, NoTxsTyped, ReturnedKeeps
<1>5. CASE /\ p.tracer # "opcode"
           /\ tracing' = [tracing EXCEPT ![q].pc = "txs", ![q].work = Started(q, p)]
           /\ UNCHANGED traceCache
  <2> DEFINE work == Started(q, p)
             half == [pc |-> "txs", param |-> o.param, answer |-> o.answer, work |-> o.work]
             r == [pc |-> "txs", param |-> o.param, answer |-> o.answer, work |-> work]
             one == [tracing EXCEPT ![q] = half]
  <2>1. p.tracer \in {"call", "prestate"}
    BY <1>2, <1>5, ParamsTyped
  <2>2. /\ work \in [TracedTxs -> Work]
        /\ \A t \in TracedTxs : WorkFine(World, p, t, work[t])
        /\ \A t \in TxsOf(World, p) : work[t].at \in {"reading", "cache"}
    BY <1>2, <2>1, StartIsFine
  <2> HIDE DEF work
  <2>3. r \in TraceRequests
    BY <2>2 DEF TraceRequests
  <2>4. RequestFine(World, r)
    BY <1>2, <2>2 DEF RequestFine
  <2>5. [o EXCEPT !.pc = "txs"] = half /\ [half EXCEPT !.work = work] = r
    BY DEF TraceRequests
  <2>6. tracing' = [[tracing EXCEPT ![q] = [tracing[q] EXCEPT !.pc = "txs"]] EXCEPT ![q].work = work]
    BY <1>5 DEF work
  <2>7. tracing' = [one EXCEPT ![q].work = work] /\ one[q] = half
    BY <1>1, <2>5, <2>6, RequestsTyped
  <2>8. tracing' = [one EXCEPT ![q] = r]
    BY <2>5, <2>7
  <2>9. [one EXCEPT ![q] = r] = [tracing EXCEPT ![q] = r]
    <3> HIDE DEF half, r
    <3> QED BY RequestsTyped
  <2>10. traces' \in 0..MaxTraces
    BY <1>2 DEF TracingInv, TracingTypes
  <2> HIDE DEF r
  <2> QED BY <1>2, <1>5, <2>3, <2>4, <2>8, <2>9, <2>10, QuietStep
<1> QED BY <1>1, <1>3, <1>4, <1>5 DEF ReadResults

LEMMA OpcodesKeep ==
  ASSUME TracingInv, NEW q \in Tracers, callOpcodeLogger(q) PROVE TracingInv'
<1>1. KeepConfig /\ KeepMirror /\ KeepHistory /\ UNCHANGED <<stateCache, traces>>
  BY DEF callOpcodeLogger
<1>2. CASE Fails(q)
  BY <1>1, <1>2, FailsKeeps
<1>3. CASE Returned(q, Trace("opcodes", NoTxs))
  <2>1. Trace("opcodes", NoTxs).kind = "opcodes"
    BY DEF Trace
  <2>2. AnswerFine(World, tracing[q].param, Trace("opcodes", NoTxs))
    BY <2>1 DEF AnswerFine
  <2> QED BY <1>1, <1>3, <2>1, <2>2, NoTxsTyped, ReturnedKeeps
<1> QED BY <1>2, <1>3 DEF callOpcodeLogger

(* Every trace is done: what they found is the answer.                     *)
LEMMA AllTracedKeeps ==
  ASSUME TracingInv, NEW q \in Tracers, AllTraced(q) PROVE TracingInv'
<1>1. PICK o \in TraceRequests : o = tracing[q]
  BY RequestsTyped
<1> DEFINE p == o.param
<1>2. PICK found : found = [t \in TracedTxs |->
        IF o.work[t].at # "done" THEN Absent
        ELSE [kind |-> IF p.tracer = "prestate" THEN "states"
                       ELSE IF o.work[t].actions = "none" THEN "null" ELSE "calls",
              touched |-> o.work[t].touched]]
  OBVIOUS
<1>3. /\ KeepConfig /\ KeepMirror /\ KeepHistory /\ UNCHANGED <<stateCache, traces>>
      /\ o.pc = "txs" /\ RequestFine(World, o) /\ p \in TraceParams
      /\ o.work \in [TracedTxs -> Work]
      /\ \A t \in TracedTxs : o.work[t].at \in {"none", "done", "failed"}
  BY <1>1, RequestsTyped DEF AllTraced, Working
<1> DEFINE answer == Trace("traces", found)
<1>4. answer.kind = "traces" /\ answer.txs = found
  BY DEF Trace
<1>5. \A t \in TracedTxs : /\ o.work[t].touched \in SUBSET Addresses
                           /\ found[t] \in [kind : {"absent", "null", "calls", "states"},
                                            touched : SUBSET Addresses]
  BY <1>2, <1>3 DEF Work, Absent
<1>6. answer \in TraceAnswers
  BY <1>2, <1>5 DEF TraceAnswers, Trace
<1>7. \A t \in TracedTxs : (o.work[t].at = "done") = (t \in TxsOf(World, p))
  <2> SUFFICES ASSUME NEW t \in TracedTxs PROVE (o.work[t].at = "done") = (t \in TxsOf(World, p))
    OBVIOUS
  <2>1. o.work[t].at = "done" => t \in TxsOf(World, p)
    BY <1>3 DEF RequestFine, WorkFine
  <2>2. t \in TxsOf(World, p) => o.work[t].at = "done"
    BY <1>3 DEF RequestFine
  <2> QED BY <2>1, <2>2
<1>8. ASSUME NEW t \in TracedTxs
      PROVE  /\ (found[t] = Absent) = (t \notin TxsOf(World, p))
             /\ t \in TxsOf(World, p) => found[t].touched = o.work[t].touched
             /\ found[t].kind = "calls" =>
                  o.work[t].at = "done" /\ o.work[t].actions # "none"
                  /\ found[t].touched = o.work[t].touched
             /\ found[t].kind = "null" => o.work[t].actions = "none"
  BY <1>2, <1>7 DEF Absent
<1>9. TxsOf(World, p) \subseteq TracedTxs
  BY <1>3, ParamsTyped DEF TxsOf, World, TracingInv, TracingTypes
<1>10. AnswerFine(World, p, answer)
  <2> HIDE DEF answer
  <2>1. \A t \in TracedTxs : WorkFine(World, p, t, o.work[t])
    BY <1>3 DEF RequestFine
  <2>2. ASSUME p.tracer = "call", NEW t \in TracedTxs
        PROVE  /\ (found[t] = Absent) = (t \notin TxsOf(World, p))
               /\ found[t].kind = "calls" => found[t].touched = Involved(t, p.top)
               /\ found[t].kind = "null" => t \in World.early
    BY <1>8, <2>1, <2>2 DEF WorkFine
  <2>3. ASSUME p.tracer = "prestate", NEW t \in TxsOf(World, p)
        PROVE  StatesFine(World, t, p.top, found[t].touched)
    BY <1>7, <1>8, <1>9, <2>1, <2>3 DEF WorkFine
  <2> QED BY <1>4, <2>2, <2>3 DEF AnswerFine
<1>11. (AnswersTrace(q, answer) /\ UNCHANGED traceCache) \/ Returned(q, answer)
  BY <1>1, <1>2 DEF AllTraced
<1> HIDE DEF answer
<1>12. CASE Returned(q, answer)
  BY <1>1, <1>3, <1>4, <1>6, <1>10, <1>12, ReturnedKeeps
<1>13. CASE AnswersTrace(q, answer) /\ UNCHANGED traceCache
  BY <1>1, <1>3, <1>6, <1>10, <1>13, AnswerKeeps
<1> QED BY <1>11, <1>12, <1>13

-----------------------------------------------------------------------------

(* The trace of one transaction goes on.                                   *)
LEMMA WorkKeeps ==
  ASSUME TracingInv, NEW q \in Tracers, NEW t \in TracedTxs, NEW w \in Work, Working1(q, t, w),
         NEW k, World' = k, Grows(World, k), w.at \notin {"none", "failed"},
         WorkFine(k, tracing[q].param, t, w), TracingTypes', UNCHANGED traceCache,
         \A u \in TracedTxs, top \in BOOLEAN :
           stateCache'[<<u, top>>] = stateCache[<<u, top>>]
           \/ CachedStatesFine(k, u, top, stateCache'[<<u, top>>])
  PROVE  TracingInv'
<1>1. PICK o \in TraceRequests : o = tracing[q]
  BY RequestsTyped
<1> DEFINE works == [o.work EXCEPT ![t] = w]
           r == [pc |-> o.pc, param |-> o.param, answer |-> o.answer, work |-> works]
<1>2. /\ RequestFine(World, o) /\ o.param \in TraceParams /\ o.work \in [TracedTxs -> Work]
      /\ o.pc \in {"idle", "block", "results", "opcodes", "txs", "done"}
      /\ o.answer \in TraceAnswers
  BY <1>1, RequestsTyped
<1>3. tracing' = [tracing EXCEPT ![q] = r]
  BY <1>1, WorkMakes, RequestsTyped
<1>4. r \in TraceRequests
  BY <1>2 DEF TraceRequests
<1>5. PICK h : h = World
  OBVIOUS
<1>6. RequestFine(k, o)
  BY <1>2, <1>5, FineGrows
<1>7. \A u \in TracedTxs : WorkFine(k, o.param, u, works[u])
  BY <1>1, <1>2, <1>6 DEF RequestFine
<1>8. o.pc = "txs" => \A u \in TxsOf(k, o.param) : works[u].at \notin {"none", "failed"}
  <2>1. TxsOf(k, o.param) \subseteq TracedTxs
    <3>1. TxsOf(h, o.param) \subseteq TracedTxs
      BY <1>2, <1>5, ParamsTyped DEF TxsOf, World, TracingInv, TracingTypes
    <3> QED BY <1>5, <3>1, FineGrows
  <2> QED BY <1>2, <1>6, <2>1 DEF RequestFine
<1>9. RequestFine(k, r)
  <2> HIDE DEF works
  <2> QED BY <1>6, <1>7, <1>8 DEF RequestFine
<1>10. \A p \in TraceParams : traceCache'[p] = traceCache[p]
  OBVIOUS
<1> HIDE DEF r
<1> QED BY <1>3, <1>4, <1>9, <1>10, TracerStep

(* The same when nothing else changes.                                     *)
LEMMA WorkKeepsAlone ==
  ASSUME TracingInv, NEW q \in Tracers, NEW t \in TracedTxs, NEW w \in Work, Working1(q, t, w),
         w.at \notin {"none", "failed"}, WorkFine(World, tracing[q].param, t, w),
         KeepTraces, KeepHistory, UNCHANGED stateCache
  PROVE  TracingInv'
<1>1. World' = World /\ Grows(World, World)
  BY DEF World, Grows, KeepTraces, KeepConfig, KeepHistory
<1>2. TracingTypes' /\ UNCHANGED traceCache
  BY DEF TracingInv, TracingTypes, KeepTraces, KeepConfig, KeepMirror, KeepHistory
<1>3. PICK h : h = World
  OBVIOUS
<1>4. World' = h /\ Grows(World, h) /\ WorkFine(h, tracing[q].param, t, w)
  BY <1>1, <1>3
<1>5. \A u \in TracedTxs, top \in BOOLEAN : stateCache'[<<u, top>>] = stateCache[<<u, top>>]
  OBVIOUS
<1> QED BY <1>2, <1>4, <1>5, WorkKeeps

(* The trace of one transaction fails: the answer is an error.             *)
LEMMA Fails1Keeps ==
  ASSUME TracingInv, NEW q \in Tracers, NEW t \in TracedTxs, Fails1(q, t),
         tracing[q].work[t].at # "none", KeepTraces, KeepHistory, UNCHANGED stateCache
  PROVE  TracingInv'
<1>1. PICK o \in TraceRequests : o = tracing[q]
  BY RequestsTyped
<1>2. PICK w \in Work, a \in TraceAnswers :
        /\ w.at = "failed" /\ w.actions = tracing[q].work[t].actions
        /\ a = tracing[q].answer \/ a = FailsWith
        /\ tracing' = [tracing EXCEPT ![q] =
             [pc |-> "done", param |-> tracing[q].param, answer |-> a,
              work |-> [tracing[q].work EXCEPT ![t] = w]]]
  BY FailMakes, RequestsTyped
<1> DEFINE works == [o.work EXCEPT ![t] = w]
           r == [pc |-> "done", param |-> o.param, answer |-> a, work |-> works]
<1>3. /\ RequestFine(World, o) /\ o.param \in TraceParams /\ o.work \in [TracedTxs -> Work]
  BY <1>1, RequestsTyped
<1>4. tracing' = [tracing EXCEPT ![q] = r] /\ r \in TraceRequests
  BY <1>1, <1>2, <1>3 DEF TraceRequests
<1>5. WorkFine(World, o.param, t, o.work[t])
  BY <1>3 DEF RequestFine
<1>6. WorkFine(World, o.param, t, w)
  BY <1>1, <1>2, <1>5 DEF WorkFine
<1>7. \A u \in TracedTxs : WorkFine(World, o.param, u, works[u])
  BY <1>3, <1>6 DEF RequestFine
<1>8. AnswerFine(World, o.param, a)
  BY <1>1, <1>2, <1>3, IdleIsFine DEF RequestFine
<1>9. RequestFine(World, r)
  <2> HIDE DEF works
  <2> QED BY <1>7, <1>8 DEF RequestFine
<1>10. KeepConfig /\ KeepMirror /\ traces' \in 0..MaxTraces /\ UNCHANGED traceCache
  BY DEF KeepTraces, TracingInv, TracingTypes
<1> HIDE DEF r
<1> QED BY <1>4, <1>9, <1>10, QuietStep

(* What a step on one trace starts from.                                   *)
LEMMA WorkTyped ==
  ASSUME TracingInv, NEW q \in Tracers, NEW t \in TracedTxs
  PROVE  \E p \in TraceParams, w \in Work :
           /\ p = tracing[q].param /\ w = tracing[q].work[t] /\ WorkFine(World, p, t, w)
           /\ w = [at |-> w.at, actions |-> w.actions, result |-> w.result,
                   left |-> w.left, touched |-> w.touched]
<1>1. tracing[q].param \in TraceParams /\ tracing[q].work[t] \in Work
      /\ WorkFine(World, tracing[q].param, t, tracing[q].work[t])
  BY RequestsTyped DEF RequestFine
<1>2. \A w \in Work : w = [at |-> w.at, actions |-> w.actions, result |-> w.result,
                           left |-> w.left, touched |-> w.touched]
  BY DEF Work
<1> QED BY <1>1, <1>2

(* The trace is done, with what it found.                                  *)
LEMMA TracesMake ==
  ASSUME TracingInv, NEW q \in Tracers, NEW t \in TracedTxs, NEW touched, Traces1(q, t, touched),
         NEW w \in Work, w = tracing[q].work[t]
  PROVE  Working1(q, t, [at |-> "done", actions |-> w.actions, result |-> w.result,
                         left |-> w.left, touched |-> touched])
<1> DEFINE half == [at |-> "done", actions |-> w.actions, result |-> w.result,
                    left |-> w.left, touched |-> w.touched]
           all == [at |-> "done", actions |-> w.actions, result |-> w.result,
                   left |-> w.left, touched |-> touched]
<1>1. [w EXCEPT !.at = "done"] = half
  BY DEF Work
<1>2. [half EXCEPT !.touched = touched] = all
  OBVIOUS
<1>3. Working1(q, t, [[w EXCEPT !.at = "done"] EXCEPT !.touched = touched])
  BY DEF Traces1
<1>4. [[w EXCEPT !.at = "done"] EXCEPT !.touched = touched] = all
  <2> HIDE DEF half, all
  <2> QED BY <1>1, <1>2
<1>5. Working1(q, t, all)
  <2> HIDE DEF all
  <2> QED BY <1>3, <1>4
<1> QED BY <1>5

LEMMA CachedStatesKeeps ==
  ASSUME TracingInv, NEW q \in Tracers, NEW t \in TracedTxs, CachedStates(q, t) PROVE TracingInv'
<1>1. PICK p \in TraceParams, w \in Work :
        /\ p = tracing[q].param /\ w = tracing[q].work[t] /\ WorkFine(World, p, t, w)
        /\ w = [at |-> w.at, actions |-> w.actions, result |-> w.result,
                left |-> w.left, touched |-> w.touched]
  BY WorkTyped
<1>2. w.at = "cache" /\ KeepTraces /\ KeepHistory /\ UNCHANGED stateCache
  BY <1>1 DEF CachedStates
<1>3. w.left \in SUBSET Addresses /\ w.touched \in SUBSET Addresses
      /\ w.actions \in {"unread", "some", "none"} /\ w.result \in {"unread", "found", "null"}
  BY DEF Work
<1>4. PICK cached : cached = stateCache[<<t, p.top>>]
  OBVIOUS
<1>5. CASE cached # NoStates /\ Traces1(q, t, cached)
  <2> DEFINE v == [at |-> "done", actions |-> w.actions, result |-> w.result,
                   left |-> w.left, touched |-> cached]
  <2>1. Working1(q, t, v)
    BY <1>1, <1>5, TracesMake
  <2>2. cached \in SUBSET Addresses /\ StatesFine(World, t, p.top, cached)
    <3>1. p.top \in BOOLEAN /\ <<t, p.top>> \in TracedTxs \X BOOLEAN
      BY ParamsTyped
    <3>2. cached \in (SUBSET Addresses) \cup {NoStates}
      BY <1>4, <3>1 DEF TracingInv, TracingTypes
    <3>3. CachedStatesFine(World, t, p.top, cached)
      BY <1>4, <3>1 DEF TracingInv
    <3> QED BY <1>5, <3>2, <3>3 DEF CachedStatesFine
  <2>3. v \in Work
    BY <1>3, <2>2 DEF Work
  <2>4. WorkFine(World, p, t, v)
    BY <1>1, <1>2, <2>2 DEF WorkFine
  <2>5. v.at = "done"
    OBVIOUS
  <2> HIDE DEF v
  <2> QED BY <1>1, <1>2, <2>1, <2>3, <2>4, <2>5, WorkKeepsAlone
<1>6. CASE Working1(q, t, [w EXCEPT !.at = "reading"])
  <2> DEFINE v == [at |-> "reading", actions |-> w.actions, result |-> w.result,
                   left |-> w.left, touched |-> w.touched]
  <2>1. [w EXCEPT !.at = "reading"] = v
    BY DEF Work
  <2>2. v \in Work
    BY <1>3 DEF Work
  <2>3. WorkFine(World, p, t, v)
    BY <1>1, <1>2 DEF WorkFine
  <2>4. v.at = "reading"
    OBVIOUS
  <2> HIDE DEF v
  <2> QED BY <1>1, <1>2, <1>6, <2>1, <2>2, <2>3, <2>4, WorkKeepsAlone
<1>7. stateCache[StateKey(t, tracing[q].param.top)] = cached
  BY <1>1, <1>4 DEF StateKey
<1> QED BY <1>1, <1>5, <1>6, <1>7 DEF CachedStates

(* The actions are there, or were read too early.                          *)
LEMMA ReadActionsKeeps ==
  ASSUME TracingInv, NEW q \in Tracers, NEW t \in TracedTxs, ReadActions(q, t) PROVE TracingInv'
<1>1. PICK p \in TraceParams, w \in Work :
        /\ p = tracing[q].param /\ w = tracing[q].work[t] /\ WorkFine(World, p, t, w)
        /\ w = [at |-> w.at, actions |-> w.actions, result |-> w.result,
                left |-> w.left, touched |-> w.touched]
  BY WorkTyped
<1>2. w.at = "reading" /\ KeepTraces /\ UNCHANGED <<stateCache, unresolved>>
  BY <1>1 DEF ReadActions
<1>3. w.left \in SUBSET Addresses /\ w.touched = {} /\ w.result \in {"unread", "found", "null"}
      /\ p.tracer \in {"call", "prestate"} /\ t \in TxsOf(World, p)
  BY <1>1, <1>2 DEF Work, WorkFine
<1>4. CASE Fails1(q, t) /\ UNCHANGED tooEarly
  BY <1>1, <1>2, <1>4, Fails1Keeps DEF KeepHistory
<1> DEFINE Is(at, actions, left) ==
             [at |-> at, actions |-> actions, result |-> w.result, left |-> left, touched |-> {}]
           actions == IF t \in acted THEN "some" ELSE "none"
           seen == [w EXCEPT !.actions = actions]
           next == CASE p.tracer = "call" -> seen
                     [] p.tracer = "prestate" /\ t \in acted ->
                          [seen EXCEPT !.at = "entities", !.left = Involved(t, p.top)]
                     [] OTHER -> [seen EXCEPT !.at = "done"]
<1>5. CASE /\ Working1(q, t, next)
           /\ tooEarly' = IF t \in acted THEN tooEarly ELSE tooEarly \cup {t}
  <2>1. PICK k : k = World'
    OBVIOUS
  <2>2. Grows(World, k) /\ (t \notin acted => t \in k.early)
    BY <1>2, <1>5, <2>1 DEF World, Grows, KeepTraces, KeepConfig
  <2>3. TracingTypes' /\ UNCHANGED traceCache
    BY <1>2, <1>5 DEF TracingInv, TracingTypes, KeepTraces, KeepConfig, KeepMirror
  <2>4. TxsOf(k, p) = TxsOf(World, p)
    BY <2>2, FineGrows
  <2>5. seen = Is("reading", actions, w.left)
    BY <1>2, <1>3 DEF Work
  <2>6. \/ next = Is("reading", actions, w.left) /\ p.tracer = "call"
        \/ next = Is("entities", "some", Involved(t, p.top)) /\ p.tracer = "prestate"
        \/ next = Is("done", "none", w.left) /\ p.tracer = "prestate" /\ t \notin acted
    <3>1. CASE p.tracer = "call"
      BY <2>5, <3>1
    <3>2. CASE p.tracer = "prestate" /\ t \in acted
      <4> DEFINE one == Is("reading", "some", w.left)
                 two == Is("entities", "some", w.left)
                 three == Is("entities", "some", Involved(t, p.top))
      <4>1. seen = one
        BY <2>5, <3>2
      <4>2. [one EXCEPT !.at = "entities"] = two
        OBVIOUS
      <4>3. [two EXCEPT !.left = Involved(t, p.top)] = three
        OBVIOUS
      <4>4. next = [seen EXCEPT !.at = "entities", !.left = Involved(t, p.top)]
        <5> HIDE DEF seen
        <5> QED BY <3>2
      <4> HIDE DEF seen, one, two, three, next
      <4>5. next = three
        BY <4>1, <4>2, <4>3, <4>4
      <4> QED BY <3>2, <4>5 DEF three
    <3>3. CASE p.tracer = "prestate" /\ t \notin acted
      <4>1. seen = Is("reading", "none", w.left)
        BY <2>5, <3>3
      <4>2. next = [seen EXCEPT !.at = "done"]
        <5> HIDE DEF seen
        <5> QED BY <3>3
      <4> HIDE DEF seen, next
      <4> QED BY <3>3, <4>1, <4>2
    <3> QED BY <1>3, <3>1, <3>2, <3>3
  <2>7. Involved(t, p.top) \in SUBSET Addresses
    BY TouchedAreAddresses
  <2> HIDE DEF next
  <2>8. next \in Work /\ next.at \notin {"none", "failed"}
    BY <1>3, <2>6, <2>7 DEF Work
  <2>9. WorkFine(k, p, t, next)
    BY <1>3, <2>2, <2>4, <2>6 DEF WorkFine, StatesFine
  <2>10. \A u \in TracedTxs, top \in BOOLEAN : stateCache'[<<u, top>>] = stateCache[<<u, top>>]
    BY <1>2
  <2> QED BY <1>1, <1>5, <2>1, <2>2, <2>3, <2>8, <2>9, <2>10, WorkKeeps
<1>6. \/ Fails1(q, t) /\ UNCHANGED tooEarly
      \/ /\ Working1(q, t, next)
         /\ tooEarly' = IF t \in acted THEN tooEarly ELSE tooEarly \cup {t}
  BY <1>1 DEF ReadActions
<1> HIDE DEF next
<1> QED BY <1>4, <1>5, <1>6

LEMMA ReadTracedResultKeeps ==
  ASSUME TracingInv, NEW q \in Tracers, NEW t \in TracedTxs, ReadTracedResult(q, t)
  PROVE  TracingInv'
<1>1. PICK p \in TraceParams, w \in Work :
        /\ p = tracing[q].param /\ w = tracing[q].work[t] /\ WorkFine(World, p, t, w)
        /\ w = [at |-> w.at, actions |-> w.actions, result |-> w.result,
                left |-> w.left, touched |-> w.touched]
  BY WorkTyped
<1>2. w.at = "reading" /\ KeepTraces /\ KeepHistory /\ UNCHANGED stateCache
  BY <1>1 DEF ReadTracedResult
<1>3. CASE Fails1(q, t)
  BY <1>1, <1>2, <1>3, Fails1Keeps
<1>4. ASSUME NEW found \in {"null", "found"}, Working1(q, t, [w EXCEPT !.result = found])
      PROVE  TracingInv'
  <2> DEFINE v == [w EXCEPT !.result = found]
  <2>1. v \in Work /\ v.at = "reading" /\ v.actions = w.actions /\ v.touched = w.touched
        /\ v.left = w.left
    BY <1>2 DEF Work
  <2> HIDE DEF v
  <2>2. WorkFine(World, p, t, v)
    BY <1>1, <1>2, <2>1 DEF WorkFine
  <2>3. Working1(q, t, v)
    BY <1>4 DEF v
  <2> QED BY <1>1, <1>2, <2>1, <2>2, <2>3, WorkKeepsAlone
<1> QED BY <1>1, <1>3, <1>4 DEF ReadTracedResult

LEMMA FormatCallsKeeps ==
  ASSUME TracingInv, NEW q \in Tracers, NEW t \in TracedTxs, FormatCalls(q, t) PROVE TracingInv'
<1>1. PICK p \in TraceParams, w \in Work :
        /\ p = tracing[q].param /\ w = tracing[q].work[t] /\ WorkFine(World, p, t, w)
        /\ w = [at |-> w.at, actions |-> w.actions, result |-> w.result,
                left |-> w.left, touched |-> w.touched]
  BY WorkTyped
<1>2. w.at = "reading" /\ KeepTraces /\ KeepHistory /\ UNCHANGED stateCache
  BY <1>1 DEF FormatCalls
<1>3. CASE Fails1(q, t)
  BY <1>1, <1>2, <1>3, Fails1Keeps
<1>4. ASSUME NEW touched \in SUBSET Addresses, Traces1(q, t, touched),
             \/ touched = {} /\ w.actions = "none"
             \/ touched = Involved(t, p.top)
      PROVE  TracingInv'
  <2> DEFINE v == [at |-> "done", actions |-> w.actions, result |-> w.result,
                   left |-> w.left, touched |-> touched]
  <2>1. Working1(q, t, v)
    BY <1>1, <1>4, TracesMake
  <2>2. v \in Work
    BY <1>4 DEF Work
  <2>3. p.tracer = "prestate" => StatesFine(World, t, p.top, touched)
    BY <1>1, <1>4 DEF StatesFine, WorkFine
  <2>4. v.at = "done" /\ WorkFine(World, p, t, v)
    BY <1>1, <1>2, <1>4, <2>3 DEF WorkFine
  <2> HIDE DEF v
  <2> QED BY <1>1, <1>2, <2>1, <2>2, <2>4, WorkKeepsAlone
<1>5. Involved(t, p.top) \in SUBSET Addresses
  BY TouchedAreAddresses
<1>6. CASE w.actions = "none" /\ Traces1(q, t, {})
  BY <1>4, <1>6
<1>7. CASE Traces1(q, t, Involved(t, p.top))
  BY <1>4, <1>5, <1>7
<1> QED BY <1>1, <1>3, <1>6, <1>7 DEF FormatCalls

(* An address is looked up: found, or remembered as failed.                *)
LEMMA ReadEntityKeeps ==
  ASSUME TracingInv, NEW q \in Tracers, NEW t \in TracedTxs, NEW a \in Addresses, ReadEntity(q, t, a)
  PROVE  TracingInv'
<1>1. PICK p \in TraceParams, w \in Work :
        /\ p = tracing[q].param /\ w = tracing[q].work[t] /\ WorkFine(World, p, t, w)
        /\ w = [at |-> w.at, actions |-> w.actions, result |-> w.result,
                left |-> w.left, touched |-> w.touched]
  BY WorkTyped
<1>2. w.at = "entities" /\ a \in w.left /\ KeepTraces /\ UNCHANGED <<stateCache, tooEarly>>
  BY <1>1 DEF ReadEntity
<1>3. w.left \in SUBSET Addresses /\ w.touched \in SUBSET Addresses
      /\ w.actions \in {"unread", "some", "none"} /\ w.result \in {"unread", "found", "null"}
  BY DEF Work
<1> DEFINE Is(left, touched) == [at |-> "entities", actions |-> w.actions, result |-> w.result,
                                 left |-> left, touched |-> touched]
           left == w.left \ {a}
           more == w.touched \cup {a}
<1>4. ASSUME NEW touched, touched = more \/ touched = w.touched, Working1(q, t, Is(left, touched)),
             \/ unresolved' = unresolved /\ a \in touched
             \/ unresolved' = unresolved \cup {<<t, a>>}
      PROVE  TracingInv'
  <2> DEFINE v == Is(left, touched)
  <2>1. PICK k : k = World'
    OBVIOUS
  <2>2. Grows(World, k)
    BY <1>2, <1>4, <2>1 DEF World, Grows, KeepTraces, KeepConfig
  <2>3. TracingTypes' /\ UNCHANGED traceCache
    BY <1>2, <1>4 DEF TracingInv, TracingTypes, KeepTraces, KeepConfig, KeepMirror
  <2>4. TxsOf(k, p) = TxsOf(World, p) /\ (a \in touched \/ <<t, a>> \in k.lost)
    BY <1>4, <2>1, <2>2, FineGrows DEF World
  <2>5. v \in Work /\ v.at = "entities" /\ v.actions = w.actions /\ v.left = left
        /\ v.touched = touched
    BY <1>3, <1>4 DEF Work
  <2>6. WorkFine(k, p, t, w)
    BY <1>1, <2>1, <2>2, FineGrows
  <2>7. WorkFine(k, p, t, v)
    <3>1. left \cup touched \subseteq Involved(t, p.top)
      BY <1>2, <1>4, <2>6 DEF WorkFine
    <3>2. ASSUME NEW b \in Involved(t, p.top) \ (left \cup touched) PROVE <<t, b>> \in k.lost
      BY <1>2, <1>4, <2>4, <2>6, <3>2 DEF WorkFine
    <3> HIDE DEF v, left
    <3> QED BY <1>2, <2>5, <2>6, <3>1, <3>2 DEF WorkFine
  <2>8. \A u \in TracedTxs, top \in BOOLEAN : stateCache'[<<u, top>>] = stateCache[<<u, top>>]
    BY <1>2
  <2> HIDE DEF v
  <2>9. Working1(q, t, v)
    BY <1>4 DEF v
  <2> QED BY <1>1, <2>1, <2>2, <2>3, <2>5, <2>7, <2>8, <2>9, WorkKeeps
<1>5. [w EXCEPT !.left = left] = Is(left, w.touched)
  BY <1>2 DEF Work
<1>6. [w EXCEPT !.left = @ \ {a}, !.touched = @ \cup {a}] = Is(left, more)
  <2>1. [Is(left, w.touched) EXCEPT !.touched = more] = Is(left, more)
    OBVIOUS
  <2>2. [w EXCEPT !.left = @ \ {a}, !.touched = @ \cup {a}]
          = [[w EXCEPT !.left = left] EXCEPT !.touched = more]
    BY DEF Work
  <2> HIDE DEF Is, left, more
  <2> QED BY <1>5, <2>1, <2>2
<1>7. \/ Working1(q, t, Is(left, more)) /\ UNCHANGED unresolved
      \/ Working1(q, t, Is(left, w.touched)) /\ unresolved' = unresolved \cup {<<t, a>>}
  <2>1. \/ Working1(q, t, [w EXCEPT !.left = @ \ {a}, !.touched = @ \cup {a}]) /\ UNCHANGED unresolved
        \/ Working1(q, t, [w EXCEPT !.left = left]) /\ unresolved' = unresolved \cup {<<t, a>>}
    BY <1>1 DEF ReadEntity
  <2> HIDE DEF Is, more
  <2> QED BY <1>5, <1>6, <2>1
<1>8. CASE Working1(q, t, Is(left, w.touched)) /\ unresolved' = unresolved \cup {<<t, a>>}
  BY <1>4, <1>8
<1>9. CASE Working1(q, t, Is(left, more)) /\ UNCHANGED unresolved
  BY <1>4, <1>9
<1> QED BY <1>7, <1>8, <1>9

LEMMA StoreStatesKeeps ==
  ASSUME TracingInv, NEW q \in Tracers, NEW t \in TracedTxs, StoreStates(q, t) PROVE TracingInv'
<1>1. PICK p \in TraceParams, w \in Work :
        /\ p = tracing[q].param /\ w = tracing[q].work[t] /\ WorkFine(World, p, t, w)
        /\ w = [at |-> w.at, actions |-> w.actions, result |-> w.result,
                left |-> w.left, touched |-> w.touched]
  BY WorkTyped
<1>2. /\ w.at = "entities" /\ w.left = {} /\ Traces1(q, t, w.touched) /\ KeepTraces /\ KeepHistory
      /\ stateCache' = [stateCache EXCEPT ![<<t, p.top>>] = w.touched]
  BY <1>1 DEF StoreStates, StateKey
<1>3. w.touched \in SUBSET Addresses /\ p.top \in BOOLEAN
  BY ParamsTyped DEF Work
<1>4. StatesFine(World, t, p.top, w.touched)
  BY <1>1, <1>2 DEF StatesFine, WorkFine
<1> DEFINE v == [at |-> "done", actions |-> w.actions, result |-> w.result,
                 left |-> w.left, touched |-> w.touched]
<1>5. Working1(q, t, v)
  BY <1>1, <1>2, TracesMake
<1>6. v \in Work /\ v.at = "done"
  BY DEF Work
<1>7. WorkFine(World, p, t, v)
  BY <1>1, <1>2, <1>4 DEF WorkFine
<1>8. PICK k : k = World
  OBVIOUS
<1>9. World' = k /\ Grows(World, k)
  BY <1>2, <1>8 DEF World, Grows, KeepTraces, KeepConfig, KeepHistory
<1>10. TracingTypes' /\ UNCHANGED traceCache
  <2>1. stateCache' \in [TracedTxs \X BOOLEAN -> (SUBSET Addresses) \cup {NoStates}]
    BY <1>2, <1>3 DEF TracingInv, TracingTypes
  <2> QED BY <1>2, <2>1
          DEF TracingInv, TracingTypes, KeepTraces, KeepConfig, KeepMirror, KeepHistory
<1>11. ASSUME NEW u \in TracedTxs, NEW top \in BOOLEAN
       PROVE  \/ stateCache'[<<u, top>>] = stateCache[<<u, top>>]
              \/ CachedStatesFine(k, u, top, stateCache'[<<u, top>>])
  <2>1. stateCache'[<<u, top>>] = IF <<u, top>> = <<t, p.top>> THEN w.touched
                                  ELSE stateCache[<<u, top>>]
    BY <1>2 DEF TracingInv, TracingTypes
  <2>2. CASE <<u, top>> = <<t, p.top>>
    BY <1>4, <1>8, <2>1, <2>2 DEF CachedStatesFine
  <2> QED BY <2>1, <2>2
<1> HIDE DEF v
<1> QED BY <1>1, <1>5, <1>6, <1>7, <1>8, <1>9, <1>10, <1>11, WorkKeeps

LEMMA TracingStep == TracingInv /\ [TracingNext]_traceVars => TracingInv'
<1> SUFFICES ASSUME TracingInv, [TracingNext]_traceVars PROVE TracingInv'
  OBVIOUS
<1>1. CASE UNCHANGED traceVars
  BY <1>1 DEF traceVars, TracingInv, TracingTypes, World
<1> QED BY <1>1, WrittenKeeps, TraceBeginKeeps, ReadTracedBlockKeeps, ReadResultsKeeps, OpcodesKeep,
           AllTracedKeeps, CachedStatesKeeps, ReadActionsKeeps, ReadTracedResultKeeps,
           FormatCallsKeeps, ReadEntityKeeps, StoreStatesKeeps
        DEF TracingNext

(* Whatever is written when, whichever look-ups fail, whoever asks at the  *)
(* same time: a trace is whole but for what could not be looked up, and so *)
(* are the traces and states that are kept (callTracer, prestateTracer).   *)
THEOREM TracesAreRight == TracingSpec => []TracesRight
<1>1. TracingInv => TracesRight
  <2> SUFFICES ASSUME TracingInv PROVE TracesRight
    OBVIOUS
  <2>1. TraceTypeOK
    BY DEF TracingInv, TracingTypes, TraceTypeOK, TraceRequests, Work, CachedTraceFine
  <2>2. ASSUME NEW q \in Tracers
        PROVE  /\ tracing[q].param \in TraceParams /\ AnswerFine(World, tracing[q].param, tracing[q].answer)
               /\ TracedBy(q) = TxsOf(World, tracing[q].param)
    BY RequestsTyped DEF RequestFine, TracedBy, TxsOf, World
  <2>3. CallTraceIsWhole
    BY <2>2 DEF CallTraceIsWhole, TracesOf, AnswerFine, World
  <2>4. StatesMissOnlyFailed
    BY <2>2 DEF StatesMissOnlyFailed, TracesOf, AnswerFine, StatesFine, World
  <2> QED BY <2>1, <2>3, <2>4 DEF TracesRight
<1> QED BY <1>1, TracingStarts, TracingStep, PTL DEF TracingSpec

-----------------------------------------------------------------------------

(***************************************************************************)
(* Blocks: what a request has read while the block was being imported, for *)
(* any transactions, limits and numbers of attempts.                       *)
(***************************************************************************)

(* The block, and how much of it can be seen: that only grows.             *)
BlockWorld == [results |-> HasResult, logs |-> HasLog, refused |-> Refused, whole |-> imported,
               seen |-> Visible(result)]
BlockGrows(b, c) ==
  /\ c.results = b.results /\ c.logs = b.logs /\ c.refused = b.refused
  /\ (b.whole => c.whole) /\ b.seen \subseteq c.seen

LookRequests ==
  [pc : {"idle", "block", "rows", "put", "error", "done"},
   op : BlockOps \cup TxOps, tx : Txs, todo : SUBSET {"results", "logs"},
   resultTries : 0..RetryCount, logTries : 0..RetryCount,
   results : SUBSET Txs, logs : SUBSET Txs, immature : SUBSET Txs,
   before : SUBSET Txs, answer : SomeAnswer]

AnswerGood(b, op, t, a) ==
  /\ ~a.null =>
       /\ RetryCount > 0 /\ op # "receipts" => a.immature = {}
       /\ op \in {"hashes", "details"} =>
            a.listed = Txs \ b.refused /\ a.regular = b.results \ b.refused
       /\ op = "receipts" /\ b.results # {} => a.listed = Txs \ b.refused
  /\ op \in TxOps /\ t \in a.before => t \in a.regular

(* What was read of a block that is whole.                                 *)
BlockRead(b, r) ==
  /\ b.whole
  /\ "results" \notin r.todo =>
       r.results = b.results /\ (RetryCount > 0 /\ r.op # "receipts" => r.immature = {})
  /\ r.op = "receipts" /\ "results" \in r.todo => "logs" \notin r.todo
  /\ "logs" \notin r.todo =>
       \/ r.logs = b.logs
       \/ r.op = "receipts" /\ ("results" \in r.todo \/ b.results = {})

(* What was read of one transaction.                                       *)
TxRead(b, r) ==
  /\ r.before \subseteq b.seen
  /\ "results" \notin r.todo =>
       /\ r.tx \in r.before => r.results = {r.tx}
       /\ RetryCount > 0 => r.immature = {}

LookGood(b, r) ==
  /\ r.pc = "block" => r.op \in BlockOps /\ r.todo = {"results"}
  /\ r.pc = "rows" /\ r.op \in BlockOps => BlockRead(b, r)
  /\ r.pc = "rows" /\ r.op \in TxOps => TxRead(b, r)
  /\ r.pc \in {"put", "done"} => AnswerGood(b, r.op, r.tx, r.answer)
  /\ RetryCount > 0 => r.resultTries < RetryCount /\ r.logTries < RetryCount

MirrorTypes ==
  /\ kindOf \in BlockTxs
  /\ result \in [Txs -> Rows] /\ log \in [Txs -> Rows] /\ imported \in BOOLEAN
  /\ Visible(result) \subseteq HasResult /\ Visible(log) \subseteq HasLog
  /\ imported => HasResult \subseteq Visible(result) /\ HasLog \subseteq Visible(log)
  /\ resultCache \subseteq Txs /\ \A t \in resultCache : result[t] = "mature"

BlockInv ==
  /\ MirrorTypes
  /\ kept \in [BlockOps \cup TxOps -> [Txs -> SomeAnswer]]
  /\ look \in [Lookers -> LookRequests]
  /\ looks \in 0..MaxLooks
  /\ \A q \in Lookers : LookGood(BlockWorld, look[q])
  /\ \A op \in BlockOps \cup TxOps, t \in Txs : AnswerGood(BlockWorld, op, t, kept[op][t])

-----------------------------------------------------------------------------

LEMMA BlockBounds == RetryCount \in Nat /\ MaxRows \in Nat /\ MaxDetailed \in Nat /\ MaxLooks \in Nat
BY BlockConstants

LEMMA OpsDiffer ==
  /\ BlockOps = {"hashes", "details", "receipts"} /\ TxOps = {"transaction", "receipt"}
  /\ BlockOps \cap TxOps = {}
BY DEF BlockOps, TxOps

LEMMA IdleLookFields ==
  /\ IdleLook \in LookRequests /\ IdleLook.pc = "idle" /\ IdleLook.todo = {}
  /\ IdleLook.resultTries = 0 /\ IdleLook.logTries = 0
  /\ NullAnswer \in SomeAnswer /\ NullAnswer.null /\ NullAnswer.before = {}
<1>1. NullAnswer \in SomeAnswer /\ NullAnswer.null /\ NullAnswer.before = {}
  BY DEF NullAnswer, SomeAnswer
<1>2. (CHOOSE t \in Txs : TRUE) \in Txs
  BY BlockConstants
<1> QED BY <1>1, <1>2, BlockBounds DEF IdleLook, LookRequests, BlockOps

LEMMA LookGrows ==
  ASSUME NEW b, NEW c, BlockGrows(b, c)
  PROVE  /\ \A r : LookGood(b, r) => LookGood(c, r)
         /\ \A op, t, a : AnswerGood(b, op, t, a) => AnswerGood(c, op, t, a)
<1>1. \A op, t, a : AnswerGood(b, op, t, a) => AnswerGood(c, op, t, a)
  BY DEF AnswerGood, BlockGrows
<1>2. \A r : BlockRead(b, r) => BlockRead(c, r)
  BY DEF BlockRead, BlockGrows
<1>3. \A r : TxRead(b, r) => TxRead(c, r)
  BY DEF TxRead, BlockGrows
<1> QED BY <1>1, <1>2, <1>3 DEF LookGood

LEMMA BlockStarts == BlockInit => BlockInv
<1> SUFFICES ASSUME BlockInit PROVE BlockInv
  OBVIOUS
<1>1. MirrorTypes
  BY DEF BlockInit, MirrorTypes, Rows, Visible
<1>2. ASSUME NEW b, NEW op, NEW t PROVE AnswerGood(b, op, t, NullAnswer)
  BY IdleLookFields DEF AnswerGood
<1>3. ASSUME NEW b PROVE LookGood(b, IdleLook)
  BY IdleLookFields, BlockBounds DEF LookGood
<1>4. /\ kept \in [BlockOps \cup TxOps -> [Txs -> SomeAnswer]]
      /\ \A op \in BlockOps \cup TxOps, t \in Txs : kept[op][t] = NullAnswer
      /\ look \in [Lookers -> LookRequests] /\ \A q \in Lookers : look[q] = IdleLook
      /\ looks \in 0..MaxLooks
  BY IdleLookFields, BlockBounds DEF BlockInit
<1> QED BY <1>1, <1>2, <1>3, <1>4 DEF BlockInv

(* The mirror node imports a row, or the block.                            *)
LEMMA ImportKeeps == ASSUME BlockInv, Import PROVE BlockInv'
<1>1. UNCHANGED <<kindOf, resultCache, kept, look, looks>>
  BY DEF Import, BlockImported, ResultImported, LogImported
<1>2. HasResult' = HasResult /\ HasLog' = HasLog /\ Refused' = Refused
  BY <1>1 DEF HasResult, HasLog, Refused
<1>3. MirrorTypes' /\ Visible(result) \subseteq Visible(result') /\ (imported => imported')
  <2>1. MirrorTypes
    BY DEF BlockInv
  <2>2. CASE BlockImported
    BY <2>1, <2>2, <1>1, <1>2 DEF BlockImported, MirrorTypes, Visible
  <2>3. ASSUME NEW t \in Txs, ResultImported(t)
        PROVE  MirrorTypes' /\ Visible(result) \subseteq Visible(result') /\ (imported => imported')
    <3>1. /\ UNCHANGED <<log, imported>> /\ t \in HasResult
          /\ result' = [result EXCEPT ![t] = After(result[t])]
      BY <2>3 DEF ResultImported
    <3>2. After(result[t]) \in {"immature", "mature"} /\ (result[t] = "mature" => After(result[t]) = "mature")
      BY DEF After
    <3>3. result' \in [Txs -> Rows] /\ \A u \in Txs : u # t => result'[u] = result[u]
      BY <2>1, <3>1, <3>2 DEF MirrorTypes, Rows
    <3>4. result'[t] = After(result[t])
      BY <2>1, <3>1 DEF MirrorTypes
    <3>5. Visible(result') = Visible(result) \cup {t}
      BY <2>1, <3>2, <3>3, <3>4 DEF Visible
    <3>6. \A u \in resultCache : result'[u] = "mature"
      BY <2>1, <3>2, <3>3, <3>4 DEF MirrorTypes
    <3> QED BY <2>1, <3>1, <3>3, <3>5, <3>6, <1>1, <1>2 DEF MirrorTypes
  <2>4. ASSUME NEW t \in Txs, LogImported(t)
        PROVE  MirrorTypes' /\ Visible(result) \subseteq Visible(result') /\ (imported => imported')
    <3>1. /\ UNCHANGED <<result, imported>> /\ t \in HasLog
          /\ log' = [log EXCEPT ![t] = After(log[t])]
      BY <2>4 DEF LogImported
    <3>2. After(log[t]) \in {"immature", "mature"}
      BY DEF After
    <3>3. log' \in [Txs -> Rows] /\ \A u \in Txs : u # t => log'[u] = log[u]
      BY <2>1, <3>1, <3>2 DEF MirrorTypes, Rows
    <3>4. log'[t] = After(log[t])
      BY <2>1, <3>1 DEF MirrorTypes
    <3>5. Visible(log') = Visible(log) \cup {t}
      BY <2>1, <3>2, <3>3, <3>4 DEF Visible
    <3> QED BY <2>1, <3>1, <3>3, <3>5, <1>1, <1>2 DEF MirrorTypes
  <2> QED BY <2>2, <2>3, <2>4 DEF Import
<1>4. PICK b, c : b = BlockWorld /\ c = BlockWorld'
  OBVIOUS
<1>5. BlockGrows(b, c)
  BY <1>2, <1>3, <1>4 DEF BlockWorld, BlockGrows
<1>6. ASSUME NEW q \in Lookers PROVE LookGood(c, look'[q])
  <2>1. LookGood(b, look[q])
    BY <1>4 DEF BlockInv
  <2>2. LookGood(c, look[q])
    BY <2>1, <1>5, LookGrows
  <2> QED BY <2>2, <1>1
<1>7. ASSUME NEW op \in BlockOps \cup TxOps, NEW t \in Txs PROVE AnswerGood(c, op, t, kept'[op][t])
  <2>1. AnswerGood(b, op, t, kept[op][t])
    BY <1>4 DEF BlockInv
  <2>2. AnswerGood(c, op, t, kept[op][t])
    BY <2>1, <1>5, LookGrows
  <2> QED BY <2>2, <1>1
<1> QED BY <1>1, <1>3, <1>4, <1>6, <1>7 DEF BlockInv

(* A step of one request.                                                  *)
LEMMA LookStep ==
  ASSUME BlockInv, NEW q \in Lookers, NEW r \in LookRequests, look' = [look EXCEPT ![q] = r],
         LookGood(BlockWorld, r), UNCHANGED mirror, looks' \in 0..MaxLooks,
         resultCache' \subseteq Txs, \A t \in resultCache' : result[t] = "mature",
         UNCHANGED kept \/ \E op \in BlockOps \cup TxOps, t \in Txs, a \in SomeAnswer :
           AnswerGood(BlockWorld, op, t, a) /\ kept' = [kept EXCEPT ![op][t] = a]
  PROVE  BlockInv'
<1>1. BlockWorld' = BlockWorld
  BY DEF BlockWorld, mirror, HasResult, HasLog, Refused, Visible
<1>2. MirrorTypes'
  BY DEF BlockInv, MirrorTypes, mirror, HasResult, HasLog, Visible
<1>3. look' \in [Lookers -> LookRequests] /\ \A p \in Lookers : LookGood(BlockWorld, look'[p])
  BY DEF BlockInv
<1>4. /\ kept' \in [BlockOps \cup TxOps -> [Txs -> SomeAnswer]]
      /\ \A op \in BlockOps \cup TxOps, t \in Txs : AnswerGood(BlockWorld, op, t, kept'[op][t])
  BY DEF BlockInv
<1> QED BY <1>1, <1>2, <1>3, <1>4 DEF BlockInv

LEMMA ConcludeMakes ==
  ASSUME NEW q \in Lookers, look \in [Lookers -> LookRequests],
         NEW pc \in {"idle", "block", "rows", "put", "error", "done"}, NEW answer \in SomeAnswer
  PROVE  \E r \in LookRequests :
           /\ Conclude(q, pc, answer) = [look EXCEPT ![q] = r]
           /\ r.pc = pc /\ r.op = look[q].op /\ r.tx = look[q].tx /\ r.answer = answer
           /\ r.resultTries = 0 /\ r.logTries = 0 /\ r.todo = {}
<1>1. PICK o \in LookRequests : o = look[q]
  OBVIOUS
<1> DEFINE r1 == [IdleLook EXCEPT !.pc = pc]
           r2 == [r1 EXCEPT !.op = o.op]
           r3 == [r2 EXCEPT !.tx = o.tx]
           r4 == [r3 EXCEPT !.answer = answer]
<1>2. o.op \in BlockOps \cup TxOps /\ o.tx \in Txs
  BY DEF LookRequests
<1>3. r1 \in LookRequests /\ r1.pc = pc /\ r1.todo = {} /\ r1.resultTries = 0 /\ r1.logTries = 0
  BY IdleLookFields DEF LookRequests
<1> HIDE DEF r1
<1>4. r2 \in LookRequests /\ r2.op = o.op /\ r2.pc = pc /\ r2.todo = {} /\ r2.resultTries = 0 /\ r2.logTries = 0
  BY <1>2, <1>3 DEF LookRequests
<1> HIDE DEF r2
<1>5. r3 \in LookRequests /\ r3.tx = o.tx /\ r3.op = o.op /\ r3.pc = pc /\ r3.todo = {}
      /\ r3.resultTries = 0 /\ r3.logTries = 0
  BY <1>2, <1>4 DEF LookRequests
<1> HIDE DEF r3
<1>6. r4 \in LookRequests /\ r4.answer = answer /\ r4.tx = o.tx /\ r4.op = o.op /\ r4.pc = pc
      /\ r4.todo = {} /\ r4.resultTries = 0 /\ r4.logTries = 0
  BY <1>5 DEF LookRequests
<1>7. Conclude(q, pc, answer) = [look EXCEPT ![q] = r4]
  BY <1>1 DEF Conclude, r1, r2, r3
<1> HIDE DEF r4
<1> QED BY <1>1, <1>6, <1>7

(* A request that starts, and one whose rows were read.                    *)
LookStarted(pc, op, t, before) ==
  [IdleLook EXCEPT !.pc = pc, !.op = op, !.tx = t, !.todo = {"results"}, !.before = before]
LookKept(op, t, answer) ==
  [IdleLook EXCEPT !.pc = "done", !.op = op, !.tx = t, !.answer = answer]

LEMMA StartMakes ==
  ASSUME NEW pc \in {"block", "rows"}, NEW op \in BlockOps \cup TxOps, NEW t \in Txs,
         NEW before \in SUBSET Txs
  PROVE  \E r \in LookRequests :
           /\ LookStarted(pc, op, t, before) = r
           /\ r.pc = pc /\ r.op = op /\ r.tx = t /\ r.todo = {"results"} /\ r.before = before
           /\ r.resultTries = 0 /\ r.logTries = 0
<1> DEFINE r1 == [IdleLook EXCEPT !.pc = pc]
           r2 == [r1 EXCEPT !.op = op]
           r3 == [r2 EXCEPT !.tx = t]
           r4 == [r3 EXCEPT !.todo = {"results"}]
           r5 == [r4 EXCEPT !.before = before]
<1>1. r1 \in LookRequests /\ r1.pc = pc /\ r1.resultTries = 0 /\ r1.logTries = 0
  BY IdleLookFields DEF LookRequests
<1> HIDE DEF r1
<1>2. r2 \in LookRequests /\ r2.op = op /\ r2.pc = pc /\ r2.resultTries = 0 /\ r2.logTries = 0
  BY <1>1 DEF LookRequests
<1> HIDE DEF r2
<1>3. r3 \in LookRequests /\ r3.tx = t /\ r3.op = op /\ r3.pc = pc /\ r3.resultTries = 0 /\ r3.logTries = 0
  BY <1>2 DEF LookRequests
<1> HIDE DEF r3
<1>4. r4 \in LookRequests /\ r4.todo = {"results"} /\ r4.tx = t /\ r4.op = op /\ r4.pc = pc
      /\ r4.resultTries = 0 /\ r4.logTries = 0
  BY <1>3 DEF LookRequests
<1> HIDE DEF r4
<1>5. r5 \in LookRequests /\ r5.before = before /\ r5.todo = {"results"} /\ r5.tx = t /\ r5.op = op
      /\ r5.pc = pc /\ r5.resultTries = 0 /\ r5.logTries = 0
  BY <1>4 DEF LookRequests
<1>6. LookStarted(pc, op, t, before) = r5
  BY DEF LookStarted, r1, r2, r3, r4
<1> HIDE DEF r5
<1> QED BY <1>5, <1>6

LEMMA CachedMakes ==
  ASSUME NEW op \in BlockOps \cup TxOps, NEW t \in Txs, NEW answer \in SomeAnswer
  PROVE  \E r \in LookRequests :
           /\ LookKept(op, t, answer) = r
           /\ r.pc = "done" /\ r.op = op /\ r.tx = t /\ r.answer = answer
           /\ r.resultTries = 0 /\ r.logTries = 0
<1> DEFINE r1 == [IdleLook EXCEPT !.pc = "done"]
           r2 == [r1 EXCEPT !.op = op]
           r3 == [r2 EXCEPT !.tx = t]
           r4 == [r3 EXCEPT !.answer = answer]
<1>1. r1 \in LookRequests /\ r1.pc = "done" /\ r1.resultTries = 0 /\ r1.logTries = 0
  BY IdleLookFields DEF LookRequests
<1> HIDE DEF r1
<1>2. r2 \in LookRequests /\ r2.op = op /\ r2.pc = "done" /\ r2.resultTries = 0 /\ r2.logTries = 0
  BY <1>1 DEF LookRequests
<1> HIDE DEF r2
<1>3. r3 \in LookRequests /\ r3.tx = t /\ r3.op = op /\ r3.pc = "done" /\ r3.resultTries = 0 /\ r3.logTries = 0
  BY <1>2 DEF LookRequests
<1> HIDE DEF r3
<1>4. r4 \in LookRequests /\ r4.answer = answer /\ r4.tx = t /\ r4.op = op /\ r4.pc = "done"
      /\ r4.resultTries = 0 /\ r4.logTries = 0
  BY <1>3 DEF LookRequests
<1>5. LookKept(op, t, answer) = r4
  BY DEF LookKept, r1, r2, r3
<1> HIDE DEF r4
<1> QED BY <1>4, <1>5

LEMMA RowsMake ==
  ASSUME NEW q \in Lookers, look \in [Lookers -> LookRequests], look[q].pc = "rows",
         NEW rows \in SUBSET Txs, "results" \in look[q].todo, GotResults(q, rows)
  PROVE  \E r \in LookRequests :
           /\ look' = [look EXCEPT ![q] = r]
           /\ r.pc = "rows" /\ r.op = look[q].op /\ r.tx = look[q].tx /\ r.before = look[q].before
           /\ r.resultTries = look[q].resultTries /\ r.logTries = look[q].logTries
           /\ r.logs = look[q].logs /\ r.results = rows /\ r.immature = rows \cap Immature(result)
           /\ r.todo = IF \/ r.op = "receipts" /\ rows # {}
                          \/ r.op \in TxOps /\ rows = {}
                       THEN {"logs"} ELSE look[q].todo \ {"results"}
<1>1. PICK o \in LookRequests : o = look[q]
  OBVIOUS
<1>2. PICK m \in SUBSET Txs : m = rows \cap Immature(result)
  OBVIOUS
<1>3. PICK left \in SUBSET {"results", "logs"} :
        left = IF \/ o.op = "receipts" /\ rows # {}
                  \/ o.op \in TxOps /\ rows = {}
               THEN {"logs"} ELSE o.todo \ {"results"}
  BY DEF LookRequests
<1> DEFINE r1 == [o EXCEPT !.results = rows]
           r2 == [r1 EXCEPT !.immature = m]
           r3 == [r2 EXCEPT !.todo = left]
<1>4. /\ r1 \in LookRequests /\ r1.results = rows
      /\ r1.pc = o.pc /\ r1.op = o.op /\ r1.tx = o.tx /\ r1.before = o.before
      /\ r1.resultTries = o.resultTries /\ r1.logTries = o.logTries /\ r1.logs = o.logs
  BY DEF LookRequests
<1> HIDE DEF r1
<1>5. /\ r2 \in LookRequests /\ r2.results = rows /\ r2.immature = m
      /\ r2.pc = o.pc /\ r2.op = o.op /\ r2.tx = o.tx /\ r2.before = o.before
      /\ r2.resultTries = o.resultTries /\ r2.logTries = o.logTries /\ r2.logs = o.logs
  BY <1>4 DEF LookRequests
<1> HIDE DEF r2
<1>6. /\ r3 \in LookRequests /\ r3.results = rows /\ r3.immature = m /\ r3.todo = left
      /\ r3.pc = o.pc /\ r3.op = o.op /\ r3.tx = o.tx /\ r3.before = o.before
      /\ r3.resultTries = o.resultTries /\ r3.logTries = o.logTries /\ r3.logs = o.logs
  BY <1>5 DEF LookRequests
<1>7. look' = [look EXCEPT ![q] = r3]
  BY <1>1, <1>2, <1>3 DEF GotResults, r1, r2
<1> HIDE DEF r3
<1> QED BY <1>1, <1>2, <1>3, <1>6, <1>7, ZenonT(40)

(* A request that fails, or is answered at once.                           *)
LEMMA FailKeeps ==
  ASSUME BlockInv, NEW q \in Lookers, LookFails(q), UNCHANGED <<mirror, resultCache, kept, looks>>
  PROVE  BlockInv'
<1>1. look \in [Lookers -> LookRequests] /\ NullAnswer \in SomeAnswer
  BY IdleLookFields DEF BlockInv
<1>2. PICK r \in LookRequests :
        /\ Conclude(q, "error", NullAnswer) = [look EXCEPT ![q] = r]
        /\ r.pc = "error" /\ r.resultTries = 0 /\ r.logTries = 0
  BY <1>1, ConcludeMakes
<1>3. LookGood(BlockWorld, r)
  BY <1>2, BlockBounds DEF LookGood
<1>4. look' = [look EXCEPT ![q] = r]
  BY <1>2 DEF LookFails
<1>5. /\ UNCHANGED mirror /\ looks' \in 0..MaxLooks /\ UNCHANGED kept
      /\ resultCache' \subseteq Txs /\ \A t \in resultCache' : result[t] = "mature"
  BY DEF BlockInv, MirrorTypes
<1> QED BY <1>3, <1>4, <1>5, LookStep

(* The methods of eth.ts: what is kept is answered, or the rows are read.  *)
LEMMA LookKeeps ==
  ASSUME BlockInv, NEW q \in Lookers, NEW op \in BlockOps \cup TxOps, NEW t \in Txs, Look(q, op, t)
  PROVE  BlockInv'
<1>1. /\ UNCHANGED mirror /\ looks' \in 0..MaxLooks /\ UNCHANGED kept
      /\ resultCache' \subseteq Txs /\ \A u \in resultCache' : result[u] = "mature"
  BY BlockBounds DEF BlockInv, MirrorTypes, Look, KeepLookCaches
<1>2. CASE look' = [look EXCEPT ![q] = [IdleLook EXCEPT !.pc = "done", !.op = op, !.tx = t,
                                                        !.answer = kept[op][t]]]
  <2>1. PICK a \in SomeAnswer : a = kept[op][t] /\ AnswerGood(BlockWorld, op, t, a)
    BY DEF BlockInv
  <2>2. PICK r \in LookRequests :
          /\ LookKept(op, t, a) = r
          /\ r.pc = "done" /\ r.op = op /\ r.tx = t /\ r.answer = a
          /\ r.resultTries = 0 /\ r.logTries = 0
    BY CachedMakes
  <2>3. look' = [look EXCEPT ![q] = r]
    BY <1>2, <2>1, <2>2 DEF LookKept
  <2>4. LookGood(BlockWorld, r)
    BY <2>1, <2>2, BlockBounds DEF LookGood
  <2> QED BY <1>1, <2>3, <2>4, LookStep
<1>3. CASE look' = [look EXCEPT ![q] =
             [IdleLook EXCEPT !.pc = IF op \in BlockOps THEN "block" ELSE "rows", !.op = op, !.tx = t,
                              !.todo = {"results"}, !.before = Visible(result)]]
  <2>1. PICK pc \in {"block", "rows"} : pc = IF op \in BlockOps THEN "block" ELSE "rows"
    OBVIOUS
  <2>2. PICK before \in SUBSET Txs : before = Visible(result)
    BY DEF Visible
  <2>3. PICK r \in LookRequests :
          /\ LookStarted(pc, op, t, before) = r
          /\ r.pc = pc /\ r.op = op /\ r.tx = t /\ r.todo = {"results"} /\ r.before = before
          /\ r.resultTries = 0 /\ r.logTries = 0
    BY StartMakes
  <2>4. look' = [look EXCEPT ![q] = r]
    BY <1>3, <2>1, <2>2, <2>3 DEF LookStarted
  <2>5. BlockWorld.seen = before
    BY <2>2 DEF BlockWorld
  <2>6. TxRead(BlockWorld, r)
    BY <2>3, <2>5 DEF TxRead
  <2>7. LookGood(BlockWorld, r)
    BY <2>1, <2>3, <2>6, BlockBounds DEF LookGood
  <2> QED BY <1>1, <2>4, <2>7, LookStep
<1> QED BY <1>2, <1>3 DEF Look

(* getHistoricalBlockResponse: there is no block, or it is whole.          *)
LEMMA ReadBlockKeeps ==
  ASSUME BlockInv, NEW q \in Lookers, ReadBlock(q)
  PROVE  BlockInv'
<1>1. /\ UNCHANGED mirror /\ looks' \in 0..MaxLooks /\ UNCHANGED kept
      /\ resultCache' \subseteq Txs /\ \A u \in resultCache' : result[u] = "mature"
  BY BlockBounds DEF BlockInv, MirrorTypes, ReadBlock, KeepLookCaches
<1>2. look \in [Lookers -> LookRequests] /\ LookGood(BlockWorld, look[q]) /\ look[q].pc = "block"
  BY DEF BlockInv, ReadBlock
<1>3. CASE look' = Conclude(q, "done", NullAnswer)
  <2>1. NullAnswer \in SomeAnswer /\ NullAnswer.null /\ NullAnswer.before = {}
    BY IdleLookFields
  <2>2. PICK r \in LookRequests :
          /\ Conclude(q, "done", NullAnswer) = [look EXCEPT ![q] = r]
          /\ r.pc = "done" /\ r.answer = NullAnswer /\ r.resultTries = 0 /\ r.logTries = 0
    BY <1>2, <2>1, ConcludeMakes
  <2>3. LookGood(BlockWorld, r)
    BY <2>1, <2>2, BlockBounds DEF LookGood, AnswerGood
  <2> QED BY <1>1, <1>3, <2>2, <2>3, LookStep
<1>4. CASE /\ imported
           /\ look' = [look EXCEPT ![q].pc = "rows",
                                   ![q].todo = IF look[q].op = "receipts" THEN {"results"}
                                                                          ELSE {"results", "logs"}]
  <2>1. PICK o \in LookRequests : o = look[q]
    BY <1>2
  <2>2. PICK left \in SUBSET {"results", "logs"} :
          left = IF o.op = "receipts" THEN {"results"} ELSE {"results", "logs"}
    OBVIOUS
  <2> DEFINE r1 == [o EXCEPT !.pc = "rows"]
             r2 == [r1 EXCEPT !.todo = left]
  <2>3. /\ r1 \in LookRequests /\ r1.pc = "rows" /\ r1.op = o.op
        /\ r1.resultTries = o.resultTries /\ r1.logTries = o.logTries
    BY DEF LookRequests
  <2> HIDE DEF r1
  <2>4. /\ r2 \in LookRequests /\ r2.todo = left /\ r2.pc = "rows" /\ r2.op = o.op
        /\ r2.resultTries = o.resultTries /\ r2.logTries = o.logTries
    BY <2>3 DEF LookRequests
  <2>5. look' = [look EXCEPT ![q] = r2]
    BY <1>2, <1>4, <2>1, <2>2 DEF r1
  <2> HIDE DEF r2
  <2>6. o.op \in BlockOps /\ (RetryCount > 0 => o.resultTries < RetryCount /\ o.logTries < RetryCount)
    BY <1>2, <2>1 DEF LookGood
  <2>7. BlockWorld.whole
    BY <1>4 DEF BlockWorld
  <2>8. BlockRead(BlockWorld, r2)
    BY <2>2, <2>4, <2>7 DEF BlockRead
  <2>9. LookGood(BlockWorld, r2)
    BY <2>4, <2>6, <2>8, OpsDiffer DEF LookGood
  <2> QED BY <1>1, <2>4, <2>5, <2>9, LookStep
<1>5. CASE LookFails(q)
  BY <1>5, FailKeeps DEF ReadBlock, KeepLookCaches
<1> QED BY <1>3, <1>4, <1>5 DEF ReadBlock

(* Another attempt, or the end.                                            *)
LEMMA AgainKeeps ==
  ASSUME BlockInv, NEW q \in Lookers, look[q].pc = "rows", RetryCount > 0,
         UNCHANGED <<mirror, resultCache, kept, looks>>,
         \/ Again(q, "resultTries", look[q].resultTries)
         \/ Again(q, "logTries", look[q].logTries)
  PROVE  BlockInv'
<1>1. CASE LookFails(q)
  BY <1>1, FailKeeps
<1>2. PICK o \in LookRequests : o = look[q] /\ LookGood(BlockWorld, o)
  BY DEF BlockInv
<1>3. /\ o.resultTries \in Nat /\ o.logTries \in Nat
      /\ o.resultTries < RetryCount /\ o.logTries < RetryCount
  BY <1>2, BlockBounds DEF LookGood, LookRequests
<1>4. /\ UNCHANGED mirror /\ looks' \in 0..MaxLooks /\ UNCHANGED kept
      /\ resultCache' \subseteq Txs /\ \A u \in resultCache' : result[u] = "mature"
  BY DEF BlockInv, MirrorTypes
<1>5. look \in [Lookers -> LookRequests]
  BY DEF BlockInv
<1>6. CASE ~GivesUp(o.resultTries) /\ look' = [look EXCEPT ![q]["resultTries"] = o.resultTries + 1]
  <2> DEFINE r == [o EXCEPT !.resultTries = o.resultTries + 1]
  <2>1. o.resultTries + 1 \in 0..RetryCount /\ o.resultTries + 1 < RetryCount
    BY <1>3, <1>6, BlockBounds DEF GivesUp
  <2>2. /\ r \in LookRequests /\ r.resultTries = o.resultTries + 1 /\ r.logTries = o.logTries
        /\ r.pc = o.pc /\ r.op = o.op /\ r.tx = o.tx /\ r.todo = o.todo /\ r.results = o.results
        /\ r.logs = o.logs /\ r.immature = o.immature /\ r.before = o.before
    BY <2>1 DEF LookRequests
  <2>3. look' = [look EXCEPT ![q] = r]
    BY <1>2, <1>5, <1>6
  <2> HIDE DEF r
  <2>4. LookGood(BlockWorld, r)
    BY <1>2, <1>3, <2>1, <2>2 DEF LookGood, BlockRead, TxRead
  <2> QED BY <1>4, <2>2, <2>3, <2>4, LookStep
<1>7. CASE ~GivesUp(o.logTries) /\ look' = [look EXCEPT ![q]["logTries"] = o.logTries + 1]
  <2> DEFINE r == [o EXCEPT !.logTries = o.logTries + 1]
  <2>1. o.logTries + 1 \in 0..RetryCount /\ o.logTries + 1 < RetryCount
    BY <1>3, <1>7, BlockBounds DEF GivesUp
  <2>2. /\ r \in LookRequests /\ r.logTries = o.logTries + 1 /\ r.resultTries = o.resultTries
        /\ r.pc = o.pc /\ r.op = o.op /\ r.tx = o.tx /\ r.todo = o.todo /\ r.results = o.results
        /\ r.logs = o.logs /\ r.immature = o.immature /\ r.before = o.before
    BY <2>1 DEF LookRequests
  <2>3. look' = [look EXCEPT ![q] = r]
    BY <1>2, <1>5, <1>7
  <2> HIDE DEF r
  <2>4. LookGood(BlockWorld, r)
    BY <1>2, <1>3, <2>1, <2>2 DEF LookGood, BlockRead, TxRead
  <2> QED BY <1>4, <2>2, <2>3, <2>4, LookStep
<1> QED BY <1>1, <1>2, <1>6, <1>7 DEF Again

(* The kinds of transactions, in terms of what a block and its logs show.  *)
LEMMA KindsSplit ==
  ASSUME kindOf \in BlockTxs
  PROVE  /\ HasResult \subseteq Txs /\ HasLog = Txs \ Refused /\ Refused \subseteq HasResult
         /\ HasResult \cup HasLog = Txs /\ Refused \cap HasLog = {}
<1>1. \A t \in Txs : kindOf[t] \in TxKinds
  BY BlockConstants
<1> QED BY <1>1 DEF HasResult, HasLog, Refused, TxKinds

(* The results a request was waiting for have come.                        *)
LEMMA ResultsKeep ==
  ASSUME BlockInv, NEW q \in Lookers, look[q].pc = "rows", "results" \in look[q].todo,
         NEW rows \in SUBSET Txs, GotResults(q, rows),
         NeedsMature(q) => rows \cap Immature(result) = {},
         look[q].op \in BlockOps => rows = Visible(result),
         look[q].op \in TxOps => rows \subseteq {look[q].tx},
         look[q].op \in TxOps => {look[q].tx} \cap Visible(result) \subseteq rows,
         UNCHANGED <<mirror, kept, looks>>,
         resultCache' \subseteq Txs, \A t \in resultCache' : result[t] = "mature"
  PROVE  BlockInv'
<1>1. PICK o \in LookRequests : o = look[q] /\ LookGood(BlockWorld, o)
  BY DEF BlockInv
<1>2. look \in [Lookers -> LookRequests] /\ looks' \in 0..MaxLooks /\ MirrorTypes
  BY DEF BlockInv
<1>3. PICK r \in LookRequests :
        /\ look' = [look EXCEPT ![q] = r]
        /\ r.pc = "rows" /\ r.op = o.op /\ r.tx = o.tx /\ r.before = o.before
        /\ r.resultTries = o.resultTries /\ r.logTries = o.logTries
        /\ r.logs = o.logs /\ r.results = rows /\ r.immature = rows \cap Immature(result)
        /\ r.todo = IF \/ r.op = "receipts" /\ rows # {}
                       \/ r.op \in TxOps /\ rows = {}
                    THEN {"logs"} ELSE o.todo \ {"results"}
  BY <1>1, <1>2, RowsMake
<1>4. "results" \in o.todo /\ o.pc = "rows" /\ o.todo \in SUBSET {"results", "logs"}
      /\ o.op \in BlockOps \cup TxOps
  BY <1>1 DEF LookRequests
<1>5. RetryCount > 0 /\ r.op # "receipts" => r.immature = {}
  BY <1>1, <1>3 DEF NeedsMature
<1>6. PICK b : b = BlockWorld
  OBVIOUS
<1>7. b.seen = Visible(result) /\ b.results = HasResult
  BY <1>6 DEF BlockWorld
<1>8. CASE o.op \in BlockOps
  <2>1. BlockRead(b, o)
    BY <1>1, <1>4, <1>6, <1>8 DEF LookGood
  <2>2. rows = b.results
    <3>1. imported /\ rows = Visible(result)
      BY <1>1, <1>6, <1>8, <2>1 DEF BlockRead, BlockWorld
    <3> QED BY <3>1, <1>2, <1>7 DEF MirrorTypes
  <2>3. BlockRead(b, r)
    <3>1. b.whole /\ (RetryCount > 0 /\ r.op # "receipts" => r.immature = {}) /\ r.results = b.results
      BY <1>3, <1>5, <2>1, <2>2 DEF BlockRead
    <3>2. "results" \notin r.todo
      BY <1>3
    <3>3. CASE o.op = "receipts"
      <4>1. "logs" \notin r.todo => rows = {}
        BY <1>3, <3>3
      <4> QED BY <1>3, <2>2, <3>1, <3>2, <3>3, <4>1 DEF BlockRead
    <3>4. CASE o.op # "receipts"
      <4>1. "logs" \notin r.todo => "logs" \notin o.todo
        BY <1>3, <1>8, <3>4, OpsDiffer
      <4>2. "logs" \notin o.todo => o.logs = b.logs
        BY <2>1, <3>4 DEF BlockRead
      <4> QED BY <1>3, <3>1, <3>2, <3>4, <4>1, <4>2 DEF BlockRead
    <3> QED BY <3>3, <3>4
  <2>4. LookGood(b, r)
    BY <1>1, <1>3, <1>6, <1>8, <2>3, OpsDiffer DEF LookGood
  <2>5. LookGood(BlockWorld, r)
    BY <2>4, <1>6
  <2>6. UNCHANGED mirror /\ UNCHANGED kept
    OBVIOUS
  <2> QED BY <1>2, <1>3, <2>5, <2>6, LookStep
<1>9. CASE o.op \in TxOps
  <2>1. TxRead(b, o) /\ o.op # "receipts" /\ o.op \notin BlockOps
    BY <1>1, <1>4, <1>6, <1>9, OpsDiffer DEF LookGood
  <2>2. r.tx \in r.before => r.results = {r.tx}
    BY <1>1, <1>3, <1>7, <1>9, <2>1 DEF TxRead
  <2>3. TxRead(b, r)
    BY <1>3, <1>5, <2>1, <2>2 DEF TxRead
  <2>4. LookGood(b, r)
    BY <1>1, <1>3, <1>6, <1>9, <2>1, <2>3 DEF LookGood
  <2>5. LookGood(BlockWorld, r)
    BY <2>4, <1>6
  <2>6. UNCHANGED mirror /\ UNCHANGED kept
    OBVIOUS
  <2> QED BY <1>2, <1>3, <2>5, <2>6, LookStep
<1> QED BY <1>4, <1>8, <1>9

LEMMA FetchResultsKeeps ==
  ASSUME BlockInv, NEW q \in Lookers, FetchResults(q)
  PROVE  BlockInv'
<1>1. /\ look[q].pc = "rows" /\ "results" \in look[q].todo /\ UNCHANGED <<mirror, kept, looks>>
      /\ resultCache \subseteq Txs /\ (\A t \in resultCache : result[t] = "mature")
      /\ look[q].op \in BlockOps \cup TxOps /\ look[q].tx \in Txs
      /\ result \in [Txs -> Rows]
  BY DEF FetchResults, BlockInv, MirrorTypes, LookRequests
<1>2. CASE /\ look[q].op \in TxOps /\ look[q].tx \in resultCache /\ GotResults(q, Asked(q))
           /\ UNCHANGED resultCache
  <2>1. Asked(q) = {look[q].tx} /\ look[q].op \notin BlockOps
    BY <1>2, OpsDiffer DEF Asked
  <2>2. PICK rows \in SUBSET Txs : rows = Asked(q)
    BY <1>1, <2>1
  <2>3. rows \cap Immature(result) = {}
    BY <1>1, <1>2, <2>1, <2>2 DEF Immature
  <2>4. /\ GotResults(q, rows)
        /\ look[q].op \in BlockOps => rows = Visible(result)
        /\ look[q].op \in TxOps => rows \subseteq {look[q].tx}
        /\ look[q].op \in TxOps => {look[q].tx} \cap Visible(result) \subseteq rows
        /\ resultCache' \subseteq Txs /\ \A t \in resultCache' : result[t] = "mature"
    BY <1>1, <1>2, <2>1, <2>2
  <2> QED BY <1>1, <2>3, <2>4, ResultsKeep
<1>3. CASE LookFails(q) /\ UNCHANGED resultCache
  BY <1>1, <1>3, FailKeeps
<1>4. CASE NeedsMature(q) /\ Again(q, "resultTries", look[q].resultTries) /\ UNCHANGED resultCache
  BY <1>1, <1>4, AgainKeeps DEF NeedsMature
<1>5. CASE LET rows == Asked(q) \cap Visible(result) IN
           /\ ~NeedsMature(q) \/ rows \cap Immature(result) = {}
           /\ GotResults(q, rows)
           /\ resultCache' \in {resultCache} \cup
                (IF look[q].op \in TxOps THEN {resultCache \cup (rows \ Immature(result))} ELSE {})
  <2>1. PICK rows \in SUBSET Txs : rows = Asked(q) \cap Visible(result)
    BY DEF Visible
  <2>2. \A t \in rows \ Immature(result) : result[t] = "mature"
    BY <1>1, <2>1 DEF Visible, Immature, Rows
  <2>3. resultCache' \subseteq Txs /\ \A t \in resultCache' : result[t] = "mature"
    BY <1>1, <1>5, <2>1, <2>2
  <2>4. /\ look[q].op \in BlockOps => rows = Visible(result)
        /\ look[q].op \in TxOps => rows \subseteq {look[q].tx}
        /\ look[q].op \in TxOps => {look[q].tx} \cap Visible(result) \subseteq rows
    BY <2>1, OpsDiffer DEF Asked, Visible
  <2>5. GotResults(q, rows) /\ (NeedsMature(q) => rows \cap Immature(result) = {})
    BY <1>5, <2>1
  <2> QED BY <1>1, <2>3, <2>4, <2>5, ResultsKeep
<1> QED BY <1>2, <1>3, <1>4, <1>5 DEF FetchResults

(* getLogsWithParams: all the logs of a block, or of one transaction.      *)
LEMMA FetchLogsKeeps ==
  ASSUME BlockInv, NEW q \in Lookers, FetchLogs(q)
  PROVE  BlockInv'
<1>1. /\ look[q].pc = "rows" /\ "logs" \in look[q].todo
      /\ UNCHANGED <<mirror, resultCache, kept, looks>>
  BY DEF FetchLogs, KeepLookCaches
<1>2. CASE LookFails(q)
  BY <1>1, <1>2, FailKeeps
<1>3. CASE RetryCount > 0 /\ Again(q, "logTries", look[q].logTries)
  BY <1>1, <1>3, AgainKeeps
<1>4. CASE look' = [look EXCEPT ![q].logs = Asked(q) \cap Visible(log), ![q].todo = @ \ {"logs"}]
  <2>1. PICK o \in LookRequests : o = look[q] /\ LookGood(BlockWorld, o)
    BY DEF BlockInv
  <2>2. PICK rows \in SUBSET Txs : rows = Asked(q) \cap Visible(log)
    BY DEF Visible
  <2>3. PICK left \in SUBSET {"results", "logs"} : left = o.todo \ {"logs"}
    BY DEF LookRequests
  <2> DEFINE r1 == [o EXCEPT !.logs = rows]
             r2 == [r1 EXCEPT !.todo = left]
  <2>4. /\ r1 \in LookRequests /\ r1.logs = rows
        /\ r1.pc = o.pc /\ r1.op = o.op /\ r1.tx = o.tx /\ r1.before = o.before
        /\ r1.resultTries = o.resultTries /\ r1.logTries = o.logTries
        /\ r1.results = o.results /\ r1.immature = o.immature
    BY DEF LookRequests
  <2> HIDE DEF r1
  <2>5. /\ r2 \in LookRequests /\ r2.logs = rows /\ r2.todo = left
        /\ r2.pc = o.pc /\ r2.op = o.op /\ r2.tx = o.tx /\ r2.before = o.before
        /\ r2.resultTries = o.resultTries /\ r2.logTries = o.logTries
        /\ r2.results = o.results /\ r2.immature = o.immature
    BY <2>4 DEF LookRequests
  <2>6. /\ look \in [Lookers -> LookRequests] /\ looks' \in 0..MaxLooks /\ MirrorTypes
        /\ UNCHANGED mirror /\ UNCHANGED kept
        /\ resultCache' \subseteq Txs /\ \A t \in resultCache' : result[t] = "mature"
    BY <1>1 DEF BlockInv, MirrorTypes
  <2>7. look' = [look EXCEPT ![q] = r2]
    BY <1>4, <2>1, <2>2, <2>3, <2>6 DEF r1
  <2> HIDE DEF r2
  <2>8. PICK b : b = BlockWorld
    OBVIOUS
  <2>9. o.pc = "rows" /\ "logs" \in o.todo /\ o.op \in BlockOps \cup TxOps
    BY <1>1, <2>1 DEF LookRequests
  <2>10. LookGood(b, r2)
    <3>1. CASE o.op \in BlockOps
      <4>1. BlockRead(b, o)
        BY <2>1, <2>8, <2>9, <3>1 DEF LookGood
      <4>2. rows = b.logs
        <5>1. imported /\ rows = Visible(log)
          BY <2>1, <2>2, <2>8, <3>1, <4>1 DEF BlockRead, BlockWorld, Asked, Visible
        <5> QED BY <5>1, <2>6, <2>8 DEF MirrorTypes, BlockWorld
      <4>3. BlockRead(b, r2)
        BY <2>3, <2>5, <2>9, <4>1, <4>2 DEF BlockRead
      <4> QED BY <2>1, <2>5, <2>8, <2>9, <3>1, <4>3, OpsDiffer DEF LookGood
    <3>2. CASE o.op \in TxOps
      <4>1. TxRead(b, o) /\ o.op \notin BlockOps
        BY <2>1, <2>8, <2>9, <3>2, OpsDiffer DEF LookGood
      <4>2. TxRead(b, r2)
        BY <2>3, <2>5, <4>1 DEF TxRead
      <4> QED BY <2>1, <2>5, <2>8, <2>9, <4>1, <4>2 DEF LookGood
    <3> QED BY <2>9, <3>1, <3>2
  <2>11. LookGood(BlockWorld, r2)
    BY <2>8, <2>10
  <2> QED BY <2>5, <2>6, <2>7, <2>11, LookStep
<1> QED BY <1>2, <1>3, <1>4 DEF FetchLogs

(* What an answer says, composed from what was read.                       *)
LEMMA AnswerFields ==
  ASSUME NEW r \in LookRequests
  PROVE  /\ AnswerOf(r) \in SomeAnswer
         /\ AnswerOf(r).listed =
              (IF r.op \in BlockOps THEN r.results \ Refused ELSE r.results) \cup (r.logs \ r.results)
         /\ AnswerOf(r).regular =
              (IF r.op \in BlockOps THEN r.results \ Refused ELSE r.results)
         /\ AnswerOf(r).immature = r.immature /\ AnswerOf(r).before = r.before
         /\ AnswerOf(r).null => r.op \in TxOps
<1>1. PICK some \in SUBSET Txs :
        some = IF r.op \in BlockOps THEN r.results \ Refused ELSE r.results
  BY DEF LookRequests
<1>2. PICK all \in SUBSET Txs : all = some \cup (r.logs \ r.results)
  BY DEF LookRequests
<1>3. PICK none \in BOOLEAN : none = (r.op \in TxOps /\ all = {})
  OBVIOUS
<1>4. some \ (r.logs \ r.results) = some
  BY <1>1
<1>5. AnswerOf(r) = [null |-> none, listed |-> all, regular |-> some, immature |-> r.immature,
                     before |-> r.before]
  BY <1>1, <1>2, <1>3, <1>4 DEF AnswerOf, Synthetic
<1>6. r.immature \in SUBSET Txs /\ r.before \in SUBSET Txs
  BY DEF LookRequests
<1> DEFINE a == [null |-> none, listed |-> all, regular |-> some, immature |-> r.immature,
                 before |-> r.before]
<1>7. /\ a \in SomeAnswer /\ a.null = none /\ a.listed = all /\ a.regular = some
      /\ a.immature = r.immature /\ a.before = r.before
  BY <1>6 DEF SomeAnswer
<1>8. AnswerOf(r) = a
  BY <1>5
<1> HIDE DEF a
<1>9. none => r.op \in TxOps
  BY <1>3
<1> QED BY <1>1, <1>2, <1>7, <1>8, <1>9

LEMMA ComposeKeeps ==
  ASSUME BlockInv, NEW q \in Lookers, Compose(q)
  PROVE  BlockInv'
<1>1. /\ look[q].pc = "rows" /\ look[q].todo = {} /\ UNCHANGED <<mirror, resultCache, kept, looks>>
  BY DEF Compose, KeepLookCaches
<1>2. CASE LookFails(q)
  BY <1>1, <1>2, FailKeeps
<1>3. CASE look' = Conclude(q, IF AnswerOf(look[q]).null THEN "done" ELSE "put", AnswerOf(look[q]))
  <2>1. PICK o \in LookRequests : o = look[q] /\ LookGood(BlockWorld, o)
    BY DEF BlockInv
  <2>2. PICK a \in SomeAnswer : a = AnswerOf(o)
    BY AnswerFields
  <2>3. /\ a.listed = (IF o.op \in BlockOps THEN o.results \ Refused ELSE o.results)
                        \cup (o.logs \ o.results)
        /\ a.regular = (IF o.op \in BlockOps THEN o.results \ Refused ELSE o.results)
        /\ a.immature = o.immature /\ a.before = o.before
        /\ a.null => o.op \in TxOps
    BY <2>2, AnswerFields
  <2>4. PICK b : b = BlockWorld
    OBVIOUS
  <2>5. b.results = HasResult /\ b.logs = HasLog /\ b.refused = Refused
    BY <2>4 DEF BlockWorld
  <2>6. look \in [Lookers -> LookRequests] /\ looks' \in 0..MaxLooks
        /\ resultCache' \subseteq Txs /\ (\A t \in resultCache' : result[t] = "mature")
        /\ UNCHANGED mirror /\ UNCHANGED kept /\ kindOf \in BlockTxs
    BY <1>1 DEF BlockInv, MirrorTypes
  <2>7. AnswerGood(b, o.op, o.tx, a)
    <3>1. CASE o.op \in BlockOps
      <4>1. BlockRead(b, o) /\ o.op \notin TxOps
        BY <1>1, <2>1, <2>4, <3>1, OpsDiffer DEF LookGood
      <4>2. /\ o.results = b.results /\ (RetryCount > 0 /\ o.op # "receipts" => o.immature = {})
            /\ o.logs = b.logs \/ (o.op = "receipts" /\ b.results = {})
        BY <1>1, <2>1, <4>1 DEF BlockRead
      <4>3. a.regular = b.results \ b.refused
        BY <2>3, <2>5, <3>1, <4>2
      <4>4. o.logs = b.logs => a.listed = Txs \ b.refused
        BY <2>3, <2>5, <2>6, <3>1, <4>2, KindsSplit
      <4> QED BY <2>3, <4>1, <4>2, <4>3, <4>4 DEF AnswerGood
    <3>2. CASE o.op \in TxOps
      <4>1. TxRead(b, o) /\ o.op \notin BlockOps
        BY <1>1, <2>1, <2>4, <3>2, OpsDiffer DEF LookGood
      <4>2. (o.tx \in o.before => o.results = {o.tx}) /\ (RetryCount > 0 => o.immature = {})
        BY <1>1, <2>1, <4>1 DEF TxRead
      <4> QED BY <2>3, <3>2, <4>1, <4>2, OpsDiffer DEF AnswerGood
    <3> QED BY <2>1, <3>1, <3>2 DEF LookRequests
  <2>8. PICK pc \in {"done", "put"} : pc = IF a.null THEN "done" ELSE "put"
    OBVIOUS
  <2>9. PICK r \in LookRequests :
          /\ Conclude(q, pc, a) = [look EXCEPT ![q] = r]
          /\ r.pc = pc /\ r.op = look[q].op /\ r.tx = look[q].tx /\ r.answer = a
          /\ r.resultTries = 0 /\ r.logTries = 0
    BY <2>6, ConcludeMakes
  <2>10. look' = [look EXCEPT ![q] = r]
    BY <1>3, <2>1, <2>2, <2>8, <2>9
  <2>11. LookGood(b, r)
    BY <2>1, <2>7, <2>8, <2>9, BlockBounds DEF LookGood
  <2>12. LookGood(BlockWorld, r)
    BY <2>4, <2>11
  <2> QED BY <2>6, <2>10, <2>12, LookStep
<1> QED BY <1>2, <1>3 DEF Compose

LEMMA PutKeeps ==
  ASSUME BlockInv, NEW q \in Lookers, Put(q)
  PROVE  BlockInv'
<1>1. PICK o \in LookRequests : o = look[q] /\ LookGood(BlockWorld, o)
  BY DEF BlockInv
<1>2. /\ o.pc = "put" /\ kept' = [kept EXCEPT ![o.op][o.tx] = o.answer]
      /\ look' = [look EXCEPT ![q].pc = "done"] /\ UNCHANGED <<mirror, resultCache, looks>>
  BY <1>1 DEF Put
<1> DEFINE r == [o EXCEPT !.pc = "done"]
<1>3. /\ r \in LookRequests /\ r.pc = "done" /\ r.op = o.op /\ r.tx = o.tx /\ r.answer = o.answer
      /\ r.resultTries = o.resultTries /\ r.logTries = o.logTries
  BY DEF LookRequests
<1>4. look' = [look EXCEPT ![q] = r]
  BY <1>1, <1>2 DEF BlockInv
<1> HIDE DEF r
<1>5. PICK a \in SomeAnswer : a = o.answer /\ AnswerGood(BlockWorld, o.op, o.tx, a)
  BY <1>1, <1>2 DEF LookGood, LookRequests
<1>6. o.op \in BlockOps \cup TxOps /\ o.tx \in Txs
  BY DEF LookRequests
<1>7. \E op \in BlockOps \cup TxOps, t \in Txs, x \in SomeAnswer :
        AnswerGood(BlockWorld, op, t, x) /\ kept' = [kept EXCEPT ![op][t] = x]
  BY <1>2, <1>5, <1>6
<1>8. LookGood(BlockWorld, r)
  BY <1>1, <1>3, <1>5 DEF LookGood
<1>9. /\ UNCHANGED mirror /\ looks' \in 0..MaxLooks
      /\ resultCache' \subseteq Txs /\ \A u \in resultCache' : result[u] = "mature"
  BY <1>2 DEF BlockInv, MirrorTypes
<1> QED BY <1>3, <1>4, <1>7, <1>8, <1>9, LookStep

LEMMA BlockStep == ASSUME BlockInv, BlockNext PROVE BlockInv'
<1>1. CASE Import
  BY <1>1, ImportKeeps
<1>2. ASSUME NEW q \in Lookers, NEW p \in LookParams, Look(q, p[1], p[2])
      PROVE  BlockInv'
  <2>1. p[1] \in BlockOps \cup TxOps /\ p[2] \in Txs
    BY BlockConstants
  <2> QED BY <1>2, <2>1, LookKeeps
<1>3. ASSUME NEW q \in Lookers,
             ReadBlock(q) \/ FetchResults(q) \/ FetchLogs(q) \/ Compose(q) \/ Put(q)
      PROVE  BlockInv'
  BY <1>3, ReadBlockKeeps, FetchResultsKeeps, FetchLogsKeeps, ComposeKeeps, PutKeeps
<1> QED BY <1>1, <1>2, <1>3 DEF BlockNext

LEMMA BlockInvIsRight == BlockInv => BlocksRight
<1> SUFFICES ASSUME BlockInv PROVE BlocksRight
  OBVIOUS
<1>1. BlockTypeOK
  BY DEF BlockInv, MirrorTypes, BlockTypeOK, LookRequests
<1>2. PICK b : b = BlockWorld
  OBVIOUS
<1>3. b.results = HasResult /\ b.refused = Refused
  BY <1>2 DEF BlockWorld
<1>4. ASSUME NEW q \in Lookers, look[q].pc = "done"
      PROVE  AnswerGood(b, look[q].op, look[q].tx, look[q].answer)
  BY <1>2, <1>4 DEF BlockInv, LookGood
<1>5. ASSUME NEW q \in Lookers
      PROVE  look[q].op \in {"hashes", "details"} => look[q].op # "receipts"
  OBVIOUS
<1>6. NoImmatureServed
  BY <1>4 DEF NoImmatureServed, AnsweredLook, AnswerGood
<1>7. BlockIsWhole
  BY <1>3, <1>4 DEF BlockIsWhole, AnsweredLook, AnswerGood
<1>8. ReceiptsCoverBlock
  BY <1>3, <1>4 DEF ReceiptsCoverBlock, AnsweredLook, AnswerGood
<1>9. FoundIfVisible
  BY <1>4 DEF FoundIfVisible, AnswerGood
<1> QED BY <1>1, <1>6, <1>7, <1>8, <1>9 DEF BlocksRight

(* Whatever the transactions of a block, the page limits and the attempts, *)
(* the answers about blocks, receipts and transactions are complete and    *)
(* mature when they are given, also from the cache, while the mirror node  *)
(* is importing the block (BlockService, TransactionService).              *)
THEOREM BlocksAreRight == BlockSpec => []BlocksRight
<1>1. BlockInv /\ UNCHANGED blockVars => BlockInv'
  BY DEF BlockInv, blockVars, mirror, MirrorTypes, BlockWorld, HasResult, HasLog, Refused, Visible
<1> QED BY <1>1, BlockStarts, BlockStep, BlockInvIsRight, PTL DEF BlockSpec

-----------------------------------------------------------------------------

(***************************************************************************)
(* Fee histories, for any fees, limits and times to live: what is looked   *)
(* up of a chain that only grows stays true of it.                         *)
(***************************************************************************)

FeeWorld == [fees |-> fees, made |-> Len(fees), fixed |-> fixedFees]
FeesGrow(w, c) ==
  /\ c.fixed = w.fixed
  /\ w.made \in Nat /\ c.made \in Nat /\ w.made <= c.made
  /\ \A i \in 1 .. w.made : c.fees[i] = w.fees[i]

FeeRequests ==
  [pc : {"idle", "head", "again", "blocks", "next", "price", "put", "done"}, param : FeeParams,
   start : 0..MaxTip, tip : 0..MaxTip, answer : FeeAnswers]

FeeEntries == [answer : FeeAnswers, until : -1 .. MaxTip + FeeTtl]

(* What follows from the parameters: the range of blocks.                  *)
CountOf(p) == IF p.count > MaxResults THEN MaxResults ELSE p.count
OldestAt(p, tip) ==
  IF NewestAt(p, tip) < CountOf(p) THEN 0 ELSE NewestAt(p, tip) - CountOf(p) + 1

InRange(w, p, tip) == CountOf(p) > 0 /\ NewestAt(p, tip) <= tip /\ tip < w.made

FeesMatch(w, a) == \A i \in 1 .. a.ratios : a.base[i] = w.fees[a.oldest + i]

(* A history as far as it was read.                                        *)
Begun(w, p, tip, a) ==
  /\ InRange(w, p, tip) /\ ~w.fixed
  /\ a.kind = "history" /\ Len(a.base) = a.ratios /\ a.oldest = OldestAt(p, tip)
  /\ a.oldest + a.ratios <= NewestAt(p, tip) + 1
  /\ ~a.lost => FeesMatch(w, a)

(* A whole one.                                                            *)
HistoryGood(w, p, a) ==
  /\ Len(a.base) = a.ratios + 1 /\ a.ratios <= CountOf(p)
  /\ ~w.fixed =>
       /\ a.ratios = CountOf(p) \/ a.oldest = 0
       /\ p.newest \notin Tags => a.oldest + a.ratios - 1 = p.newest
       /\ ~a.lost =>
            /\ FeesMatch(w, a) /\ a.oldest + a.ratios \in 1 .. w.made
            /\ \/ a.base[a.ratios + 1] = w.fees[a.oldest + a.ratios]
               \/ /\ a.oldest + a.ratios < w.made
                  /\ a.base[a.ratios + 1] = w.fees[a.oldest + a.ratios + 1]

FeeErrors == {"error", "error as result"}

(* Why there is an error: the block was beyond the newest one, or `safe'   *)
(* and `finalized' were looked up again after a block was made.            *)
TrueAt(p, start) == p.newest \notin Tags /\ p.newest > start
Overtaken(w, p, start) == p.newest = SafeTag /\ start + 1 < w.made

FeeReadGood(w, r) ==
  /\ r.start < w.made
  /\ r.pc = "price" => InRange(w, r.param, r.tip) /\ w.fixed
  /\ r.pc \in {"blocks", "next"} => Begun(w, r.param, r.tip, r.answer)
  /\ r.pc = "blocks" => r.answer.oldest + r.answer.ratios <= NewestAt(r.param, r.tip)
  /\ r.pc = "next" => r.answer.oldest + r.answer.ratios = NewestAt(r.param, r.tip) + 1
  /\ r.pc \in {"put", "done"} /\ r.answer.kind = "history" => HistoryGood(w, r.param, r.answer)
  /\ r.pc = "again" => r.param.newest = SafeTag /\ r.start <= r.tip /\ r.tip < w.made
  /\ r.pc = "put" /\ r.answer.kind \in FeeErrors =>
       TrueAt(r.param, r.start) \/ Overtaken(w, r.param, r.start)
  /\ r.pc = "done" /\ r.answer.kind \in FeeErrors =>
       TrueAt(r.param, r.start - FeeTtl - MaxFeeTime) \/ Overtaken(w, r.param, r.start)

FeeEntryGood(w, p, e) ==
  /\ e.answer.kind = "history" => HistoryGood(w, p, e.answer)
  /\ e.answer.kind \in FeeErrors => TrueAt(p, e.until - FeeTtl - MaxFeeTime)

FeeInv ==
  /\ fixedFees \in BOOLEAN /\ redis \in BOOLEAN
  /\ fees \in Seq(Fees) /\ Tip \in 0..MaxTip
  /\ feeCache \in [FeeParams -> FeeEntries]
  /\ feeRead \in [FeeReaders -> FeeRequests]
  /\ feeReads \in 0..MaxFeeReads
  /\ \A q \in FeeReaders : FeeReadGood(FeeWorld, feeRead[q])
  /\ \A q \in FeeReaders : Reading(q) => Tip - feeRead[q].start <= MaxFeeTime
  /\ \A p \in FeeParams : FeeEntryGood(FeeWorld, p, feeCache[p])

-----------------------------------------------------------------------------

LEMMA FeeBounds ==
  /\ MaxResults \in Nat /\ FeeTtl \in Nat /\ MaxTip \in Nat /\ MaxFeeReads \in Nat
  /\ MaxFeeTime \in Nat /\ Fees \subseteq Nat \ {0} /\ FeeParams # {}
  /\ \A p \in FeeParams : p.count \in Nat /\ p.newest \in Tags \cup 0 .. MaxTip
  /\ Tags = {-1, -2} /\ SafeTag = -2 /\ SafeTag \in Tags
BY FeeConstants DEF Tags, LatestTag, SafeTag

LEMMA NoFeesFields ==
  /\ NoFees \in FeeAnswers /\ NoFees.kind = "none" /\ NoFees.oldest = 0 /\ NoFees.base = <<>>
  /\ NoFees.ratios = 0 /\ NoFees.lost = FALSE
BY DEF NoFees, FeeAnswers, AnswerKinds

LEMMA IdleFeeReadFields ==
  /\ IdleFeeRead \in FeeRequests /\ IdleFeeRead.pc = "idle" /\ IdleFeeRead.start = 0
<1>1. SomeParam \in FeeParams
  BY FeeBounds DEF SomeParam
<1> QED BY <1>1, NoFeesFields, FeeBounds DEF IdleFeeRead, FeeRequests

LEMMA RangeFits ==
  ASSUME NEW p \in FeeParams, NEW tip \in 0..MaxTip
  PROVE  /\ CountOf(p) \in Nat /\ CountOf(p) <= MaxResults /\ NewestAt(p, tip) \in 0..MaxTip
         /\ OldestAt(p, tip) \in Nat
         /\ CountOf(p) > 0 =>
              /\ OldestAt(p, tip) <= NewestAt(p, tip)
              /\ NewestAt(p, tip) - OldestAt(p, tip) + 1 <= CountOf(p)
              /\ NewestAt(p, tip) - OldestAt(p, tip) + 1 = CountOf(p) \/ OldestAt(p, tip) = 0
BY FeeBounds DEF CountOf, NewestAt, OldestAt

LEMMA FeesGrown ==
  ASSUME NEW w, NEW c, FeesGrow(w, c)
  PROVE  /\ \A p \in FeeParams, a \in FeeAnswers : HistoryGood(w, p, a) => HistoryGood(c, p, a)
         /\ \A p \in FeeParams, e \in FeeEntries : FeeEntryGood(w, p, e) => FeeEntryGood(c, p, e)
         /\ \A r \in FeeRequests : FeeReadGood(w, r) => FeeReadGood(c, r)
<1>1. ASSUME NEW p \in FeeParams, NEW a \in FeeAnswers, HistoryGood(w, p, a)
      PROVE  HistoryGood(c, p, a)
  <2>1. a.oldest \in Nat /\ a.ratios \in Nat
    BY DEF FeeAnswers
  <2>2. FeesMatch(w, a) /\ a.oldest + a.ratios \in 1 .. w.made => FeesMatch(c, a)
    <3>1. a.oldest + a.ratios \in 1 .. w.made =>
            \A i \in 1 .. a.ratios : a.oldest + i \in 1 .. w.made
      BY <2>1 DEF FeesGrow
    <3> QED BY <3>1 DEF FeesMatch, FeesGrow
  <2>3. a.oldest + a.ratios \in 1 .. w.made =>
          /\ a.oldest + a.ratios \in 1 .. c.made
          /\ c.fees[a.oldest + a.ratios] = w.fees[a.oldest + a.ratios]
    BY <2>1 DEF FeesGrow
  <2>4. a.oldest + a.ratios \in 1 .. w.made /\ a.oldest + a.ratios < w.made =>
          /\ a.oldest + a.ratios < c.made
          /\ c.fees[a.oldest + a.ratios + 1] = w.fees[a.oldest + a.ratios + 1]
    BY <2>1 DEF FeesGrow
  <2> QED BY <1>1, <2>2, <2>3, <2>4 DEF HistoryGood, FeesGrow
<1>2. ASSUME NEW r \in FeeRequests, FeeReadGood(w, r)
      PROVE  FeeReadGood(c, r)
  <2>1. r.param \in FeeParams /\ r.tip \in 0..MaxTip /\ r.answer \in FeeAnswers /\ r.start \in Nat
        /\ r.answer.oldest \in Nat /\ r.answer.ratios \in Nat
    BY FeeBounds DEF FeeRequests, FeeAnswers
  <2>2. InRange(w, r.param, r.tip) => InRange(c, r.param, r.tip)
    BY <2>1, FeeBounds DEF InRange, FeesGrow
  <2>3. Begun(w, r.param, r.tip, r.answer) => Begun(c, r.param, r.tip, r.answer)
    <3>1. SUFFICES ASSUME Begun(w, r.param, r.tip, r.answer) PROVE Begun(c, r.param, r.tip, r.answer)
      OBVIOUS
    <3>2. PICK n \in 0..MaxTip : n = NewestAt(r.param, r.tip)
      BY <2>1, RangeFits
    <3>3. r.answer.oldest + r.answer.ratios <= w.made
      BY <2>1, <3>1, <3>2, FeeBounds DEF Begun, InRange, FeesGrow
    <3>4. FeesMatch(w, r.answer) => FeesMatch(c, r.answer)
      <4>1. \A i \in 1 .. r.answer.ratios : r.answer.oldest + i \in 1 .. w.made
        BY <2>1, <3>3 DEF FeesGrow
      <4> QED BY <4>1 DEF FeesMatch, FeesGrow
    <3> QED BY <3>1, <2>2, <3>4 DEF Begun, FeesGrow
  <2>4. /\ r.start < w.made => r.start < c.made
        /\ r.tip < w.made => r.tip < c.made
        /\ Overtaken(w, r.param, r.start) => Overtaken(c, r.param, r.start)
    BY <2>1, FeeBounds DEF FeesGrow, Overtaken
  <2>5. r.answer.kind = "history" /\ HistoryGood(w, r.param, r.answer) => HistoryGood(c, r.param, r.answer)
    BY <1>1, <2>1
  <2>6. c.fixed = w.fixed
    BY DEF FeesGrow
  <2> QED BY <1>2, <2>2, <2>3, <2>4, <2>5, <2>6 DEF FeeReadGood
<1>3. ASSUME NEW p \in FeeParams, NEW e \in FeeEntries, FeeEntryGood(w, p, e)
      PROVE  FeeEntryGood(c, p, e)
  BY <1>1, <1>3 DEF FeeEntryGood, FeeEntries
<1> QED BY <1>1, <1>2, <1>3

LEMMA FeesStart == FeeInit => FeeInv
<1> SUFFICES ASSUME FeeInit PROVE FeeInv
  OBVIOUS
<1>1. PICK f \in Fees : fees = <<f>>
  BY DEF FeeInit
<1>2. /\ fixedFees \in BOOLEAN /\ redis \in BOOLEAN /\ feeReads \in 0..MaxFeeReads
      /\ feeCache = [p \in FeeParams |-> Uncached] /\ feeRead = [q \in FeeReaders |-> IdleFeeRead]
  BY FeeBounds DEF FeeInit
<1>3. fees \in Seq(Fees) /\ Len(fees) = 1 /\ Tip \in 0..MaxTip
  BY <1>1, FeeBounds DEF Tip
<1>4. /\ Uncached \in FeeEntries /\ Uncached.answer = NoFees
  BY NoFeesFields, FeeBounds DEF Uncached, FeeEntries
<1>5. PICK w : w = FeeWorld
  OBVIOUS
<1>6. FeeReadGood(w, IdleFeeRead)
  <2>1. w.made = 1
    BY <1>3, <1>5 DEF FeeWorld
  <2>2. PICK r : r = IdleFeeRead /\ r.pc = "idle" /\ r.start = 0
    BY IdleFeeReadFields
  <2>3. r.start < w.made
    BY <2>1, <2>2
  <2>4. r.pc \notin {"again", "price", "blocks", "next", "put", "done"}
    BY <2>2
  <2>5. FeeReadGood(w, r)
    BY <2>3, <2>4 DEF FeeReadGood
  <2> QED BY <2>2, <2>5
<1>7. ASSUME NEW p PROVE FeeEntryGood(w, p, Uncached)
  BY <1>4, NoFeesFields DEF FeeEntryGood, FeeErrors
<1>8. /\ feeCache \in [FeeParams -> FeeEntries] /\ feeRead \in [FeeReaders -> FeeRequests]
      /\ \A q \in FeeReaders : FeeReadGood(FeeWorld, feeRead[q])
      /\ \A p \in FeeParams : FeeEntryGood(FeeWorld, p, feeCache[p])
      /\ \A q \in FeeReaders : ~Reading(q)
  BY <1>2, <1>4, <1>5, <1>6, <1>7, IdleFeeReadFields DEF Reading
<1> QED BY <1>2, <1>3, <1>8 DEF FeeInv

(* A block is made.                                                        *)
LEMMA NewFeeKeeps == ASSUME FeeInv, NewFee PROVE FeeInv'
<1>1. PICK f \in Fees : fees' = Append(fees, f)
  BY DEF NewFee
<1>2. fees \in Seq(Fees) /\ Tip \in 0..MaxTip /\ Tip < MaxTip
  BY DEF FeeInv, NewFee
<1>3. fees' \in Seq(Fees) /\ Len(fees') = Len(fees) + 1 /\ \A i \in 1 .. Len(fees) : fees'[i] = fees[i]
  BY <1>1, <1>2
<1>4. Len(fees) \in Nat /\ Tip' = Tip + 1 /\ Tip' \in 0..MaxTip
  BY <1>2, <1>3, FeeBounds DEF Tip
<1>5. UNCHANGED <<fixedFees, redis, feeCache, feeRead, feeReads>>
  BY DEF NewFee
<1>6. PICK w, c : w = FeeWorld /\ c = FeeWorld'
  OBVIOUS
<1>7. FeesGrow(w, c)
  BY <1>3, <1>4, <1>5, <1>6 DEF FeesGrow, FeeWorld
<1>8. ASSUME NEW q \in FeeReaders PROVE FeeReadGood(c, feeRead'[q])
  <2>1. feeRead[q] \in FeeRequests /\ FeeReadGood(w, feeRead[q])
    BY <1>6 DEF FeeInv
  <2> QED BY <2>1, <1>5, <1>7, FeesGrown
<1>9. ASSUME NEW p \in FeeParams PROVE FeeEntryGood(c, p, feeCache'[p])
  <2>1. feeCache[p] \in FeeEntries /\ FeeEntryGood(w, p, feeCache[p])
    BY <1>6 DEF FeeInv
  <2> QED BY <2>1, <1>5, <1>7, FeesGrown
<1>10. ASSUME NEW q \in FeeReaders, Reading(q)' PROVE Tip' - feeRead'[q].start <= MaxFeeTime
  <2>1. Reading(q) /\ feeRead[q].start \in Nat
    BY <1>5, <1>10, FeeBounds DEF FeeInv, Reading, FeeRequests
  <2>2. Tip - feeRead[q].start < MaxFeeTime
    BY <2>1 DEF NewFee
  <2> QED BY <2>1, <2>2, <1>2, <1>4, <1>5, FeeBounds
<1> QED BY <1>3, <1>4, <1>5, <1>6, <1>8, <1>9, <1>10 DEF FeeInv

(* A step of one request.                                                  *)
LEMMA FeeReadStep ==
  ASSUME FeeInv, NEW q \in FeeReaders, NEW r \in FeeRequests, feeRead' = [feeRead EXCEPT ![q] = r],
         FeeReadGood(FeeWorld, r), r.pc \notin {"idle", "done"} => Tip - r.start <= MaxFeeTime,
         KeepFees, feeReads' \in 0..MaxFeeReads,
         UNCHANGED feeCache \/ \E p \in FeeParams, e \in FeeEntries :
           FeeEntryGood(FeeWorld, p, e) /\ feeCache' = [feeCache EXCEPT ![p] = e]
  PROVE  FeeInv'
<1>1. FeeWorld' = FeeWorld /\ Tip' = Tip /\ UNCHANGED <<fees, fixedFees, redis>>
  BY DEF KeepFees, FeeWorld, Tip
<1>2. feeRead' \in [FeeReaders -> FeeRequests] /\ \A x \in FeeReaders : FeeReadGood(FeeWorld, feeRead'[x])
  BY DEF FeeInv
<1>3. \A x \in FeeReaders : Reading(x)' => Tip - feeRead'[x].start <= MaxFeeTime
  BY DEF FeeInv, Reading
<1>4. feeCache' \in [FeeParams -> FeeEntries] /\ \A p \in FeeParams : FeeEntryGood(FeeWorld, p, feeCache'[p])
  BY DEF FeeInv
<1> QED BY <1>1, <1>2, <1>3, <1>4 DEF FeeInv

FeeMoved(q, pc, answer) == [feeRead EXCEPT ![q].pc = pc, ![q].answer = answer]

LEMMA FeeMoves ==
  ASSUME NEW q \in FeeReaders, feeRead \in [FeeReaders -> FeeRequests],
         NEW pc \in {"idle", "head", "again", "blocks", "next", "price", "put", "done"},
         NEW answer \in FeeAnswers
  PROVE  \E r \in FeeRequests :
           /\ FeeMoved(q, pc, answer) = [feeRead EXCEPT ![q] = r]
           /\ r.pc = pc /\ r.answer = answer
           /\ r.param = feeRead[q].param /\ r.start = feeRead[q].start /\ r.tip = feeRead[q].tip
<1>1. PICK o \in FeeRequests : o = feeRead[q]
  OBVIOUS
<1> DEFINE r1 == [o EXCEPT !.pc = pc]
           r2 == [r1 EXCEPT !.answer = answer]
<1>2. r1 \in FeeRequests /\ r1.pc = pc /\ r1.param = o.param /\ r1.start = o.start /\ r1.tip = o.tip
  BY DEF FeeRequests
<1> HIDE DEF r1
<1>3. r2 \in FeeRequests /\ r2.answer = answer /\ r2.pc = pc /\ r2.param = o.param
      /\ r2.start = o.start /\ r2.tip = o.tip
  BY <1>2 DEF FeeRequests
<1>4. FeeMoved(q, pc, answer) = [feeRead EXCEPT ![q] = r2]
  BY <1>1 DEF FeeMoved, r1
<1> HIDE DEF r2
<1> QED BY <1>1, <1>3, <1>4

(* An answer without fees.                                                 *)
Feeless == {"empty", "zero blocks", "error"}

LEMMA ReadyKeeps ==
  ASSUME FeeInv, NEW q \in FeeReaders, NEW k \in Feeless, Ready(q, k),
         Reading(q),
         k = "error" => \/ TrueAt(feeRead[q].param, feeRead[q].start)
                        \/ Overtaken(FeeWorld, feeRead[q].param, feeRead[q].start),
         KeepFees, UNCHANGED <<feeCache, feeReads>>
  PROVE  FeeInv'
<1> DEFINE a == [NoFees EXCEPT !.kind = k]
<1>1. a \in FeeAnswers /\ a.kind = k
  BY NoFeesFields DEF FeeAnswers, AnswerKinds, Feeless
<1>2. feeRead' = FeeMoved(q, "put", a)
  BY DEF Ready, FeeStep, FeeMoved
<1> HIDE DEF a
<1>3. FeeReadGood(FeeWorld, feeRead[q]) /\ feeReads' \in 0..MaxFeeReads
  BY DEF FeeInv
<1>4. feeRead \in [FeeReaders -> FeeRequests]
  BY DEF FeeInv
<1>5. PICK r \in FeeRequests :
        /\ FeeMoved(q, "put", a) = [feeRead EXCEPT ![q] = r]
        /\ r.pc = "put" /\ r.answer = a
        /\ r.param = feeRead[q].param /\ r.start = feeRead[q].start /\ r.tip = feeRead[q].tip
  BY <1>1, <1>4, FeeMoves
<1>6. FeeReadGood(FeeWorld, r)
  BY <1>1, <1>3, <1>5 DEF FeeReadGood, FeeErrors, Feeless
<1>7. Tip - r.start <= MaxFeeTime
  BY <1>5 DEF FeeInv
<1>8. feeRead' = [feeRead EXCEPT ![q] = r]
  BY <1>2, <1>5
<1> QED BY <1>3, <1>6, <1>7, <1>8, FeeReadStep

(* The cache decorator, then the request.                                  *)
AskedFees(p, tip) == [IdleFeeRead EXCEPT !.param = p, !.start = tip]
CachedFees(p, tip, a) == [AskedFees(p, tip) EXCEPT !.pc = "done", !.answer = a]
UncachedFees(p, tip) == [AskedFees(p, tip) EXCEPT !.pc = "head"]

LEMMA AskedMakes ==
  ASSUME NEW p \in FeeParams, NEW tip \in 0..MaxTip, NEW a \in FeeAnswers
  PROVE  /\ \E r \in FeeRequests : /\ CachedFees(p, tip, a) = r
                                   /\ r.pc = "done" /\ r.param = p /\ r.start = tip /\ r.answer = a
         /\ \E r \in FeeRequests : /\ UncachedFees(p, tip) = r
                                   /\ r.pc = "head" /\ r.param = p /\ r.start = tip
<1> DEFINE r1 == [IdleFeeRead EXCEPT !.param = p]
           r2 == [r1 EXCEPT !.start = tip]
           r3 == [r2 EXCEPT !.pc = "done"]
           r4 == [r3 EXCEPT !.answer = a]
           r5 == [r2 EXCEPT !.pc = "head"]
<1>1. r1 \in FeeRequests /\ r1.param = p
  BY IdleFeeReadFields DEF FeeRequests
<1> HIDE DEF r1
<1>2. r2 \in FeeRequests /\ r2.start = tip /\ r2.param = p
  BY <1>1 DEF FeeRequests
<1>3. AskedFees(p, tip) = r2
  BY DEF AskedFees, r1, r2
<1> HIDE DEF r2
<1>4. r3 \in FeeRequests /\ r3.pc = "done" /\ r3.start = tip /\ r3.param = p
  BY <1>2 DEF FeeRequests
<1>5. UncachedFees(p, tip) = r5
  BY <1>3 DEF UncachedFees
<1>6. r5 \in FeeRequests /\ r5.pc = "head" /\ r5.start = tip /\ r5.param = p
  BY <1>2 DEF FeeRequests
<1>7. CachedFees(p, tip, a) = r4
  BY <1>3 DEF CachedFees
<1> HIDE DEF r3, r5
<1>8. r4 \in FeeRequests /\ r4.answer = a /\ r4.pc = "done" /\ r4.start = tip /\ r4.param = p
  BY <1>4 DEF FeeRequests
<1> HIDE DEF r4
<1> QED BY <1>5, <1>6, <1>7, <1>8

LEMMA FromCacheFields ==
  ASSUME NEW a \in FeeAnswers
  PROVE  /\ FromCache(a) \in FeeAnswers /\ (FromCache(a).kind \in FeeErrors => a.kind \in FeeErrors)
         /\ FromCache(a).kind = "history" => FromCache(a) = a
<1>1. CASE redis /\ a.kind = "error"
  <2> DEFINE b == [a EXCEPT !.kind = "error as result"]
  <2>1. b \in FeeAnswers /\ b.kind = "error as result"
    BY DEF FeeAnswers, AnswerKinds
  <2>2. FromCache(a) = b
    BY <1>1 DEF FromCache
  <2> HIDE DEF b
  <2> QED BY <1>1, <2>1, <2>2 DEF FeeErrors
<1>2. CASE ~(redis /\ a.kind = "error")
  BY <1>2 DEF FromCache
<1> QED BY <1>1, <1>2

LEMMA feeHistoryKeeps ==
  ASSUME FeeInv, NEW q \in FeeReaders, NEW p \in FeeParams, feeHistory(q, p)
  PROVE  FeeInv'
<1>1. PICK tip \in 0..MaxTip : tip = Tip
  BY DEF FeeInv
<1>2. /\ KeepFees /\ UNCHANGED feeCache /\ feeReads' \in 0..MaxFeeReads /\ feeReads < MaxFeeReads
      /\ feeRead \in [FeeReaders -> FeeRequests]
  BY FeeBounds DEF FeeInv, feeHistory
<1>3. PICK w : w = FeeWorld /\ w.made = tip + 1
  <2>1. FeeWorld.made = tip + 1
    BY <1>1 DEF FeeWorld, Tip, FeeInv
  <2> QED BY <2>1
<1>4. CASE /\ Tip <= feeCache[p].until
           /\ feeRead' = [feeRead EXCEPT ![q] =
                             CachedFees(p, tip, FromCache(feeCache[p].answer))]
  <2>1. PICK e \in FeeEntries : e = feeCache[p] /\ FeeEntryGood(w, p, e)
    BY <1>3 DEF FeeInv
  <2>2. e.answer \in FeeAnswers /\ e.until \in Int /\ tip <= e.until
    BY <1>1, <1>4, <2>1, FeeBounds DEF FeeEntries
  <2>3. PICK a \in FeeAnswers :
          /\ a = FromCache(e.answer)
          /\ a.kind \in FeeErrors => e.answer.kind \in FeeErrors
          /\ a.kind = "history" => a = e.answer
    BY <2>2, FromCacheFields
  <2>4. PICK r \in FeeRequests :
          /\ CachedFees(p, tip, a) = r
          /\ r.pc = "done" /\ r.param = p /\ r.start = tip /\ r.answer = a
    BY AskedMakes
  <2>5. feeRead' = [feeRead EXCEPT ![q] = r]
    BY <1>4, <2>1, <2>3, <2>4
  <2>6. a.kind \in FeeErrors => TrueAt(p, tip - FeeTtl - MaxFeeTime)
    BY <2>1, <2>2, <2>3, FeeBounds DEF FeeEntryGood, TrueAt
  <2>7. a.kind = "history" => HistoryGood(w, p, a)
    BY <2>1, <2>3 DEF FeeEntryGood
  <2>8. FeeReadGood(w, r)
    BY <1>3, <2>4, <2>6, <2>7 DEF FeeReadGood
  <2>9. FeeReadGood(FeeWorld, r)
    BY <1>3, <2>8
  <2> QED BY <1>2, <2>4, <2>5, <2>9, FeeReadStep
<1>5. CASE feeRead' = [feeRead EXCEPT ![q] = UncachedFees(p, tip)]
  <2>1. PICK r \in FeeRequests :
          /\ UncachedFees(p, tip) = r
          /\ r.pc = "head" /\ r.param = p /\ r.start = tip
    BY AskedMakes, NoFeesFields
  <2>2. feeRead' = [feeRead EXCEPT ![q] = r]
    BY <1>5, <2>1
  <2>3. FeeReadGood(w, r)
    BY <1>3, <2>1 DEF FeeReadGood
  <2>4. FeeReadGood(FeeWorld, r) /\ Tip - r.start <= MaxFeeTime
    BY <1>1, <1>3, <2>1, <2>3, FeeBounds
  <2> QED BY <1>2, <2>1, <2>2, <2>4, FeeReadStep
<1>6. AskedFees(p, tip) = [IdleFeeRead EXCEPT !.param = p, !.start = Tip]
  BY <1>1 DEF AskedFees
<1> QED BY <1>4, <1>5, <1>6 DEF feeHistory, CachedFees, UncachedFees

(* The newest block is known.                                              *)
HeadRead(q, tip, pc, answer) ==
  [feeRead EXCEPT ![q].tip = tip, ![q].pc = pc, ![q].answer = answer]

LEMMA HeadMakes ==
  ASSUME NEW q \in FeeReaders, feeRead \in [FeeReaders -> FeeRequests], NEW tip \in 0..MaxTip,
         NEW pc \in {"idle", "head", "again", "blocks", "next", "price", "put", "done"},
         NEW answer \in FeeAnswers
  PROVE  \E r \in FeeRequests :
           /\ HeadRead(q, tip, pc, answer) = [feeRead EXCEPT ![q] = r]
           /\ r.pc = pc /\ r.answer = answer /\ r.tip = tip
           /\ r.param = feeRead[q].param /\ r.start = feeRead[q].start
<1>1. PICK o \in FeeRequests : o = feeRead[q]
  OBVIOUS
<1> DEFINE r1 == [o EXCEPT !.tip = tip]
           r2 == [r1 EXCEPT !.pc = pc]
           r3 == [r2 EXCEPT !.answer = answer]
<1>2. r1 \in FeeRequests /\ r1.tip = tip /\ r1.param = o.param /\ r1.start = o.start
  BY DEF FeeRequests
<1> HIDE DEF r1
<1>3. r2 \in FeeRequests /\ r2.pc = pc /\ r2.tip = tip /\ r2.param = o.param /\ r2.start = o.start
  BY <1>2 DEF FeeRequests
<1> HIDE DEF r2
<1>4. r3 \in FeeRequests /\ r3.answer = answer /\ r3.pc = pc /\ r3.tip = tip /\ r3.param = o.param
      /\ r3.start = o.start
  BY <1>3 DEF FeeRequests
<1>5. HeadRead(q, tip, pc, answer) = [feeRead EXCEPT ![q] = r3]
  BY <1>1 DEF HeadRead, r1, r2
<1> HIDE DEF r3
<1> QED BY <1>1, <1>4, <1>5

(* A history without fees yet, and one with a fee more.                    *)
FromBlock(b) == [NoFees EXCEPT !.kind = "history", !.oldest = b]

LEMMA FromBlockFields ==
  ASSUME NEW b \in Nat
  PROVE  /\ FromBlock(b) \in FeeAnswers /\ FromBlock(b).kind = "history" /\ FromBlock(b).oldest = b
         /\ FromBlock(b).base = <<>> /\ FromBlock(b).ratios = 0 /\ FromBlock(b).lost = FALSE
<1> DEFINE a1 == [NoFees EXCEPT !.kind = "history"]
           a2 == [a1 EXCEPT !.oldest = b]
<1>1. /\ a1 \in FeeAnswers /\ a1.kind = "history" /\ a1.base = <<>> /\ a1.ratios = 0
      /\ a1.lost = FALSE
  BY NoFeesFields DEF FeeAnswers, AnswerKinds
<1> HIDE DEF a1
<1>2. /\ a2 \in FeeAnswers /\ a2.kind = "history" /\ a2.oldest = b /\ a2.base = <<>> /\ a2.ratios = 0
      /\ a2.lost = FALSE
  BY <1>1 DEF FeeAnswers
<1>3. FromBlock(b) = a2
  BY DEF FromBlock, a1
<1> HIDE DEF a2
<1> QED BY <1>2, <1>3

LEMMA WithFeeFields ==
  ASSUME NEW a \in FeeAnswers, NEW fee \in Fees \cup {0}
  PROVE  /\ WithFee(a, fee) \in FeeAnswers /\ WithFee(a, fee).kind = a.kind
         /\ WithFee(a, fee).oldest = a.oldest /\ WithFee(a, fee).ratios = a.ratios
         /\ WithFee(a, fee).base = Append(a.base, fee)
         /\ ~WithFee(a, fee).lost => ~a.lost /\ fee # 0
<1> DEFINE a1 == [a EXCEPT !.base = Append(a.base, fee)]
           a2 == [a1 EXCEPT !.lost = a.lost \/ fee = 0]
<1>1. a.base \in Seq(Fees \cup {0}) /\ Append(a.base, fee) \in Seq(Fees \cup {0})
  BY DEF FeeAnswers
<1>2. /\ a1 \in FeeAnswers /\ a1.kind = a.kind /\ a1.oldest = a.oldest /\ a1.ratios = a.ratios
      /\ a1.base = Append(a.base, fee)
  BY <1>1 DEF FeeAnswers
<1>3. WithFee(a, fee) = a2
  BY DEF WithFee
<1> HIDE DEF a1
<1>4. PICK l \in BOOLEAN : l = (a.lost \/ fee = 0)
  OBVIOUS
<1>5. /\ a2 \in FeeAnswers /\ a2.kind = a.kind /\ a2.oldest = a.oldest /\ a2.ratios = a.ratios
      /\ a2.base = Append(a.base, fee) /\ a2.lost = l
  BY <1>2, <1>4 DEF FeeAnswers
<1> HIDE DEF a2
<1> QED BY <1>3, <1>4, <1>5

LEMMA MoreFees ==
  ASSUME NEW s \in Seq(Fees \cup {0}), NEW fee \in Fees \cup {0}
  PROVE  /\ Len(s) \in Nat /\ Len(Append(s, fee)) = Len(s) + 1
         /\ \A i \in 1 .. Len(s) : Append(s, fee)[i] = s[i]
         /\ Append(s, fee)[Len(s) + 1] = fee
OBVIOUS

LEMMA BeginKeeps ==
  ASSUME FeeInv, NEW q \in FeeReaders, Reading(q), KeepFees, UNCHANGED <<feeCache, feeReads>>,
         NEW tip \in 0..MaxTip, tip < FeeWorld.made, NEW newest, Begin(q, tip, newest),
         newest > tip => \/ TrueAt(feeRead[q].param, feeRead[q].start)
                         \/ Overtaken(FeeWorld, feeRead[q].param, feeRead[q].start),
         newest <= tip => newest = NewestAt(feeRead[q].param, tip)
  PROVE  FeeInv'
<1>1. PICK o \in FeeRequests : o = feeRead[q] /\ FeeReadGood(FeeWorld, o)
  BY DEF FeeInv
<1>2. FeeWorld.made = Tip + 1 /\ FeeWorld.fixed = fixedFees /\ fixedFees \in BOOLEAN /\ Tip \in Nat
  BY FeeBounds DEF FeeWorld, Tip, FeeInv
<1>3. o.param \in FeeParams
  BY DEF FeeRequests
<1>4. CASE /\ newest <= tip /\ Count(q) > 0
           /\ feeRead' = [feeRead EXCEPT ![q].tip = tip,
                ![q].pc = IF fixedFees THEN "price" ELSE "blocks",
                ![q].answer = [NoFees EXCEPT !.kind = "history", !.oldest = Oldest(q, newest)]]
  <2>1. /\ CountOf(o.param) = Count(q) /\ CountOf(o.param) > 0 /\ newest = NewestAt(o.param, tip)
        /\ OldestAt(o.param, tip) = Oldest(q, newest) /\ NewestAt(o.param, tip) <= tip
    BY <1>1, <1>4 DEF CountOf, Count, OldestAt, Oldest
  <2>2. InRange(FeeWorld, o.param, tip)
    BY <2>1 DEF InRange
  <2>3. PICK b \in Nat : b = OldestAt(o.param, tip) /\ b <= NewestAt(o.param, tip)
    BY <1>3, <2>1, RangeFits
  <2>4. PICK a \in FeeAnswers :
          /\ a = FromBlock(b) /\ a.kind = "history" /\ a.oldest = b
          /\ a.base = <<>> /\ a.ratios = 0
    BY FromBlockFields
  <2>5. feeRead \in [FeeReaders -> FeeRequests] /\ feeReads' \in 0..MaxFeeReads
    BY DEF FeeInv
  <2>6. PICK pc \in {"price", "blocks"} : pc = IF fixedFees THEN "price" ELSE "blocks"
    OBVIOUS
  <2>7. PICK r \in FeeRequests :
          /\ HeadRead(q, tip, pc, a) = [feeRead EXCEPT ![q] = r]
          /\ r.pc = pc /\ r.answer = a /\ r.tip = tip
          /\ r.param = feeRead[q].param /\ r.start = feeRead[q].start
    BY <2>5, HeadMakes
  <2>8. feeRead' = [feeRead EXCEPT ![q] = r]
    <3>1. feeRead' = HeadRead(q, tip, pc, a)
      BY <1>4, <2>1, <2>3, <2>4, <2>6 DEF HeadRead, FromBlock
    <3> QED BY <2>7, <3>1
  <2>9. ~fixedFees => Begun(FeeWorld, o.param, tip, a)
    <3>1. FeesMatch(FeeWorld, a)
      BY <2>4 DEF FeesMatch
    <3>2. NewestAt(o.param, tip) \in Int
      BY <1>3, RangeFits
    <3>3. a.oldest + a.ratios <= NewestAt(o.param, tip) + 1
      BY <2>3, <2>4, <3>2
    <3>4. Len(a.base) = a.ratios
      BY <2>4
    <3> QED BY <1>2, <2>2, <2>3, <2>4, <3>1, <3>3, <3>4 DEF Begun
  <2>10. a.oldest + a.ratios <= NewestAt(o.param, tip)
    <3>1. NewestAt(o.param, tip) \in Int
      BY <1>3, RangeFits
    <3> QED BY <2>3, <2>4, <3>1
  <2>11. FeeReadGood(FeeWorld, r)
    BY <1>1, <1>2, <2>2, <2>6, <2>7, <2>9, <2>10 DEF FeeReadGood
  <2>12. Tip - r.start <= MaxFeeTime
    BY <2>7 DEF FeeInv
  <2> QED BY <2>5, <2>7, <2>8, <2>11, <2>12, FeeReadStep
<1>5. CASE newest > tip /\ Ready(q, "error")
  BY <1>5, ReadyKeeps DEF Feeless
<1>6. CASE Ready(q, "zero blocks")
  BY <1>6, ReadyKeeps DEF Feeless
<1> QED BY <1>4, <1>5, <1>6 DEF Begin

(* The newest block, once for a number and `latest'.                       *)
LEMMA ReadHeadKeeps ==
  ASSUME FeeInv, NEW q \in FeeReaders, ReadHead(q)
  PROVE  FeeInv'
<1>1. Reading(q) /\ KeepFees /\ UNCHANGED <<feeCache, feeReads>>
  BY DEF ReadHead, Reading
<1>2. PICK o \in FeeRequests : o = feeRead[q] /\ FeeReadGood(FeeWorld, o)
  BY DEF FeeInv
<1>3. PICK tip \in 0..MaxTip : tip = Tip /\ FeeWorld.made = tip + 1
  BY DEF FeeInv, FeeWorld, Tip
<1>4. /\ o.start <= tip /\ o.param \in FeeParams /\ o.start \in 0..MaxTip /\ tip < FeeWorld.made
      /\ NewestAt(o.param, tip) \in 0..MaxTip
  BY <1>2, <1>3, FeeBounds, RangeFits DEF FeeReadGood, FeeRequests
<1>5. CASE Ready(q, "empty")
  BY <1>1, <1>5, ReadyKeeps DEF Feeless
<1>6. CASE ~LooksAgain(q) /\ Begin(q, Tip, NewestAt(feeRead[q].param, Tip))
  <2>1. PICK n \in 0..MaxTip : n = NewestAt(o.param, tip)
    BY <1>4
  <2>2. n > tip => TrueAt(o.param, o.start)
    BY <1>4, <2>1, FeeBounds DEF NewestAt, TrueAt
  <2>3. Begin(q, tip, n)
    BY <1>2, <1>3, <1>6, <2>1
  <2> QED BY <1>1, <1>2, <1>4, <2>1, <2>2, <2>3, BeginKeeps
<1>7. CASE LooksAgain(q) /\ feeRead' = [feeRead EXCEPT ![q].tip = Tip, ![q].pc = "again"]
  <2> DEFINE r1 == [o EXCEPT !.tip = tip]
             r2 == [r1 EXCEPT !.pc = "again"]
  <2>1. r1 \in FeeRequests /\ r1.tip = tip /\ r1.param = o.param /\ r1.start = o.start
    BY DEF FeeRequests
  <2>2. feeRead' = [feeRead EXCEPT ![q] = r2]
    BY <1>2, <1>3, <1>7
  <2> HIDE DEF r1
  <2>3. /\ r2 \in FeeRequests /\ r2.pc = "again" /\ r2.tip = tip /\ r2.param = o.param
        /\ r2.start = o.start
    BY <2>1 DEF FeeRequests
  <2> HIDE DEF r2
  <2>4. FeeReadGood(FeeWorld, r2)
    BY <1>2, <1>4, <1>7, <2>3 DEF FeeReadGood, LooksAgain
  <2>5. Tip - r2.start <= MaxFeeTime /\ feeReads' \in 0..MaxFeeReads
    BY <1>1, <1>2, <2>3 DEF FeeInv
  <2> QED BY <1>1, <2>2, <2>3, <2>4, <2>5, FeeReadStep
<1> QED BY <1>5, <1>6, <1>7 DEF ReadHead

(* And a second time for `safe' and `finalized': the newest block may be a *)
(* later one now, and is then beyond the one found before.                 *)
LEMMA ReadHeadAgainKeeps ==
  ASSUME FeeInv, NEW q \in FeeReaders, ReadHeadAgain(q)
  PROVE  FeeInv'
<1>1. Reading(q) /\ KeepFees /\ UNCHANGED <<feeCache, feeReads>> /\ feeRead[q].pc = "again"
  BY DEF ReadHeadAgain, Reading
<1>2. PICK o \in FeeRequests : o = feeRead[q] /\ FeeReadGood(FeeWorld, o)
  BY DEF FeeInv
<1>3. PICK now \in 0..MaxTip : now = Tip /\ FeeWorld.made = now + 1
  BY DEF FeeInv, FeeWorld, Tip
<1>4. PICK tip \in 0..MaxTip : tip = o.tip
  BY DEF FeeRequests
<1>5. o.param.newest = SafeTag /\ o.start <= tip /\ tip <= now /\ o.start \in 0..MaxTip
  BY <1>1, <1>2, <1>3, <1>4, FeeBounds DEF FeeReadGood, FeeRequests
<1>6. CASE Ready(q, "empty")
  BY <1>1, <1>6, ReadyKeeps DEF Feeless
<1>7. CASE Begin(q, feeRead[q].tip, Tip)
  <2>1. now > tip => Overtaken(FeeWorld, o.param, o.start)
    BY <1>3, <1>5, FeeBounds DEF Overtaken
  <2>2. now <= tip => now = NewestAt(o.param, tip)
    BY <1>5, FeeBounds DEF NewestAt
  <2>3. Begin(q, tip, now) /\ tip < FeeWorld.made
    BY <1>2, <1>3, <1>4, <1>5, <1>7, FeeBounds
  <2> QED BY <1>1, <1>2, <2>1, <2>2, <2>3, BeginKeeps
<1> QED BY <1>6, <1>7 DEF ReadHeadAgain

(* A request that goes on with another answer.                             *)
LEMMA FeeGoesOn ==
  ASSUME FeeInv, NEW q \in FeeReaders, Reading(q), KeepFees, UNCHANGED <<feeCache, feeReads>>,
         NEW pc \in {"idle", "head", "again", "blocks", "next", "price", "put", "done"},
         NEW a \in FeeAnswers, FeeStep(q, pc, a),
         pc \in {"blocks", "next"} => Begun(FeeWorld, feeRead[q].param, feeRead[q].tip, a),
         pc = "blocks" => a.oldest + a.ratios <= NewestAt(feeRead[q].param, feeRead[q].tip),
         pc = "next" => a.oldest + a.ratios = NewestAt(feeRead[q].param, feeRead[q].tip) + 1,
         pc = "put" => HistoryGood(FeeWorld, feeRead[q].param, a) /\ a.kind = "history",
         pc \in {"blocks", "next", "put"}
  PROVE  FeeInv'
<1>1. feeRead \in [FeeReaders -> FeeRequests] /\ feeReads' \in 0..MaxFeeReads
  BY DEF FeeInv
<1>2. PICK r \in FeeRequests :
        /\ FeeMoved(q, pc, a) = [feeRead EXCEPT ![q] = r]
        /\ r.pc = pc /\ r.answer = a
        /\ r.param = feeRead[q].param /\ r.start = feeRead[q].start /\ r.tip = feeRead[q].tip
  BY <1>1, FeeMoves
<1>3. feeRead' = [feeRead EXCEPT ![q] = r]
  BY <1>2 DEF FeeStep, FeeMoved
<1>4. FeeReadGood(FeeWorld, feeRead[q])
  BY DEF FeeInv
<1>5. FeeReadGood(FeeWorld, r)
  BY <1>2, <1>4 DEF FeeReadGood, FeeErrors
<1>6. Tip - r.start <= MaxFeeTime
  BY <1>2 DEF FeeInv
<1> QED BY <1>1, <1>2, <1>3, <1>5, <1>6, FeeReadStep

(* The fee of a block there is.                                            *)
LEMMA FeesKnown ==
  ASSUME FeeInv, NEW b \in Nat, b < FeeWorld.made
  PROVE  FeeOf(b) \in Fees /\ FeeWorld.fees[b + 1] = FeeOf(b)
<1>1. fees \in Seq(Fees) /\ FeeWorld.made = Len(fees)
  BY DEF FeeInv, FeeWorld
<1>2. b + 1 \in 1 .. Len(fees)
  BY <1>1
<1>3. fees[b + 1] \in Fees
  BY <1>1, <1>2
<1> QED BY <1>3 DEF FeeOf, FeeWorld

LEMMA RepeatFeeKeeps ==
  ASSUME FeeInv, NEW q \in FeeReaders, RepeatFee(q)
  PROVE  FeeInv'
<1>1. Reading(q) /\ KeepFees /\ UNCHANGED <<feeCache, feeReads>> /\ feeRead[q].pc = "price"
  BY DEF RepeatFee, Reading
<1>2. PICK o \in FeeRequests : o = feeRead[q] /\ FeeReadGood(FeeWorld, o)
  BY DEF FeeInv
<1>3. CASE Ready(q, "empty")
  BY <1>1, <1>3, ReadyKeeps DEF Feeless
<1>4. CASE FeeStep(q, "put", Repeated(q, FeeOf(Tip)))
  <2>1. PICK fee \in Fees : fee = FeeOf(Tip)
    <3>1. Tip \in Nat /\ Tip < FeeWorld.made
      BY FeeBounds DEF FeeInv, FeeWorld, Tip
    <3> QED BY <3>1, FeesKnown
  <2>2. PICK c, n \in Nat :
          /\ c = Count(q) /\ n = NewestOf(q) /\ c = CountOf(o.param)
          /\ n = NewestAt(o.param, o.tip) /\ c > 0
    <3>1. o.param \in FeeParams /\ o.tip \in 0..MaxTip
      BY DEF FeeRequests
    <3>2. CountOf(o.param) = Count(q) /\ NewestAt(o.param, o.tip) = NewestOf(q)
      BY <1>2 DEF CountOf, Count, NewestAt, NewestOf
    <3>3. CountOf(o.param) > 0
      BY <1>1, <1>2 DEF FeeReadGood, InRange
    <3>4. CountOf(o.param) \in Nat /\ NewestAt(o.param, o.tip) \in Nat
      BY <3>1, RangeFits
    <3> QED BY <3>2, <3>3, <3>4
  <2>3. PICK count \in Nat : count = IF n - c + 1 <= 0 THEN 1 ELSE c
    BY <2>2
  <2>4. PICK from \in Nat : from = IF n - c + 1 <= 0 THEN 1 ELSE n - c + 1
    BY <2>2
  <2>5. PICK base \in Seq(Fees \cup {0}) :
          base = [i \in 1 .. count + 1 |-> fee] /\ Len(base) = count + 1
    <3>1. PICK m \in Nat : m = count + 1
      OBVIOUS
    <3> DEFINE s == [i \in 1..m |-> fee]
    <3>2. s \in Seq(Fees \cup {0}) /\ Len(s) = m
      OBVIOUS
    <3> QED BY <3>1, <3>2
  <2> DEFINE a == [kind |-> "history", oldest |-> from, base |-> base, ratios |-> count,
                   lost |-> FALSE]
  <2>6. /\ a \in FeeAnswers /\ a.kind = "history" /\ a.base = base /\ a.ratios = count
    BY DEF FeeAnswers, AnswerKinds
  <2>7. FeeStep(q, "put", a)
    BY <1>4, <2>1, <2>2, <2>3, <2>4, <2>5 DEF Repeated
  <2> HIDE DEF a
  <2>8. HistoryGood(FeeWorld, o.param, a)
    <3>1. FeeWorld.fixed
      BY <1>1, <1>2 DEF FeeReadGood
    <3>2. Len(a.base) = a.ratios + 1 /\ a.ratios <= CountOf(o.param)
      BY <2>2, <2>3, <2>5, <2>6
    <3> QED BY <3>1, <3>2 DEF HistoryGood
  <2> QED BY <1>1, <1>2, <2>6, <2>7, <2>8, FeeGoesOn
<1> QED BY <1>3, <1>4 DEF RepeatFee

(* getFeeByBlockNumber: one block more.                                    *)
LEMMA BegunGrows ==
  ASSUME NEW w, NEW p, NEW tip, NEW a \in FeeAnswers, NEW x \in FeeAnswers, NEW fee \in Fees \cup {0},
         Begun(w, p, tip, a), NewestAt(p, tip) \in Nat, a.oldest + a.ratios <= NewestAt(p, tip),
         x.kind = a.kind, x.oldest = a.oldest, x.base = Append(a.base, fee),
         ~x.lost => ~a.lost /\ fee = w.fees[a.oldest + a.ratios + 1],
         x.ratios = a.ratios + 1
  PROVE  Begun(w, p, tip, x)
<1>1. a.base \in Seq(Fees \cup {0}) /\ a.ratios \in Nat /\ a.oldest \in Nat /\ Len(a.base) = a.ratios
  BY DEF FeeAnswers, Begun
<1>2. /\ Len(x.base) = a.ratios + 1
      /\ \A i \in 1 .. a.ratios : x.base[i] = a.base[i]
      /\ x.base[a.ratios + 1] = fee
  BY <1>1, MoreFees
<1>3. ~x.lost => FeesMatch(w, x)
  <2>1. SUFFICES ASSUME ~x.lost, NEW i \in 1 .. a.ratios + 1
                 PROVE  x.base[i] = w.fees[a.oldest + i]
    BY DEF FeesMatch
  <2>2. FeesMatch(w, a) /\ fee = w.fees[a.oldest + a.ratios + 1]
    BY <2>1 DEF Begun
  <2>3. CASE i \in 1 .. a.ratios
    BY <1>2, <2>2, <2>3 DEF FeesMatch
  <2>4. CASE i = a.ratios + 1
    <3>1. a.oldest + i = a.oldest + a.ratios + 1
      BY <1>1, <2>4
    <3> QED BY <1>2, <2>2, <2>4, <3>1
  <2> QED BY <1>1, <2>3, <2>4
<1>4. x.oldest + x.ratios <= NewestAt(p, tip) + 1
  BY <1>1
<1> QED BY <1>2, <1>3, <1>4 DEF Begun

LEMMA ReadFeeKeeps ==
  ASSUME FeeInv, NEW q \in FeeReaders, ReadFee(q)
  PROVE  FeeInv'
<1>1. Reading(q) /\ KeepFees /\ UNCHANGED <<feeCache, feeReads>> /\ feeRead[q].pc = "blocks"
  BY DEF ReadFee, Reading
<1>2. PICK o \in FeeRequests : o = feeRead[q] /\ FeeReadGood(FeeWorld, o)
  BY DEF FeeInv
<1>3. PICK a \in FeeAnswers : a = o.answer
  BY DEF FeeRequests
<1>4. PICK n \in Nat : n = NewestAt(o.param, o.tip) /\ n = NewestOf(q) /\ n < FeeWorld.made
  <2>1. o.param \in FeeParams /\ o.tip \in 0..MaxTip
    BY DEF FeeRequests
  <2>2. NewestAt(o.param, o.tip) = NewestOf(q) /\ NewestAt(o.param, o.tip) \in 0..MaxTip
    BY <1>2, <2>1, RangeFits DEF NewestAt, NewestOf
  <2>3. PICK m \in Nat : m = FeeWorld.made
    BY DEF FeeWorld, FeeInv
  <2>4. PICK n \in Nat : n = NewestAt(o.param, o.tip) /\ n <= o.tip /\ o.tip < m
    BY <1>1, <1>2, <2>2, <2>3, FeeBounds DEF FeeReadGood, Begun, InRange
  <2> QED BY <2>1, <2>2, <2>3, <2>4, FeeBounds
<1>5. Begun(FeeWorld, o.param, o.tip, a) /\ a.oldest + a.ratios <= n
  BY <1>1, <1>2, <1>3, <1>4 DEF FeeReadGood
<1>6. PICK b \in Nat : b = a.oldest + a.ratios /\ b <= n
  BY <1>5 DEF FeeAnswers
<1>7. /\ FeeOf(b) \in Fees /\ FeeWorld.fees[b + 1] = FeeOf(b)
  <2>1. FeeWorld.made \in Nat
    BY DEF FeeWorld, FeeInv
  <2>2. b < FeeWorld.made
    BY <1>4, <1>6, <2>1
  <2> QED BY <2>2, FeesKnown
<1>8. PICK fee \in {FeeOf(b), 0} :
        FeeStep(q, IF b = n THEN "next" ELSE "blocks", [WithFee(a, fee) EXCEPT !.ratios = @ + 1])
  BY <1>2, <1>3, <1>4, <1>6 DEF ReadFee
<1>9. fee \in Fees \cup {0}
  BY <1>7
<1>10. PICK x \in FeeAnswers :
         /\ x = WithFee(a, fee)
         /\ x.kind = a.kind /\ x.oldest = a.oldest /\ x.ratios = a.ratios
         /\ x.base = Append(a.base, fee) /\ (~x.lost => ~a.lost /\ fee # 0)
  BY <1>9, WithFeeFields
<1> DEFINE y == [x EXCEPT !.ratios = x.ratios + 1]
<1>11. /\ y \in FeeAnswers /\ y.kind = a.kind /\ y.oldest = a.oldest /\ y.ratios = a.ratios + 1
       /\ y.base = Append(a.base, fee) /\ (~y.lost => ~a.lost /\ fee # 0)
  BY <1>10 DEF FeeAnswers
<1>12. FeeStep(q, IF b = n THEN "next" ELSE "blocks", y)
  BY <1>8, <1>10
<1> HIDE DEF y
<1>13. Begun(FeeWorld, o.param, o.tip, y)
  <2>1. ~y.lost => ~a.lost /\ fee = FeeWorld.fees[a.oldest + a.ratios + 1]
    BY <1>6, <1>7, <1>8, <1>11
  <2>2. NewestAt(o.param, o.tip) \in Nat /\ a.oldest + a.ratios <= NewestAt(o.param, o.tip)
    BY <1>4, <1>5
  <2> QED BY <1>5, <1>9, <1>11, <2>1, <2>2, BegunGrows
<1>14. y.oldest + y.ratios = b + 1
  BY <1>6, <1>11 DEF FeeAnswers
<1>15. CASE b = n
  <2>1. FeeStep(q, "next", y) /\ y.oldest + y.ratios = NewestAt(o.param, o.tip) + 1
    BY <1>4, <1>12, <1>14, <1>15
  <2> QED BY <1>1, <1>2, <1>11, <1>13, <2>1, FeeGoesOn
<1>16. CASE b # n
  <2>1. FeeStep(q, "blocks", y) /\ y.oldest + y.ratios <= NewestAt(o.param, o.tip)
    BY <1>4, <1>6, <1>12, <1>14, <1>16
  <2> QED BY <1>1, <1>2, <1>11, <1>13, <2>1, FeeGoesOn
<1> QED BY <1>15, <1>16

(* The fee of the next block, or the last one again.                       *)
LEMMA ReadNextFeeKeeps ==
  ASSUME FeeInv, NEW q \in FeeReaders, ReadNextFee(q)
  PROVE  FeeInv'
<1>1. Reading(q) /\ KeepFees /\ UNCHANGED <<feeCache, feeReads>> /\ feeRead[q].pc = "next"
  BY DEF ReadNextFee, Reading
<1>2. PICK o \in FeeRequests : o = feeRead[q] /\ FeeReadGood(FeeWorld, o)
  BY DEF FeeInv
<1>3. PICK a \in FeeAnswers : a = o.answer
  BY DEF FeeRequests
<1>4. o.param \in FeeParams /\ o.tip \in 0..MaxTip
  BY DEF FeeRequests
<1>5. PICK n \in Nat : n = NewestAt(o.param, o.tip) /\ n = NewestOf(q) /\ n \in 0..MaxTip
  <2>1. NewestAt(o.param, o.tip) = NewestOf(q) /\ NewestAt(o.param, o.tip) \in 0..MaxTip
    BY <1>2, <1>4, RangeFits DEF NewestAt, NewestOf
  <2> QED BY <2>1, FeeBounds
<1>6. PICK m \in Nat : m = FeeWorld.made
  BY DEF FeeWorld, FeeInv
<1>7. Begun(FeeWorld, o.param, o.tip, a) /\ a.oldest + a.ratios = n + 1
  BY <1>1, <1>2, <1>3, <1>5 DEF FeeReadGood
<1>8. n <= o.tip /\ o.tip < m /\ ~FeeWorld.fixed
  BY <1>5, <1>6, <1>7 DEF Begun, InRange
<1>9. /\ a.base \in Seq(Fees \cup {0}) /\ a.oldest \in Nat /\ a.ratios \in Nat
      /\ Len(a.base) = a.ratios /\ a.kind = "history"
  BY <1>7 DEF FeeAnswers, Begun
<1>10. PICK c \in Nat : c = CountOf(o.param) /\ c > 0
  BY <1>4, <1>7, RangeFits DEF Begun, InRange
<1>11. a.oldest <= n /\ a.ratios <= c /\ (a.ratios = c \/ a.oldest = 0)
  <2>1. a.oldest = OldestAt(o.param, o.tip)
    BY <1>7 DEF Begun
  <2>2. /\ a.oldest <= n /\ n - a.oldest + 1 <= c
        /\ n - a.oldest + 1 = c \/ a.oldest = 0
    BY <1>4, <1>5, <1>10, <2>1, RangeFits
  <2>3. a.ratios = n - a.oldest + 1
    BY <1>7, <1>9
  <2> QED BY <2>2, <2>3
<1>12. a.ratios \in 1 .. Len(a.base)
  BY <1>7, <1>9, <1>11
<1>13. PICK last \in Fees \cup {0} : last = a.base[a.ratios] /\ last = a.base[Len(a.base)]
  BY <1>9, <1>12
<1>14. PICK fee \in IF NextIsKnown(q) THEN {FeeOf(n + 1), 0} ELSE {last} :
         FeeStep(q, "put", WithFee(a, fee))
  BY <1>2, <1>3, <1>5, <1>13 DEF ReadNextFee
<1>15. /\ fee \in Fees \cup {0}
       /\ fee = last \/ fee = 0 \/ (n + 1 < m /\ fee = FeeWorld.fees[n + 2])
  <2>1. CASE NextIsKnown(q)
    <3>1. n + 1 \in Nat /\ n + 1 < FeeWorld.made /\ n + 1 < m
      BY <1>2, <1>4, <1>5, <1>6, <1>8, <2>1, FeeBounds DEF NextIsKnown
    <3>2. FeeOf(n + 1) \in Fees /\ FeeWorld.fees[(n + 1) + 1] = FeeOf(n + 1)
      BY <3>1, FeesKnown
    <3>3. (n + 1) + 1 = n + 2
      OBVIOUS
    <3>4. fee \in {FeeOf(n + 1), 0}
      BY <1>14, <2>1
    <3> QED BY <3>1, <3>2, <3>3, <3>4
  <2>2. CASE ~NextIsKnown(q)
    BY <1>14, <2>2
  <2> QED BY <2>1, <2>2
<1>16. PICK x \in FeeAnswers :
         /\ x = WithFee(a, fee)
         /\ x.kind = a.kind /\ x.oldest = a.oldest /\ x.ratios = a.ratios
         /\ x.base = Append(a.base, fee) /\ (~x.lost => ~a.lost /\ fee # 0)
  BY <1>15, WithFeeFields
<1>17. /\ Len(x.base) = a.ratios + 1
       /\ \A i \in 1 .. a.ratios : x.base[i] = a.base[i]
       /\ x.base[a.ratios + 1] = fee
  BY <1>9, <1>15, <1>16, MoreFees
<1>18. ~x.lost =>
         /\ FeesMatch(FeeWorld, x)
         /\ \/ x.base[x.ratios + 1] = FeeWorld.fees[x.oldest + x.ratios]
            \/ /\ x.oldest + x.ratios < m
               /\ x.base[x.ratios + 1] = FeeWorld.fees[x.oldest + x.ratios + 1]
  <2>1. SUFFICES ASSUME ~x.lost
                 PROVE  /\ FeesMatch(FeeWorld, x)
                        /\ \/ x.base[x.ratios + 1] = FeeWorld.fees[x.oldest + x.ratios]
                           \/ /\ x.oldest + x.ratios < m
                              /\ x.base[x.ratios + 1] = FeeWorld.fees[x.oldest + x.ratios + 1]
    OBVIOUS
  <2>2. FeesMatch(FeeWorld, a) /\ fee # 0
    BY <1>7, <1>16, <2>1 DEF Begun
  <2>3. FeesMatch(FeeWorld, x)
    BY <1>16, <1>17, <2>2 DEF FeesMatch
  <2>4. last = FeeWorld.fees[a.oldest + a.ratios]
    BY <1>9, <1>12, <1>13, <2>2 DEF FeesMatch
  <2>5. a.oldest + a.ratios = n + 1 /\ a.oldest + a.ratios + 1 = n + 2
    BY <1>7, <1>9
  <2> QED BY <1>15, <1>16, <1>17, <2>2, <2>3, <2>4, <2>5
<1>19. HistoryGood(FeeWorld, o.param, x)
  <2>1. Len(x.base) = x.ratios + 1 /\ x.ratios <= CountOf(o.param)
    BY <1>10, <1>11, <1>16, <1>17
  <2>2. x.ratios = CountOf(o.param) \/ x.oldest = 0
    BY <1>10, <1>11, <1>16
  <2>3. o.param.newest \notin Tags => x.oldest + x.ratios - 1 = o.param.newest
    <3>1. x.oldest + x.ratios - 1 = n
      <4>1. PICK i, j \in Nat : i = a.oldest /\ j = a.ratios /\ i + j = n + 1
        BY <1>7, <1>9
      <4>2. x.oldest = i /\ x.ratios = j
        BY <1>16, <4>1
      <4> QED BY <4>1, <4>2
    <3>2. o.param.newest \notin Tags => n = o.param.newest
      BY <1>5 DEF NewestAt
    <3> QED BY <3>1, <3>2
  <2>4. x.oldest + x.ratios \in 1 .. FeeWorld.made
    BY <1>4, <1>5, <1>6, <1>7, <1>8, <1>16, FeeBounds
  <2> QED BY <1>6, <1>18, <2>1, <2>2, <2>3, <2>4 DEF HistoryGood
<1>20. FeeStep(q, "put", x) /\ x.kind = "history"
  BY <1>9, <1>14, <1>16
<1> QED BY <1>1, <1>2, <1>19, <1>20, FeeGoesOn

(* The cache decorator keeps the answer, whatever it is.                   *)
LEMMA PutFeesKeeps ==
  ASSUME FeeInv, NEW q \in FeeReaders, PutFees(q)
  PROVE  FeeInv'
<1>1. PICK o \in FeeRequests : o = feeRead[q] /\ FeeReadGood(FeeWorld, o)
  BY DEF FeeInv
<1>2. /\ Reading(q) /\ o.pc = "put" /\ KeepFees /\ UNCHANGED feeReads
      /\ FeeStep(q, "done", o.answer)
      /\ feeCache' = IF SkipsTags(o.param) THEN feeCache
                     ELSE [feeCache EXCEPT ![o.param] = [answer |-> o.answer, until |-> KeptUntil]]
  BY <1>1 DEF PutFees, Reading
<1>3. o.param \in FeeParams /\ o.answer \in FeeAnswers /\ o.start \in 0..MaxTip
  BY DEF FeeRequests
<1>4. feeRead \in [FeeReaders -> FeeRequests]
  BY DEF FeeInv
<1>5. PICK a \in FeeAnswers : a = o.answer
  BY <1>3
<1>6. PICK r \in FeeRequests :
       /\ FeeMoved(q, "done", a) = [feeRead EXCEPT ![q] = r]
       /\ r.pc = "done" /\ r.answer = a
       /\ r.param = feeRead[q].param /\ r.start = feeRead[q].start /\ r.tip = feeRead[q].tip
  BY <1>4, FeeMoves
<1>7. r.pc = "done" /\ r.answer = o.answer /\ r.param = o.param /\ r.start = o.start
  BY <1>1, <1>5, <1>6
<1>8. feeRead' = [feeRead EXCEPT ![q] = r]
  BY <1>2, <1>5, <1>6 DEF FeeStep, FeeMoved
<1>9. feeReads' \in 0..MaxFeeReads
  BY <1>2 DEF FeeInv
<1>10. PICK tip \in 0..MaxTip : tip = Tip /\ tip - o.start <= MaxFeeTime
  BY <1>1, <1>2 DEF FeeInv
<1>11. PICK n \in Int : n = o.param.newest
  BY <1>3, FeeBounds
<1>12. o.answer.kind \in FeeErrors => TrueAt(o.param, o.start) \/ Overtaken(FeeWorld, o.param, o.start)
  BY <1>1, <1>2 DEF FeeReadGood
<1>13. FeeReadGood(FeeWorld, r)
  <2>1. TrueAt(o.param, o.start) => TrueAt(o.param, o.start - FeeTtl - MaxFeeTime)
    BY <1>3, <1>11, FeeBounds DEF TrueAt
  <2> QED BY <1>1, <1>2, <1>7, <1>12, <2>1 DEF FeeReadGood
<1>14. PICK until \in -1 .. MaxTip + FeeTtl : until = tip + FeeTtl
  BY <1>10, FeeBounds
<1> DEFINE e == [answer |-> o.answer, until |-> until]
<1>15. e \in FeeEntries /\ e.answer = o.answer /\ e.until = until
  BY <1>3 DEF FeeEntries
<1>16. feeCache' = IF SkipsTags(o.param) THEN feeCache ELSE [feeCache EXCEPT ![o.param] = e]
  BY <1>2, <1>10, <1>14 DEF KeptUntil
<1> HIDE DEF e
<1>17. ~SkipsTags(o.param) => FeeEntryGood(FeeWorld, o.param, e)
  <2>1. TrueAt(o.param, o.start) => TrueAt(o.param, until - FeeTtl - MaxFeeTime)
    BY <1>3, <1>10, <1>11, <1>14, FeeBounds DEF TrueAt
  <2>2. o.answer.kind = "history" => HistoryGood(FeeWorld, o.param, o.answer)
    BY <1>1, <1>2 DEF FeeReadGood
  <2>3. Overtaken(FeeWorld, o.param, o.start) => SkipsTags(o.param)
    BY FeeBounds DEF Overtaken, SkipsTags
  <2> QED BY <1>12, <1>15, <2>1, <2>2, <2>3 DEF FeeEntryGood
<1>18. CASE SkipsTags(o.param)
  <2>1. UNCHANGED feeCache
    BY <1>16, <1>18
  <2> QED BY <1>2, <1>7, <1>8, <1>9, <1>13, <2>1, FeeReadStep
<1>19. CASE ~SkipsTags(o.param)
  <2>1. feeCache' = [feeCache EXCEPT ![o.param] = e] /\ FeeEntryGood(FeeWorld, o.param, e)
    BY <1>16, <1>17, <1>19
  <2> QED BY <1>2, <1>3, <1>7, <1>8, <1>9, <1>13, <1>15, <2>1, FeeReadStep
<1> QED BY <1>18, <1>19

LEMMA FeeNextKeeps == ASSUME FeeInv, FeeNext PROVE FeeInv'
BY NewFeeKeeps, feeHistoryKeeps, ReadHeadKeeps, ReadHeadAgainKeeps, RepeatFeeKeeps, ReadFeeKeeps,
   ReadNextFeeKeeps, PutFeesKeeps DEF FeeNext

LEMMA FeeInvIsRight == FeeInv => FeesRight
<1> SUFFICES ASSUME FeeInv PROVE FeesRight
  OBVIOUS
<1>1. FeeTypeOK
  BY DEF FeeInv, FeeTypeOK, FeeRequests, FeeEntries
<1>2. ASSUME NEW q \in FeeReaders, Got(q, {"history"})
      PROVE  LET a == feeRead[q].answer
                 last == a.oldest + a.ratios - 1 IN
             /\ Len(a.base) = a.ratios + 1
             /\ a.ratios <= Count(q)
             /\ ~fixedFees => a.ratios = Count(q) \/ a.oldest = 0
             /\ feeRead[q].param.newest \notin Tags /\ ~fixedFees => last = feeRead[q].param.newest
             /\ ~fixedFees /\ ~a.lost =>
                  /\ \A i \in 1 .. a.ratios : a.base[i] = FeeOf(a.oldest + i - 1)
                  /\ \/ a.base[a.ratios + 1] = FeeOf(last)
                     \/ last < Tip /\ a.base[a.ratios + 1] = FeeOf(last + 1)
  <2>1. PICK a \in FeeAnswers : a = feeRead[q].answer
    BY DEF FeeInv, FeeRequests
  <2>2. a.oldest \in Nat /\ a.ratios \in Nat
    BY DEF FeeAnswers
  <2>3. PICK w : w = FeeWorld
    OBVIOUS
  <2>4. HistoryGood(w, feeRead[q].param, a)
    BY <1>2, <2>1, <2>3 DEF FeeInv, FeeReadGood, Got
  <2>5. w.fees = fees /\ w.made = Tip + 1 /\ w.fixed = fixedFees /\ Tip \in Int
    BY <2>3 DEF FeeWorld, Tip, FeeInv
  <2>6. CountOf(feeRead[q].param) = Count(q)
    BY DEF CountOf, Count
  <2>7. \A k \in Nat : FeeOf(k) = w.fees[k + 1]
    BY <2>5 DEF FeeOf
  <2>8. ~fixedFees /\ ~a.lost =>
          /\ \A i \in 1 .. a.ratios : a.base[i] = FeeOf(a.oldest + i - 1)
          /\ \/ a.base[a.ratios + 1] = FeeOf(a.oldest + a.ratios - 1)
             \/ /\ a.oldest + a.ratios - 1 < Tip
                /\ a.base[a.ratios + 1] = FeeOf((a.oldest + a.ratios - 1) + 1)
    <3>1. SUFFICES ASSUME ~fixedFees, ~a.lost
                   PROVE  /\ \A i \in 1 .. a.ratios : a.base[i] = FeeOf(a.oldest + i - 1)
                          /\ \/ a.base[a.ratios + 1] = FeeOf(a.oldest + a.ratios - 1)
                             \/ /\ a.oldest + a.ratios - 1 < Tip
                                /\ a.base[a.ratios + 1] = FeeOf((a.oldest + a.ratios - 1) + 1)
      OBVIOUS
    <3>2. /\ FeesMatch(w, a) /\ a.oldest + a.ratios \in 1 .. w.made
          /\ \/ a.base[a.ratios + 1] = w.fees[a.oldest + a.ratios]
             \/ /\ a.oldest + a.ratios < w.made
                /\ a.base[a.ratios + 1] = w.fees[a.oldest + a.ratios + 1]
      BY <2>4, <2>5, <3>1 DEF HistoryGood
    <3>3. ASSUME NEW i \in 1 .. a.ratios PROVE a.base[i] = FeeOf(a.oldest + i - 1)
      <4>1. a.oldest + i - 1 \in Nat /\ (a.oldest + i - 1) + 1 = a.oldest + i
        BY <2>2
      <4>2. FeeOf(a.oldest + i - 1) = w.fees[a.oldest + i]
        BY <2>7, <4>1
      <4> QED BY <3>2, <4>2 DEF FeesMatch
    <3>4. PICK k \in Nat : k = a.oldest + a.ratios - 1 /\ a.oldest + a.ratios = k + 1
      BY <2>2, <3>2
    <3>5. FeeOf(k) = w.fees[k + 1] /\ FeeOf(k + 1) = w.fees[(k + 1) + 1]
      BY <2>7
    <3>6. a.oldest + a.ratios + 1 = (k + 1) + 1
      BY <2>2, <3>4
    <3>7. a.oldest + a.ratios < w.made => k < Tip
      BY <2>5, <3>4
    <3> QED BY <3>2, <3>3, <3>4, <3>5, <3>6, <3>7
  <2>9. /\ Len(a.base) = a.ratios + 1 /\ a.ratios <= Count(q)
        /\ ~fixedFees => a.ratios = Count(q) \/ a.oldest = 0
        /\ feeRead[q].param.newest \notin Tags /\ ~fixedFees =>
             a.oldest + a.ratios - 1 = feeRead[q].param.newest
    BY <2>4, <2>5, <2>6 DEF HistoryGood
  <2> QED BY <2>1, <2>8, <2>9
<1>3. FeesAreOfBlocks
  BY <1>2 DEF FeesAreOfBlocks
<1>4. BeyondWasBeyond
  <2>1. SUFFICES ASSUME NEW q \in FeeReaders, Got(q, FeeErrors)
                 PROVE  IF feeRead[q].param.newest \in Tags
                        THEN feeRead[q].param.newest = SafeTag /\ feeRead[q].start < Tip
                        ELSE feeRead[q].param.newest > feeRead[q].start - FeeTtl - MaxFeeTime
    BY DEF BeyondWasBeyond, FeeErrors
  <2>2. PICK o \in FeeRequests : o = feeRead[q] /\ FeeReadGood(FeeWorld, o)
    BY DEF FeeInv
  <2>3. \/ TrueAt(o.param, o.start - FeeTtl - MaxFeeTime)
        \/ Overtaken(FeeWorld, o.param, o.start)
    BY <2>1, <2>2 DEF FeeReadGood, Got
  <2>4. FeeWorld.made = Tip + 1 /\ Tip \in Nat /\ o.start \in Nat
    BY FeeBounds DEF FeeWorld, Tip, FeeInv, FeeRequests
  <2>5. Overtaken(FeeWorld, o.param, o.start) => o.start < Tip /\ o.param.newest = SafeTag
    BY <2>4 DEF Overtaken
  <2> QED BY <2>2, <2>3, <2>5, FeeBounds DEF TrueAt
<1> QED BY <1>1, <1>3, <1>4 DEF FeesRight

(* Whatever the fees, the limit and the time to live, a fee history has    *)
(* the fees of the blocks it is asked for, and the error for a block       *)
(* beyond the newest is not older than the cache allows, while blocks go   *)
(* on being made; `safe' and `finalized', looked up twice, get that error  *)
(* only if a block was made in between (FeeService.feeHistory,             *)
(* getFeeHistory).                                                         *)
THEOREM FeesAreRight == FeeSpec => []FeesRight
<1>1. FeeInv /\ UNCHANGED feeVars => FeeInv'
  BY DEF FeeInv, feeVars, FeeWorld, Tip, Reading
<1> QED BY <1>1, FeesStart, FeeNextKeeps, FeeInvIsRight, PTL DEF FeeSpec

-----------------------------------------------------------------------------

(***************************************************************************)
(* What an address is taken for, for any times to live and numbers of      *)
(* requests: a look-up that misled a request also misleads what is filled  *)
(* from its answer, each cache holding it for its time to live at most.    *)
(***************************************************************************)

EntityWorld == [now |-> height, what |-> kind, since |-> created, failure |-> failed]
EntityWorlds == [now : Nat, what : Kinds, since : Nat, failure : Int]

EntityGrows(w, c) ==
  /\ w \in EntityWorlds /\ c \in EntityWorlds
  /\ w.now <= c.now /\ c.what = w.what /\ w.failure <= c.failure
  /\ c.since = w.since \/ (w.since = 0 /\ c.since > w.now)

Delay == CacheTtl + MaxStepTime
MisledIn(w, t) == w.failure >= t \/ (w.what = "contract" /\ w.since >= t)
HasCodeIn(w) == w.since # 0 /\ w.what \in {"contract", "token"}

(* A type that was found.                                                  *)
TypeFound(w, type, t) ==
  /\ type \in Kinds /\ w.since # 0
  /\ type \in {"contract", "token"} => type = w.what
  /\ type # w.what => MisledIn(w, t)

(* What eth_getCode says of block b, or of the newest one at start.        *)
CodeGood(w, v, b, asked, start, t) ==
  /\ asked <= w.now /\ start <= w.now
  /\ v = "code" => HasCodeIn(w) /\ (b # 0 => w.since <= b)
  /\ v = "0x" /\ b <= asked /\ HasCodeIn(w) /\ w.since <= (IF b = 0 THEN start ELSE b) =>
       MisledIn(w, t)

CodeValues == {"none", "code", "0x", "error"}
ResolveRequests ==
  [pc : ResolveStates, op : {"code", "address"}, b : 0..MaxHeight, start : 0..MaxHeight,
   since : 0..MaxHeight, type : Types, v : CodeValues]
CodeEntries == [v : {"none", "code", "0x"}, since : 0..MaxHeight, until : Times]

ResolveGood(w, r) ==
  /\ r.start <= w.now /\ r.since <= w.now
  /\ r.op = "code" /\ r.pc \notin {"idle", "done"} => r.since = r.start
  /\ r.pc = "others" /\ w.what = "contract" => w.since = 0 \/ MisledIn(w, r.start)
  /\ r.pc = "store" => TypeFound(w, r.type, r.start)
  /\ r.pc = "block" => r.op = "code" /\ TypeFound(w, r.type, r.start - Delay)
  /\ r.pc = "put" =>
       /\ r.op = "code" /\ r.v \in {"code", "0x"}
       /\ CodeGood(w, r.v, r.b, r.since, r.start, r.start - Delay)
  /\ r.pc = "done" /\ r.op = "code" =>
       CodeGood(w, r.v, r.b, r.since, r.start, r.start - 2 * Delay)

TypeEntryGood(w, e) ==
  e.until = Never \/ (e.until \in Nat /\ TypeFound(w, e.type, e.until - Delay))

CodeEntryGood(w, b, e) == CodeGood(w, e.v, b, e.since, 0, e.until - 2 * Delay)

EntityInv ==
  /\ height \in 1..MaxHeight /\ kind \in Kinds /\ created \in 0..height
  /\ failed \in Never .. height
  /\ entityCache \in [type : Types, until : Times]
  /\ codeCache \in [1..MaxHeight -> CodeEntries]
  /\ resolving \in [Resolvers -> ResolveRequests]
  /\ resolves \in 0..MaxResolves
  /\ TypeEntryGood(EntityWorld, entityCache)
  /\ \A b \in 1..MaxHeight : CodeEntryGood(EntityWorld, b, codeCache[b])
  /\ \A q \in Resolvers : ResolveGood(EntityWorld, resolving[q])
  /\ \A q \in Resolvers : Pending(q) => height - resolving[q].start <= MaxStepTime

-----------------------------------------------------------------------------

LEMMA EntityBounds ==
  /\ CacheTtl \in Nat /\ MaxHeight \in Nat \ {0} /\ MaxResolves \in Nat /\ MaxStepTime \in Nat
  /\ CodeBlocks \subseteq 0..MaxHeight /\ Delay \in Nat /\ Delay = CacheTtl + MaxStepTime
BY EntityConstants DEF Delay

LEMMA IdleResolveFields ==
  /\ IdleResolve \in ResolveRequests /\ IdleResolve.pc = "idle" /\ IdleResolve.op = "code"
  /\ IdleResolve.start = 0 /\ IdleResolve.since = 0 /\ IdleResolve.b = 0 /\ IdleResolve.type = "none"
  /\ IdleResolve.v = "none"
BY EntityBounds DEF IdleResolve, ResolveRequests, ResolveStates, Types, CodeValues

LEMMA MisledStays ==
  ASSUME NEW w, NEW c, EntityGrows(w, c), NEW t \in Int, NEW s \in Int, s <= t, MisledIn(w, t)
  PROVE  MisledIn(c, s)
BY DEF MisledIn, EntityGrows, EntityWorlds

LEMMA TypeStays ==
  ASSUME NEW w, NEW c, EntityGrows(w, c), NEW t \in Int, NEW s \in Int, s <= t, NEW type,
         TypeFound(w, type, t)
  PROVE  TypeFound(c, type, s)
<1>1. MisledIn(w, t) => MisledIn(c, s)
  BY MisledStays
<1>2. c.what = w.what /\ (w.since # 0 => c.since = w.since)
  BY DEF EntityGrows
<1> QED BY <1>1, <1>2 DEF TypeFound

LEMMA CodeStays ==
  ASSUME NEW w, NEW c, EntityGrows(w, c), NEW t \in Int, NEW s \in Int, s <= t, NEW v,
         NEW b \in Nat, NEW asked \in Nat, NEW start \in Nat, CodeGood(w, v, b, asked, start, t)
  PROVE  CodeGood(c, v, b, asked, start, s)
<1>1. w \in EntityWorlds /\ c \in EntityWorlds /\ w.now <= c.now
  BY DEF EntityGrows
<1>2. MisledIn(w, t) => MisledIn(c, s)
  BY MisledStays
<1>3. asked <= c.now /\ start <= c.now
  BY <1>1 DEF CodeGood, EntityWorlds
<1>4. CASE c.since = w.since
  BY <1>2, <1>3, <1>4 DEF CodeGood, HasCodeIn, EntityGrows
<1>5. CASE w.since = 0 /\ c.since > w.now
  <2>1. v # "code"
    BY <1>5 DEF CodeGood, HasCodeIn
  <2>2. PICK was \in Nat : was = IF b = 0 THEN start ELSE b
    OBVIOUS
  <2>3. b <= asked => was <= w.now
    BY <1>1, <2>2 DEF CodeGood, EntityWorlds
  <2>4. b <= asked => ~(c.since <= was)
    BY <1>1, <1>5, <2>2, <2>3 DEF EntityWorlds
  <2> QED BY <1>3, <2>1, <2>2, <2>4 DEF CodeGood
<1> QED BY <1>4, <1>5 DEF EntityGrows

LEMMA ResolveStays ==
  ASSUME NEW w, NEW c, EntityGrows(w, c), NEW r \in ResolveRequests, ResolveGood(w, r)
  PROVE  ResolveGood(c, r)
<1>1. /\ r.start \in Nat /\ r.since \in Nat /\ r.b \in Nat /\ Delay \in Nat
      /\ w \in EntityWorlds /\ c \in EntityWorlds /\ w.now <= c.now /\ c.what = w.what
  BY EntityBounds DEF ResolveRequests, EntityGrows
<1>2. r.start <= c.now /\ r.since <= c.now
  BY <1>1 DEF ResolveGood, EntityWorlds
<1>3. r.start - Delay \in Int /\ r.start - 2 * Delay \in Int /\ r.start \in Int
  BY <1>1
<1>4. MisledIn(w, r.start) => MisledIn(c, r.start)
  BY <1>1, MisledStays
<1>5. w.since = 0 /\ w.what = "contract" => c.since = 0 \/ MisledIn(c, r.start)
  BY <1>1 DEF ResolveGood, EntityGrows, MisledIn, EntityWorlds
<1>6. TypeFound(w, r.type, r.start) => TypeFound(c, r.type, r.start)
  BY <1>3, TypeStays
<1>7. TypeFound(w, r.type, r.start - Delay) => TypeFound(c, r.type, r.start - Delay)
  BY <1>3, TypeStays
<1>8. CodeGood(w, r.v, r.b, r.since, r.start, r.start - Delay) =>
        CodeGood(c, r.v, r.b, r.since, r.start, r.start - Delay)
  BY <1>1, <1>3, CodeStays
<1>9. CodeGood(w, r.v, r.b, r.since, r.start, r.start - 2 * Delay) =>
        CodeGood(c, r.v, r.b, r.since, r.start, r.start - 2 * Delay)
  BY <1>1, <1>3, CodeStays
<1> QED BY <1>1, <1>2, <1>4, <1>5, <1>6, <1>7, <1>8, <1>9 DEF ResolveGood

LEMMA CachesStay ==
  ASSUME NEW w, NEW c, EntityGrows(w, c)
  PROVE  /\ \A e \in [type : Types, until : Times] : TypeEntryGood(w, e) => TypeEntryGood(c, e)
         /\ \A b \in 1..MaxHeight, e \in CodeEntries :
              CodeEntryGood(w, b, e) => CodeEntryGood(c, b, e)
<1>1. ASSUME NEW e \in [type : Types, until : Times], TypeEntryGood(w, e)
      PROVE  TypeEntryGood(c, e)
  <2>1. e.until \in Nat => e.until - Delay \in Int
    BY EntityBounds
  <2>2. e.until \in Nat /\ TypeFound(w, e.type, e.until - Delay) => TypeFound(c, e.type, e.until - Delay)
    BY <2>1, TypeStays
  <2> QED BY <1>1, <2>2 DEF TypeEntryGood
<1>2. ASSUME NEW b \in 1..MaxHeight, NEW e \in CodeEntries, CodeEntryGood(w, b, e)
      PROVE  CodeEntryGood(c, b, e)
  <2>1. e.since \in Nat /\ e.until \in Int /\ e.until - 2 * Delay \in Int /\ b \in Nat /\ 0 \in Nat
    BY EntityBounds DEF CodeEntries, Times, Never
  <2> QED BY <1>2, <2>1, CodeStays DEF CodeEntryGood
<1> QED BY <1>1, <1>2

LEMMA EntityStarts == EntityInit => EntityInv
<1> SUFFICES ASSUME EntityInit PROVE EntityInv
  OBVIOUS
<1>1. /\ height = 1 /\ kind \in Kinds /\ created = 0 /\ entityCache = NoType /\ failed = Never
      /\ codeCache = [b \in 1..MaxHeight |-> NoCode] /\ resolving = [q \in Resolvers |-> IdleResolve]
      /\ resolves \in 0..MaxResolves
  BY EntityBounds DEF EntityInit
<1>2. PICK w : w = EntityWorld
  OBVIOUS
<1>3. w.now = 1 /\ w.since = 0
  BY <1>1, <1>2 DEF EntityWorld
<1>4. ResolveGood(w, IdleResolve)
  BY <1>3, IdleResolveFields DEF ResolveGood
<1>5. /\ NoType \in [type : Types, until : Times] /\ TypeEntryGood(w, NoType)
  BY EntityBounds DEF NoType, Types, Times, Never, TypeEntryGood
<1>6. /\ NoCode \in CodeEntries /\ \A b \in 1..MaxHeight : CodeEntryGood(w, b, NoCode)
  BY <1>3, EntityBounds DEF NoCode, CodeEntries, Times, Never, CodeEntryGood, CodeGood
<1>7. \A q \in Resolvers : ~Pending(q)
  BY <1>1, IdleResolveFields DEF Pending
<1>8. height \in 1..MaxHeight /\ created \in 0..height /\ failed \in Never .. height
  BY <1>1, EntityBounds DEF Never
<1> QED BY <1>1, <1>2, <1>4, <1>5, <1>6, <1>7, <1>8, IdleResolveFields DEF EntityInv

LEMMA SameEntity ==
  ASSUME EntityInv, KeepEntity, failed' \in {failed, height}
  PROVE  EntityGrows(EntityWorld, EntityWorld')
BY DEF EntityInv, KeepEntity, EntityGrows, EntityWorld, EntityWorlds, Never

LEMMA EntityUnchanged ==
  ASSUME EntityInv
  PROVE  EntityGrows(EntityWorld, EntityWorld)
BY DEF EntityInv, EntityGrows, EntityWorld, EntityWorlds, Never

(* A block is made.                                                        *)
LEMMA BlockMadeKeeps == ASSUME EntityInv, BlockMade PROVE EntityInv'
<1>1. /\ height' = height + 1 /\ height < MaxHeight /\ UNCHANGED <<kind, failed>>
      /\ UNCHANGED <<entityCache, codeCache, resolving, resolves>>
      /\ created' \in IF created = 0 THEN {0, height + 1} ELSE {created}
  BY DEF BlockMade
<1>2. /\ height \in 1..MaxHeight /\ kind \in Kinds /\ created \in 0..height
      /\ failed \in Never .. height
  BY DEF EntityInv
<1>3. /\ height' \in 1..MaxHeight /\ created' \in 0..height' /\ failed' \in Never .. height'
  BY <1>1, <1>2, EntityBounds DEF Never
<1>4. PICK w, c : w = EntityWorld /\ c = EntityWorld'
  OBVIOUS
<1>5. EntityGrows(w, c)
  BY <1>1, <1>2, <1>3, <1>4 DEF EntityGrows, EntityWorld, EntityWorlds, Never
<1>6. TypeEntryGood(c, entityCache') /\ \A b \in 1..MaxHeight : CodeEntryGood(c, b, codeCache'[b])
  <2>1. TypeEntryGood(w, entityCache) /\ \A b \in 1..MaxHeight : CodeEntryGood(w, b, codeCache[b])
    BY <1>4 DEF EntityInv
  <2>2. entityCache \in [type : Types, until : Times] /\ codeCache \in [1..MaxHeight -> CodeEntries]
    BY DEF EntityInv
  <2> QED BY <1>1, <1>5, <2>1, <2>2, CachesStay
<1>7. ASSUME NEW q \in Resolvers PROVE ResolveGood(c, resolving'[q])
  <2>1. ResolveGood(w, resolving[q]) /\ resolving[q] \in ResolveRequests
    BY <1>4 DEF EntityInv
  <2> QED BY <1>1, <1>5, <2>1, ResolveStays
<1>8. ASSUME NEW q \in Resolvers, Pending(q)' PROVE height' - resolving'[q].start <= MaxStepTime
  <2>1. Pending(q) /\ resolving[q].start \in Nat
    BY <1>1, <1>8, EntityBounds DEF EntityInv, Pending, ResolveRequests
  <2>2. height - resolving[q].start < MaxStepTime
    BY <2>1 DEF BlockMade
  <2> QED BY <2>1, <2>2, <1>1, <1>2, EntityBounds
<1> QED BY <1>1, <1>2, <1>3, <1>4, <1>6, <1>7, <1>8 DEF EntityInv

(* A step of one request.                                                  *)
LEMMA ResolveStep ==
  ASSUME EntityInv, KeepEntity, failed' \in {failed, height}, resolves' \in 0..MaxResolves,
         NEW q \in Resolvers, NEW r \in ResolveRequests, resolving' = [resolving EXCEPT ![q] = r],
         NEW c, c = EntityWorld', ResolveGood(c, r),
         r.pc \notin {"idle", "done"} => height - r.start <= MaxStepTime,
         \/ UNCHANGED entityCache
         \/ \E e \in [type : Types, until : Times] : TypeEntryGood(c, e) /\ entityCache' = e,
         \/ UNCHANGED codeCache
         \/ \E b \in 1..MaxHeight, e \in CodeEntries :
              CodeEntryGood(c, b, e) /\ codeCache' = [codeCache EXCEPT ![b] = e]
  PROVE  EntityInv'
<1>1. /\ UNCHANGED <<height, kind, created>> /\ height \in 1..MaxHeight /\ kind \in Kinds
      /\ created \in 0..height /\ failed' \in Never .. height
  BY DEF EntityInv, KeepEntity, Never
<1>2. PICK w : w = EntityWorld
  OBVIOUS
<1>3. EntityGrows(w, c)
  BY <1>2, SameEntity
<1>4. entityCache' \in [type : Types, until : Times] /\ TypeEntryGood(c, entityCache')
  <2>1. entityCache \in [type : Types, until : Times] /\ TypeEntryGood(w, entityCache)
    BY <1>2 DEF EntityInv
  <2> QED BY <1>3, <2>1, CachesStay
<1>5. /\ codeCache' \in [1..MaxHeight -> CodeEntries]
      /\ \A b \in 1..MaxHeight : CodeEntryGood(c, b, codeCache'[b])
  <2>1. /\ codeCache \in [1..MaxHeight -> CodeEntries]
        /\ \A b \in 1..MaxHeight : CodeEntryGood(c, b, codeCache[b])
    BY <1>2, <1>3, CachesStay DEF EntityInv
  <2> QED BY <2>1
<1>6. resolving \in [Resolvers -> ResolveRequests]
  BY DEF EntityInv
<1>7. ASSUME NEW x \in Resolvers PROVE ResolveGood(c, resolving'[x])
  <2>1. CASE x = q
    BY <1>6, <2>1
  <2>2. CASE x # q
    <3>1. ResolveGood(w, resolving[x]) /\ resolving[x] \in ResolveRequests /\ resolving'[x] = resolving[x]
      BY <1>2, <1>6, <2>2 DEF EntityInv
    <3> QED BY <1>3, <3>1, ResolveStays
  <2> QED BY <2>1, <2>2
<1>8. ASSUME NEW x \in Resolvers, Pending(x)' PROVE height' - resolving'[x].start <= MaxStepTime
  BY <1>1, <1>6, <1>8 DEF EntityInv, Pending
<1>9. resolving' \in [Resolvers -> ResolveRequests]
  BY <1>6
<1> QED BY <1>1, <1>4, <1>5, <1>7, <1>8, <1>9 DEF EntityInv

(* What the fields of a request become.                                    *)
LEMMA StepMakes ==
  ASSUME NEW o \in ResolveRequests, NEW pc \in ResolveStates
  PROVE  LET r == [o EXCEPT !.pc = pc] IN
         /\ r \in ResolveRequests /\ r.pc = pc /\ r.op = o.op /\ r.b = o.b /\ r.start = o.start
         /\ r.since = o.since /\ r.type = o.type /\ r.v = o.v
BY DEF ResolveRequests

WithType(o, pc, type) == [o EXCEPT !.pc = pc, !.type = type]
WithCode(o, pc, v) == [o EXCEPT !.pc = pc, !.v = v]

LEMMA TypeMakes ==
  ASSUME NEW o \in ResolveRequests, NEW pc \in ResolveStates, NEW type \in Types
  PROVE  \E r \in ResolveRequests :
           /\ WithType(o, pc, type) = r
           /\ r.pc = pc /\ r.type = type /\ r.op = o.op /\ r.b = o.b /\ r.start = o.start
           /\ r.since = o.since /\ r.v = o.v
<1> DEFINE r1 == [o EXCEPT !.pc = pc]
           r2 == [r1 EXCEPT !.type = type]
<1>1. /\ r1 \in ResolveRequests /\ r1.pc = pc /\ r1.op = o.op /\ r1.b = o.b /\ r1.start = o.start
      /\ r1.since = o.since /\ r1.v = o.v
  BY DEF ResolveRequests
<1> HIDE DEF r1
<1>2. /\ r2 \in ResolveRequests /\ r2.type = type /\ r2.pc = pc /\ r2.op = o.op /\ r2.b = o.b
      /\ r2.start = o.start /\ r2.since = o.since /\ r2.v = o.v
  BY <1>1 DEF ResolveRequests
<1>3. WithType(o, pc, type) = r2
  BY DEF WithType, r1
<1> HIDE DEF r2
<1> QED BY <1>2, <1>3

LEMMA CodeMakes ==
  ASSUME NEW o \in ResolveRequests, NEW pc \in ResolveStates, NEW v \in CodeValues
  PROVE  \E r \in ResolveRequests :
           /\ WithCode(o, pc, v) = r
           /\ r.pc = pc /\ r.v = v /\ r.op = o.op /\ r.b = o.b /\ r.start = o.start
           /\ r.since = o.since /\ r.type = o.type
<1> DEFINE r1 == [o EXCEPT !.pc = pc]
           r2 == [r1 EXCEPT !.v = v]
<1>1. /\ r1 \in ResolveRequests /\ r1.pc = pc /\ r1.op = o.op /\ r1.b = o.b /\ r1.start = o.start
      /\ r1.since = o.since /\ r1.type = o.type
  BY DEF ResolveRequests
<1> HIDE DEF r1
<1>2. /\ r2 \in ResolveRequests /\ r2.v = v /\ r2.pc = pc /\ r2.op = o.op /\ r2.b = o.b
      /\ r2.start = o.start /\ r2.since = o.since /\ r2.type = o.type
  BY <1>1 DEF ResolveRequests
<1>3. WithCode(o, pc, v) = r2
  BY DEF WithCode, r1
<1> HIDE DEF r2
<1> QED BY <1>2, <1>3

(* Requests that start.                                                    *)
AskedCode(b, now) == [IdleResolve EXCEPT !.b = b, !.start = now, !.since = now]
CodeHit(b, now, v, since) == [AskedCode(b, now) EXCEPT !.pc = "done", !.v = v, !.since = since]
CodeMiss(b, now) == [AskedCode(b, now) EXCEPT !.pc = "entity"]
AskedAddress(now) == [IdleResolve EXCEPT !.pc = "entity", !.op = "address", !.start = now]

LEMMA AskMakes ==
  ASSUME NEW b \in 0..MaxHeight, NEW now \in 0..MaxHeight
  PROVE  /\ AskedCode(b, now) \in ResolveRequests /\ AskedCode(b, now).op = "code"
         /\ AskedCode(b, now).b = b /\ AskedCode(b, now).start = now /\ AskedCode(b, now).since = now
         /\ CodeMiss(b, now) \in ResolveRequests /\ CodeMiss(b, now).op = "code"
         /\ CodeMiss(b, now).pc = "entity" /\ CodeMiss(b, now).start = now /\ CodeMiss(b, now).since = now
<1> DEFINE r1 == [IdleResolve EXCEPT !.b = b]
           r2 == [r1 EXCEPT !.start = now]
           r3 == [r2 EXCEPT !.since = now]
           r4 == [r3 EXCEPT !.pc = "entity"]
<1>1. r1 \in ResolveRequests /\ r1.b = b /\ r1.op = "code"
  BY IdleResolveFields DEF ResolveRequests
<1> HIDE DEF r1
<1>2. r2 \in ResolveRequests /\ r2.start = now /\ r2.b = b /\ r2.op = "code"
  BY <1>1 DEF ResolveRequests
<1> HIDE DEF r2
<1>3. r3 \in ResolveRequests /\ r3.since = now /\ r3.start = now /\ r3.b = b /\ r3.op = "code"
  BY <1>2 DEF ResolveRequests
<1>4. AskedCode(b, now) = r3
  BY DEF AskedCode, r1, r2
<1> HIDE DEF r3
<1>5. r4 \in ResolveRequests /\ r4.pc = "entity" /\ r4.since = now /\ r4.start = now /\ r4.op = "code"
  BY <1>3 DEF ResolveRequests, ResolveStates
<1>6. CodeMiss(b, now) = r4
  BY <1>4 DEF CodeMiss
<1> HIDE DEF r4
<1> QED BY <1>3, <1>4, <1>5, <1>6

LEMMA HitMakes ==
  ASSUME NEW b \in 0..MaxHeight, NEW now \in 0..MaxHeight, NEW v \in CodeValues,
         NEW since \in 0..MaxHeight
  PROVE  \E r \in ResolveRequests :
           /\ CodeHit(b, now, v, since) = r
           /\ r.pc = "done" /\ r.op = "code" /\ r.b = b /\ r.start = now /\ r.since = since /\ r.v = v
<1>1. PICK o \in ResolveRequests :
        o = AskedCode(b, now) /\ o.op = "code" /\ o.b = b /\ o.start = now
  BY AskMakes
<1> DEFINE r1 == [o EXCEPT !.pc = "done"]
           r2 == [r1 EXCEPT !.v = v]
           r3 == [r2 EXCEPT !.since = since]
<1>2. r1 \in ResolveRequests /\ r1.pc = "done" /\ r1.op = "code" /\ r1.b = b /\ r1.start = now
  BY <1>1 DEF ResolveRequests, ResolveStates
<1> HIDE DEF r1
<1>3. r2 \in ResolveRequests /\ r2.v = v /\ r2.pc = "done" /\ r2.op = "code" /\ r2.b = b /\ r2.start = now
  BY <1>2 DEF ResolveRequests
<1> HIDE DEF r2
<1>4. /\ r3 \in ResolveRequests /\ r3.since = since /\ r3.v = v /\ r3.pc = "done" /\ r3.op = "code"
      /\ r3.b = b /\ r3.start = now
  BY <1>3 DEF ResolveRequests
<1>5. CodeHit(b, now, v, since) = r3
  BY <1>1 DEF CodeHit, r1, r2
<1> HIDE DEF r3
<1> QED BY <1>4, <1>5

LEMMA AddressMakes ==
  ASSUME NEW now \in 0..MaxHeight
  PROVE  \E r \in ResolveRequests :
           /\ AskedAddress(now) = r
           /\ r.pc = "entity" /\ r.op = "address" /\ r.start = now /\ r.since = 0
<1> DEFINE r1 == [IdleResolve EXCEPT !.pc = "entity"]
           r2 == [r1 EXCEPT !.op = "address"]
           r3 == [r2 EXCEPT !.start = now]
<1>1. r1 \in ResolveRequests /\ r1.pc = "entity" /\ r1.since = 0
  BY IdleResolveFields DEF ResolveRequests, ResolveStates
<1> HIDE DEF r1
<1>2. r2 \in ResolveRequests /\ r2.op = "address" /\ r2.pc = "entity" /\ r2.since = 0
  BY <1>1 DEF ResolveRequests
<1> HIDE DEF r2
<1>3. r3 \in ResolveRequests /\ r3.start = now /\ r3.op = "address" /\ r3.pc = "entity" /\ r3.since = 0
  BY <1>2 DEF ResolveRequests
<1>4. AskedAddress(now) = r3
  BY DEF AskedAddress, r1, r2
<1> HIDE DEF r3
<1> QED BY <1>3, <1>4

(* eth_getCode: the cache decorator, then the entity.                      *)
LEMMA getCodeKeeps ==
  ASSUME EntityInv, NEW q \in Resolvers, NEW b \in CodeBlocks, getCode(q, b)
  PROVE  EntityInv'
<1>1. /\ KeepEntity /\ failed' \in {failed, height} /\ UNCHANGED <<entityCache, codeCache>>
      /\ resolves' \in 0..MaxResolves
  BY EntityBounds DEF getCode, EntityInv, KeepEntityCaches
<1>2. PICK now \in 0..MaxHeight : now = height /\ now \in 1..MaxHeight
  BY EntityBounds DEF EntityInv
<1>3. PICK w, c : w = EntityWorld /\ c = EntityWorld' /\ EntityGrows(w, c)
  BY <1>1, SameEntity
<1>4. c.now = now /\ c \in EntityWorlds
  BY <1>1, <1>2, <1>3 DEF EntityWorld, KeepEntity, EntityGrows
<1>5. b \in 0..MaxHeight
  BY EntityBounds
<1>6. CASE /\ b # 0 /\ Valid(codeCache[b])
           /\ resolving' = [resolving EXCEPT ![q] = CodeHit(b, now, codeCache[b].v, codeCache[b].since)]
  <2>1. b \in 1..MaxHeight /\ b \in Nat
    BY <1>5, <1>6, EntityBounds
  <2>2. PICK e \in CodeEntries : e = codeCache[b] /\ CodeEntryGood(w, b, e)
    BY <1>3, <2>1 DEF EntityInv
  <2>3. CodeEntryGood(c, b, e)
    BY <1>3, <2>1, <2>2, CachesStay
  <2>4. e.until \in Int /\ now <= e.until /\ e.v \in {"none", "code", "0x"} /\ e.since \in 0..MaxHeight
        /\ e.since \in Nat
    BY <1>2, <1>6, <2>2, EntityBounds DEF Valid, CodeEntries, Times, Never
  <2>5. e.v \in CodeValues
    BY <2>4 DEF CodeValues
  <2>6. PICK r \in ResolveRequests :
          /\ CodeHit(b, now, e.v, e.since) = r
          /\ r.pc = "done" /\ r.op = "code" /\ r.b = b /\ r.start = now /\ r.since = e.since
          /\ r.v = e.v
    BY <1>5, <2>4, <2>5, HitMakes
  <2>7. CodeGood(c, e.v, b, e.since, now, now - 2 * Delay)
    <3>1. EntityGrows(c, c)
      BY <1>4 DEF EntityGrows, EntityWorlds
    <3>2. e.until - 2 * Delay \in Int /\ now - 2 * Delay \in Int /\ now - 2 * Delay <= e.until - 2 * Delay
      BY <1>2, <2>4, EntityBounds
    <3>3. CodeGood(c, e.v, b, e.since, 0, now - 2 * Delay)
      BY <2>1, <2>3, <2>4, <3>1, <3>2, CodeStays DEF CodeEntryGood
    <3>4. now <= c.now
      BY <1>2, <1>4
    <3> QED BY <1>6, <3>3, <3>4 DEF CodeGood
  <2>8. ResolveGood(c, r)
    BY <1>4, <2>6, <2>7 DEF ResolveGood, CodeGood
  <2>9. resolving' = [resolving EXCEPT ![q] = r]
    BY <1>6, <2>2, <2>6
  <2> QED BY <1>1, <1>3, <2>6, <2>8, <2>9, ResolveStep
<1>7. CASE resolving' = [resolving EXCEPT ![q] = CodeMiss(b, now)]
  <2>1. PICK r \in ResolveRequests :
          r = CodeMiss(b, now) /\ r.pc = "entity" /\ r.op = "code" /\ r.start = now /\ r.since = now
    BY <1>5, AskMakes
  <2>2. ResolveGood(c, r)
    BY <1>2, <1>4, <2>1 DEF ResolveGood
  <2>3. resolving' = [resolving EXCEPT ![q] = r] /\ height - r.start <= MaxStepTime
    BY <1>2, <1>7, <2>1, EntityBounds
  <2> QED BY <1>1, <1>3, <2>2, <2>3, ResolveStep
<1>8. AskedCode(b, now) = [IdleResolve EXCEPT !.b = b, !.start = height, !.since = height]
  BY <1>2 DEF AskedCode
<1> QED BY <1>6, <1>7, <1>8 DEF getCode, CodeHit, CodeMiss

LEMMA resolveEvmAddressKeeps ==
  ASSUME EntityInv, NEW q \in Resolvers, resolveEvmAddress(q)
  PROVE  EntityInv'
<1>1. /\ KeepEntity /\ failed' \in {failed, height} /\ UNCHANGED <<entityCache, codeCache>>
      /\ resolves' \in 0..MaxResolves
  BY EntityBounds DEF resolveEvmAddress, EntityInv, KeepEntityCaches
<1>2. PICK now \in 0..MaxHeight : now = height /\ now \in 1..MaxHeight
  BY EntityBounds DEF EntityInv
<1>3. PICK c : c = EntityWorld' /\ c.now = now
  <2>1. EntityWorld'.now = now
    BY <1>1, <1>2 DEF EntityWorld, KeepEntity
  <2> QED BY <2>1
<1>4. PICK r \in ResolveRequests :
        AskedAddress(now) = r /\ r.pc = "entity" /\ r.op = "address" /\ r.start = now /\ r.since = 0
  BY AddressMakes
<1>5. resolving' = [resolving EXCEPT ![q] = r]
  BY <1>2, <1>4 DEF resolveEvmAddress, AskedAddress
<1>6. ResolveGood(c, r) /\ height - r.start <= MaxStepTime
  BY <1>2, <1>3, <1>4, EntityBounds DEF ResolveGood
<1> QED BY <1>1, <1>3, <1>5, <1>6, ResolveStep

(* A request knows the entity's type, or that there is none.               *)
LEMMA KnownKeeps ==
  ASSUME EntityInv, KeepEntity, failed' \in {failed, height}, UNCHANGED <<codeCache, resolves>>,
         NEW q \in Resolvers, resolving[q].pc \in {"entity", "contract", "others", "store"},
         NEW type \in Types, Known(q, type), NEW c, c = EntityWorld',
         \/ UNCHANGED entityCache
         \/ \E e \in [type : Types, until : Times] : TypeEntryGood(c, e) /\ entityCache' = e,
         resolving[q].op = "code" /\ type # "none" =>
           TypeFound(c, type, resolving[q].start - Delay),
         resolving[q].op = "code" /\ type = "none" =>
           CodeGood(c, "0x", resolving[q].b, resolving[q].since, resolving[q].start,
                    resolving[q].start - Delay)
  PROVE  EntityInv'
<1>1. PICK o \in ResolveRequests : o = resolving[q]
  BY DEF EntityInv
<1>2. PICK w : w = EntityWorld /\ EntityGrows(w, c)
  BY SameEntity
<1>3. ResolveGood(w, o) /\ ResolveGood(c, o)
  <2>1. ResolveGood(w, o)
    BY <1>1, <1>2 DEF EntityInv
  <2> QED BY <1>2, <2>1, ResolveStays
<1>4. resolves' \in 0..MaxResolves /\ height - o.start <= MaxStepTime
  BY <1>1 DEF EntityInv, Pending
<1>5. /\ \/ UNCHANGED entityCache
         \/ \E e \in [type : Types, until : Times] : TypeEntryGood(c, e) /\ entityCache' = e
      /\ UNCHANGED codeCache
  OBVIOUS
<1>6. CASE o.op = "address"
  <2>1. resolving' = [resolving EXCEPT ![q] = IdleResolve]
    BY <1>1, <1>6 DEF Known
  <2>2. c \in EntityWorlds
    BY <1>2 DEF EntityGrows
  <2>3. ResolveGood(c, IdleResolve)
    BY <2>2, IdleResolveFields DEF ResolveGood, EntityWorlds
  <2>4. PICK r \in ResolveRequests : r = IdleResolve /\ r.pc = "idle"
    BY IdleResolveFields
  <2>5. resolving' = [resolving EXCEPT ![q] = r] /\ ResolveGood(c, r)
    BY <2>1, <2>3, <2>4
  <2> QED BY <1>4, <1>5, <2>4, <2>5, ResolveStep
<1>7. CASE o.op = "code" /\ type = "none"
  <2>1. PICK r \in ResolveRequests :
          /\ WithCode(o, "put", "0x") = r
          /\ r.pc = "put" /\ r.v = "0x" /\ r.op = o.op /\ r.b = o.b /\ r.start = o.start
          /\ r.since = o.since /\ r.type = o.type
    BY CodeMakes DEF ResolveStates, CodeValues
  <2>2. resolving' = [resolving EXCEPT ![q] = r]
    BY <1>1, <1>7, <2>1 DEF Known, WithCode
  <2>3. CodeGood(c, "0x", o.b, o.since, o.start, o.start - Delay)
    BY <1>1, <1>7
  <2>4. o.since = o.start
    BY <1>1, <1>3, <1>7 DEF ResolveGood
  <2>5. ResolveGood(c, r)
    BY <1>3, <1>7, <2>1, <2>3, <2>4 DEF ResolveGood
  <2> QED BY <1>4, <1>5, <2>1, <2>2, <2>5, ResolveStep
<1>8. CASE o.op = "code" /\ type # "none"
  <2>1. PICK r \in ResolveRequests :
          /\ WithType(o, "block", type) = r
          /\ r.pc = "block" /\ r.type = type /\ r.op = o.op /\ r.b = o.b /\ r.start = o.start
          /\ r.since = o.since /\ r.v = o.v
    BY TypeMakes DEF ResolveStates
  <2>2. resolving' = [resolving EXCEPT ![q] = r]
    BY <1>1, <1>8, <2>1 DEF Known, WithType
  <2>3. TypeFound(c, type, o.start - Delay)
    BY <1>1, <1>8
  <2>4. o.since = o.start
    BY <1>1, <1>3, <1>8 DEF ResolveGood
  <2>5. ResolveGood(c, r)
    BY <1>3, <1>8, <2>1, <2>3, <2>4 DEF ResolveGood
  <2> QED BY <1>4, <1>5, <2>1, <2>2, <2>5, ResolveStep
<1>9. o.op \in {"code", "address"}
  BY DEF ResolveRequests
<1> QED BY <1>6, <1>7, <1>8, <1>9

(* A request whose next look-up is known, and nothing else.                *)
LEMMA EntityMoves ==
  ASSUME EntityInv, KeepEntity, failed' \in {failed, height}, KeepEntityCaches, UNCHANGED resolves,
         NEW q \in Resolvers, Pending(q), NEW pc \in ResolveStates, Step(q, pc),
         pc \notin {"store", "block", "put"}, NEW c, c = EntityWorld',
         resolving[q].pc \notin {"idle", "done"},
         pc = "others" /\ c.what = "contract" => c.since = 0 \/ MisledIn(c, resolving[q].start),
         pc # "done"
  PROVE  EntityInv'
<1>1. PICK o \in ResolveRequests : o = resolving[q]
  BY DEF EntityInv
<1>2. PICK w : w = EntityWorld /\ EntityGrows(w, c)
  BY SameEntity
<1>3. ResolveGood(c, o)
  <2>1. ResolveGood(w, o)
    BY <1>1, <1>2 DEF EntityInv
  <2> QED BY <1>2, <2>1, ResolveStays
<1>4. resolves' \in 0..MaxResolves /\ height - o.start <= MaxStepTime
  BY <1>1 DEF EntityInv, Pending
<1> DEFINE r == [o EXCEPT !.pc = pc]
<1>5. /\ r \in ResolveRequests /\ r.pc = pc /\ r.op = o.op /\ r.start = o.start /\ r.since = o.since
  BY StepMakes
<1>6. resolving' = [resolving EXCEPT ![q] = r]
  BY <1>1 DEF Step, EntityInv
<1> HIDE DEF r
<1>7. ResolveGood(c, r)
  BY <1>1, <1>3, <1>5 DEF ResolveGood
<1>8. UNCHANGED entityCache /\ UNCHANGED codeCache
  BY DEF KeepEntityCaches
<1> QED BY <1>4, <1>5, <1>6, <1>7, <1>8, ResolveStep

LEMMA EntityLookupKeeps ==
  ASSUME EntityInv, NEW q \in Resolvers, EntityLookup(q)
  PROVE  EntityInv'
<1>1. /\ KeepEntity /\ failed' \in {failed, height} /\ KeepEntityCaches /\ UNCHANGED resolves
      /\ resolving[q].pc = "entity" /\ Pending(q)
      /\ UNCHANGED <<codeCache, resolves>> /\ UNCHANGED entityCache /\ UNCHANGED failed
  BY DEF EntityLookup, KeepEntityCaches, Pending
<1>2. PICK c : c = EntityWorld' /\ c = EntityWorld
  BY <1>1 DEF KeepEntity, EntityWorld
<1>3. CASE Step(q, "contract")
  <2>1. "contract" \in ResolveStates
    BY DEF ResolveStates
  <2> QED BY <1>1, <1>2, <1>3, <2>1, EntityMoves
<1>4. CASE Valid(entityCache) /\ Known(q, entityCache.type)
  <2>1. PICK e \in [type : Types, until : Times] : e = entityCache /\ TypeEntryGood(c, e)
    BY <1>2 DEF EntityInv
  <2>2. PICK o \in ResolveRequests :
          o = resolving[q] /\ ResolveGood(c, o) /\ o.start \in Nat /\ o.start <= height
    <3>1. resolving[q] \in ResolveRequests /\ ResolveGood(c, resolving[q])
      BY <1>2 DEF EntityInv
    <3>2. c.now = height
      BY <1>2 DEF EntityWorld
    <3> QED BY <3>1, <3>2 DEF ResolveRequests, ResolveGood
  <2>3. e.until \in Nat /\ height <= e.until /\ TypeFound(c, e.type, e.until - Delay)
    BY <1>4, <2>1, EntityBounds DEF Valid, TypeEntryGood, Never, EntityInv
  <2>4. TypeFound(c, e.type, o.start - Delay)
    <3>1. EntityGrows(c, c)
      BY <1>2, EntityUnchanged
    <3>2. e.until - Delay \in Int /\ o.start - Delay \in Int /\ o.start - Delay <= e.until - Delay
      BY <2>2, <2>3, EntityBounds DEF EntityInv
    <3> QED BY <2>3, <3>1, <3>2, TypeStays
  <2>5. PICK type \in Types : type = e.type /\ type # "none"
    BY <2>3 DEF TypeFound, Kinds
  <2>6. Known(q, type)
    BY <1>4, <2>1, <2>5
  <2>7. TypeFound(c, type, resolving[q].start - Delay)
    BY <2>2, <2>4, <2>5
  <2> QED BY <1>1, <1>2, <2>5, <2>6, <2>7, KnownKeeps
<1> QED BY <1>3, <1>4 DEF EntityLookup

(* A type was found, and is to be stored.                                  *)
LEMMA ResolvedKeeps ==
  ASSUME EntityInv, KeepEntity, KeepEntityCaches, UNCHANGED <<resolves, failed>>,
         NEW q \in Resolvers, resolving[q].pc \in {"contract", "others"},
         NEW type \in Types, Resolved(q, "store", type),
         TypeFound(EntityWorld, type, resolving[q].start)
  PROVE  EntityInv'
<1>1. PICK o \in ResolveRequests : o = resolving[q]
  BY DEF EntityInv
<1>2. PICK c : c = EntityWorld' /\ c = EntityWorld
  BY DEF KeepEntity, EntityWorld
<1>3. ResolveGood(c, o)
  BY <1>1, <1>2 DEF EntityInv
<1>4. PICK r \in ResolveRequests :
        /\ WithType(o, "store", type) = r
        /\ r.pc = "store" /\ r.type = type /\ r.op = o.op /\ r.b = o.b /\ r.start = o.start
        /\ r.since = o.since /\ r.v = o.v
  BY TypeMakes DEF ResolveStates
<1>5. resolving' = [resolving EXCEPT ![q] = r]
  BY <1>1, <1>4 DEF Resolved, WithType, EntityInv
<1>6. ResolveGood(c, r)
  BY <1>1, <1>2, <1>3, <1>4 DEF ResolveGood
<1>7. /\ resolves' \in 0..MaxResolves /\ height - r.start <= MaxStepTime
      /\ UNCHANGED entityCache /\ UNCHANGED codeCache /\ failed' \in {failed, height}
  BY <1>1, <1>4 DEF EntityInv, Pending, KeepEntityCaches
<1> QED BY <1>2, <1>4, <1>5, <1>6, <1>7, ResolveStep

(* What a look-up saw, of the world as it is.                              *)
LEMMA RequestNow ==
  ASSUME EntityInv, NEW q \in Resolvers
  PROVE  /\ resolving[q] \in ResolveRequests /\ ResolveGood(EntityWorld, resolving[q])
         /\ resolving[q].start \in Nat /\ resolving[q].since \in Nat /\ resolving[q].b \in Nat
         /\ resolving[q].start <= height /\ resolving[q].since <= height
         /\ height \in Nat /\ created \in Nat /\ failed \in Int
<1>1. resolving[q] \in ResolveRequests /\ ResolveGood(EntityWorld, resolving[q])
  BY DEF EntityInv
<1>2. EntityWorld.now = height
  BY DEF EntityWorld
<1>3. height \in Nat /\ created \in Nat /\ failed \in Int
  BY EntityBounds DEF EntityInv, Never
<1> QED BY <1>1, <1>2, <1>3 DEF ResolveRequests, ResolveGood

LEMMA getContractKeeps ==
  ASSUME EntityInv, NEW q \in Resolvers, getContract(q)
  PROVE  EntityInv'
<1>1. /\ KeepEntity /\ KeepEntityCaches /\ UNCHANGED resolves
      /\ resolving[q].pc = "contract" /\ Pending(q) /\ "others" \in ResolveStates
  BY DEF getContract, Pending, ResolveStates
<1>2. PICK c : c = EntityWorld'
  OBVIOUS
<1>3. c.what = kind /\ c.since = created /\ c.failure = failed'
  BY <1>1, <1>2 DEF EntityWorld, KeepEntity
<1>4. CASE /\ created # 0 /\ kind = "contract" /\ Resolved(q, "store", "contract") /\ UNCHANGED failed
  <2>1. TypeFound(EntityWorld, "contract", resolving[q].start)
    BY <1>4 DEF TypeFound, EntityWorld, Kinds
  <2>2. "contract" \in Types
    BY DEF Types, Kinds
  <2> QED BY <1>1, <1>4, <2>1, <2>2, ResolvedKeeps
<1>5. CASE (created = 0 \/ kind # "contract") /\ Step(q, "others") /\ UNCHANGED failed
  <2>1. c.what = "contract" => c.since = 0
    BY <1>3, <1>5
  <2>2. failed' \in {failed, height}
    BY <1>5
  <2> QED BY <1>1, <1>2, <1>5, <2>1, <2>2, EntityMoves
<1>6. CASE Step(q, "others") /\ failed' = height
  <2>1. MisledIn(c, resolving[q].start)
    BY <1>3, <1>6, RequestNow DEF MisledIn
  <2>2. failed' \in {failed, height}
    BY <1>6
  <2> QED BY <1>1, <1>2, <1>6, <2>1, <2>2, EntityMoves
<1> QED BY <1>4, <1>5, <1>6 DEF getContract

LEMMA getOthersKeeps ==
  ASSUME EntityInv, NEW q \in Resolvers, getOthers(q)
  PROVE  EntityInv'
<1>1. /\ KeepEntity /\ KeepEntityCaches /\ UNCHANGED resolves
      /\ resolving[q].pc = "others" /\ Pending(q) /\ "none" \in Types
      /\ UNCHANGED <<codeCache, resolves>> /\ UNCHANGED entityCache
  BY DEF getOthers, Pending, Types, KeepEntityCaches
<1>2. PICK c : c = EntityWorld'
  OBVIOUS
<1>3. c.what = kind /\ c.since = created /\ c.failure = failed' /\ c.now = height
  BY <1>1, <1>2 DEF EntityWorld, KeepEntity
<1>4. PICK o \in ResolveRequests :
        /\ o = resolving[q] /\ ResolveGood(EntityWorld, o)
        /\ o.start \in Nat /\ o.since \in Nat /\ o.b \in Nat
        /\ o.start <= height /\ o.since <= height
        /\ height \in Nat /\ created \in Nat
  BY RequestNow
<1>5. kind = "contract" => created = 0 \/ MisledIn(EntityWorld, o.start)
  BY <1>1, <1>4 DEF ResolveGood, EntityWorld
<1>6. CASE FoundAs(q) # "none" /\ Resolved(q, "store", FoundAs(q)) /\ UNCHANGED failed
  <2>1. PICK type : type = FoundAs(q)
    OBVIOUS
  <2>2. type \in {"token", "account"} /\ created # 0 /\ (type = "token" <=> kind = "token")
    BY <1>6, <2>1 DEF FoundAs
  <2>3. kind \in Kinds
    BY DEF EntityInv
  <2>4. TypeFound(EntityWorld, type, resolving[q].start) /\ type \in Types
    BY <1>4, <1>5, <2>2, <2>3 DEF TypeFound, EntityWorld, Kinds, Types
  <2> QED BY <1>1, <1>6, <2>1, <2>4, ResolvedKeeps
<1>7. CASE FoundAs(q) = "none" /\ NothingFound(q, "none") /\ UNCHANGED failed
  <2>1. c = EntityWorld
    BY <1>1, <1>2, <1>7 DEF EntityWorld, KeepEntity
  <2>2. SUFFICES ASSUME o.op = "code"
                 PROVE  CodeGood(c, "0x", o.b, o.since, o.start, o.start - Delay)
    <3>1. failed' \in {failed, height} /\ Known(q, "none")
      BY <1>7 DEF NothingFound
    <3> QED BY <1>1, <1>2, <1>4, <2>2, <3>1, KnownKeeps
  <2>3. o.since = o.start
    BY <1>1, <1>4, <2>2 DEF ResolveGood
  <2>4. created = 0 \/ kind # "token"
    BY <1>4, <1>7, <2>2 DEF FoundAs
  <2>5. created # 0 /\ kind = "contract" => MisledIn(c, o.start - Delay)
    <3>1. EntityGrows(c, c) /\ o.start \in Int /\ o.start - Delay \in Int /\ o.start - Delay <= o.start
      BY <1>4, <2>1, EntityUnchanged, EntityBounds
    <3> QED BY <1>5, <2>1, <3>1, MisledStays
  <2> QED BY <1>3, <1>4, <2>3, <2>4, <2>5 DEF CodeGood, HasCodeIn
<1>8. CASE NothingFound(q, "none") /\ failed' = height
  <2>1. MisledIn(c, o.start - Delay)
    BY <1>3, <1>4, <1>8, EntityBounds DEF MisledIn
  <2>2. CodeGood(c, "0x", o.b, o.since, o.start, o.start - Delay)
    BY <1>3, <1>4, <2>1 DEF CodeGood
  <2>3. failed' \in {failed, height} /\ Known(q, "none")
    BY <1>8 DEF NothingFound
  <2> QED BY <1>1, <1>2, <1>4, <2>2, <2>3, KnownKeeps
<1> QED BY <1>6, <1>7, <1>8 DEF getOthers

(* The type is kept, and the request goes on with it.                      *)
LEMMA StoreEntityKeeps ==
  ASSUME EntityInv, NEW q \in Resolvers, StoreEntity(q)
  PROVE  EntityInv'
<1>1. /\ KeepEntity /\ failed' \in {failed, height} /\ UNCHANGED <<codeCache, resolves>>
      /\ resolving[q].pc = "store" /\ Known(q, resolving[q].type)
      /\ entityCache' = [type |-> resolving[q].type, until |-> StoredUntil] /\ UNCHANGED failed
  BY DEF StoreEntity
<1>2. PICK c : c = EntityWorld' /\ c = EntityWorld
  BY <1>1 DEF KeepEntity, EntityWorld
<1>3. PICK o \in ResolveRequests :
        /\ o = resolving[q] /\ ResolveGood(c, o) /\ o.start \in Nat /\ height \in Nat
        /\ height - o.start <= MaxStepTime /\ height <= MaxHeight
  <2>1. height <= MaxHeight /\ height - resolving[q].start <= MaxStepTime
    BY <1>1, EntityBounds DEF EntityInv, Pending
  <2> QED BY <1>2, <2>1, RequestNow
<1>4. TypeFound(c, o.type, o.start) /\ o.type \in Types /\ o.type # "none"
  BY <1>1, <1>3 DEF ResolveGood, TypeFound, Types, Kinds
<1>5. PICK until \in Nat : until = height + CacheTtl /\ until \in Times
  BY <1>3, EntityBounds DEF Times, Never
<1> DEFINE e == [type |-> o.type, until |-> until]
<1>6. e \in [type : Types, until : Times] /\ e.type = o.type /\ e.until = until /\ entityCache' = e
  BY <1>1, <1>3, <1>4, <1>5 DEF StoredUntil
<1> HIDE DEF e
<1>7. TypeFound(c, o.type, until - Delay) /\ TypeFound(c, o.type, o.start - Delay)
  <2>1. EntityGrows(c, c)
    BY <1>2, EntityUnchanged
  <2>2. /\ o.start \in Int /\ until - Delay \in Int /\ until - Delay <= o.start
        /\ o.start - Delay \in Int /\ o.start - Delay <= o.start
    BY <1>3, <1>5, EntityBounds
  <2> QED BY <1>4, <2>1, <2>2, TypeStays
<1>8. TypeEntryGood(c, e)
  BY <1>5, <1>6, <1>7 DEF TypeEntryGood
<1>9. PICK type \in Types : type = o.type /\ type # "none"
  BY <1>4
<1>10. Known(q, type) /\ TypeFound(c, type, resolving[q].start - Delay)
  BY <1>1, <1>3, <1>7, <1>9
<1>11. \E x \in [type : Types, until : Times] : TypeEntryGood(c, x) /\ entityCache' = x
  BY <1>6, <1>8
<1> QED BY <1>1, <1>2, <1>9, <1>10, <1>11, KnownKeeps

LEMMA AnsweredMakes ==
  ASSUME NEW o \in ResolveRequests, NEW pc \in ResolveStates, NEW v \in CodeValues
  PROVE  \E r \in ResolveRequests :
           /\ WithCode(WithType(o, o.pc, "none"), pc, v) = r
           /\ r.pc = pc /\ r.v = v /\ r.op = o.op /\ r.b = o.b /\ r.start = o.start
           /\ r.since = o.since
<1>1. "none" \in Types /\ o.pc \in ResolveStates
  BY DEF Types, ResolveRequests
<1>2. PICK m \in ResolveRequests :
        /\ WithType(o, o.pc, "none") = m
        /\ m.op = o.op /\ m.b = o.b /\ m.start = o.start /\ m.since = o.since
  BY <1>1, TypeMakes
<1>3. PICK r \in ResolveRequests :
        /\ WithCode(m, pc, v) = r
        /\ r.pc = pc /\ r.v = v /\ r.op = m.op /\ r.b = m.b /\ r.start = m.start /\ r.since = m.since
  BY CodeMakes
<1> QED BY <1>2, <1>3

LEMMA AnsweredKeeps ==
  ASSUME EntityInv, KeepEntity, KeepEntityCaches, UNCHANGED <<resolves, failed>>,
         NEW q \in Resolvers, resolving[q].pc = "block",
         NEW pc, NEW v \in CodeValues, Answer(q, pc, v),
         \/ pc = "done" /\ v = "error"
         \/ /\ pc = "put" /\ v \in {"code", "0x"}
            /\ CodeGood(EntityWorld, v, resolving[q].b, resolving[q].since, resolving[q].start,
                        resolving[q].start - Delay)
  PROVE  EntityInv'
<1>1. PICK o \in ResolveRequests : o = resolving[q]
  BY DEF EntityInv
<1>2. PICK c : c = EntityWorld' /\ c = EntityWorld
  BY DEF KeepEntity, EntityWorld
<1>3. ResolveGood(c, o) /\ o.op = "code" /\ o.since = o.start
  BY <1>1, <1>2 DEF EntityInv, ResolveGood
<1>4. pc \in ResolveStates /\ o.pc = "block"
  BY <1>1 DEF ResolveStates
<1>5. PICK r \in ResolveRequests :
        /\ WithCode(WithType(o, o.pc, "none"), pc, v) = r
        /\ r.pc = pc /\ r.v = v /\ r.op = o.op /\ r.b = o.b /\ r.start = o.start
        /\ r.since = o.since
  BY <1>4, AnsweredMakes
<1>6. resolving' = [resolving EXCEPT ![q] = r]
  <2>1. [[o EXCEPT !.pc = o.pc, !.type = "none"] EXCEPT !.pc = pc, !.v = v]
          = [o EXCEPT !.pc = pc, !.type = "none", !.v = v]
    BY DEF ResolveRequests
  <2>2. resolving' = [resolving EXCEPT ![q] = [o EXCEPT !.pc = pc, !.type = "none", !.v = v]]
    BY <1>1 DEF Answer, EntityInv
  <2> QED BY <1>5, <2>1, <2>2 DEF WithCode, WithType
<1>7. ResolveGood(c, r)
  <2>1. CASE pc = "done" /\ v = "error"
    <3>1. CodeGood(c, "error", r.b, r.since, r.start, r.start - 2 * Delay)
      BY <1>3, <1>5 DEF CodeGood, ResolveGood
    <3> QED BY <1>3, <1>5, <2>1, <3>1 DEF ResolveGood
  <2>2. CASE /\ pc = "put" /\ v \in {"code", "0x"}
             /\ CodeGood(c, v, o.b, o.since, o.start, o.start - Delay)
    BY <1>3, <1>5, <2>2 DEF ResolveGood
  <2> QED BY <1>1, <1>2, <2>1, <2>2
<1>8. /\ resolves' \in 0..MaxResolves /\ height - r.start <= MaxStepTime
      /\ UNCHANGED entityCache /\ UNCHANGED codeCache /\ failed' \in {failed, height}
  BY <1>1, <1>5 DEF EntityInv, Pending, KeepEntityCaches
<1> QED BY <1>2, <1>5, <1>6, <1>7, <1>8, ResolveStep

(* getHistoricalBlockResponse, and whether the entity was there by then.   *)
LEMMA CodeOfBlockKeeps ==
  ASSUME EntityInv, NEW q \in Resolvers, CodeOfBlock(q)
  PROVE  EntityInv'
<1>1. KeepEntity /\ KeepEntityCaches /\ UNCHANGED <<resolves, failed>> /\ resolving[q].pc = "block"
  BY DEF CodeOfBlock
<1>2. CASE Answer(q, "done", "error")
  BY <1>1, <1>2, AnsweredKeeps DEF CodeValues
<1>3. CASE Answer(q, "put", CodeAt(q, resolving[q].b))
  <2>1. PICK o \in ResolveRequests :
          /\ o = resolving[q] /\ ResolveGood(EntityWorld, o)
          /\ o.start \in Nat /\ o.since \in Nat /\ o.b \in Nat
          /\ o.start <= height /\ o.since <= height
          /\ height \in Nat /\ created \in Nat
    BY RequestNow
  <2>2. TypeFound(EntityWorld, o.type, o.start - Delay)
    BY <1>1, <2>1 DEF ResolveGood
  <2>3. /\ created # 0 /\ (o.type \in {"contract", "token"} => o.type = kind)
        /\ o.type # kind => MisledIn(EntityWorld, o.start - Delay)
    BY <2>2 DEF TypeFound, EntityWorld
  <2>4. PICK v \in {"code", "0x"} : v = CodeAt(q, resolving[q].b)
    BY DEF CodeAt
  <2>5. CASE v = "code"
    <3>1. o.type \in {"contract", "token"} /\ (o.b = 0 \/ ~(created > o.b))
      BY <2>1, <2>4, <2>5 DEF CodeAt, NoEntityIn
    <3>2. o.b # 0 => created <= o.b
      BY <2>1, <3>1
    <3>3. HasCodeIn(EntityWorld)
      BY <2>3, <3>1 DEF HasCodeIn, EntityWorld
    <3> QED BY <1>1, <1>3, <2>1, <2>4, <2>5, <3>2, <3>3, AnsweredKeeps DEF CodeGood, EntityWorld, CodeValues
  <2>6. CASE v = "0x"
    <3>1. o.type \notin {"contract", "token"} \/ (o.b # 0 /\ (o.b > height \/ created > o.b))
      BY <2>1, <2>4, <2>6 DEF CodeAt, NoEntityIn
    <3>2. SUFFICES ASSUME o.b <= o.since, HasCodeIn(EntityWorld),
                          created <= (IF o.b = 0 THEN o.start ELSE o.b)
                   PROVE  MisledIn(EntityWorld, o.start - Delay)
      <4>1. CodeGood(EntityWorld, "0x", o.b, o.since, o.start, o.start - Delay)
        BY <2>1, <3>2 DEF CodeGood, EntityWorld
      <4> QED BY <1>1, <1>3, <2>1, <2>4, <2>6, <4>1, AnsweredKeeps DEF CodeValues
    <3>3. ~(o.b # 0 /\ (o.b > height \/ created > o.b))
      BY <2>1, <3>2
    <3>4. o.type # kind
      BY <3>1, <3>2, <3>3 DEF HasCodeIn, EntityWorld
    <3> QED BY <2>3, <3>4
  <2> QED BY <2>4, <2>5, <2>6
<1> QED BY <1>2, <1>3 DEF CodeOfBlock

(* The cache decorator keeps the answer, also "0x".                        *)
LEMMA PutCodeKeeps ==
  ASSUME EntityInv, NEW q \in Resolvers, PutCode(q)
  PROVE  EntityInv'
<1>1. PICK c : c = EntityWorld' /\ c = EntityWorld
  BY DEF PutCode, KeepEntity, EntityWorld
<1>2. PICK o \in ResolveRequests :
        /\ o = resolving[q] /\ ResolveGood(c, o) /\ o.start \in Nat /\ o.since \in Nat /\ o.b \in Nat
        /\ height \in Nat /\ o.since <= height /\ o.start <= height
  BY <1>1, RequestNow
<1>3. /\ KeepEntity /\ failed' \in {failed, height} /\ UNCHANGED entityCache /\ o.pc = "put"
      /\ Step(q, "done") /\ resolves' \in 0..MaxResolves
      /\ codeCache' = IF o.b = 0 THEN codeCache
                      ELSE [codeCache EXCEPT ![o.b] =
                              [v |-> o.v, since |-> o.since, until |-> height + CacheTtl]]
  BY <1>2 DEF PutCode, EntityInv
<1>4. height <= MaxHeight /\ height - o.start <= MaxStepTime
  BY <1>2, <1>3, EntityBounds DEF EntityInv, Pending
<1>5. /\ o.op = "code" /\ o.v \in {"code", "0x"}
      /\ CodeGood(c, o.v, o.b, o.since, o.start, o.start - Delay)
  BY <1>2, <1>3 DEF ResolveGood
<1>6. EntityGrows(c, c)
  BY <1>1, EntityUnchanged
<1> DEFINE r == [o EXCEPT !.pc = "done"]
<1>7. /\ r \in ResolveRequests /\ r.pc = "done" /\ r.op = o.op /\ r.b = o.b /\ r.start = o.start
      /\ r.since = o.since /\ r.v = o.v
  BY StepMakes DEF ResolveStates
<1>8. resolving' = [resolving EXCEPT ![q] = r]
  BY <1>2, <1>3 DEF Step, EntityInv
<1> HIDE DEF r
<1>9. ResolveGood(c, r)
  <2>1. /\ o.start - Delay \in Int /\ o.start - 2 * Delay \in Int
        /\ o.start - 2 * Delay <= o.start - Delay
    BY <1>2, EntityBounds
  <2>2. CodeGood(c, o.v, o.b, o.since, o.start, o.start - 2 * Delay)
    BY <1>2, <1>5, <1>6, <2>1, CodeStays
  <2> QED BY <1>2, <1>7, <2>2 DEF ResolveGood
<1>10. CASE o.b = 0
  <2>1. UNCHANGED codeCache
    BY <1>3, <1>10
  <2> QED BY <1>1, <1>3, <1>7, <1>8, <1>9, <2>1, ResolveStep
<1>11. CASE o.b # 0
  <2>1. PICK b \in 1..MaxHeight : b = o.b
    BY <1>2, <1>11 DEF ResolveRequests
  <2>2. PICK until \in Nat : until = height + CacheTtl /\ until \in Times
    BY <1>2, <1>4, EntityBounds DEF Times, Never
  <2>3. PICK since \in 0..MaxHeight : since = o.since
    BY DEF ResolveRequests
  <2> DEFINE e == [v |-> o.v, since |-> since, until |-> until]
  <2>4. e \in CodeEntries /\ e.v = o.v /\ e.since = o.since /\ e.until = until
    BY <1>5, <2>2, <2>3 DEF CodeEntries
  <2>5. codeCache' = [codeCache EXCEPT ![b] = e]
    BY <1>3, <1>11, <2>1, <2>2, <2>3
  <2> HIDE DEF e
  <2>6. CodeEntryGood(c, b, e)
    <3>1. /\ o.start - Delay \in Int /\ until - 2 * Delay \in Int
          /\ until - 2 * Delay <= o.start - Delay
      BY <1>2, <1>4, <2>2, EntityBounds
    <3>2. CodeGood(c, o.v, o.b, o.since, o.start, until - 2 * Delay)
      BY <1>2, <1>5, <1>6, <3>1, CodeStays
    <3>3. 0 <= c.now
      BY <1>6 DEF EntityGrows, EntityWorlds
    <3> QED BY <1>11, <2>1, <2>4, <3>2, <3>3 DEF CodeEntryGood, CodeGood
  <2>7. \E x \in 1..MaxHeight, y \in CodeEntries :
          CodeEntryGood(c, x, y) /\ codeCache' = [codeCache EXCEPT ![x] = y]
    BY <2>4, <2>5, <2>6
  <2> QED BY <1>1, <1>3, <1>7, <1>8, <1>9, <2>7, ResolveStep
<1> QED BY <1>10, <1>11

LEMMA EntityNextKeeps == ASSUME EntityInv, EntityNext PROVE EntityInv'
BY BlockMadeKeeps, getCodeKeeps, resolveEvmAddressKeeps, EntityLookupKeeps, getContractKeeps,
   getOthersKeeps, StoreEntityKeeps, CodeOfBlockKeeps, PutCodeKeeps DEF EntityNext

LEMMA EntityInvIsRight == EntityInv => EntitiesRight
<1> SUFFICES ASSUME EntityInv PROVE EntitiesRight
  OBVIOUS
<1>1. EntityTypeOK
  <2>1. failed \in Never .. MaxHeight /\ height \in Nat
    BY EntityBounds DEF EntityInv, Never
  <2> QED BY <2>1 DEF EntityInv, EntityTypeOK, CodeEntries, ResolveRequests, CodeValues
<1>2. PICK w : w = EntityWorld /\ EntityGrows(w, w)
  BY EntityUnchanged
<1>3. /\ w.what = kind /\ w.since = created /\ w.failure = failed /\ w.now = height
      /\ height \in Nat /\ created \in Nat /\ failed \in Int
  BY <1>2, EntityBounds DEF EntityWorld, EntityInv, Never
<1>4. \A t \in Int : MisledIn(w, t) <=> Misled(t)
  BY <1>3 DEF MisledIn, Misled
<1>5. CachedTypeIsRight
  <2>1. SUFFICES ASSUME Valid(entityCache), entityCache.type # kind
                 PROVE  Misled(height - CacheTtl - MaxStepTime)
    BY DEF CachedTypeIsRight
  <2>2. PICK e \in [type : Types, until : Times] : e = entityCache /\ TypeEntryGood(w, e)
    BY <1>2 DEF EntityInv
  <2>3. e.until \in Nat /\ height <= e.until /\ MisledIn(w, e.until - Delay)
    BY <1>3, <2>1, <2>2 DEF TypeEntryGood, TypeFound, Valid, Never
  <2>4. /\ e.until - Delay \in Int /\ height - CacheTtl - MaxStepTime \in Int
        /\ height - CacheTtl - MaxStepTime <= e.until - Delay
    BY <1>3, <2>3, EntityBounds
  <2>5. MisledIn(w, height - CacheTtl - MaxStepTime)
    BY <1>2, <2>3, <2>4, MisledStays
  <2> QED BY <1>4, <2>4, <2>5
<1>6. CodeIsRight
  <2>1. SUFFICES ASSUME NEW q \in Resolvers, NEW r, r = resolving[q], r.pc = "done", r.op = "code"
                 PROVE  /\ r.v = "code" => HasCode /\ (r.b # 0 => created <= r.b)
                        /\ r.v = "0x" /\ r.b <= r.since /\ HasCode
                             /\ created <= (IF r.b = 0 THEN r.start ELSE r.b) =>
                             Misled(r.start - 2 * (CacheTtl + MaxStepTime))
    BY DEF CodeIsRight, AnswerIs
  <2>2. CodeGood(w, r.v, r.b, r.since, r.start, r.start - 2 * Delay) /\ r.start \in Nat
    BY <1>2, <2>1, RequestNow DEF ResolveGood
  <2>3. HasCodeIn(w) <=> HasCode
    BY <1>3 DEF HasCodeIn, HasCode
  <2>4. r.start - 2 * Delay \in Int /\ r.start - 2 * Delay = r.start - 2 * (CacheTtl + MaxStepTime)
    BY <2>2, EntityBounds
  <2>5. MisledIn(w, r.start - 2 * Delay) => Misled(r.start - 2 * (CacheTtl + MaxStepTime))
    BY <1>4, <2>4
  <2> QED BY <1>3, <2>2, <2>3, <2>5 DEF CodeGood
<1> QED BY <1>1, <1>5, <1>6 DEF EntitiesRight

(* Whatever the times to live, the type kept for an address is its         *)
(* entity's and eth_getCode answers with code when there is some, unless a *)
(* look-up failed or a contract was created between two of them within     *)
(* the time that one cache, or two in a row, can hold what came of it      *)
(* (MirrorNodeClient.resolveEntityType, ContractService.getCode).          *)
THEOREM EntitiesAreRight == EntitySpec => []EntitiesRight
<1>1. EntityInv /\ UNCHANGED entityVars => EntityInv'
  BY DEF EntityInv, entityVars, EntityWorld, Pending
<1> QED BY <1>1, EntityStarts, EntityNextKeeps, EntityInvIsRight, PTL DEF EntitySpec
-----------------------------------------------------------------------------
(***************************************************************************)
(* Accounts: balances and nonces of a chain that only grows, for any       *)
(* chain, page size, snapshots, times to live and number of requests.      *)
(***************************************************************************)

(* The last transaction of the account up to a block is one of another     *)
(* sender.                                                                 *)
LastReceived(b) ==
  \E t \in TxsUpTo(b) : SlotAt(t) = "received" /\ \A u \in TxsUpTo(b) : u <= t

AccountWorld ==
  [made |-> LastBlock, ends |-> [b \in Int |-> End(b)], nonces |-> [b \in Int |-> NonceAt(b)],
   received |-> {b \in Int : LastReceived(b)}]

Counts == 0 .. 2 * MaxBlocks
AccountWorlds ==
  [made : 1..MaxBlocks, ends : [Int -> Counts], nonces : [Int -> Counts], received : SUBSET Int]

AccountGrows(w, c) ==
  /\ w \in AccountWorlds /\ c \in AccountWorlds /\ w.made <= c.made
  /\ \A b \in Int : b <= w.made =>
       /\ c.ends[b] = w.ends[b] /\ c.nonces[b] = w.nonces[b]
       /\ b \in c.received <=> b \in w.received

(* The three parts of the property, of an answer v of a request of then.   *)
BalanceGood(w, b, v, since) ==
  b \in 1 .. since =>
    \/ v \in w.ends[b] - 1 .. w.ends[b]
    \/ v > w.ends[b] /\ b >= since - 1 - BlockNumberTtl
    \/ /\ To(since + MaxDuration) - From(b) > UpdateInterval
       /\ v \in w.ends[b - SnapshotEvery] .. w.ends[b]

NonceGood(w, b, v, since) ==
  b \in 2 .. since =>
    \/ v = w.nonces[b]
    \/ v > w.nonces[b] /\ (b >= since - MaxBlockRange \/ b \in w.received)

ValueGood(w, op, b, v, since) ==
  v >= 0 => IF op = "balance" THEN BalanceGood(w, b, v, since) ELSE NonceGood(w, b, v, since)

(* The newest nonce at t, or a later one.                                  *)
FreshSince(w, v, t) == v >= 0 => t <= w.made /\ v >= w.nonces[t]

AccountRequests ==
  [pc : ReadStates, op : Ops, b : Heads, start : Heads, since : Heads, head : Heads, v : Values]

FreshFrom(r) == r.start - NonceTtl - MaxDuration

AccountReadGood(w, r) ==
  /\ r.start <= w.made /\ r.since <= w.made
  /\ r.pc \notin {"idle", "put", "done"} => r.since = r.start
  /\ r.pc \in {"extract", "stamp", "block"} => r.op = "balance"
  /\ r.pc \in {"inner", "newest", "result", "keep"} => r.op = "nonce"
  /\ r.pc = "block" => r.head <= r.start + MaxDuration
  /\ r.pc \in {"newest", "result"} => r.b > 1
  /\ r.pc = "account" /\ r.op = "balance" => r.b = 0 \/ r.b >= r.start - 1 - BlockNumberTtl
  /\ r.pc = "account" /\ r.op = "nonce" /\ r.b \in 2 .. r.start =>
       r.b >= r.start - MaxBlockRange \/ r.b \in w.received
  /\ r.pc \in {"keep", "put"} => r.v >= 0
  /\ r.pc \in {"keep", "put", "done"} => ValueGood(w, r.op, r.b, r.v, r.since)
  /\ r.pc = "keep" /\ r.b = 0 => FreshSince(w, r.v, r.start)
  /\ r.pc \in {"put", "done"} /\ r.op = "nonce" /\ r.b = 0 => FreshSince(w, r.v, FreshFrom(r))

(* A nonce kept for `latest' is as old as the request that kept it.        *)
NonceEntryGood(w, b, e) ==
  /\ e.since <= w.made
  /\ ValueGood(w, "nonce", b, e.v, e.since)
  /\ b = 0 => FreshSince(w, e.v, e.until - NonceTtl - MaxDuration)

AnswerEntryGood(w, op, b, e) == e.since <= w.made /\ ValueGood(w, op, b, e.v, e.since)

NumberGood(w, e) == e.v <= w.made /\ (e.v >= 0 => e.until = e.v + BlockNumberTtl)

AccountInv ==
  /\ AccountTypeOK
  /\ NumberGood(AccountWorld, blockNumber)
  /\ \A op \in Ops, b \in 1..MaxBlocks : AnswerEntryGood(AccountWorld, op, b, answered[op][b])
  /\ \A b \in Heads : NonceEntryGood(AccountWorld, b, nonceCache[b])
  /\ \A q \in Readers : AccountReadGood(AccountWorld, read[q])
  /\ \A q \in Readers : Going(q) => LastBlock - read[q].start <= MaxDuration

-----------------------------------------------------------------------------

LEMMA AccountBounds ==
  /\ BlockNumberTtl \in Nat /\ NonceTtl \in Nat /\ MaxBlockRange \in Nat /\ UpdateInterval \in Nat
  /\ MaxReads \in Nat /\ MaxDuration \in Nat
  /\ SnapshotEvery \in Nat \ {0} /\ PageSize \in Nat \ {0} /\ MaxBlocks \in Nat \ {0}
  /\ StartBlocks \in Nat \ {0} /\ StartBlocks <= MaxBlocks
  /\ BlockKinds \subseteq Slots \X Slots
  /\ \A p \in ReadParams : p[1] \in Ops /\ p[2] \in Heads
BY AccountConstants DEF Heads

(* The times of the account's transactions, and how many there are.        *)
ChainOK == chain \in Seq(BlockKinds) /\ LastBlock \in 1..MaxBlocks

LEMMA TimesAreBounded ==
  ASSUME ChainOK
  PROVE  /\ \A t \in AccountTxs : t \in Nat /\ t >= 3 /\ t <= 2 * LastBlock + 2
         /\ IsFiniteSet(AccountTxs) /\ Cardinality(AccountTxs) <= 2 * LastBlock
<1>1. PICK n \in Nat : n = LastBlock /\ n >= 1
  BY AccountBounds DEF ChainOK
<1>2. AccountTxs \subseteq 3 .. 2 * n + 2
  BY <1>1 DEF AccountTxs, From, To
<1>3. IsFiniteSet(3 .. 2 * n + 2) /\ Cardinality(3 .. 2 * n + 2) = 2 * n
  BY <1>1, FS_Interval
<1>4. IsFiniteSet(AccountTxs) /\ Cardinality(AccountTxs) <= Cardinality(3 .. 2 * n + 2)
  BY <1>2, <1>3, FS_Subset
<1> QED BY <1>1, <1>2, <1>3, <1>4

LEMMA PartsOfTxs ==
  ASSUME ChainOK, NEW S, S \subseteq AccountTxs, NEW T, T \subseteq S
  PROVE  /\ IsFiniteSet(S) /\ Cardinality(S) \in Nat /\ Cardinality(S) <= 2 * LastBlock
         /\ IsFiniteSet(T) /\ Cardinality(T) \in Nat /\ Cardinality(T) <= Cardinality(S)
<1>1. IsFiniteSet(S) /\ Cardinality(S) <= Cardinality(AccountTxs)
  BY TimesAreBounded, FS_Subset
<1>2. IsFiniteSet(T) /\ Cardinality(T) <= Cardinality(S)
  BY <1>1, FS_Subset
<1>3. Cardinality(S) \in Nat /\ Cardinality(T) \in Nat /\ Cardinality(AccountTxs) \in Nat
  BY <1>1, <1>2, TimesAreBounded, FS_CardinalityType
<1>4. LastBlock \in Nat
  BY AccountBounds DEF ChainOK
<1> QED BY <1>1, <1>2, <1>3, <1>4, TimesAreBounded

SentUpToBlock(b) == {t \in TxsUpTo(b) : SlotAt(t) = "sent"}

LEMMA EndsAreCounts ==
  ASSUME ChainOK, NEW b \in Int
  PROVE  /\ End(b) \in Nat /\ End(b) <= 2 * LastBlock
         /\ NonceAt(b) \in Nat /\ NonceAt(b) <= End(b)
         /\ b <= 0 => End(b) = 0
<1>1. TxsUpTo(b) \subseteq AccountTxs /\ SentUpToBlock(b) \subseteq TxsUpTo(b)
  BY DEF TxsUpTo, SentUpToBlock
<1>2. /\ Cardinality(TxsUpTo(b)) \in Nat /\ Cardinality(TxsUpTo(b)) <= 2 * LastBlock
      /\ Cardinality(SentUpToBlock(b)) \in Nat
      /\ Cardinality(SentUpToBlock(b)) <= Cardinality(TxsUpTo(b))
  BY <1>1, PartsOfTxs
<1>3. ASSUME b <= 0 PROVE TxsUpTo(b) = {}
  BY <1>3, TimesAreBounded DEF TxsUpTo, To
<1> QED BY <1>2, <1>3, FS_EmptySet DEF End, NonceAt, SentUpToBlock

LEMMA EndsGrowWithBlocks ==
  ASSUME ChainOK, NEW a \in Int, NEW b \in Int, a <= b
  PROVE  End(a) <= End(b) /\ NonceAt(a) <= NonceAt(b)
<1>1. TxsUpTo(a) \subseteq TxsUpTo(b) /\ TxsUpTo(b) \subseteq AccountTxs
  BY TimesAreBounded DEF TxsUpTo, To
<1>2. /\ SentUpToBlock(a) \subseteq SentUpToBlock(b) /\ SentUpToBlock(b) \subseteq AccountTxs
  BY <1>1 DEF SentUpToBlock
<1>3. Cardinality(TxsUpTo(a)) <= Cardinality(TxsUpTo(b))
  BY <1>1, PartsOfTxs
<1>4. Cardinality(SentUpToBlock(a)) <= Cardinality(SentUpToBlock(b))
  BY <1>2, PartsOfTxs
<1> QED BY <1>3, <1>4 DEF End, NonceAt, SentUpToBlock

LEMMA BeyondIsNewest ==
  ASSUME ChainOK, NEW b \in Int, b >= LastBlock
  PROVE  TxsUpTo(b) = AccountTxs
<1>1. LastBlock \in Nat
  BY AccountBounds DEF ChainOK
<1> QED BY <1>1, TimesAreBounded DEF TxsUpTo, To

LEMMA WorldIsTyped == ChainOK => AccountWorld \in AccountWorlds
<1> SUFFICES ASSUME ChainOK PROVE AccountWorld \in AccountWorlds
  OBVIOUS
<1>1. \A b \in Int : End(b) \in Counts /\ NonceAt(b) \in Counts
  <2>1. LastBlock \in Nat /\ LastBlock <= MaxBlocks /\ MaxBlocks \in Nat
    BY AccountBounds DEF ChainOK
  <2> SUFFICES ASSUME NEW b \in Int PROVE End(b) \in Counts /\ NonceAt(b) \in Counts
    OBVIOUS
  <2>2. /\ End(b) \in Nat /\ End(b) <= 2 * LastBlock
        /\ NonceAt(b) \in Nat /\ NonceAt(b) <= End(b)
    BY EndsAreCounts
  <2> QED BY <2>1, <2>2 DEF Counts
<1>2. LastBlock \in 1..MaxBlocks
  BY DEF ChainOK
<1> QED BY <1>1, <1>2 DEF AccountWorld, AccountWorlds

LEMMA NextWorldIsTyped == ChainOK' => (AccountWorld \in AccountWorlds)'
BY WorldIsTyped, PTL

LEMMA AccountStays == ASSUME ChainOK PROVE AccountGrows(AccountWorld, AccountWorld)
<1>1. AccountWorld.made \in Nat
  BY AccountBounds DEF ChainOK, AccountWorld
<1> QED BY <1>1, WorldIsTyped DEF AccountGrows

(* A block more changes nothing of the earlier ones.                       *)
LEMMA ChainGrows ==
  ASSUME ChainOK, NEW k \in BlockKinds, chain' = Append(chain, k), LastBlock < MaxBlocks
  PROVE  /\ ChainOK' /\ LastBlock' = LastBlock + 1
         /\ AccountGrows(AccountWorld, AccountWorld')
<1>1. PICK n \in Nat : n = LastBlock /\ n >= 1 /\ n < MaxBlocks
  BY AccountBounds DEF ChainOK
<1>2. LastBlock' = n + 1 /\ chain' \in Seq(BlockKinds) /\ \A i \in 1..n : chain'[i] = chain[i]
  BY <1>1 DEF ChainOK, LastBlock
<1>3. ChainOK'
  BY <1>1, <1>2, AccountBounds DEF ChainOK
<1>4. ASSUME NEW t \in 3 .. 2 * n + 2 PROVE SlotAt(t)' = SlotAt(t)
  <2>1. PICK i \in Int : i = (t - 1) \div 2
    OBVIOUS
  <2>2. i \in 1..n
    BY <1>1, <2>1
  <2> QED BY <1>2, <2>1, <2>2 DEF SlotAt
<1>5. ASSUME NEW b \in Int, b <= n
      PROVE  /\ TxsUpTo(b)' = TxsUpTo(b) /\ \A t \in TxsUpTo(b) : SlotAt(t)' = SlotAt(t)
  <2>1. \A t \in TxsUpTo(b) : t \in 3 .. 2 * n + 2
    BY <1>1, TimesAreBounded DEF TxsUpTo
  <2>2. ASSUME NEW t PROVE t \in TxsUpTo(b)' <=> t \in TxsUpTo(b)
    BY <1>1, <1>2, <1>4, <1>5 DEF TxsUpTo, AccountTxs, From, To
  <2> QED BY <1>4, <2>1, <2>2
<1>6. ASSUME NEW b \in Int, b <= n
      PROVE  End(b)' = End(b) /\ NonceAt(b)' = NonceAt(b) /\ LastReceived(b)' = LastReceived(b)
  BY <1>5, <1>6 DEF End, NonceAt, LastReceived
<1>7. AccountWorld \in AccountWorlds
  BY WorldIsTyped
<1>8. AccountWorld' \in AccountWorlds
  BY <1>3, NextWorldIsTyped
<1>9. PICK w, c : w = AccountWorld /\ c = AccountWorld'
  OBVIOUS
<1>10. /\ w.made = n /\ c.made = n + 1
       /\ \A b \in Int : /\ w.ends[b] = End(b) /\ c.ends[b] = End(b)'
                         /\ w.nonces[b] = NonceAt(b) /\ c.nonces[b] = NonceAt(b)'
                         /\ b \in w.received <=> LastReceived(b)
                         /\ b \in c.received <=> LastReceived(b)'
  BY <1>1, <1>2, <1>9 DEF AccountWorld
<1>11. AccountGrows(w, c)
  BY <1>1, <1>6, <1>7, <1>8, <1>9, <1>10 DEF AccountGrows
<1> QED BY <1>1, <1>2, <1>3, <1>9, <1>11

-----------------------------------------------------------------------------
(* What is computed                                                        *)

LEMMA BoundedHasLast ==
  ASSUME NEW n \in Nat, NEW S, S # {}, \A t \in S : t \in Nat /\ t <= n
  PROVE  \E t \in S : \A u \in S : u <= t
<1> DEFINE T == {k \in Nat : n - k \in S}
<1>1. T \subseteq Nat /\ T # {}
  <2>1. PICK t \in S : TRUE
    OBVIOUS
  <2>2. n - t \in Nat /\ n - (n - t) = t
    BY <2>1
  <2> QED BY <2>1, <2>2
<1>2. PICK k \in T : \A j \in T : <<j, k>> \notin OpToRel(<, Nat)
  <2> HIDE DEF T
  <2> QED BY <1>1, WFMin, NatLessThanWellFounded, Zenon
<1>3. \A j \in T : ~(j < k)
  BY <1>1, <1>2, Zenon DEF OpToRel
<1>4. ASSUME NEW u \in S PROVE u <= n - k
  <2>1. n - u \in T
    BY n - (n - u) = u
  <2> QED BY <1>3, <2>1
<1>5. n - k \in S
  OBVIOUS
<1> QED BY <1>4, <1>5

(* The last of the transactions up to a block.                             *)
LEMMA LastIsLast ==
  ASSUME ChainOK, NEW S, S \subseteq AccountTxs, S # {}
  PROVE  Last(S) \in S /\ \A u \in S : u <= Last(S)
<1>1. 2 * LastBlock + 2 \in Nat
  BY AccountBounds DEF ChainOK
<1>2. \A t \in S : t \in Nat /\ t <= 2 * LastBlock + 2
  BY TimesAreBounded
<1>3. \E t \in S : \A u \in S : u <= t
  BY <1>1, <1>2, BoundedHasLast
<1> QED BY <1>3 DEF Last

LEMMA FewerAreLater ==
  ASSUME NEW S, S \subseteq Nat, NEW t \in Nat, NEW u \in Nat, t < u
  PROVE  {w \in S : w >= u} \subseteq {w \in S : w >= t} /\ {w \in S : w >= t} \subseteq S
<1> SUFFICES ASSUME NEW w \in S, w >= u PROVE w >= t
  OBVIOUS
<1>1. w \in Nat
  OBVIOUS
<1> QED BY <1>1

(* A page that reaches back to a block has all that is newer.              *)
LEMMA ListedIsEnough ==
  ASSUME ChainOK, NEW b \in Nat
  PROVE  {t \in Listed(b) : t >= To(b)} = {t \in AccountTxs : t >= To(b)}
<1>1. PICK page : page = Newest(PageSize)
  OBVIOUS
<1>2. page \subseteq AccountTxs
  BY <1>1 DEF Newest
<1>3. CASE AccountTxs \ page # {} /\ \A t \in page : t >= To(b)
  BY <1>1, <1>3 DEF Listed
<1>4. CASE AccountTxs \ page = {}
  BY <1>1, <1>2, <1>4 DEF Listed
<1>5. CASE AccountTxs \ page # {} /\ ~ \A t \in page : t >= To(b)
  <2>1. PICK t \in page : ~(t >= To(b))
    BY <1>5
  <2>2. ASSUME NEW u \in AccountTxs, u >= To(b) PROVE u \in page
    <3>1. u \in Nat /\ t \in Nat /\ To(b) \in Nat /\ t < u
      BY <1>2, <2>1, <2>2, TimesAreBounded DEF To
    <3>2. /\ {w \in AccountTxs : w >= u} \subseteq {w \in AccountTxs : w >= t}
          /\ {w \in AccountTxs : w >= t} \subseteq AccountTxs
      <4>1. AccountTxs \subseteq Nat
        BY TimesAreBounded
      <4> QED BY <3>1, <4>1, FewerAreLater
    <3>3. /\ Cardinality({w \in AccountTxs : w >= u}) <= Cardinality({w \in AccountTxs : w >= t})
          /\ Cardinality({w \in AccountTxs : w >= u}) \in Nat
          /\ Cardinality({w \in AccountTxs : w >= t}) \in Nat
      BY <3>2, PartsOfTxs
    <3>4. Cardinality({w \in AccountTxs : w >= t}) <= PageSize
      BY <1>1 DEF Newest
    <3> QED BY <1>1, <3>3, <3>4, AccountBounds DEF Newest
  <2>3. Listed(b) = page
    BY <1>1, <1>5 DEF Listed
  <2> QED BY <1>2, <2>2, <2>3
<1> QED BY <1>3, <1>4, <1>5

(* The balance less what came since the end of a block leaves out at most  *)
(* the transaction at its end.                                             *)
LEMMA BalanceIsOfBlock ==
  ASSUME ChainOK, NEW b \in Nat
  PROVE  BalanceFromTxs(b) \in Nat /\ BalanceFromTxs(b) \in End(b) - 1 .. End(b)
<1> DEFINE Later == {t \in AccountTxs : t >= To(b)}
           Earlier == {t \in AccountTxs : t < To(b)}
<1>1. To(b) \in Nat /\ \A t \in AccountTxs : t \in Nat
  BY TimesAreBounded DEF To
<1>2. Later \cup Earlier = AccountTxs /\ Later \cap Earlier = {}
  BY <1>1
<1>3. /\ IsFiniteSet(Later) /\ Cardinality(Later) \in Nat
      /\ IsFiniteSet(Earlier) /\ Cardinality(Earlier) \in Nat
  BY PartsOfTxs
<1>4. Cardinality(AccountTxs) = Cardinality(Later) + Cardinality(Earlier)
  <2> HIDE DEF Later, Earlier
  <2>1. Cardinality(Later \cup Earlier) =
          Cardinality(Later) + Cardinality(Earlier) - Cardinality(Later \cap Earlier)
    BY <1>3, FS_Union
  <2>2. Cardinality(Later \cap Earlier) = 0
    BY <1>2, FS_EmptySet
  <2>3. Cardinality(Later \cup Earlier) = Cardinality(AccountTxs)
    BY <1>2
  <2> QED BY <1>3, <2>1, <2>2, <2>3
<1>5. End(LastBlock) = Cardinality(AccountTxs)
  <2>1. LastBlock \in Int /\ LastBlock >= LastBlock
    BY DEF ChainOK
  <2> QED BY <2>1, BeyondIsNewest DEF End
<1>6. BalanceFromTxs(b) = Cardinality(Earlier)
  <2>1. BalanceFromTxs(b) = End(LastBlock) - Cardinality(Later)
    BY ListedIsEnough DEF BalanceFromTxs
  <2> HIDE DEF Later, Earlier
  <2> QED BY <2>1, <1>3, <1>4, <1>5
<1>7. Earlier \subseteq TxsUpTo(b) /\ TxsUpTo(b) \subseteq Earlier \cup {To(b)}
  BY <1>1 DEF TxsUpTo
<1>8. Cardinality(Earlier) <= End(b) /\ End(b) \in Nat
  BY <1>7, PartsOfTxs DEF End, TxsUpTo
<1>9. End(b) <= Cardinality(Earlier) + 1
  <2> HIDE DEF Earlier
  <2>1. /\ IsFiniteSet(Earlier \cup {To(b)})
        /\ Cardinality(Earlier \cup {To(b)}) <= Cardinality(Earlier) + 1
        /\ Cardinality(Earlier \cup {To(b)}) \in Nat
    BY <1>3, FS_AddElement, FS_CardinalityType
  <2>2. Cardinality(TxsUpTo(b)) <= Cardinality(Earlier \cup {To(b)})
    BY <1>7, <2>1, FS_Subset
  <2> QED BY <1>3, <1>8, <2>1, <2>2 DEF End
<1> HIDE DEF Earlier, Later
<1> QED BY <1>3, <1>6, <1>8, <1>9

LEMMA SmallMultiple ==
  ASSUME NEW s \in Nat \ {0}, NEW d \in Int, NEW r \in 0 .. s - 1, s * d = r
  PROVE  r = 0
<1>1. CASE d >= 1
  <2>1. PICK e \in Nat : d = e + 1
    <3>1. d - 1 \in Nat /\ d = (d - 1) + 1
      BY <1>1
    <3> QED BY <3>1
  <2>2. s * d = s * e + s /\ s * e \in Nat
    BY <2>1
  <2> QED BY <2>2
<1>2. CASE d <= -1
  <2>1. PICK e \in Nat : d = -e - 1
    <3>1. -d - 1 \in Nat /\ d = -(-d - 1) - 1
      BY <1>2
    <3> QED BY <3>1
  <2>2. s * d = -(s * e) - s /\ s * e \in Nat
    BY <2>1
  <2> QED BY <2>2
<1>3. CASE d = 0
  BY <1>3
<1> QED BY <1>1, <1>2, <1>3

LEMMA NextMultiple ==
  ASSUME NEW s \in Nat \ {0}, NEW k \in Nat, k % s = 0
  PROVE  (k + s) % s = 0
<1>1. PICK i \in Int : k = s * i
  <2>1. k \div s \in Int /\ k = s * (k \div s) + (k % s)
    OBVIOUS
  <2>2. s * (k \div s) \in Int
    BY <2>1
  <2> QED BY <2>1, <2>2
<1>2. PICK j \in Int, r \in 0 .. s - 1 : k + s = s * j + r /\ r = (k + s) % s
  <2>1. /\ (k + s) \div s \in Int /\ (k + s) % s \in 0 .. s - 1
        /\ k + s = s * ((k + s) \div s) + ((k + s) % s)
    OBVIOUS
  <2> QED BY <2>1
<1>3. s * (i + 1 - j) = r
  <2>1. s * (i + 1 - j) = s * i + s - s * j
    OBVIOUS
  <2>2. s * i \in Int /\ s * j \in Int
    OBVIOUS
  <2> QED BY <1>1, <1>2, <2>1, <2>2
<1>4. r = 0
  <2>1. i + 1 - j \in Int
    OBVIOUS
  <2> QED BY <1>3, <2>1, SmallMultiple
<1> QED BY <1>2, <1>4

(* The last snapshot before a block is not older than their interval.      *)
LEMMA SnapshotIsRecent ==
  ASSUME ChainOK, NEW b \in Nat
  PROVE  SnapshotBefore(b) \in End(b - SnapshotEvery) .. End(b) /\ SnapshotBefore(b) \in Nat
<1> DEFINE snapshots == {k \in 1 .. b - 1 : k % SnapshotEvery = 0}
           last == {k \in snapshots : \A l \in snapshots : l <= k}
<1>1. SnapshotEvery \in Nat \ {0}
  BY AccountBounds
<1>2. b - SnapshotEvery \in Int /\ b - SnapshotEvery <= b
  BY <1>1
<1>3. /\ End(b) \in Nat /\ End(b - SnapshotEvery) \in Nat
      /\ b - SnapshotEvery <= 0 => End(b - SnapshotEvery) = 0
  BY <1>2, EndsAreCounts
<1>4. CASE snapshots = {}
  <2>1. b - SnapshotEvery <= 0
    <3>1. SUFFICES ASSUME b - SnapshotEvery > 0 PROVE FALSE
      BY <1>1
    <3>2. SnapshotEvery % SnapshotEvery = 0
      <4>1. 0 \in Nat /\ 0 % SnapshotEvery = 0
        BY <1>1
      <4>2. (0 + SnapshotEvery) % SnapshotEvery = 0
        BY <1>1, <4>1, NextMultiple
      <4> QED BY <1>1, <4>2
    <3>3. SnapshotEvery \in 1 .. b - 1
      BY <1>1, <3>1
    <3> QED BY <1>4, <3>2, <3>3
  <2>2. SnapshotBefore(b) = 0
    BY <1>4 DEF SnapshotBefore
  <2> QED BY <1>3, <2>1, <2>2
<1>5. CASE snapshots # {}
  <2>1. last # {}
    <3>1. \A k \in snapshots : k \in Nat /\ k <= b
      OBVIOUS
    <3> HIDE DEF snapshots
    <3>2. \E k \in snapshots : \A l \in snapshots : l <= k
      BY <1>5, <3>1, BoundedHasLast
    <3> QED BY <3>2
  <2>2. PICK k \in last : k = CHOOSE l \in last : TRUE
    BY <2>1
  <2>3. k \in 1 .. b - 1 /\ k % SnapshotEvery = 0 /\ \A l \in snapshots : l <= k
    OBVIOUS
  <2>4. SnapshotBefore(b) = End(k)
    BY <1>5, <2>2 DEF SnapshotBefore
  <2>5. k >= b - SnapshotEvery
    <3>1. SUFFICES ASSUME ~(k >= b - SnapshotEvery) PROVE FALSE
      OBVIOUS
    <3>2. k + SnapshotEvery \in 1 .. b - 1
      BY <1>1, <2>3, <3>1
    <3>3. (k + SnapshotEvery) % SnapshotEvery = 0
      <4>1. k \in Nat /\ k % SnapshotEvery = 0
        BY <2>3
      <4> QED BY <1>1, <4>1, NextMultiple
    <3>4. k + SnapshotEvery <= k
      BY <2>3, <3>2, <3>3
    <3> QED BY <1>1, <2>3, <3>4
  <2>6. End(b - SnapshotEvery) <= End(k) /\ End(k) <= End(b) /\ End(k) \in Nat
    BY <1>2, <2>3, <2>5, EndsGrowWithBlocks, EndsAreCounts
  <2> QED BY <1>3, <2>4, <2>6
<1> QED BY <1>4, <1>5

(* The nonce taken from the result of the last transaction.                *)
LEMMA SentOrReceived ==
  ASSUME ChainOK, NEW t \in AccountTxs
  PROVE  t \in Nat /\ SlotAt(t) \in {"sent", "received"}
<1>1. t \in Nat /\ t >= 3 /\ t <= 2 * LastBlock + 2 /\ LastBlock \in Nat
  BY TimesAreBounded, AccountBounds DEF ChainOK
<1>2. (t - 1) \div 2 \in 1 .. LastBlock /\ ((t - 1) % 2) + 1 \in {1, 2}
  BY <1>1
<1>3. chain[(t - 1) \div 2] \in Slots \X Slots
  BY <1>2, AccountBounds DEF ChainOK, LastBlock
<1>4. SlotAt(t) \in Slots
  BY <1>2, <1>3 DEF SlotAt
<1>5. SlotAt(t) # "other"
  BY DEF AccountTxs
<1> QED BY <1>1, <1>4, <1>5 DEF Slots

LEMMA OneIsTaken ==
  ASSUME ChainOK, NEW b \in Int, Cardinality(TxsUpTo(b)) <= 1
  PROVE  \/ Cardinality(TxsUpTo(b)) = NonceAt(b)
         \/ Cardinality(TxsUpTo(b)) > NonceAt(b) /\ LastReceived(b)
<1>1. TxsUpTo(b) \subseteq AccountTxs
  BY DEF TxsUpTo
<1>2. IsFiniteSet(TxsUpTo(b)) /\ Cardinality(TxsUpTo(b)) \in Nat
  BY <1>1, PartsOfTxs
<1>3. NonceAt(b) = Cardinality(SentUpToBlock(b))
  BY DEF NonceAt, SentUpToBlock
<1>4. CASE TxsUpTo(b) = {}
  <2>1. SentUpToBlock(b) = {}
    BY <1>4 DEF SentUpToBlock
  <2> QED BY <1>3, <1>4, <2>1
<1>5. CASE TxsUpTo(b) # {}
  <2>1. Cardinality(TxsUpTo(b)) = 1
    BY <1>2, <1>5, FS_EmptySet
  <2>2. PICK t : TxsUpTo(b) = {t}
    BY <1>2, <2>1, FS_Singleton
  <2>3. t \in Nat /\ SlotAt(t) \in {"sent", "received"}
    BY <1>1, <2>2, SentOrReceived
  <2>4. CASE SlotAt(t) = "sent"
    <3>1. SentUpToBlock(b) = TxsUpTo(b)
      BY <2>2, <2>4 DEF SentUpToBlock
    <3> QED BY <1>3, <3>1
  <2>5. CASE SlotAt(t) = "received"
    <3>1. SentUpToBlock(b) = {}
      BY <2>2, <2>5 DEF SentUpToBlock
    <3>2. NonceAt(b) = 0
      BY <1>3, <3>1, FS_EmptySet
    <3>3. LastReceived(b)
      BY <2>2, <2>3, <2>5 DEF LastReceived
    <3> QED BY <2>1, <3>2, <3>3
  <2> QED BY <2>3, <2>4, <2>5
<1> QED BY <1>4, <1>5

LEMMA LastDecides ==
  ASSUME ChainOK, NEW b \in Int, Cardinality(TxsUpTo(b)) > 1
  PROVE  IF SlotAt(Last(TxsUpTo(b))) = "sent" THEN SentUpTo(Last(TxsUpTo(b))) = NonceAt(b)
                                              ELSE LastReceived(b)
<1>1. TxsUpTo(b) \subseteq AccountTxs
  BY DEF TxsUpTo
<1>2. TxsUpTo(b) # {}
  <2>1. Cardinality({}) = 0
    BY FS_EmptySet
  <2> QED BY <2>1
<1>3. PICK t : t = Last(TxsUpTo(b)) /\ t \in TxsUpTo(b) /\ \A u \in TxsUpTo(b) : u <= t
  BY <1>1, <1>2, LastIsLast
<1>4. t \in Nat /\ SlotAt(t) \in {"sent", "received"}
  BY <1>1, <1>3, SentOrReceived
<1>5. CASE SlotAt(t) = "sent"
  <2>1. ASSUME NEW u PROVE u \in AccountTxs /\ u <= t <=> u \in TxsUpTo(b)
    <3>1. t <= To(b) /\ To(b) \in Int
      BY <1>3 DEF TxsUpTo, To
    <3>2. u \in AccountTxs => u \in Nat
      BY TimesAreBounded
    <3> QED BY <1>1, <1>3, <1>4, <3>1, <3>2 DEF TxsUpTo
  <2>2. {u \in AccountTxs : u <= t /\ SlotAt(u) = "sent"} = SentUpToBlock(b)
    BY <1>1, <2>1 DEF SentUpToBlock
  <2>3. SentUpTo(t) = NonceAt(b)
    BY <2>2 DEF SentUpTo, NonceAt, SentUpToBlock
  <2> QED BY <1>3, <1>5, <2>3
<1>6. CASE SlotAt(t) = "received"
  <2>1. LastReceived(b)
    BY <1>3, <1>6 DEF LastReceived
  <2>2. SlotAt(t) # "sent"
    BY <1>6
  <2> QED BY <1>3, <2>1, <2>2
<1> QED BY <1>4, <1>5, <1>6

-----------------------------------------------------------------------------
(* What is true of earlier blocks stays so                                 *)

LEMMA ValueStays ==
  ASSUME NEW w, NEW c, AccountGrows(w, c), NEW op, NEW b \in Heads, NEW v \in Int, NEW since \in Heads,
         since <= w.made, ValueGood(w, op, b, v, since)
  PROVE  ValueGood(c, op, b, v, since)
<1>1. w.made \in Nat /\ b \in Nat /\ since \in Nat /\ SnapshotEvery \in Nat
  BY AccountBounds DEF AccountGrows, AccountWorlds, Heads
<1>2. b <= since => /\ b \in Int /\ b <= w.made
                    /\ b - SnapshotEvery \in Int /\ b - SnapshotEvery <= w.made
  BY <1>1
<1>3. b <= since => /\ c.ends[b] = w.ends[b] /\ c.nonces[b] = w.nonces[b]
                    /\ b \in c.received <=> b \in w.received
                    /\ c.ends[b - SnapshotEvery] = w.ends[b - SnapshotEvery]
  BY <1>2 DEF AccountGrows
<1>4. BalanceGood(w, b, v, since) => BalanceGood(c, b, v, since)
  BY <1>1, <1>3 DEF BalanceGood
<1>5. NonceGood(w, b, v, since) => NonceGood(c, b, v, since)
  BY <1>1, <1>3 DEF NonceGood
<1> QED BY <1>4, <1>5 DEF ValueGood

LEMMA FreshStays ==
  ASSUME NEW w, NEW c, AccountGrows(w, c), NEW v \in Int, NEW t \in Int, FreshSince(w, v, t)
  PROVE  FreshSince(c, v, t)
<1>1. w.made \in Nat /\ c.made \in Nat /\ w.made <= c.made
  BY AccountBounds DEF AccountGrows, AccountWorlds
<1>2. t <= w.made => c.nonces[t] = w.nonces[t]
  BY DEF AccountGrows
<1> QED BY <1>1, <1>2 DEF FreshSince

LEMMA AccountReadStays ==
  ASSUME NEW w, NEW c, AccountGrows(w, c), NEW r \in AccountRequests, AccountReadGood(w, r)
  PROVE  AccountReadGood(c, r)
<1>1. /\ r.start \in Heads /\ r.since \in Heads /\ r.b \in Heads /\ r.v \in Int
      /\ r.start \in Nat /\ r.since \in Nat /\ r.b \in Nat /\ FreshFrom(r) \in Int
  BY AccountBounds DEF AccountRequests, Heads, Values, FreshFrom
<1>2. w.made \in Nat /\ c.made \in Nat /\ w.made <= c.made
  BY AccountBounds DEF AccountGrows, AccountWorlds
<1>3. r.start <= w.made /\ r.since <= w.made
  BY DEF AccountReadGood
<1>4. r.start <= c.made /\ r.since <= c.made
  BY <1>1, <1>2, <1>3
<1>5. ValueGood(w, r.op, r.b, r.v, r.since) => ValueGood(c, r.op, r.b, r.v, r.since)
  BY <1>1, <1>3, ValueStays
<1>6. FreshSince(w, r.v, r.start) => FreshSince(c, r.v, r.start)
  <2>1. r.start \in Int
    BY <1>1
  <2> QED BY <1>1, <2>1, FreshStays
<1>7. FreshSince(w, r.v, FreshFrom(r)) => FreshSince(c, r.v, FreshFrom(r))
  BY <1>1, FreshStays
<1>8. r.b \in 2 .. r.start => (r.b \in c.received <=> r.b \in w.received)
  <2>1. r.b \in 2 .. r.start => r.b \in Int /\ r.b <= w.made
    BY <1>1, <1>2, <1>3
  <2> QED BY <2>1 DEF AccountGrows
<1> QED BY <1>4, <1>5, <1>6, <1>7, <1>8 DEF AccountReadGood

LEMMA AccountEntriesStay ==
  ASSUME NEW w, NEW c, AccountGrows(w, c)
  PROVE  /\ \A e \in Entries : NumberGood(w, e) => NumberGood(c, e)
         /\ \A op \in Ops, b \in Heads, e \in Entries :
              AnswerEntryGood(w, op, b, e) => AnswerEntryGood(c, op, b, e)
         /\ \A b \in Heads, e \in Entries : NonceEntryGood(w, b, e) => NonceEntryGood(c, b, e)
<1>1. w.made \in Nat /\ c.made \in Nat /\ w.made <= c.made
  BY AccountBounds DEF AccountGrows, AccountWorlds
<1>2. ASSUME NEW e \in Entries
      PROVE  /\ e.v \in Int /\ e.since \in Heads /\ e.since \in Nat /\ e.until \in Nat
             /\ e.until - NonceTtl - MaxDuration \in Int
  BY <1>2, AccountBounds DEF Entries, Values, Heads
<1>3. ASSUME NEW e \in Entries, NumberGood(w, e) PROVE NumberGood(c, e)
  BY <1>1, <1>2, <1>3 DEF NumberGood
<1>4. ASSUME NEW op \in Ops, NEW b \in Heads, NEW e \in Entries, AnswerEntryGood(w, op, b, e)
      PROVE  AnswerEntryGood(c, op, b, e)
  <2>1. e.since <= w.made /\ ValueGood(w, op, b, e.v, e.since)
    BY <1>4 DEF AnswerEntryGood
  <2>2. ValueGood(c, op, b, e.v, e.since)
    BY <1>2, <2>1, ValueStays
  <2>3. e.since <= c.made
    BY <1>1, <1>2, <2>1
  <2> QED BY <2>2, <2>3 DEF AnswerEntryGood
<1>5. ASSUME NEW b \in Heads, NEW e \in Entries, NonceEntryGood(w, b, e)
      PROVE  NonceEntryGood(c, b, e)
  <2>1. e.since <= w.made /\ ValueGood(w, "nonce", b, e.v, e.since)
    BY <1>5 DEF NonceEntryGood
  <2>2. ValueGood(c, "nonce", b, e.v, e.since)
    BY <1>2, <2>1, ValueStays
  <2>3. e.since <= c.made
    BY <1>1, <1>2, <2>1
  <2>4. b = 0 => FreshSince(c, e.v, e.until - NonceTtl - MaxDuration)
    BY <1>2, <1>5, FreshStays DEF NonceEntryGood
  <2> QED BY <2>2, <2>3, <2>4 DEF NonceEntryGood
<1> QED BY <1>3, <1>4, <1>5

LEMMA IdleReadFields ==
  /\ IdleRead \in AccountRequests /\ IdleRead.pc = "idle" /\ IdleRead.op = "balance"
  /\ IdleRead.b = 0 /\ IdleRead.start = 0 /\ IdleRead.since = 0 /\ IdleRead.v = -1 /\ IdleRead.head = 0
BY AccountBounds DEF IdleRead, AccountRequests, ReadStates, Ops, Heads, Values

LEMMA AccountsStart == AccountInit => AccountInv
<1> SUFFICES ASSUME AccountInit PROVE AccountInv
  OBVIOUS
<1>1. /\ chain \in [1..StartBlocks -> BlockKinds] /\ blockNumber = NotCached
      /\ answered = [op \in Ops |-> [b \in 1..MaxBlocks |-> NotCached]]
      /\ nonceCache = [b \in Heads |-> NotCached] /\ read = [q \in Readers |-> IdleRead]
      /\ reads = 0
  BY DEF AccountInit
<1>2. ChainOK
  <2>1. chain \in Seq(BlockKinds) /\ Len(chain) = StartBlocks
    BY <1>1, AccountBounds
  <2> QED BY <2>1, AccountBounds DEF ChainOK, LastBlock
<1>3. NotCached \in Entries /\ NotCached.v = -1 /\ NotCached.since = 0
  BY AccountBounds DEF NotCached, Entries, Values, Heads
<1>4. AccountTypeOK
  BY <1>1, <1>2, <1>3, IdleReadFields, AccountBounds DEF AccountTypeOK, ChainOK, AccountRequests
<1>5. PICK w : w = AccountWorld
  OBVIOUS
<1>6. w.made \in Nat
  BY <1>2, <1>5, AccountBounds DEF AccountWorld, ChainOK
<1>7. /\ NumberGood(w, NotCached)
      /\ \A op, b : AnswerEntryGood(w, op, b, NotCached) /\ NonceEntryGood(w, b, NotCached)
  BY <1>3, <1>6 DEF NumberGood, AnswerEntryGood, NonceEntryGood, ValueGood, FreshSince
<1>8. PICK r : r = IdleRead
  OBVIOUS
<1>9. AccountReadGood(w, r) /\ r.pc = "idle"
  BY <1>6, <1>8, IdleReadFields DEF AccountReadGood
<1>10. \A q \in Readers : ~Going(q)
  BY <1>1, <1>8, <1>9 DEF Going
<1> QED BY <1>1, <1>4, <1>5, <1>7, <1>8, <1>9, <1>10 DEF AccountInv

(* A block is made.                                                        *)
LEMMA NewBlockKeeps == ASSUME AccountInv, NewBlock PROVE AccountInv'
<1>1. PICK k \in BlockKinds : chain' = Append(chain, k)
  BY DEF NewBlock
<1>2. /\ LastBlock < MaxBlocks /\ UNCHANGED <<blockNumber, answered, nonceCache, read, reads>>
      /\ \A q \in Readers : Going(q) => LastBlock - read[q].start < MaxDuration
  BY DEF NewBlock
<1>3. AccountTypeOK /\ ChainOK
  BY DEF AccountInv, AccountTypeOK, ChainOK
<1>4. ChainOK' /\ LastBlock' = LastBlock + 1 /\ AccountGrows(AccountWorld, AccountWorld')
  BY <1>1, <1>2, <1>3, ChainGrows
<1>5. PICK w, c : w = AccountWorld /\ c = AccountWorld'
  OBVIOUS
<1>6. AccountTypeOK'
  BY <1>2, <1>3, <1>4 DEF AccountTypeOK, ChainOK
<1>7. AccountGrows(w, c)
  BY <1>4, <1>5
<1>8. /\ blockNumber \in Entries /\ answered \in [Ops -> [1..MaxBlocks -> Entries]]
      /\ nonceCache \in [Heads -> Entries] /\ read \in [Readers -> AccountRequests]
      /\ 1..MaxBlocks \subseteq Heads
  BY <1>3, AccountBounds DEF AccountTypeOK, AccountRequests, Heads
<1>9. /\ NumberGood(w, blockNumber)
      /\ \A op \in Ops, b \in 1..MaxBlocks : AnswerEntryGood(w, op, b, answered[op][b])
      /\ \A b \in Heads : NonceEntryGood(w, b, nonceCache[b])
      /\ \A q \in Readers : AccountReadGood(w, read[q])
  BY <1>5 DEF AccountInv
<1>10. /\ NumberGood(c, blockNumber)
       /\ \A op \in Ops, b \in 1..MaxBlocks : AnswerEntryGood(c, op, b, answered[op][b])
       /\ \A b \in Heads : NonceEntryGood(c, b, nonceCache[b])
  BY <1>7, <1>8, <1>9, AccountEntriesStay, ZenonT(40)
<1>11. \A q \in Readers : AccountReadGood(c, read[q])
  BY <1>7, <1>8, <1>9, AccountReadStays
<1>12. ASSUME NEW q \in Readers, Going(q)' PROVE LastBlock' - read'[q].start <= MaxDuration
  <2>1. Going(q) /\ read[q].start \in Nat
    BY <1>2, <1>8, <1>12, AccountBounds DEF Going, AccountRequests, Heads
  <2>2. LastBlock - read[q].start < MaxDuration /\ LastBlock \in Nat
    BY <1>2, <1>3, <2>1, AccountBounds DEF ChainOK
  <2> QED BY <1>2, <1>4, <2>1, <2>2, AccountBounds
<1> QED BY <1>2, <1>5, <1>6, <1>10, <1>11, <1>12 DEF AccountInv

(* A step of one request.                                                  *)
LEMMA ReaderStep ==
  ASSUME AccountInv, UNCHANGED chain, reads' \in 0..MaxReads,
         NEW q \in Readers, NEW r \in AccountRequests, read' = [read EXCEPT ![q] = r],
         NEW w, w = AccountWorld, AccountReadGood(w, r),
         r.pc \notin {"idle", "done"} => LastBlock - r.start <= MaxDuration,
         \/ UNCHANGED blockNumber
         \/ blockNumber' \in Entries /\ NumberGood(w, blockNumber'),
         \/ UNCHANGED answered
         \/ \E op \in Ops, b \in 1..MaxBlocks, e \in Entries :
              AnswerEntryGood(w, op, b, e) /\ answered' = [answered EXCEPT ![op][b] = e],
         \/ UNCHANGED nonceCache
         \/ \E b \in Heads, e \in Entries :
              NonceEntryGood(w, b, e) /\ nonceCache' = [nonceCache EXCEPT ![b] = e]
  PROVE  AccountInv'
<1>1. AccountWorld' = AccountWorld /\ LastBlock' = LastBlock
  BY DEF AccountWorld, LastBlock, End, NonceAt, LastReceived, TxsUpTo, AccountTxs, SlotAt
<1>2. AccountTypeOK /\ read \in [Readers -> AccountRequests]
  BY DEF AccountInv, AccountTypeOK, AccountRequests
<1>3. read' \in [Readers -> AccountRequests]
  BY <1>2
<1>4. answered' \in [Ops -> [1..MaxBlocks -> Entries]]
      /\ \A op \in Ops, b \in 1..MaxBlocks : AnswerEntryGood(w, op, b, answered'[op][b])
  <2>1. /\ answered \in [Ops -> [1..MaxBlocks -> Entries]]
        /\ \A op \in Ops, b \in 1..MaxBlocks : AnswerEntryGood(w, op, b, answered[op][b])
    BY <1>2 DEF AccountInv, AccountTypeOK
  <2>2. CASE UNCHANGED answered
    BY <2>1, <2>2
  <2>3. CASE \E op \in Ops, b \in 1..MaxBlocks, e \in Entries :
               AnswerEntryGood(w, op, b, e) /\ answered' = [answered EXCEPT ![op][b] = e]
    <3>1. PICK op \in Ops, b \in 1..MaxBlocks, e \in Entries :
            AnswerEntryGood(w, op, b, e) /\ answered' = [answered EXCEPT ![op][b] = e]
      BY <2>3
    <3> QED BY <2>1, <3>1
  <2> QED BY <2>2, <2>3
<1>5. nonceCache' \in [Heads -> Entries] /\ \A b \in Heads : NonceEntryGood(w, b, nonceCache'[b])
  <2>1. nonceCache \in [Heads -> Entries] /\ \A b \in Heads : NonceEntryGood(w, b, nonceCache[b])
    BY <1>2 DEF AccountInv, AccountTypeOK
  <2> QED BY <2>1
<1>6. blockNumber' \in Entries /\ NumberGood(w, blockNumber')
  BY <1>2 DEF AccountInv, AccountTypeOK
<1>7. AccountTypeOK'
  BY <1>1, <1>2, <1>3, <1>4, <1>5, <1>6 DEF AccountTypeOK, AccountRequests
<1>8. ASSUME NEW x \in Readers
      PROVE  /\ AccountReadGood(w, read'[x])
             /\ Going(x)' => LastBlock' - read'[x].start <= MaxDuration
  <2>1. CASE x = q
    BY <1>1, <1>2, <2>1 DEF Going
  <2>2. CASE x # q
    <3>1. /\ read'[x] = read[x] /\ AccountReadGood(w, read[x])
          /\ Going(x) => LastBlock - read[x].start <= MaxDuration
      BY <1>2, <2>2 DEF AccountInv
    <3> QED BY <1>1, <3>1 DEF Going
  <2> QED BY <2>1, <2>2
<1> QED BY <1>1, <1>4, <1>5, <1>6, <1>7, <1>8 DEF AccountInv

(* What the fields of a request become.                                    *)
Changed(q, r, pc, v, since, head) ==
  /\ read' = [read EXCEPT ![q] = r]
  /\ r.pc = pc /\ r.v = v /\ r.since = since /\ r.head = head
  /\ r.op = read[q].op /\ r.b = read[q].b /\ r.start = read[q].start

LEMMA GoToMakes ==
  ASSUME AccountInv, NEW q \in Readers, NEW pc \in ReadStates, GoTo(q, pc)
  PROVE  \E r \in AccountRequests : Changed(q, r, pc, read[q].v, read[q].since, read[q].head)
<1>1. PICK o \in AccountRequests : o = read[q]
  BY DEF AccountInv, AccountTypeOK, AccountRequests
<1>2. PICK r : r = [o EXCEPT !.pc = pc]
  OBVIOUS
<1>3. read' = [read EXCEPT ![q] = r]
  BY <1>1, <1>2 DEF GoTo
<1>4. /\ r \in AccountRequests /\ r.pc = pc /\ r.v = o.v /\ r.since = o.since
      /\ r.head = o.head /\ r.op = o.op /\ r.b = o.b /\ r.start = o.start
  BY <1>2 DEF AccountRequests
<1>5. Changed(q, r, pc, o.v, o.since, o.head)
  BY <1>1, <1>3, <1>4 DEF Changed
<1> QED BY <1>1, <1>4, <1>5

LEMMA FoundMakes ==
  ASSUME AccountInv, NEW q \in Readers, NEW pc \in ReadStates, NEW v \in Values, Found(q, pc, v)
  PROVE  \E r \in AccountRequests : Changed(q, r, pc, v, read[q].since, read[q].head)
<1>1. PICK o \in AccountRequests : o = read[q]
  BY DEF AccountInv, AccountTypeOK, AccountRequests
<1>2. PICK r : r = [o EXCEPT !.pc = pc, !.v = v]
  OBVIOUS
<1>3. read' = [read EXCEPT ![q] = r]
  BY <1>1, <1>2 DEF Found
<1>4. /\ r \in AccountRequests /\ r.pc = pc /\ r.v = v /\ r.since = o.since
      /\ r.head = o.head /\ r.op = o.op /\ r.b = o.b /\ r.start = o.start
  BY <1>2 DEF AccountRequests
<1>5. Changed(q, r, pc, v, o.since, o.head)
  BY <1>1, <1>3, <1>4 DEF Changed
<1> QED BY <1>1, <1>4, <1>5

LEMMA HeadIsSet ==
  ASSUME AccountInv, NEW q \in Readers, NEW pc \in ReadStates, NEW h \in Heads,
         read' = [read EXCEPT ![q].head = h, ![q].pc = pc]
  PROVE  \E r \in AccountRequests : Changed(q, r, pc, read[q].v, read[q].since, h)
<1>1. PICK o \in AccountRequests : o = read[q]
  BY DEF AccountInv, AccountTypeOK, AccountRequests
<1>2. PICK r : r = [o EXCEPT !.head = h, !.pc = pc]
  OBVIOUS
<1>3. read' = [read EXCEPT ![q] = r]
  BY <1>1, <1>2
<1>4. /\ r \in AccountRequests /\ r.pc = pc /\ r.v = o.v /\ r.since = o.since
      /\ r.head = h /\ r.op = o.op /\ r.b = o.b /\ r.start = o.start
  BY <1>2 DEF AccountRequests
<1>5. Changed(q, r, pc, o.v, o.since, h)
  BY <1>1, <1>3, <1>4 DEF Changed
<1> QED BY <1>1, <1>4, <1>5

LEMMA EntryIsTaken ==
  ASSUME AccountInv, NEW q \in Readers, NEW pc \in ReadStates, NEW e \in Entries, Hit(q, pc, e)
  PROVE  \E r \in AccountRequests : Changed(q, r, pc, e.v, e.since, read[q].head)
<1>1. PICK o \in AccountRequests : o = read[q]
  BY DEF AccountInv, AccountTypeOK, AccountRequests
<1>2. PICK r : r = [o EXCEPT !.pc = pc, !.v = e.v, !.since = e.since]
  OBVIOUS
<1>3. read' = [read EXCEPT ![q] = r]
  BY <1>1, <1>2 DEF Hit
<1>4. e.v \in Values /\ e.since \in Heads
  BY DEF Entries
<1>5. /\ r \in AccountRequests /\ r.pc = pc /\ r.v = e.v /\ r.since = e.since
      /\ r.head = o.head /\ r.op = o.op /\ r.b = o.b /\ r.start = o.start
  BY <1>2, <1>4 DEF AccountRequests
<1>6. Changed(q, r, pc, e.v, e.since, o.head)
  BY <1>1, <1>3, <1>5 DEF Changed
<1> QED BY <1>1, <1>5, <1>6

(* A request under way, and the world around it.                           *)
LEMMA ReaderFacts ==
  ASSUME AccountInv, NEW q \in Readers
  PROVE  LET o == read[q] IN
         /\ ChainOK /\ LastBlock \in 1..MaxBlocks /\ LastBlock \in Heads
         /\ o \in AccountRequests /\ AccountReadGood(AccountWorld, o)
         /\ o.b \in Nat /\ o.start \in Nat /\ o.since \in Nat /\ o.head \in Nat /\ o.v \in Int
         /\ o.b \in Heads /\ o.start \in Heads /\ o.since \in Heads /\ o.v \in Values /\ o.op \in Ops
         /\ o.pc \notin {"idle", "done"} => LastBlock - o.start <= MaxDuration
         /\ reads \in 0..MaxReads
<1>1. ChainOK /\ LastBlock \in 1..MaxBlocks /\ read[q] \in AccountRequests /\ reads \in 0..MaxReads
  BY DEF AccountInv, AccountTypeOK, ChainOK, AccountRequests
<1>2. LastBlock \in Heads
  BY <1>1, AccountBounds DEF Heads
<1>3. AccountReadGood(AccountWorld, read[q])
  BY DEF AccountInv
<1>4. read[q].pc \notin {"idle", "done"} => LastBlock - read[q].start <= MaxDuration
  BY DEF AccountInv, Going
<1> QED BY <1>1, <1>2, <1>3, <1>4, AccountBounds DEF AccountRequests, Heads, Values

LEMMA WorldFacts ==
  ASSUME ChainOK, NEW w, w = AccountWorld
  PROVE  /\ w \in AccountWorlds /\ w.made = LastBlock /\ w.made \in Nat
         /\ \A b \in Int : /\ w.ends[b] = End(b) /\ w.nonces[b] = NonceAt(b)
                           /\ w.ends[b] \in Nat /\ w.nonces[b] \in Nat
                           /\ b \in w.received <=> LastReceived(b)
                           /\ End(b) \in Values /\ NonceAt(b) \in Values
         /\ \A a, b \in Int : a <= b => w.ends[a] <= w.ends[b] /\ w.nonces[a] <= w.nonces[b]
<1>1. w \in AccountWorlds /\ w.made = LastBlock
  BY WorldIsTyped DEF AccountWorld
<1>2. w.made \in Nat
  BY <1>1, AccountBounds DEF AccountWorlds
<1>3. ASSUME NEW b \in Int
      PROVE  /\ w.ends[b] = End(b) /\ w.nonces[b] = NonceAt(b)
             /\ w.ends[b] \in Nat /\ w.nonces[b] \in Nat
             /\ b \in w.received <=> LastReceived(b)
             /\ End(b) \in Values /\ NonceAt(b) \in Values
  <2>1. w.ends[b] = End(b) /\ w.nonces[b] = NonceAt(b) /\ (b \in w.received <=> LastReceived(b))
    BY DEF AccountWorld
  <2>2. w.ends[b] \in Counts /\ w.nonces[b] \in Counts
    BY <1>1 DEF AccountWorlds
  <2> QED BY <2>1, <2>2, AccountBounds DEF Counts, Values
<1>4. ASSUME NEW a \in Int, NEW b \in Int, a <= b
      PROVE  w.ends[a] <= w.ends[b] /\ w.nonces[a] <= w.nonces[b]
  BY <1>3, <1>4, EndsGrowWithBlocks
<1> QED BY <1>1, <1>2, <1>3, <1>4

(* A move of a request that leaves the caches as they are.                 *)
LEMMA RequestMoves ==
  ASSUME AccountInv, KeepWorld, KeepCaches, NEW q \in Readers, Going(q),
         NEW r \in AccountRequests, read' = [read EXCEPT ![q] = r], r.start = read[q].start,
         NEW w, w = AccountWorld, AccountReadGood(w, r)
  PROVE  AccountInv'
<1>1. UNCHANGED <<chain, blockNumber, answered, nonceCache>> /\ reads' = reads
  BY DEF KeepWorld, KeepCaches
<1>2. reads \in 0..MaxReads /\ LastBlock - r.start <= MaxDuration
  BY ReaderFacts DEF Going
<1> QED BY <1>1, <1>2, ReaderStep

LEMMA FreshEarlier ==
  ASSUME ChainOK, NEW w, w = AccountWorld, NEW v \in Int, NEW t \in Int, FreshSince(w, v, t),
         NEW s \in Int, s <= t
  PROVE  FreshSince(w, v, s)
<1>1. w.made \in Nat /\ w.nonces[s] \in Nat /\ w.nonces[t] \in Nat /\ w.nonces[s] <= w.nonces[t]
  BY WorldFacts
<1> QED BY <1>1 DEF FreshSince

LEMMA LookupFailsKeeps ==
  ASSUME AccountInv, NEW q \in Readers, LookupFails(q)
  PROVE  AccountInv'
<1>1. PICK w : w = AccountWorld
  OBVIOUS
<1>2. PICK o \in AccountRequests : o = read[q]
  BY ReaderFacts
<1>3. PICK r : r = [IdleRead EXCEPT !.pc = "done", !.op = o.op]
  OBVIOUS
<1>4. /\ r \in AccountRequests /\ r.pc = "done" /\ r.start = 0 /\ r.since = 0 /\ r.v = -1
  BY <1>2, <1>3, IdleReadFields DEF AccountRequests, ReadStates
<1>5. read' = [read EXCEPT ![q] = r] /\ KeepCaches /\ KeepWorld
  BY <1>2, <1>3 DEF LookupFails
<1>6. w.made \in Nat /\ reads \in 0..MaxReads
  BY <1>1, ReaderFacts, WorldFacts
<1>7. AccountReadGood(w, r)
  BY <1>4, <1>6 DEF AccountReadGood, ValueGood, FreshSince
<1> QED BY <1>1, <1>4, <1>5, <1>6, <1>7, ReaderStep DEF KeepCaches, KeepWorld

LEMMA CachePutKeeps ==
  ASSUME AccountInv, NEW q \in Readers, CachePut(q)
  PROVE  AccountInv'
<1>1. PICK w : w = AccountWorld
  OBVIOUS
<1>2. PICK o \in AccountRequests : o = read[q]
  BY ReaderFacts
<1>3. /\ o.pc = "put" /\ GoTo(q, "done") /\ UNCHANGED <<chain, blockNumber, nonceCache>>
      /\ reads' = reads
      /\ answered' = IF o.b = 0 THEN answered
                     ELSE [answered EXCEPT ![o.op][o.b] = Entry(q, MaxBlocks)]
  BY <1>2 DEF CachePut, KeepWorld
<1>4. PICK r \in AccountRequests : Changed(q, r, "done", o.v, o.since, o.head)
  BY <1>2, <1>3, GoToMakes DEF ReadStates
<1>5. /\ read' = [read EXCEPT ![q] = r] /\ r.pc = "done" /\ r.v = o.v /\ r.since = o.since
      /\ r.op = o.op /\ r.b = o.b /\ r.start = o.start
  BY <1>2, <1>4 DEF Changed
<1>6. /\ AccountReadGood(w, o) /\ reads \in 0..MaxReads /\ ChainOK
      /\ o.b \in Heads /\ o.b \in Nat /\ o.op \in Ops /\ o.v \in Values /\ o.since \in Heads
      /\ LastBlock \in Nat
  BY <1>1, <1>2, ReaderFacts, AccountBounds
<1>7. /\ o.start <= w.made /\ o.since <= w.made /\ ValueGood(w, o.op, o.b, o.v, o.since)
      /\ o.op = "nonce" /\ o.b = 0 => FreshSince(w, o.v, FreshFrom(o))
  BY <1>3, <1>6 DEF AccountReadGood
<1>8. AccountReadGood(w, r)
  <2>1. FreshFrom(r) = FreshFrom(o)
    BY <1>5 DEF FreshFrom
  <2> QED BY <1>5, <1>7, <2>1 DEF AccountReadGood
<1>9. \/ UNCHANGED answered
      \/ \E op \in Ops, b \in 1..MaxBlocks, e \in Entries :
           AnswerEntryGood(w, op, b, e) /\ answered' = [answered EXCEPT ![op][b] = e]
  <2>1. CASE o.b = 0
    BY <1>3, <2>1
  <2>2. CASE o.b # 0
    <3>1. o.b \in 1..MaxBlocks
      BY <1>6, <2>2 DEF Heads
    <3>2. PICK e : e = Entry(q, MaxBlocks)
      OBVIOUS
    <3>3. e \in Entries /\ e.v = o.v /\ e.since = o.since
      BY <1>2, <1>6, <3>2, AccountBounds DEF Entry, Entries
    <3>4. AnswerEntryGood(w, o.op, o.b, e)
      BY <1>7, <3>3 DEF AnswerEntryGood
    <3> QED BY <1>3, <1>6, <2>2, <3>1, <3>2, <3>3, <3>4
  <2> QED BY <2>1, <2>2
<1>10. UNCHANGED <<chain, blockNumber, nonceCache>> /\ reads' \in 0..MaxReads
  BY <1>3, <1>6
<1>11. read' = [read EXCEPT ![q] = r] /\ r.pc = "done"
  BY <1>5
<1> QED BY <1>1, <1>8, <1>9, <1>10, <1>11, ReaderStep

LEMMA ExtractKeeps ==
  ASSUME AccountInv, NEW q \in Readers, extractBlockNumberAndTimestamp(q)
  PROVE  AccountInv'
<1>1. PICK w : w = AccountWorld
  OBVIOUS
<1>2. PICK o \in AccountRequests : o = read[q]
  BY ReaderFacts
<1>3. o.pc = "extract" /\ Going(q)
  BY <1>2 DEF extractBlockNumberAndTimestamp, Going
<1>4. /\ AccountReadGood(w, o) /\ reads \in 0..MaxReads /\ ChainOK
      /\ o.b \in Nat /\ o.start \in Nat /\ LastBlock \in Nat /\ LastBlock \in Heads
      /\ w.made = LastBlock /\ LastBlock - o.start <= MaxDuration
  BY <1>1, <1>2, <1>3, ReaderFacts, WorldFacts, AccountBounds
<1>5. o.op = "balance" /\ o.since = o.start /\ o.start <= w.made
  BY <1>3, <1>4 DEF AccountReadGood
<1>6. CASE /\ Usable(blockNumber)
           /\ GoTo(q, IF Near(o.b, blockNumber.v) THEN "account" ELSE "stamp")
           /\ KeepCaches /\ KeepWorld
  <2>1. /\ blockNumber.v \in Int /\ blockNumber.v >= 0 /\ LastBlock <= blockNumber.until
        /\ blockNumber.until = blockNumber.v + BlockNumberTtl
    BY <1>1, <1>6 DEF AccountInv, AccountTypeOK, Entries, Values, NumberGood, Usable
  <2>2. PICK pc \in ReadStates : pc = IF Near(o.b, blockNumber.v) THEN "account" ELSE "stamp"
    BY DEF ReadStates
  <2>3. PICK r \in AccountRequests : Changed(q, r, pc, o.v, o.since, o.head)
    BY <1>2, <1>6, <2>2, GoToMakes
  <2>4. /\ read' = [read EXCEPT ![q] = r] /\ r.pc = pc /\ r.since = o.since /\ r.op = o.op
        /\ r.b = o.b /\ r.start = o.start
    BY <1>2, <2>3 DEF Changed
  <2>5. pc = "account" => o.b >= o.start - 1 - BlockNumberTtl
    BY <1>4, <1>5, <2>1, <2>2, AccountBounds DEF Near
  <2>6. AccountReadGood(w, r)
    BY <1>5, <2>2, <2>4, <2>5 DEF AccountReadGood
  <2> QED BY <1>1, <1>2, <1>3, <1>6, <2>4, <2>6, RequestMoves
<1>7. CASE /\ read' = [read EXCEPT ![q].head = LastBlock,
                                   ![q].pc = IF Near(o.b, LastBlock) THEN "account" ELSE "block"]
           /\ blockNumberTimestamp
  <2>2. PICK pc \in ReadStates : pc = IF Near(o.b, LastBlock) THEN "account" ELSE "block"
    BY DEF ReadStates
  <2>3. PICK r \in AccountRequests : Changed(q, r, pc, o.v, o.since, LastBlock)
    BY <1>2, <1>4, <1>7, <2>2, HeadIsSet
  <2>4. /\ read' = [read EXCEPT ![q] = r] /\ r.pc = pc /\ r.since = o.since /\ r.op = o.op
        /\ r.b = o.b /\ r.start = o.start /\ r.head = LastBlock
    BY <1>2, <2>3 DEF Changed
  <2>5. /\ pc = "account" => o.b >= o.start - 1 - BlockNumberTtl
        /\ LastBlock <= o.start + MaxDuration
    BY <1>4, <1>5, <2>2, AccountBounds DEF Near
  <2>6. AccountReadGood(w, r)
    BY <1>5, <2>2, <2>4, <2>5 DEF AccountReadGood
  <2>7. blockNumber' \in Entries /\ NumberGood(w, blockNumber')
    BY <1>4, <1>7, AccountBounds DEF blockNumberTimestamp, Entries, Values, Heads, NumberGood
  <2>8. UNCHANGED <<chain, reads, answered, nonceCache>>
    BY <1>7 DEF blockNumberTimestamp, KeepWorld
  <2> QED BY <1>1, <1>4, <2>4, <2>6, <2>7, <2>8, ReaderStep
<1> QED BY <1>2, <1>6, <1>7 DEF extractBlockNumberAndTimestamp

LEMMA StampKeeps ==
  ASSUME AccountInv, NEW q \in Readers, fetchTimestamp(q)
  PROVE  AccountInv'
<1>1. PICK w : w = AccountWorld
  OBVIOUS
<1>2. PICK o \in AccountRequests : o = read[q]
  BY ReaderFacts
<1>3. /\ o.pc = "stamp" /\ read' = [read EXCEPT ![q].head = LastBlock, ![q].pc = "block"]
      /\ blockNumberTimestamp
  BY <1>2 DEF fetchTimestamp
<1>4. /\ AccountReadGood(w, o) /\ reads \in 0..MaxReads /\ ChainOK
      /\ o.start \in Nat /\ LastBlock \in Nat /\ LastBlock \in Heads
      /\ w.made = LastBlock /\ LastBlock - o.start <= MaxDuration
  BY <1>1, <1>2, <1>3, ReaderFacts, WorldFacts, AccountBounds
<1>5. o.op = "balance" /\ o.since = o.start /\ o.start <= w.made
  BY <1>3, <1>4 DEF AccountReadGood
<1>6. PICK r \in AccountRequests : Changed(q, r, "block", o.v, o.since, LastBlock)
  BY <1>2, <1>3, <1>4, HeadIsSet DEF ReadStates
<1>7. /\ read' = [read EXCEPT ![q] = r] /\ r.pc = "block" /\ r.since = o.since /\ r.op = o.op
      /\ r.b = o.b /\ r.start = o.start /\ r.head = LastBlock
  BY <1>2, <1>6 DEF Changed
<1>8. AccountReadGood(w, r)
  <2>1. LastBlock <= o.start + MaxDuration
    BY <1>4, AccountBounds
  <2> QED BY <1>5, <1>7, <2>1 DEF AccountReadGood
<1>9. blockNumber' \in Entries /\ NumberGood(w, blockNumber')
  BY <1>3, <1>4, AccountBounds DEF blockNumberTimestamp, Entries, Values, Heads, NumberGood
<1>10. UNCHANGED <<chain, reads, answered, nonceCache>>
  BY <1>3 DEF blockNumberTimestamp, KeepWorld
<1> QED BY <1>1, <1>4, <1>7, <1>8, <1>9, <1>10, ReaderStep

(* The balance of a block, from the transactions since or from a snapshot. *)
LEMMA BalanceAtBlockKeeps ==
  ASSUME AccountInv, NEW q \in Readers, getBalanceAtBlockNumber(q)
  PROVE  AccountInv'
<1>1. PICK w : w = AccountWorld
  OBVIOUS
<1>2. PICK o \in AccountRequests : o = read[q]
  BY ReaderFacts
<1>3. PICK v : v = IF To(o.head) - From(o.b) > UpdateInterval THEN SnapshotBefore(o.b)
                                                              ELSE BalanceFromTxs(o.b)
  OBVIOUS
<1>4. o.pc = "block" /\ Found(q, "put", v) /\ KeepCaches /\ KeepWorld /\ Going(q)
  BY <1>2, <1>3 DEF getBalanceAtBlockNumber, Going
<1>5. /\ AccountReadGood(w, o) /\ ChainOK
      /\ o.b \in Nat /\ o.start \in Nat /\ o.head \in Nat
  BY <1>1, <1>2, ReaderFacts
<1>6. /\ o.op = "balance" /\ o.since = o.start /\ o.start <= w.made
      /\ o.head <= o.start + MaxDuration
  BY <1>4, <1>5 DEF AccountReadGood
<1>7. /\ w.ends[o.b] = End(o.b) /\ w.ends[o.b - SnapshotEvery] = End(o.b - SnapshotEvery)
      /\ End(o.b) \in Nat /\ End(o.b) \in Values
  BY <1>1, <1>5, WorldFacts, AccountBounds
<1>8. /\ v \in Nat /\ v <= End(o.b)
      /\ \/ v \in w.ends[o.b] - 1 .. w.ends[o.b]
         \/ /\ To(o.head) - From(o.b) > UpdateInterval
            /\ v \in w.ends[o.b - SnapshotEvery] .. w.ends[o.b]
  <2>1. /\ SnapshotBefore(o.b) \in End(o.b - SnapshotEvery) .. End(o.b)
        /\ SnapshotBefore(o.b) \in Nat
    BY <1>5, SnapshotIsRecent
  <2>2. BalanceFromTxs(o.b) \in Nat /\ BalanceFromTxs(o.b) \in End(o.b) - 1 .. End(o.b)
    BY <1>5, BalanceIsOfBlock
  <2>3. CASE To(o.head) - From(o.b) > UpdateInterval
    BY <1>3, <1>7, <2>1, <2>3
  <2>4. CASE ~(To(o.head) - From(o.b) > UpdateInterval)
    BY <1>3, <1>7, <2>2, <2>4
  <2> QED BY <2>3, <2>4
<1>9. v \in Values
  BY <1>7, <1>8, AccountBounds DEF Values
<1>10. PICK r \in AccountRequests : Changed(q, r, "put", v, o.since, o.head)
  BY <1>2, <1>4, <1>9, FoundMakes DEF ReadStates
<1>11. /\ read' = [read EXCEPT ![q] = r] /\ r.pc = "put" /\ r.v = v /\ r.since = o.start
       /\ r.op = "balance" /\ r.b = o.b /\ r.start = o.start
  BY <1>2, <1>6, <1>10 DEF Changed
<1>12. BalanceGood(w, o.b, v, o.start)
  <2>1. To(o.head) - From(o.b) > UpdateInterval =>
          To(o.start + MaxDuration) - From(o.b) > UpdateInterval
    BY <1>5, <1>6, AccountBounds DEF To, From
  <2> QED BY <1>8, <2>1 DEF BalanceGood
<1>13. AccountReadGood(w, r)
  BY <1>6, <1>8, <1>11, <1>12 DEF AccountReadGood, ValueGood
<1> QED BY <1>1, <1>2, <1>4, <1>11, <1>13, RequestMoves

(* The nonce: from the cache, of the first blocks, or to be looked up.     *)
LEMMA TransactionCountKeeps ==
  ASSUME AccountInv, NEW q \in Readers, getTransactionCount(q)
  PROVE  AccountInv'
<1>1. PICK w : w = AccountWorld
  OBVIOUS
<1>2. PICK o \in AccountRequests : o = read[q]
  BY ReaderFacts
<1>3. o.pc = "inner" /\ KeepCaches /\ KeepWorld /\ Going(q)
  BY <1>2 DEF getTransactionCount, Going
<1>4. /\ AccountReadGood(w, o) /\ ChainOK /\ o.b \in Heads /\ o.b \in Nat /\ o.start \in Nat
      /\ LastBlock \in Nat /\ w.made = LastBlock
  BY <1>1, <1>2, ReaderFacts, WorldFacts, AccountBounds
<1>5. o.op = "nonce" /\ o.since = o.start /\ o.start <= w.made
  BY <1>3, <1>4 DEF AccountReadGood
<1>6. CASE Usable(nonceCache[o.b]) /\ Hit(q, "put", nonceCache[o.b])
  <2>1. PICK e \in Entries : e = nonceCache[o.b] /\ NonceEntryGood(w, o.b, e)
    BY <1>1, <1>4 DEF AccountInv, AccountTypeOK
  <2>2. /\ e.v >= 0 /\ LastBlock <= e.until /\ e.v \in Int /\ e.until \in Nat
        /\ Hit(q, "put", e)
    BY <1>6, <2>1, AccountBounds DEF Usable, Entries, Values
  <2>3. /\ e.since <= w.made /\ ValueGood(w, "nonce", o.b, e.v, e.since)
        /\ o.b = 0 => FreshSince(w, e.v, e.until - NonceTtl - MaxDuration)
    BY <2>1 DEF NonceEntryGood
  <2>4. PICK r \in AccountRequests : Changed(q, r, "put", e.v, e.since, o.head)
    BY <1>2, <2>2, EntryIsTaken DEF ReadStates
  <2>5. /\ read' = [read EXCEPT ![q] = r] /\ r.pc = "put" /\ r.v = e.v /\ r.since = e.since
        /\ r.op = "nonce" /\ r.b = o.b /\ r.start = o.start
    BY <1>2, <1>5, <2>4 DEF Changed
  <2>6. o.b = 0 => FreshSince(w, e.v, FreshFrom(r))
    <3>1. /\ FreshFrom(r) \in Int /\ e.until - NonceTtl - MaxDuration \in Int
          /\ FreshFrom(r) <= e.until - NonceTtl - MaxDuration
      BY <1>4, <1>5, <2>2, <2>5, AccountBounds DEF FreshFrom
    <3> QED BY <1>1, <1>4, <2>2, <2>3, <3>1, FreshEarlier
  <2>7. AccountReadGood(w, r)
    BY <1>5, <2>2, <2>3, <2>5, <2>6 DEF AccountReadGood
  <2> QED BY <1>1, <1>2, <1>3, <2>5, <2>7, RequestMoves
<1>7. CASE o.b = 1 /\ Found(q, "put", 0)
  <2>1. PICK r \in AccountRequests : Changed(q, r, "put", 0, o.since, o.head)
    <3>1. 0 \in Values
      BY AccountBounds DEF Values
    <3> QED BY <1>2, <1>7, <3>1, FoundMakes DEF ReadStates
  <2>2. /\ read' = [read EXCEPT ![q] = r] /\ r.pc = "put" /\ r.v = 0 /\ r.since = o.start
        /\ r.op = "nonce" /\ r.b = 1 /\ r.start = o.start
    BY <1>2, <1>5, <1>7, <2>1 DEF Changed
  <2>3. AccountReadGood(w, r)
    BY <1>5, <2>2 DEF AccountReadGood, ValueGood, NonceGood
  <2> QED BY <1>1, <1>2, <1>3, <2>2, <2>3, RequestMoves
<1>8. CASE o.b # 1 /\ GoTo(q, IF o.b = 0 THEN "account" ELSE "newest")
  <2>1. PICK pc \in ReadStates : pc = IF o.b = 0 THEN "account" ELSE "newest"
    BY DEF ReadStates
  <2>2. PICK r \in AccountRequests : Changed(q, r, pc, o.v, o.since, o.head)
    BY <1>2, <1>8, <2>1, GoToMakes
  <2>3. /\ read' = [read EXCEPT ![q] = r] /\ r.pc = pc /\ r.since = o.start
        /\ r.op = "nonce" /\ r.b = o.b /\ r.start = o.start
    BY <1>2, <1>5, <2>2 DEF Changed
  <2>4. AccountReadGood(w, r)
    BY <1>4, <1>5, <1>8, <2>1, <2>3 DEF AccountReadGood
  <2> QED BY <1>1, <1>2, <1>3, <2>3, <2>4, RequestMoves
<1> QED BY <1>2, <1>4, <1>6, <1>7, <1>8 DEF getTransactionCount

LEMMA HistoricBlockKeeps ==
  ASSUME AccountInv, NEW q \in Readers, getAccountNonceForHistoricBlock(q)
  PROVE  AccountInv'
<1>1. PICK w : w = AccountWorld
  OBVIOUS
<1>2. PICK o \in AccountRequests : o = read[q]
  BY ReaderFacts
<1>3. PICK pc \in ReadStates :
        pc = IF LastBlock - o.b <= MaxBlockRange THEN "account" ELSE "result"
  BY DEF ReadStates
<1>4. o.pc = "newest" /\ GoTo(q, pc) /\ KeepCaches /\ KeepWorld /\ Going(q)
  BY <1>2, <1>3 DEF getAccountNonceForHistoricBlock, Going
<1>5. /\ AccountReadGood(w, o) /\ ChainOK /\ o.b \in Nat /\ o.start \in Nat
      /\ LastBlock \in Nat /\ w.made = LastBlock
  BY <1>1, <1>2, ReaderFacts, WorldFacts, AccountBounds
<1>6. o.op = "nonce" /\ o.since = o.start /\ o.start <= w.made /\ o.b > 1
  BY <1>4, <1>5 DEF AccountReadGood
<1>7. PICK r \in AccountRequests : Changed(q, r, pc, o.v, o.since, o.head)
  BY <1>2, <1>4, GoToMakes
<1>8. /\ read' = [read EXCEPT ![q] = r] /\ r.pc = pc /\ r.since = o.start
      /\ r.op = "nonce" /\ r.b = o.b /\ r.start = o.start
  BY <1>2, <1>6, <1>7 DEF Changed
<1>9. pc = "account" => o.b >= o.start - MaxBlockRange
  BY <1>3, <1>5, <1>6, AccountBounds
<1>10. AccountReadGood(w, r)
  BY <1>3, <1>6, <1>8, <1>9 DEF AccountReadGood
<1> QED BY <1>1, <1>2, <1>4, <1>8, <1>10, RequestMoves

LEMMA ContractResultKeeps ==
  ASSUME AccountInv, NEW q \in Readers, getAccountNonceFromContractResult(q)
  PROVE  AccountInv'
<1>1. PICK w : w = AccountWorld
  OBVIOUS
<1>2. PICK o \in AccountRequests : o = read[q]
  BY ReaderFacts
<1>3. o.pc = "result" /\ KeepCaches /\ KeepWorld /\ Going(q)
  BY <1>2 DEF getAccountNonceFromContractResult, Going
<1>4. /\ AccountReadGood(w, o) /\ ChainOK /\ o.b \in Nat /\ o.b \in Int /\ o.start \in Nat
      /\ LastBlock \in Nat /\ w.made = LastBlock
  BY <1>1, <1>2, ReaderFacts, WorldFacts, AccountBounds
<1>5. o.op = "nonce" /\ o.since = o.start /\ o.start <= w.made /\ o.b > 1
  BY <1>3, <1>4 DEF AccountReadGood
<1>6. /\ Cardinality(TxsUpTo(o.b)) \in Nat /\ Cardinality(TxsUpTo(o.b)) \in Values
      /\ NonceAt(o.b) \in Nat /\ NonceAt(o.b) \in Values /\ w.nonces[o.b] = NonceAt(o.b)
      /\ o.b \in w.received <=> LastReceived(o.b)
  <2>1. End(o.b) \in Nat /\ NonceAt(o.b) \in Nat
    BY <1>4, EndsAreCounts
  <2>2. /\ End(o.b) \in Values /\ NonceAt(o.b) \in Values /\ w.nonces[o.b] = NonceAt(o.b)
        /\ o.b \in w.received <=> LastReceived(o.b)
    BY <1>1, <1>4, WorldFacts
  <2> QED BY <2>1, <2>2 DEF End
<1>7. ASSUME NEW v \in Values, v \in Nat, Found(q, "keep", v), NonceGood(w, o.b, v, o.start)
      PROVE  AccountInv'
  <2>1. PICK r \in AccountRequests : Changed(q, r, "keep", v, o.since, o.head)
    BY <1>2, <1>7, FoundMakes DEF ReadStates
  <2>2. /\ read' = [read EXCEPT ![q] = r] /\ r.pc = "keep" /\ r.v = v /\ r.since = o.start
        /\ r.op = "nonce" /\ r.b = o.b /\ r.start = o.start
    BY <1>2, <1>5, <2>1 DEF Changed
  <2>3. v >= 0 /\ o.b # 0
    BY <1>4, <1>5, <1>7
  <2>4. AccountReadGood(w, r)
    BY <1>5, <1>7, <2>2, <2>3 DEF AccountReadGood, ValueGood
  <2> QED BY <1>1, <1>2, <1>3, <2>2, <2>4, RequestMoves
<1>8. CASE Cardinality(TxsUpTo(o.b)) <= 1
  <2>1. \/ Cardinality(TxsUpTo(o.b)) = NonceAt(o.b)
        \/ Cardinality(TxsUpTo(o.b)) > NonceAt(o.b) /\ LastReceived(o.b)
    BY <1>4, <1>8, OneIsTaken
  <2>2. NonceGood(w, o.b, Cardinality(TxsUpTo(o.b)), o.start)
    BY <1>6, <2>1 DEF NonceGood
  <2>3. Found(q, "keep", Cardinality(TxsUpTo(o.b)))
    BY <1>2, <1>8 DEF getAccountNonceFromContractResult
  <2> QED BY <1>6, <1>7, <2>2, <2>3
<1>9. CASE Cardinality(TxsUpTo(o.b)) > 1 /\ SlotAt(Last(TxsUpTo(o.b))) = "sent"
  <2>1. SentUpTo(Last(TxsUpTo(o.b))) = NonceAt(o.b)
    BY <1>4, <1>9, LastDecides
  <2>2. Found(q, "keep", NonceAt(o.b))
    BY <1>2, <1>6, <1>9, <2>1 DEF getAccountNonceFromContractResult
  <2>3. NonceGood(w, o.b, NonceAt(o.b), o.start)
    BY <1>6 DEF NonceGood
  <2> QED BY <1>6, <1>7, <2>2, <2>3
<1>10. CASE Cardinality(TxsUpTo(o.b)) > 1 /\ SlotAt(Last(TxsUpTo(o.b))) # "sent"
  <2>1. o.b \in w.received
    BY <1>4, <1>6, <1>10, LastDecides
  <2>2. GoTo(q, "account")
    BY <1>2, <1>6, <1>10 DEF getAccountNonceFromContractResult
  <2>3. PICK r \in AccountRequests : Changed(q, r, "account", o.v, o.since, o.head)
    BY <1>2, <2>2, GoToMakes DEF ReadStates
  <2>4. /\ read' = [read EXCEPT ![q] = r] /\ r.pc = "account" /\ r.since = o.start
        /\ r.op = "nonce" /\ r.b = o.b /\ r.start = o.start
    BY <1>2, <1>5, <2>3 DEF Changed
  <2>5. AccountReadGood(w, r)
    BY <1>5, <2>1, <2>4 DEF AccountReadGood
  <2> QED BY <1>1, <1>2, <1>3, <2>4, <2>5, RequestMoves
<1> QED BY <1>6, <1>8, <1>9, <1>10

(* The account as it is now is not older than the request.                 *)
LEMMA ReadAccountKeeps ==
  ASSUME AccountInv, NEW q \in Readers, ReadAccount(q)
  PROVE  AccountInv'
<1>1. PICK w : w = AccountWorld
  OBVIOUS
<1>2. PICK o \in AccountRequests : o = read[q]
  BY ReaderFacts
<1>3. o.pc = "account" /\ KeepCaches /\ KeepWorld /\ Going(q)
  BY <1>2 DEF ReadAccount, Going
<1>4. /\ AccountReadGood(w, o) /\ ChainOK /\ o.b \in Nat /\ o.start \in Nat /\ o.op \in Ops
      /\ LastBlock \in Nat /\ LastBlock \in Int /\ w.made = LastBlock
  BY <1>1, <1>2, ReaderFacts, WorldFacts, AccountBounds
<1>5. /\ o.since = o.start /\ o.start <= w.made
      /\ o.op = "balance" => o.b = 0 \/ o.b >= o.start - 1 - BlockNumberTtl
      /\ o.op = "nonce" /\ o.b \in 2 .. o.start =>
           o.b >= o.start - MaxBlockRange \/ o.b \in w.received
  BY <1>3, <1>4 DEF AccountReadGood
<1>6. /\ End(LastBlock) \in Nat /\ End(LastBlock) \in Values
      /\ NonceAt(LastBlock) \in Nat /\ NonceAt(LastBlock) \in Values
      /\ \A b \in Int : b <= LastBlock =>
           /\ w.ends[b] \in Nat /\ w.ends[b] <= End(LastBlock)
           /\ w.nonces[b] \in Nat /\ w.nonces[b] <= NonceAt(LastBlock)
  BY <1>1, <1>4, WorldFacts
<1>7. CASE o.op = "balance"
  <2>1. Found(q, "put", End(LastBlock))
    BY <1>2, <1>7 DEF ReadAccount
  <2>2. PICK r \in AccountRequests : Changed(q, r, "put", End(LastBlock), o.since, o.head)
    BY <1>2, <1>6, <2>1, FoundMakes DEF ReadStates
  <2>3. /\ read' = [read EXCEPT ![q] = r] /\ r.pc = "put" /\ r.v = End(LastBlock)
        /\ r.since = o.start /\ r.op = "balance" /\ r.b = o.b /\ r.start = o.start
    BY <1>2, <1>5, <1>7, <2>2 DEF Changed
  <2>4. BalanceGood(w, o.b, End(LastBlock), o.start)
    <3>1. SUFFICES ASSUME o.b \in 1 .. o.start
                   PROVE  \/ End(LastBlock) \in w.ends[o.b] - 1 .. w.ends[o.b]
                          \/ /\ End(LastBlock) > w.ends[o.b]
                             /\ o.b >= o.start - 1 - BlockNumberTtl
      BY DEF BalanceGood
    <3>2. w.ends[o.b] \in Nat /\ w.ends[o.b] <= End(LastBlock)
      BY <1>4, <1>5, <1>6, <3>1
    <3> QED BY <1>4, <1>5, <1>6, <1>7, <3>1, <3>2
  <2>5. AccountReadGood(w, r)
    BY <1>5, <1>6, <2>3, <2>4 DEF AccountReadGood, ValueGood
  <2> QED BY <1>1, <1>2, <1>3, <2>3, <2>5, RequestMoves
<1>8. CASE o.op = "nonce"
  <2>1. Found(q, "keep", NonceAt(LastBlock))
    BY <1>2, <1>8 DEF ReadAccount
  <2>2. PICK r \in AccountRequests : Changed(q, r, "keep", NonceAt(LastBlock), o.since, o.head)
    BY <1>2, <1>6, <2>1, FoundMakes DEF ReadStates
  <2>3. /\ read' = [read EXCEPT ![q] = r] /\ r.pc = "keep" /\ r.v = NonceAt(LastBlock)
        /\ r.since = o.start /\ r.op = "nonce" /\ r.b = o.b /\ r.start = o.start
    BY <1>2, <1>5, <1>8, <2>2 DEF Changed
  <2>4. NonceGood(w, o.b, NonceAt(LastBlock), o.start)
    <3>1. SUFFICES ASSUME o.b \in 2 .. o.start
                   PROVE  \/ NonceAt(LastBlock) = w.nonces[o.b]
                          \/ /\ NonceAt(LastBlock) > w.nonces[o.b]
                             /\ o.b >= o.start - MaxBlockRange \/ o.b \in w.received
      BY DEF NonceGood
    <3>2. w.nonces[o.b] \in Nat /\ w.nonces[o.b] <= NonceAt(LastBlock)
      BY <1>4, <1>5, <1>6, <3>1
    <3> QED BY <1>4, <1>5, <1>6, <1>8, <3>1, <3>2
  <2>5. FreshSince(w, NonceAt(LastBlock), o.start)
    BY <1>4, <1>5, <1>6 DEF FreshSince
  <2>6. AccountReadGood(w, r)
    BY <1>5, <1>6, <2>3, <2>4, <2>5 DEF AccountReadGood, ValueGood
  <2> QED BY <1>1, <1>2, <1>3, <2>3, <2>6, RequestMoves
<1> QED BY <1>4, <1>7, <1>8 DEF Ops

(* What is kept for `latest' was read since the request began.             *)
LEMMA KeepNonceKeeps ==
  ASSUME AccountInv, NEW q \in Readers, KeepNonce(q)
  PROVE  AccountInv'
<1>1. PICK w : w = AccountWorld
  OBVIOUS
<1>2. PICK o \in AccountRequests : o = read[q]
  BY ReaderFacts
<1>3. PICK e : e = Entry(q, TtlOfNonce(o.b))
  OBVIOUS
<1>4. /\ o.pc = "keep" /\ GoTo(q, "put") /\ UNCHANGED <<chain, blockNumber, answered>>
      /\ reads' = reads /\ nonceCache' = [nonceCache EXCEPT ![o.b] = e]
  BY <1>2, <1>3 DEF KeepNonce, KeepWorld
<1>5. /\ AccountReadGood(w, o) /\ ChainOK /\ o.b \in Heads /\ o.start \in Nat /\ o.v \in Values
      /\ o.v \in Int /\ o.since \in Heads /\ LastBlock \in Nat /\ reads \in 0..MaxReads
      /\ LastBlock - o.start <= MaxDuration
  BY <1>1, <1>2, <1>4, ReaderFacts, AccountBounds
<1>6. /\ o.op = "nonce" /\ o.since = o.start /\ o.start <= w.made /\ o.v >= 0
      /\ ValueGood(w, "nonce", o.b, o.v, o.since)
      /\ o.b = 0 => FreshSince(w, o.v, o.start)
  BY <1>4, <1>5 DEF AccountReadGood
<1>7. PICK r \in AccountRequests : Changed(q, r, "put", o.v, o.since, o.head)
  BY <1>2, <1>4, GoToMakes DEF ReadStates
<1>8. /\ read' = [read EXCEPT ![q] = r] /\ r.pc = "put" /\ r.v = o.v /\ r.since = o.since
      /\ r.op = "nonce" /\ r.b = o.b /\ r.start = o.start
  BY <1>2, <1>6, <1>7 DEF Changed
<1>9. AccountReadGood(w, r)
  <2>1. /\ FreshFrom(r) \in Int /\ FreshFrom(r) <= o.start /\ o.start \in Int
    BY <1>5, <1>8, AccountBounds DEF FreshFrom
  <2>2. o.b = 0 => FreshSince(w, o.v, FreshFrom(r))
    BY <1>1, <1>5, <1>6, <2>1, FreshEarlier
  <2> QED BY <1>6, <1>8, <2>2 DEF AccountReadGood
<1>10. TtlOfNonce(o.b) \in Nat /\ (o.b = 0 => TtlOfNonce(o.b) = NonceTtl)
  BY AccountBounds DEF TtlOfNonce
<1>11. /\ e \in Entries /\ e.v = o.v /\ e.since = o.since
       /\ e.until = LastBlock + TtlOfNonce(o.b)
  BY <1>2, <1>3, <1>5, <1>10 DEF Entry, Entries
<1>12. NonceEntryGood(w, o.b, e)
  <2>1. ASSUME o.b = 0 PROVE FreshSince(w, e.v, e.until - NonceTtl - MaxDuration)
    <3>1. /\ e.until - NonceTtl - MaxDuration \in Int
          /\ e.until - NonceTtl - MaxDuration <= o.start /\ o.start \in Int
      BY <1>5, <1>10, <1>11, <2>1, AccountBounds
    <3> QED BY <1>1, <1>5, <1>6, <1>11, <2>1, <3>1, FreshEarlier
  <2> QED BY <1>6, <1>11, <2>1 DEF NonceEntryGood
<1>13. /\ UNCHANGED <<chain, blockNumber, answered>> /\ reads' \in 0..MaxReads
       /\ \E b \in Heads, x \in Entries :
            NonceEntryGood(w, b, x) /\ nonceCache' = [nonceCache EXCEPT ![b] = x]
  BY <1>4, <1>5, <1>11, <1>12
<1>14. /\ read' = [read EXCEPT ![q] = r]
       /\ r.pc \notin {"idle", "done"} => LastBlock - r.start <= MaxDuration
  BY <1>5, <1>8
<1> QED BY <1>1, <1>9, <1>13, <1>14, ReaderStep

LEMMA RequestKeeps ==
  ASSUME AccountInv, NEW q \in Readers, NEW op \in Ops, NEW b \in Heads, Request(q, op, b)
  PROVE  AccountInv'
<1>1. PICK w : w = AccountWorld
  OBVIOUS
<1>2. PICK asked : asked = [IdleRead EXCEPT !.op = op, !.b = b, !.start = LastBlock,
                                            !.since = LastBlock]
  OBVIOUS
<1>3. /\ reads < MaxReads /\ reads' = reads + 1
      /\ UNCHANGED <<chain, blockNumber, answered, nonceCache>>
  BY DEF Request, KeepCaches
<1>4. /\ ChainOK /\ LastBlock \in Heads /\ LastBlock \in Nat /\ reads \in 0..MaxReads
      /\ w.made = LastBlock /\ w.made \in Nat
  BY <1>1, ReaderFacts, WorldFacts, AccountBounds
<1>5. /\ asked \in AccountRequests /\ asked.op = op /\ asked.b = b /\ asked.start = LastBlock
      /\ asked.since = LastBlock /\ asked.v = -1 /\ asked.pc = "idle"
  BY <1>2, <1>4, IdleReadFields DEF AccountRequests
<1>6. reads' \in 0..MaxReads
  BY <1>3, <1>4, AccountBounds
<1>7. CASE /\ b # 0 /\ Usable(answered[op][b])
           /\ read' = [read EXCEPT ![q] = [asked EXCEPT !.pc = "done", !.v = answered[op][b].v,
                                                        !.since = answered[op][b].since]]
  <2>1. b \in 1..MaxBlocks
    BY <1>7, AccountBounds DEF Heads
  <2>2. PICK e \in Entries : e = answered[op][b] /\ AnswerEntryGood(w, op, b, e)
    BY <1>1, <2>1 DEF AccountInv, AccountTypeOK
  <2>3. e.v \in Values /\ e.since \in Heads
    BY DEF Entries
  <2>4. PICK r : r = [asked EXCEPT !.pc = "done", !.v = e.v, !.since = e.since]
    OBVIOUS
  <2>5. /\ r \in AccountRequests /\ r.pc = "done" /\ r.v = e.v /\ r.since = e.since
        /\ r.op = op /\ r.b = b /\ r.start = LastBlock
    BY <1>5, <2>3, <2>4 DEF AccountRequests, ReadStates
  <2>6. read' = [read EXCEPT ![q] = r]
    BY <1>7, <2>2, <2>4
  <2>7. AccountReadGood(w, r)
    BY <1>4, <1>7, <2>2, <2>5 DEF AccountReadGood, AnswerEntryGood
  <2> QED BY <1>1, <1>3, <1>6, <2>5, <2>6, <2>7, ReaderStep
<1>8. CASE read' = [read EXCEPT ![q] = [asked EXCEPT !.pc = StateAfterMiss(op, b)]]
  <2>1. PICK pc \in ReadStates : pc = StateAfterMiss(op, b)
    BY DEF ReadStates, StateAfterMiss
  <2>2. PICK r : r = [asked EXCEPT !.pc = pc]
    OBVIOUS
  <2>3. /\ r \in AccountRequests /\ r.pc = pc /\ r.v = -1 /\ r.since = LastBlock
        /\ r.op = op /\ r.b = b /\ r.start = LastBlock
    BY <1>5, <2>2 DEF AccountRequests
  <2>4. read' = [read EXCEPT ![q] = r]
    BY <1>8, <2>1, <2>2
  <2>5. AccountReadGood(w, r)
    BY <1>4, <2>1, <2>3 DEF AccountReadGood, StateAfterMiss, Ops
  <2>6. LastBlock - r.start <= MaxDuration
    BY <1>4, <2>3, AccountBounds
  <2> QED BY <1>1, <1>3, <1>6, <2>3, <2>4, <2>5, <2>6, ReaderStep
<1> QED BY <1>2, <1>7, <1>8 DEF Request

LEMMA AccountsUnchanged == ASSUME AccountInv, UNCHANGED accountVars PROVE AccountInv'
BY DEF AccountInv, AccountTypeOK, AccountWorld, LastBlock, End, NonceAt, LastReceived, TxsUpTo,
       AccountTxs, SlotAt, Going, accountVars

LEMMA AccountsKeep == ASSUME AccountInv, [AccountNext]_accountVars PROVE AccountInv'
<1>1. CASE NewBlock
  BY <1>1, NewBlockKeeps
<1>2. ASSUME NEW q \in Readers, AccountStep(q) PROVE AccountInv'
  BY <1>2, CachePutKeeps, LookupFailsKeeps, ExtractKeeps, StampKeeps, BalanceAtBlockKeeps,
     TransactionCountKeeps, HistoricBlockKeeps, ContractResultKeeps, ReadAccountKeeps,
     KeepNonceKeeps DEF AccountStep
<1>3. ASSUME NEW q \in Readers, NEW p \in ReadParams, Request(q, p[1], p[2]) PROVE AccountInv'
  <2>1. p[1] \in Ops /\ p[2] \in Heads
    BY AccountBounds
  <2> QED BY <1>3, <2>1, RequestKeeps
<1>4. CASE UNCHANGED accountVars
  BY <1>4, AccountsUnchanged
<1> QED BY <1>1, <1>2, <1>3, <1>4 DEF AccountNext

LEMMA AccountsAreGood == AccountInv => AccountsRight
<1> SUFFICES ASSUME AccountInv PROVE AccountsRight
  OBVIOUS
<1>1. PICK w : w = AccountWorld
  OBVIOUS
<1>2. ChainOK /\ AccountTypeOK
  BY DEF AccountInv, AccountTypeOK, ChainOK
<1>3. ASSUME NEW q \in Readers
      PROVE  LET o == read[q] IN
             /\ o.b \in Nat /\ o.since \in Nat /\ o.v \in Int /\ o.start \in Nat
             /\ o.pc = "done" => ValueGood(w, o.op, o.b, o.v, o.since)
             /\ o.pc = "done" /\ o.op = "nonce" /\ o.b = 0 => FreshSince(w, o.v, FreshFrom(o))
  <2>1. AccountReadGood(w, read[q])
    BY <1>1, ReaderFacts
  <2> QED BY <2>1, ReaderFacts DEF AccountReadGood
<1>4. \A b \in Nat : /\ w.ends[b] = End(b) /\ w.nonces[b] = NonceAt(b)
                     /\ w.ends[b - SnapshotEvery] = End(b - SnapshotEvery)
                     /\ b \in w.received <=> LastReceived(b)
  <2>1. \A b \in Nat : b \in Int /\ b - SnapshotEvery \in Int
    BY AccountBounds
  <2> QED BY <1>1, <1>2, <2>1, WorldFacts
<1>5. BalanceNearBlock
  <2> SUFFICES ASSUME NEW q \in Readers, Answered(q, "balance"), Existed(q),
                      NEW b \in Nat, b = read[q].b, NEW v \in Int, v = read[q].v
               PROVE  \/ v \in End(b) - 1 .. End(b)
                      \/ v > End(b) /\ b >= read[q].since - 1 - BlockNumberTtl
                      \/ /\ To(read[q].since + MaxDuration) - From(b) > UpdateInterval
                         /\ v \in End(b - SnapshotEvery) .. End(b)
    BY <1>3 DEF BalanceNearBlock
  <2>1. BalanceGood(w, b, v, read[q].since) /\ b \in 1 .. read[q].since
    BY <1>3 DEF Answered, Existed, ValueGood
  <2> QED BY <1>4, <2>1 DEF BalanceGood
<1>6. NonceOfBlock
  <2> SUFFICES ASSUME NEW q \in Readers, Answered(q, "nonce"), Existed(q), read[q].b > 1,
                      NEW b \in Nat, b = read[q].b, NEW v \in Int, v = read[q].v
               PROVE  \/ v = NonceAt(b)
                      \/ v > NonceAt(b) /\ b >= read[q].since - MaxBlockRange
                      \/ v > NonceAt(b) /\ LastReceived(b)
    BY <1>3 DEF NonceOfBlock, LastReceived
  <2>1. NonceGood(w, b, v, read[q].since)
    BY <1>3 DEF Answered, ValueGood
  <2>2. b \in 2 .. read[q].since
    BY <1>3 DEF Existed
  <2> QED BY <1>4, <2>1, <2>2 DEF NonceGood
<1>7. LatestNonceFresh
  <2> SUFFICES ASSUME NEW q \in Readers, Answered(q, "nonce"), read[q].b = 0
               PROVE  read[q].v >= NonceAt(read[q].start - NonceTtl - MaxDuration)
    BY DEF LatestNonceFresh
  <2>1. FreshSince(w, read[q].v, FreshFrom(read[q])) /\ read[q].v >= 0
    BY <1>3 DEF Answered
  <2>2. FreshFrom(read[q]) \in Int
    BY <1>3, AccountBounds DEF FreshFrom
  <2>3. w.nonces[FreshFrom(read[q])] = NonceAt(FreshFrom(read[q]))
    BY <1>1, <1>2, <2>2, WorldFacts
  <2> QED BY <2>1, <2>3 DEF FreshSince, FreshFrom
<1> QED BY <1>2, <1>5, <1>6, <1>7 DEF AccountsRight

(* Balances and nonces are those of the block asked for, up to the caches  *)
(* and to what the mirror node tells (AccountService, eth.ts).             *)
THEOREM AccountsAreRight == AccountSpec => []AccountsRight
<1>1. AccountInit => AccountInv
  BY AccountsStart
<1>2. AccountInv /\ [AccountNext]_accountVars => AccountInv'
  BY AccountsKeep
<1>3. AccountInv => AccountsRight
  BY AccountsAreGood
<1> QED BY <1>1, <1>2, <1>3, PTL DEF AccountSpec
============================================================================
