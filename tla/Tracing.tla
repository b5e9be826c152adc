------------------------------- MODULE Tracing -------------------------------
(***************************************************************************)
(* debug_traceTransaction and debug_traceBlockByNumber, for one block and  *)
(* its transactions.  The transactions of a block are traced at the same   *)
(* time, each with several look-ups, and the first that fails fails the    *)
(* block while the others go on.  The mirror node writes a transaction's   *)
(* result and its actions at different moments.  Answers are cached, and   *)
(* so are the states before each transaction; a cached value can be gone   *)
(* at any time.                                                            *)
(***************************************************************************)
EXTENDS Integers, FiniteSets

CONSTANTS
  Tracers,      \* requests being processed at the same time
  TracedTxs,    \* transactions
  Touches,      \* Touches[t]: the addresses in the actions of t
  TopTouches,   \* TopTouches[t]: those in its action of depth 0
  TraceParams,  \* what is asked for
  MaxTraces     \* bound on the requests

Addresses == UNION {Touches[t] : t \in TracedTxs}

ASSUME TracingConstants ==
  /\ \A t \in TracedTxs : TopTouches[t] # {} /\ TopTouches[t] \subseteq Touches[t]
  /\ TraceParams # {}
  /\ TraceParams \subseteq [op : {"block", "tx"}, tx : TracedTxs,
                            tracer : {"call", "prestate", "opcode"}, top : BOOLEAN]
  /\ MaxTraces \in Nat

VARIABLES
  debugApi,      \* DEBUG_API_ENABLED
  opcodeLogger,  \* OPCODELOGGER_ENABLED
  blockTxs,      \* the transactions of the block
  wrongNonce,    \* those that failed for their nonce
  mature,        \* those whose result is written in full
  acted,         \* those whose actions are written
  traceCache,    \* traceCache[p]: the cached answer
  stateCache,    \* stateCache[<<t, top>>]: the cached states before t
  tracing,       \* the requests
  traces,        \* how many there were
  tooEarly,      \* history: transactions whose actions were read before they were written
  unresolved     \* history: <<t, a>> when the look-up of address a for t failed

traceVars == <<debugApi, opcodeLogger, blockTxs, wrongNonce, mature, acted, traceCache,
               stateCache, tracing, traces, tooEarly, unresolved>>

NoStates == {"none"}  \* not a set of addresses
Absent == [kind |-> "absent", touched |-> {}]
NoTxs == [t \in TracedTxs |-> Absent]
Trace(kind, txs) == [kind |-> kind, txs |-> txs]
NoTrace == Trace("none", NoTxs)
NoWork == [at |-> "none", actions |-> "unread", result |-> "unread", left |-> {}, touched |-> {}]
SomeTraceParam == CHOOSE p \in TraceParams : TRUE
IdleTrace == [pc |-> "idle", param |-> SomeTraceParam, answer |-> NoTrace,
              work |-> [t \in TracedTxs |-> NoWork]]

TraceAnswers == [kind : {"none", "error", "opcodes", "traces"},
                 txs : [TracedTxs -> [kind : {"absent", "null", "calls", "states"},
                                      touched : SUBSET Addresses]]]

TraceTypeOK ==
  /\ debugApi \in BOOLEAN /\ opcodeLogger \in BOOLEAN
  /\ blockTxs \subseteq TracedTxs
  /\ wrongNonce \subseteq blockTxs /\ mature \subseteq blockTxs /\ acted \subseteq blockTxs
  /\ traceCache \in [TraceParams -> TraceAnswers]
  /\ \A p \in TraceParams : traceCache[p].kind # "error"
  /\ stateCache \in [TracedTxs \X BOOLEAN -> (SUBSET Addresses) \cup {NoStates}]
  /\ \A q \in Tracers :
       /\ tracing[q].pc \in {"idle", "block", "results", "opcodes", "txs", "done"}
       /\ tracing[q].param \in TraceParams
       /\ tracing[q].answer \in TraceAnswers
       /\ tracing[q].work \in [TracedTxs ->
            [at : {"none", "cache", "reading", "entities", "done", "failed"},
             actions : {"unread", "some", "none"}, result : {"unread", "found", "null"},
             left : SUBSET Addresses, touched : SUBSET Addresses]]
  /\ traces \in 0..MaxTraces
  /\ tooEarly \subseteq TracedTxs
  /\ unresolved \subseteq TracedTxs \X Addresses

TracingInit ==
  /\ debugApi \in BOOLEAN /\ opcodeLogger \in BOOLEAN
  /\ blockTxs \in SUBSET TracedTxs
  /\ wrongNonce \in SUBSET blockTxs
  /\ mature = {} /\ acted = {}
  /\ traceCache = [p \in TraceParams |-> NoTrace]
  /\ stateCache = [k \in TracedTxs \X BOOLEAN |-> NoStates]
  /\ tracing = [q \in Tracers |-> IdleTrace]
  /\ traces = 0
  /\ tooEarly = {} /\ unresolved = {}

KeepConfig == UNCHANGED <<debugApi, opcodeLogger, blockTxs, wrongNonce>>
KeepMirror == UNCHANGED <<mature, acted>>
KeepHistory == UNCHANGED <<tooEarly, unresolved>>

\* the mirror node completes the result of a transaction, or writes its actions
Written ==
  /\ \/ \E t \in blockTxs \ mature : mature' = mature \cup {t} /\ UNCHANGED acted
     \/ \E t \in blockTxs \ acted : acted' = acted \cup {t} /\ UNCHANGED mature
  /\ KeepConfig /\ KeepHistory /\ UNCHANGED <<traceCache, stateCache, tracing, traces>>

-----------------------------------------------------------------------------
(* A request                                                               *)

\* the block's transactions but those with a wrong nonce, or the one asked for
TracedBy(q) ==
  IF tracing[q].param.op = "block" THEN blockTxs \ wrongNonce ELSE {tracing[q].param.tx}

\* some look-ups go on after the request has failed
Working(q) == \E t \in TracedTxs : tracing[q].work[t].at \notin {"none", "done", "failed"}

NotTraced(p) ==
  \/ ~debugApi
  \/ p.op = "tx" /\ p.tracer = "prestate"
  \/ p.op = "tx" /\ p.tracer = "opcode" /\ ~opcodeLogger

\* mutant: the transactions with a wrong nonce are traced too
StartsAll(q, p) ==
  [t \in TracedTxs |-> IF t \in IF p.op = "block" THEN blockTxs ELSE {p.tx}
     THEN [NoWork EXCEPT !.at = IF p.tracer = "call" THEN "reading" ELSE "cache"] ELSE NoWork]

\* the traces begin: callTracer with its look-ups, prestateTracer with its cache
Started(q, p) ==
  [t \in TracedTxs |-> IF t \in IF p.op = "block" THEN blockTxs \ wrongNonce ELSE {p.tx}
     THEN [NoWork EXCEPT !.at = IF p.tracer = "call" THEN "reading" ELSE "cache"] ELSE NoWork]

AnswersTrace(q, answer) == tracing' = [tracing EXCEPT ![q].pc = "done", ![q].answer = answer]
FailsWith == Trace("error", NoTxs)

\* the cache decorator keeps what is returned, not what is thrown
Returned(q, answer) ==
  /\ AnswersTrace(q, answer)
  /\ traceCache' = [traceCache EXCEPT ![tracing[q].param] = answer]

\* mutant: errors are cached as well
FailsCached(q) == Returned(q, FailsWith)

Fails(q) == AnswersTrace(q, FailsWith) /\ UNCHANGED traceCache

trace(q, p) ==
  LET asked == [IdleTrace EXCEPT !.param = p] IN
  /\ tracing[q].pc \in {"idle", "done"} /\ ~Working(q)
  /\ traces < MaxTraces
  /\ traces' = traces + 1
  /\ tracing' \in {[tracing EXCEPT ![q] = r] : r \in
       (IF traceCache[p].kind # "none"
        THEN {[asked EXCEPT !.pc = "done", !.answer = traceCache[p]]} ELSE {}) \cup
       (IF NotTraced(p) THEN {[asked EXCEPT !.pc = "done", !.answer = FailsWith]}
        ELSE {CASE p.op = "block" -> [asked EXCEPT !.pc = "block"]
                [] p.op = "tx" /\ p.tracer = "opcode" -> [asked EXCEPT !.pc = "opcodes"]
                [] OTHER -> [asked EXCEPT !.pc = "txs", !.work = Started(q, p)]})}
  /\ KeepConfig /\ KeepMirror /\ KeepHistory /\ UNCHANGED <<traceCache, stateCache>>

\* the block may be missing, or its look-up fail
ReadTracedBlock(q) ==
  /\ tracing[q].pc = "block"
  /\ \/ tracing' = [tracing EXCEPT ![q].pc = "results"]
     \/ AnswersTrace(q, FailsWith)
  /\ KeepConfig /\ KeepMirror /\ KeepHistory /\ UNCHANGED <<traceCache, stateCache, traces>>

\* the results of the block's transactions, refused while one of them is immature
ReadResults(q) ==
  LET p == tracing[q].param IN
  /\ tracing[q].pc = "results"
  /\ \/ Fails(q)
     \/ /\ blockTxs \subseteq mature
        /\ IF p.tracer = "opcode" \/ blockTxs \subseteq wrongNonce
           THEN Returned(q, Trace("traces", NoTxs))
           ELSE /\ tracing' = [tracing EXCEPT ![q].pc = "txs", ![q].work = Started(q, p)]
                /\ UNCHANGED traceCache
  /\ KeepConfig /\ KeepMirror /\ KeepHistory /\ UNCHANGED <<stateCache, traces>>

callOpcodeLogger(q) ==
  /\ tracing[q].pc = "opcodes"
  /\ \/ Fails(q)
     \/ tracing[q].param.tx \in mature /\ Returned(q, Trace("opcodes", NoTxs))
  /\ KeepConfig /\ KeepMirror /\ KeepHistory /\ UNCHANGED <<stateCache, traces>>

\* Promise.all: the answer is there with the last of the traces
AllTraced(q) ==
  LET found == [t \in TracedTxs |->
        IF tracing[q].work[t].at # "done" THEN Absent
        ELSE [kind |-> IF tracing[q].param.tracer = "prestate" THEN "states"
                       ELSE IF tracing[q].work[t].actions = "none" THEN "null" ELSE "calls",
              touched |-> tracing[q].work[t].touched]] IN
  /\ tracing[q].pc = "txs"
  /\ ~Working(q)
  /\ IF tracing[q].param.op = "tx" /\ found[tracing[q].param.tx].kind = "null"
     THEN AnswersTrace(q, Trace("traces", found)) /\ UNCHANGED traceCache
     ELSE Returned(q, Trace("traces", found))
  /\ KeepConfig /\ KeepMirror /\ KeepHistory /\ UNCHANGED <<stateCache, traces>>

-----------------------------------------------------------------------------
(* The trace of one transaction                                            *)

Working1(q, t, w) == tracing' = [tracing EXCEPT ![q].work[t] = w]
Traces1(q, t, touched) ==
  Working1(q, t, [tracing[q].work[t] EXCEPT !.at = "done", !.touched = touched])

\* Promise.all: the first failure is the answer, whatever the other traces come to
Fails1(q, t) ==
  tracing' = [tracing EXCEPT ![q].work[t].at = "failed",
    ![q].pc = "done", ![q].answer = IF @.kind = "none" THEN FailsWith ELSE @]

Involved(t, top) == IF top THEN TopTouches[t] ELSE Touches[t]
KeepTraces == KeepConfig /\ KeepMirror /\ UNCHANGED <<traceCache, traces>>

\* mutant: the cached states are found whatever onlyTopCall
KeyOfHash(t, top) == <<t, FALSE>>

StateKey(t, top) == <<t, top>>

CachedStates(q, t) ==
  LET cached == stateCache[StateKey(t, tracing[q].param.top)] IN
  /\ tracing[q].work[t].at = "cache"
  /\ \/ cached # NoStates /\ Traces1(q, t, cached)
     \/ Working1(q, t, [tracing[q].work[t] EXCEPT !.at = "reading"])
  /\ KeepTraces /\ KeepHistory /\ UNCHANGED stateCache

\* not found is no actions: the trace is null, the states are none
ReadActions(q, t) ==
  LET w == tracing[q].work[t]
      read == [w EXCEPT !.actions = IF t \in acted THEN "some" ELSE "none"] IN
  /\ w.at = "reading" /\ w.actions = "unread"
  /\ \/ Fails1(q, t) /\ UNCHANGED tooEarly
     \/ /\ Working1(q, t,
             CASE tracing[q].param.tracer = "call" -> read
               [] tracing[q].param.tracer = "prestate" /\ t \in acted ->
                    [read EXCEPT !.at = "entities", !.left = Involved(t, tracing[q].param.top)]
               [] OTHER -> [read EXCEPT !.at = "done"])
        /\ tooEarly' = IF t \in acted THEN tooEarly ELSE tooEarly \cup {t}
  /\ KeepTraces /\ UNCHANGED <<stateCache, unresolved>>

\* beside the actions; a result that is still immature when the retries end is an error
ReadTracedResult(q, t) ==
  LET w == tracing[q].work[t] IN
  /\ w.at = "reading" /\ w.result = "unread" /\ tracing[q].param.tracer = "call"
  /\ \/ Fails1(q, t)
     \/ t \notin blockTxs /\ Working1(q, t, [w EXCEPT !.result = "null"])
     \/ t \in mature /\ Working1(q, t, [w EXCEPT !.result = "found"])
  /\ KeepTraces /\ KeepHistory /\ UNCHANGED stateCache

\* formatActionsResult: addresses that cannot be resolved are left as they are, but the code
\* of a created contract must be found
FormatCalls(q, t) ==
  LET w == tracing[q].work[t] IN
  /\ w.at = "reading" /\ w.actions # "unread" /\ w.result # "unread"
  /\ \/ (w.result = "null" \/ w.actions = "some") /\ Fails1(q, t)
     \/ w.result = "found" /\ w.actions = "none" /\ Traces1(q, t, {})
     \/ w.result = "found" /\ w.actions = "some" /\ Traces1(q, t, Involved(t, tracing[q].param.top))
  /\ KeepTraces /\ KeepHistory /\ UNCHANGED stateCache

\* the entity, and a contract's balance and storage; an address whose look-up fails is left out
ReadEntity(q, t, a) ==
  /\ tracing[q].work[t].at = "entities" /\ a \in tracing[q].work[t].left
  /\ \/ /\ Working1(q, t, [tracing[q].work[t] EXCEPT !.left = @ \ {a}, !.touched = @ \cup {a}])
        /\ UNCHANGED unresolved
     \/ /\ Working1(q, t, [tracing[q].work[t] EXCEPT !.left = @ \ {a}])
        /\ unresolved' = unresolved \cup {<<t, a>>}
  /\ KeepTraces /\ UNCHANGED <<stateCache, tooEarly>>

StoreStates(q, t) ==
  LET w == tracing[q].work[t] IN
  /\ w.at = "entities" /\ w.left = {}
  /\ stateCache' = [stateCache EXCEPT ![StateKey(t, tracing[q].param.top)] = w.touched]
  /\ Traces1(q, t, w.touched)
  /\ KeepTraces /\ KeepHistory

TracingNext ==
  \/ Written
  \/ \E q \in Tracers :
       \/ \E p \in TraceParams : trace(q, p)
       \/ ReadTracedBlock(q) \/ ReadResults(q) \/ callOpcodeLogger(q) \/ AllTraced(q)
       \/ \E t \in TracedTxs :
            \/ CachedStates(q, t) \/ ReadActions(q, t) \/ ReadTracedResult(q, t)
            \/ FormatCalls(q, t) \/ StoreStates(q, t)
            \/ \E a \in Addresses : ReadEntity(q, t, a)

TracingSpec == TracingInit /\ [][TracingNext]_traceVars

-----------------------------------------------------------------------------
(* Correctness                                                             *)

TracesOf(q, tracer) ==
  tracing[q].pc = "done" /\ tracing[q].answer.kind = "traces" /\ tracing[q].param.tracer = tracer

\* A call trace has every transaction of the block but those with a wrong nonce, and every
\* call of each; or null instead of the calls if the actions were once read before the mirror
\* node had written them: that answer is cached like any other (callTracer, traceBlockByNumber).
CallTraceIsWhole ==
  \A q \in Tracers : TracesOf(q, "call") =>
    \A t \in TracedTxs :
      LET found == tracing[q].answer.txs[t] IN
      /\ (found = Absent) = (t \notin TracedBy(q))
      /\ found.kind = "calls" => found.touched = Involved(t, tracing[q].param.top)
      /\ found.kind = "null" => t \in tooEarly

\* The states before a transaction are those of every address in its actions, of the first one
\* only if asked so, but for addresses whose look-up once failed: what is missing is cached as
\* missing (prestateTracer).
StatesMissOnlyFailed ==
  \A q \in Tracers : TracesOf(q, "prestate") =>
    \A t \in TracedBy(q) :
      LET found == tracing[q].answer.txs[t].touched
          asked == Involved(t, tracing[q].param.top) IN
      /\ found \subseteq asked
      /\ (\A a \in asked \ found : <<t, a>> \in unresolved) \/ (found = {} /\ t \in tooEarly)

\* Traces are whole but for what could not be looked up (DebugImpl).
TracesRight == TraceTypeOK /\ CallTraceIsWhole /\ StatesMissOnlyFailed
=============================================================================
