---------------------------- MODULE MCServices -----------------------------
(***************************************************************************)
(* Instances of components that share no state: the population of the      *)
(* preconfigured spending plans, the two servers with their rate limiter,  *)
(* the cache service, the methods behind the cache decorator, the prechecks*)
(* of a transaction and the estimates of its gas, the booking of expenses, *)
(* the pages of the logs, the parameters of a request.  Interleaving them  *)
(* would multiply their states and show nothing, so every behaviour runs   *)
(* one.                                                                    *)
(***************************************************************************)
EXTENDS SpendingPlans, Gateway, CacheService, CachedMethods, GasEstimates, Expenses, LogPages,
        Parameters

CONSTANTS p1, p2, a1, i1, call, blocked, single, appends, query, x, y, long, zero

VARIABLE part

Plans(of1, of2) == [q \in PresetPlans |-> IF q = p1 THEN of1 ELSE of2]
SomeConfigs == {Plans({i1}, {}), Plans({a1}, {i1})}

SomeTotal == [m \in Methods |-> IF m = call THEN 1 ELSE 2]

Req(m, form) == [method |-> m, form |-> form]
SomeBodies ==
  UNION {{[via |-> v, batch |-> FALSE, items |-> <<Req(call, "ok")>>],
          [via |-> v, batch |-> FALSE, items |-> <<Req(blocked, "bad params")>>],
          [via |-> v, batch |-> TRUE, items |-> <<Req(call, "ok"), Req(blocked, "ok")>>],
          [via |-> v, batch |-> TRUE,
           items |-> <<Req(call, "ok"), Req(call, "null"), Req(call, "invalid")>>]} :
         v \in {"http", "ws"}}

Asking(m, blocks) == [method |-> m, blocks |-> blocks]
SomeQuestions ==
  {Asking("call", <<InObject>>), Asking("getStorageAt", <<2>>), Asking("getBlockReceipts", <<Tag>>),
   Asking("blockNumber", <<>>), Asking("getBlockByHash", <<3>>), Asking("getLogs", <<1, 3>>),
   Asking("getLogs", <<1, Tag>>), Asking("getLogs", <<Missing, Missing>>),
   Asking("getLogs", <<2, Missing>>)}

Account(exists, nonce, balance) == [exists |-> exists, nonce |-> nonce, balance |-> balance]
SomeSenders ==
  {Account(FALSE, 0, 0), Account(TRUE, 0, 8), Account(TRUE, 0, 9), Account(TRUE, 1, 30)}

PlainTx == [nonce |-> 0, value |-> 2, price |-> 4, gas |-> 4, zeros |-> 0, nonzeros |-> 1,
            rest |-> 2, type |-> 2, chain |-> "own", deployer |-> FALSE, to |-> TRUE]
SomeTxs ==
  {PlainTx, [PlainTx EXCEPT !.nonce = 1, !.price = 8, !.gas = 5],
   [PlainTx EXCEPT !.value = 1, !.to = FALSE], [PlainTx EXCEPT !.price = 1, !.deployer = TRUE],
   [PlainTx EXCEPT !.price = 1, !.to = FALSE, !.chain = "unprotected"],
   [PlainTx EXCEPT !.chain = "other"], [PlainTx EXCEPT !.nonzeros = 0, !.zeros = 4],
   [PlainTx EXCEPT !.type = 3, !.rest = 4], [PlainTx EXCEPT !.gas = 13, !.nonzeros = 5]}

Estimate(to, zeros, nonzeros) ==
  [to |-> to, input |-> FALSE, zeros |-> zeros, nonzeros |-> nonzeros, hasValue |-> TRUE,
   priced |-> FALSE]
SomeEstimates ==
  {Estimate(TRUE, 0, 0), [Estimate(TRUE, 0, 0) EXCEPT !.hasValue = FALSE], Estimate(TRUE, 1, 0),
   Estimate(TRUE, 1, 1), Estimate(TRUE, 0, 3), Estimate(FALSE, 1, 3), Estimate(FALSE, 0, 0),
   [Estimate(TRUE, 0, 2) EXCEPT !.input = TRUE], [Estimate(FALSE, 1, 2) EXCEPT !.priced = TRUE]}

KindOfJob ==
  [j \in Jobs |-> CASE j = single -> "transaction" [] j = appends -> "appends" [] j = query -> "query"]

LogOf(address, at, index) == [of |-> address, at |-> at, index |-> index]
SomeLogs ==
  [address \in {x, y, long, zero} |->
     CASE address = x -> <<LogOf(x, 1, 0), LogOf(x, 2, 1), LogOf(x, 3, 0)>>
       [] address = y -> <<LogOf(y, 2, 0), LogOf(y, 2, 2)>>
       [] address = long -> [n \in 1..7 |-> LogOf(long, n, 0)]
       [] address = zero -> <<>>]
SomeLogQueries == {<<x>>, <<y, x>>, <<zero, y>>, <<y, y>>, <<long>>, <<x, long>>}

\* a value of every kind, for every type of parameter
AsObject(pairs) ==
  Object([f \in {p[1] : p \in pairs} |-> (CHOOSE p \in pairs : p[1] = f)[2]])
Strings == Hexes \cup Tags \cup {"txid", "text"}
PlainValues ==
  {Simple(k) : k \in Strings \cup {"null", "boolean"}}
  \cup {Array(<<>>), Array(<<Simple("byte")>>), Array(<<Simple("hash")>>),
        Array(<<Simple("address"), Simple("address")>>), Object(NoFields)}

\* objects of at most two fields, with right and wrong values
ObjectsOf(fields) ==
  {AsObject({p, q}) : p \in fields, q \in fields} \cup {Object(NoFields), Array(<<>>)}
Unknown == {<<"unknown", Simple("text")>>}
FilterObjects ==
  ObjectsOf({<<"blockHash", Simple("hash")>>, <<"fromBlock", Simple("latest")>>,
             <<"fromBlock", Simple("byte")>>, <<"toBlock", Simple("latest")>>,
             <<"toBlock", Simple("hash")>>, <<"address", Simple("address")>>,
             <<"address", Array(<<Simple("address"), Array(<<Simple("text")>>)>>)>>,
             <<"topics", Array(<<Simple("null"), Array(<<Simple("hash")>>)>>)>>,
             <<"topics", Simple("null")>>} \cup Unknown)
TransactionObjects ==
  ObjectsOf({<<"from", Simple("address")>>, <<"to", Simple("null")>>, <<"gas", Simple("nibble")>>,
             <<"gas", Simple("null")>>, <<"data", Simple("nibble")>>, <<"data", Simple("byte")>>,
             <<"accessList", Array(<<>>)>>} \cup Unknown)
BlockObjects ==
  ObjectsOf({<<"blockHash", Simple("hash")>>, <<"blockNumber", Simple("byte")>>,
             <<"blockNumber", Simple("latest")>>, <<"blockHash", Simple("null")>>} \cup Unknown)
TracerConfigs ==
  ObjectsOf({<<"onlyTopCall", Simple("boolean")>>, <<"disableStack", Simple("boolean")>>,
             <<"disableStack", Simple("text")>>} \cup Unknown)
TracerObjects ==
  ObjectsOf({<<"tracer", Simple(t)>> : t \in TracerType \cup {"text"}}
            \cup {<<"tracerConfig", c>> : c \in TracerConfigs \cup {Simple("null")}} \cup Unknown)

ValuesFor(type) ==
  CASE type = "filter" -> FilterObjects \cup {Simple("text"), Simple("null")}
    [] type = "transaction" -> TransactionObjects \cup {Simple("text"), Simple("null")}
    [] type = "blockParams" -> BlockObjects \cup PlainValues
    [] type = "tracerConfigWrapper" -> TracerObjects \cup {Simple("text"), Simple("null")}
    [] OTHER -> PlainValues

\* a few of them, to combine with all those of another position
FewFor(type) ==
  {Simple(k) : k \in {"hash", "address", "byte", "latest", "text"}}
  \cup CASE type = "transaction" -> {AsObject({<<"to", Simple("null")>>})}
         [] type = "array" -> {Array(<<>>)}
         [] type = "boolean" -> {Simple("boolean")}
         [] OTHER -> {}

ParamsFor(m) ==
  LET rules == RpcMethods[m].rules
      All(i) == ValuesFor(rules[i].type)
      Few(i) == FewFor(rules[i].type)
      Upto(n) ==
        CASE n = 0 -> {<<>>}
          [] n = 1 -> {<<v>> : v \in All(1)}
          [] n = 2 -> {<<v, w>> : v \in All(1), w \in Few(2)}
                      \cup {<<v, w>> : v \in Few(1), w \in All(2)}
          [] n = 3 -> {<<v, w, z>> : v \in Few(1), w \in Few(2), z \in All(3)}
                      \cup {<<v, w, z>> : v \in Few(1), w \in All(2), z \in Few(3)}
  IN UNION {Upto(n) : n \in 0 .. Len(rules)}
     \cup {[i \in 1 .. Len(rules) + 1 |-> Simple("byte")]}

SomeCalls == UNION {{[method |-> m, params |-> ps] : ps \in ParamsFor(m)} : m \in DOMAIN RpcMethods}

servicesVars ==
  <<part, planVars, gwVars, cacheVars, cachedVars, gasVars, expenseVars, logVars, parameterVars>>

ServicesInit ==
  /\ part \in {"plans", "gateway", "cache", "methods", "prechecks", "estimates", "expenses", "logs",
               "parameters"}
  /\ SpendingPlansInit
  /\ GatewayInit
  /\ CacheInit
  /\ CachedMethodsInit
  /\ PrecheckInit
  /\ EstimateInit
  /\ ExpensesInit
  /\ LogPagesInit
  /\ ParametersInit
  /\ config = Plans({i1}, {})
  /\ server = IF store = "LRU" THEN "http" ELSE "ws"
  /\ part # "gateway" => store = "LRU"
  /\ part # "cache" => shared
  /\ part # "prechecks" => sender = Account(FALSE, 0, 0) /\ netPrice = 2
  /\ part # "expenses" => fromConsensus
  /\ part # "logs" => addressList = <<x>>

PlansPart ==
  /\ part = "plans" /\ SpendingPlansNext
  /\ UNCHANGED <<part, gwVars, cacheVars, cachedVars, gasVars, expenseVars, logVars, parameterVars>>

GatewayPart ==
  /\ part = "gateway" /\ GatewayNext
  /\ UNCHANGED <<part, planVars, cacheVars, cachedVars, gasVars,
                 expenseVars, logVars, parameterVars>>

CachePart ==
  /\ part = "cache" /\ CacheNext
  /\ UNCHANGED <<part, planVars, gwVars, cachedVars, gasVars, expenseVars, logVars, parameterVars>>

MethodsPart ==
  /\ part = "methods" /\ CachedMethodsNext
  /\ UNCHANGED <<part, planVars, gwVars, cacheVars, gasVars, expenseVars, logVars, parameterVars>>

PrechecksPart ==
  /\ part = "prechecks" /\ PrecheckNext
  /\ UNCHANGED <<part, planVars, gwVars, cacheVars, cachedVars, estimateVars,
                 expenseVars, logVars, parameterVars>>

EstimatesPart ==
  /\ part = "estimates" /\ GasNext
  /\ UNCHANGED <<part, planVars, gwVars, cacheVars, cachedVars, expenseVars, logVars,
                 parameterVars>>

ExpensesPart ==
  /\ part = "expenses" /\ ExpensesNext
  /\ UNCHANGED <<part, planVars, gwVars, cacheVars, cachedVars, gasVars, logVars, parameterVars>>

LogsPart ==
  /\ part = "logs" /\ LogPagesNext
  /\ UNCHANGED <<part, planVars, gwVars, cacheVars, cachedVars, gasVars, expenseVars,
                 parameterVars>>

ParametersPart ==
  /\ part = "parameters" /\ ParametersNext
  /\ UNCHANGED <<part, planVars, gwVars, cacheVars, cachedVars, gasVars, expenseVars, logVars>>

ServicesNext ==
  \/ PlansPart \/ GatewayPart \/ CachePart \/ MethodsPart
  \/ PrechecksPart \/ EstimatesPart \/ ExpensesPart \/ LogsPart \/ ParametersPart

ServicesSpec == ServicesInit /\ [][ServicesNext]_servicesVars
=============================================================================
