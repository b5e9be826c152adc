----------------------------- MODULE Parameters ------------------------------
(***************************************************************************)
(* From the parameters of a request to the arguments of the method's       *)
(* handler: the validation against the rules of the decorators, position   *)
(* after position, which also strips objects in place, and the layout that *)
(* adds the request's details.  A JSON value is abstracted to its kind:    *)
(* a string to the patterns it matches, an array to its items, an object   *)
(* to its fields.                                                          *)
(***************************************************************************)
EXTENDS Integers, Sequences

CONSTANT Calls  \* the requests: a method and its parameters

VARIABLE received  \* the request and how far it got

parameterVars == <<received>>

Value(kind, items, fields) == [kind |-> kind, items |-> items, fields |-> fields]
NoFields == [f \in {} |-> {}]
Simple(kind) == Value(kind, <<>>, NoFields)
Array(items) == Value("array", items, NoFields)
Object(fields) == Value("object", <<>>, fields)

\* two tables in one
Joined(f, g) == [k \in DOMAIN f \cup DOMAIN g |-> IF k \in DOMAIN f THEN f[k] ELSE g[k]]

Undefined == Simple("undefined")
Details == Simple("requestDetails")

-----------------------------------------------------------------------------
(* The types of the validator                                              *)

\* strings: 64 digits, 40 digits, a number of two digits, one of one digit, one with a leading
\* zero, more than 64 digits, no digit; tags; a transaction id; the names of the tracers
Hexes == {"hash", "address", "byte", "nibble", "padded", "bytes", "0x"}
Numbers == {"byte", "nibble"}
NON_CACHABLE_BLOCK_PARAMS == {"latest"}
Tags == {"earliest"} \cup NON_CACHABLE_BLOCK_PARAMS
TracerType == {"callTracer", "opcodeLogger", "prestateTracer"}

Pattern ==
  [address |-> {"address"}, blockHash |-> {"hash"}, transactionHash |-> {"hash"},
   topicHash |-> {"hash"}, blockNumber |-> Numbers, hex |-> Hexes,
   hex64 |-> Hexes \ {"bytes", "0x"}, hexEvenLength |-> Hexes \ {"nibble"},
   transactionId |-> {"txid"}]

\* a regular expression tests the string of a value: an array of one string is that string
AsString(v) == IF v.kind = "array" /\ Len(v.items) = 1 THEN v.items[1].kind ELSE v.kind

Matches(type, v) ==
  CASE type = "boolean" -> v.kind = "boolean"
    [] type = "tracerType" -> v.kind \in TracerType
    [] type = "blockNumber" -> AsString(v) \in Pattern.blockNumber \/ v.kind \in Tags
    [] type = "topicHash" -> AsString(v) \in Pattern.topicHash \/ v.kind = "null"
    [] type = "hexEvenLength" -> v.kind \in Pattern.hexEvenLength
    [] OTHER -> AsString(v) \in Pattern[type]

\* validateArray of param.flat()
AllMatch(type, v) ==
  \A i \in DOMAIN v.items :
    IF v.items[i].kind = "array"
    THEN \A j \in DOMAIN v.items[i].items : Matches(type, v.items[i].items[j])
    ELSE Matches(type, v.items[i])

AddressFilter(v) == IF v.kind = "array" THEN AllMatch("address", v) ELSE Matches("address", v)

CallTracerOptions == {"onlyTopCall"}
OpcodeLoggerOptions == {"disableMemory", "enableMemory", "disableStack", "disableStorage"}

\* either configuration, each with at least one of its options, or an empty one
TracerConfig(v) ==
  /\ v.kind \in {"object", "array"}
  /\ \A f \in DOMAIN v.fields \cap (CallTracerOptions \cup OpcodeLoggerOptions) :
       Matches("boolean", v.fields[f])
  /\ \/ v.items = <<>> /\ DOMAIN v.fields = {}
     \/ DOMAIN v.fields \cap (CallTracerOptions \cup OpcodeLoggerOptions) # {}

FieldTest(type, v) ==
  CASE type = "addressFilter" -> AddressFilter(v)
    [] type = "topics" -> v.kind = "array" /\ AllMatch("topicHash", v)
    [] type = "array" -> v.kind = "array"
    [] type = "tracerConfig" -> TracerConfig(v)
    [] OTHER -> Matches(type, v)

-----------------------------------------------------------------------------
(* The schemas of the objects                                              *)

BlockHashObject == [blockHash |-> "blockHash"]
BlockNumberObject == [blockNumber |-> "blockNumber"]
FilterObject ==
  [blockHash |-> "blockHash", fromBlock |-> "blockNumber", toBlock |-> "blockNumber",
   address |-> "addressFilter", topics |-> "topics"]
TracerConfigWrapper == [tracer |-> "tracerType", tracerConfig |-> "tracerConfig"]
TransactionObject ==
  Joined([f \in {"gas", "gasPrice", "maxPriorityFeePerGas", "maxFeePerGas", "value", "type",
                 "chainId", "nonce", "input"} |-> "hex"],
         [from |-> "address", to |-> "address", data |-> "hexEvenLength", accessList |-> "array"])
NullableFields == {"to", "data"}

\* validateObject, after the check for unexpected properties where the schema has it
ValidObject(v, schema, nullable, unexpected) ==
  /\ v.kind = "object"
  /\ unexpected \/ DOMAIN v.fields \subseteq DOMAIN schema
  /\ \A f \in DOMAIN v.fields \cap DOMAIN schema :
       \/ v.fields[f].kind = "null" /\ f \in nullable
       \/ FieldTest(schema[f], v.fields[f])

BlockParams(v) ==
  \/ ValidObject(v, IF "blockHash" \in DOMAIN v.fields THEN BlockHashObject
                                                       ELSE BlockNumberObject, {}, FALSE)
  \/ Matches("blockNumber", v)

\* mutant: any combination of the fields
AnyFilter(v) == ValidObject(v, FilterObject, {}, FALSE)

Filter(v) ==
  /\ ~({"blockHash"} \subseteq DOMAIN v.fields
       /\ {"fromBlock", "toBlock"} \cap DOMAIN v.fields # {})
  /\ ValidObject(v, FilterObject, {}, FALSE)

Options(v) ==
  IF "tracerConfig" \in DOMAIN v.fields THEN DOMAIN v.fields["tracerConfig"].fields ELSE {}
NamesTracer(v, tracer) == "tracer" \in DOMAIN v.fields /\ v.fields["tracer"].kind = tracer

\* mutant: an option of the opcode logger is refused for the call tracer only
LooseWrapper(v) ==
  /\ ValidObject(v, TracerConfigWrapper, {}, FALSE)
  /\ DOMAIN v.fields # {}
  /\ Options(v) \cap CallTracerOptions # {} => ~NamesTracer(v, "opcodeLogger")
  /\ Options(v) \cap OpcodeLoggerOptions # {} => ~NamesTracer(v, "callTracer")

Wrapper(v) ==
  /\ ValidObject(v, TracerConfigWrapper, {}, FALSE)
  /\ DOMAIN v.fields # {}
  /\ Options(v) \cap CallTracerOptions # {} => ~NamesTracer(v, "opcodeLogger")
  /\ Options(v) \cap OpcodeLoggerOptions # {} => NamesTracer(v, "opcodeLogger")

Transaction(v) == ValidObject(v, TransactionObject, NullableFields, TRUE)

\* deleteUnknownProperties, in place
\* mutant: the properties stay
Unstripped(v) == v

Stripped(v) ==
  [v EXCEPT !.fields = [f \in DOMAIN v.fields \cap DOMAIN TransactionObject |-> v.fields[f]]]

Test(type, v) ==
  CASE type = "filter" -> Filter(v)
    [] type = "transaction" -> Transaction(v)
    [] type = "blockParams" -> BlockParams(v)
    [] type = "tracerConfigWrapper" -> Wrapper(v)
    [] type = "blockNumber|blockHash" -> Matches("blockNumber", v) \/ Matches("blockHash", v)
    [] type = "transactionHash|transactionId" ->
         Matches("transactionHash", v) \/ Matches("transactionId", v)
    [] OTHER -> FieldTest(type, v)

-----------------------------------------------------------------------------
(* The methods: the rules of their parameters, the parameters their handler*)
(* declares before the request's details, the layout, and the position the *)
(* cache decorator looks at for a tag (0: none; -1: the answer is not kept)*)

Required(type) == [type |-> type, required |-> TRUE]
Optional(type) == [type |-> type, required |-> FALSE]
Method(rules, layout, takes, skip) ==
  [rules |-> rules, layout |-> layout, takes |-> takes, skip |-> skip]

FeeMethods ==
  [feeHistory |-> Method(<<Required("hex"), Required("blockNumber"), Optional("array")>>,
                         "counted", 3, 2)]
EstimateMethods ==
  [estimateGas |-> Method(<<Required("transaction"), Optional("blockNumber")>>, "positions", 2, -1)]
FilterMethods ==
  Joined([m \in {"getFilterLogs", "getFilterChanges", "uninstallFilter"} |->
            Method(<<Required("hex")>>, "default", 1, -1)],
         [newFilter |-> Method(<<Required("filter")>>, "default", 1, -1)])
StateMethods ==
  Joined([m \in {"getBalance", "getCode"} |->
            Method(<<Required("address"), Required("blockNumber|blockHash")>>, "default", 2, 2)],
         [getStorageAt |-> Method(<<Required("address"), Required("hex64"),
                                    Required("blockNumber|blockHash")>>, "positions", 3, 3)])
BlockMethods ==
  [getBlockByHash |-> Method(<<Required("blockHash"), Required("boolean")>>, "default", 2, 0),
   getBlockTransactionCountByHash |-> Method(<<Required("blockHash")>>, "default", 1, 0),
   getBlockTransactionCountByNumber |-> Method(<<Required("blockNumber")>>, "default", 1, 1),
   getTransactionByBlockHashAndIndex |->
     Method(<<Required("blockHash"), Required("hex")>>, "default", 2, 0),
   getTransactionByBlockNumberAndIndex |->
     Method(<<Required("blockNumber"), Required("hex")>>, "default", 2, 1),
   getBlockByNumber |-> Method(<<Required("blockNumber"), Required("boolean")>>, "default", 2, 1)]
TransactionMethods ==
  [getTransactionCount |->
     Method(<<Required("address"), Required("blockNumber|blockHash")>>, "default", 2, 2),
   sendRawTransaction |-> Method(<<Required("hex")>>, "default", 1, -1),
   call |-> Method(<<Required("transaction"), Required("blockParams")>>, "default", 2, 2)]
LookUpMethods ==
  Joined([m \in {"getTransactionByHash", "getTransactionReceipt"} |->
            Method(<<Required("transactionHash")>>, "default", 1, 0)],
         [getLogs |-> Method(<<Required("filter")>>, "default", 1, 0),
          getBlockReceipts |-> Method(<<Required("blockNumber|blockHash")>>, "default", 1, 1)])
TraceMethods ==
  [traceTransaction |-> Method(<<Required("transactionHash|transactionId"),
                                 Optional("tracerConfigWrapper")>>, "positions", 2, 0),
   traceBlockByNumber |-> Method(<<Required("blockNumber"), Optional("tracerConfigWrapper")>>,
                                 "positions", 2, 1)]
\* methods of a constant answer, or of none
StaticMethods ==
  [m \in {"submitWork", "syncing", "getUncleByBlockHashAndIndex", "getUncleCountByBlockHash",
          "getUncleByBlockNumberAndIndex", "getUncleCountByBlockNumber", "hashrate",
          "accounts", "chainId", "mining", "maxPriorityFeePerGas"} |->
     Method(<<>>, "details", 0, -1)]
UnsupportedMethods ==
  [m \in {"getWork", "submitHashrate", "signTransaction", "sign", "sendTransaction",
          "protocolVersion", "coinbase", "blobBaseFee", "getProof", "createAccessList",
          "newPendingTransactionFilter"} |-> Method(<<>>, "details", 0, -1)]
\* answers about now
PresentMethods ==
  [blockNumber |-> Method(<<>>, "details", 0, 0), gasPrice |-> Method(<<>>, "details", 0, 0),
   newBlockFilter |-> Method(<<>>, "details", 0, -1)]

EthMethods ==
  Joined(Joined(Joined(FeeMethods, EstimateMethods), Joined(FilterMethods, StateMethods)),
         Joined(Joined(BlockMethods, TransactionMethods), LookUpMethods))
RpcMethods ==
  Joined(Joined(EthMethods, TraceMethods),
         Joined(Joined(StaticMethods, UnsupportedMethods), PresentMethods))

\* a parameter of a request, parsed: only objects have fields, nothing is undefined
Json(v) ==
  /\ v = Value(v.kind, v.items, v.fields)
  /\ v.fields = [f \in DOMAIN v.fields |-> v.fields[f]]
  /\ v.kind \notin {"undefined", "requestDetails"}
  /\ v.kind # "object" => DOMAIN v.fields = {}

ASSUME ParameterConstants ==
  /\ Calls # {}
  /\ \A c \in Calls :
       /\ c = [method |-> c.method, params |-> c.params]
       /\ c.method \in DOMAIN RpcMethods
       /\ c.params \in Seq({c.params[i] : i \in DOMAIN c.params})
       /\ \A i \in DOMAIN c.params : Json(c.params[i])

-----------------------------------------------------------------------------
(* A request                                                               *)

SomeCall == CHOOSE c \in Calls : TRUE

ParametersInit ==
  received = [pc |-> "waiting", call |-> SomeCall, at |-> 1, args |-> <<>>, kept |-> FALSE]

ReceiveCall ==
  /\ received.pc = "waiting"
  /\ \E c \in Calls : received' = [received EXCEPT !.pc = "validating", !.call = c]

RulesOf(r) == RpcMethods[r.call.method].rules

\* the rules are of a method that has them
TooManyParams(r) == RulesOf(r) # <<>> /\ Len(r.call.params) > Len(RulesOf(r))

ParamAt(r, i) == IF i <= Len(r.call.params) THEN r.call.params[i] ELSE Undefined

ValidParam(rule, v) ==
  \/ v = Undefined /\ ~rule.required
  \/ v.kind \notin {"undefined", "null"} /\ Test(rule.type, v)

RefuseCall ==
  /\ received.pc = "validating"
  /\ \/ TooManyParams(received)
     \/ /\ received.at <= Len(RulesOf(received))
        /\ ~ValidParam(RulesOf(received)[received.at], ParamAt(received, received.at))
  /\ received' = [received EXCEPT !.pc = "refused"]

\* mutant: every other position
EveryOther(i) == i + 2

NextPosition(i) == i + 1

PassParam ==
  /\ received.pc = "validating"
  /\ ~TooManyParams(received)
  /\ received.at <= Len(RulesOf(received))
  /\ LET rule == RulesOf(received)[received.at]
         v == ParamAt(received, received.at)
     IN /\ ValidParam(rule, v)
        /\ received' = [received EXCEPT
             !.at = NextPosition(@),
             !.call.params = IF rule.type = "transaction"
                             THEN [@ EXCEPT ![received.at] = Stripped(v)] ELSE @]

\* Number(params[0])
NumberOf(v) == IF AsString(v) = "0x" THEN Simple("NaN") ELSE Simple("number")

\* mutant: no custom layout for optional parameters
DefaultLayout(r) == Append(r.call.params, Details)

arrangeRpcParams(r) ==
  LET m == RpcMethods[r.call.method] IN
  CASE m.layout = "details" -> <<Details>>
    [] m.layout = "default" -> Append(r.call.params, Details)
    [] m.layout = "positions" -> Append([i \in 1..m.takes |-> ParamAt(r, i)], Details)
    [] m.layout = "counted" ->
         Append([i \in 1..m.takes |-> IF i = 1 THEN NumberOf(ParamAt(r, 1)) ELSE ParamAt(r, i)],
                Details)

\* mutant: the positions are counted after the method's name
SkipNext(m, args) ==
  /\ RpcMethods[m].skip > 0
  /\ args[RpcMethods[m].skip + 1].kind \in NON_CACHABLE_BLOCK_PARAMS \cup {"undefined"}

shouldSkipCachingForSingleParams(m, args) ==
  /\ RpcMethods[m].skip > 0
  /\ args[RpcMethods[m].skip].kind \in NON_CACHABLE_BLOCK_PARAMS \cup {"undefined"}

shouldSkipCachingForNamedParams(m, args) ==
  /\ m = "getLogs"
  /\ \E f \in DOMAIN args[1].fields \cap {"fromBlock", "toBlock"} :
       args[1].fields[f].kind \in NON_CACHABLE_BLOCK_PARAMS

InvokeHandler ==
  /\ received.pc = "validating"
  /\ ~TooManyParams(received)
  /\ received.at > Len(RulesOf(received))
  /\ LET m == received.call.method
         args == arrangeRpcParams(received)
     IN received' = [received EXCEPT
          !.pc = "invoked",
          !.args = args,
          !.kept = /\ RpcMethods[m].skip >= 0
                   /\ ~shouldSkipCachingForSingleParams(m, args)
                   /\ ~shouldSkipCachingForNamedParams(m, args)]

ParametersNext == ReceiveCall \/ RefuseCall \/ PassParam \/ InvokeHandler

ParametersSpec == ParametersInit /\ [][ParametersNext]_parameterVars

-----------------------------------------------------------------------------
(* What the handlers rely on                                               *)

Invoked == received.pc = "invoked"
ArgObjects ==
  {received.args[i] : i \in {j \in DOMAIN received.args : received.args[j].kind = "object"}}

\* The state of a request: at most one position past its rules.
ParametersTypeOK ==
  /\ received.pc \in {"waiting", "validating", "refused", "invoked"}
  /\ received.call.method \in DOMAIN RpcMethods
  /\ received.at \in 1 .. Len(RulesOf(received)) + 1
  /\ received.kept \in BOOLEAN

\* A handler finds the details of the request in the parameter it declares for them, and in the
\* ones before a parameter of the request or nothing: rules, layout and signature are written
\* at three places, and an optional parameter that is left out would move the details up
\* (arrangeRpcParams, eth.ts, debug.ts).
DetailsInPlace ==
  Invoked =>
    LET takes == RpcMethods[received.call.method].takes IN
    /\ Len(received.args) = takes + 1
    /\ \A i \in DOMAIN received.args : (received.args[i] = Details) <=> (i = takes + 1)

\* No answer is kept for a block that moves, by itself or as a field of a filter: the position
\* the cache decorator looks at is the one the rules give the block (a tag in the object of
\* eth_call is not seen by it).
MovingNotKept ==
  Invoked /\ received.kept =>
    \A i \in DOMAIN received.args :
      /\ received.args[i].kind \notin NON_CACHABLE_BLOCK_PARAMS
      /\ \A f \in {"fromBlock", "toBlock"} \cap DOMAIN received.args[i].fields :
           received.args[i].fields[f].kind \notin NON_CACHABLE_BLOCK_PARAMS

\* An object names blocks in one way: by a hash, by a number, or by a range.  The handlers look
\* at the hash first (validateBlockRangeAndAddTimestampToParams) or at the number
\* (extractBlockNumberOrTag), and would silently leave out the other.
BlocksNamedOnce ==
  Invoked =>
    \A v \in ArgObjects :
      LET names == DOMAIN v.fields \cap {"blockHash", "blockNumber", "fromBlock", "toBlock"} IN
      "blockHash" \in names \/ "blockNumber" \in names => \E f \in names : names = {f}

\* The tracer that a debug method starts, debug.ts:133 and :202.
TracerOf ==
  LET v == received.args[2] IN
  IF v = Undefined
  THEN IF received.call.method = "traceTransaction" THEN "opcodeLogger" ELSE "callTracer"
  ELSE IF "tracer" \in DOMAIN v.fields THEN v.fields["tracer"].kind
  ELSE IF received.call.method = "traceTransaction" THEN "opcodeLogger" ELSE "none"

\* An option of the opcode logger is given to the opcode logger alone, and an option of the call
\* tracer never to an opcode logger that was asked for by name.
OptionsOfTracer ==
  Invoked /\ received.call.method \in DOMAIN TraceMethods =>
    LET v == received.args[2] IN
    /\ Options(v) \cap OpcodeLoggerOptions # {} => TracerOf = "opcodeLogger"
    /\ Options(v) \cap CallTracerOptions # {} => ~NamesTracer(v, "opcodeLogger")

KnownFields ==
  DOMAIN FilterObject \cup DOMAIN TransactionObject \cup {"blockNumber", "tracer", "tracerConfig"}

\* The objects that reach a handler hold fields of their schema only, none of them null but the
\* two that may be: they are spread into the requests to the mirror node and into cache keys.
CleanArguments ==
  Invoked =>
    \A v \in ArgObjects :
      /\ DOMAIN v.fields \subseteq KnownFields
      /\ \A f \in DOMAIN v.fields : v.fields[f].kind = "null" => f \in NullableFields

\* A handler gets what it declares, from any parameters that are not refused
\* (validateParams, arrangeRpcParams).
ArgumentsRight ==
  /\ ParametersTypeOK /\ DetailsInPlace /\ MovingNotKept
  /\ BlocksNamedOnce /\ OptionsOfTracer /\ CleanArguments
=============================================================================
