------------------------------ MODULE Gateway -------------------------------
(***************************************************************************)
(* From a message of a client to the calls of the relay and back: the HTTP *)
(* server (KoaJsonRpc) and the WebSocket server, single requests and       *)
(* batches, the rate limit of every call, and the dispatcher, which checks *)
(* the method and its parameters and turns what it throws into an answer.  *)
(*                                                                         *)
(* The HTTP server keeps the details of a request (its id, the address it  *)
(* came from) in fields of the one KoaJsonRpc object and reads them again  *)
(* after awaiting the body and the rate limiter.                           *)
(***************************************************************************)
EXTENDS RateLimiter, Sequences

CONSTANTS
  Slots,          \* messages being processed at the same time
  Bodies,         \* messages: via, batch, and the requests in it
  BatchEnabled,   \* BATCH_REQUESTS_ENABLED
  BatchMax,       \* BATCH_REQUESTS_MAX_SIZE
  Disallowed,     \* BATCH_REQUESTS_DISALLOWED_METHODS
  Registered,     \* methods with a handler
  MaxMessages     \* bound on the messages

Forms == {"ok", "invalid", "bad params", "null"}

ASSUME GatewayConstants ==
  /\ Bodies \subseteq [via : {"http", "ws"}, batch : BOOLEAN,
                       items : Seq([method : Methods, form : Forms])]
  /\ \A b \in Bodies : ~b.batch => Len(b.items) = 1 /\ b.items[1].form # "null"
  /\ BatchEnabled \in BOOLEAN
  /\ BatchMax \in Nat
  /\ Disallowed \subseteq Methods
  /\ Registered \subseteq Methods
  /\ MaxMessages \in Nat

VARIABLES
  server,    \* "http" or "ws": each is a process of its own
  msg,       \* the messages
  item,      \* item[s]: the requests of a message
  details,   \* requestId and requestIpAddress of KoaJsonRpc, named by the message they are of
  messages   \* messages received

gatewayVars == <<server, msg, item, details, messages>>
gwVars == <<rateVars, gatewayVars>>

Nobody == "nobody"
Answers == {"none", "result", "method error", "invalid request", "not permitted",
            "rate limited", "no such method", "invalid params"}
NoBody == [via |-> "http", batch |-> FALSE, items |-> <<>>]
FreeSlot == [at |-> "free", ip |-> Nobody, body |-> NoBody, status |-> 0]

GatewayTypeOK ==
  /\ RateTypeOK
  /\ server \in {"http", "ws"}
  /\ msg \in [Slots -> [at : {"free", "body", "items", "sent"}, ip : Clients \cup {Nobody},
                        body : Bodies \cup {NoBody}, status : {0, 200, 400, 429, 500, 501}]]
  /\ \A s \in Slots :
       item[s] \in Seq([at : {"limit", "run", "end"}, answer : Answers, as : Slots \cup {Nobody}])
  /\ details \in Slots \cup {Nobody}
  /\ messages \in 0..MaxMessages

GatewayInit ==
  /\ RateInit
  /\ server \in {"http", "ws"}
  /\ msg = [s \in Slots |-> FreeSlot]
  /\ item = [s \in Slots |-> <<>>]
  /\ details = Nobody
  /\ messages = 0

Answered(answer) == [at |-> "end", answer |-> answer, as |-> Nobody]

-----------------------------------------------------------------------------
(* Receiving a message                                                     *)

\* updateRequestDetails; then the HTTP server awaits the body, while the WebSocket server took
\* a copy of the details when the connection was made
Receive(s, ip, b) ==
  /\ msg[s].at = "free"
  /\ messages < MaxMessages
  /\ b.via = server
  /\ messages' = messages + 1
  /\ msg' = [msg EXCEPT ![s] = [at |-> "body", ip |-> ip, body |-> b, status |-> 0]]
  /\ item' = [item EXCEPT ![s] = <<>>]
  /\ details' = s
  /\ UNCHANGED <<rateVars, server>>

Send(s, status) == msg' = [msg EXCEPT ![s].at = "sent", ![s].status = status]

\* what a request of the message begins with, before its first await
FirstStep(b, i) ==
  LET r == b.items[i] IN
  IF b.batch /\ r.method \in Disallowed THEN Answered("not permitted")
  ELSE IF r.form = "invalid" THEN Answered("invalid request")
  ELSE IF b.via = "ws" /\ r.method \notin Registered THEN Answered("no such method")
  ELSE [at |-> "limit", answer |-> "none", as |-> Nobody]

\* an element of a batch that is null throws: on HTTP in a promise of its own, on a
\* WebSocket within the loop, so that the elements after it are never looked at
NullBefore(b, n) == \E i \in DOMAIN b.items : i <= n /\ b.items[i].form = "null"
HasNull(b) == NullBefore(b, Len(b.items))
Thrown(b, i) == b.items[i].form = "null" \/ (b.via = "ws" /\ NullBefore(b, i))

\* rpcApp, or the message handler of the WebSocket server: parse, then the checks of a batch
ParseBody(s) ==
  LET b == msg[s].body IN
  /\ msg[s].at = "body"
  /\ \/ /\ Send(s, 200)
        /\ UNCHANGED item
     \/ /\ b.batch /\ (~BatchEnabled \/ Len(b.items) > BatchMax)
        /\ Send(s, IF b.via = "http" THEN 400 ELSE 200)
        /\ UNCHANGED item
     \/ /\ b.batch => BatchEnabled /\ Len(b.items) <= BatchMax
        /\ msg' = [msg EXCEPT ![s].at = "items"]
        /\ item' = [item EXCEPT ![s] =
             [i \in DOMAIN b.items |->
                IF Thrown(b, i) THEN Answered("none") ELSE FirstStep(b, i)]]
  /\ UNCHANGED <<rateVars, server, details, messages>>

-----------------------------------------------------------------------------
(* A request of the message                                                *)

End(s, i, answer) == item' = [item EXCEPT ![s][i].at = "end", ![s][i].answer = answer]

\* precheckRpcMethod of the dispatcher
Prechecked(r) ==
  IF r.method \notin Registered THEN "no such method"
  ELSE IF r.form = "bad params" THEN "invalid params"
  ELSE "none"

\* mutant: the WebSocket server reads the details of the object again as well
SharedDetails(s) == details

\* whose details the relay is called with
DetailsOf(s) == IF msg[s].body.via = "http" THEN details ELSE s

\* getRequestResult: the rate limit, then executeRpcMethod up to its first await
CheckLimit(s, i) ==
  LET r == msg[s].body.items[i] IN
  /\ item[s][i].at = "limit"
  /\ shouldRateLimit(msg[s].ip, r.method)
  /\ IF verdict' = "limited"
     THEN End(s, i, "rate limited")
     ELSE item' = [item EXCEPT ![s][i] =
                     [at     |-> IF Prechecked(r) = "none" THEN "run" ELSE "end",
                      answer |-> Prechecked(r),
                      as     |-> DetailsOf(s)]]
  /\ UNCHANGED <<server, msg, details, messages>>

\* processRpcMethod, handleRpcMethodError
Execute(s, i) ==
  /\ item[s][i].at = "run"
  /\ \/ End(s, i, "result")
     \/ End(s, i, "method error")
  /\ UNCHANGED <<rateVars, server, msg, details, messages>>

\* mutant: invalid parameters have a status of their own
StatusByKind(answer) == IF answer = "invalid params" THEN {422} ELSE {200}

\* translateRpcErrorToHttpStatus
StatusOf(answer) ==
  CASE answer = "result" -> {200}
    [] answer = "method error" -> {200, 400, 429, 500, 501}
    [] answer = "rate limited" -> {429}
    [] OTHER -> {400}

\* mutant: a batch gets the status of its first answer
FirstStatus(s) == IF msg[s].body.via = "ws" THEN {200} ELSE StatusOf(item[s][1].answer)

Status(s) ==
  IF msg[s].body.via = "ws" \/ msg[s].body.batch THEN {200} ELSE StatusOf(item[s][1].answer)

\* Promise.all ends with its first rejection, or when every request was answered; what a
\* WebSocket handler throws is only logged, and nothing is sent
Respond(s) ==
  /\ msg[s].at = "items"
  /\ \/ HasNull(msg[s].body) /\ Send(s, IF msg[s].body.via = "http" THEN 500 ELSE 0)
     \/ /\ ~HasNull(msg[s].body)
        /\ \A i \in DOMAIN item[s] : item[s][i].at = "end"
        /\ \E status \in Status(s) : Send(s, status)
  /\ UNCHANGED <<rateVars, server, item, details, messages>>

\* the connection takes its next message; what a failed batch left running has ended
NextMessage(s) ==
  /\ msg[s].at = "sent"
  /\ \A i \in DOMAIN item[s] : item[s][i].at = "end"
  /\ msg' = [msg EXCEPT ![s] = FreeSlot]
  /\ item' = [item EXCEPT ![s] = <<>>]
  /\ UNCHANGED <<rateVars, server, details, messages>>

MessageStep(s) ==
  \/ ParseBody(s) \/ Respond(s) \/ NextMessage(s)
  \/ \E i \in DOMAIN item[s] : CheckLimit(s, i) \/ Execute(s, i)

GatewayNext ==
  \/ RateTick /\ UNCHANGED gatewayVars
  \/ \E s \in Slots :
       MessageStep(s) \/ \E ip \in Clients, b \in Bodies : Receive(s, ip, b)

GatewaySpec == GatewayInit /\ [][GatewayNext]_gwVars

-----------------------------------------------------------------------------
(* Correctness                                                             *)

\* The relay is called with the details of the request it is called for, so that the HBAR
\* limiter looks at the plan of the right address (getRequestDetails).
DetailsAreOwn ==
  \A s \in Slots : \A i \in DOMAIN item[s] : item[s][i].as \in {Nobody, s}

\* On a WebSocket connection that holds: the details were copied before the first await.
SocketDetailsAreOwn ==
  \A s \in Slots : msg[s].body.via = "ws" =>
    \A i \in DOMAIN item[s] : item[s][i].as \in {Nobody, s}

\* A batch that was accepted and has no null in it is answered with status 200, whatever
\* became of its requests, and no method is executed in it that batches must not contain
\* (handleMultipleRequest).
BatchesAnswered ==
  \A s \in Slots : msg[s].at = "sent" /\ msg[s].body.batch /\ item[s] # <<>> =>
    /\ ~HasNull(msg[s].body) => msg[s].status = 200
    /\ \A i \in DOMAIN item[s] : msg[s].body.items[i].method \in Disallowed =>
         item[s][i].as = Nobody

\* Messages that overlap are answered item by item, and on a WebSocket with their own details
\* (handleMultipleRequest, getRequestResult).
MessagesRight == GatewayTypeOK /\ SocketDetailsAreOwn /\ BatchesAnswered
=============================================================================
