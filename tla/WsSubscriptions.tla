-------------------------- MODULE WsSubscriptions --------------------------
(***************************************************************************)
(* Connections and subscriptions of the WebSocket server: the connection   *)
(* limiter, the eth_subscribe / eth_unsubscribe handlers, the subscription *)
(* service and the list of polls it maintains.                             *)
(*                                                                         *)
(* The server is one event loop.  A message, the end of a socket or a      *)
(* timer starts a new turn of the loop; the continuation of an await runs  *)
(* before the next turn (Drained), unless it waits for the mirror node.    *)
(* A batch request starts several handlers in the same turn.               *)
(***************************************************************************)
EXTENDS Integers, FiniteSets

CONSTANTS
  Conns,     \* connection ids; each stands for one connection
  Ips,       \* client addresses
  IpOf,      \* IpOf[c]: where connection c comes from
  Requests,  \* requests being processed at the same time, over all connections
  LogTags,   \* tags of logs subscriptions (event and filters)
  HeadTags,  \* tags of newHeads subscriptions; {} when WS_NEW_HEADS_ENABLED is off
  NoTag,
  NoConn,
  ConnLimit, \* WS_CONNECTION_LIMIT
  IpLimit,   \* WS_CONNECTION_LIMIT_PER_IP
  SubLimit,  \* WS_SUBSCRIPTION_LIMIT
  SameSub,   \* WS_SAME_SUB_FOR_SAME_EVENT
  BatchMax,  \* requests per message; 1 when batches are disabled
  MaxSubs    \* bound on the number of subscriptions ever created

Tags == LogTags \cup HeadTags
SubIds == 1..MaxSubs
All == 0     \* eth_unsubscribe without a subscription id

ASSUME WsConstants ==
  /\ IpOf \in [Conns -> Ips]
  /\ NoTag \notin Tags
  /\ NoConn \notin Conns
  /\ LogTags \cap HeadTags = {}
  /\ ConnLimit \in Nat
  /\ IpLimit \in Nat
  /\ SubLimit \in Nat
  /\ SameSub \in BOOLEAN
  /\ BatchMax \in Nat
  /\ MaxSubs \in Nat
  /\ IsFiniteSet(Conns)
  /\ IsFiniteSet(Requests) /\ Requests # {}

VARIABLES
  state,            \* life cycle of a connection
  ttl,              \* connections with a running inactivity timer
  connectedClients, \* ConnectionLimiter.connectedClients
  clientIps,        \* ConnectionLimiter.clientIps
  counter,          \* websocket.subscriptions
  subs,             \* SubscriptionService.subscriptions
  nextId,           \* next subscription id (random in the code)
  polls,            \* tags in PollerService.polls
  interval,         \* PollerService.interval is set
  timers,           \* interval timers the event loop really runs
  req               \* requests being processed

connVars == <<state, connectedClients, clientIps>>
subVars == <<subs, nextId, polls, interval, timers>>
vars == <<connVars, ttl, counter, subVars, req>>

-----------------------------------------------------------------------------
(* "tcp": accepted socket; "open", "closing": the WebSocket; "gone": the   *)
(* socket is destroyed and its close event is pending; "closed"            *)

States == {"new", "tcp", "open", "closing", "gone", "closed"}
Subscription == [id : Nat \ {0}, conn : Conns, tag : Tags]
IdleRequest == [pc |-> "idle", conn |-> NoConn, tag |-> NoTag, id |-> All]
Request ==
  {IdleRequest} \cup
  [pc : {"received", "validate", "count", "refused", "done"}, conn : Conns,
   tag : Tags \cup {NoTag}, id : SubIds \cup {All}]

TypeOK ==
  /\ state \in [Conns -> States]
  /\ ttl \subseteq Conns
  /\ connectedClients \in Int
  /\ clientIps \in [Ips -> Int]
  /\ counter \in [Conns -> Int]
  /\ subs \subseteq Subscription
  /\ nextId \in Nat \ {0}
  /\ polls \subseteq Tags
  /\ interval \in BOOLEAN
  /\ timers \in Nat
  /\ req \in [Requests -> Request]

Init ==
  /\ state = [c \in Conns |-> "new"]
  /\ ttl = {}
  /\ connectedClients = 0
  /\ clientIps = [i \in Ips |-> 0]
  /\ counter = [c \in Conns |-> 0]
  /\ subs = {}
  /\ nextId = 1
  /\ polls = {}
  /\ interval = FALSE
  /\ timers = 0
  /\ req = [r \in Requests |-> IdleRequest]

SubsOf(c) == {s \in subs : s.conn = c}
TagsOf(S) == {s.tag : s \in S}

\* only handlers that wait for the mirror node are left: a new turn may start
Drained == \A r \in Requests : req[r].pc \in {"idle", "validate"}

-----------------------------------------------------------------------------
(* PollerService and SubscriptionService                                   *)

PollerAdd(t) ==
  /\ polls' = polls \cup {t}
  /\ interval' = TRUE
  /\ timers' = IF interval THEN timers ELSE timers + 1

PollerRemove(T) ==
  /\ polls' = polls \ T
  /\ IF T # {} /\ polls \subseteq T /\ interval
     THEN interval' = FALSE /\ timers' = timers - 1
     ELSE UNCHANGED <<interval, timers>>

\* mutant: no look for an existing subscription
SubscribeAgain(c, t) ==
  /\ subs' = subs \cup {[id |-> nextId, conn |-> c, tag |-> t]}
  /\ nextId' = nextId + 1
  /\ PollerAdd(t)

subscribe(c, t) ==
  IF SameSub /\ \E s \in subs : s.conn = c /\ s.tag = t
  THEN UNCHANGED subVars
  ELSE /\ subs' = subs \cup {[id |-> nextId, conn |-> c, tag |-> t]}
       /\ nextId' = nextId + 1
       /\ PollerAdd(t)

\* mutant: a call without an id matches nothing
MatchingById(c, id) == {s \in SubsOf(c) : s.id = id}

Matching(c, id) == {s \in SubsOf(c) : id = All \/ s.id = id}

\* mutant: the poll of a tag goes with any of its subscribers
RemoveSharedPolls(c, id) ==
  /\ subs' = subs \ Matching(c, id)
  /\ PollerRemove(TagsOf(Matching(c, id)))
  /\ UNCHANGED nextId

unsubscribe(c, id) ==
  LET left == subs \ Matching(c, id) IN
  /\ subs' = left
  /\ PollerRemove(TagsOf(subs) \ TagsOf(left))
  /\ UNCHANGED nextId

-----------------------------------------------------------------------------
(* The life cycle of a connection                                          *)

Sockets == {c \in Conns : state[c] \in {"tcp", "open", "closing"}}

Connect(c) ==
  /\ Drained
  /\ state[c] = "new"
  /\ state' = [state EXCEPT ![c] = "tcp"]
  /\ UNCHANGED <<connectedClients, clientIps, ttl, counter, subVars, req>>

\* the connection handler: incrementCounters, then applyLimits
Upgrade(c) ==
  LET total == Cardinality(Sockets)
      ofIp == clientIps[IpOf[c]] + 1
      accept == total <= ConnLimit /\ ofIp <= IpLimit
  IN
  /\ Drained
  /\ state[c] = "tcp"
  /\ connectedClients' = total
  /\ clientIps' = [clientIps EXCEPT ![IpOf[c]] = ofIp]
  /\ counter' = [counter EXCEPT ![c] = 0]
  /\ state' = [state EXCEPT ![c] = IF accept THEN "open" ELSE "closing"]
  /\ ttl' = IF accept THEN ttl \cup {c} ELSE ttl
  /\ UNCHANGED <<subVars, req>>

\* mutant: the timer fires without closing an open connection
TimeoutWithoutClose(c) ==
  /\ Drained
  /\ c \in ttl
  /\ ttl' = ttl \ {c}
  /\ UNCHANGED <<connVars, counter, subVars, req>>

\* mutant: the timer gives back the slot, which the close event does again
TimeoutDecrements(c) ==
  /\ Drained
  /\ c \in ttl
  /\ ttl' = ttl \ {c}
  /\ state' = [state EXCEPT ![c] = IF @ = "open" THEN "closing" ELSE @]
  /\ clientIps' = [clientIps EXCEPT ![IpOf[c]] = @ - 1]
  /\ UNCHANGED <<connectedClients, counter, subVars, req>>

\* the inactivity timer fires
InactivityTimeout(c) ==
  /\ Drained
  /\ c \in ttl
  /\ ttl' = ttl \ {c}
  /\ state' = [state EXCEPT ![c] = IF @ = "open" THEN "closing" ELSE @]
  /\ UNCHANGED <<connectedClients, clientIps, counter, subVars, req>>

\* the client goes away, the close handshake ends or times out
SocketGone(c) ==
  /\ Drained
  /\ state[c] \in {"open", "closing"}
  /\ state' = [state EXCEPT ![c] = "gone"]
  /\ UNCHANGED <<connectedClients, clientIps, ttl, counter, subVars, req>>

\* mutant: the close handler is registered after applyLimits has accepted
CloseIfAccepted(c) ==
  /\ Drained
  /\ state[c] = "gone" /\ c \in ttl
  /\ state' = [state EXCEPT ![c] = "closed"]
  /\ unsubscribe(c, All)
  /\ clientIps' = [clientIps EXCEPT ![IpOf[c]] = @ - 1]
  /\ connectedClients' = connectedClients - 1
  /\ UNCHANGED <<ttl, counter, req>>

\* the close event: handleConnectionClose
Close(c) ==
  /\ Drained
  /\ state[c] = "gone"
  /\ state' = [state EXCEPT ![c] = "closed"]
  /\ unsubscribe(c, All)
  /\ clientIps' = [clientIps EXCEPT ![IpOf[c]] = @ - 1]
  /\ connectedClients' = connectedClients - 1
  /\ UNCHANGED <<ttl, counter, req>>

-----------------------------------------------------------------------------
(* Requests                                                                *)

Call == [tag : Tags, id : {All}] \cup [tag : {NoTag}, id : SubIds \cup {All}]
Creates(r) == req[r].tag # NoTag /\ req[r].pc \in {"received", "validate"}

\* a message with one or several requests arrives; also on a connection that
\* the server is closing, until the socket is gone
Message(c) ==
  /\ Drained
  /\ state[c] \in {"open", "closing"}
  /\ \E B \in SUBSET {r \in Requests : req[r].pc = "idle"} :
       /\ B # {} /\ Cardinality(B) <= BatchMax
       /\ \E call \in [B -> Call] :
            /\ nextId + Cardinality({r \in Requests : Creates(r)})
                      + Cardinality({r \in B : call[r].tag # NoTag}) <= MaxSubs + 1
            /\ req' = [r \in Requests |->
                         IF r \in B
                         THEN [pc |-> "received", conn |-> c, tag |-> call[r].tag, id |-> call[r].id]
                         ELSE req[r]]
  /\ ttl' = ttl \cup {c}
  /\ UNCHANGED <<connVars, counter, subVars>>

Goto(r, pc) == req' = [req EXCEPT ![r].pc = pc]
\* mutant: off by one
AtMostLimit(c) == counter[c] <= SubLimit

BelowLimit(c) == counter[c] < SubLimit

\* validateSubscriptionLimit fails
Limited(r) ==
  /\ req[r].pc = "received" /\ req[r].tag # NoTag
  /\ ~BelowLimit(req[r].conn)
  /\ Goto(r, "refused")
  /\ UNCHANGED <<connVars, ttl, counter, subVars>>

\* handleEthSubscribe for newHeads: nothing is awaited
SubscribeHeads(r) ==
  LET c == req[r].conn IN
  /\ req[r].pc = "received" /\ req[r].tag \in HeadTags
  /\ BelowLimit(c)
  /\ subscribe(c, req[r].tag)
  /\ counter' = [counter EXCEPT ![c] = @ + 1]
  /\ Goto(r, "done")
  /\ UNCHANGED <<connVars, ttl>>

\* handleEthSubscribeLogs: the mirror node is asked whether the address is a contract
ValidateLogs(r) ==
  /\ req[r].pc = "received" /\ req[r].tag \in LogTags
  /\ BelowLimit(req[r].conn)
  /\ Goto(r, "validate")
  /\ UNCHANGED <<connVars, ttl, counter, subVars>>

\* mutant: a rejected subscription is counted
CountRejected(r) ==
  /\ req[r].pc = "validate"
  /\ counter' = [counter EXCEPT ![req[r].conn] = @ + 1]
  /\ Goto(r, "done")
  /\ UNCHANGED <<connVars, ttl, subVars>>

\* it is not, or the mirror node fails
RejectLogs(r) ==
  /\ req[r].pc = "validate"
  /\ Goto(r, "done")
  /\ UNCHANGED <<connVars, ttl, counter, subVars>>

\* it is; whether the connection still exists is not looked at
SubscribeLogs(r) ==
  /\ req[r].pc = "validate"
  /\ subscribe(req[r].conn, req[r].tag)
  /\ Goto(r, "count")
  /\ UNCHANGED <<connVars, ttl, counter>>

\* handleEthSubscribe goes on
IncrementSubs(r) ==
  /\ req[r].pc = "count"
  /\ counter' = [counter EXCEPT ![req[r].conn] = @ + 1]
  /\ Goto(r, "done")
  /\ UNCHANGED <<connVars, ttl, subVars>>

\* mutant: decrementSubs with its default amount
DecrementByOne(r) ==
  LET c == req[r].conn IN
  /\ req[r].pc = "received" /\ req[r].tag = NoTag
  /\ unsubscribe(c, req[r].id)
  /\ counter' = [counter EXCEPT ![c] = @ - 1]
  /\ Goto(r, "done")
  /\ UNCHANGED <<connVars, ttl>>

\* handleEthUnsubscribe
Unsubscribe(r) ==
  LET c == req[r].conn IN
  /\ req[r].pc = "received" /\ req[r].tag = NoTag
  /\ unsubscribe(c, req[r].id)
  /\ counter' = [counter EXCEPT ![c] = @ - Cardinality(Matching(c, req[r].id))]
  /\ Goto(r, "done")
  /\ UNCHANGED <<connVars, ttl>>

\* sendToClient
Answer(r) ==
  /\ req[r].pc \in {"refused", "done"}
  /\ ttl' = ttl \cup {req[r].conn}
  /\ req' = [req EXCEPT ![r] = IdleRequest]
  /\ UNCHANGED <<connVars, counter, subVars>>

\* a poll calls notifySubscribers: what was sent to a subscription before is not sent again
Notify(t) ==
  /\ Drained
  /\ \E S \in SUBSET {s \in subs : s.tag = t} :
       S # {} /\ ttl' = ttl \cup {s.conn : s \in S}
  /\ UNCHANGED <<connVars, counter, subVars, req>>

-----------------------------------------------------------------------------
Handle(r) ==
  \/ Limited(r) \/ SubscribeHeads(r) \/ ValidateLogs(r) \/ RejectLogs(r)
  \/ SubscribeLogs(r) \/ IncrementSubs(r) \/ Unsubscribe(r) \/ Answer(r)

Next ==
  \/ \E c \in Conns : \/ Connect(c) \/ Upgrade(c) \/ InactivityTimeout(c)
                      \/ SocketGone(c) \/ Close(c) \/ Message(c)
  \/ \E r \in Requests : Handle(r)
  \/ \E t \in Tags : Notify(t)

Spec == Init /\ [][Next]_vars

\* Continuations and answers of the mirror node arrive (its client times out),
\* the ws library ends a close handshake after its own timeout, and every
\* iteration of the event loop comes to the pending close events.
FairSpec ==
  /\ Spec
  /\ \A r \in Requests : WF_vars(Handle(r))
  /\ \A c \in Conns : SF_vars(state[c] = "closing" /\ SocketGone(c)) /\ SF_vars(Close(c))

-----------------------------------------------------------------------------
(* Properties                                                              *)

Closed == {c \in Conns : state[c] = "closed"}
Accepted == {c \in Conns : state[c] = "open"}
Counting(c) == {r \in Requests : req[r].pc = "count" /\ req[r].conn = c}

\* The poller polls exactly the tags somebody is subscribed to, and one
\* interval timer runs exactly while there are any (PollerService.add, remove,
\* start and stop against SubscriptionService.subscriptions).
PollsMatchSubscriptions ==
  /\ polls = TagsOf(subs)
  /\ interval <=> polls # {}
  /\ timers = IF interval THEN 1 ELSE 0

\* websocket.subscriptions counts the subscriptions of a connection, up to the
\* ones a handler is about to count, although creating and counting are
\* separated by an await (incrementSubs, decrementSubs).
CounterMatches ==
  ~SameSub => \A c \in Conns :
    counter[c] + Cardinality(Counting(c)) = Cardinality(SubsOf(c)) \/ c \in Closed

\* MAX_SUBSCRIPTIONS is answered only to a connection that has that many
\* subscriptions (validateSubscriptionLimit).
RefusedOnlyAtLimit ==
  [][\A r \in Requests :
       req[r].pc = "received" /\ req'[r].pc = "refused"
         => Cardinality(SubsOf(req[r].conn)) >= SubLimit]_vars

\* Subscriptions that are being validated escape the limit, but only as many
\* as there are other requests in flight.
OvershootBounded ==
  \A c \in Conns : Cardinality(SubsOf(c)) <= SubLimit + Cardinality(Requests) - 1

\* With WS_SAME_SUB_FOR_SAME_EVENT a connection is subscribed to an event at
\* most once, so that it is not notified twice (the existingSub check).
OneSubscriptionPerEvent ==
  SameSub => \A s, u \in subs : s.conn = u.conn /\ s.tag = u.tag => s = u

\* No newHeads subscription outlives its connection, in whatever order batches,
\* log subscriptions in validation and close events are handled
\* (handleConnectionClose against handleEthSubscribeNewHeads).
HeadsEndWithConnection == \A c \in Closed : TagsOf(SubsOf(c)) \cap HeadTags = {}

\* No subscription outlives its connection (handleConnectionClose).
ClosedHaveNoSubscriptions == \A c \in Closed : SubsOf(c) = {}

\* At most WS_CONNECTION_LIMIT connections are accepted at a time, and at most
\* WS_CONNECTION_LIMIT_PER_IP of one address, whatever the order in which
\* sockets end and close events are handled (incrementCounters, decrementCounters).
ConnectionLimits ==
  /\ Cardinality(Accepted) <= ConnLimit
  /\ \A i \in Ips : Cardinality({c \in Accepted : IpOf[c] = i}) <= IpLimit

\* An accepted connection always has a running inactivity timer, so that an
\* idle client cannot hold a slot for ever (startInactivityTTLTimer).
OpenHasTimer == Accepted \subseteq ttl

\* A connection the server decided to close is closed in the end and gives
\* back its slot of the per-address count.
ClosingEnds == \A c \in Conns : state[c] = "closing" ~> state[c] = "closed"

\* The limits of ConnectionLimiter: how far concurrent requests exceed the one for subscriptions,
\* that those for connections hold, and that an idle connection gives its place back.
LimitsHold == OvershootBounded /\ ConnectionLimits /\ OpenHasTimer
=============================================================================
