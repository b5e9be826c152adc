----------------------- MODULE WsSubscriptionsProofs -----------------------
(***************************************************************************)
(* Proofs about WsSubscriptions, for any number of connections, requests,  *)
(* tags and any limits.                                                    *)
(***************************************************************************)
EXTENDS WsSubscriptions, FiniteSetTheorems, TLAPS

-----------------------------------------------------------------------------
(* Types, and the polls                                                    *)

\* a handler that waits for the mirror node, or that has just heard from it,
\* creates a subscription
PendingHasTag ==
  \A r \in Requests : req[r].pc \in {"validate", "count"} => req[r].tag \in Tags

PollInv == TypeOK /\ PollsMatchSubscriptions /\ PendingHasTag /\ IsFiniteSet(subs)

\* SubscriptionService.subscribe keeps the polls in step with the subscriptions.
LEMMA SubscribeKeepsPolls ==
  ASSUME TypeOK, PollsMatchSubscriptions, IsFiniteSet(subs),
         NEW c \in Conns, NEW t \in Tags, subscribe(c, t)
  PROVE  /\ subs' \subseteq Subscription
         /\ IsFiniteSet(subs')
         /\ nextId' \in Nat \ {0}
         /\ polls' \subseteq Tags
         /\ interval' \in BOOLEAN
         /\ timers' \in Nat
         /\ PollsMatchSubscriptions'
<1>1. CASE SameSub /\ \E s \in subs : s.conn = c /\ s.tag = t
  BY <1>1 DEF subscribe, subVars, TypeOK, PollsMatchSubscriptions, TagsOf
<1>2. CASE ~(SameSub /\ \E s \in subs : s.conn = c /\ s.tag = t)
  <2> DEFINE new == [id |-> nextId, conn |-> c, tag |-> t]
  <2>1. /\ subs' = subs \cup {new}
        /\ nextId' = nextId + 1
        /\ polls' = polls \cup {t}
        /\ interval' = TRUE
        /\ timers' = IF interval THEN timers ELSE timers + 1
    BY <1>2 DEF subscribe, PollerAdd
  <2>2. new \in Subscription /\ new.tag = t
    BY DEF TypeOK, Subscription
  <2> HIDE DEF new
  <2>3. subs' \subseteq Subscription
    BY <2>1, <2>2 DEF TypeOK
  <2>4. TagsOf(subs') = TagsOf(subs) \cup {t}
    BY <2>1, <2>2 DEF TagsOf
  <2>5. timers' = 1
    BY <2>1 DEF PollsMatchSubscriptions
  <2>6. polls' # {}
    BY <2>1
  <2>7. PollsMatchSubscriptions'
    BY <2>1, <2>4, <2>5, <2>6 DEF PollsMatchSubscriptions
  <2>8. IsFiniteSet(subs')
    BY <2>1, FS_AddElement
  <2> QED
    BY <2>1, <2>3, <2>5, <2>7, <2>8 DEF TypeOK
<1> QED
  BY <1>1, <1>2

\* SubscriptionService.unsubscribe does so, too, whatever it removes.
LEMMA UnsubscribeKeepsPolls ==
  ASSUME TypeOK, PollsMatchSubscriptions, IsFiniteSet(subs), NEW c, NEW id, unsubscribe(c, id)
  PROVE  /\ subs' \subseteq Subscription
         /\ IsFiniteSet(subs')
         /\ nextId' \in Nat \ {0}
         /\ polls' \subseteq Tags
         /\ interval' \in BOOLEAN
         /\ timers' \in Nat
         /\ PollsMatchSubscriptions'
<1> DEFINE left == subs \ Matching(c, id)
           T == TagsOf(subs) \ TagsOf(left)
<1>1. subs' = left /\ PollerRemove(T) /\ nextId' = nextId
  BY DEF unsubscribe
<1>2. left \subseteq subs
  OBVIOUS
<1>3. IsFiniteSet(subs')
  BY <1>1, <1>2, FS_Subset
<1>4. TagsOf(left) \subseteq TagsOf(subs)
  BY <1>2 DEF TagsOf
<1> HIDE DEF left
<1>5. polls' = TagsOf(subs')
  BY <1>1, <1>4 DEF PollerRemove, PollsMatchSubscriptions
<1>6. CASE T # {} /\ polls \subseteq T /\ interval
  <2>1. interval' = FALSE /\ timers' = timers - 1 /\ polls' = {}
    BY <1>1, <1>6 DEF PollerRemove
  <2>2. timers' = 0
    BY <2>1, <1>6 DEF PollsMatchSubscriptions
  <2>3. interval' \in BOOLEAN
    BY <2>1
  <2>4. PollsMatchSubscriptions'
    BY <1>5, <2>1, <2>2 DEF PollsMatchSubscriptions
  <2>5. subs' \subseteq Subscription /\ nextId' \in Nat \ {0} /\ polls' \subseteq Tags
    BY <1>1, <1>2, <2>1 DEF TypeOK
  <2> QED
    BY <1>3, <2>2, <2>3, <2>4, <2>5
<1>7. CASE ~(T # {} /\ polls \subseteq T /\ interval)
  <2>1. interval' = interval /\ timers' = timers /\ polls' = polls \ T
    BY <1>1, <1>7 DEF PollerRemove
  <2>2. ASSUME polls # {} PROVE polls' # {}
    <3>1. interval
      BY <2>2 DEF PollsMatchSubscriptions
    <3>2. T = {} \/ \E t \in polls : t \notin T
      BY <3>1, <1>7
    <3> HIDE DEF T
    <3> QED
      BY <3>2, <2>1, <2>2
  <2>3. polls' \subseteq polls
    BY <2>1
  <2>4. interval' \in BOOLEAN
    BY <2>1 DEF TypeOK
  <2>5. interval' <=> polls' # {}
    BY <2>1, <2>2, <2>3 DEF PollsMatchSubscriptions
  <2>6. timers' = IF interval' THEN 1 ELSE 0
    BY <2>1 DEF PollsMatchSubscriptions
  <2>7. subs' \subseteq Subscription /\ nextId' \in Nat \ {0} /\ polls' \subseteq Tags
        /\ timers' \in Nat
    BY <1>1, <1>2, <2>1, <2>3 DEF TypeOK
  <2> QED
    BY <1>5, <1>3, <2>4, <2>5, <2>6, <2>7 DEF PollsMatchSubscriptions
<1> QED
  BY <1>6, <1>7, <1>3

LEMMA GotoType ==
  ASSUME TypeOK, NEW r \in Requests, req[r].pc # "idle",
         NEW pc \in {"received", "validate", "count", "refused", "done"}, Goto(r, pc)
  PROVE  /\ req' \in [Requests -> Request]
         /\ req'[r].pc = pc /\ req'[r].tag = req[r].tag /\ req'[r].conn = req[r].conn
         /\ \A q \in Requests \ {r} : req'[q] = req[q]
<1>1. req[r] \in Request \ {IdleRequest}
  BY DEF TypeOK, IdleRequest
<1>2. [req[r] EXCEPT !.pc = pc] \in Request
  BY <1>1 DEF Request
<1>3. req' = [req EXCEPT ![r] = [req[r] EXCEPT !.pc = pc]]
  BY DEF Goto
<1>4. [req[r] EXCEPT !.pc = pc].pc = pc /\ [req[r] EXCEPT !.pc = pc].tag = req[r].tag
      /\ [req[r] EXCEPT !.pc = pc].conn = req[r].conn
  BY <1>1 DEF Request
<1> QED
  BY <1>2, <1>3, <1>4 DEF TypeOK

\* the connection of a request that is being processed
LEMMA ActiveRequest ==
  ASSUME TypeOK, NEW r \in Requests, req[r].pc # "idle"
  PROVE  req[r].conn \in Conns /\ req[r].tag \in Tags \cup {NoTag}
BY DEF TypeOK, Request, IdleRequest

LEMMA PollInvInit == Init => PollInv
<1> SUFFICES ASSUME Init PROVE PollInv
  OBVIOUS
<1>1. TypeOK
  <2>1. interval \in BOOLEAN
    BY DEF Init
  <2>2. req \in [Requests -> Request]
    BY DEF Init, Request
  <2>3. state \in [Conns -> States]
    BY DEF Init, States
  <2>4. /\ ttl \subseteq Conns /\ connectedClients \in Int /\ clientIps \in [Ips -> Int]
        /\ counter \in [Conns -> Int] /\ subs \subseteq Subscription
        /\ nextId \in Nat \ {0} /\ polls \subseteq Tags /\ timers \in Nat
    BY DEF Init
  <2> QED
    BY <2>1, <2>2, <2>3, <2>4 DEF TypeOK
<1>2. TagsOf(subs) = {}
  BY DEF Init, TagsOf
<1>3. PollsMatchSubscriptions
  BY <1>2 DEF Init, PollsMatchSubscriptions
<1>4. PendingHasTag
  BY DEF Init, PendingHasTag, IdleRequest
<1>5. IsFiniteSet(subs)
  BY FS_EmptySet DEF Init
<1> QED
  BY <1>1, <1>3, <1>4, <1>5 DEF PollInv

LEMMA PollInvStep == PollInv /\ [Next]_vars => PollInv'
<1> SUFFICES ASSUME PollInv, [Next]_vars PROVE PollInv'
  OBVIOUS
<1> USE DEF PollInv
<1>1. ASSUME NEW c \in Conns, Connect(c) PROVE PollInv'
  BY <1>1 DEF Connect, subVars, TypeOK, States, PollsMatchSubscriptions, PendingHasTag, TagsOf
<1>2. ASSUME NEW c \in Conns, Upgrade(c) PROVE PollInv'
  <2>1. Sockets \subseteq Conns /\ IsFiniteSet(Conns)
    BY WsConstants DEF Sockets
  <2>2. Cardinality(Sockets) \in Int
    BY <2>1, FS_Subset, FS_CardinalityType
  <2>3. IpOf[c] \in Ips
    BY WsConstants
  <2>4. clientIps' \in [Ips -> Int] /\ connectedClients' \in Int
    BY <1>2, <2>2, <2>3 DEF Upgrade, TypeOK
  <2>5. state' \in [Conns -> States] /\ ttl' \subseteq Conns /\ counter' \in [Conns -> Int]
    BY <1>2 DEF Upgrade, TypeOK, States
  <2> QED
    BY <1>2, <2>4, <2>5 DEF Upgrade, subVars, TypeOK, PollsMatchSubscriptions, PendingHasTag, TagsOf
<1>3. ASSUME NEW c \in Conns, InactivityTimeout(c) PROVE PollInv'
  BY <1>3 DEF InactivityTimeout, subVars, TypeOK, States, PollsMatchSubscriptions, PendingHasTag, TagsOf
<1>4. ASSUME NEW c \in Conns, SocketGone(c) PROVE PollInv'
  BY <1>4 DEF SocketGone, subVars, TypeOK, States, PollsMatchSubscriptions, PendingHasTag, TagsOf
<1>5. ASSUME NEW c \in Conns, Close(c) PROVE PollInv'
  <2>1. unsubscribe(c, All)
    BY <1>5 DEF Close
  <2>2. IpOf[c] \in Ips
    BY WsConstants
  <2>3. /\ state' \in [Conns -> States] /\ clientIps' \in [Ips -> Int]
        /\ connectedClients' \in Int
    BY <1>5, <2>2 DEF Close, TypeOK, States
  <2> QED
    BY <1>5, <2>1, <2>3, UnsubscribeKeepsPolls DEF Close, TypeOK, PendingHasTag
<1>6. ASSUME NEW c \in Conns, Message(c) PROVE PollInv'
  <2>1. PICK B \in SUBSET Requests : \E call \in [B -> Call] :
          req' = [r \in Requests |->
                    IF r \in B
                    THEN [pc |-> "received", conn |-> c, tag |-> call[r].tag, id |-> call[r].id]
                    ELSE req[r]]
    BY <1>6 DEF Message
  <2>2. PICK call \in [B -> Call] :
          req' = [r \in Requests |->
                    IF r \in B
                    THEN [pc |-> "received", conn |-> c, tag |-> call[r].tag, id |-> call[r].id]
                    ELSE req[r]]
    BY <2>1
  <2>3. ASSUME NEW r \in Requests PROVE req'[r] \in Request /\ (req'[r] = req[r] \/ req'[r].pc = "received")
    <3>1. CASE r \in B
      <4>1. call[r].tag \in Tags \cup {NoTag} /\ call[r].id \in SubIds \cup {All}
        BY <3>1 DEF Call
      <4> QED
        BY <2>2, <3>1, <4>1 DEF Request
    <3>2. CASE r \notin B
      BY <2>2, <3>2 DEF TypeOK
    <3> QED
      BY <3>1, <3>2
  <2>4. req' \in [Requests -> Request] /\ PendingHasTag'
    BY <2>2, <2>3 DEF PendingHasTag
  <2> QED
    BY <1>6, <2>4 DEF Message, connVars, subVars, TypeOK, PollsMatchSubscriptions, TagsOf
<1>7. ASSUME NEW r \in Requests, Limited(r) \/ ValidateLogs(r) \/ RejectLogs(r) PROVE PollInv'
  <2>1. PICK pc \in {"refused", "validate", "done"} : Goto(r, pc) /\ (pc = "validate" => req[r].tag \in Tags)
    BY <1>7 DEF Limited, ValidateLogs, RejectLogs, Tags
  <2>2. req[r].pc # "idle" /\ UNCHANGED <<connVars, ttl, counter, subVars>>
    BY <1>7 DEF Limited, ValidateLogs, RejectLogs
  <2>3. req' \in [Requests -> Request] /\ PendingHasTag'
    BY <2>1, <2>2, GotoType DEF PendingHasTag
  <2> QED
    BY <2>2, <2>3 DEF connVars, subVars, TypeOK, PollsMatchSubscriptions, TagsOf
<1>8. ASSUME NEW r \in Requests, SubscribeHeads(r) PROVE PollInv'
  <2>1. /\ req[r].pc = "received" /\ req[r].tag \in Tags /\ Goto(r, "done")
        /\ subscribe(req[r].conn, req[r].tag)
        /\ UNCHANGED <<connVars, ttl>>
    BY <1>8 DEF SubscribeHeads, Tags
  <2>2. req[r].conn \in Conns
    BY <2>1, ActiveRequest
  <2>3. req' \in [Requests -> Request] /\ PendingHasTag'
    BY <2>1, GotoType DEF PendingHasTag
  <2>4. counter' \in [Conns -> Int]
    BY <1>8, <2>2 DEF SubscribeHeads, TypeOK
  <2> QED
    BY <2>1, <2>2, <2>3, <2>4, SubscribeKeepsPolls DEF connVars, TypeOK
<1>9. ASSUME NEW r \in Requests, SubscribeLogs(r) PROVE PollInv'
  <2>1. /\ req[r].pc = "validate" /\ Goto(r, "count")
        /\ subscribe(req[r].conn, req[r].tag)
        /\ UNCHANGED <<connVars, ttl, counter>>
    BY <1>9 DEF SubscribeLogs
  <2>2. req[r].conn \in Conns /\ req[r].tag \in Tags
    BY <2>1, ActiveRequest DEF PendingHasTag
  <2>3. req' \in [Requests -> Request] /\ PendingHasTag'
    BY <2>1, <2>2, GotoType DEF PendingHasTag
  <2> QED
    BY <2>1, <2>2, <2>3, SubscribeKeepsPolls DEF connVars, TypeOK
<1>10. ASSUME NEW r \in Requests, IncrementSubs(r) PROVE PollInv'
  <2>1. req[r].pc = "count" /\ Goto(r, "done") /\ UNCHANGED <<connVars, ttl, subVars>>
    BY <1>10 DEF IncrementSubs
  <2>2. req[r].conn \in Conns
    BY <2>1, ActiveRequest
  <2>3. req' \in [Requests -> Request] /\ PendingHasTag'
    BY <2>1, GotoType DEF PendingHasTag
  <2>4. counter' \in [Conns -> Int]
    BY <1>10, <2>2 DEF IncrementSubs, TypeOK
  <2> QED
    BY <2>1, <2>3, <2>4 DEF connVars, subVars, TypeOK, PollsMatchSubscriptions, TagsOf
<1>11. ASSUME NEW r \in Requests, Unsubscribe(r) PROVE PollInv'
  <2>1. /\ req[r].pc = "received" /\ Goto(r, "done")
        /\ unsubscribe(req[r].conn, req[r].id)
        /\ UNCHANGED <<connVars, ttl>>
    BY <1>11 DEF Unsubscribe
  <2>2. req' \in [Requests -> Request] /\ PendingHasTag'
    BY <2>1, GotoType DEF PendingHasTag
  <2>3. Cardinality(Matching(req[r].conn, req[r].id)) \in Int
    <3>1. Matching(req[r].conn, req[r].id) \subseteq subs
      BY DEF Matching, SubsOf
    <3> QED
      BY <3>1, FS_Subset, FS_CardinalityType
  <2> DEFINE n == Cardinality(Matching(req[r].conn, req[r].id))
  <2>4. counter' = [counter EXCEPT ![req[r].conn] = @ - n]
    BY <1>11 DEF Unsubscribe
  <2>5. n \in Int
    BY <2>3
  <2> HIDE DEF n
  <2>6. req[r].conn \in Conns
    BY <2>1, ActiveRequest
  <2>7. counter' \in [Conns -> Int]
    BY <2>4, <2>5, <2>6 DEF TypeOK
  <2> QED
    BY <2>1, <2>2, <2>7, UnsubscribeKeepsPolls DEF connVars, TypeOK
<1>12. ASSUME NEW r \in Requests, Answer(r) PROVE PollInv'
  <2>1. req[r].pc \in {"refused", "done"} /\ req' = [req EXCEPT ![r] = IdleRequest]
        /\ ttl' = ttl \cup {req[r].conn} /\ UNCHANGED <<connVars, counter, subVars>>
    BY <1>12 DEF Answer
  <2>2. req[r].conn \in Conns
    BY <2>1, ActiveRequest
  <2>3. req' \in [Requests -> Request] /\ PendingHasTag'
    BY <2>1 DEF TypeOK, Request, PendingHasTag, IdleRequest
  <2> QED
    BY <2>1, <2>2, <2>3 DEF connVars, subVars, TypeOK, PollsMatchSubscriptions, TagsOf
<1>13. ASSUME NEW t \in Tags, Notify(t) PROVE PollInv'
  <2>1. {s.conn : s \in {u \in subs : u.tag = t}} \subseteq Conns
    BY DEF TypeOK, Subscription
  <2> QED
    BY <1>13, <2>1 DEF Notify, connVars, subVars, TypeOK, PollsMatchSubscriptions, PendingHasTag, TagsOf
<1>14. CASE UNCHANGED vars
  BY <1>14 DEF vars, connVars, subVars, TypeOK, PollsMatchSubscriptions, PendingHasTag, TagsOf
<1> QED
  BY <1>1, <1>2, <1>3, <1>4, <1>5, <1>6, <1>7, <1>8, <1>9, <1>10, <1>11, <1>12, <1>13, <1>14
  DEF Next, Handle

\* The state of the WebSocket server is always of its type.
THEOREM WsTypeCorrect == Spec => []TypeOK
BY PollInvInit, PollInvStep, PTL DEF Spec, PollInv

\* The poller polls exactly the subscribed tags, with one timer exactly while
\* there are any, for any number of connections and any interleaving of their
\* requests, closes and time-outs.
THEOREM PollsFollowSubscriptions == Spec => []PollsMatchSubscriptions
BY PollInvInit, PollInvStep, PTL DEF Spec, PollInv

-----------------------------------------------------------------------------
(* The subscription counter                                                *)

\* ids are given once
IdsFresh == \A s \in subs : s.id < nextId

\* nothing refers to a connection before its handler has run, and a request
\* whose handling has just begun belongs to a connection that is not closed
ConnectionsInUse ==
  /\ \A s \in subs : state[s.conn] \notin {"new", "tcp"}
  /\ \A r \in Requests :
       /\ req[r].pc # "idle" => state[req[r].conn] \notin {"new", "tcp"}
       /\ req[r].pc = "received" => state[req[r].conn] \in {"open", "closing"}

\* the counter of an open connection covers its subscriptions, and is exact
\* unless a subscription may be given to a second request
CounterCovers ==
  \A c \in Conns \ Closed :
    LET counted == counter[c] + Cardinality(Counting(c)) IN
    /\ Cardinality(SubsOf(c)) <= counted
    /\ ~SameSub => counted = Cardinality(SubsOf(c))

CountInv == PollInv /\ IdsFresh /\ ConnectionsInUse /\ CounterCovers

\* the sets that are counted are finite
LEMMA CountedAreFinite ==
  ASSUME PollInv, NEW c
  PROVE  /\ IsFiniteSet(SubsOf(c)) /\ Cardinality(SubsOf(c)) \in Nat
         /\ IsFiniteSet(Counting(c)) /\ Cardinality(Counting(c)) \in Nat
<1>1. SubsOf(c) \subseteq subs /\ IsFiniteSet(subs)
  BY DEF SubsOf, PollInv
<1>2. Counting(c) \subseteq Requests /\ IsFiniteSet(Requests)
  BY WsConstants DEF Counting
<1> QED
  BY <1>1, <1>2, FS_Subset, FS_CardinalityType

\* subscribe adds at most one subscription to the connection, exactly one
\* unless it finds one, and none to the others
LEMMA SubscribeCounts ==
  ASSUME PollInv, IdsFresh, NEW c \in Conns, NEW t \in Tags, subscribe(c, t)
  PROVE  /\ Cardinality(SubsOf(c)') <= Cardinality(SubsOf(c)) + 1
         /\ ~SameSub => Cardinality(SubsOf(c)') = Cardinality(SubsOf(c)) + 1
         /\ Cardinality(SubsOf(c)') \in Nat
         /\ \A d \in Conns \ {c} : SubsOf(d)' = SubsOf(d)
         /\ \A s \in subs' : s \in subs \/ (s.conn = c /\ s.tag = t)
         /\ IdsFresh'
<1>1. Cardinality(SubsOf(c)) \in Nat
  BY CountedAreFinite
<1>2. CASE SameSub /\ \E s \in subs : s.conn = c /\ s.tag = t
  <2>1. subs' = subs /\ nextId' = nextId
    BY <1>2 DEF subscribe, subVars
  <2>2. \A d \in Conns : SubsOf(d)' = SubsOf(d)
    BY <2>1 DEF SubsOf
  <2> QED
    BY <1>1, <1>2, <2>1, <2>2 DEF IdsFresh
<1>3. CASE ~(SameSub /\ \E s \in subs : s.conn = c /\ s.tag = t)
  <2> DEFINE new == [id |-> nextId, conn |-> c, tag |-> t]
  <2>1. subs' = subs \cup {new} /\ nextId' = nextId + 1
    BY <1>3 DEF subscribe
  <2>2. new.id = nextId /\ new.conn = c /\ new.tag = t
    OBVIOUS
  <2> HIDE DEF new
  <2>3. nextId \in Nat /\ \A s \in subs : s.id \in Nat
    BY DEF PollInv, TypeOK, Subscription
  <2>4. new \notin subs
    BY <2>2, <2>3 DEF IdsFresh
  <2>5. SubsOf(c)' = SubsOf(c) \cup {new} /\ new \notin SubsOf(c)
    BY <2>1, <2>2, <2>4 DEF SubsOf
  <2>6. Cardinality(SubsOf(c)') = Cardinality(SubsOf(c)) + 1
    BY <2>5, CountedAreFinite, FS_AddElement
  <2>7. \A d \in Conns \ {c} : SubsOf(d)' = SubsOf(d)
    BY <2>1, <2>2 DEF SubsOf
  <2>8. IdsFresh'
    BY <2>1, <2>2, <2>3 DEF IdsFresh
  <2> QED
    BY <1>1, <2>1, <2>2, <2>6, <2>7, <2>8
<1> QED
  BY <1>2, <1>3

\* unsubscribe takes away what it matches, and nothing of another connection
LEMMA UnsubscribeCounts ==
  ASSUME PollInv, IdsFresh, NEW c \in Conns, NEW id, unsubscribe(c, id)
  PROVE  /\ Cardinality(SubsOf(c)') = Cardinality(SubsOf(c)) - Cardinality(Matching(c, id))
         /\ Cardinality(Matching(c, id)) \in Nat
         /\ \A d \in Conns \ {c} : SubsOf(d)' = SubsOf(d)
         /\ subs' \subseteq subs
         /\ IdsFresh'
<1>1. subs' = subs \ Matching(c, id) /\ nextId' = nextId
  BY DEF unsubscribe
<1>2. Matching(c, id) \subseteq SubsOf(c)
  BY DEF Matching
<1>3. SubsOf(c)' = SubsOf(c) \ Matching(c, id)
  BY <1>1 DEF SubsOf
<1>4. \A d \in Conns \ {c} : SubsOf(d)' = SubsOf(d)
  BY <1>1, <1>2 DEF SubsOf
<1>5. Cardinality(SubsOf(c) \ Matching(c, id))
        = Cardinality(SubsOf(c)) - Cardinality(SubsOf(c) \cap Matching(c, id))
  BY CountedAreFinite, FS_Difference
<1>6. SubsOf(c) \cap Matching(c, id) = Matching(c, id)
  BY <1>2
<1>7. Cardinality(Matching(c, id)) \in Nat
  BY <1>2, CountedAreFinite, FS_Subset, FS_CardinalityType
<1>8. IdsFresh'
  BY <1>1 DEF IdsFresh
<1> QED
  BY <1>1, <1>3, <1>4, <1>5, <1>6, <1>7, <1>8

\* only the way into and out of "count" changes what is about to be counted
LEMMA GotoCounts ==
  ASSUME PollInv, NEW r \in Requests, req[r].pc # "idle", NEW c \in Conns, c = req[r].conn,
         NEW pc \in {"received", "validate", "count", "refused", "done"}, Goto(r, pc)
  PROVE  /\ pc # "count" /\ req[r].pc # "count" => \A d \in Conns : Counting(d)' = Counting(d)
         /\ \A d \in Conns \ {c} : Counting(d)' = Counting(d)
         /\ pc = "count" /\ req[r].pc # "count" =>
              Cardinality(Counting(c)') = Cardinality(Counting(c)) + 1
         /\ pc # "count" /\ req[r].pc = "count" =>
              Cardinality(Counting(c)') = Cardinality(Counting(c)) - 1
<1>1. /\ req'[r].pc = pc /\ req'[r].conn = c
      /\ \A q \in Requests \ {r} : req'[q] = req[q]
  BY GotoType DEF PollInv
<1>2. \A d \in Conns \ {c} : Counting(d)' = Counting(d)
  BY <1>1 DEF Counting
<1>3. ASSUME pc # "count", req[r].pc # "count" PROVE \A d \in Conns : Counting(d)' = Counting(d)
  BY <1>1, <1>3 DEF Counting
<1>4. ASSUME pc = "count", req[r].pc # "count"
      PROVE  Cardinality(Counting(c)') = Cardinality(Counting(c)) + 1
  <2>1. Counting(c)' = Counting(c) \cup {r} /\ r \notin Counting(c)
    BY <1>1, <1>4 DEF Counting
  <2> QED
    BY <2>1, CountedAreFinite, FS_AddElement
<1>5. ASSUME pc # "count", req[r].pc = "count"
      PROVE  Cardinality(Counting(c)') = Cardinality(Counting(c)) - 1
  <2>1. Counting(c)' = Counting(c) \ {r} /\ r \in Counting(c)
    BY <1>1, <1>5 DEF Counting
  <2> QED
    BY <2>1, CountedAreFinite, FS_RemoveElement, ZenonT(40)
<1> QED
  BY <1>2, <1>3, <1>4, <1>5

LEMMA CountInvInit == Init => CountInv
<1> SUFFICES ASSUME Init PROVE CountInv
  OBVIOUS
<1>1. PollInv
  BY PollInvInit
<1>2. IdsFresh
  BY DEF Init, IdsFresh
<1>3. ConnectionsInUse
  BY DEF Init, ConnectionsInUse, IdleRequest
<1>4. ASSUME NEW c \in Conns PROVE counter[c] + Cardinality(Counting(c)) = Cardinality(SubsOf(c))
  <2>1. Counting(c) = {} /\ SubsOf(c) = {} /\ counter[c] = 0
    BY DEF Init, Counting, SubsOf, IdleRequest
  <2> QED
    BY <2>1, FS_EmptySet
<1> QED
  BY <1>1, <1>2, <1>3, <1>4, CountedAreFinite DEF CountInv, CounterCovers

\* what an action that neither subscribes nor counts does to the invariant
LEMMA CountsUntouched ==
  ASSUME CountInv, PollInv', UNCHANGED <<counter, subVars>>,
         \A d \in Conns : Counting(d)' = Counting(d),
         \A d \in Conns : d \in Closed => d \in Closed',
         ConnectionsInUse'
  PROVE  CountInv'
<1>1. \A d \in Conns : SubsOf(d)' = SubsOf(d)
  BY DEF subVars, SubsOf
<1>2. IdsFresh'
  BY DEF CountInv, IdsFresh, subVars
<1>3. CounterCovers'
  BY <1>1 DEF CountInv, CounterCovers
<1> QED
  BY <1>2, <1>3 DEF CountInv

LEMMA CountInvStep ==
  ASSUME CountInv, [Next]_vars
  PROVE  CountInv'
<1>1. PollInv'
  BY PollInvStep DEF CountInv
<1> USE DEF CountInv
<1>a. TypeOK
  BY DEF PollInv
<1>2. ASSUME NEW c \in Conns, Connect(c) \/ InactivityTimeout(c) \/ SocketGone(c) PROVE CountInv'
  <2>1. Drained /\ req' = req /\ UNCHANGED <<counter, subVars>>
    BY <1>2 DEF Connect, InactivityTimeout, SocketGone
  <2>2. /\ \A d \in Conns \ {c} : state'[d] = state[d]
        /\ state[c] # "closed" \/ state'[c] = "closed"
        /\ state'[c] \in {"new", "tcp"} => state[c] \in {"new", "tcp"}
    BY <1>2, <1>a DEF Connect, InactivityTimeout, SocketGone, TypeOK, States
  <2>3. \A d \in Conns : Counting(d)' = Counting(d) /\ (d \in Closed => d \in Closed')
    BY <2>1, <2>2 DEF Counting, Closed
  <2>4. \A s \in subs : s.conn \in Conns
    BY <1>a DEF TypeOK, Subscription
  <2>5. \A r \in Requests : req[r].pc # "received" /\ (req[r].pc # "idle" => req[r].conn \in Conns)
    BY <2>1, <1>a, ActiveRequest DEF Drained
  <2>6. ConnectionsInUse'
    BY <2>1, <2>2, <2>4, <2>5 DEF ConnectionsInUse, subVars
  <2> QED
    BY <1>1, <2>1, <2>3, <2>6, CountsUntouched
<1>3. ASSUME NEW c \in Conns, Upgrade(c) PROVE CountInv'
  <2>1. /\ Drained /\ state[c] = "tcp" /\ req' = req /\ UNCHANGED subVars
        /\ counter' = [counter EXCEPT ![c] = 0]
        /\ \A d \in Conns \ {c} : state'[d] = state[d]
        /\ state'[c] \in {"open", "closing"}
    BY <1>3, <1>a DEF Upgrade, TypeOK
  <2>2. \A d \in Conns : SubsOf(d)' = SubsOf(d) /\ Counting(d)' = Counting(d)
    BY <2>1 DEF subVars, SubsOf, Counting
  <2>3. \A s \in subs : s.conn \in Conns
    BY <1>a DEF TypeOK, Subscription
  <2>4. \A r \in Requests : req[r].pc # "received" /\ (req[r].pc # "idle" => req[r].conn \in Conns)
    BY <2>1, <1>a, ActiveRequest DEF Drained
  <2>5. ConnectionsInUse'
    BY <2>1, <2>3, <2>4 DEF ConnectionsInUse, subVars
  <2>6. SubsOf(c) = {} /\ Counting(c) = {}
    BY <2>1 DEF ConnectionsInUse, SubsOf, Counting
  <2>7. counter'[c] = 0 /\ Cardinality(Counting(c)') = 0 /\ Cardinality(SubsOf(c)') = 0
    <3>1. counter'[c] = 0
      BY <2>1, <1>a DEF TypeOK
    <3>2. SubsOf(c)' = {} /\ Counting(c)' = {}
      BY <2>2, <2>6
    <3> QED
      BY <3>1, <3>2, FS_EmptySet
  <2>8. ASSUME NEW d \in Conns \ {c}
        PROVE  counter'[d] = counter[d] /\ (d \in Closed => d \in Closed')
    BY <2>1, <1>a DEF TypeOK, Closed
  <2>9. CounterCovers'
    BY <2>2, <2>7, <2>8 DEF CounterCovers
  <2> QED
    BY <1>1, <2>1, <2>5, <2>9 DEF IdsFresh, subVars
<1>4. ASSUME NEW c \in Conns, Close(c) PROVE CountInv'
  <2>1. /\ Drained /\ unsubscribe(c, All) /\ req' = req /\ counter' = counter
        /\ state'[c] = "closed" /\ \A d \in Conns \ {c} : state'[d] = state[d]
    BY <1>4, <1>a DEF Close, TypeOK
  <2>2. /\ \A d \in Conns \ {c} : SubsOf(d)' = SubsOf(d)
        /\ subs' \subseteq subs /\ IdsFresh'
    BY <2>1, UnsubscribeCounts
  <2>3. \A d \in Conns : Counting(d)' = Counting(d)
    BY <2>1 DEF Counting
  <2>4. c \in Closed' /\ \A d \in Conns : d \in Closed => d \in Closed'
    BY <2>1 DEF Closed
  <2>5. CounterCovers'
    BY <2>1, <2>2, <2>3, <2>4 DEF CounterCovers
  <2>6. \A s \in subs : s.conn \in Conns
    BY <1>a DEF TypeOK, Subscription
  <2>7. \A r \in Requests : req[r].pc # "received" /\ (req[r].pc # "idle" => req[r].conn \in Conns)
    BY <2>1, <1>a, ActiveRequest DEF Drained
  <2>8. ConnectionsInUse'
    BY <2>1, <2>2, <2>6, <2>7 DEF ConnectionsInUse
  <2> QED
    BY <1>1, <2>2, <2>5, <2>8
<1>5. ASSUME NEW c \in Conns, Message(c) PROVE CountInv'
  <2>1. /\ state[c] \in {"open", "closing"} /\ UNCHANGED <<connVars, counter, subVars>>
        /\ \E B \in SUBSET {r \in Requests : req[r].pc = "idle"} : \E call \in [B -> Call] :
             req' = [r \in Requests |->
                       IF r \in B
                       THEN [pc |-> "received", conn |-> c, tag |-> call[r].tag, id |-> call[r].id]
                       ELSE req[r]]
    BY <1>5 DEF Message
  <2>2. \A r \in Requests : \/ req'[r] = req[r]
                            \/ /\ req[r].pc = "idle"
                               /\ req'[r].pc = "received" /\ req'[r].conn = c
    BY <2>1
  <2>3. \A d \in Conns : Counting(d)' = Counting(d)
    BY <2>2 DEF Counting
  <2>4. \A d \in Conns : d \in Closed => d \in Closed'
    BY <2>1 DEF connVars, Closed
  <2>5. ConnectionsInUse'
    BY <2>1, <2>2 DEF ConnectionsInUse, connVars, subVars
  <2> QED
    BY <1>1, <2>1, <2>3, <2>4, <2>5, CountsUntouched
<1>6. ASSUME NEW r \in Requests, Limited(r) \/ ValidateLogs(r) \/ RejectLogs(r) PROVE CountInv'
  <2>1. PICK pc \in {"refused", "validate", "done"} : Goto(r, pc)
    BY <1>6 DEF Limited, ValidateLogs, RejectLogs
  <2>2. req[r].pc \in {"received", "validate"} /\ UNCHANGED <<connVars, ttl, counter, subVars>>
    BY <1>6 DEF Limited, ValidateLogs, RejectLogs
  <2>3. \A d \in Conns : Counting(d)' = Counting(d)
    BY <2>1, <2>2, <1>a, ActiveRequest, GotoCounts
  <2>4. \A d \in Conns : d \in Closed => d \in Closed'
    BY <2>2 DEF connVars, Closed
  <2>5. ConnectionsInUse'
    BY <2>1, <2>2, <1>a, GotoType DEF ConnectionsInUse, connVars, subVars
  <2> QED
    BY <1>1, <2>2, <2>3, <2>4, <2>5, CountsUntouched
<1>7. ASSUME NEW r \in Requests, SubscribeHeads(r) PROVE CountInv'
  <2>1. PICK c \in Conns : c = req[r].conn
    BY <1>7, <1>a, ActiveRequest DEF SubscribeHeads
  <2>2. /\ req[r].pc = "received" /\ req[r].tag \in Tags /\ Goto(r, "done")
        /\ subscribe(c, req[r].tag) /\ UNCHANGED connVars
        /\ counter' = [counter EXCEPT ![c] = @ + 1]
    BY <1>7, <2>1 DEF SubscribeHeads, Tags
  <2>3. /\ Cardinality(SubsOf(c)') <= Cardinality(SubsOf(c)) + 1
        /\ ~SameSub => Cardinality(SubsOf(c)') = Cardinality(SubsOf(c)) + 1
        /\ Cardinality(SubsOf(c)') \in Nat
        /\ \A d \in Conns \ {c} : SubsOf(d)' = SubsOf(d)
        /\ \A s \in subs' : s \in subs \/ s.conn = c
        /\ IdsFresh'
    BY <2>2, SubscribeCounts
  <2>4. \A d \in Conns : Counting(d)' = Counting(d)
    BY <2>2, <2>1, GotoCounts
  <2>5. ConnectionsInUse'
    BY <2>2, <2>3, <1>a, <2>1, GotoType DEF ConnectionsInUse, connVars
  <2>6. \A d \in Conns : d \in Closed <=> d \in Closed'
    BY <2>2 DEF connVars, Closed
  <2>7. counter'[c] = counter[c] + 1 /\ \A d \in Conns \ {c} : counter'[d] = counter[d]
    BY <2>2, <1>a DEF TypeOK
  <2>8. counter[c] \in Int /\ Cardinality(SubsOf(c)) \in Nat /\ Cardinality(Counting(c)) \in Nat
    BY <1>a, CountedAreFinite DEF TypeOK
  <2>9. CounterCovers'
    BY <2>3, <2>4, <2>6, <2>7, <2>8 DEF CounterCovers
  <2> QED
    BY <1>1, <2>3, <2>5, <2>9
<1>8. ASSUME NEW r \in Requests, SubscribeLogs(r) PROVE CountInv'
  <2>1. PICK c \in Conns : c = req[r].conn
    BY <1>8, <1>a, ActiveRequest DEF SubscribeLogs
  <2>2. /\ req[r].pc = "validate" /\ Goto(r, "count")
        /\ subscribe(c, req[r].tag) /\ UNCHANGED <<connVars, counter>>
    BY <1>8, <2>1 DEF SubscribeLogs
  <2>3. req[r].tag \in Tags
    BY <2>2 DEF PollInv, PendingHasTag
  <2>4. /\ Cardinality(SubsOf(c)') <= Cardinality(SubsOf(c)) + 1
        /\ ~SameSub => Cardinality(SubsOf(c)') = Cardinality(SubsOf(c)) + 1
        /\ Cardinality(SubsOf(c)') \in Nat
        /\ \A d \in Conns \ {c} : SubsOf(d)' = SubsOf(d)
        /\ \A s \in subs' : s \in subs \/ s.conn = c
        /\ IdsFresh'
    BY <2>2, <2>3, SubscribeCounts
  <2>5. /\ Cardinality(Counting(c)') = Cardinality(Counting(c)) + 1
        /\ \A d \in Conns \ {c} : Counting(d)' = Counting(d)
    BY <2>2, <2>1, GotoCounts
  <2>6. ConnectionsInUse'
    BY <2>2, <2>4, <1>a, <2>1, GotoType DEF ConnectionsInUse, connVars
  <2>7. \A d \in Conns : d \in Closed <=> d \in Closed'
    BY <2>2 DEF connVars, Closed
  <2>8. counter[c] \in Int /\ Cardinality(SubsOf(c)) \in Nat /\ Cardinality(Counting(c)) \in Nat
    BY <2>3, <1>a, CountedAreFinite DEF TypeOK
  <2>9. CounterCovers'
    BY <2>2, <2>3, <2>4, <2>5, <2>7, <2>8 DEF CounterCovers
  <2> QED
    BY <1>1, <2>4, <2>6, <2>9
<1>9. ASSUME NEW r \in Requests, IncrementSubs(r) PROVE CountInv'
  <2>1. PICK c \in Conns : c = req[r].conn
    BY <1>9, <1>a, ActiveRequest DEF IncrementSubs
  <2>2. /\ req[r].pc = "count" /\ Goto(r, "done") /\ UNCHANGED <<connVars, subVars>>
        /\ counter' = [counter EXCEPT ![c] = @ + 1]
    BY <1>9, <2>1 DEF IncrementSubs
  <2>3. \A d \in Conns : SubsOf(d)' = SubsOf(d)
    BY <2>2 DEF subVars, SubsOf
  <2>4. /\ Cardinality(Counting(c)') = Cardinality(Counting(c)) - 1
        /\ \A d \in Conns \ {c} : Counting(d)' = Counting(d)
    BY <2>2, <2>1, GotoCounts
  <2>5. ConnectionsInUse'
    BY <2>2, <1>a, <2>1, GotoType DEF ConnectionsInUse, connVars, subVars
  <2>6. \A d \in Conns : d \in Closed <=> d \in Closed'
    BY <2>2 DEF connVars, Closed
  <2>7. IdsFresh'
    BY <2>2 DEF IdsFresh, subVars
  <2>8. counter'[c] = counter[c] + 1 /\ \A d \in Conns \ {c} : counter'[d] = counter[d]
    BY <2>2, <1>a DEF TypeOK
  <2>9. counter[c] \in Int /\ Cardinality(SubsOf(c)) \in Nat /\ Cardinality(Counting(c)) \in Nat
    BY <1>a, CountedAreFinite DEF TypeOK
  <2>10. CounterCovers'
    BY <2>3, <2>4, <2>6, <2>8, <2>9 DEF CounterCovers
  <2> QED
    BY <1>1, <2>5, <2>10, <2>7
<1>10. ASSUME NEW r \in Requests, Unsubscribe(r) PROVE CountInv'
  <2>1. PICK c \in Conns : c = req[r].conn
    BY <1>10, <1>a, ActiveRequest DEF Unsubscribe
  <2> DEFINE n == Cardinality(Matching(c, req[r].id))
  <2>2. /\ req[r].pc = "received" /\ Goto(r, "done")
        /\ unsubscribe(c, req[r].id) /\ UNCHANGED connVars
        /\ counter' = [counter EXCEPT ![c] = @ - n]
    BY <1>10, <2>1 DEF Unsubscribe
  <2>3. /\ Cardinality(SubsOf(c)') = Cardinality(SubsOf(c)) - n
        /\ n \in Nat
        /\ \A d \in Conns \ {c} : SubsOf(d)' = SubsOf(d)
        /\ subs' \subseteq subs
        /\ IdsFresh'
    BY <2>2, UnsubscribeCounts
  <2>4. \A d \in Conns : Counting(d)' = Counting(d)
    BY <2>2, <2>1, GotoCounts
  <2>5. ConnectionsInUse'
    BY <2>2, <2>3, <1>a, <2>1, GotoType DEF ConnectionsInUse, connVars
  <2>6. \A d \in Conns : d \in Closed <=> d \in Closed'
    BY <2>2 DEF connVars, Closed
  <2> HIDE DEF n
  <2>7. counter'[c] = counter[c] - n /\ \A d \in Conns \ {c} : counter'[d] = counter[d]
    BY <2>2, <1>a DEF TypeOK
  <2>8. counter[c] \in Int /\ Cardinality(SubsOf(c)) \in Nat /\ Cardinality(Counting(c)) \in Nat
    BY <1>a, CountedAreFinite DEF TypeOK
  <2>9. CounterCovers'
    BY <2>3, <2>4, <2>6, <2>7, <2>8 DEF CounterCovers
  <2> QED
    BY <1>1, <2>3, <2>5, <2>9
<1>11. ASSUME NEW r \in Requests, Answer(r) PROVE CountInv'
  <2>1. req[r].pc \in {"refused", "done"} /\ req' = [req EXCEPT ![r] = IdleRequest]
        /\ UNCHANGED <<connVars, counter, subVars>>
    BY <1>11 DEF Answer
  <2>2. req'[r].pc = "idle" /\ \A q \in Requests \ {r} : req'[q] = req[q]
    BY <2>1, <1>a DEF IdleRequest, TypeOK
  <2>3. \A d \in Conns : Counting(d)' = Counting(d)
    BY <2>1, <2>2 DEF Counting
  <2>4. \A d \in Conns : d \in Closed => d \in Closed'
    BY <2>1 DEF connVars, Closed
  <2>5. ConnectionsInUse'
    BY <2>1, <2>2 DEF ConnectionsInUse, connVars, subVars
  <2> QED
    BY <1>1, <2>1, <2>3, <2>4, <2>5, CountsUntouched
<1>12. ASSUME UNCHANGED vars \/ \E t \in Tags : Notify(t) PROVE CountInv'
  <2>1. UNCHANGED <<connVars, counter, subVars, req>>
    BY <1>12 DEF vars, Notify
  <2>2. \A d \in Conns : Counting(d)' = Counting(d) /\ (d \in Closed => d \in Closed')
    BY <2>1 DEF connVars, Closed, Counting
  <2>3. ConnectionsInUse'
    BY <2>1 DEF ConnectionsInUse, connVars, subVars
  <2> QED
    BY <1>1, <2>1, <2>2, <2>3, CountsUntouched
<1> QED
  BY <1>2, <1>3, <1>4, <1>5, <1>6, <1>7, <1>8, <1>9, <1>10, <1>11, <1>12 DEF Next, Handle

\* Without WS_SAME_SUB_FOR_SAME_EVENT, websocket.subscriptions is the number of
\* subscriptions of the connection, but for those a handler is about to count.
THEOREM CounterIsExact == Spec => []CounterMatches
<1>1. CountInv /\ [Next]_vars => CountInv'
  BY CountInvStep
<1>2. CountInv => CounterMatches
  BY DEF CountInv, CounterCovers, CounterMatches
<1> QED
  BY <1>1, <1>2, CountInvInit, PTL DEF Spec

\* ... so that MAX_SUBSCRIPTIONS is answered only to a connection that has that
\* many subscriptions, however its requests overlap.
THEOREM RefusalsAtTheLimit == ~SameSub => (Spec => RefusedOnlyAtLimit)
<1> SUFFICES ASSUME ~SameSub PROVE Spec => RefusedOnlyAtLimit
  OBVIOUS
<1> DEFINE Refusal(r) == req[r].pc = "received" /\ req'[r].pc = "refused"
             => Cardinality(SubsOf(req[r].conn)) >= SubLimit
<1>1. CountInv /\ [Next]_vars => CountInv'
  BY CountInvStep
<1>2. CountInv /\ [Next]_vars => [\A r \in Requests : Refusal(r)]_vars
  <2> SUFFICES ASSUME CountInv, [Next]_vars, NEW r \in Requests,
                      req[r].pc = "received", req'[r].pc = "refused"
               PROVE  Cardinality(SubsOf(req[r].conn)) >= SubLimit
    OBVIOUS
  <2>1. TypeOK
    BY DEF CountInv, PollInv
  <2>2. Limited(r)
    <3>1. ASSUME NEW q \in Requests, Handle(q), q # r PROVE req'[r] = req[r]
      BY <3>1, <2>1 DEF Handle, Limited, SubscribeHeads, ValidateLogs, RejectLogs, SubscribeLogs,
                        IncrementSubs, Unsubscribe, Answer, Goto, TypeOK
    <3>2. ASSUME Handle(r) PROVE Limited(r)
      BY <3>2, <2>1 DEF Handle, SubscribeHeads, ValidateLogs, RejectLogs, SubscribeLogs,
                        IncrementSubs, Unsubscribe, Answer, Goto, TypeOK, Request, IdleRequest
    <3>3. ~Drained
      BY DEF Drained
    <3>4. ~UNCHANGED vars
      BY DEF vars
    <3> QED
      BY <3>1, <3>2, <3>3, <3>4 DEF Next, Connect, Upgrade, InactivityTimeout, SocketGone, Close,
                                    Message, Notify
  <2> DEFINE c == req[r].conn
  <2>3. c \in Conns /\ c \notin Closed
    BY <2>1, ActiveRequest DEF CountInv, ConnectionsInUse, Closed
  <2>4. counter[c] + Cardinality(Counting(c)) = Cardinality(SubsOf(c))
    BY <2>3 DEF CountInv, CounterCovers
  <2>5. ~(counter[c] < SubLimit) /\ counter[c] \in Int /\ SubLimit \in Nat
    BY <2>1, <2>2, <2>3, WsConstants DEF Limited, BelowLimit, TypeOK
  <2>6. Cardinality(Counting(c)) \in Nat
    BY CountedAreFinite DEF CountInv
  <2> QED
    BY <2>4, <2>5, <2>6
<1> QED
  BY <1>1, <1>2, CountInvInit, PTL DEF Spec, RefusedOnlyAtLimit

-----------------------------------------------------------------------------
(* One subscription per event, and the inactivity timer                    *)

\* the list of subscriptions changes only in subscribe and unsubscribe
LEMMA SubscriptionSteps ==
  ASSUME [Next]_vars
  PROVE  subs' \subseteq subs \/ \E c, t : subscribe(c, t)
<1>1. ASSUME NEW c, NEW id, unsubscribe(c, id) PROVE subs' \subseteq subs
  BY <1>1 DEF unsubscribe
<1>2. ASSUME NEW c \in Conns, Close(c) PROVE subs' \subseteq subs
  BY <1>1, <1>2 DEF Close
<1>3. ASSUME NEW r \in Requests, Unsubscribe(r) PROVE subs' \subseteq subs
  BY <1>1, <1>3 DEF Unsubscribe
<1>4. ASSUME NEW r \in Requests, SubscribeHeads(r) \/ SubscribeLogs(r) PROVE \E c, t : subscribe(c, t)
  BY <1>4 DEF SubscribeHeads, SubscribeLogs
<1>5. ASSUME NEW c \in Conns,
             Connect(c) \/ Upgrade(c) \/ InactivityTimeout(c) \/ SocketGone(c) \/ Message(c)
      PROVE  subs' = subs
  BY <1>5 DEF Connect, Upgrade, InactivityTimeout, SocketGone, Message, subVars
<1>6. ASSUME NEW r \in Requests,
             Limited(r) \/ ValidateLogs(r) \/ RejectLogs(r) \/ IncrementSubs(r) \/ Answer(r)
      PROVE  subs' = subs
  BY <1>6 DEF Limited, ValidateLogs, RejectLogs, IncrementSubs, Answer, subVars
<1>7. ASSUME UNCHANGED vars \/ \E t \in Tags : Notify(t) PROVE subs' = subs
  BY <1>7 DEF vars, Notify, subVars
<1> QED
  BY <1>2, <1>3, <1>4, <1>5, <1>6, <1>7 DEF Next, Handle

\* With WS_SAME_SUB_FOR_SAME_EVENT no connection is ever subscribed twice to
\* the same event, even when the subscriptions are validated concurrently.
THEOREM SameEventSameSubscription == Spec => []OneSubscriptionPerEvent
<1>1. Init => OneSubscriptionPerEvent
  BY DEF Init, OneSubscriptionPerEvent
<1>2. ASSUME OneSubscriptionPerEvent, [Next]_vars PROVE OneSubscriptionPerEvent'
  <2>1. CASE subs' \subseteq subs
    BY <1>2, <2>1 DEF OneSubscriptionPerEvent
  <2>2. ASSUME NEW c, NEW t, subscribe(c, t) PROVE OneSubscriptionPerEvent'
    <3>1. CASE subs' = subs
      BY <1>2, <3>1 DEF OneSubscriptionPerEvent
    <3>2. CASE subs' # subs /\ SameSub
      <4> DEFINE new == [id |-> nextId, conn |-> c, tag |-> t]
      <4>1. subs' = subs \cup {new} /\ \A s \in subs : ~(s.conn = c /\ s.tag = t)
        BY <2>2, <3>2 DEF subscribe, subVars
      <4>2. new.conn = c /\ new.tag = t
        OBVIOUS
      <4> HIDE DEF new
      <4> QED
        BY <1>2, <4>1, <4>2 DEF OneSubscriptionPerEvent
    <3> QED
      BY <3>1, <3>2 DEF OneSubscriptionPerEvent
  <2> QED
    BY <1>2, <2>1, <2>2, SubscriptionSteps
<1> QED
  BY <1>1, <1>2, PTL DEF Spec

\* An accepted connection always has a running inactivity timer.
THEOREM OpenConnectionsAreTimed == Spec => []OpenHasTimer
<1>1. Init => OpenHasTimer
  BY DEF Init, OpenHasTimer, Accepted
<1>2. ASSUME TypeOK, OpenHasTimer, [Next]_vars PROVE OpenHasTimer'
  <2>1. ASSUME NEW c \in Conns, Connect(c) \/ Upgrade(c) \/ InactivityTimeout(c) \/ SocketGone(c) \/ Close(c)
        PROVE  OpenHasTimer'
    BY <1>2, <2>1 DEF Connect, Upgrade, InactivityTimeout, SocketGone, Close, OpenHasTimer, Accepted, TypeOK
  <2>2. ASSUME NEW c \in Conns, Message(c) PROVE OpenHasTimer'
    BY <1>2, <2>2 DEF Message, connVars, OpenHasTimer, Accepted
  <2>3. ASSUME NEW r \in Requests, Handle(r) PROVE OpenHasTimer'
    <3>1. state' = state /\ ttl \subseteq ttl'
      BY <2>3 DEF Handle, Limited, SubscribeHeads, ValidateLogs, RejectLogs, SubscribeLogs,
                  IncrementSubs, Unsubscribe, Answer, connVars
    <3> QED
      BY <1>2, <3>1 DEF OpenHasTimer, Accepted
  <2>4. ASSUME UNCHANGED vars \/ \E t \in Tags : Notify(t) PROVE OpenHasTimer'
    <3>1. state' = state /\ ttl \subseteq ttl'
      BY <2>4 DEF vars, Notify, connVars
    <3> QED
      BY <1>2, <3>1 DEF OpenHasTimer, Accepted
  <2> QED
    BY <1>2, <2>1, <2>2, <2>3, <2>4 DEF Next
<1> QED
  BY <1>1, <1>2, WsTypeCorrect, PTL DEF Spec

-----------------------------------------------------------------------------
(* The limit of subscriptions                                              *)

\* log subscriptions of a connection that wait for the mirror node
Validating(c) == {r \in Requests : req[r].pc = "validate" /\ req[r].conn = c}

\* what a connection has and is about to have
OvershootInv ==
  \A c \in Conns :
    Cardinality(SubsOf(c)) + Cardinality(Validating(c)) <= SubLimit + Cardinality(Requests) - 1

LEMMA RequestsAreFinite ==
  /\ IsFiniteSet(Requests) /\ Cardinality(Requests) \in Nat /\ Cardinality(Requests) >= 1
  /\ \A R \in SUBSET Requests :
       IsFiniteSet(R) /\ Cardinality(R) \in Nat /\ Cardinality(R) <= Cardinality(Requests)
<1>1. PICK r : r \in Requests
  BY WsConstants
<1>2. IsFiniteSet(Requests) /\ Cardinality(Requests) \in Nat
  BY WsConstants, FS_CardinalityType
<1>3. ASSUME NEW R \in SUBSET Requests
      PROVE  IsFiniteSet(R) /\ Cardinality(R) \in Nat /\ Cardinality(R) <= Cardinality(Requests)
  BY <1>2, FS_Subset, FS_CardinalityType
<1>4. Cardinality({r}) = 1
  BY FS_Singleton
<1> QED
  BY <1>1, <1>2, <1>3, <1>4

\* a request whose limit is being looked at is neither validated nor counted
LEMMA OthersInFlight ==
  ASSUME NEW r \in Requests, req[r].pc = "received", NEW c
  PROVE  Cardinality(Validating(c)) + Cardinality(Counting(c)) <= Cardinality(Requests) - 1
<1> DEFINE V == Validating(c)
           K == Counting(c)
<1>1. V \in SUBSET Requests /\ K \in SUBSET Requests /\ V \cap K = {} /\ r \notin V \cup K
  BY DEF Validating, Counting
<1> HIDE DEF V, K
<1>2. IsFiniteSet(V) /\ IsFiniteSet(K) /\ Cardinality(V) \in Nat /\ Cardinality(K) \in Nat
  BY <1>1, RequestsAreFinite
<1>3. Cardinality(V \cup K) = Cardinality(V) + Cardinality(K)
  <2>1. Cardinality(V \cup K) = Cardinality(V) + Cardinality(K) - Cardinality(V \cap K)
    BY <1>2, FS_Union
  <2>2. Cardinality(V \cap K) = 0
    BY <1>1, FS_EmptySet
  <2> QED
    BY <1>2, <2>1, <2>2
<1>4. V \cup K \in SUBSET (Requests \ {r})
  BY <1>1
<1>5. IsFiniteSet(Requests \ {r}) /\ Cardinality(Requests \ {r}) = Cardinality(Requests) - 1
  BY RequestsAreFinite, FS_RemoveElement
<1>6. Cardinality(V \cup K) <= Cardinality(Requests \ {r})
  BY <1>4, <1>5, FS_Subset
<1> QED
  BY <1>3, <1>5, <1>6 DEF V, K

\* what creates and starts nothing
LEMMA OvershootShrinks ==
  ASSUME CountInv, OvershootInv, subs' \subseteq subs,
         \A c \in Conns : Validating(c)' \subseteq Validating(c)
  PROVE  OvershootInv'
<1> SUFFICES ASSUME NEW c \in Conns
             PROVE  Cardinality(SubsOf(c)') + Cardinality(Validating(c)')
                      <= SubLimit + Cardinality(Requests) - 1
  BY DEF OvershootInv
<1>1. SubsOf(c)' \subseteq SubsOf(c) /\ IsFiniteSet(SubsOf(c))
  BY CountedAreFinite DEF SubsOf, CountInv
<1>2. /\ Cardinality(SubsOf(c)') \in Nat /\ Cardinality(SubsOf(c)) \in Nat
      /\ Cardinality(SubsOf(c)') <= Cardinality(SubsOf(c))
  BY <1>1, FS_Subset, FS_CardinalityType
<1>3. IsFiniteSet(Validating(c))
  BY RequestsAreFinite DEF Validating
<1>4. /\ Cardinality(Validating(c)') \in Nat /\ Cardinality(Validating(c)) \in Nat
      /\ Cardinality(Validating(c)') <= Cardinality(Validating(c))
  BY <1>3, FS_Subset, FS_CardinalityType
<1> QED
  BY <1>2, <1>4, WsConstants, RequestsAreFinite DEF OvershootInv

\* subscribe after the limit was looked at, or the start of a validation
LEMMA OvershootGrows ==
  ASSUME CountInv, OvershootInv, NEW r \in Requests, req[r].pc = "received",
         NEW c \in Conns, c = req[r].conn, BelowLimit(c),
         Cardinality(SubsOf(c)') \in Nat, Cardinality(Validating(c)') \in Nat,
         Cardinality(SubsOf(c)') + Cardinality(Validating(c)')
           <= Cardinality(SubsOf(c)) + Cardinality(Validating(c)) + 1,
         \A d \in Conns \ {c} : SubsOf(d)' = SubsOf(d) /\ Validating(d)' = Validating(d)
  PROVE  OvershootInv'
<1>1. c \notin Closed
  BY DEF CountInv, ConnectionsInUse, Closed
<1>2. Cardinality(SubsOf(c)) <= counter[c] + Cardinality(Counting(c))
  BY <1>1 DEF CountInv, CounterCovers
<1>3. counter[c] < SubLimit /\ counter[c] \in Int /\ SubLimit \in Nat
  BY WsConstants DEF BelowLimit, CountInv, PollInv, TypeOK
<1>4. /\ Cardinality(Counting(c)) \in Nat /\ Cardinality(SubsOf(c)) \in Nat
      /\ Cardinality(Validating(c)) \in Nat /\ Cardinality(Requests) \in Nat
  BY CountedAreFinite, RequestsAreFinite DEF CountInv, Validating
<1>5. Cardinality(Validating(c)) + Cardinality(Counting(c)) <= Cardinality(Requests) - 1
  BY OthersInFlight
<1>6. Cardinality(SubsOf(c)') + Cardinality(Validating(c)') <= SubLimit + Cardinality(Requests) - 1
  BY <1>2, <1>3, <1>4, <1>5
<1> QED
  BY <1>6 DEF OvershootInv

LEMMA OvershootStep ==
  ASSUME CountInv, OvershootInv, [Next]_vars
  PROVE  OvershootInv'
<1>1. TypeOK /\ PollInv /\ IdsFresh
  BY DEF CountInv, PollInv
<1>2. ASSUME NEW r \in Requests, SubscribeHeads(r) PROVE OvershootInv'
  <2>1. PICK c \in Conns : c = req[r].conn
    BY <1>2, <1>1, ActiveRequest DEF SubscribeHeads
  <2>2. /\ req[r].pc = "received" /\ req[r].tag \in Tags /\ BelowLimit(c)
        /\ subscribe(c, req[r].tag) /\ Goto(r, "done")
    BY <1>2, <2>1 DEF SubscribeHeads, Tags
  <2>3. /\ Cardinality(SubsOf(c)') <= Cardinality(SubsOf(c)) + 1 /\ Cardinality(SubsOf(c)') \in Nat
        /\ \A d \in Conns \ {c} : SubsOf(d)' = SubsOf(d)
    BY <2>2, <1>1, SubscribeCounts
  <2>4. \A d \in Conns : Validating(d)' = Validating(d)
    BY <2>2, <1>1, GotoType DEF Validating
  <2>5. Cardinality(Validating(c)) \in Nat /\ Cardinality(SubsOf(c)) \in Nat
    BY <1>1, CountedAreFinite, RequestsAreFinite DEF Validating
  <2>6. Cardinality(Validating(c)') = Cardinality(Validating(c))
    BY <2>4
  <2>7. Cardinality(SubsOf(c)') + Cardinality(Validating(c)')
          <= Cardinality(SubsOf(c)) + Cardinality(Validating(c)) + 1
    BY <2>3, <2>5, <2>6
  <2> QED
    BY <2>1, <2>2, <2>3, <2>4, <2>5, <2>6, <2>7, OvershootGrows
<1>3. ASSUME NEW r \in Requests, ValidateLogs(r) PROVE OvershootInv'
  <2>1. PICK c \in Conns : c = req[r].conn
    BY <1>3, <1>1, ActiveRequest DEF ValidateLogs
  <2>2. req[r].pc = "received" /\ BelowLimit(c) /\ Goto(r, "validate") /\ subs' = subs
    BY <1>3, <2>1 DEF ValidateLogs, subVars
  <2>3. \A d \in Conns : SubsOf(d)' = SubsOf(d)
    BY <2>2 DEF SubsOf
  <2>4. /\ Validating(c)' = Validating(c) \cup {r} /\ r \notin Validating(c)
        /\ \A d \in Conns \ {c} : Validating(d)' = Validating(d)
    BY <2>1, <2>2, <1>1, GotoType DEF Validating
  <2>5. /\ IsFiniteSet(Validating(c)) /\ Cardinality(Validating(c)) \in Nat
        /\ Cardinality(SubsOf(c)) \in Nat
    BY <1>1, CountedAreFinite, RequestsAreFinite DEF Validating
  <2>6. Cardinality(Validating(c)') = Cardinality(Validating(c)) + 1
    BY <2>4, <2>5, FS_AddElement
  <2>7. Cardinality(SubsOf(c)') = Cardinality(SubsOf(c))
    BY <2>3
  <2>8. Cardinality(SubsOf(c)') + Cardinality(Validating(c)')
          <= Cardinality(SubsOf(c)) + Cardinality(Validating(c)) + 1
    BY <2>5, <2>6, <2>7
  <2> QED
    BY <2>1, <2>2, <2>3, <2>4, <2>5, <2>6, <2>7, <2>8, OvershootGrows, SMTT(20)
<1>4. ASSUME NEW r \in Requests, SubscribeLogs(r) PROVE OvershootInv'
  <2>1. PICK c \in Conns : c = req[r].conn
    BY <1>4, <1>1, ActiveRequest DEF SubscribeLogs
  <2>2. req[r].pc = "validate" /\ subscribe(c, req[r].tag) /\ Goto(r, "count")
    BY <1>4, <2>1 DEF SubscribeLogs
  <2>3. req[r].tag \in Tags
    BY <2>2, <1>1 DEF PollInv, PendingHasTag
  <2>4. /\ Cardinality(SubsOf(c)') <= Cardinality(SubsOf(c)) + 1 /\ Cardinality(SubsOf(c)') \in Nat
        /\ \A d \in Conns \ {c} : SubsOf(d)' = SubsOf(d)
    BY <2>2, <2>3, <1>1, SubscribeCounts
  <2>5. /\ Validating(c)' = Validating(c) \ {r} /\ r \in Validating(c)
        /\ \A d \in Conns \ {c} : Validating(d)' = Validating(d)
    BY <2>1, <2>2, <1>1, GotoType DEF Validating
  <2>6. /\ IsFiniteSet(Validating(c)) /\ Cardinality(Validating(c)) \in Nat
        /\ Cardinality(SubsOf(c)) \in Nat
    BY <1>1, CountedAreFinite, RequestsAreFinite DEF Validating
  <2>7. Cardinality(Validating(c)') = Cardinality(Validating(c)) - 1
    BY <2>5, <2>6, FS_RemoveElement
  <2>8. Cardinality(SubsOf(c)') + Cardinality(Validating(c)')
          <= SubLimit + Cardinality(Requests) - 1
    BY <2>4, <2>6, <2>7, WsConstants, RequestsAreFinite DEF OvershootInv
  <2> QED
    BY <2>4, <2>5, <2>8 DEF OvershootInv
<1>5. ASSUME NEW r \in Requests,
             Limited(r) \/ RejectLogs(r) \/ IncrementSubs(r) \/ Unsubscribe(r)
      PROVE  OvershootInv'
  <2>1. PICK pc \in {"refused", "done"} : Goto(r, pc)
    BY <1>5 DEF Limited, RejectLogs, IncrementSubs, Unsubscribe
  <2>2. req[r].pc # "idle" /\ subs' \subseteq subs
    BY <1>5 DEF Limited, RejectLogs, IncrementSubs, Unsubscribe, unsubscribe, subVars
  <2>3. \A d \in Conns : Validating(d)' \subseteq Validating(d)
    BY <2>1, <2>2, <1>1, GotoType DEF Validating
  <2> QED
    BY <2>2, <2>3, OvershootShrinks
<1>6. ASSUME NEW r \in Requests, Answer(r) PROVE OvershootInv'
  <2>1. req' = [req EXCEPT ![r] = IdleRequest] /\ subs' = subs
    BY <1>6 DEF Answer, subVars
  <2>2. \A d \in Conns : Validating(d)' \subseteq Validating(d)
    BY <2>1, <1>1 DEF Validating, IdleRequest, TypeOK
  <2> QED
    BY <2>1, <2>2, OvershootShrinks
<1>7. ASSUME NEW c \in Conns, Message(c) PROVE OvershootInv'
  <2>1. subs' = subs
    BY <1>7 DEF Message, subVars
  <2>2. \A r \in Requests : req'[r] = req[r] \/ req'[r].pc = "received"
    BY <1>7 DEF Message
  <2>3. \A d \in Conns : Validating(d)' \subseteq Validating(d)
    BY <2>2 DEF Validating
  <2> QED
    BY <2>1, <2>3, OvershootShrinks
<1>8. ASSUME NEW c \in Conns,
             Connect(c) \/ Upgrade(c) \/ InactivityTimeout(c) \/ SocketGone(c) \/ Close(c)
      PROVE  OvershootInv'
  <2>1. req' = req /\ subs' \subseteq subs
    BY <1>8 DEF Connect, Upgrade, InactivityTimeout, SocketGone, Close, unsubscribe, subVars
  <2>2. \A d \in Conns : Validating(d)' \subseteq Validating(d)
    BY <2>1 DEF Validating
  <2> QED
    BY <2>1, <2>2, OvershootShrinks
<1>9. ASSUME UNCHANGED vars \/ \E t \in Tags : Notify(t) PROVE OvershootInv'
  <2>1. req' = req /\ subs' = subs
    BY <1>9 DEF vars, Notify, subVars
  <2>2. \A d \in Conns : Validating(d)' \subseteq Validating(d)
    BY <2>1 DEF Validating
  <2> QED
    BY <2>1, <2>2, OvershootShrinks
<1> QED
  BY <1>2, <1>3, <1>4, <1>5, <1>6, <1>7, <1>8, <1>9 DEF Next, Handle

\* A connection exceeds WS_SUBSCRIPTION_LIMIT by no more than the requests in
\* flight besides the one that is answered, with or without
\* WS_SAME_SUB_FOR_SAME_EVENT.
THEOREM OvershootIsBounded == Spec => []OvershootBounded
<1>1. Init => OvershootInv
  <2> SUFFICES ASSUME Init, NEW c \in Conns
               PROVE  Cardinality(SubsOf(c)) + Cardinality(Validating(c))
                        <= SubLimit + Cardinality(Requests) - 1
    BY DEF OvershootInv
  <2>1. SubsOf(c) = {} /\ Validating(c) = {}
    BY DEF Init, SubsOf, Validating, IdleRequest
  <2>2. Cardinality(SubsOf(c)) = 0 /\ Cardinality(Validating(c)) = 0
    BY <2>1, FS_EmptySet
  <2> QED
    BY <2>2, RequestsAreFinite, WsConstants
<1>2. CountInv /\ OvershootInv /\ [Next]_vars => OvershootInv'
  BY OvershootStep
<1>3. CountInv /\ [Next]_vars => CountInv'
  BY CountInvStep
<1>4. CountInv /\ OvershootInv => OvershootBounded
  <2> SUFFICES ASSUME CountInv, OvershootInv, NEW c \in Conns
               PROVE  Cardinality(SubsOf(c)) <= SubLimit + Cardinality(Requests) - 1
    BY DEF OvershootBounded
  <2>1. Cardinality(SubsOf(c)) \in Nat /\ Cardinality(Validating(c)) \in Nat
    BY CountedAreFinite, RequestsAreFinite DEF CountInv, Validating
  <2> QED
    BY <2>1, RequestsAreFinite, WsConstants DEF OvershootInv
<1> QED
  BY <1>1, <1>2, <1>3, <1>4, CountInvInit, PTL DEF Spec

-----------------------------------------------------------------------------
(* The limits of connections                                               *)

\* connections of an address that were counted and are not closed
Held(i) == {c \in Conns : IpOf[c] = i /\ state[c] \in {"open", "closing", "gone"}}

\* the count of an address is exact, also between the end of a socket and its
\* close event
LimitInv ==
  /\ \A i \in Ips : clientIps[i] = Cardinality(Held(i))
  /\ ConnectionLimits

LEMMA ConnectionSetsAreFinite ==
  /\ IsFiniteSet(Sockets) /\ Cardinality(Sockets) \in Nat
  /\ \A i : /\ IsFiniteSet(Held(i)) /\ Cardinality(Held(i)) \in Nat
            /\ IsFiniteSet({c \in Accepted : IpOf[c] = i})
  /\ IsFiniteSet(Accepted)
<1>1. /\ Sockets \subseteq Conns /\ Accepted \subseteq Conns
      /\ \A i : Held(i) \subseteq Conns /\ {c \in Accepted : IpOf[c] = i} \subseteq Conns
  BY DEF Sockets, Held, Accepted
<1> QED
  BY <1>1, WsConstants, FS_Subset, FS_CardinalityType

\* whatever accepts no connection keeps the limits
LEMMA LimitsKept ==
  ASSUME ConnectionLimits, TypeOK, Accepted' \subseteq Accepted
  PROVE  ConnectionLimits'
<1>1. ConnLimit \in Nat /\ IpLimit \in Nat
  BY WsConstants
<1>2. Cardinality(Accepted') <= ConnLimit
  <2>1. Cardinality(Accepted') <= Cardinality(Accepted) /\ Cardinality(Accepted') \in Nat
        /\ Cardinality(Accepted) \in Nat
    BY ConnectionSetsAreFinite, FS_Subset, FS_CardinalityType
  <2> QED
    BY <1>1, <2>1 DEF ConnectionLimits
<1>3. ASSUME NEW i \in Ips PROVE Cardinality({c \in Accepted' : IpOf[c] = i}) <= IpLimit
  <2> DEFINE A == {c \in Accepted : IpOf[c] = i}
             B == {c \in Accepted' : IpOf[c] = i}
  <2>1. B \subseteq A /\ IsFiniteSet(A)
    BY ConnectionSetsAreFinite
  <2>2. Cardinality(A) <= IpLimit
    BY DEF ConnectionLimits
  <2> HIDE DEF A, B
  <2>3. Cardinality(B) <= Cardinality(A) /\ Cardinality(B) \in Nat /\ Cardinality(A) \in Nat
    BY <2>1, FS_Subset, FS_CardinalityType
  <2>4. Cardinality(B) <= IpLimit
    BY <1>1, <2>2, <2>3
  <2> QED
    BY <2>4 DEF B
<1> QED
  BY <1>2, <1>3 DEF ConnectionLimits

\* the connection handler, with the limits it applies
LEMMA LimitUpgrade ==
  ASSUME TypeOK, LimitInv, NEW c \in Conns, Upgrade(c)
  PROVE  LimitInv'
<1> DEFINE ip == IpOf[c]
<1>1. ip \in Ips /\ ConnLimit \in Nat /\ IpLimit \in Nat
  BY WsConstants
<1>2. /\ state[c] = "tcp" /\ state'[c] \in {"open", "closing"}
      /\ \A d \in Conns \ {c} : state'[d] = state[d]
      /\ clientIps'[ip] = clientIps[ip] + 1
      /\ \A i \in Ips \ {ip} : clientIps'[i] = clientIps[i]
      /\ state'[c] = "open" => Cardinality(Sockets) <= ConnLimit /\ clientIps[ip] + 1 <= IpLimit
  BY <1>1 DEF Upgrade, TypeOK
<1>3. Held(ip)' = Held(ip) \cup {c} /\ c \notin Held(ip)
  BY <1>2 DEF Held
<1>4. Cardinality(Held(ip)') = Cardinality(Held(ip)) + 1
  BY <1>3, ConnectionSetsAreFinite, FS_AddElement
<1>5. \A i \in Ips \ {ip} : Held(i)' = Held(i)
  BY <1>2 DEF Held
<1>6. clientIps[ip] = Cardinality(Held(ip)) /\ clientIps[ip] \in Int
  BY <1>1 DEF LimitInv, TypeOK
<1>7. \A i \in Ips : clientIps'[i] = Cardinality(Held(i)')
  BY <1>2, <1>4, <1>5, <1>6 DEF LimitInv
<1>8. ConnectionLimits'
  <2>1. CASE state'[c] # "open"
    <3>1. Accepted' \subseteq Accepted
      BY <1>2, <2>1 DEF Accepted
    <3> QED
      BY <3>1, LimitsKept DEF LimitInv
  <2>2. CASE state'[c] = "open"
    <3>1. Accepted' \subseteq Sockets
      BY <1>2 DEF Accepted, Sockets
    <3>2. Cardinality(Accepted') <= Cardinality(Sockets) /\ Cardinality(Accepted') \in Nat
      BY <3>1, ConnectionSetsAreFinite, FS_Subset, FS_CardinalityType
    <3>3. Cardinality(Accepted') <= ConnLimit
      BY <1>1, <1>2, <2>2, <3>2, ConnectionSetsAreFinite
    <3>4. ASSUME NEW i \in Ips PROVE Cardinality({d \in Accepted' : IpOf[d] = i}) <= IpLimit
      <4> DEFINE B == {d \in Accepted' : IpOf[d] = i}
      <4>1. CASE i = ip
        <5>1. IsFiniteSet(Held(ip) \cup {c})
          BY ConnectionSetsAreFinite, FS_AddElement
        <5>2. B \subseteq Held(ip) \cup {c}
          BY <1>2, <4>1 DEF Accepted, Held
        <5> HIDE DEF B
        <5>3. Cardinality(B) <= Cardinality(Held(ip) \cup {c}) /\ Cardinality(B) \in Nat
          BY <5>1, <5>2, FS_Subset, FS_CardinalityType
        <5>4. Cardinality(Held(ip) \cup {c}) = clientIps[ip] + 1
          BY <1>3, <1>4, <1>6
        <5>5. Cardinality(B) <= IpLimit
          BY <1>1, <1>2, <1>6, <2>2, <5>3, <5>4
        <5> QED
          BY <5>5 DEF B
      <4>2. CASE i # ip
        <5>1. B = {d \in Accepted : IpOf[d] = i}
          BY <1>2, <4>2 DEF Accepted
        <5> QED
          BY <5>1 DEF LimitInv, ConnectionLimits
      <4> QED
        BY <4>1, <4>2
    <3> QED
      BY <3>3, <3>4 DEF ConnectionLimits
  <2> QED
    BY <2>1, <2>2
<1> QED
  BY <1>7, <1>8 DEF LimitInv

LEMMA LimitStep ==
  ASSUME TypeOK, LimitInv, [Next]_vars
  PROVE  LimitInv'
<1>1. ASSUME NEW c \in Conns, Connect(c) \/ InactivityTimeout(c) \/ SocketGone(c) PROVE LimitInv'
  <2>1. /\ clientIps' = clientIps
        /\ \A d \in Conns : \/ state'[d] = state[d]
                            \/ state[d] = "new" /\ state'[d] = "tcp"
                            \/ state[d] = "open" /\ state'[d] = "closing"
                            \/ state[d] \in {"open", "closing"} /\ state'[d] = "gone"
    BY <1>1 DEF Connect, InactivityTimeout, SocketGone, TypeOK
  <2>2. \A i \in Ips : Held(i)' = Held(i)
    BY <2>1 DEF Held
  <2>3. Accepted' \subseteq Accepted
    BY <2>1 DEF Accepted
  <2> QED
    BY <2>1, <2>2, <2>3, LimitsKept DEF LimitInv
<1>2. ASSUME NEW c \in Conns, Close(c) PROVE LimitInv'
  <2> DEFINE ip == IpOf[c]
  <2>1. ip \in Ips
    BY WsConstants
  <2>2. /\ state[c] = "gone" /\ state'[c] = "closed"
        /\ \A d \in Conns \ {c} : state'[d] = state[d]
        /\ clientIps'[ip] = clientIps[ip] - 1
        /\ \A i \in Ips \ {ip} : clientIps'[i] = clientIps[i]
    BY <1>2, <2>1 DEF Close, TypeOK
  <2>3. Held(ip)' = Held(ip) \ {c} /\ c \in Held(ip)
    BY <2>2 DEF Held
  <2>4. Cardinality(Held(ip)') = Cardinality(Held(ip)) - 1
    BY <2>3, ConnectionSetsAreFinite, FS_RemoveElement
  <2>5. \A i \in Ips \ {ip} : Held(i)' = Held(i)
    BY <2>2 DEF Held
  <2>6. \A i \in Ips : clientIps'[i] = Cardinality(Held(i)')
    BY <2>1, <2>2, <2>4, <2>5 DEF LimitInv
  <2>7. Accepted' \subseteq Accepted
    BY <2>2 DEF Accepted
  <2> QED
    BY <2>6, <2>7, LimitsKept DEF LimitInv
<1>3. ASSUME UNCHANGED <<state, clientIps>> PROVE LimitInv'
  <2>1. Accepted' = Accepted /\ \A i \in Ips : Held(i)' = Held(i)
    BY <1>3 DEF Accepted, Held
  <2> QED
    BY <1>3, <2>1, LimitsKept DEF LimitInv
<1>4. ASSUME NEW c \in Conns, Message(c) PROVE UNCHANGED <<state, clientIps>>
  BY <1>4 DEF Message, connVars
<1>5. ASSUME NEW r \in Requests, Handle(r) PROVE UNCHANGED <<state, clientIps>>
  BY <1>5 DEF Handle, Limited, SubscribeHeads, ValidateLogs, RejectLogs, SubscribeLogs,
              IncrementSubs, Unsubscribe, Answer, connVars
<1>6. ASSUME UNCHANGED vars \/ \E t \in Tags : Notify(t) PROVE UNCHANGED <<state, clientIps>>
  BY <1>6 DEF vars, Notify, connVars
<1> QED
  BY <1>1, <1>2, <1>3, <1>4, <1>5, <1>6, LimitUpgrade DEF Next

\* Never more connections are accepted than WS_CONNECTION_LIMIT, nor of one
\* address more than WS_CONNECTION_LIMIT_PER_IP, in whatever order sockets end
\* and close events are handled.
THEOREM ConnectionLimitsHold == Spec => []ConnectionLimits
<1>1. Init => LimitInv
  <2> SUFFICES ASSUME Init PROVE LimitInv
    OBVIOUS
  <2>1. Accepted = {} /\ \A i : Held(i) = {} /\ {c \in Accepted : IpOf[c] = i} = {}
    BY DEF Init, Accepted, Held
  <2>2. Cardinality({}) = 0
    BY FS_EmptySet
  <2>3. \A i \in Ips : clientIps[i] = Cardinality(Held(i))
    BY <2>1, <2>2 DEF Init
  <2>4. ConnectionLimits
    BY <2>1, <2>2, WsConstants DEF ConnectionLimits
  <2> QED
    BY <2>3, <2>4 DEF LimitInv
<1>2. TypeOK /\ LimitInv /\ [Next]_vars => LimitInv'
  BY LimitStep
<1>3. LimitInv => ConnectionLimits
  BY DEF LimitInv
<1> QED
  BY <1>1, <1>2, <1>3, WsTypeCorrect, PTL DEF Spec

\* The limits of ConnectionLimiter hold for any number of connections,
\* addresses and concurrent requests.
THEOREM LimiterLimits == Spec => []LimitsHold
BY OvershootIsBounded, ConnectionLimitsHold, OpenConnectionsAreTimed, PTL DEF LimitsHold

-----------------------------------------------------------------------------
(* newHeads subscriptions                                                  *)

\* only log subscriptions wait for the mirror node
HeadInv ==
  /\ HeadsEndWithConnection
  /\ \A r \in Requests : req[r].pc = "validate" => req[r].tag \in LogTags

LEMMA HeadInvStep ==
  ASSUME CountInv, HeadInv, [Next]_vars
  PROVE  HeadInv'
<1>1. TypeOK
  BY DEF CountInv, PollInv
<1>2. ASSUME subs' \subseteq subs, Closed' \subseteq Closed PROVE HeadsEndWithConnection'
  BY <1>2 DEF HeadInv, HeadsEndWithConnection, TagsOf, SubsOf
<1>3. ASSUME NEW c \in Conns, NEW t \in Tags, subscribe(c, t), Closed' = Closed,
             c \notin Closed \/ t \in LogTags
      PROVE  HeadsEndWithConnection'
  <2>1. \A s \in subs' : s \in subs \/ (s.conn = c /\ s.tag = t)
    BY <1>3, SubscribeCounts DEF CountInv
  <2> QED
    BY <1>3, <2>1, WsConstants DEF HeadInv, HeadsEndWithConnection, TagsOf, SubsOf
<1>4. ASSUME NEW c \in Conns,
             Connect(c) \/ Upgrade(c) \/ InactivityTimeout(c) \/ SocketGone(c) \/ Message(c)
      PROVE  HeadInv'
  <2>1. subs' = subs /\ \A r \in Requests : req'[r] = req[r] \/ req'[r].pc = "received"
    <3>1. CASE Message(c)
      BY <3>1 DEF Message, subVars
    <3>2. CASE ~Message(c)
      BY <1>4, <3>2 DEF Connect, Upgrade, InactivityTimeout, SocketGone, subVars
    <3> QED
      BY <3>1, <3>2
  <2>2. Closed' \subseteq Closed
    BY <1>1, <1>4 DEF Connect, Upgrade, InactivityTimeout, SocketGone, Message, connVars, Closed, TypeOK
  <2> QED
    BY <1>2, <2>1, <2>2 DEF HeadInv
<1>5. ASSUME NEW c \in Conns, Close(c) PROVE HeadInv'
  <2>1. subs' = subs \ Matching(c, All) /\ req' = req /\ Closed' = Closed \cup {c}
    BY <1>1, <1>5 DEF Close, unsubscribe, Closed, TypeOK
  <2>2. SubsOf(c)' = {} /\ \A d : SubsOf(d)' \subseteq SubsOf(d)
    BY <2>1 DEF Matching, SubsOf
  <2> QED
    BY <2>1, <2>2 DEF HeadInv, HeadsEndWithConnection, TagsOf
<1>6. ASSUME NEW r \in Requests,
             Limited(r) \/ ValidateLogs(r) \/ RejectLogs(r) \/ IncrementSubs(r) \/ Unsubscribe(r)
      PROVE  HeadInv'
  <2>1. PICK pc \in {"refused", "validate", "done"} :
          Goto(r, pc) /\ (pc = "validate" => req[r].tag \in LogTags)
    BY <1>6 DEF Limited, ValidateLogs, RejectLogs, IncrementSubs, Unsubscribe
  <2>2. req[r].pc # "idle" /\ subs' \subseteq subs /\ state' = state
    BY <1>6 DEF Limited, ValidateLogs, RejectLogs, IncrementSubs, Unsubscribe, unsubscribe,
                subVars, connVars
  <2>3. \A q \in Requests : req'[q].pc = "validate" => req'[q].tag \in LogTags
    BY <1>1, <2>1, <2>2, GotoType DEF HeadInv
  <2> QED
    BY <1>2, <2>2, <2>3 DEF HeadInv, Closed
<1>7. ASSUME NEW r \in Requests, SubscribeHeads(r) \/ SubscribeLogs(r) PROVE HeadInv'
  <2>1. PICK c \in Conns : c = req[r].conn
    BY <1>1, <1>7, ActiveRequest DEF SubscribeHeads, SubscribeLogs
  <2>2. PICK pc \in {"count", "done"} : Goto(r, pc)
    BY <1>7 DEF SubscribeHeads, SubscribeLogs
  <2>3. req[r].pc # "idle" /\ subscribe(c, req[r].tag) /\ state' = state
    BY <1>7, <2>1 DEF SubscribeHeads, SubscribeLogs, connVars
  <2>4. \A q \in Requests : req'[q].pc = "validate" => req'[q].tag \in LogTags
    BY <1>1, <2>2, <2>3, GotoType DEF HeadInv
  <2>5. req[r].tag \in Tags /\ (c \notin Closed \/ req[r].tag \in LogTags)
    BY <1>7, <2>1 DEF SubscribeHeads, SubscribeLogs, HeadInv, CountInv, ConnectionsInUse, Closed, Tags
  <2> QED
    BY <1>3, <2>3, <2>4, <2>5 DEF HeadInv, Closed
<1>8. ASSUME NEW r \in Requests, Answer(r) PROVE HeadInv'
  <2>1. req' = [req EXCEPT ![r] = IdleRequest] /\ subs' = subs /\ state' = state
    BY <1>8 DEF Answer, subVars, connVars
  <2>2. \A q \in Requests : req'[q].pc = "validate" => req'[q].tag \in LogTags
    BY <1>1, <2>1 DEF HeadInv, IdleRequest, TypeOK
  <2> QED
    BY <1>2, <2>1, <2>2 DEF HeadInv, Closed
<1>9. ASSUME UNCHANGED vars \/ \E t \in Tags : Notify(t) PROVE HeadInv'
  <2>1. req' = req /\ subs' = subs /\ state' = state
    BY <1>9 DEF vars, Notify, subVars, connVars
  <2> QED
    BY <1>2, <2>1 DEF HeadInv, Closed
<1> QED
  BY <1>4, <1>5, <1>6, <1>7, <1>8, <1>9 DEF Next, Handle

\* No newHeads subscription outlives its connection, in whatever order batches,
\* log subscriptions in validation and close events are handled.
THEOREM HeadsAreUnsubscribed == Spec => []HeadsEndWithConnection
<1>1. Init => HeadInv
  BY DEF Init, HeadInv, HeadsEndWithConnection, Closed, IdleRequest
<1>2. CountInv /\ HeadInv /\ [Next]_vars => HeadInv'
  BY HeadInvStep
<1>3. CountInv /\ [Next]_vars => CountInv'
  BY CountInvStep
<1>4. HeadInv => HeadsEndWithConnection
  BY DEF HeadInv
<1> QED
  BY <1>1, <1>2, <1>3, <1>4, CountInvInit, PTL DEF Spec

-----------------------------------------------------------------------------
(***************************************************************************)
(* Progress: what a handler and a connection have before them.             *)
(***************************************************************************)

\* the steps of a handler that are left, at most
Left == [idle |-> 0, done |-> 1, refused |-> 1, count |-> 2, validate |-> 3, received |-> 4]

\* the life that a connection has before it
Life == [new |-> 5, tcp |-> 4, open |-> 3, closing |-> 2, gone |-> 1, closed |-> 0]

\* only its own handler touches a request that is being processed
LEMMA OwnHandlerOnly ==
  ASSUME PollInv, NEW r \in Requests, Handle(r)
  PROVE  /\ Left[req'[r].pc] < Left[req[r].pc]
         /\ \A q \in Requests \ {r} : req'[q] = req[q]
         /\ state' = state
<1>1. TypeOK
  BY DEF PollInv
<1>2. CASE Answer(r)
  <2>1. req' = [req EXCEPT ![r] = IdleRequest] /\ req[r].pc \in {"refused", "done"} /\ state' = state
    BY <1>2 DEF Answer, connVars
  <2>2. req'[r] = IdleRequest /\ \A q \in Requests \ {r} : req'[q] = req[q]
    BY <1>1, <2>1 DEF TypeOK
  <2> QED BY <2>1, <2>2 DEF Left, IdleRequest
<1>3. CASE ~Answer(r)
  <2>1. PICK pc \in {"validate", "count", "refused", "done"} :
          /\ Goto(r, pc) /\ state' = state
          /\ \/ req[r].pc = "received" /\ pc # "count"
             \/ req[r].pc = "validate" /\ pc \in {"count", "done"}
             \/ req[r].pc = "count" /\ pc = "done"
    BY <1>3 DEF Handle, Limited, SubscribeHeads, ValidateLogs, RejectLogs, SubscribeLogs,
                IncrementSubs, Unsubscribe, connVars
  <2>2. req'[r].pc = pc /\ \A q \in Requests \ {r} : req'[q] = req[q]
    BY <1>1, <2>1, GotoType
  <2> QED BY <2>1, <2>2 DEF Left
<1> QED BY <1>2, <1>3

\* messages, timers and sockets leave a request alone that is being processed,
\* and take a connection on only
LEMMA ConnectionsMoveOn ==
  ASSUME PollInv, [Next]_vars, \A r \in Requests : ~Handle(r)
  PROVE  /\ \A r \in Requests : req[r].pc # "idle" => req'[r] = req[r]
         /\ \A d \in Conns : state'[d] # state[d] => Life[state'[d]] < Life[state[d]]
<1>1. state \in [Conns -> States] /\ req \in [Requests -> Request]
  BY DEF PollInv, TypeOK
<1>2. ASSUME NEW c \in Conns, Message(c)
      PROVE  state' = state /\ \A r \in Requests : req[r].pc # "idle" => req'[r] = req[r]
  <2> PICK B \in SUBSET {r \in Requests : req[r].pc = "idle"} :
        \E call \in [B -> Call] :
          req' = [r \in Requests |->
                    IF r \in B
                    THEN [pc |-> "received", conn |-> c, tag |-> call[r].tag, id |-> call[r].id]
                    ELSE req[r]]
    BY <1>2 DEF Message
  <2>1. PICK call \in [B -> Call] :
          req' = [r \in Requests |->
                    IF r \in B
                    THEN [pc |-> "received", conn |-> c, tag |-> call[r].tag, id |-> call[r].id]
                    ELSE req[r]]
    OBVIOUS
  <2>2. \A r \in Requests : r \notin B => req'[r] = req[r]
    BY <2>1
  <2> QED BY <1>2, <2>2 DEF Message, connVars
<1>3. ASSUME NEW c \in Conns,
             Connect(c) \/ Upgrade(c) \/ InactivityTimeout(c) \/ SocketGone(c) \/ Close(c)
      PROVE  /\ req' = req
             /\ \A d \in Conns : state'[d] # state[d] => Life[state'[d]] < Life[state[d]]
  <2>1. PICK s : /\ req' = req /\ state' = [state EXCEPT ![c] = s]
                 /\ \/ state[c] = "new" /\ s = "tcp"
                    \/ state[c] = "tcp" /\ s \in {"open", "closing"}
                    \/ s = state[c]
                    \/ state[c] = "open" /\ s = "closing"
                    \/ state[c] \in {"open", "closing"} /\ s = "gone"
                    \/ state[c] = "gone" /\ s = "closed"
    BY <1>3 DEF Connect, Upgrade, InactivityTimeout, SocketGone, Close
  <2>2. state'[c] = s /\ \A d \in Conns : d # c => state'[d] = state[d]
    BY <1>1, <2>1
  <2>3. state'[c] # state[c] => Life[state'[c]] < Life[state[c]]
    BY <2>1, <2>2 DEF Life
  <2> QED BY <2>1, <2>2, <2>3
<1>4. ASSUME UNCHANGED vars \/ \E t \in Tags : Notify(t) PROVE req' = req /\ state' = state
  BY <1>4 DEF vars, Notify, connVars
<1> QED BY <1>2, <1>3, <1>4 DEF Next

\* A handler has at most four steps from the arrival of its request to the
\* answer, whatever connections and other handlers do meanwhile, and nobody
\* else touches its request; and a connection never goes back to a state it has
\* left, so that its close event, which gives back its place, is handled once
\* (onConnection, handleConnectionClose).
THEOREM HandlersMoveOn ==
  Spec => [][/\ \A r \in Requests :
                  /\ Handle(r) => Left[req'[r].pc] < Left[req[r].pc]
                  /\ ~Handle(r) /\ req[r].pc # "idle" => req'[r] = req[r]
             /\ \A c \in Conns : state'[c] # state[c] => Life[state'[c]] < Life[state[c]]]_vars
<1>1. ASSUME PollInv, [Next]_vars
      PROVE  /\ \A r \in Requests :
                  /\ Handle(r) => Left[req'[r].pc] < Left[req[r].pc]
                  /\ ~Handle(r) /\ req[r].pc # "idle" => req'[r] = req[r]
             /\ \A c \in Conns : state'[c] # state[c] => Life[state'[c]] < Life[state[c]]
  <2>1. CASE \A r \in Requests : ~Handle(r)
    BY <1>1, <2>1, ConnectionsMoveOn
  <2>2. CASE \E q \in Requests : Handle(q)
    <3>1. PICK q \in Requests : Handle(q)
      BY <2>2
    <3>2. \A r \in Requests \ {q} : req'[r] = req[r] /\ ~Handle(r)
      <4>1. \A r \in Requests \ {q} : req'[r] = req[r]
        BY <1>1, <3>1, OwnHandlerOnly
      <4>2. \A r \in Requests : Left[req[r].pc] \in 0..4
        BY <1>1 DEF PollInv, TypeOK, Request, IdleRequest, Left
      <4>3. \A r \in Requests : Handle(r) => req'[r] # req[r]
        BY <1>1, <4>2, OwnHandlerOnly
      <4> QED BY <4>1, <4>3
    <3>3. state' = state /\ Left[req'[q].pc] < Left[req[q].pc]
      BY <1>1, <3>1, OwnHandlerOnly
    <3> QED BY <3>1, <3>2, <3>3
  <2> QED BY <2>1, <2>2
<1>2. PollInv /\ [Next]_vars =>
        [/\ \A r \in Requests :
              /\ Handle(r) => Left[req'[r].pc] < Left[req[r].pc]
              /\ ~Handle(r) /\ req[r].pc # "idle" => req'[r] = req[r]
         /\ \A c \in Conns : state'[c] # state[c] => Life[state'[c]] < Life[state[c]]]_vars
  BY <1>1
<1> QED BY <1>2, PollInvInit, PollInvStep, PTL DEF Spec
=============================================================================
