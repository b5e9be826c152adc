------------------------------ MODULE Delivery ------------------------------
(***************************************************************************)
(* How events reach the subscribers of one tag of the WebSocket server:    *)
(* the poller's interval, the cached block number, the poll of a tag, and  *)
(* notifySubscribers, which drops what it sent recently.                   *)
(*                                                                         *)
(* The interval does not wait for the previous tick, so ticks overlap as   *)
(* soon as the mirror node is slower than WS_POLLING_INTERVAL, and answers *)
(* arrive in any order.  Every block holds one log that the tag matches;   *)
(* a log, like a header, is identified with the number of its block.       *)
(***************************************************************************)
EXTENDS Integers, FiniteSets

CONSTANTS
  Ticks,        \* turns of the interval that may overlap
  Subscribers,  \* subscription ids
  MaxActive,    \* bound: subscriptions of the tag and running ticks at a time
  LogRange,     \* ETH_GET_LOGS_BLOCK_RANGE_LIMIT; a tag with one address has none
  MaxHead,      \* bound: number of the last block mined
  Expirable     \* bound: hashes that may expire or be evicted from the sent cache

ASSUME DeliveryConstants ==
  /\ LogRange \in Nat
  /\ MaxActive \in Nat
  /\ MaxHead \in Nat \ {0}

VARIABLES
  event,        \* what the tag subscribes to: "logs" or "newHeads"
  head,         \* the mirror node's latest block
  numberCache,  \* the cached answer of eth_blockNumber, or None
  latestBlock,  \* PollerService.latestBlock, or None
  lastPolled,   \* lastPolled of the poll, or None
  members,      \* subscriptions of the tag
  tick,         \* the turns of the interval under way
  sent,         \* sent[s]: the items sent to s
  sentCache,    \* hashes in the cache of the subscription service
  repeated,     \* history: <<s, b>> sent to s twice
  dropped,      \* history: <<s, b>> the cache dropped after sending
  due,          \* history: due[s], the first block s must hear of, or None
  missed        \* history: blocks that no poll asked for, or only one that failed

dMirror == <<head>>
dPoller == <<numberCache, latestBlock, lastPolled, members, tick>>
dCache == <<sent, sentCache, repeated, dropped>>
dVars == <<event, dMirror, dPoller, dCache, due, missed>>

None == 0
Blocks == 1..MaxHead
NoTick == [pc |-> "idle", number |-> None, from |-> None, upTo |-> None, live |-> TRUE]
TickStates == {"idle", "asking", "answered", "fetching", "arrived"}

\* Types of the variables of the poller and the subscription service.
DTypeOK ==
  /\ event \in {"logs", "newHeads"}
  /\ head \in Blocks
  /\ {numberCache, latestBlock, lastPolled} \subseteq Blocks \cup {None}
  /\ members \subseteq Subscribers
  /\ tick \in [Ticks -> [pc : TickStates, number : Blocks \cup {None}, from : Blocks \cup {None},
                         upTo : Blocks \cup {None}, live : BOOLEAN]]
  /\ sent \in [Subscribers -> SUBSET Blocks]
  /\ {repeated, dropped, sentCache} \subseteq SUBSET (Subscribers \X Blocks)
  /\ due \in [Subscribers -> 0 .. MaxHead + 1]
  /\ missed \subseteq Blocks

DInit ==
  /\ event \in {"logs", "newHeads"}
  /\ head = 1
  /\ numberCache = None
  /\ latestBlock = None
  /\ lastPolled = None
  /\ members = {}
  /\ tick = [t \in Ticks |-> NoTick]
  /\ sent = [s \in Subscribers |-> {}]
  /\ sentCache = {}
  /\ repeated = {}
  /\ dropped = {}
  /\ due = [s \in Subscribers |-> None]
  /\ missed = {}

Polling == members # {}
Running(t) == tick[t].pc # "idle"
HasRoom == Cardinality(members) + Cardinality({t \in Ticks : Running(t)}) < MaxActive

-----------------------------------------------------------------------------
(* The mirror node and the caches                                          *)

ImportBlock ==
  /\ head < MaxHead
  /\ head' = head + 1
  /\ UNCHANGED <<event, dPoller, dCache, due, missed>>

NumberExpires ==
  /\ numberCache # None
  /\ numberCache' = None
  /\ UNCHANGED <<event, head, latestBlock, lastPolled, members, tick, dCache, due, missed>>

\* WS_CACHE_TTL has passed, or CACHE_MAX newer hashes pushed the entry out
HashExpires(h) ==
  /\ h \in sentCache
  /\ h \notin dropped
  /\ sentCache' = sentCache \ {h}
  /\ dropped' = dropped \cup {h}
  /\ UNCHANGED <<event, head, dPoller, sent, repeated, due, missed>>

-----------------------------------------------------------------------------
(* Subscriptions: the first makes a poll object, the last to go removes it *)
(* from the list, though its fetches under way still end with a callback.  *)
(* An id that has left is forgotten: the next one to join gets a new id.   *)

Join(s) ==
  /\ s \notin members
  /\ HasRoom
  /\ members' = members \cup {s}
  /\ due' = [due EXCEPT ![s] = head + 1]
  /\ UNCHANGED <<event, head, numberCache, latestBlock, lastPolled, tick, dCache, missed>>

Leave(s) ==
  /\ s \in members
  /\ members' = members \ {s}
  /\ due' = [due EXCEPT ![s] = None]
  /\ sent' = [sent EXCEPT ![s] = {}]
  /\ sentCache' = sentCache \ ({s} \X Blocks)
  /\ repeated' = repeated \ ({s} \X Blocks)
  /\ dropped' = dropped \ ({s} \X Blocks)
  /\ IF members = {s}
     THEN /\ lastPolled' = None
          /\ tick' = [t \in Ticks |-> [tick[t] EXCEPT !.live = @ /\ tick[t].pc \notin {"fetching", "arrived"}]]
          /\ missed' = {}
     ELSE UNCHANGED <<lastPolled, tick, missed>>
  /\ UNCHANGED <<event, head, numberCache, latestBlock>>

-----------------------------------------------------------------------------
(* One turn of the interval                                                *)

\* a poll object's fetch under way: its end will move lastPolled to the latest block
Polls(t) == tick[t].pc \in {"fetching", "arrived"} /\ tick[t].live

\* the poll that failed is not repeated: another turn has moved lastPolled, or is about to
NotRepeated(t) == lastPolled # tick[t].from \/ \E u \in Ticks \ {t} : Polls(u)

Covers(t, b) == Polls(t) /\ tick[t].from <= b /\ (tick[t].pc = "arrived" => b <= tick[t].upTo)

\* mutant: the first poll starts at the first block
StartOfChain(number) ==
  IF event = "newHeads" THEN None ELSE IF lastPolled # None THEN lastPolled ELSE 1

PollStart(number) ==
  IF event = "newHeads" THEN None ELSE IF lastPolled # None THEN lastPolled ELSE number

\* latestBlock is set, and poll() asks for what the tag wants since lastPolled.  Until a
\* poll of the tag has ended well that is the latest block, even if one is under way: what
\* was mined before is left out.
PollSince(t, number) ==
  /\ latestBlock' = number
  /\ IF Polling
     THEN LET from == PollStart(number) IN
          /\ tick' = [tick EXCEPT ![t] = [NoTick EXCEPT !.pc = "fetching", !.from = from]]
          /\ missed' = missed \cup {b \in 1 .. from - 1 : lastPolled = None /\ \A u \in Ticks : ~Covers(u, b)}
     ELSE tick' = [tick EXCEPT ![t] = NoTick] /\ UNCHANGED missed
  /\ UNCHANGED <<event, head, lastPolled, members, dCache, due>>

\* the interval fires while eth_blockNumber is cached: no wait before the polls
TickCached(t) ==
  /\ Polling
  /\ ~Running(t) /\ HasRoom
  /\ numberCache # None
  /\ PollSince(t, numberCache)
  /\ UNCHANGED numberCache

Tick(t) ==
  /\ Polling
  /\ ~Running(t) /\ HasRoom
  /\ numberCache = None
  /\ tick' = [tick EXCEPT ![t] = [NoTick EXCEPT !.pc = "asking"]]
  /\ UNCHANGED <<event, head, numberCache, latestBlock, lastPolled, members, dCache, due, missed>>

NumberRead(t) ==
  /\ tick[t].pc = "asking"
  /\ tick' = [tick EXCEPT ![t].pc = "answered", ![t].number = head]
  /\ UNCHANGED <<event, head, numberCache, latestBlock, lastPolled, members, dCache, due, missed>>

NumberArrives(t) ==
  /\ tick[t].pc = "answered"
  /\ numberCache' = tick[t].number
  /\ PollSince(t, tick[t].number)

\* nobody catches the rejection of the interval's callback: this turn polls nothing
NumberFails(t) ==
  /\ tick[t].pc = "asking"
  /\ tick' = [tick EXCEPT ![t] = NoTick]
  /\ UNCHANGED <<event, head, numberCache, latestBlock, lastPolled, members, dCache, due, missed>>

\* the mirror node resolves 'latest', then returns the logs up to it, or the block
Fetched(t) ==
  /\ tick[t].pc = "fetching"
  /\ event = "logs" => head - tick[t].from <= LogRange
  /\ tick' = [tick EXCEPT ![t].pc = "arrived", ![t].upTo = head]
  /\ UNCHANGED <<event, head, numberCache, latestBlock, lastPolled, members, dCache, due, missed>>

\* mutant: the next poll starts after the latest block
PolledBeyond(t) ==
  lastPolled' = IF event = "logs" /\ tick[t].live THEN latestBlock + 1 ELSE lastPolled

\* lastPolled becomes the latest block known NOW, not the one of this turn; a newHeads
\* poll sets it too, but nothing reads it
Polled(t) == lastPolled' = IF event = "logs" /\ tick[t].live THEN latestBlock ELSE lastPolled

\* mutant: lastPolled moves on although nothing was fetched
FailsForward(t) ==
  /\ tick[t].pc = "fetching"
  /\ tick' = [tick EXCEPT ![t] = NoTick]
  /\ Polled(t)
  /\ UNCHANGED <<event, head, numberCache, latestBlock, members, dCache, due, missed>>

\* an error, also RANGE_TOO_LARGE, is logged and lastPolled stays as it was
FetchFails(t) ==
  /\ tick[t].pc = "fetching"
  /\ tick' = [tick EXCEPT ![t] = NoTick]
  /\ missed' = IF event = "logs" /\ tick[t].live /\ NotRepeated(t) THEN missed \cup tick[t].from .. head ELSE missed
  /\ UNCHANGED <<event, head, numberCache, latestBlock, lastPolled, members, dCache, due>>

\* mutant: fromBlock is left out
ItemsAfter(t) == IF event = "logs" THEN tick[t].from + 1 .. tick[t].upTo ELSE {tick[t].upTo}

Items(t) == IF event = "logs" THEN tick[t].from .. tick[t].upTo ELSE {tick[t].upTo}

\* mutant: everything that arrives is sent
SendAlways(I) ==
  LET hashes == members \X I IN
  /\ sent' = [s \in Subscribers |-> IF s \in members THEN sent[s] \cup I ELSE sent[s]]
  /\ repeated' = repeated \cup {h \in hashes : h[2] \in sent[h[1]]}
  /\ sentCache' = sentCache \cup hashes
  /\ UNCHANGED dropped

notifySubscribers(I) ==
  LET fresh == (members \X I) \ sentCache IN
  /\ sent' = [s \in Subscribers |-> sent[s] \cup {b \in I : <<s, b>> \in fresh}]
  /\ repeated' = repeated \cup {h \in fresh : h[2] \in sent[h[1]]}
  /\ sentCache' = sentCache \cup fresh
  /\ UNCHANGED dropped

Deliver(t) ==
  /\ tick[t].pc = "arrived"
  /\ Polled(t)
  /\ notifySubscribers(Items(t))
  /\ tick' = [tick EXCEPT ![t] = NoTick]
  /\ UNCHANGED <<event, head, numberCache, latestBlock, members, due, missed>>

TickStep(t) ==
  NumberRead(t) \/ NumberFails(t) \/ NumberArrives(t) \/ Fetched(t) \/ FetchFails(t) \/ Deliver(t)

DNext ==
  \/ ImportBlock
  \/ NumberExpires
  \/ \E h \in Expirable : HashExpires(h)
  \/ \E s \in Subscribers : Join(s) \/ Leave(s)
  \/ \E t \in Ticks : Tick(t) \/ TickCached(t) \/ TickStep(t)

\* The event loop runs what has arrived and the interval keeps firing; a mirror node
\* that is asked again and again answers some time.
DFairness ==
  /\ WF_dVars(NumberExpires)
  /\ \A t \in Ticks :
    /\ WF_dVars(Tick(t) \/ TickCached(t))
    /\ WF_dVars(TickStep(t))
    /\ SF_dVars(NumberRead(t))
    /\ SF_dVars(Fetched(t))

DSpec == DInit /\ [][DNext]_dVars /\ DFairness

-----------------------------------------------------------------------------
(* Correctness                                                             *)

\* Whatever lies before lastPolled (pollerService.ts:79) was sent to every subscriber that
\* was there for it, or is on its way with a poll that runs, or was missed: a poll before
\* the first success left it out, or failed and nobody asks again.
PassedOverOnlyIfMissed ==
  event = "logs" /\ lastPolled # None =>
    \A s \in members : \A b \in due[s] .. lastPolled - 1 :
      b \in sent[s] \cup missed \/ \E t \in Ticks : Covers(t, b)

\* docs/design/eth-subscribe.md wants no duplicates: a subscriber gets an item twice only
\* after the sent cache (notifySubscribers) has let its hash go.
RepeatedOnlyAfterExpiry == repeated \subseteq dropped

\* A tick reads a block number that was cached before, but never announces what the mirror
\* node has not got: the start of a poll exists when the poll is made.
PollsKnownBlocks ==
  \A t \in Ticks : event = "logs" /\ tick[t].pc \in {"fetching", "arrived"} => tick[t].from \in 1..head

\* s was sent block b or, a head being replaced by the next, a later one; a log that was not
\* sent was missed, or the poller fell so far behind that getLogs refuses the range for ever,
\* but a poll has ended well
Heard(s, b) ==
  IF event = "newHeads" THEN \E c \in sent[s] : b <= c
  ELSE b \in sent[s] \/ (lastPolled # None /\ (b \in missed \/ head - lastPolled > LogRange))

\* While it listens, a subscriber hears of every block due: however many polls fail
\* (pollerService.ts:71), the first ones included, one ends well at last, and what was not
\* sent then was passed over for a reason.
EventuallySent ==
  \A s \in Subscribers : \A b \in Blocks :
    (s \in members /\ due[s] <= b /\ b <= head) ~> (s \notin members \/ b < due[s] \/ Heard(s, b))

\* What polls that overlap, fail and come late deliver (poll, notifySubscribers): nothing is
\* passed over or repeated without a reason, and nothing is announced before it exists.
DeliveredRight ==
  DTypeOK /\ PassedOverOnlyIfMissed /\ RepeatedOnlyAfterExpiry /\ PollsKnownBlocks
=============================================================================
