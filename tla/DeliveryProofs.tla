--------------------------- MODULE DeliveryProofs ---------------------------
(***************************************************************************)
(* Proofs about the delivery of events to subscribers: with any number of  *)
(* overlapping turns of the interval, of blocks and of subscribers, what a *)
(* subscriber is not sent was missed for a reason, and what it is sent     *)
(* twice had left the cache; and how many steps a turn has.                *)
(***************************************************************************)
EXTENDS Delivery, TLAPS

(* What the poller knows exists: numbers that were read do not get ahead   *)
(* of the mirror node.                                                     *)
Behind(t) ==
  /\ tick[t].pc = "answered" => tick[t].number \in 1..head
  /\ tick[t].pc = "arrived" => tick[t].upTo \in 1..head
  /\ event = "logs" /\ tick[t].pc \in {"fetching", "arrived"} => tick[t].from \in 1..head

PollerBehind ==
  /\ numberCache <= head /\ latestBlock <= head /\ lastPolled <= head
  /\ \A t \in Ticks : Behind(t)

(* The sent cache holds what was sent, less what it dropped.               *)
CacheIsOfSent ==
  /\ \A s \in Subscribers, b \in Blocks :
       /\ b \in sent[s] => <<s, b>> \in sentCache \cup dropped
       /\ <<s, b>> \in sentCache => b \in sent[s]
  /\ repeated \subseteq dropped

(* A block is settled for a subscriber that was sent it, or will be by a   *)
(* poll under way, or was missed.                                          *)
Settled(s, b) == b \in sent[s] \cup missed \/ \E t \in Ticks : Covers(t, b)

(* All before lastPolled is settled; and as long as a poll is under way,   *)
(* whose end will set lastPolled to it, all before the latest block.       *)
BeforeIsSettled ==
  event = "logs" =>
    \A s \in members :
      /\ lastPolled # None => \A b \in due[s] .. lastPolled - 1 : Settled(s, b)
      /\ (\E t \in Ticks : Polls(t)) => \A b \in due[s] .. latestBlock - 1 : Settled(s, b)

(* Who has joined was told the first block to hear of.                     *)
MembersAreDue == \A s \in members : due[s] \in Blocks \cup {MaxHead + 1}

DeliveryInv ==
  DTypeOK /\ PollerBehind /\ CacheIsOfSent /\ MembersAreDue /\ BeforeIsSettled

-----------------------------------------------------------------------------
(* Types                                                                   *)

TickRecord ==
  [pc : TickStates, number : Blocks \cup {None}, from : Blocks \cup {None},
   upTo : Blocks \cup {None}, live : BOOLEAN]

LEMMA HeadIsBlock ==
  ASSUME DTypeOK
  PROVE  head \in Nat /\ head >= 1 /\ head <= MaxHead /\ MaxHead \in Nat /\ 1..head \subseteq Blocks
BY DeliveryConstants DEF DTypeOK, Blocks

LEMMA NoTickIsTick == NoTick \in TickRecord
BY DEF NoTick, TickRecord, TickStates

(* In logs polls, what arrives are blocks.                                 *)
LEMMA ItemsAreBlocks ==
  ASSUME DTypeOK, PollerBehind, NEW t \in Ticks, tick[t].pc = "arrived"
  PROVE  Items(t) \subseteq Blocks
<1>1. tick[t].upTo \in Blocks /\ tick[t].upTo <= head
  BY HeadIsBlock DEF PollerBehind, Behind
<1>2. CASE event = "logs"
  <2>1. tick[t].from \in 1..head
    BY <1>2 DEF PollerBehind, Behind
  <2> QED BY <1>1, <1>2, <2>1, HeadIsBlock DEF Items, Blocks
<1>3. CASE event # "logs"
  BY <1>1, <1>3 DEF Items
<1> QED BY <1>2, <1>3

LEMMA DeliveryStarts == DInit => DeliveryInv
<1> SUFFICES ASSUME DInit PROVE DeliveryInv
  OBVIOUS
<1>1. 1 \in Blocks /\ None \in 0 .. MaxHead + 1
  BY DeliveryConstants DEF Blocks, None
<1>2. DTypeOK
  BY <1>1, NoTickIsTick DEF DInit, DTypeOK, TickRecord
<1>3. PollerBehind
  BY DEF DInit, PollerBehind, Behind, NoTick, None
<1>4. CacheIsOfSent /\ MembersAreDue
  BY DEF DInit, CacheIsOfSent, MembersAreDue
<1>5. BeforeIsSettled
  BY DEF DInit, BeforeIsSettled
<1> QED BY <1>2, <1>3, <1>4, <1>5 DEF DeliveryInv

-----------------------------------------------------------------------------
(* The mirror node and the caches                                          *)

LEMMA ImportKeeps == ASSUME DeliveryInv, ImportBlock PROVE DeliveryInv'
<1> USE DEF DeliveryInv
<1>1. head' = head + 1 /\ head' \in Blocks /\ head \in Nat
  BY HeadIsBlock DEF ImportBlock, Blocks
<1>2. UNCHANGED <<event, dPoller, dCache, due, missed>>
  BY DEF ImportBlock
<1>3. DTypeOK'
  BY <1>1, <1>2 DEF DTypeOK, dPoller, dCache
<1>4. PollerBehind'
  <2>1. UNCHANGED <<event, tick>>
    BY <1>2 DEF dPoller
  <2>2. \A t \in Ticks : Behind(t)'
    BY <1>1, <2>1 DEF PollerBehind, Behind
  <2>3. {numberCache, latestBlock, lastPolled} \subseteq Nat
    BY DEF DTypeOK, Blocks, None
  <2> QED BY <1>1, <1>2, <2>2, <2>3 DEF PollerBehind, dPoller
<1>5. CacheIsOfSent' /\ MembersAreDue'
  BY <1>2 DEF CacheIsOfSent, MembersAreDue, dPoller, dCache
<1>6. BeforeIsSettled'
  BY <1>2 DEF BeforeIsSettled, Settled, Covers, Polls, dPoller, dCache
<1> QED BY <1>3, <1>4, <1>5, <1>6

LEMMA NumberExpiresKeeps == ASSUME DeliveryInv, NumberExpires PROVE DeliveryInv'
<1> USE DEF DeliveryInv
<1>1. numberCache' = None /\ None <= head
  BY HeadIsBlock DEF NumberExpires, None
<1>2. UNCHANGED <<event, head, latestBlock, lastPolled, members, tick, dCache, due, missed>>
  BY DEF NumberExpires
<1>3. DTypeOK'
  BY <1>1, <1>2 DEF DTypeOK, dCache
<1>4. PollerBehind'
  BY <1>1, <1>2 DEF PollerBehind, Behind
<1>5. CacheIsOfSent' /\ MembersAreDue'
  BY <1>2 DEF CacheIsOfSent, MembersAreDue, dCache
<1>6. BeforeIsSettled'
  BY <1>2 DEF BeforeIsSettled, Settled, Covers, Polls, dCache
<1> QED BY <1>3, <1>4, <1>5, <1>6

LEMMA HashExpiresKeeps ==
  ASSUME DeliveryInv, NEW h, HashExpires(h) PROVE DeliveryInv'
<1> USE DEF DeliveryInv
<1>1. h \in sentCache /\ sentCache' = sentCache \ {h} /\ dropped' = dropped \cup {h}
  BY DEF HashExpires
<1>2. UNCHANGED <<event, head, dPoller, sent, repeated, due, missed>>
  BY DEF HashExpires
<1>3. DTypeOK'
  BY <1>1, <1>2 DEF DTypeOK, dPoller
<1>4. PollerBehind' /\ MembersAreDue'
  BY <1>2 DEF PollerBehind, Behind, MembersAreDue, dPoller
<1>5. CacheIsOfSent'
  BY <1>1, <1>2 DEF CacheIsOfSent
<1>6. BeforeIsSettled'
  BY <1>2 DEF BeforeIsSettled, Settled, Covers, Polls, dPoller
<1> QED BY <1>3, <1>4, <1>5, <1>6

-----------------------------------------------------------------------------
(* Subscriptions                                                           *)

LEMMA JoinKeeps ==
  ASSUME DeliveryInv, NEW s \in Subscribers, Join(s) PROVE DeliveryInv'
<1> USE DEF DeliveryInv
<1>1. members' = members \cup {s} /\ due' = [due EXCEPT ![s] = head + 1]
  BY DEF Join
<1>2. UNCHANGED <<event, head, numberCache, latestBlock, lastPolled, tick, dCache, missed>>
  BY DEF Join
<1>3. head + 1 \in 0 .. MaxHead + 1 /\ head + 1 \in Blocks \cup {MaxHead + 1}
  BY HeadIsBlock DEF Blocks
<1>4. due \in [Subscribers -> 0 .. MaxHead + 1] /\ members \subseteq Subscribers
  BY DEF DTypeOK
<1>5. DTypeOK'
  BY <1>1, <1>2, <1>3, <1>4 DEF DTypeOK, dCache
<1>6. PollerBehind' /\ CacheIsOfSent'
  BY <1>2 DEF PollerBehind, Behind, CacheIsOfSent, dCache
<1>7. MembersAreDue'
  BY <1>1, <1>3, <1>4 DEF MembersAreDue
<1>8. BeforeIsSettled'
  <2> SUFFICES ASSUME event = "logs", NEW u \in members'
               PROVE  /\ lastPolled # None => \A b \in due'[u] .. lastPolled - 1 : Settled(u, b)'
                      /\ (\E t \in Ticks : Polls(t)) => \A b \in due'[u] .. latestBlock - 1 : Settled(u, b)'
    BY <1>2 DEF BeforeIsSettled, Polls
  <2>1. CASE u = s
    <3>1. due'[u] = head + 1
      BY <1>1, <1>4, <2>1
    <3>2. lastPolled \in Int /\ latestBlock \in Int /\ lastPolled <= head /\ latestBlock <= head
      BY DEF DTypeOK, PollerBehind, Blocks, None
    <3>3. due'[u] .. lastPolled - 1 = {} /\ due'[u] .. latestBlock - 1 = {}
      BY <3>1, <3>2, HeadIsBlock
    <3> QED BY <3>3
  <2>2. CASE u # s
    <3>1. u \in members /\ due'[u] = due[u]
      BY <1>1, <1>4, <2>2
    <3>2. \A b : Settled(u, b)' <=> Settled(u, b)
      BY <1>2 DEF Settled, Covers, Polls, dCache
    <3> QED BY <3>1, <3>2 DEF BeforeIsSettled
  <2> QED BY <2>1, <2>2
<1> QED BY <1>5, <1>6, <1>7, <1>8

(* The last to leave takes with it what is known of the poll object; for   *)
(* the others nothing changes.                                             *)
LEMMA LeaveKeeps ==
  ASSUME DeliveryInv, NEW s \in Subscribers, Leave(s) PROVE DeliveryInv'
<1> USE DEF DeliveryInv
<1>1. /\ s \in members /\ members' = members \ {s}
      /\ due' = [due EXCEPT ![s] = None]
      /\ sent' = [sent EXCEPT ![s] = {}]
      /\ sentCache' = sentCache \ ({s} \X Blocks)
      /\ repeated' = repeated \ ({s} \X Blocks)
      /\ dropped' = dropped \ ({s} \X Blocks)
      /\ UNCHANGED <<event, head, numberCache, latestBlock>>
  BY DEF Leave
<1>2. \/ /\ members = {s} /\ lastPolled' = None /\ missed' = {}
         /\ tick' = [t \in Ticks |-> [tick[t] EXCEPT !.live = @ /\ tick[t].pc \notin {"fetching", "arrived"}]]
      \/ UNCHANGED <<lastPolled, tick, missed>>
  BY DEF Leave
<1>3. /\ due \in [Subscribers -> 0 .. MaxHead + 1] /\ members \subseteq Subscribers
      /\ sent \in [Subscribers -> SUBSET Blocks] /\ tick \in [Ticks -> TickRecord]
      /\ None \in 0 .. MaxHead + 1 /\ None <= head
  BY HeadIsBlock DEF DTypeOK, TickRecord, None
<1>4. /\ tick' \in [Ticks -> TickRecord]
      /\ \A t \in Ticks : /\ tick'[t].pc = tick[t].pc /\ tick'[t].number = tick[t].number
                          /\ tick'[t].from = tick[t].from /\ tick'[t].upTo = tick[t].upTo
  <2>1. CASE UNCHANGED tick
    BY <1>3, <2>1
  <2>2. CASE tick' = [t \in Ticks |-> [tick[t] EXCEPT !.live = @ /\ tick[t].pc \notin {"fetching", "arrived"}]]
    <3> SUFFICES ASSUME NEW t \in Ticks
                 PROVE  /\ tick'[t] \in TickRecord
                        /\ tick'[t].pc = tick[t].pc /\ tick'[t].number = tick[t].number
                        /\ tick'[t].from = tick[t].from /\ tick'[t].upTo = tick[t].upTo
      BY <2>2
    <3> DEFINE live == tick[t].live /\ tick[t].pc \notin {"fetching", "arrived"}
    <3>1. live \in BOOLEAN /\ tick'[t] = [tick[t] EXCEPT !.live = live] /\ tick[t] \in TickRecord
      BY <1>3, <2>2
    <3> HIDE DEF live
    <3> QED BY <3>1 DEF TickRecord
  <2> QED BY <1>2, <2>1, <2>2
<1>5. DTypeOK'
  <2>1. {numberCache, latestBlock, lastPolled}' \subseteq Blocks \cup {None} /\ missed' \subseteq Blocks
    BY <1>1, <1>2 DEF DTypeOK
  <2>2. {repeated, dropped, sentCache}' \subseteq SUBSET (Subscribers \X Blocks)
    BY <1>1 DEF DTypeOK
  <2>3. due' \in [Subscribers -> 0 .. MaxHead + 1] /\ sent' \in [Subscribers -> SUBSET Blocks]
    BY <1>1, <1>3
  <2>4. event' \in {"logs", "newHeads"} /\ head' \in Blocks /\ members' \subseteq Subscribers
    BY <1>1 DEF DTypeOK
  <2>5. DTypeOK' <=> /\ {numberCache, latestBlock, lastPolled}' \subseteq Blocks \cup {None}
                     /\ missed' \subseteq Blocks
                     /\ {repeated, dropped, sentCache}' \subseteq SUBSET (Subscribers \X Blocks)
                     /\ due' \in [Subscribers -> 0 .. MaxHead + 1]
                     /\ sent' \in [Subscribers -> SUBSET Blocks]
                     /\ event' \in {"logs", "newHeads"} /\ head' \in Blocks /\ members' \subseteq Subscribers
                     /\ tick' \in [Ticks -> TickRecord]
    BY DEF DTypeOK, TickRecord
  <2> QED BY <1>4, <2>1, <2>2, <2>3, <2>4, <2>5
<1>6. PollerBehind'
  <2>1. \A t \in Ticks : Behind(t)'
    BY <1>1, <1>4 DEF PollerBehind, Behind
  <2> QED BY <1>1, <1>2, <1>3, <2>1 DEF PollerBehind
<1>7. CacheIsOfSent'
  <2>1. ASSUME NEW u \in Subscribers, NEW b \in Blocks
        PROVE  /\ b \in sent'[u] => <<u, b>> \in sentCache' \cup dropped'
               /\ <<u, b>> \in sentCache' => b \in sent'[u]
    BY <1>1, <1>3, <2>1 DEF CacheIsOfSent
  <2> QED BY <1>1, <2>1 DEF CacheIsOfSent
<1>8. MembersAreDue'
  BY <1>1, <1>3 DEF MembersAreDue
<1>9. BeforeIsSettled'
  <2>1. CASE members = {s}
    BY <1>1, <2>1 DEF BeforeIsSettled
  <2>2. CASE UNCHANGED <<lastPolled, tick, missed>>
    <3>1. ASSUME NEW u \in members', NEW b PROVE Settled(u, b)' <=> Settled(u, b)
      BY <1>1, <1>3, <2>2 DEF Settled, Covers, Polls
    <3>2. \A u \in members' : u \in members /\ due'[u] = due[u]
      BY <1>1, <1>3
    <3> QED BY <1>1, <2>2, <3>1, <3>2 DEF BeforeIsSettled, Polls
  <2> QED BY <1>2, <2>1, <2>2
<1> QED BY <1>5, <1>6, <1>7, <1>8, <1>9

-----------------------------------------------------------------------------
(* The turns of the interval                                               *)

(* Asking for the number, learning it, or failing to, is no poll yet.      *)
LEMMA WaitingKeeps ==
  ASSUME DeliveryInv, NEW t \in Ticks, NEW r \in TickRecord,
         tick[t].pc \notin {"fetching", "arrived"}, r.pc \notin {"fetching", "arrived"},
         r.pc = "answered" => r.number \in 1..head,
         tick' = [tick EXCEPT ![t] = r],
         UNCHANGED <<event, head, numberCache, latestBlock, lastPolled, members, dCache, due, missed>>
  PROVE  DeliveryInv'
<1> USE DEF DeliveryInv
<1>1. tick \in [Ticks -> TickRecord]
  BY DEF DTypeOK, TickRecord
<1>2. tick' \in [Ticks -> TickRecord] /\ tick'[t] = r /\ \A u \in Ticks \ {t} : tick'[u] = tick[u]
  BY <1>1
<1>3. DTypeOK'
  BY <1>2 DEF DTypeOK, TickRecord, dCache
<1>4. PollerBehind'
  <2>1. \A u \in Ticks : Behind(u)'
    BY <1>2 DEF PollerBehind, Behind
  <2> QED BY <2>1 DEF PollerBehind
<1>5. CacheIsOfSent' /\ MembersAreDue'
  BY DEF CacheIsOfSent, MembersAreDue, dCache
<1>6. BeforeIsSettled'
  <2>1. \A u \in Ticks : \A b : (Polls(u)' <=> Polls(u)) /\ (Covers(u, b)' <=> Covers(u, b))
    BY <1>2 DEF Polls, Covers
  <2>2. \A s, b : Settled(s, b)' <=> Settled(s, b)
    BY <2>1 DEF Settled, dCache
  <2> QED BY <2>1, <2>2 DEF BeforeIsSettled
<1> QED BY <1>3, <1>4, <1>5, <1>6

LEMMA TickKeeps ==
  ASSUME DeliveryInv, NEW t \in Ticks, Tick(t) \/ NumberRead(t) \/ NumberFails(t)
  PROVE  DeliveryInv'
<1>1. tick[t] \in TickRecord /\ head \in Blocks /\ head \in 1..head
  BY HeadIsBlock DEF DeliveryInv, DTypeOK, TickRecord
<1>2. PICK r \in TickRecord :
        /\ tick[t].pc \notin {"fetching", "arrived"} /\ r.pc \notin {"fetching", "arrived"}
        /\ r.pc = "answered" => r.number \in 1..head
        /\ tick' = [tick EXCEPT ![t] = r]
        /\ UNCHANGED <<event, head, numberCache, latestBlock, lastPolled, members, dCache, due, missed>>
  <2>1. CASE Tick(t)
    <3> DEFINE r == [NoTick EXCEPT !.pc = "asking"]
    <3>1. r \in TickRecord /\ r.pc = "asking"
      BY DEF NoTick, TickRecord, TickStates
    <3> QED BY <2>1, <3>1 DEF Tick, Running
  <2>2. CASE NumberRead(t)
    <3> DEFINE r == [tick[t] EXCEPT !.pc = "answered", !.number = head]
    <3>1. r \in TickRecord /\ r.pc = "answered" /\ r.number = head
      BY <1>1 DEF TickRecord, TickStates
    <3>2. tick' = [tick EXCEPT ![t] = r]
      BY <2>2 DEF NumberRead
    <3> HIDE DEF r
    <3> QED BY <1>1, <2>2, <3>1, <3>2 DEF NumberRead
  <2>3. CASE NumberFails(t)
    <3>1. NoTick.pc = "idle"
      BY DEF NoTick
    <3> QED BY <2>3, <3>1, NoTickIsTick DEF NumberFails
  <2> QED BY <2>1, <2>2, <2>3
<1> QED BY <1>2, WaitingKeeps

(* A poll that starts covers all from where it starts; before that all is  *)
(* settled, or is missed now.                                              *)
LEMMA PollSinceKeeps ==
  ASSUME DeliveryInv, NEW t \in Ticks, NEW number \in 1..head,
         tick[t].pc \notin {"fetching", "arrived"}, PollSince(t, number),
         numberCache' \in Blocks \cup {None}, numberCache' <= head
  PROVE  DeliveryInv'
<1> USE DEF DeliveryInv
<1> DEFINE from == IF event = "newHeads" THEN None
                   ELSE IF lastPolled # None THEN lastPolled ELSE number
           r == IF Polling THEN [NoTick EXCEPT !.pc = "fetching", !.from = from] ELSE NoTick
           skipped == {b \in 1 .. from - 1 : lastPolled = None /\ \A u \in Ticks : ~Covers(u, b)}
<1>1. /\ tick \in [Ticks -> TickRecord] /\ lastPolled \in Blocks \cup {None} /\ lastPolled <= head
      /\ number \in Blocks /\ head \in Nat /\ event \in {"logs", "newHeads"} /\ missed \subseteq Blocks
  BY HeadIsBlock DEF DTypeOK, TickRecord, PollerBehind
<1>2. /\ latestBlock' = number /\ tick' = [tick EXCEPT ![t] = r]
      /\ missed' = IF Polling THEN missed \cup skipped ELSE missed
      /\ UNCHANGED <<event, head, lastPolled, members, dCache, due>>
  BY DEF PollSince, PollStart
<1>3. from \in Blocks \cup {None} /\ (event = "logs" => from \in 1..head)
  BY <1>1 DEF Blocks, None
<1>4. /\ r \in TickRecord /\ r.pc = IF Polling THEN "fetching" ELSE "idle"
      /\ r.live = TRUE /\ (Polling => r.from = from)
  BY <1>3 DEF NoTick, TickRecord, TickStates
<1>5. skipped \subseteq Blocks /\ (from = None => skipped = {})
  <2> HIDE DEF from
  <2>1. from \in 0..MaxHead /\ MaxHead \in Nat
    BY <1>3, HeadIsBlock DEF Blocks, None
  <2>2. 1 .. from - 1 \subseteq Blocks /\ (from = None => 1 .. from - 1 = {})
    BY <2>1 DEF Blocks, None
  <2> QED BY <2>2
<1> HIDE DEF r, from, skipped
<1>6. tick' \in [Ticks -> TickRecord] /\ tick'[t] = r /\ \A u \in Ticks \ {t} : tick'[u] = tick[u]
  BY <1>1, <1>2, <1>4
<1>7. DTypeOK'
  BY <1>1, <1>2, <1>5, <1>6 DEF DTypeOK, TickRecord, dCache
<1>8. PollerBehind'
  <2>1. \A u \in Ticks : Behind(u)'
    BY <1>2, <1>3, <1>4, <1>6 DEF PollerBehind, Behind
  <2> QED BY <1>1, <1>2, <2>1 DEF PollerBehind
<1>9. CacheIsOfSent' /\ MembersAreDue'
  BY <1>2 DEF CacheIsOfSent, MembersAreDue, dCache
<1>10. BeforeIsSettled'
  <2>1. ASSUME NEW s \in members, NEW b, Settled(s, b) PROVE Settled(s, b)'
    <3>1. \A u \in Ticks : Covers(u, b) => Covers(u, b)'
      BY <1>6 DEF Covers, Polls
    <3> QED BY <1>2, <2>1, <3>1 DEF Settled, dCache
  <2>2. ASSUME event = "logs", NEW s \in members, lastPolled # None,
               NEW b \in due[s] .. lastPolled - 1
        PROVE  Settled(s, b)'
    BY <2>1, <2>2 DEF BeforeIsSettled
  <2>3. ASSUME event = "logs", NEW s \in members, NEW b \in due[s] .. number - 1
        PROVE  Settled(s, b)'
    <3>1. Polling /\ from \in 1..head /\ from = IF lastPolled # None THEN lastPolled ELSE number
      BY <1>3, <2>3 DEF Polling, from
    <3>2. b \in Nat /\ b >= 1 /\ due[s] <= b /\ due[s] \in Nat
      BY <1>1, HeadIsBlock DEF MembersAreDue, Blocks
    <3>3. CASE from <= b
      BY <1>4, <1>6, <3>1, <3>3 DEF Settled, Covers, Polls
    <3>4. CASE b < from /\ lastPolled # None
      BY <2>2, <2>3, <3>1, <3>2, <3>4, <1>1
    <3>5. CASE b < from /\ lastPolled = None
      <4>1. CASE \E u \in Ticks : Covers(u, b)
        BY <2>1, <4>1 DEF Settled
      <4>2. CASE \A u \in Ticks : ~Covers(u, b)
        <5>1. b \in skipped
          BY <3>1, <3>2, <3>5, <4>2 DEF skipped
        <5> QED BY <1>2, <3>1, <5>1 DEF Settled
      <4> QED BY <4>1, <4>2
    <3> QED BY <3>1, <3>2, <3>3, <3>4, <3>5
  <2> QED BY <1>2, <2>2, <2>3 DEF BeforeIsSettled
<1> QED BY <1>7, <1>8, <1>9, <1>10

LEMMA PollStartsKeep ==
  ASSUME DeliveryInv, NEW t \in Ticks, TickCached(t) \/ NumberArrives(t)
  PROVE  DeliveryInv'
<1> USE DEF DeliveryInv
<1>1. numberCache \in Blocks \cup {None} /\ numberCache <= head /\ head \in Nat
  BY HeadIsBlock DEF DTypeOK, PollerBehind
<1>2. CASE TickCached(t)
  <2>1. numberCache \in 1..head
    BY <1>1, <1>2 DEF TickCached, Blocks, None
  <2> QED BY <1>1, <1>2, <2>1, PollSinceKeeps DEF TickCached, Running
<1>3. CASE NumberArrives(t)
  <2>1. tick[t].number \in 1..head
    BY <1>3 DEF NumberArrives, PollerBehind, Behind
  <2>2. numberCache' \in Blocks \cup {None} /\ numberCache' <= head
    BY <1>3, <2>1, HeadIsBlock DEF NumberArrives
  <2> QED BY <1>3, <2>1, <2>2, PollSinceKeeps DEF NumberArrives
<1> QED BY <1>2, <1>3

(* What arrives covers no less than what was asked for, up to the head.    *)
LEMMA FetchedKeeps ==
  ASSUME DeliveryInv, NEW t \in Ticks, Fetched(t) PROVE DeliveryInv'
<1> USE DEF DeliveryInv
<1> DEFINE r == [tick[t] EXCEPT !.pc = "arrived", !.upTo = head]
<1>1. tick \in [Ticks -> TickRecord] /\ head \in Blocks /\ head \in 1..head /\ head \in Nat
  BY HeadIsBlock DEF DTypeOK, TickRecord
<1>2. tick[t].pc = "fetching" /\ tick' = [tick EXCEPT ![t] = r]
  BY DEF Fetched
<1>3. UNCHANGED <<event, head, numberCache, latestBlock, lastPolled, members, dCache, due, missed>>
  BY DEF Fetched
<1>4. r \in TickRecord /\ r.pc = "arrived" /\ r.upTo = head /\ r.from = tick[t].from /\ r.live = tick[t].live
  BY <1>1 DEF TickRecord, TickStates
<1> HIDE DEF r
<1>5. tick' \in [Ticks -> TickRecord] /\ tick'[t] = r /\ \A u \in Ticks \ {t} : tick'[u] = tick[u]
  BY <1>1, <1>2, <1>4
<1>6. DTypeOK'
  BY <1>3, <1>5 DEF DTypeOK, TickRecord, dCache
<1>7. PollerBehind'
  <2>1. \A u \in Ticks : Behind(u)'
    BY <1>1, <1>2, <1>3, <1>4, <1>5 DEF PollerBehind, Behind
  <2> QED BY <1>3, <2>1 DEF PollerBehind
<1>8. CacheIsOfSent' /\ MembersAreDue'
  BY <1>3 DEF CacheIsOfSent, MembersAreDue, dCache
<1>9. BeforeIsSettled'
  <2>1. \A u \in Ticks : Polls(u)' <=> Polls(u)
    BY <1>2, <1>4, <1>5 DEF Polls
  <2>2. ASSUME NEW b \in Int, b <= head, NEW u \in Ticks, Covers(u, b) PROVE Covers(u, b)'
    BY <1>2, <1>4, <1>5, <2>1, <2>2 DEF Covers
  <2>3. ASSUME NEW s, NEW b \in Int, b <= head, Settled(s, b) PROVE Settled(s, b)'
    BY <1>3, <2>2, <2>3 DEF Settled, dCache
  <2>4. latestBlock \in Int /\ lastPolled \in Int /\ latestBlock <= head /\ lastPolled <= head
    BY DEF PollerBehind, DTypeOK, Blocks, None
  <2>5. \A s \in members : due[s] \in Int
    BY HeadIsBlock DEF MembersAreDue, Blocks
  <2>6. \A s \in members : \A b \in due[s] .. latestBlock - 1 : b \in Int /\ b <= head
    BY <1>1, <2>4, <2>5
  <2>7. \A s \in members : \A b \in due[s] .. lastPolled - 1 : b \in Int /\ b <= head
    BY <1>1, <2>4, <2>5
  <2> QED BY <1>3, <2>1, <2>3, <2>6, <2>7 DEF BeforeIsSettled
<1> QED BY <1>6, <1>7, <1>8, <1>9

(* What a poll that fails would have covered is missed, unless lastPolled  *)
(* stays where the poll began and nothing under way moves it.              *)
LEMMA FetchFailsKeeps ==
  ASSUME DeliveryInv, NEW t \in Ticks, FetchFails(t) PROVE DeliveryInv'
<1> USE DEF DeliveryInv
<1>1. /\ tick[t].pc = "fetching" /\ tick' = [tick EXCEPT ![t] = NoTick]
      /\ missed' = IF event = "logs" /\ tick[t].live /\ NotRepeated(t)
                   THEN missed \cup tick[t].from .. head ELSE missed
      /\ UNCHANGED <<event, head, numberCache, latestBlock, lastPolled, members, dCache, due>>
  BY DEF FetchFails
<1>2. tick \in [Ticks -> TickRecord] /\ missed \subseteq Blocks
  BY DEF DTypeOK, TickRecord
<1>3. tick' \in [Ticks -> TickRecord] /\ tick'[t] = NoTick /\ \A u \in Ticks \ {t} : tick'[u] = tick[u]
  BY <1>1, <1>2, NoTickIsTick
<1>4. event = "logs" => tick[t].from \in 1..head /\ tick[t].from .. head \subseteq Blocks
  BY <1>1, HeadIsBlock DEF PollerBehind, Behind, Blocks
<1>5. DTypeOK'
  <2>1. missed' \subseteq Blocks
    BY <1>1, <1>2, <1>4
  <2> QED BY <1>1, <1>3, <2>1 DEF DTypeOK, TickRecord, dCache
<1>6. PollerBehind'
  <2>1. \A u \in Ticks : Behind(u)'
    BY <1>1, <1>3 DEF PollerBehind, Behind, NoTick
  <2> QED BY <1>1, <2>1 DEF PollerBehind
<1>7. CacheIsOfSent' /\ MembersAreDue'
  BY <1>1 DEF CacheIsOfSent, MembersAreDue, dCache
<1>8. BeforeIsSettled'
  <2> SUFFICES ASSUME event = "logs", NEW s \in members
               PROVE  /\ lastPolled # None => \A b \in due[s] .. lastPolled - 1 : Settled(s, b)'
                      /\ (\E u \in Ticks : Polls(u)') => \A b \in due[s] .. latestBlock - 1 : Settled(s, b)'
    BY <1>1 DEF BeforeIsSettled, Polls
  <2>1. /\ latestBlock \in Int /\ lastPolled \in Int /\ latestBlock <= head /\ lastPolled <= head
        /\ due[s] \in Int /\ head \in Int /\ tick[t].from \in Int
    BY <1>4, HeadIsBlock DEF MembersAreDue, PollerBehind, DTypeOK, Blocks, None
  <2>2. /\ \A u \in Ticks \ {t} : Polls(u)' <=> Polls(u)
        /\ \A u \in Ticks \ {t} : \A b : Covers(u, b)' <=> Covers(u, b)
        /\ ~Polls(t)'
    BY <1>3 DEF Polls, Covers, NoTick
  <2>3. ASSUME NEW b, Settled(s, b), ~Covers(t, b) PROVE Settled(s, b)'
    BY <1>1, <2>2, <2>3 DEF Settled, dCache
  <2>4. CASE ~tick[t].live
    <3>1. \A b : ~Covers(t, b)
      BY <2>4 DEF Covers, Polls
    <3> QED BY <2>2, <2>3, <3>1 DEF BeforeIsSettled
  <2>5. CASE tick[t].live /\ NotRepeated(t)
    <3>1. Polls(t)
      BY <1>1, <2>5 DEF Polls
    <3>2. ASSUME NEW b \in Int, b <= head, Settled(s, b) PROVE Settled(s, b)'
      <4>1. CASE Covers(t, b)
        <5>1. b \in tick[t].from .. head
          BY <2>1, <3>2, <4>1 DEF Covers
        <5> QED BY <1>1, <2>5, <5>1 DEF Settled
      <4> QED BY <2>3, <3>2, <4>1
    <3>3. \A b \in due[s] .. latestBlock - 1 : b \in Int /\ b <= head
      BY <2>1
    <3>4. \A b \in due[s] .. lastPolled - 1 : b \in Int /\ b <= head
      BY <2>1
    <3> QED BY <3>1, <3>2, <3>3, <3>4 DEF BeforeIsSettled
  <2>6. CASE ~NotRepeated(t)
    <3>1. lastPolled = tick[t].from /\ \A u \in Ticks : ~Polls(u)'
      BY <2>2, <2>6 DEF NotRepeated
    <3>2. \A b \in due[s] .. lastPolled - 1 : ~Covers(t, b)
      BY <2>1, <3>1 DEF Covers
    <3> QED BY <2>3, <3>1, <3>2 DEF BeforeIsSettled
  <2> QED BY <2>4, <2>5, <2>6
<1> QED BY <1>5, <1>6, <1>7, <1>8

(* What arrives is sent to every subscriber that has not got it.           *)
LEMMA NotifySends ==
  ASSUME DeliveryInv, NEW I \in SUBSET Blocks, notifySubscribers(I)
  PROVE  /\ sent' \in [Subscribers -> SUBSET Blocks]
         /\ {repeated, dropped, sentCache}' \subseteq SUBSET (Subscribers \X Blocks)
         /\ \A s \in Subscribers : sent[s] \subseteq sent'[s]
         /\ \A s \in members : I \subseteq sent'[s]
         /\ CacheIsOfSent'
<1> USE DEF DeliveryInv
<1> DEFINE fresh == (members \X I) \ sentCache
<1>1. /\ sent' = [s \in Subscribers |-> sent[s] \cup {b \in I : <<s, b>> \in fresh}]
      /\ repeated' = repeated \cup {h \in fresh : h[2] \in sent[h[1]]}
      /\ sentCache' = sentCache \cup fresh
      /\ dropped' = dropped
  BY DEF notifySubscribers
<1>2. /\ sent \in [Subscribers -> SUBSET Blocks] /\ members \subseteq Subscribers
      /\ repeated \subseteq Subscribers \X Blocks /\ dropped \subseteq Subscribers \X Blocks
      /\ sentCache \subseteq Subscribers \X Blocks
  BY DEF DTypeOK
<1>3. fresh \subseteq Subscribers \X Blocks
  BY <1>2
<1>4. ASSUME NEW s \in Subscribers, NEW b \in Blocks
      PROVE  /\ b \in sent'[s] <=> b \in sent[s] \/ <<s, b>> \in fresh
             /\ <<s, b>> \in sentCache' <=> <<s, b>> \in sentCache \/ <<s, b>> \in fresh
             /\ <<s, b>> \in fresh <=> s \in members /\ b \in I /\ <<s, b>> \notin sentCache
  BY <1>1
<1>5. sent' \in [Subscribers -> SUBSET Blocks] /\ \A s \in Subscribers : sent[s] \subseteq sent'[s]
  BY <1>1, <1>2
<1>6. {repeated, dropped, sentCache}' \subseteq SUBSET (Subscribers \X Blocks)
  BY <1>1, <1>2, <1>3
<1>7. \A s \in members : I \subseteq sent'[s]
  <2> SUFFICES ASSUME NEW s \in members, NEW b \in I PROVE b \in sent'[s]
    OBVIOUS
  <2>1. s \in Subscribers /\ b \in Blocks
    BY <1>2
  <2>2. <<s, b>> \in sentCache => b \in sent[s]
    BY <2>1 DEF CacheIsOfSent
  <2> QED BY <1>4, <2>1, <2>2
<1>8. repeated' \subseteq dropped'
  <2> SUFFICES ASSUME NEW h \in fresh, h[2] \in sent[h[1]] PROVE h \in dropped
    BY <1>1 DEF CacheIsOfSent
  <2>1. PICK s \in Subscribers, b \in Blocks : h = <<s, b>>
    BY <1>3
  <2>2. b \in sent[s] /\ <<s, b>> \notin sentCache
    BY <1>4, <2>1
  <2> QED BY <2>1, <2>2 DEF CacheIsOfSent
<1>9. CacheIsOfSent'
  <2>1. ASSUME NEW s \in Subscribers, NEW b \in Blocks
        PROVE  /\ b \in sent'[s] => <<s, b>> \in sentCache' \cup dropped'
               /\ <<s, b>> \in sentCache' => b \in sent'[s]
    <3>1. b \in sent[s] => <<s, b>> \in sentCache \cup dropped
      BY DEF CacheIsOfSent
    <3>2. <<s, b>> \in sentCache => b \in sent[s]
      BY DEF CacheIsOfSent
    <3> HIDE DEF fresh
    <3> QED BY <1>1, <1>4, <3>1, <3>2
  <2> QED BY <1>8, <2>1 DEF CacheIsOfSent
<1> QED BY <1>5, <1>6, <1>7, <1>9

(* Its items are sent, and lastPolled moves to where all is settled.       *)
LEMMA DeliverKeeps ==
  ASSUME DeliveryInv, NEW t \in Ticks, Deliver(t) PROVE DeliveryInv'
<1> USE DEF DeliveryInv
<1>1. /\ tick[t].pc = "arrived" /\ tick' = [tick EXCEPT ![t] = NoTick]
      /\ lastPolled' = IF event = "logs" /\ tick[t].live THEN latestBlock ELSE lastPolled
      /\ notifySubscribers(Items(t))
      /\ UNCHANGED <<event, head, numberCache, latestBlock, members, due, missed>>
  BY DEF Deliver, Polled
<1>2. tick \in [Ticks -> TickRecord] /\ members \subseteq Subscribers
  BY DEF DTypeOK, TickRecord
<1>3. tick' \in [Ticks -> TickRecord] /\ tick'[t] = NoTick /\ \A u \in Ticks \ {t} : tick'[u] = tick[u]
  BY <1>1, <1>2, NoTickIsTick
<1>4. /\ sent' \in [Subscribers -> SUBSET Blocks]
      /\ {repeated, dropped, sentCache}' \subseteq SUBSET (Subscribers \X Blocks)
      /\ \A s \in Subscribers : sent[s] \subseteq sent'[s]
      /\ \A s \in members : Items(t) \subseteq sent'[s]
      /\ CacheIsOfSent'
  BY <1>1, ItemsAreBlocks, NotifySends
<1>5. DTypeOK'
  BY <1>1, <1>3, <1>4 DEF DTypeOK, TickRecord
<1>6. PollerBehind'
  <2>1. \A u \in Ticks : Behind(u)'
    BY <1>1, <1>3 DEF PollerBehind, Behind, NoTick
  <2> QED BY <1>1, <2>1 DEF PollerBehind
<1>7. MembersAreDue'
  BY <1>1 DEF MembersAreDue
<1>8. BeforeIsSettled'
  <2> SUFFICES ASSUME event = "logs", NEW s \in members
               PROVE  /\ lastPolled' # None => \A b \in due[s] .. lastPolled' - 1 : Settled(s, b)'
                      /\ (\E u \in Ticks : Polls(u)') => \A b \in due[s] .. latestBlock - 1 : Settled(s, b)'
    BY <1>1 DEF BeforeIsSettled, Polls
  <2>1. tick[t].from \in Int /\ tick[t].upTo \in Int
    BY <1>1, HeadIsBlock DEF PollerBehind, Behind
  <2>2. ASSUME NEW b \in Int, Settled(s, b) PROVE Settled(s, b)'
    <3>1. CASE Covers(t, b)
      <4>1. b \in Items(t)
        BY <1>1, <2>1, <3>1 DEF Covers, Items
      <4> QED BY <1>4, <4>1 DEF Settled
    <3>2. CASE ~Covers(t, b)
      <4>1. \A u \in Ticks : Covers(u, b) => Covers(u, b)'
        BY <1>3, <3>2 DEF Covers, Polls
      <4> QED BY <1>1, <1>2, <1>4, <2>2, <4>1 DEF Settled
    <3> QED BY <3>1, <3>2
  <2>3. due[s] \in Int /\ latestBlock \in Int /\ lastPolled \in Int
    BY HeadIsBlock DEF MembersAreDue, DTypeOK, Blocks, None
  <2>4. /\ \A b \in due[s] .. latestBlock - 1 : b \in Int
        /\ \A b \in due[s] .. lastPolled - 1 : b \in Int
    BY <2>3
  <2>5. (\E u \in Ticks : Polls(u)') => \E u \in Ticks : Polls(u)
    BY <1>3 DEF Polls, NoTick
  <2>6. tick[t].live => Polls(t)
    BY <1>1 DEF Polls
  <2> QED BY <1>1, <2>2, <2>4, <2>5, <2>6 DEF BeforeIsSettled
<1> QED BY <1>4, <1>5, <1>6, <1>7, <1>8

-----------------------------------------------------------------------------
(* The theorem                                                             *)

LEMMA DeliveryStepKeeps == ASSUME DeliveryInv, [DNext]_dVars PROVE DeliveryInv'
<1>1. CASE DNext
  <2>1. CASE ImportBlock
    BY <2>1, ImportKeeps
  <2>2. CASE NumberExpires
    BY <2>2, NumberExpiresKeeps
  <2>3. CASE \E h \in Expirable : HashExpires(h)
    BY <2>3, HashExpiresKeeps
  <2>4. CASE \E s \in Subscribers : Join(s) \/ Leave(s)
    BY <2>4, JoinKeeps, LeaveKeeps
  <2>5. ASSUME NEW t \in Ticks, Tick(t) \/ TickCached(t) \/ TickStep(t) PROVE DeliveryInv'
    BY <2>5, TickKeeps, PollStartsKeep, FetchedKeeps, FetchFailsKeeps, DeliverKeeps DEF TickStep
  <2> QED BY <1>1, <2>1, <2>2, <2>3, <2>4, <2>5 DEF DNext
<1>2. CASE UNCHANGED dVars
  <2>1. UNCHANGED <<event, head, numberCache, latestBlock, lastPolled, members, tick, sent, sentCache,
                    repeated, dropped, due, missed>>
    BY <1>2 DEF dVars, dMirror, dPoller, dCache
  <2>2. DTypeOK' /\ PollerBehind' /\ CacheIsOfSent' /\ MembersAreDue'
    BY <2>1 DEF DeliveryInv, DTypeOK, PollerBehind, Behind, CacheIsOfSent, MembersAreDue
  <2>3. BeforeIsSettled'
    BY <2>1 DEF DeliveryInv, BeforeIsSettled, Settled, Covers, Polls
  <2> QED BY <2>2, <2>3 DEF DeliveryInv
<1> QED BY <1>1, <1>2

LEMMA DeliveryInvariant == DSpec => []DeliveryInv
BY DeliveryStarts, DeliveryStepKeeps, PTL DEF DSpec

(* Nothing is passed over or repeated without a reason, and nothing is     *)
(* announced before it exists (poll, notifySubscribers), with any number   *)
(* of overlapping turns of the interval.                                   *)
THEOREM DeliveryIsRight == DSpec => []DeliveredRight
<1>1. DeliveryInv => DeliveredRight
  <2> SUFFICES ASSUME DeliveryInv PROVE DeliveredRight
    OBVIOUS
  <2>1. PassedOverOnlyIfMissed
    BY DEF DeliveryInv, PassedOverOnlyIfMissed, BeforeIsSettled, Settled
  <2>2. RepeatedOnlyAfterExpiry
    BY DEF DeliveryInv, RepeatedOnlyAfterExpiry, CacheIsOfSent
  <2>3. PollsKnownBlocks
    BY DEF DeliveryInv, PollsKnownBlocks, PollerBehind, Behind
  <2> QED BY <2>1, <2>2, <2>3 DEF DeliveryInv, DeliveredRight
<1> QED BY <1>1, DeliveryInvariant, PTL

-----------------------------------------------------------------------------
(* Progress: what a turn of the interval has before it                     *)

(* The steps of a turn that are left, at most.                             *)
Left == [idle |-> 0, arrived |-> 1, fetching |-> 2, answered |-> 3, asking |-> 4]

(* Nothing but a subscriber's leaving touches a turn of somebody else, and *)
(* that only makes its poll one of a tag that is gone.                     *)
Undisturbed(t) ==
  /\ tick'[t].pc = tick[t].pc /\ tick'[t].number = tick[t].number
  /\ tick'[t].from = tick[t].from /\ tick'[t].upTo = tick[t].upTo
  /\ tick'[t].live => tick[t].live

(* A step that changes one turn leaves the others alone.                   *)
LEMMA OneTurnReplaced ==
  ASSUME DTypeOK, NEW t \in Ticks, NEW r, tick' = [tick EXCEPT ![t] = r]
  PROVE  tick'[t] = r /\ \A u \in Ticks \ {t} : tick'[u] = tick[u]
BY DEF DTypeOK

LEMMA TurnMovesOn ==
  ASSUME DTypeOK, NEW t \in Ticks, TickStep(t)
  PROVE  /\ Left[tick'[t].pc] < Left[tick[t].pc]
         /\ \A u \in Ticks \ {t} : tick'[u] = tick[u]
<1>1. tick[t] \in TickRecord
  BY DEF DTypeOK, TickRecord
<1>2. CASE NumberRead(t)
  <2>1. PICK r : r = [tick[t] EXCEPT !.pc = "answered", !.number = head]
    OBVIOUS
  <2>2. r.pc = "answered"
    BY <1>1, <2>1 DEF TickRecord
  <2>3. tick[t].pc = "asking" /\ tick' = [tick EXCEPT ![t] = r]
    BY <1>2, <2>1 DEF NumberRead
  <2>4. tick'[t] = r /\ \A u \in Ticks \ {t} : tick'[u] = tick[u]
    BY <2>3, OneTurnReplaced, Zenon
  <2> QED BY <2>2, <2>3, <2>4 DEF Left
<1>3. CASE NumberFails(t) \/ FetchFails(t) \/ Deliver(t)
  <2>1. tick[t].pc \in {"asking", "fetching", "arrived"} /\ tick' = [tick EXCEPT ![t] = NoTick]
    BY <1>3 DEF NumberFails, FetchFails, Deliver
  <2>2. tick'[t] = NoTick /\ \A u \in Ticks \ {t} : tick'[u] = tick[u]
    BY <2>1, OneTurnReplaced, Zenon
  <2> QED BY <2>1, <2>2 DEF Left, NoTick
<1>4. CASE NumberArrives(t)
  <2>1. tick[t].pc = "answered" /\ PollSince(t, tick[t].number)
    BY <1>4 DEF NumberArrives
  <2>2. \/ \E from : tick' = [tick EXCEPT ![t] = [NoTick EXCEPT !.pc = "fetching", !.from = from]]
        \/ tick' = [tick EXCEPT ![t] = NoTick]
    BY <2>1, Zenon DEF PollSince, PollStart
  <2>3. CASE tick' = [tick EXCEPT ![t] = NoTick]
    <3>1. tick'[t] = NoTick /\ \A u \in Ticks \ {t} : tick'[u] = tick[u]
      BY <2>3, OneTurnReplaced, Zenon
    <3> QED BY <2>1, <3>1 DEF Left, NoTick
  <2>4. ASSUME NEW from, tick' = [tick EXCEPT ![t] = [NoTick EXCEPT !.pc = "fetching", !.from = from]]
        PROVE  tick'[t].pc = "fetching" /\ \A u \in Ticks \ {t} : tick'[u] = tick[u]
    <3>1. /\ tick'[t] = [NoTick EXCEPT !.pc = "fetching", !.from = from]
          /\ \A u \in Ticks \ {t} : tick'[u] = tick[u]
      BY <2>4, OneTurnReplaced, Zenon
    <3>2. [NoTick EXCEPT !.pc = "fetching", !.from = from].pc = "fetching"
      BY DEF NoTick
    <3> QED BY <3>1, <3>2
  <2>5. CASE tick'[t].pc = "fetching" /\ \A u \in Ticks \ {t} : tick'[u] = tick[u]
    BY <2>1, <2>5 DEF Left
  <2> QED BY <2>2, <2>3, <2>4, <2>5
<1>5. CASE Fetched(t)
  <2>1. PICK r : r = [tick[t] EXCEPT !.pc = "arrived", !.upTo = head]
    OBVIOUS
  <2>2. r.pc = "arrived"
    BY <1>1, <2>1 DEF TickRecord
  <2>3. tick[t].pc = "fetching" /\ tick' = [tick EXCEPT ![t] = r]
    BY <1>5, <2>1 DEF Fetched
  <2>4. tick'[t] = r /\ \A u \in Ticks \ {t} : tick'[u] = tick[u]
    BY <2>3, OneTurnReplaced, Zenon
  <2> QED BY <2>2, <2>3, <2>4 DEF Left
<1> QED BY <1>2, <1>3, <1>4, <1>5 DEF TickStep

LEMMA OthersWait ==
  ASSUME DTypeOK, [DNext]_dVars, NEW t \in Ticks, ~TickStep(t), Running(t)
  PROVE  Undisturbed(t)
<1>1. tick[t] \in TickRecord
  BY DEF DTypeOK, TickRecord
<1>2. CASE tick' = tick
  BY <1>2 DEF Undisturbed
<1>3. ASSUME NEW u \in Ticks, TickStep(u) PROVE Undisturbed(t)
  BY <1>3, TurnMovesOn DEF Undisturbed
<1>4. ASSUME NEW u \in Ticks, Tick(u) \/ TickCached(u) PROVE Undisturbed(t)
  <2>1. u # t
    BY <1>4 DEF Tick, TickCached
  <2>2. \E r : tick' = [tick EXCEPT ![u] = r]
    BY <1>4 DEF Tick, TickCached, PollSince, PollStart
  <2> QED BY <2>1, <2>2, OneTurnReplaced DEF Undisturbed
<1>5. ASSUME NEW s \in Subscribers, Leave(s) PROVE Undisturbed(t)
  <2>1. CASE members = {s}
    <3>1. PICK l \in BOOLEAN : l = (tick[t].live /\ tick[t].pc \notin {"fetching", "arrived"})
      BY <1>1 DEF TickRecord
    <3>2. tick'[t] = [tick[t] EXCEPT !.live = l]
      BY <1>5, <2>1, <3>1 DEF Leave
    <3>3. l => tick[t].live
      BY <3>1
    <3> QED BY <1>1, <3>2, <3>3 DEF Undisturbed, TickRecord
  <2> QED BY <1>2, <1>5, <2>1 DEF Leave
<1> QED
  BY <1>2, <1>3, <1>4, <1>5 DEF DNext, dVars, dPoller, ImportBlock, NumberExpires, HashExpires, Join

(* Each answer or failure that reaches a turn of the interval brings it    *)
(* nearer to its end, at most four of them; the turns that overlap with it *)
(* leave it as it is, and so does whoever joins or leaves, except that a   *)
(* poll of a tag without subscribers no longer counts (poll, start).       *)
THEOREM TurnsMoveOn ==
  DSpec => [][\A t \in Ticks : /\ TickStep(t) => Left[tick'[t].pc] < Left[tick[t].pc]
                               /\ ~TickStep(t) /\ Running(t) => Undisturbed(t)]_dVars
<1>1. DeliveryInv /\ [DNext]_dVars =>
        [\A t \in Ticks : /\ TickStep(t) => Left[tick'[t].pc] < Left[tick[t].pc]
                          /\ ~TickStep(t) /\ Running(t) => Undisturbed(t)]_dVars
  BY TurnMovesOn, OthersWait DEF DeliveryInv
<1> QED BY <1>1, DeliveryInvariant, PTL DEF DSpec
=============================================================================
