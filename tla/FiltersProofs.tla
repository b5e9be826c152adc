--------------------------- MODULE FiltersProofs ---------------------------
(***************************************************************************)
(* Proofs about Filters, for any number of filters and calls and any       *)
(* bounds.                                                                 *)
(***************************************************************************)
EXTENDS Filters, WellFoundedInduction, NaturalsInduction, TLAPS

-----------------------------------------------------------------------------
(* The inductive invariant                                                 *)

Working == {"from", "to", "blocks", "latest", "set", "delete"}

\* e is filter f as it was created, up to lastQueried
CopyOf(f, e) ==
  /\ e \in Entry
  /\ made[f] \in Entry
  /\ e.from \in Blocks
  /\ e.type = made[f].type /\ e.from = made[f].from /\ e.to = made[f].to
  /\ e.lastQueried <= (IF e.type = "log" THEN head + 1 ELSE head)
  /\ f \in begun => /\ e.from <= head
                    /\ e.lastQueried = 0 \/ e.from <= e.lastQueried

\* or lost to a poll that found nothing
Returned(f) == delivered[f] \cup skipped[f] \cup unread[f]

\* nothing that f moved past with e is lost
NoneLost(f, e) == \A b \in Wanted(e) \cap Past(e) : b \in Returned(f)

\* what a poll that came before toBlock was mined did not look at
NotLooked(r, b) == r.early /\ FirstBlock(r.entry) <= b /\ b <= r.seen

\* what a call that is about to write back knows about its cursor
CursorOK(f, r) ==
  /\ r.cursor <= (IF r.entry.type = "log" THEN head + 1 ELSE head)
  /\ r.result \subseteq 0..head
  /\ f \in begun =>
       /\ r.entry.from <= r.cursor
       /\ r.result \subseteq Wanted(r.entry)
  /\ \A b \in Wanted(r.entry) \cap Before(r.entry.type, r.cursor) :
       \/ b \in Returned(f) \cup r.result
       \/ r.result = {} /\ (r.seen < b \/ NotLooked(r, b))

WorkingOK(f, r) ==
  /\ f \in Filters
  /\ CopyOf(f, r.entry)
  /\ NoneLost(f, r.entry)
  /\ r.pc \in {"from", "to"} => r.entry.type = "log"
  /\ r.pc = "blocks" => r.entry.type = "newBlock" /\ r.op = "changes"
  /\ r.pc # "set" => r.result = {}
  /\ r.pc = "latest" =>
       /\ r.op = "changes"
       /\ r.seen <= head
       /\ \A b \in Wanted(r.entry) : b <= r.seen => b \in Returned(f) \/ NotLooked(r, b)
  /\ r.pc = "set" /\ r.op = "changes" => CursorOK(f, r)

CreatingOK(r) ==
  /\ r.f = None
  /\ r.entry \in Entry
  /\ r.entry.lastQueried = 0
  /\ r.pc = "create" /\ r.entry.from # Latest => r.entry.from <= LastBlock(r.entry)

CallOK(c) ==
  /\ call[c].pc \in Working => WorkingOK(call[c].f, call[c])
  /\ call[c].pc \in {"validate", "create"} => CreatingOK(call[c])
  /\ call[c].pc = "idle" => call[c] = IdleCall

FilterOK(f) ==
  /\ cache[f] # None => CopyOf(f, cache[f]) /\ NoneLost(f, cache[f])
  /\ delivered[f] \subseteq 0..head
  /\ made[f] # None => CopyOf(f, made[f])
  /\ f \in begun => delivered[f] \subseteq Wanted(made[f])
  /\ f \in removed => made[f] # None
  /\ made[f] = None => cache[f] = None /\ Using(f) = {} /\ delivered[f] = {} /\ f \notin begun

\* what r has read and what it is about to return was not returned before
NotYet(f, r) ==
  /\ delivered[f] \subseteq Past(r.entry)
  /\ r.pc = "set" /\ r.op = "changes" =>
       /\ delivered[f] \cap r.result = {}
       /\ delivered[f] \cup r.result \subseteq Before(r.entry.type, r.cursor)

\* a filter that was never used by two calls at once
AloneOK(f) ==
  /\ f \notin repeated
  /\ \A c, d \in Using(f) : c = d
  /\ cache[f] # None => delivered[f] \subseteq Past(cache[f])
  /\ \A c \in Using(f) : NotYet(f, call[c])
  /\ f \in removed => cache[f] = None /\ Using(f) = {}

FilterInv ==
  /\ TypeOK
  /\ \A c \in Calls : CallOK(c)
  /\ \A f \in Filters : FilterOK(f)
  /\ \A f \in Filters \ overlapped : AloneOK(f)

-----------------------------------------------------------------------------
(* Lemmas                                                                  *)

\* Highest is the last of a set of blocks.
LEMMA HighestIsLast ==
  ASSUME NEW n \in Nat, NEW S, S \subseteq 0..n, S # {}
  PROVE  /\ Highest(S) \in S /\ \A b \in S : b <= Highest(S)
         /\ Highest(S) \in Nat /\ Highest(S) <= n
<1> DEFINE T == {k \in Nat : n - k \in S}
<1>1. T \subseteq Nat /\ T # {}
  <2>1. PICK b \in S : TRUE
    OBVIOUS
  <2>2. n - b \in Nat /\ n - (n - b) = b
    BY <2>1
  <2> QED
    BY <2>1, <2>2
<1>2. PICK k \in T : \A j \in T : <<j, k>> \notin OpToRel(<, Nat)
  <2> HIDE DEF T
  <2> QED
    BY <1>1, WFMin, NatLessThanWellFounded, Zenon
<1>3. \A j \in T : ~(j < k)
  BY <1>1, <1>2, Zenon DEF OpToRel
<1>4. ASSUME NEW b \in S PROVE b <= n - k
  <2>1. n - b \in T
    BY n - (n - b) = b
  <2> QED
    BY <1>3, <2>1
<1>5. n - k \in S
  OBVIOUS
<1>6. \E last \in S : \A b \in S : b <= last
  BY <1>4, <1>5
<1>7. Highest(S) \in S /\ \A b \in S : b <= Highest(S)
  BY <1>6 DEF Highest
<1>8. \A b \in S : b \in Nat /\ b <= n
  OBVIOUS
<1> QED
  BY <1>7, <1>8

-----------------------------------------------------------------------------
(* Steps of one call that change nothing else                              *)

LEMMA LocalStep ==
  ASSUME FilterInv, NEW c \in Calls, NEW r \in Call,
         UNCHANGED <<head, logs, cache, history>>, call' = [call EXCEPT ![c] = r],
         r.f \in {None, call[c].f},
         r.pc \in Working => WorkingOK(r.f, r),
         r.pc \in {"validate", "create"} => CreatingOK(r),
         r.pc = "idle" => r = IdleCall,
         \A f \in Filters \ overlapped : r.f = f => NotYet(f, r)
  PROVE  FilterInv'
<1>1. TypeOK'
  BY DEF FilterInv, TypeOK, history
<1>2. \A d \in Calls : call'[d] = IF d = c THEN r ELSE call[d]
  BY DEF FilterInv, TypeOK
<1>3. \A d \in Calls : CallOK(d)'
  <2>1. ASSUME NEW f, NEW e PROVE WorkingOK(f, e) => WorkingOK(f, e)'
    BY DEF history, WorkingOK, CopyOf, NoneLost, CursorOK, NotLooked, FirstBlock, Wanted, Returned, LastBlock
  <2>2. ASSUME NEW e PROVE CreatingOK(e) => CreatingOK(e)'
    BY DEF CreatingOK, LastBlock
  <2> QED
    BY <1>2, <2>1, <2>2 DEF FilterInv, CallOK
<1>4. \A f \in Filters : Using(f)' \subseteq Using(f)
  BY <1>2, FilterConstants DEF Using
<1>5. ASSUME NEW f \in Filters PROVE FilterOK(f)'
  <2>1. FilterOK(f)
    BY DEF FilterInv
  <2> QED
    BY <1>4, <2>1 DEF history, FilterOK, CopyOf, NoneLost, Wanted, Returned, LastBlock
<1>6. ASSUME NEW f \in Filters \ overlapped' PROVE AloneOK(f)'
  <2>1. AloneOK(f) /\ f \notin overlapped
    BY DEF FilterInv, history
  <2>2. ASSUME NEW d \in Using(f)' PROVE NotYet(f, call[d])'
    <3>1. NotYet(f, call'[d])
      BY <1>2, <1>4, <2>1, <2>2 DEF AloneOK, Using
    <3> QED
      BY <3>1 DEF NotYet, history
  <2> QED
    BY <1>4, <2>1, <2>2 DEF AloneOK, history
<1> QED
  BY <1>1, <1>3, <1>5, <1>6 DEF FilterInv

LEMMA IdleIsOK == IdleCall.pc = "idle" /\ IdleCall.f = None /\ IdleCall.pc \notin Working
BY DEF IdleCall, Working

\* An idle request, an error and the end of a call leave nothing behind.
LEMMA ReturnStep ==
  ASSUME FilterInv, NEW c \in Calls, Return(c), UNCHANGED <<head, logs, cache, history>>
  PROVE  FilterInv'
<1>1. IdleCall \in Call
  BY FilterConstants DEF IdleCall, Call, Pcs, Blocks
<1>2. call' = [call EXCEPT ![c] = IdleCall]
  BY DEF Return
<1>3. IdleCall.f = None /\ IdleCall.pc = "idle"
  BY DEF IdleCall
<1> QED
  BY <1>1, <1>2, <1>3, LocalStep, FilterConstants DEF Working

LEMMA CreationSteps ==
  ASSUME FilterInv, NEW c \in Calls,
         \/ \E from \in FromBlocks, to \in ToBlocks : newFilter(c, from, to)
         \/ validateBlockRange(c)
         \/ newBlockFilter(c)
  PROVE  FilterInv'
<1>1. /\ call[c] \in Call
      /\ call[c].pc = "idle" => call[c].f = None
      /\ call[c].pc \in {"validate", "create"} => CreatingOK(call[c])
  BY DEF FilterInv, TypeOK, CallOK, IdleCall
<1>2. ASSUME NEW from \in FromBlocks, NEW to \in ToBlocks, newFilter(c, from, to)
      PROVE  FilterInv'
  <2> DEFINE e == [type |-> "log", from |-> from, to |-> to, lastQueried |-> 0]
             r == [call[c] EXCEPT !.pc = "validate", !.entry = e]
  <2>1. e \in Entry
    BY FilterConstants DEF Entry, Tagged
  <2>2. call' = [call EXCEPT ![c] = r]
    BY <1>2 DEF newFilter
  <2>3. r \in Call /\ r.pc = "validate" /\ r.entry = e /\ r.f = None
    BY <1>1, <1>2, <2>1 DEF Call, Pcs, newFilter
  <2>4. CreatingOK(r)
    BY <2>1, <2>3 DEF CreatingOK
  <2>5. UNCHANGED <<head, logs, cache, history>>
    BY <1>2 DEF newFilter
  <2> HIDE DEF r
  <2> QED
    BY <2>2, <2>3, <2>4, <2>5, LocalStep, FilterConstants DEF Working
<1>3. CASE newBlockFilter(c)
  <2> DEFINE e == [type |-> "newBlock", from |-> Latest, to |-> Latest, lastQueried |-> 0]
             r == [call[c] EXCEPT !.pc = "create", !.entry = e]
  <2>1. e \in Entry /\ e.from = Latest
    BY FilterConstants DEF Entry, Tagged
  <2>2. call' = [call EXCEPT ![c] = r]
    BY <1>3 DEF newBlockFilter
  <2>3. r \in Call /\ r.pc = "create" /\ r.entry = e /\ r.f = None
    BY <1>1, <1>3, <2>1 DEF Call, Pcs, newBlockFilter
  <2>4. CreatingOK(r)
    BY <2>1, <2>3 DEF CreatingOK
  <2>5. UNCHANGED <<head, logs, cache, history>>
    BY <1>3 DEF newBlockFilter
  <2> HIDE DEF r
  <2> QED
    BY <2>2, <2>3, <2>4, <2>5, LocalStep, FilterConstants DEF Working
<1>4. CASE validateBlockRange(c)
  <2>1. CASE Return(c)
    BY <1>4, <2>1, ReturnStep DEF validateBlockRange
  <2>2. CASE ~Return(c)
    <3> DEFINE r == [call[c] EXCEPT !.pc = "create"]
    <3>1. /\ call' = [call EXCEPT ![c] = r]
          /\ call[c].entry.from # Latest => call[c].entry.from <= LastBlock(call[c].entry)
          /\ UNCHANGED <<head, logs, cache, history>>
      <4>1. CreatingOK(call[c])
        BY <1>1, <1>4 DEF validateBlockRange
      <4> QED
        BY <1>4, <2>2, <4>1, FilterConstants
        DEF validateBlockRange, Goto, FilterInv, TypeOK, CreatingOK, LastBlock, Entry, Tagged, Blocks, Latest
    <3>2. r \in Call /\ r.pc = "create" /\ r.entry = call[c].entry /\ r.f = call[c].f
      BY <1>1 DEF Call, Pcs
    <3>3. CreatingOK(r)
      BY <1>1, <1>4, <3>1, <3>2 DEF CreatingOK, validateBlockRange
    <3>4. r.f = None
      BY <3>3 DEF CreatingOK
    <3> HIDE DEF r
    <3> QED
      BY <3>1, <3>2, <3>3, <3>4, LocalStep, FilterConstants DEF Working
  <2> QED
    BY <2>1, <2>2
<1> QED
  BY <1>2, <1>3, <1>4

\* A poll that finds nothing, when every log up to now is accounted for.
LEMMA NothingStep ==
  ASSUME FilterInv, NEW c \in Calls, call[c].pc \in {"from", "to", "blocks"},
         NEW early \in BOOLEAN, Nothing(c, early),
         UNCHANGED <<head, logs, cache, history>>,
         call[c].op = "changes" =>
           \A b \in Wanted(call[c].entry) : b <= head =>
             b \in Returned(call[c].f) \/ (early /\ FirstBlock(call[c].entry) <= b)
  PROVE  FilterInv'
<1> DEFINE r == [call[c] EXCEPT !.pc = IF call[c].op = "changes" THEN "latest" ELSE "set",
                                !.seen = head, !.early = early]
<1>1. call[c] \in Call /\ WorkingOK(call[c].f, call[c]) /\ head \in Blocks
  BY DEF FilterInv, TypeOK, CallOK, Working
<1>2. call' = [call EXCEPT ![c] = r]
  BY DEF Nothing
<1>3. /\ r \in Call
      /\ r.pc = IF r.op = "changes" THEN "latest" ELSE "set"
      /\ r.seen = head /\ r.early = early /\ r.entry = call[c].entry /\ r.f = call[c].f /\ r.op = call[c].op
      /\ r.result = call[c].result
  BY <1>1 DEF Call, Pcs
<1> HIDE DEF r
<1>4. WorkingOK(r.f, r)
  BY <1>1, <1>3, FilterConstants DEF WorkingOK, NotLooked, Blocks
<1>5. ASSUME NEW f \in Filters \ overlapped, r.f = f PROVE NotYet(f, r)
  BY <1>3, <1>5, ZenonT(40) DEF FilterInv, AloneOK, NotYet, Using
<1> QED
  BY <1>2, <1>3, <1>4, <1>5, LocalStep

LEMMA FromStep ==
  ASSUME FilterInv, NEW c \in Calls, getFromBlock(c)
  PROVE  FilterInv'
<1>1. /\ call[c] \in Call /\ call[c].pc = "from" /\ WorkingOK(call[c].f, call[c])
      /\ head \in Blocks /\ UNCHANGED <<head, logs, cache, history>>
  BY DEF FilterInv, TypeOK, CallOK, Working, getFromBlock
<1>2. CASE First(c) <= head
  <2> DEFINE r == [call[c] EXCEPT !.pc = "to"]
  <2>1. call' = [call EXCEPT ![c] = r]
    BY <1>2 DEF getFromBlock, Goto
  <2>2. /\ r \in Call /\ r.pc = "to"
        /\ r.entry = call[c].entry /\ r.f = call[c].f /\ r.op = call[c].op /\ r.result = call[c].result
    BY <1>1 DEF Call, Pcs
  <2> HIDE DEF r
  <2>3. WorkingOK(r.f, r)
    BY <1>1, <2>2 DEF WorkingOK
  <2>4. ASSUME NEW f \in Filters \ overlapped, r.f = f PROVE NotYet(f, r)
    BY <2>2, <2>4, ZenonT(40) DEF FilterInv, AloneOK, NotYet, Using
  <2> QED
    BY <1>1, <2>1, <2>2, <2>3, <2>4, LocalStep
<1>3. CASE ~(First(c) <= head)
  <2>1. Nothing(c, FALSE)
    BY <1>3 DEF getFromBlock
  <2>2. ASSUME call[c].op = "changes",
               NEW b \in Wanted(call[c].entry), b <= head
        PROVE  b \in Returned(call[c].f)
    <3>1. call[c].entry.type = "log" /\ b \in Blocks /\ b \in logs
      <4>1. call[c].entry.type = "log"
        BY <1>1 DEF WorkingOK
      <4>2. b \in logs
        BY <2>2, <4>1 DEF Wanted
      <4>3. logs \subseteq Blocks
        BY FilterConstants DEF FilterInv, TypeOK, Blocks
      <4> QED
        BY <4>1, <4>2, <4>3
    <3>2. call[c].entry.from <= b /\ call[c].entry \in Entry /\ call[c].entry.from \in Blocks
      BY <1>1, <2>2, <3>1 DEF WorkingOK, CopyOf, Wanted
    <3>3. b < call[c].entry.lastQueried
      BY <1>1, <1>3, <2>2, <3>1, <3>2, FilterConstants DEF First, FirstBlock, Blocks, Entry
    <3> QED
      BY <1>1, <2>2, <3>1, <3>3 DEF WorkingOK, NoneLost, Past, Before
  <2>3. FALSE \in BOOLEAN
    OBVIOUS
  <2> QED
    BY <1>1, <2>1, <2>2, <2>3, NothingStep, Zenon
<1> QED
  BY <1>2, <1>3

LEMMA ToStep ==
  ASSUME FilterInv, NEW c \in Calls, getToBlock(c)
  PROVE  FilterInv'
<1> DEFINE e == call[c].entry
           from == First(c)
           to == LastBlock(e)
           found == {b \in logs : from <= b /\ b <= to}
<1>1. /\ call[c] \in Call /\ call[c].pc = "to" /\ WorkingOK(call[c].f, call[c])
      /\ head \in Blocks /\ logs \subseteq 0..head /\ head \in Nat /\ head <= MaxBlock
      /\ UNCHANGED <<head, logs, cache, history>>
  <2>1. call[c].pc = "to" /\ UNCHANGED <<head, logs, cache, history>>
    BY DEF getToBlock
  <2>2. call[c] \in Call /\ WorkingOK(call[c].f, call[c])
    BY <2>1 DEF FilterInv, TypeOK, CallOK, Working
  <2>3. head \in Blocks /\ logs \subseteq 0..head
    BY DEF FilterInv, TypeOK
  <2> QED
    BY <2>1, <2>2, <2>3, FilterConstants DEF Blocks
<1>2. /\ e \in Entry /\ e.type = "log" /\ e.from \in Nat /\ e.lastQueried \in Nat
      /\ from \in Nat /\ to \in Int
  BY <1>1, FilterConstants
  DEF WorkingOK, CopyOf, Blocks, First, FirstBlock, LastBlock, Entry, Tagged, Latest
<1>3. CASE \/ Nothing(c, TRUE) /\ to > head
           \/ Nothing(c, FALSE) /\ found = {} /\ to <= head
  <2>1. ASSUME call[c].op = "changes", NEW b \in Wanted(e), b <= head,
               ~(to > head /\ FirstBlock(e) <= b), to > head \/ found = {}
        PROVE  b \in Returned(call[c].f)
    <3>1. b \in logs /\ e.from <= b /\ b <= to /\ b \in Nat /\ b \in Blocks
      BY <1>1, <1>2, FilterConstants DEF Wanted, Blocks
    <3>2. from = FirstBlock(e)
      BY <2>1 DEF First
    <3>3. ~(from <= b)
      BY <1>2, <1>1, <2>1, <3>1, <3>2
    <3>4. b < e.lastQueried
      BY <1>2, <2>1, <3>1, <3>3 DEF First, FirstBlock
    <3> QED
      BY <1>1, <1>2, <2>1, <3>1, <3>4 DEF WorkingOK, NoneLost, Past, Before
  <2>2. CASE Nothing(c, TRUE) /\ to > head
    BY <1>1, <2>1, <2>2, NothingStep
  <2>3. CASE Nothing(c, FALSE) /\ found = {} /\ to <= head
    <3>1. call[c].op = "changes" => \A b \in Wanted(e) : b <= head => b \in Returned(call[c].f)
      BY <1>1, <1>2, <2>1, <2>3
    <3>2. Nothing(c, FALSE) /\ FALSE \in BOOLEAN
      BY <2>3
    <3> HIDE DEF e, to, found
    <3> QED
      BY <1>1, <3>1, <3>2, NothingStep DEF e
  <2> QED
    BY <1>3, <2>2, <2>3
<1>4. CASE Return(c)
  BY <1>1, <1>4, ReturnStep
<1>5. CASE /\ from <= to /\ to <= head /\ found # {}
           /\ call' = [call EXCEPT ![c].pc = "set", ![c].result = found,
                                  ![c].cursor = Highest(found) + 1]
  <2> DEFINE r == [call[c] EXCEPT !.pc = "set", !.result = found, !.cursor = Highest(found) + 1]
  <2>1. /\ Highest(found) \in found /\ \A b \in found : b <= Highest(found)
        /\ Highest(found) \in Nat /\ Highest(found) <= head
    BY <1>1, <1>5, HighestIsLast
  <2>2. /\ Highest(found) \in 0..head /\ from <= Highest(found)
        /\ found \subseteq 0..head /\ found \subseteq Blocks
    <3>1. found \subseteq logs /\ from <= Highest(found)
      BY <1>2, <2>1
    <3>2. Highest(found) \in 0..head
      BY <1>1, <2>1
    <3>3. 0..head \subseteq Blocks
      BY <1>1, FilterConstants DEF Blocks
    <3>4. found \subseteq 0..head
      BY <1>1, <3>1
    <3> HIDE DEF found
    <3> QED
      BY <3>1, <3>2, <3>3, <3>4
  <2>3. call' = [call EXCEPT ![c] = r]
    BY <1>5
  <2>4. Highest(found) + 1 \in 0..(MaxBlock + 1)
    BY <1>1, <2>2, FilterConstants
  <2>5. /\ r \in Call /\ r.pc = "set" /\ r.entry = e /\ r.f = call[c].f /\ r.op = call[c].op
        /\ r.result = found /\ r.cursor = Highest(found) + 1
    BY <1>1, <2>2, <2>4 DEF Call, Pcs
  <2> HIDE DEF r, found
  <2>6. ASSUME r.op = "changes" PROVE CursorOK(r.f, r)
    <3>1. r.cursor <= head + 1 /\ r.result \subseteq 0..head
      BY <1>1, <2>2, <2>5
    <3>2. ASSUME r.f \in begun PROVE e.from <= from
      BY <1>1, <1>2, <2>5, <2>6, <3>2 DEF WorkingOK, CopyOf, First, FirstBlock
    <3>3. ASSUME r.f \in begun PROVE e.from <= r.cursor
      BY <1>1, <1>2, <2>2, <2>5, <3>2, <3>3
    <3>4. ASSUME r.f \in begun PROVE r.result \subseteq Wanted(e)
      BY <1>1, <1>2, <2>2, <2>5, <3>2, <3>4 DEF Wanted, found
    <3>5. ASSUME NEW b \in Wanted(e), b \in Before(e.type, r.cursor)
          PROVE  b \in Returned(r.f) \cup r.result
      <4>1. b \in logs /\ e.from <= b /\ b <= to /\ b \in Nat /\ b \in Blocks
        BY <1>1, <1>2, <3>5, FilterConstants DEF Wanted, Blocks
      <4>2. CASE from <= b
        BY <2>5, <4>1, <4>2 DEF found
      <4>3. CASE ~(from <= b)
        <5>1. b < e.lastQueried
          BY <1>2, <2>5, <2>6, <4>1, <4>3 DEF First, FirstBlock
        <5> QED
          BY <1>1, <1>2, <2>5, <3>5, <4>1, <5>1 DEF WorkingOK, NoneLost, Past, Before
      <4> QED
        BY <4>2, <4>3
    <3> QED
      BY <1>2, <2>5, <3>1, <3>3, <3>4, <3>5 DEF CursorOK
  <2>7. WorkingOK(r.f, r)
    BY <1>1, <2>5, <2>6 DEF WorkingOK
  <2>8. ASSUME NEW f \in Filters \ overlapped, r.f = f PROVE NotYet(f, r)
    <3>1. delivered[f] \subseteq Past(e)
      BY <2>5, <2>8 DEF FilterInv, AloneOK, NotYet, Using
    <3>2. ASSUME NEW b \in delivered[f], r.op = "changes"
          PROVE  b \notin found /\ b \in Before(e.type, r.cursor)
      <4>1. b \in Blocks /\ b < e.lastQueried
        BY <1>2, <3>1, <3>2 DEF Past, Before
      <4>2. from = e.lastQueried
        BY <1>2, <2>5, <3>2, <4>1, FilterConstants DEF First, FirstBlock, Blocks
      <4> QED
        BY <1>1, <1>2, <2>2, <2>5, <4>1, <4>2, FilterConstants DEF found, Before, Blocks
    <3>3. found \subseteq Before(e.type, r.cursor)
      BY <1>2, <2>1, <2>2, <2>5 DEF Before
    <3> QED
      BY <2>5, <3>1, <3>2, <3>3 DEF NotYet
  <2> QED
    BY <1>1, <2>3, <2>5, <2>7, <2>8, LocalStep
<1>6. found = {} \/ found # {}
  OBVIOUS
<1> QED
  BY <1>3, <1>4, <1>5, <1>6 DEF getToBlock, NextAfter

LEMMA BlocksStep ==
  ASSUME FilterInv, NEW c \in Calls, getBlocks(c)
  PROVE  FilterInv'
<1> DEFINE e == call[c].entry
           last == FirstBlock(e)
           found == {b \in Blocks : last < b /\ b <= head /\ b <= last + PageSize}
<1>1. /\ call[c] \in Call /\ call[c].pc = "blocks" /\ WorkingOK(call[c].f, call[c])
      /\ head \in Blocks /\ head \in Nat /\ head <= MaxBlock
      /\ UNCHANGED <<head, logs, cache, history>>
  <2>1. call[c].pc = "blocks" /\ UNCHANGED <<head, logs, cache, history>>
    BY DEF getBlocks
  <2>2. call[c] \in Call /\ WorkingOK(call[c].f, call[c])
    BY <2>1 DEF FilterInv, TypeOK, CallOK, Working
  <2>3. head \in Blocks
    BY DEF FilterInv, TypeOK
  <2> QED
    BY <2>1, <2>2, <2>3, FilterConstants DEF Blocks
<1>2. /\ e \in Entry /\ e.type = "newBlock" /\ e.from \in Nat /\ e.lastQueried \in Nat
      /\ last \in Nat /\ call[c].op = "changes"
  BY <1>1, FilterConstants DEF WorkingOK, CopyOf, Blocks, FirstBlock, Entry
<1>3. CASE found = {}
  <2>1. ASSUME NEW b \in Wanted(e), b <= head
        PROVE  b \in Returned(call[c].f)
    <3>1. b \in Blocks /\ b \in Nat /\ e.from < b
      BY <1>2, <2>1, FilterConstants DEF Wanted, Blocks
    <3>2. head <= last
      <4>1. CASE last < head
        <5>1. last + 1 \in found
          BY <1>1, <1>2, <4>1, FilterConstants DEF Blocks
        <5> QED
          BY <1>3, <5>1
      <4> QED
        BY <1>1, <1>2, <4>1
    <3>3. b <= e.lastQueried
      BY <1>1, <1>2, <2>1, <3>1, <3>2 DEF FirstBlock
    <3> QED
      BY <1>1, <1>2, <2>1, <3>1, <3>3 DEF WorkingOK, NoneLost, Past, Before
  <2>2. Nothing(c, FALSE)
    BY <1>3 DEF getBlocks
  <2> QED
    BY <1>1, <2>1, <2>2, NothingStep
<1>4. CASE found # {}
  <2> DEFINE r == [call[c] EXCEPT !.pc = "set", !.result = found, !.cursor = Highest(found)]
  <2>1. found \subseteq 0..head /\ found \subseteq Blocks
    BY <1>1, FilterConstants DEF Blocks
  <2>2. /\ Highest(found) \in found /\ \A b \in found : b <= Highest(found)
        /\ Highest(found) \in Nat /\ Highest(found) <= head
    BY <1>1, <1>4, <2>1, HighestIsLast
  <2>3. last < Highest(found) /\ Highest(found) <= head /\ Highest(found) <= last + PageSize
    BY <2>2
  <2>4. call' = [call EXCEPT ![c] = r]
    BY <1>4 DEF getBlocks, LastOfPage
  <2>5. Highest(found) \in 0..head /\ Highest(found) \in 0..(MaxBlock + 1)
    <3> HIDE DEF found
    <3> QED
      BY <1>1, <2>2, FilterConstants
  <2>6. /\ r \in Call /\ r.pc = "set" /\ r.entry = e /\ r.f = call[c].f /\ r.op = call[c].op
        /\ r.result = found /\ r.cursor = Highest(found)
    BY <1>1, <2>1, <2>5 DEF Call, Pcs
  <2> HIDE DEF r, found
  <2>7. CursorOK(r.f, r)
    <3>1. r.cursor <= head /\ r.result \subseteq 0..head
      BY <2>1, <2>3, <2>6
    <3>2. ASSUME r.f \in begun PROVE e.from <= last
      BY <1>1, <1>2, <2>6, <3>2 DEF WorkingOK, CopyOf, FirstBlock
    <3>3. ASSUME r.f \in begun PROVE e.from <= r.cursor
      BY <1>2, <2>3, <2>5, <2>6, <3>2, <3>3
    <3>4. ASSUME r.f \in begun PROVE r.result \subseteq Wanted(e)
      BY <1>1, <1>2, <2>1, <2>6, <3>2, <3>4, FilterConstants DEF Wanted, found, Blocks
    <3>5. ASSUME NEW b \in Wanted(e), b \in Before(e.type, r.cursor)
          PROVE  b \in Returned(r.f) \cup r.result
      <4>1. b \in Blocks /\ e.from < b /\ b <= head /\ b \in Nat /\ b <= Highest(found)
        BY <1>2, <2>6, <3>5, FilterConstants DEF Wanted, Before, Blocks
      <4>2. CASE last < b
        BY <1>2, <2>3, <2>5, <2>6, <4>1, <4>2, FilterConstants DEF found
      <4>3. CASE ~(last < b)
        <5>1. b <= e.lastQueried
          BY <1>2, <4>1, <4>3 DEF FirstBlock
        <5> QED
          BY <1>1, <1>2, <2>6, <3>5, <4>1, <5>1 DEF WorkingOK, NoneLost, Past, Before
      <4> QED
        BY <4>2, <4>3
    <3> QED
      BY <1>2, <2>6, <3>1, <3>3, <3>4, <3>5 DEF CursorOK
  <2>8. WorkingOK(r.f, r)
    BY <1>1, <2>6, <2>7 DEF WorkingOK
  <2>9. ASSUME NEW f \in Filters \ overlapped, r.f = f PROVE NotYet(f, r)
    <3>1. delivered[f] \subseteq Past(e)
      BY <2>6, <2>9 DEF FilterInv, AloneOK, NotYet, Using
    <3>2. ASSUME NEW b \in delivered[f]
          PROVE  b \notin found /\ b \in Before(e.type, r.cursor)
      <4>1. b \in Blocks /\ b <= e.lastQueried /\ b \in Nat
        BY <1>2, <3>1, <3>2, FilterConstants DEF Past, Before, Blocks
      <4>2. b <= last
        BY <1>2, <4>1 DEF FirstBlock
      <4>3. b \notin found
        BY <1>2, <4>1, <4>2 DEF found
      <4>4. b <= r.cursor
        BY <1>2, <2>3, <2>5, <2>6, <4>1, <4>2
      <4> QED
        BY <1>2, <4>1, <4>3, <4>4 DEF Before
    <3>3. found \subseteq Before(e.type, r.cursor)
      BY <1>2, <2>1, <2>2, <2>6 DEF Before
    <3> QED
      BY <2>6, <3>1, <3>2, <3>3 DEF NotYet
  <2> QED
    BY <1>1, <2>4, <2>6, <2>8, <2>9, LocalStep
<1> QED
  BY <1>3, <1>4

LEMMA LatestStep ==
  ASSUME FilterInv, NEW c \in Calls, getLatestBlockNumber(c)
  PROVE  FilterInv'
<1> DEFINE e == call[c].entry
           cursor == IF e.type = "log" THEN head + 1 ELSE head
           r == [call[c] EXCEPT !.pc = "set", !.cursor = cursor]
<1>1. /\ call[c].pc = "latest" /\ call' = [call EXCEPT ![c] = r]
      /\ UNCHANGED <<head, logs, cache, history>>
  BY DEF getLatestBlockNumber, AfterLatest
<1>2. call[c] \in Call /\ WorkingOK(call[c].f, call[c]) /\ head \in Blocks
  BY <1>1 DEF FilterInv, TypeOK, CallOK, Working
<1>3. cursor \in 0..(MaxBlock + 1) /\ head \in Nat
  BY <1>2, FilterConstants DEF Blocks
<1>4. /\ r \in Call /\ r.pc = "set" /\ r.entry = e /\ r.f = call[c].f /\ r.op = call[c].op
      /\ r.result = {} /\ r.cursor = cursor /\ r.seen = call[c].seen /\ r.seen \in Blocks
      /\ r.early = call[c].early
  BY <1>1, <1>2, <1>3 DEF Call, Pcs, WorkingOK
<1> HIDE DEF r
<1>5. CursorOK(r.f, r)
  <2>1. ASSUME r.f \in begun PROVE e.from <= cursor
    <3>1. CopyOf(r.f, e)
      BY <1>1, <1>2, <1>4 DEF WorkingOK
    <3>2. e.from <= head /\ e.from \in Nat
      BY <2>1, <3>1, FilterConstants DEF CopyOf, Blocks
    <3> QED
      BY <1>3, <3>2
  <2>2. ASSUME NEW b \in Wanted(e), b \in Before(e.type, cursor)
        PROVE  b \in Returned(r.f) \/ r.seen < b \/ NotLooked(r, b)
    <3>1. b \in Nat /\ r.seen \in Nat
      BY <1>4, <2>2, FilterConstants DEF Before, Blocks
    <3>2. b <= r.seen => b \in Returned(r.f) \/ NotLooked(call[c], b)
      BY <1>1, <1>2, <1>4, <2>2 DEF WorkingOK
    <3>3. NotLooked(call[c], b) => NotLooked(r, b)
      BY <1>4 DEF NotLooked
    <3> QED
      BY <3>1, <3>2, <3>3
  <2> QED
    BY <1>3, <1>4, <2>1, <2>2 DEF CursorOK
<1>6. WorkingOK(r.f, r)
  BY <1>2, <1>4, <1>5 DEF WorkingOK
<1>7. ASSUME NEW f \in Filters \ overlapped, r.f = f PROVE NotYet(f, r)
  <2>1. delivered[f] \subseteq Past(e) /\ delivered[f] \subseteq 0..head /\ delivered[f] \subseteq Blocks
    BY <1>4, <1>7 DEF FilterInv, AloneOK, NotYet, Using, FilterOK, TypeOK
  <2>2. delivered[f] \subseteq Before(e.type, cursor)
    BY <1>3, <2>1 DEF Before
  <2> QED
    BY <1>4, <2>1, <2>2 DEF NotYet
<1> QED
  BY <1>1, <1>4, <1>6, <1>7, LocalStep

-----------------------------------------------------------------------------
(* What a step does to the filters it does not touch                       *)

\* filter f as it was created, no fewer blocks returned and at most one mined
Frame(f) ==
  /\ made'[f] = made[f]
  /\ f \in begun' <=> f \in begun
  /\ delivered[f] \subseteq delivered'[f]
  /\ skipped[f] \subseteq skipped'[f] /\ unread[f] \subseteq unread'[f]
  /\ head' \in {head, head + 1}
  /\ logs \subseteq logs'
  /\ \A b \in logs' : b <= head => b \in logs

\* A mined block is wanted by nobody's past.
LEMMA WantedGrows ==
  ASSUME TypeOK, TypeOK', NEW f \in Filters, Frame(f), NEW e, CopyOf(f, e)
  PROVE  /\ \A b \in Wanted(e) : b \in Wanted(e)'
         /\ \A b \in Wanted(e)' : b \in Blocks /\ (b <= head => b \in Wanted(e))
<1>1. head \in Nat /\ head' \in Nat /\ head <= head'
  BY FilterConstants DEF TypeOK, Blocks, Frame
<1>2. e \in Entry /\ e.from \in Nat /\ e.to \in Int
  BY FilterConstants DEF CopyOf, Entry, Tagged, Blocks, Latest
<1>3. logs' \subseteq Blocks /\ logs \subseteq Blocks
  BY FilterConstants DEF TypeOK, Blocks
<1>4. Blocks \subseteq Nat
  BY FilterConstants DEF Blocks
<1>5. LastBlock(e) \in Int /\ LastBlock(e)' \in Int /\ LastBlock(e) <= LastBlock(e)'
  BY <1>1, <1>2 DEF LastBlock
<1>6. \A b \in Blocks : b <= head /\ b <= LastBlock(e)' => b <= LastBlock(e)
  BY <1>1, <1>2, <1>4 DEF LastBlock
<1>7. CASE e.type = "log"
  <2>1. logs \subseteq logs' /\ \A b \in logs' : b <= head => b \in logs
    BY DEF Frame
  <2>2. /\ Wanted(e) = {b \in logs : e.from <= b /\ b <= LastBlock(e)}
        /\ Wanted(e)' = {b \in logs' : e.from <= b /\ b <= LastBlock(e)'}
    BY <1>7 DEF Wanted
  <2>3. ASSUME NEW b \in Wanted(e) PROVE b \in Wanted(e)'
    <3>1. b \in logs /\ e.from <= b /\ b <= LastBlock(e)
      BY <2>2
    <3>2. b \in logs' /\ b \in Nat
      BY <1>3, <1>4, <2>1, <3>1
    <3>3. b <= LastBlock(e)'
      BY <1>5, <3>1, <3>2
    <3> QED
      BY <2>2, <3>1, <3>2, <3>3
  <2>4. \A b \in Wanted(e)' : b \in Blocks /\ (b <= head => b \in Wanted(e))
    BY <1>3, <1>6, <2>1, <2>2
  <2> QED
    BY <2>3, <2>4
<1>8. CASE e.type # "log"
  <2>1. /\ Wanted(e) = {b \in Blocks : e.from < b /\ b <= head}
        /\ Wanted(e)' = {b \in Blocks : e.from < b /\ b <= head'}
    BY <1>8 DEF Wanted
  <2>2. \A b \in Blocks : b \in Nat /\ (b <= head => b <= head')
    BY <1>1, <1>4
  <2> QED
    BY <2>1, <2>2
<1> QED
  BY <1>7, <1>8

LEMMA EntryKeeps ==
  ASSUME TypeOK, TypeOK', NEW f \in Filters, Frame(f), NEW e, CopyOf(f, e)
  PROVE  CopyOf(f, e)' /\ (NoneLost(f, e) => NoneLost(f, e)')
<1>1. head \in Nat /\ head' \in Nat /\ head <= head' /\ e.from \in Nat
  BY FilterConstants DEF TypeOK, Blocks, Frame, CopyOf
<1>2. e.lastQueried \in Nat /\ e.to \in Int
  BY FilterConstants DEF CopyOf, Entry, Tagged, Blocks, Latest
<1>3. CopyOf(f, e)'
  BY <1>1, <1>2 DEF CopyOf, Frame
<1>4. ASSUME NoneLost(f, e), NEW b \in Wanted(e)', b \in Past(e)
      PROVE  b \in Returned(f)'
  <2>1. b \in Nat /\ b <= head
    BY <1>1, <1>2, <1>4, FilterConstants DEF Past, Before, CopyOf, Blocks
  <2>2. b \in Wanted(e)
    BY <1>4, <2>1, WantedGrows
  <2> QED
    BY <1>4, <2>2 DEF NoneLost, Frame, Returned
<1> QED
  BY <1>3, <1>4 DEF NoneLost, Past, Before

LEMMA WorkingKeeps ==
  ASSUME TypeOK, TypeOK', NEW f \in Filters, Frame(f), NEW r \in Call, WorkingOK(f, r)
  PROVE  WorkingOK(f, r)'
<1>1. head \in Nat /\ head' \in Nat /\ head <= head' /\ r.cursor \in Nat /\ r.seen \in Nat
  BY FilterConstants DEF TypeOK, Blocks, Frame, Call
<1>2. CopyOf(f, r.entry) /\ NoneLost(f, r.entry)
  BY DEF WorkingOK
<1>3. CopyOf(f, r.entry)' /\ NoneLost(f, r.entry)'
  BY <1>2, EntryKeeps
<1>4. ASSUME CursorOK(f, r) PROVE CursorOK(f, r)'
  <2>1. r.cursor <= (IF r.entry.type = "log" THEN head' + 1 ELSE head')
    BY <1>1, <1>4 DEF CursorOK
  <2>2. r.result \subseteq 0..head'
    BY <1>1, <1>4 DEF CursorOK
  <2>3. ASSUME f \in begun'
        PROVE  r.entry.from <= r.cursor /\ r.result \subseteq Wanted(r.entry)'
    BY <1>2, <1>4, <2>3, WantedGrows DEF CursorOK, Frame
  <2>4. ASSUME NEW b \in Wanted(r.entry)', b \in Before(r.entry.type, r.cursor)
        PROVE  b \in Returned(f)' \cup r.result \/ (r.result = {} /\ (r.seen < b \/ NotLooked(r, b)))
    <3>1. b \in Nat /\ b <= head
      BY <1>1, <1>4, <2>4, FilterConstants DEF CursorOK, Before, Blocks
    <3>2. b \in Wanted(r.entry)
      BY <1>2, <2>4, <3>1, WantedGrows
    <3> QED
      BY <1>4, <2>4, <3>2 DEF CursorOK, Frame, Returned
  <2> QED
    BY <2>1, <2>2, <2>3, <2>4 DEF CursorOK, Before, NotLooked, FirstBlock
<1>5. ASSUME r.pc = "latest", NEW b \in Wanted(r.entry)', b <= r.seen
      PROVE  b \in Returned(f)' \/ NotLooked(r, b)
  <2>1. b \in Nat /\ b <= head
    BY <1>1, <1>2, <1>5, WantedGrows, FilterConstants DEF WorkingOK, Blocks
  <2>2. b \in Wanted(r.entry)
    BY <1>2, <1>5, <2>1, WantedGrows
  <2> QED
    BY <1>5, <2>2 DEF WorkingOK, Frame, Returned
<1> QED
  BY <1>1, <1>3, <1>4, <1>5 DEF WorkingOK, NotLooked, FirstBlock

LEMMA CallKeeps ==
  ASSUME FilterInv, TypeOK', NEW c \in Calls, call'[c] = call[c], head <= head',
         \A f \in Filters : made[f] = None \/ Frame(f)
  PROVE  CallOK(c)'
<1>1. TypeOK /\ call[c] \in Call /\ CallOK(c)
  BY DEF FilterInv, TypeOK
<1>2. head \in Nat /\ head' \in Nat
  BY <1>1, FilterConstants DEF TypeOK, Blocks
<1>3. ASSUME NEW f, NEW r \in Call, WorkingOK(f, r) PROVE WorkingOK(f, r)'
  <2>1. f \in Filters /\ Frame(f)
    BY <1>3, FilterConstants DEF WorkingOK, CopyOf
  <2> QED
    BY <1>1, <1>3, <2>1, WorkingKeeps
<1>4. ASSUME NEW r, CreatingOK(r) PROVE CreatingOK(r)'
  <2>1. r.entry \in Entry /\ (r.entry.from # Latest => r.entry.from \in Nat)
    BY <1>4, FilterConstants DEF CreatingOK, Entry, Tagged, Blocks
  <2> QED
    BY <1>2, <1>4, <2>1 DEF CreatingOK, LastBlock
<1> QED
  BY <1>1, <1>3, <1>4 DEF CallOK

\* The rest of the invariant for a filter that the step does not touch.
LEMMA FilterKeeps ==
  ASSUME FilterInv, TypeOK', NEW f \in Filters, Frame(f),
         cache'[f] \in {cache[f], None}, delivered'[f] = delivered[f],
         Using(f)' \subseteq Using(f), f \in removed' <=> f \in removed
  PROVE  FilterOK(f)'
<1>1. TypeOK /\ FilterOK(f)
  BY DEF FilterInv
<1>2. ASSUME NEW e, CopyOf(f, e)
      PROVE  CopyOf(f, e)' /\ (NoneLost(f, e) => NoneLost(f, e)') /\ \A b \in Wanted(e) : b \in Wanted(e)'
  BY <1>1, <1>2, EntryKeeps, WantedGrows
<1>3. cache'[f] # None => CopyOf(f, cache[f])' /\ NoneLost(f, cache[f])'
  BY <1>1, <1>2 DEF FilterOK
<1>4. made'[f] # None => CopyOf(f, made[f])'
  BY <1>1, <1>2 DEF FilterOK, Frame
<1>5. f \in begun' => delivered'[f] \subseteq Wanted(made[f])'
  <2>1. ASSUME NEW e, e = made[f], f \in begun PROVE \A b \in delivered[f] : b \in Wanted(e)'
    BY <1>1, <1>2, <2>1, FilterConstants DEF FilterOK, TypeOK
  <2> QED
    BY <2>1 DEF Frame
<1>6. delivered'[f] \subseteq 0..head'
  BY <1>1, FilterConstants DEF FilterOK, Frame, TypeOK, Blocks
<1> QED
  BY <1>1, <1>3, <1>4, <1>5, <1>6, FilterConstants DEF FilterOK, Frame, TypeOK

LEMMA AloneKeeps ==
  ASSUME FilterInv, NEW f \in Filters, f \notin overlapped, f \in repeated' => f \in repeated,
         cache'[f] \in {cache[f], None}, delivered'[f] = delivered[f],
         Using(f)' \subseteq Using(f), \A c \in Using(f)' : call'[c] = call[c],
         f \in removed' => f \in removed
  PROVE  AloneOK(f)'
<1>1. AloneOK(f)
  BY DEF FilterInv
<1>2. ASSUME NEW c \in Using(f)' PROVE NotYet(f, call[c])'
  <2>1. ASSUME NEW r, NotYet(f, r) PROVE NotYet(f, r)'
    BY <2>1 DEF NotYet
  <2> QED
    BY <1>1, <1>2, <2>1 DEF AloneOK
<1>3. cache'[f] # None => delivered'[f] \subseteq Past(cache[f])'
  BY <1>1 DEF AloneOK, Past
<1>4. \A c, d \in Using(f)' : c = d
  BY <1>1 DEF AloneOK
<1>5. f \in removed' => cache'[f] = None /\ Using(f)' = {}
  BY <1>1 DEF AloneOK
<1> QED
  BY <1>1, <1>2, <1>3, <1>4, <1>5 DEF AloneOK

-----------------------------------------------------------------------------
(* The other steps                                                         *)

LEMMA MineStep == ASSUME FilterInv, Mine PROVE FilterInv'
<1>1. /\ head' = head + 1 /\ head < MaxBlock /\ logs' \in {logs, logs \cup {head + 1}}
      /\ UNCHANGED <<cache, call, history>>
  BY DEF Mine
<1>2. TypeOK /\ head \in Nat /\ 0..head \subseteq 0..(head + 1)
  BY FilterConstants DEF FilterInv, TypeOK, Blocks
<1>3. head + 1 \in Blocks /\ logs' \subseteq 0..(head + 1)
  BY <1>1, <1>2, FilterConstants DEF TypeOK, Blocks
<1>4. TypeOK'
  BY <1>1, <1>2, <1>3 DEF TypeOK, history
<1>5. \A f \in Filters : Frame(f)
  BY <1>1, <1>2 DEF Frame, history
<1>6. \A c \in Calls : CallOK(c)'
  BY <1>1, <1>2, <1>4, <1>5, CallKeeps
<1>7. \A f \in Filters : Using(f)' = Using(f)
  BY <1>1 DEF Using
<1>8. ASSUME NEW f \in Filters PROVE FilterOK(f)'
  BY <1>1, <1>4, <1>5, <1>7, FilterKeeps DEF history
<1>9. ASSUME NEW f \in Filters \ overlapped' PROVE AloneOK(f)'
  BY <1>1, <1>7, AloneKeeps DEF history
<1> QED
  BY <1>4, <1>6, <1>8, <1>9 DEF FilterInv

LEMMA ExpireStep == ASSUME FilterInv, NEW g \in Filters, Expire(g) PROVE FilterInv'
<1>1. cache' = [cache EXCEPT ![g] = None] /\ UNCHANGED <<head, logs, call, history>>
  BY DEF Expire
<1>2. TypeOK /\ head \in Nat
  BY FilterConstants DEF FilterInv, TypeOK, Blocks
<1>3. TypeOK' /\ \A f \in Filters : cache'[f] \in {cache[f], None}
  BY <1>1, <1>2 DEF TypeOK, history
<1>4. \A f \in Filters : Frame(f) /\ Using(f)' = Using(f)
  BY <1>1, <1>2 DEF Frame, history, Using
<1>5. \A c \in Calls : CallOK(c)'
  BY <1>1, <1>2, <1>3, <1>4, CallKeeps
<1>6. ASSUME NEW f \in Filters PROVE FilterOK(f)'
  BY <1>1, <1>3, <1>4, FilterKeeps DEF history
<1>7. ASSUME NEW f \in Filters \ overlapped' PROVE AloneOK(f)'
  BY <1>1, <1>3, <1>4, AloneKeeps DEF history
<1> QED
  BY <1>3, <1>5, <1>6, <1>7 DEF FilterInv

LEMMA BeginStep ==
  ASSUME FilterInv, NEW c \in Calls, NEW f \in Filters, NEW op \in {"changes", "logs"}, NEW pc,
         Begin(c, f, op, pc), pc \in {"from", "blocks", "delete"},
         pc = "from" => cache[f].type = "log",
         pc = "blocks" => cache[f].type = "newBlock" /\ op = "changes"
  PROVE  FilterInv'
<1>1. /\ call[c].pc = "idle" /\ cache[f] # None
      /\ overlapped' = IF Using(f) # {} THEN overlapped \cup {f} ELSE overlapped
      /\ UNCHANGED <<head, logs, cache, made, begun, delivered, repeated, skipped, unread, removed>>
  BY DEF Begin
<1>2. TypeOK /\ head \in Nat /\ cache[f] \in Entry /\ 0 \in Blocks /\ 0 \in 0..(MaxBlock + 1)
  BY <1>1, FilterConstants DEF FilterInv, TypeOK, Blocks
<1>3. PICK r \in Call : /\ call' = [call EXCEPT ![c] = r]
                        /\ r.pc = pc /\ r.f = f /\ r.op = op /\ r.entry = cache[f] /\ r.result = {}
  <2> DEFINE new == [IdleCall EXCEPT !.pc = pc, !.f = f, !.op = op, !.entry = cache[f]]
  <2>1. /\ new \in Call /\ new.pc = pc /\ new.f = f /\ new.op = op
        /\ new.entry = cache[f] /\ new.result = {}
    BY <1>2 DEF Call, Pcs, IdleCall
  <2>2. call' = [call EXCEPT ![c] = new]
    BY DEF Begin
  <2> QED
    BY <2>1, <2>2
<1>4. TypeOK'
  BY <1>1, <1>2, <1>3 DEF TypeOK
<1>5. \A d \in Calls : call'[d] = IF d = c THEN r ELSE call[d]
  BY <1>2, <1>3 DEF TypeOK
<1>6. \A g \in Filters : Frame(g)
  BY <1>1, <1>2 DEF Frame
<1>7. WorkingOK(f, r)
  <2>1. CopyOf(f, cache[f]) /\ NoneLost(f, cache[f])
    BY <1>1 DEF FilterInv, FilterOK
  <2> QED
    BY <1>3, <2>1 DEF WorkingOK
<1>8. \A d \in Calls : CallOK(d)'
  <2>1. ASSUME NEW d \in Calls, d # c PROVE CallOK(d)'
    BY <1>1, <1>2, <1>4, <1>5, <1>6, <2>1, CallKeeps
  <2>2. WorkingOK(f, r)'
    BY <1>2, <1>3, <1>4, <1>6, <1>7, WorkingKeeps
  <2>3. CallOK(c)'
    BY <1>3, <1>5, <2>2 DEF CallOK
  <2> QED
    BY <2>1, <2>3
<1>9. call[c].f = None /\ c \notin Using(f)
  BY <1>1, FilterConstants DEF FilterInv, CallOK, IdleCall, Using
<1>10. \A g \in Filters \ {f} : Using(g)' = Using(g)
  BY <1>3, <1>5, <1>9, FilterConstants DEF Using
<1>11. Using(f)' = Using(f) \cup {c}
  BY <1>3, <1>5, <1>9 DEF Using
<1>12. ASSUME NEW g \in Filters PROVE FilterOK(g)'
  <2>1. CASE g # f
    BY <1>1, <1>4, <1>6, <1>10, <2>1, FilterKeeps
  <2>2. CASE g = f
    <3>1. /\ FilterOK(f) /\ made[f] # None
      BY <1>1 DEF FilterInv, FilterOK
    <3>2. ASSUME NEW e, CopyOf(f, e)
          PROVE  /\ CopyOf(f, e)' /\ (NoneLost(f, e) => NoneLost(f, e)')
                 /\ \A b \in Wanted(e) : b \in Wanted(e)'
      BY <1>2, <1>4, <1>6, <3>2, EntryKeeps, WantedGrows
    <3>3. CopyOf(f, cache[f])' /\ NoneLost(f, cache[f])' /\ CopyOf(f, made[f])'
      BY <1>1, <3>1, <3>2 DEF FilterOK
    <3>4. Wanted(made[f])' = Wanted(made[f])
      BY <1>1 DEF Wanted, LastBlock
    <3> QED
      BY <1>1, <2>2, <3>1, <3>3, <3>4 DEF FilterOK
  <2> QED
    BY <2>1, <2>2
<1>13. ASSUME NEW g \in Filters \ overlapped' PROVE AloneOK(g)'
  <2>1. g \notin overlapped /\ AloneOK(g)
    BY <1>1, <1>13 DEF FilterInv
  <2>2. CASE g # f
    <3>1. \A d \in Using(g)' : call'[d] = call[d]
      BY <1>5, <1>9, <1>10, <2>2, FilterConstants DEF Using
    <3> QED
      BY <1>1, <1>10, <2>1, <2>2, <3>1, AloneKeeps
  <2>3. CASE g = f
    <3>1. Using(f)' = {c} /\ call'[c] = r
      BY <1>1, <1>5, <1>11, <1>13, <2>3
    <3>2. NotYet(f, r)
      BY <1>1, <1>3, <2>1, <2>3 DEF AloneOK, NotYet
    <3>3. NotYet(f, r)'
      BY <1>1, <3>2 DEF NotYet
    <3>4. f \notin removed
      BY <1>1, <2>1, <2>3 DEF AloneOK
    <3> QED
      BY <1>1, <2>1, <2>3, <3>1, <3>3, <3>4 DEF AloneOK, Past
  <2> QED
    BY <2>2, <2>3
<1> QED
  BY <1>4, <1>8, <1>12, <1>13 DEF FilterInv

LEMMA CreateStep ==
  ASSUME FilterInv, NEW c \in Calls, NEW f \in Filters, createFilter(c, f)
  PROVE  FilterInv'
<1> DEFINE old == call[c].entry
<1>1. /\ call[c].pc = "create" /\ made[f] = None
      /\ call' = [call EXCEPT ![c] = IdleCall]
      /\ UNCHANGED <<head, logs, delivered, repeated, skipped, unread, overlapped, removed>>
  BY DEF createFilter, Return
<1>2. TypeOK /\ head \in Nat /\ head \in Blocks
  BY FilterConstants DEF FilterInv, TypeOK, Blocks
<1>3. CreatingOK(call[c]) /\ old \in Entry
  BY <1>1 DEF FilterInv, CallOK, CreatingOK
<1>4. PICK e \in Entry :
        /\ cache' = [cache EXCEPT ![f] = e] /\ made' = [made EXCEPT ![f] = e]
        /\ begun' = IF e.from <= head THEN begun \cup {f} ELSE begun
        /\ e.from \in Blocks /\ e.lastQueried = 0 /\ e.type = old.type /\ e.to = old.to
        /\ e.from = IF old.from = Latest THEN head ELSE old.from
  <2> DEFINE new == [old EXCEPT !.from = IF @ = Latest THEN head ELSE @]
  <2>1. /\ new \in Entry /\ new.from \in Blocks /\ new.lastQueried = 0
        /\ new.type = old.type /\ new.to = old.to
        /\ new.from = IF old.from = Latest THEN head ELSE old.from
    BY <1>2, <1>3 DEF Entry, Tagged, CreatingOK
  <2>2. /\ cache' = [cache EXCEPT ![f] = new] /\ made' = [made EXCEPT ![f] = new]
        /\ begun' = IF new.from <= head THEN begun \cup {f} ELSE begun
    BY DEF createFilter
  <2> HIDE DEF new
  <2> QED
    BY <2>1, <2>2
<1>5. IdleCall \in Call
  BY FilterConstants DEF IdleCall, Call, Pcs, Blocks
<1>6. TypeOK'
  BY <1>1, <1>2, <1>4, <1>5 DEF TypeOK
<1>7. \A d \in Calls : call'[d] = IF d = c THEN IdleCall ELSE call[d]
  BY <1>1, <1>2 DEF TypeOK
<1>8. \A g \in Filters \ {f} : Frame(g) /\ cache'[g] = cache[g]
  BY <1>1, <1>2, <1>4 DEF Frame, TypeOK
<1>9. /\ FilterOK(f) /\ cache'[f] = e /\ made'[f] = e /\ f \notin begun /\ delivered[f] = {}
      /\ Using(f) = {} /\ f \notin removed
  BY <1>1, <1>2, <1>4 DEF FilterInv, FilterOK, TypeOK
<1>10. \A d \in Calls : CallOK(d)'
  <2>1. ASSUME NEW d \in Calls, d # c PROVE CallOK(d)'
    BY <1>1, <1>2, <1>6, <1>7, <1>8, <2>1, CallKeeps
  <2>2. CallOK(c)'
    BY <1>7, IdleIsOK DEF CallOK
  <2> QED
    BY <2>1, <2>2
<1>11. \A g \in Filters : Using(g)' \subseteq Using(g) \ {c}
  BY <1>7, FilterConstants DEF Using, IdleCall
<1>12. ASSUME NEW g \in Filters PROVE FilterOK(g)'
  <2>1. CASE g # f
    BY <1>1, <1>6, <1>8, <1>11, <2>1, FilterKeeps
  <2>2. CASE g = f
    <3>1. f \in begun' => e.from <= head
      BY <1>4, <1>9
    <3>2. CopyOf(f, e)'
      BY <1>1, <1>2, <1>4, <1>9, <3>1 DEF CopyOf
    <3>3. NoneLost(f, e)'
      BY <1>1, <1>2, <1>4, FilterConstants DEF NoneLost, Wanted, Past, Before, Blocks, Entry
    <3>4. e # None
      BY <1>4, FilterConstants
    <3> QED
      BY <1>1, <1>9, <2>2, <3>2, <3>3, <3>4 DEF FilterOK
  <2> QED
    BY <2>1, <2>2
<1>13. ASSUME NEW g \in Filters \ overlapped' PROVE AloneOK(g)'
  <2>1. g \notin overlapped /\ AloneOK(g)
    BY <1>1, <1>13 DEF FilterInv
  <2>2. CASE g # f
    <3>1. \A d \in Using(g)' : call'[d] = call[d]
      BY <1>7, <1>11 DEF Using
    <3> QED
      BY <1>1, <1>8, <1>11, <2>1, <2>2, <3>1, AloneKeeps
  <2>3. CASE g = f
    BY <1>1, <1>9, <1>11, <2>1, <2>3 DEF AloneOK
  <2> QED
    BY <2>2, <2>3
<1> QED
  BY <1>6, <1>10, <1>12, <1>13 DEF FilterInv

\* Both ends of a call return to idle; what they do to other filters and calls.
LEMMA EndStep ==
  ASSUME FilterInv, TypeOK', NEW c \in Calls, NEW f \in Filters, call[c].f = f, call[c].pc # "idle",
         call' = [call EXCEPT ![c] = IdleCall], \A g \in Filters : Frame(g),
         UNCHANGED <<head, logs, made, begun, overlapped>>,
         \A g \in Filters \ {f} :
           /\ cache'[g] = cache[g] /\ delivered'[g] = delivered[g]
           /\ g \in repeated' <=> g \in repeated
           /\ g \in removed' <=> g \in removed,
         FilterOK(f)',
         f \notin overlapped =>
           /\ f \notin repeated'
           /\ cache'[f] # None => delivered'[f] \subseteq Past(cache[f])'
           /\ f \in removed' => cache'[f] = None
  PROVE  FilterInv'
<1>1. \A d \in Calls : call'[d] = IF d = c THEN IdleCall ELSE call[d]
  BY DEF FilterInv, TypeOK
<1>2. \A d \in Calls : CallOK(d)'
  <2>1. ASSUME NEW d \in Calls, d # c PROVE CallOK(d)'
    <3>1. head \in Nat
      BY FilterConstants DEF FilterInv, TypeOK, Blocks
    <3> QED
      BY <1>1, <2>1, <3>1, CallKeeps
  <2>2. CallOK(c)'
    BY <1>1, IdleIsOK DEF CallOK
  <2> QED
    BY <2>1, <2>2
<1>3. \A g \in Filters : Using(g)' = Using(g) \ {c}
  BY <1>1, FilterConstants DEF Using, IdleCall
<1>4. ASSUME NEW g \in Filters PROVE FilterOK(g)'
  <2>1. CASE g # f
    BY <1>3, <2>1, FilterKeeps
  <2> QED
    BY <2>1
<1>5. ASSUME NEW g \in Filters \ overlapped' PROVE AloneOK(g)'
  <2>1. g \notin overlapped /\ AloneOK(g)
    BY <1>5 DEF FilterInv
  <2>2. CASE g # f
    <3>1. \A d \in Using(g)' : call'[d] = call[d]
      BY <1>1, <1>3 DEF Using
    <3> QED
      BY <1>3, <2>1, <2>2, <3>1, AloneKeeps
  <2>3. CASE g = f
    <3>1. Using(f)' = {}
      BY <1>3, <2>1, <2>3 DEF AloneOK, Using
    <3> QED
      BY <2>1, <2>3, <3>1 DEF AloneOK, Past
  <2> QED
    BY <2>2, <2>3
<1> QED
  BY <1>2, <1>4, <1>5 DEF FilterInv

LEMMA DeleteStep ==
  ASSUME FilterInv, NEW c \in Calls, deleteFilter(c)
  PROVE  FilterInv'
<1>1. /\ call[c].pc = "delete"
      /\ call' = [call EXCEPT ![c] = IdleCall]
      /\ UNCHANGED <<head, logs, made, begun, delivered, repeated, skipped, unread, overlapped>>
  BY DEF deleteFilter, Return
<1>2. WorkingOK(call[c].f, call[c]) /\ TypeOK
  BY <1>1 DEF FilterInv, CallOK, Working
<1>3. PICK f \in Filters : /\ call[c].f = f /\ cache' = [cache EXCEPT ![f] = None]
                           /\ removed' = removed \cup {f}
  BY <1>2 DEF WorkingOK, deleteFilter
<1>4. IdleCall \in Call
  BY FilterConstants DEF IdleCall, Call, Pcs, Blocks
<1>5. TypeOK' /\ cache'[f] = None /\ \A g \in Filters \ {f} : cache'[g] = cache[g]
  BY <1>1, <1>2, <1>3, <1>4 DEF TypeOK
<1>6. head \in Nat /\ \A g \in Filters : Frame(g)
  BY <1>1, <1>2, FilterConstants DEF TypeOK, Blocks, Frame
<1>7. FilterOK(f)'
  <2>1. FilterOK(f) /\ made[f] # None
    BY <1>2, <1>3, FilterConstants DEF FilterInv, WorkingOK, CopyOf
  <2> QED
    BY <1>1, <1>5, <2>1 DEF FilterOK, CopyOf, Wanted, LastBlock
<1>8. f \notin overlapped => f \notin repeated
  BY DEF FilterInv, AloneOK
<1> QED
  BY <1>1, <1>3, <1>5, <1>6, <1>7, <1>8, EndStep

LEMMA SetStep ==
  ASSUME FilterInv, NEW c \in Calls, setFilter(c)
  PROVE  FilterInv'
<1>1. /\ call[c].pc = "set"
      /\ call' = [call EXCEPT ![c] = IdleCall]
      /\ UNCHANGED <<head, logs, made, begun, overlapped, removed>>
  BY DEF setFilter, Return
<1>2. WorkingOK(call[c].f, call[c]) /\ TypeOK /\ call[c] \in Call
  BY <1>1 DEF FilterInv, CallOK, Working, TypeOK
<1>3. PICK f \in Filters, r \in Call : call[c].f = f /\ call[c] = r /\ WorkingOK(f, r)
  BY <1>2 DEF WorkingOK
<1>4. /\ r.pc = "set" /\ r.f = f /\ r.entry \in Entry /\ r.cursor \in 0..(MaxBlock + 1)
      /\ r.result \in SUBSET Blocks /\ CopyOf(f, r.entry) /\ NoneLost(f, r.entry)
      /\ r.op = "changes" => CursorOK(f, r)
  BY <1>1, <1>3 DEF WorkingOK, CopyOf, Call
<1>5. IdleCall \in Call
  BY FilterConstants DEF IdleCall, Call, Pcs, Blocks
<1>6. head \in Nat /\ f \in Filters /\ made[f] # None /\ FilterOK(f)
  BY <1>2, <1>4, FilterConstants DEF FilterInv, TypeOK, Blocks, CopyOf
<1>7. f \notin overlapped => AloneOK(f) /\ NotYet(f, r) /\ f \notin removed
  BY <1>3 DEF FilterInv, AloneOK, Using
<1>8. CASE r.op = "changes"
  <2>1. PICK e \in Entry :
          /\ e.type = r.entry.type /\ e.from = r.entry.from /\ e.to = r.entry.to
          /\ e.lastQueried = r.cursor
          /\ cache' = [cache EXCEPT ![f] = e]
    <3> DEFINE new == [r.entry EXCEPT !.lastQueried = r.cursor]
    <3>1. /\ new \in Entry /\ new.type = r.entry.type /\ new.from = r.entry.from
          /\ new.to = r.entry.to /\ new.lastQueried = r.cursor
      BY <1>4 DEF Entry
    <3>2. cache' = [cache EXCEPT ![f] = new]
      BY <1>3, <1>8 DEF setFilter
    <3> HIDE DEF new
    <3> QED
      BY <3>1, <3>2
  <2>2. /\ delivered' = [delivered EXCEPT ![f] = @ \cup r.result]
        /\ repeated' = IF r.result \cap delivered[f] # {} THEN repeated \cup {f} ELSE repeated
        /\ skipped' = IF r.result # {} THEN skipped ELSE [skipped EXCEPT ![f] = @ \cup Unseen(r)]
        /\ unread' = IF r.result # {} THEN unread ELSE [unread EXCEPT ![f] = @ \cup Unread(r)]
    BY <1>3, <1>8 DEF setFilter
  <2>3. Unseen(r) \subseteq Blocks /\ Unread(r) \subseteq Blocks
    BY DEF Unseen, Unread, Before
  <2>4. /\ cache'[f] = e /\ \A g \in Filters \ {f} : cache'[g] = cache[g]
        /\ delivered'[f] = delivered[f] \cup r.result
        /\ \A g \in Filters \ {f} : delivered'[g] = delivered[g]
        /\ r.result = {} => /\ skipped'[f] = skipped[f] \cup Unseen(r)
                             /\ unread'[f] = unread[f] \cup Unread(r)
        /\ \A g \in Filters : skipped[g] \subseteq skipped'[g] /\ unread[g] \subseteq unread'[g]
    BY <1>2, <2>1, <2>2 DEF TypeOK
  <2>5. TypeOK'
    <3>1. cache' \in [Filters -> Entry \cup {None}] /\ call' \in [Calls -> Call]
      BY <1>1, <1>2, <1>5, <2>1 DEF TypeOK
    <3>2. delivered' \in [Filters -> SUBSET Blocks]
      BY <1>2, <1>4, <2>2 DEF TypeOK
    <3>3. skipped' \in [Filters -> SUBSET Blocks] /\ unread' \in [Filters -> SUBSET Blocks]
      BY <1>2, <2>2, <2>3 DEF TypeOK
    <3>4. repeated' \subseteq Filters
      BY <1>2, <2>2 DEF TypeOK
    <3> QED
      BY <1>1, <1>2, <3>1, <3>2, <3>3, <3>4 DEF TypeOK
  <2>6. \A g \in Filters : Frame(g)
    BY <1>1, <1>6, <2>4 DEF Frame
  <2>7. CopyOf(f, e)'
    BY <1>1, <1>4, <1>8, <2>1 DEF CopyOf, CursorOK
  <2>8. NoneLost(f, e)'
    <3>1. ASSUME NEW b \in Wanted(e)', b \in Past(e)
          PROVE  b \in Returned(f)'
      <4>1. b \in Wanted(r.entry) /\ b \in Before(r.entry.type, r.cursor)
        BY <1>1, <2>1, <3>1 DEF Wanted, LastBlock, Past
      <4>2. b \in Returned(f) \cup r.result \/ (r.result = {} /\ (r.seen < b \/ NotLooked(r, b)))
        BY <1>1, <1>4, <1>8, <3>1, <4>1 DEF CursorOK
      <4> QED
        BY <2>4, <4>1, <4>2 DEF Returned, Unseen, Unread, NotLooked
    <3> QED
      BY <3>1 DEF NoneLost, Past, Before
  <2>9. FilterOK(f)'
    <3>1. CopyOf(f, made[f])' /\ Wanted(made[f])' = Wanted(made[f])
      BY <1>1, <1>6 DEF FilterOK, CopyOf, Wanted, LastBlock
    <3>2. f \in begun => r.result \subseteq Wanted(made[f])
      BY <1>4, <1>8 DEF CursorOK, CopyOf, Wanted, LastBlock
    <3>3. r.result \subseteq 0..head
      BY <1>4, <1>8 DEF CursorOK
    <3> QED
      BY <1>1, <1>6, <2>4, <2>7, <2>8, <3>1, <3>2, <3>3 DEF FilterOK
  <2>10. f \notin overlapped => f \notin repeated' /\ delivered'[f] \subseteq Past(e)
    BY <1>4, <1>7, <1>8, <2>1, <2>2, <2>4 DEF AloneOK, NotYet, Past
  <2>11. \A g \in Filters \ {f} : g \in repeated' <=> g \in repeated
    BY <2>2
  <2> QED
    BY <1>1, <1>3, <1>4, <1>7, <2>4, <2>5, <2>6, <2>9, <2>10, <2>11, EndStep
<1>9. CASE r.op # "changes"
  <2>1. cache' = [cache EXCEPT ![f] = r.entry] /\ UNCHANGED <<delivered, repeated, skipped, unread>>
    BY <1>3, <1>9 DEF setFilter
  <2>2. cache'[f] = r.entry /\ \A g \in Filters \ {f} : cache'[g] = cache[g]
    BY <1>2, <2>1 DEF TypeOK
  <2>3. TypeOK'
    BY <1>1, <1>2, <1>4, <1>5, <2>1 DEF TypeOK
  <2>4. \A g \in Filters : Frame(g)
    BY <1>1, <1>6, <2>1 DEF Frame
  <2>5. CopyOf(f, r.entry)' /\ NoneLost(f, r.entry)'
    BY <1>2, <1>4, <2>3, <2>4, EntryKeeps
  <2>6. FilterOK(f)'
    <3>1. CopyOf(f, made[f])' /\ Wanted(made[f])' = Wanted(made[f])
      BY <1>1, <1>6 DEF FilterOK, CopyOf, Wanted, LastBlock
    <3> QED
      BY <1>1, <1>6, <2>1, <2>2, <2>5, <3>1 DEF FilterOK
  <2>7. f \notin overlapped => f \notin repeated' /\ delivered'[f] \subseteq Past(r.entry)
    BY <1>7, <2>1 DEF AloneOK, NotYet
  <2> QED
    BY <1>1, <1>3, <1>4, <1>7, <2>1, <2>2, <2>3, <2>4, <2>6, <2>7, EndStep
<1> QED
  BY <1>8, <1>9

LEMMA FilterInit == Init => FilterInv
<1> SUFFICES ASSUME Init PROVE FilterInv
  OBVIOUS
<1>1. TypeOK
  BY FilterConstants DEF Init, TypeOK, IdleCall, Call, Pcs, Blocks
<1>2. \A c \in Calls : call[c] = IdleCall
  BY DEF Init
<1>3. \A c \in Calls : CallOK(c)
  BY <1>2, IdleIsOK DEF CallOK
<1>4. \A f \in Filters : Using(f) = {}
  BY <1>2, FilterConstants DEF Using, IdleCall
<1>5. \A f \in Filters : FilterOK(f) /\ AloneOK(f)
  BY <1>4 DEF Init, FilterOK, AloneOK
<1> QED
  BY <1>1, <1>3, <1>5 DEF FilterInv

LEMMA FilterNext == FilterInv /\ [Next]_vars => FilterInv'
<1> SUFFICES ASSUME FilterInv, [Next]_vars PROVE FilterInv'
  OBVIOUS
<1>1. CASE Mine \/ \E f \in Filters : Expire(f)
  BY <1>1, MineStep, ExpireStep
<1>2. ASSUME NEW c \in Calls,
             \/ \E from \in FromBlocks, to \in ToBlocks : newFilter(c, from, to)
             \/ validateBlockRange(c) \/ newBlockFilter(c)
      PROVE  FilterInv'
  BY <1>2, CreationSteps
<1>3. ASSUME NEW c \in Calls, NEW f \in Filters,
             createFilter(c, f) \/ getFilterChanges(c, f) \/ getFilterLogs(c, f) \/ uninstallFilter(c, f)
      PROVE  FilterInv'
  <2>1. cache[f] \in Entry \cup {None}
    BY DEF FilterInv, TypeOK
  <2>2. CASE getFilterChanges(c, f)
    <3>1. cache[f].type \in {"log", "newBlock"}
      BY <2>1, <2>2 DEF getFilterChanges, Begin, Entry
    <3> QED
      BY <2>2, <3>1, BeginStep DEF getFilterChanges
  <2>3. CASE getFilterLogs(c, f)
    BY <2>3, BeginStep DEF getFilterLogs
  <2>4. CASE uninstallFilter(c, f)
    BY <2>4, BeginStep DEF uninstallFilter
  <2> QED
    BY <1>3, <2>2, <2>3, <2>4, CreateStep
<1>4. ASSUME NEW c \in Calls,
             getFromBlock(c) \/ getToBlock(c) \/ getBlocks(c) \/ getLatestBlockNumber(c)
      PROVE  FilterInv'
  BY <1>4, FromStep, ToStep, BlocksStep, LatestStep
<1>5. ASSUME NEW c \in Calls, setFilter(c) \/ deleteFilter(c) \/ Fail(c) PROVE FilterInv'
  BY <1>5, SetStep, DeleteStep, ReturnStep DEF Fail
<1>6. CASE UNCHANGED vars
  <2>1. UNCHANGED <<head, logs, cache, call, history>>
    BY <1>6 DEF vars
  <2>2. \A f \in Filters : Using(f)' = Using(f)
    BY <2>1 DEF Using
  <2>3. TypeOK'
    BY <2>1 DEF FilterInv, TypeOK, history
  <2>4. head \in Nat /\ \A f \in Filters : Frame(f)
    BY <2>1, FilterConstants DEF FilterInv, TypeOK, Blocks, Frame, history
  <2>5. \A c \in Calls : CallOK(c)'
    BY <2>1, <2>3, <2>4, CallKeeps
  <2>6. \A f \in Filters : FilterOK(f)'
    BY <2>1, <2>2, <2>3, <2>4, FilterKeeps DEF history
  <2>7. \A f \in Filters \ overlapped' : AloneOK(f)'
    BY <2>1, <2>2, AloneKeeps DEF history
  <2> QED
    BY <2>3, <2>5, <2>6, <2>7 DEF FilterInv
<1> QED
  BY <1>1, <1>2, <1>3, <1>4, <1>5, <1>6 DEF Next

-----------------------------------------------------------------------------
(* Theorems                                                                *)

LEMMA FilterInvariant == Spec => []FilterInv
BY FilterInit, FilterNext, PTL DEF Spec

\* Every variable keeps its type: lastQueried is never more than one block ahead
\* of the mirror node.
THEOREM FiltersTypeCorrect == Spec => []TypeOK
<1>1. FilterInv => TypeOK
  BY DEF FilterInv
<1> QED
  BY <1>1, FilterInvariant, PTL

\* Whatever calls overlap, fail or expire, and whatever range a filter has, it moves past a log
\* or block without returning it only if that was mined while a poll that had found nothing was
\* asking for the latest block, or if the poll did not look as toBlock was not mined yet.
THEOREM OnlyEmptyPollsLose == Spec => []LostOnlyByEmptyPolls
<1>1. FilterInv => LostOnlyByEmptyPolls
  BY DEF FilterInv, FilterOK, NoneLost, Returned, LostOnlyByEmptyPolls, TypeOK
<1> QED
  BY <1>1, FilterInvariant, PTL

\* Without overlapping calls getFilterChanges returns nothing twice.
THEOREM NothingReturnedTwice == Spec => []ReturnedOnce
<1>1. FilterInv => ReturnedOnce
  BY DEF FilterInv, AloneOK, ReturnedOnce, TypeOK
<1> QED
  BY <1>1, FilterInvariant, PTL

\* getFilterChanges never answers from outside the range of a filter that had begun.
THEOREM AnswersAreInRange == Spec => []ReturnedInRange
<1>1. FilterInv => ReturnedInRange
  BY DEF FilterInv, FilterOK, ReturnedInRange, TypeOK
<1> QED
  BY <1>1, FilterInvariant, PTL

\* Only a call that overlaps brings an uninstalled filter back.
THEOREM UninstalledIsGone == Spec => []UninstalledStaysAway
<1>1. FilterInv => UninstalledStaysAway
  BY DEF FilterInv, AloneOK, UninstalledStaysAway, TypeOK
<1> QED
  BY <1>1, FilterInvariant, PTL

\* Together they are what a client sees that uses a filter one call at a time (setFilter,
\* deleteFilter).
THEOREM FiltersAreSeenOnce == Spec => []SeenOnceInRange
BY NothingReturnedTwice, AnswersAreInRange, UninstalledIsGone, PTL DEF SeenOnceInRange
=============================================================================
