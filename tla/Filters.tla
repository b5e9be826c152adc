------------------------------ MODULE Filters ------------------------------
(***************************************************************************)
(* The filter API: FilterService and the block range resolution of         *)
(* CommonService.getLogs it polls with.  A filter is an entry of the cache *)
(* that every call reads once, at its start, and writes back at its end;   *)
(* between the two it asks the mirror node, which keeps growing.           *)
(*                                                                         *)
(* A block stands for itself and for the logs of the filter's addresses    *)
(* and topics it holds, if any.  Calls on an unknown filter end with       *)
(* FILTER_NOT_FOUND and change nothing: they are not actions.              *)
(***************************************************************************)
EXTENDS Integers, FiniteSets

CONSTANTS
  Filters,    \* filter ids; createFilter draws one that was never used
  Calls,      \* requests being processed at the same time, over all relays
  None,       \* no filter, a miss of the cache
  Start,      \* latest block when the relay starts
  MaxBlock,   \* bound on the number of the latest block
  PageSize,   \* blocks the mirror node returns when no limit is given
  RangeLimit, \* ETH_GET_LOGS_BLOCK_RANGE_LIMIT, for filters without a single address
  FromBlocks, \* values of fromBlock and
  ToBlocks    \* of toBlock that clients use

Latest == -1
Blocks == 0..MaxBlock
Tagged == Blocks \cup {Latest}

Entry == [type : {"log", "newBlock"}, from : Tagged, to : Tagged,
          lastQueried : 0..(MaxBlock + 1)]

ASSUME FilterConstants ==
  /\ None \notin Entry \cup Filters
  /\ MaxBlock \in Nat
  /\ Start \in 0..MaxBlock
  /\ PageSize \in Nat \ {0}
  /\ RangeLimit \in Nat
  /\ FromBlocks \subseteq Tagged
  /\ ToBlocks \subseteq Tagged

VARIABLES
  head,       \* latest block of the mirror node
  logs,       \* blocks with a matching log
  cache,      \* the filters, under CACHE_KEY.FILTERID
  call,       \* requests being processed
  made,       \* history: the filter as it was created
  begun,      \* history: filters whose fromBlock was mined at creation
  delivered,  \* history: blocks returned by getFilterChanges
  repeated,   \* history: filters that returned a block twice
  skipped,    \* history: blocks mined while a poll that found nothing ended
  unread,     \* history: blocks a poll found no logs in for want of the toBlock
  overlapped, \* history: filters used by two calls at once
  removed     \* history: filters whose uninstallFilter returned true

history == <<made, begun, delivered, repeated, skipped, unread, overlapped, removed>>
vars == <<head, logs, cache, call, history>>

-----------------------------------------------------------------------------
IdleCall == [pc |-> "idle", f |-> None, op |-> "changes", entry |-> None,
             result |-> {}, seen |-> 0, early |-> FALSE, cursor |-> 0]

\* f: the filter; entry: the local copy of it; seen: latest block when a poll
\* found nothing; early: it did not look, as toBlock was not mined; cursor: the
\* next lastQueried
Pcs == {"idle", "validate", "create", "from", "to", "blocks", "latest", "set", "delete"}
Call == [pc : Pcs, f : Filters \cup {None}, op : {"changes", "logs"},
         entry : Entry \cup {None}, result : SUBSET Blocks, seen : Blocks,
         early : BOOLEAN, cursor : 0..(MaxBlock + 1)]

TypeOK ==
  /\ head \in Blocks
  /\ logs \subseteq 0..head
  /\ cache \in [Filters -> Entry \cup {None}]
  /\ call \in [Calls -> Call]
  /\ made \in [Filters -> Entry \cup {None}]
  /\ begun \subseteq Filters
  /\ delivered \in [Filters -> SUBSET Blocks]
  /\ repeated \subseteq Filters
  /\ skipped \in [Filters -> SUBSET Blocks]
  /\ unread \in [Filters -> SUBSET Blocks]
  /\ overlapped \subseteq Filters
  /\ removed \subseteq Filters

Init ==
  /\ head = Start
  /\ logs \in SUBSET (0..head)
  /\ cache = [f \in Filters |-> None]
  /\ call = [c \in Calls |-> IdleCall]
  /\ made = cache
  /\ begun = {}
  /\ delivered = [f \in Filters |-> {}]
  /\ repeated = {}
  /\ skipped = delivered
  /\ unread = delivered
  /\ overlapped = {}
  /\ removed = {}

Highest(S) == CHOOSE b \in S : \A other \in S : other <= b
Using(f) == {c \in Calls : call[c].f = f}
Goto(c, pc) == call' = [call EXCEPT ![c].pc = pc]
Return(c) == call' = [call EXCEPT ![c] = IdleCall]

\* mutant: the first poll has no default
FirstBlockQueried(e) == e.lastQueried

\* lastQueried || params.fromBlock: null and 0 are both false
FirstBlock(e) == IF e.lastQueried # 0 THEN e.lastQueried ELSE e.from

\* "latest" is resolved anew by every call
LastBlock(e) == IF e.to = Latest THEN head ELSE e.to

-----------------------------------------------------------------------------
(* The mirror node                                                         *)

Mine ==
  /\ head < MaxBlock
  /\ head' = head + 1
  /\ logs' \in {logs, logs \cup {head + 1}}
  /\ UNCHANGED <<cache, call, history>>

-----------------------------------------------------------------------------
(* eth_newFilter, eth_newBlockFilter, while there are ids left             *)

newFilter(c, from, to) ==
  /\ call[c].pc = "idle"
  /\ \E f \in Filters : made[f] = None
  /\ call' = [call EXCEPT ![c].pc = "validate",
                          ![c].entry = [type |-> "log", from |-> from, to |-> to, lastQueried |-> 0]]
  /\ UNCHANGED <<head, logs, cache, history>>

\* the range is resolved against the latest block of this moment only
validateBlockRange(c) ==
  /\ call[c].pc = "validate"
  /\ LET e == call[c].entry
         from == IF e.from = Latest THEN head ELSE e.from
     IN IF from > LastBlock(e) THEN Return(c) ELSE Goto(c, "create")
  /\ UNCHANGED <<head, logs, cache, history>>

newBlockFilter(c) ==
  /\ call[c].pc = "idle"
  /\ \E f \in Filters : made[f] = None
  /\ call' = [call EXCEPT ![c].pc = "create",
       ![c].entry = [type |-> "newBlock", from |-> Latest, to |-> Latest, lastQueried |-> 0]]
  /\ UNCHANGED <<head, logs, cache, history>>

\* getLatestBlockNumber, then the entry is set; nobody knows the id in between
createFilter(c, f) ==
  /\ call[c].pc = "create"
  /\ made[f] = None
  /\ LET e == [call[c].entry EXCEPT !.from = IF @ = Latest THEN head ELSE @]
     IN /\ cache' = [cache EXCEPT ![f] = e]
        /\ made' = [made EXCEPT ![f] = e]
        /\ begun' = IF e.from <= head THEN begun \cup {f} ELSE begun
  /\ Return(c)
  /\ UNCHANGED <<head, logs, delivered, repeated, skipped, unread, overlapped, removed>>

-----------------------------------------------------------------------------
(* Calls on a filter                                                       *)

\* the handler reads the filter from the cache and goes on with pc
Begin(c, f, op, pc) ==
  /\ call[c].pc = "idle"
  /\ cache[f] # None
  /\ call' = [call EXCEPT ![c] = [IdleCall EXCEPT !.pc = pc, !.f = f, !.op = op, !.entry = cache[f]]]
  /\ overlapped' = IF Using(f) # {} THEN overlapped \cup {f} ELSE overlapped
  /\ UNCHANGED <<head, logs, cache, made, begun, delivered, repeated, skipped, unread, removed>>

getFilterChanges(c, f) ==
  Begin(c, f, "changes", IF cache[f].type = "log" THEN "from" ELSE "blocks")

\* asks for the whole range of the filter, whatever was queried last
getFilterLogs(c, f) ==
  /\ cache[f] # None /\ cache[f].type = "log"
  /\ Begin(c, f, "logs", "from")

uninstallFilter(c, f) == Begin(c, f, "changes", "delete")

\* mutant: the entry is deleted under another key
deleteOther(c) ==
  /\ call[c].pc = "delete"
  /\ removed' = removed \cup {call[c].f}
  /\ Return(c)
  /\ UNCHANGED <<head, logs, cache, made, begun, delivered, repeated, skipped, unread, overlapped>>

deleteFilter(c) ==
  /\ call[c].pc = "delete"
  /\ cache' = [cache EXCEPT ![call[c].f] = None]
  /\ removed' = removed \cup {call[c].f}
  /\ Return(c)
  /\ UNCHANGED <<head, logs, made, begun, delivered, repeated, skipped, unread, overlapped>>

\* nothing found: getFilterChanges has still to ask for the latest block
Nothing(c, early) ==
  call' = [call EXCEPT ![c].pc = IF call[c].op = "changes" THEN "latest" ELSE "set",
                      ![c].seen = head, ![c].early = early]

\* where getLogs starts; a block that does not exist yet means no logs
First(c) == IF call[c].op = "changes" THEN FirstBlock(call[c].entry) ELSE call[c].entry.from

getFromBlock(c) ==
  /\ call[c].pc = "from"
  /\ IF First(c) <= head THEN Goto(c, "to") ELSE Nothing(c, FALSE)
  /\ UNCHANGED <<head, logs, cache, history>>

\* mutant: the mirror node is asked for "gte", so the last block comes again
NextInclusive(found) == Highest(found)

\* lastQueried after a poll that found logs
NextAfter(found) == Highest(found) + 1

\* the blocks up to toBlock are final: their logs are fetched in the same step
getToBlock(c) ==
  /\ call[c].pc = "to"
  /\ LET from == First(c)
         to == LastBlock(call[c].entry)
         found == {b \in logs : from <= b /\ b <= to}
     IN \/ to > head /\ Nothing(c, TRUE)
        \/ to <= head /\ (from > to \/ to - from > RangeLimit) /\ Return(c)
        \/ from <= to /\ to <= head /\ to - from <= RangeLimit /\
           IF found = {} THEN Nothing(c, FALSE)
           ELSE call' = [call EXCEPT ![c].pc = "set", ![c].result = found,
                                    ![c].cursor = NextAfter(found)]
  /\ UNCHANGED <<head, logs, cache, history>>

\* mutant: everything up to the latest block counts as returned
LastOfChain(found) == head

\* lastQueried after a poll that found blocks
LastOfPage(found) == Highest(found)

\* one page, oldest block first
getBlocks(c) ==
  /\ call[c].pc = "blocks"
  /\ LET last == FirstBlock(call[c].entry)
         found == {b \in Blocks : last < b /\ b <= head /\ b <= last + PageSize}
     IN IF found = {} THEN Nothing(c, FALSE)
        ELSE call' = [call EXCEPT ![c].pc = "set", ![c].result = found,
                                 ![c].cursor = LastOfPage(found)]
  /\ UNCHANGED <<head, logs, cache, history>>

\* lastQueried after a poll that found nothing
AfterLatest(e) == IF e.type = "log" THEN head + 1 ELSE head

getLatestBlockNumber(c) ==
  /\ call[c].pc = "latest"
  /\ call' = [call EXCEPT ![c].pc = "set",
                          ![c].cursor = AfterLatest(call[c].entry)]
  /\ UNCHANGED <<head, logs, cache, history>>

\* the blocks that polls starting at lastQueried = n do not look at any more:
\* lastQueried is the next block of a log filter and the last of a block filter
Before(type, n) == {b \in Blocks : IF type = "log" THEN b < n ELSE b <= n}

\* blocks a poll that found nothing moves the filter past without having seen them
Unseen(r) == {b \in Before(r.entry.type, r.cursor) : r.seen < b}

\* and those it moves past without having looked, as toBlock was not mined
Unread(r) == {b \in Before(r.entry.type, r.cursor) :
               r.early /\ FirstBlock(r.entry) <= b /\ b <= r.seen}

\* the answer, and the filter written back with the lastQueried of this call
setFilter(c) ==
  LET r == call[c] IN
  /\ r.pc = "set"
  /\ IF r.op = "changes"
     THEN /\ cache' = [cache EXCEPT ![r.f] = [r.entry EXCEPT !.lastQueried = r.cursor]]
          /\ delivered' = [delivered EXCEPT ![r.f] = @ \cup r.result]
          /\ repeated' = IF r.result \cap delivered[r.f] # {} THEN repeated \cup {r.f} ELSE repeated
          /\ skipped' = IF r.result # {} THEN skipped
                        ELSE [skipped EXCEPT ![r.f] = @ \cup Unseen(r)]
          /\ unread' = IF r.result # {} THEN unread
                       ELSE [unread EXCEPT ![r.f] = @ \cup Unread(r)]
     ELSE /\ cache' = [cache EXCEPT ![r.f] = r.entry]
          /\ UNCHANGED <<delivered, repeated, skipped, unread>>
  /\ Return(c)
  /\ UNCHANGED <<head, logs, made, begun, overlapped, removed>>

-----------------------------------------------------------------------------
\* the time to live of the entry, which every call refreshes
Expire(f) ==
  /\ cache[f] # None
  /\ cache' = [cache EXCEPT ![f] = None]
  /\ UNCHANGED <<head, logs, call, history>>

\* the mirror node or the cache fails: the error is the answer
Fail(c) ==
  /\ call[c].pc # "idle"
  /\ Return(c)
  /\ UNCHANGED <<head, logs, cache, history>>

Next ==
  \/ Mine
  \/ \E f \in Filters : Expire(f)
  \/ \E c \in Calls :
       \/ \E from \in FromBlocks, to \in ToBlocks : newFilter(c, from, to)
       \/ validateBlockRange(c) \/ newBlockFilter(c)
       \/ \E f \in Filters :
            createFilter(c, f) \/ getFilterChanges(c, f) \/ getFilterLogs(c, f) \/ uninstallFilter(c, f)
       \/ getFromBlock(c) \/ getToBlock(c) \/ getBlocks(c) \/ getLatestBlockNumber(c)
       \/ setFilter(c) \/ deleteFilter(c) \/ Fail(c)

Spec == Init /\ [][Next]_vars

-----------------------------------------------------------------------------
(* Properties                                                              *)

\* what getFilterChanges owes the owner of filter e
Wanted(e) == IF e.type = "log" THEN {b \in logs : e.from <= b /\ b <= LastBlock(e)}
             ELSE {b \in Blocks : e.from < b /\ b <= head}

Past(e) == Before(e.type, e.lastQueried)

\* A filter moves past a log (or a block) it has not returned in two cases only: the block was
\* mined while a poll that found nothing asked for the latest block, or a poll came before
\* toBlock was mined, did not look for logs and went on behind the latest block all the same.
\* With overlapping calls, errors, pages and expiry included; docs/design/eth-filter.md:104
\* promises all logs "which occurred since last poll" and knows neither case.
LostOnlyByEmptyPolls ==
  \A f \in Filters : cache[f] # None =>
    Wanted(cache[f]) \cap Past(cache[f]) \subseteq delivered[f] \cup skipped[f] \cup unread[f]

\* A client that waits for each answer gets no log and no block twice, also when
\* calls failed in between or it asked for all logs with getFilterLogs.
ReturnedOnce == repeated \subseteq overlapped

\* Polls answer from the filter's own range although they start at lastQueried, if fromBlock
\* was mined when the filter was created: before that an empty poll sets lastQueried below it.
ReturnedInRange == \A f \in begun : delivered[f] \subseteq Wanted(made[f])

\* A call in flight writes its copy of the filter back: only that brings an
\* uninstalled filter back.
UninstalledStaysAway ==
  \A f \in removed : cache[f] # None => f \in overlapped

\* What a client sees of a filter that it uses one call at a time: each item once, all of them
\* from the range if it had begun, and nothing any more after eth_uninstallFilter (setFilter, deleteFilter).
SeenOnceInRange == ReturnedOnce /\ ReturnedInRange /\ UninstalledStaysAway
=============================================================================
