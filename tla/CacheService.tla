---------------------------- MODULE CacheService ----------------------------
(***************************************************************************)
(* CacheService: the shared cache (Redis), and the in-process LRU cache    *)
(* that every operation falls back to when Redis fails, or that is used    *)
(* alone when Redis is not enabled.  The LRU cache can keep reserved keys  *)
(* apart, where nothing evicts them; but the cache is a singleton, made    *)
(* before the relay names the keys of the preconfigured spending plans     *)
(* (relay.ts), so that none are reserved.                                  *)
(***************************************************************************)
EXTENDS Integers, Sequences

CONSTANTS
  CacheKeys,
  ReservedKeys,  \* the keys the relay asks to be reserved
  MaxEntries,    \* CACHE_MAX
  Ttls,          \* time-to-live of the entries that are set; 0: they do not expire
  MaxTick,       \* bound on the clock
  MaxFailures,   \* bound on the failures of Redis
  MaxWrites      \* bound on the writes, and thereby on the values

ASSUME CacheConstants ==
  /\ ReservedKeys \subseteq CacheKeys
  /\ MaxEntries \in Nat \ {0}
  /\ Ttls \subseteq Nat
  /\ MaxTick \in Nat
  /\ MaxFailures \in Nat
  /\ MaxWrites \in Nat

VARIABLES
  shared,     \* isSharedCacheEnabled: Redis is used
  tick,
  rds,        \* the entries in Redis
  mem,        \* the entries of the LRU caches
  order,      \* the keys among them that are not reserved, the least recently used first
  adding,     \* an incrBy of the LRU cache between its read and its write
  latest,     \* history: the last write of every key, and whether it fell back
  seen,       \* history: what the last read returned, and from where
  failures, writes

caches == <<rds, mem, order>>
cacheVars == <<shared, tick, caches, adding, latest, seen, failures, writes>>

None == 0
Never == -1
Empty == [val |-> None, exp |-> Never]
Entry == [val : 0 .. 2 * MaxWrites, exp : {Never} \cup Nat]
Idle == [key |-> "none", val |-> None, exp |-> Never]

Among(q, k) == \E i \in DOMAIN q : q[i] = k

CacheTypeOK ==
  /\ shared \in BOOLEAN
  /\ tick \in 0..MaxTick
  /\ rds \in [CacheKeys -> Entry]
  /\ mem \in [CacheKeys -> Entry]
  /\ order \in Seq(CacheKeys) /\ Len(order) <= MaxEntries
  /\ \A k \in CacheKeys : mem[k] # Empty <=> Among(order, k)
  /\ adding = Idle \/ adding \in [key : CacheKeys, val : 0 .. 2 * MaxWrites, exp : {Never} \cup Nat]
  /\ failures \in 0..MaxFailures
  /\ writes \in 0..MaxWrites

CacheInit ==
  /\ shared \in BOOLEAN
  /\ tick = 0
  /\ rds = [k \in CacheKeys |-> Empty]
  /\ mem = [k \in CacheKeys |-> Empty]
  /\ order = <<>>
  /\ adding = Idle
  /\ latest = [k \in CacheKeys |-> [val |-> None, exp |-> Never, fellBack |-> FALSE]]
  /\ seen = [key |-> "none", val |-> None, from |-> "none", right |-> None, fellBack |-> FALSE]
  /\ failures = 0
  /\ writes = 0

-----------------------------------------------------------------------------
(* The singleton.  The decorators of eth.ts and debug.ts ask for it while  *)
(* their modules are loaded, without reserved keys, before the relay does. *)

\* getInstance: the first call makes the cache, later ones get it as it is
getInstance(callers) == callers[1]

Reserved == getInstance(<<{}, ReservedKeys>>)

-----------------------------------------------------------------------------
(* The two caches                                                          *)

\* an entry of Redis ends with its TTL, one of the LRU cache is stale after it
InRedis(e) == IF e.exp = Never \/ tick < e.exp THEN e ELSE Empty
InMemory(e) == IF e.exp = Never \/ tick <= e.exp THEN e ELSE Empty
Live(e) == IF shared THEN InRedis(e) ELSE InMemory(e)

ExpiryOf(ttl) == IF ttl = 0 THEN Never ELSE tick + ttl

\* a key is at most once among the others
Without(q, k) ==
  IF Among(q, k)
  THEN LET at == CHOOSE i \in DOMAIN q : q[i] = k
       IN  [i \in 1 .. Len(q) - 1 |-> IF i < at THEN q[i] ELSE q[i + 1]]
  ELSE q

\* getCacheInstance: a reserved key would have no place in the order
Used(k) == IF k \in Reserved THEN order ELSE Append(Without(order, k), k)

\* mutant: one entry too many
KeptOneMore(q) == IF Len(q) > MaxEntries + 1 THEN Tail(q) ELSE q

Kept(q) == IF Len(q) > MaxEntries THEN Tail(q) ELSE q

Evicted(q) == IF Len(q) > MaxEntries THEN {Head(q)} ELSE {}

\* set of the LRU cache: the least recently used entry makes room, stale ones do not
MemSet(k, e) ==
  /\ order' = Kept(Used(k))
  /\ mem' = [x \in CacheKeys |-> IF x = k THEN e ELSE IF x \in Evicted(Used(k)) THEN Empty ELSE mem[x]]

\* mutant: the entry is taken out of the order only
MemDeleteOrder(k) == order' = Without(order, k) /\ UNCHANGED mem

MemDelete(k) ==
  /\ order' = Without(order, k)
  /\ mem' = [mem EXCEPT ![k] = Empty]

\* get of the LRU cache: what is found is used, what is stale is removed
MemGet(k) ==
  IF InMemory(mem[k]) # Empty THEN order' = Used(k) /\ UNCHANGED mem ELSE MemDelete(k)

\* mutant: written without a TTL
RedisPutForever(k, e) == rds' = [rds EXCEPT ![k] = [e EXCEPT !.exp = Never]]

RedisPut(k, e) == rds' = [rds EXCEPT ![k] = e]

Latest(k, e, fellBack) ==
  latest' = [latest EXCEPT ![k] = [val |-> e.val, exp |-> e.exp, fellBack |-> fellBack]]

Fails == failures < MaxFailures /\ failures' = failures + 1
Works == UNCHANGED failures

\* every write has a value of its own
OneWrite == writes < MaxWrites /\ writes' = writes + 1
NewValue == 2 * writes + 1

-----------------------------------------------------------------------------
(* The operations: Redis if it is enabled, the LRU cache if that fails.  A *)
(* call that fails may have had its effect.                                *)

Write(k, e) ==
  \/ /\ shared /\ Works
     /\ RedisPut(k, e)
     /\ UNCHANGED <<mem, order>>
     /\ Latest(k, e, FALSE)
  \/ /\ IF shared
        THEN Fails /\ (RedisPut(k, e) \/ UNCHANGED rds)
        ELSE Works /\ UNCHANGED rds
     /\ IF e = Empty THEN MemDelete(k) ELSE MemSet(k, e)
     /\ Latest(k, e, shared)

set(k, ttl) ==
  /\ OneWrite
  /\ Write(k, [val |-> NewValue, exp |-> ExpiryOf(ttl)])
  /\ UNCHANGED <<shared, tick, adding, seen>>

\* delete
Delete(k) ==
  /\ OneWrite
  /\ Write(k, Empty)
  /\ UNCHANGED <<shared, tick, adding, seen>>

Saw(k, val, from) ==
  seen' = [key |-> k, val |-> val, from |-> from, right |-> Live(latest[k]).val,
           fellBack |-> latest[k].fellBack]

getAsync(k) ==
  /\ \/ /\ shared /\ Works
        /\ Saw(k, InRedis(rds[k]).val, "redis")
        /\ UNCHANGED <<mem, order>>
     \/ /\ IF shared THEN Fails ELSE Works
        /\ Saw(k, InMemory(mem[k]).val, IF shared THEN "fallback" ELSE "memory")
        /\ MemGet(k)
  /\ UNCHANGED <<shared, tick, rds, adding, latest, writes>>

\* INCRBY keeps the TTL of the entry; where there is none it makes one without a TTL
Incremented(e) == [val |-> e.val + 1, exp |-> IF e = Empty THEN Never ELSE e.exp]

\* incrBy of the LRU cache: a read of the value and its remaining TTL, then a write
incrBy(k) ==
  /\ OneWrite
  /\ \/ /\ shared /\ Works
        /\ RedisPut(k, Incremented(InRedis(rds[k])))
        /\ Latest(k, Incremented(InRedis(rds[k])), latest[k].fellBack)
        /\ UNCHANGED <<mem, order, adding>>
     \/ /\ IF shared
           THEN Fails /\ (RedisPut(k, Incremented(InRedis(rds[k]))) \/ UNCHANGED rds)
           ELSE Works /\ UNCHANGED rds
        /\ adding = Idle
        /\ adding' = [key |-> k, val |-> Incremented(InMemory(mem[k])).val,
                      exp |-> Incremented(InMemory(mem[k])).exp]
        /\ MemGet(k)
        /\ latest' = [latest EXCEPT ![k].fellBack = shared \/ @]
  /\ UNCHANGED <<shared, tick, seen>>

StoreSum ==
  LET e == [val |-> adding.val, exp |-> adding.exp] IN
  /\ adding # Idle
  /\ MemSet(adding.key, e)
  /\ Latest(adding.key, e, shared)
  /\ adding' = Idle
  /\ UNCHANGED <<shared, tick, rds, seen, failures, writes>>

CacheTick == tick < MaxTick /\ tick' = tick + 1 /\ UNCHANGED <<shared, caches, adding, latest, seen, failures, writes>>

CacheNext ==
  \/ CacheTick
  \/ StoreSum
  \/ \E k \in CacheKeys :
       getAsync(k) \/ Delete(k) \/ incrBy(k) \/ \E ttl \in Ttls : set(k, ttl)

CacheSpec == CacheInit /\ [][CacheNext]_cacheVars

-----------------------------------------------------------------------------
(* Correctness                                                             *)

\* A read from Redis returns the latest value, unless the write of that value fell back to
\* the LRU cache: only then may an old value, or a deleted one, come back (getAsync).
StaleOnlyAfterFallback ==
  seen.from = "redis" /\ ~seen.fellBack => seen.val = seen.right

\* Without Redis a read returns the latest value or, if the entry was evicted, none: never an
\* older one. Any key may be evicted, those of the spending plans too (LocalLRUCache).
LatestOrNone == seen.from = "memory" => seen.val \in {seen.right, None}

\* What a read of the cache returns, with failures of Redis, eviction and expiry (CacheService).
CacheRight == CacheTypeOK /\ StaleOnlyAfterFallback /\ LatestOrNone
=============================================================================
