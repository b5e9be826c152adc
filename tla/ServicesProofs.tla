--------------------------- MODULE ServicesProofs ---------------------------
(***************************************************************************)
(* Proofs about services that many requests share: the rate limiter, the   *)
(* cache decorator, the cache service, the servers in front of them, the   *)
(* spending plans the limiter finds in the cache, the logs that the mirror *)
(* node client reads page by page, and the parameters of all requests.     *)
(***************************************************************************)
EXTENDS SpendingPlans, RateLimiter, CachedMethods, CacheService, Gateway, LogPages,
        Parameters, FiniteSetTheorems, SequenceTheorems, TLAPS

(***************************************************************************)
(* The rate limiter of calls: the types of its variables, and that both    *)
(* stores implement fixed windows.                                         *)
(***************************************************************************)

(* In memory a method has an entry only if its address has a window, and   *)
(* no more calls left than it has in all.                                  *)
EntriesInWindow ==
  \A k \in RateKeys : Known(k) => remaining[k] <= Total[k[2]] /\ reset[k[1]] # Absent

RateInv == RateTypeOK /\ EntriesInWindow

-----------------------------------------------------------------------------

LEMMA RateBounds ==
  /\ Duration \in Nat /\ Duration >= 1 /\ MaxClock \in Nat
  /\ \A m \in Methods : Total[m] \in Nat /\ Total[m] >= 1
BY RateConstants

LEMMA KeysArePairs ==
  /\ \A ip \in Clients : \A m \in Methods :
       <<ip, m>> \in RateKeys /\ <<ip, m>>[1] = ip /\ <<ip, m>>[2] = m
  /\ \A k \in RateKeys : k[1] \in Clients /\ k[2] \in Methods /\ k = <<k[1], k[2]>>
BY DEF RateKeys

LEMMA RateStarts == RateInit => RateInv
BY RateBounds DEF RateInit, RateInv, RateTypeOK, EntriesInWindow, Known

(* The store in memory: a new window of the address, or one call less.     *)
LEMMA LruKeeps ==
  ASSUME RateInv, NEW ip \in Clients, NEW m \in Methods, LruCheck(ip, m), UNCHANGED <<clock, store>>
  PROVE  RateInv'
<1> USE RateBounds, KeysArePairs
<1>1. RateTypeOK /\ EntriesInWindow
  BY DEF RateInv
<1>2. UNCHANGED <<clock, store, count, expires>> /\ verdict' \in {"pass", "limited"}
  BY DEF LruCheck, redis
<1>3. clock \in Nat /\ clock <= MaxClock /\ clock + Duration \in 0 .. MaxClock + Duration
  BY <1>1 DEF RateTypeOK
<1>4. CASE shouldReset(ip)
  <2>1. reset' = [reset EXCEPT ![ip] = clock + Duration] /\ remaining' = ResetAll(ip, m)
    BY <1>4 DEF LruCheck
  <2>2. reset' \in [Clients -> {Absent} \cup 0 .. MaxClock + Duration]
    BY <2>1, <1>1, <1>3 DEF RateTypeOK
  <2>3. ResetAll(ip, m) \in [RateKeys -> {Absent} \cup Nat]
    <3>1. \A k \in RateKeys :
            ResetAll(ip, m)[k] = IF k = <<ip, m>> THEN Total[m] - 1
                                 ELSE IF k[1] = ip /\ Known(k) THEN Total[k[2]] ELSE remaining[k]
      BY DEF ResetAll
    <3>2. \A k \in RateKeys : ResetAll(ip, m)[k] \in {Absent} \cup Nat
      BY <3>1, <1>1 DEF RateTypeOK
    <3> QED BY <3>2 DEF ResetAll
  <2>4. EntriesInWindow'
    <3> SUFFICES ASSUME NEW k \in RateKeys, remaining'[k] # Absent
                 PROVE  remaining'[k] <= Total[k[2]] /\ reset'[k[1]] # Absent
      BY DEF EntriesInWindow, Known
    <3>1. remaining'[k] = IF k = <<ip, m>> THEN Total[m] - 1
                          ELSE IF k[1] = ip /\ Known(k) THEN Total[k[2]] ELSE remaining[k]
      BY <2>1 DEF ResetAll
    <3>2. reset'[k[1]] = IF k[1] = ip THEN clock + Duration ELSE reset[k[1]]
      BY <2>1, <1>1 DEF RateTypeOK
    <3>3. clock + Duration # Absent
      BY <1>3 DEF Absent
    <3>4. CASE k[1] = ip
      BY <3>1, <3>2, <3>3, <3>4, <1>1 DEF EntriesInWindow, Known
    <3>5. CASE k[1] # ip
      BY <3>1, <3>2, <3>5, <1>1 DEF EntriesInWindow, Known
    <3> QED BY <3>4, <3>5
  <2> QED BY <2>1, <2>2, <2>3, <2>4, <1>1, <1>2 DEF RateInv, RateTypeOK
<1>5. CASE ~shouldReset(ip)
  <2> DEFINE left == IF Left(ip, m) > 0 THEN Left(ip, m) - 1 ELSE 0
  <2>1. /\ reset' = [reset EXCEPT ![ip] = WindowEnd(ip)]
        /\ remaining' = [remaining EXCEPT ![<<ip, m>>] = left]
    BY <1>5 DEF LruCheck
  <2>2. WindowEnd(ip) \in 0 .. MaxClock + Duration
    BY <1>1, <1>3 DEF WindowEnd, RateTypeOK
  <2>3. left \in Nat /\ left <= Total[m]
    <3>1. Left(ip, m) \in Nat /\ Left(ip, m) <= Total[m]
      BY <1>1 DEF Left, Known, RateTypeOK, EntriesInWindow
    <3> QED BY <3>1
  <2> HIDE DEF left
  <2>4. RateTypeOK'
    BY <2>1, <2>2, <2>3, <1>1, <1>2 DEF RateTypeOK
  <2>5. EntriesInWindow'
    <3> SUFFICES ASSUME NEW k \in RateKeys, remaining'[k] # Absent
                 PROVE  remaining'[k] <= Total[k[2]] /\ reset'[k[1]] # Absent
      BY DEF EntriesInWindow, Known
    <3>1. reset'[k[1]] = IF k[1] = ip THEN WindowEnd(ip) ELSE reset[k[1]]
      BY <2>1, <1>1 DEF RateTypeOK
    <3>2. remaining'[k] = IF k = <<ip, m>> THEN left ELSE remaining[k]
      BY <2>1, <1>1 DEF RateTypeOK
    <3>3. WindowEnd(ip) # Absent
      BY <2>2 DEF Absent
    <3> QED BY <3>1, <3>2, <3>3, <2>3, <1>1 DEF EntriesInWindow, Known
  <2> QED BY <2>4, <2>5 DEF RateInv
<1> QED BY <1>4, <1>5

(* The store in Redis: the script counts, or nothing happens.              *)
LEMMA RedisKeeps ==
  ASSUME RateInv, NEW k \in RateKeys, RedisCheck(k), UNCHANGED <<clock, store>>
  PROVE  RateInv'
<1> USE RateBounds, KeysArePairs
<1>1. RateTypeOK /\ EntriesInWindow
  BY DEF RateInv
<1>2. UNCHANGED <<clock, store, reset, remaining>> /\ verdict' \in {"pass", "limited"}
  BY DEF RedisCheck, lru
<1>3. Counted(k) \in Nat
  BY <1>1 DEF Counted, RateTypeOK
<1>4. WindowOf(k) \in 0 .. MaxClock + Duration
  BY <1>1 DEF WindowOf, RateTypeOK
<1>5. count' \in [RateKeys -> Nat] /\ expires' \in [RateKeys -> 0 .. MaxClock + Duration]
  BY <1>1, <1>3, <1>4 DEF RedisCheck, redis, RateTypeOK
<1> QED BY <1>1, <1>2, <1>5 DEF RateInv, RateTypeOK, EntriesInWindow, Known

LEMMA RateStep == RateInv /\ [RateNext]_rateVars => RateInv'
<1> SUFFICES ASSUME RateInv, [RateNext]_rateVars PROVE RateInv'
  OBVIOUS
<1>1. ASSUME NEW ip \in Clients, NEW m \in Methods, shouldRateLimit(ip, m) PROVE RateInv'
  BY <1>1, LruKeeps, RedisKeeps, KeysArePairs DEF shouldRateLimit
<1>2. CASE RateTick
  BY <1>2, RateBounds DEF RateTick, RateInv, RateTypeOK, EntriesInWindow, Known, lru, redis
<1>3. CASE UNCHANGED rateVars
  BY <1>3 DEF rateVars, lru, redis, RateInv, RateTypeOK, EntriesInWindow, Known
<1> QED BY <1>1, <1>2, <1>3 DEF RateNext

(* The variables stay in their sets (the two implementations of            *)
(* RateLimitStore).                                                        *)
THEOREM RateTyped == RateSpec => []RateTypeOK
<1>1. RateInv => RateTypeOK
  BY DEF RateInv
<1> QED BY <1>1, RateStarts, RateStep, PTL DEF RateSpec

-----------------------------------------------------------------------------
(* Every check is a step of the fixed windows.                             *)

LEMMA WindowsStart == RateInit => Windows!FWInit
<1> SUFFICES ASSUME RateInit PROVE Windows!FWInit
  OBVIOUS
<1>1. (IF store = "LRU" THEN Duration ELSE Duration - 1) \in Nat
  BY RateBounds
<1>2. \A k \in RateKeys : Granted(k) = 0 /\ Until(k) = -1
  <2> TAKE k \in RateKeys
  <2>1. k[1] \in Clients /\ k[2] \in Methods
    BY KeysArePairs
  <2> QED BY <2>1, RateBounds, KeysArePairs DEF RateInit, Granted, Until, Known, Absent
<1> QED BY <1>1, <1>2 DEF RateInit, Windows!FWInit

(* The memory opens a window: all the methods of the address begin anew.   *)
LEMMA LruOpens ==
  ASSUME RateInv, store = "LRU", NEW ip \in Clients, NEW m \in Methods, LruCheck(ip, m),
         UNCHANGED <<clock, store>>, shouldReset(ip) \/ reset[ip] = Absent
  PROVE  Windows!GrantCall(<<ip, m>>)
<1> DEFINE key == <<ip, m>>
           K == {k \in RateKeys : k[1] = ip}
<1> USE RateBounds, KeysArePairs
<1>1. RateTypeOK /\ EntriesInWindow
  BY DEF RateInv
<1>2. \A k \in RateKeys : Windows!Over(k) <=> Until(k) < clock
  BY DEF Windows!Over
<1>3. \A k \in K : Until(k) < clock
  BY <1>1 DEF Until, shouldReset, WindowEnd, RateTypeOK, Absent
<1>4. reset' = [reset EXCEPT ![ip] = clock + Duration] /\ verdict' = "pass"
  <2>1. CASE shouldReset(ip)
    BY <2>1 DEF LruCheck
  <2>2. CASE ~shouldReset(ip)
    <3>1. reset[ip] = Absent /\ WindowEnd(ip) = clock + Duration
      BY <2>2 DEF WindowEnd
    <3>2. Left(ip, m) > 0
      BY <3>1, <1>1 DEF Left, EntriesInWindow
    <3> QED BY <2>2, <3>1, <3>2 DEF LruCheck
  <2> QED BY <2>1, <2>2
<1>5. \A k \in RateKeys : Until(k)' = IF k \in K THEN clock + Duration ELSE Until(k)
  <2> TAKE k \in RateKeys
  <2>1. reset'[k[1]] = IF k[1] = ip THEN clock + Duration ELSE reset[k[1]]
    BY <1>1, <1>4 DEF RateTypeOK
  <2>2. clock + Duration # Absent
    BY <1>1 DEF RateTypeOK, Absent
  <2> QED BY <2>1, <2>2 DEF Until
<1>6. \A k \in RateKeys : Granted(k)' = IF k = key THEN 1 ELSE IF k \in K THEN 0 ELSE Granted(k)
  <2> SUFFICES ASSUME NEW k \in RateKeys
               PROVE  Granted(k)' = IF k = key THEN 1 ELSE IF k \in K THEN 0 ELSE Granted(k)
    OBVIOUS
  <2>1. Granted(k)' = IF remaining'[k] # Absent THEN Total[k[2]] - remaining'[k] ELSE 0
    BY DEF Granted, Known
  <2>2. CASE shouldReset(ip)
    <3>1. remaining'[k] = IF k = key THEN Total[m] - 1
                          ELSE IF k[1] = ip /\ Known(k) THEN Total[k[2]] ELSE remaining[k]
      BY <2>2 DEF LruCheck, ResetAll
    <3> QED BY <2>1, <3>1 DEF Granted, Known, Absent
  <2>3. CASE ~shouldReset(ip)
    <3>1. reset[ip] = Absent
      BY <2>3
    <3>2. \A j \in K : ~Known(j)
      BY <3>1, <1>1 DEF EntriesInWindow
    <3>3. Left(ip, m) = Total[m]
      BY <3>2 DEF Left
    <3>4. remaining' = [remaining EXCEPT ![key] = Total[m] - 1]
      BY <2>3, <3>3 DEF LruCheck
    <3>5. remaining'[k] = IF k = key THEN Total[m] - 1 ELSE remaining[k]
      BY <3>4, <1>1 DEF RateTypeOK
    <3> QED BY <2>1, <3>2, <3>5 DEF Granted, Known, Absent
  <2> QED BY <2>2, <2>3
<1>7. key \in K /\ K \in SUBSET RateKeys /\ Until(key) < clock
  BY <1>3
<1>8. UNCHANGED <<IF store = "LRU" THEN Duration ELSE Duration - 1, store = "REDIS", clock>>
  OBVIOUS
<1>9. Windows!Renew(K, Windows!One(key))
  <2>1. \A k \in K : Windows!Over(k)
    BY <1>2, <1>3
  <2>2. [k \in RateKeys |-> Until(k)]' =
          [k \in RateKeys |->
             IF k \in K THEN clock + (IF store = "LRU" THEN Duration ELSE Duration - 1)
             ELSE [j \in RateKeys |-> Until(j)][k]]
    BY <1>5
  <2>3. \A k \in RateKeys : ~(k \in K) => Granted(k) \in Int
    BY <1>1 DEF Granted, RateTypeOK, Known
  <2>4. [k \in RateKeys |-> Granted(k)]' =
          [k \in RateKeys |-> IF k \in K THEN Windows!One(key)[k]
                              ELSE [j \in RateKeys |-> Granted(j)][k] + Windows!One(key)[k]]
    BY <1>6, <1>7, <2>3 DEF Windows!One
  <2> QED BY <2>1, <2>2, <2>4 DEF Windows!Renew
<1>10. [k \in RateKeys |-> Granted(k)]'[key] <= [k \in RateKeys |-> Total[k[2]]][key]
  BY <1>6
<1> QED BY <1>2, <1>4, <1>7, <1>8, <1>9, <1>10 DEF Windows!GrantCall, Windows!kind

(* The memory counts a call in the window of its address, or refuses it.   *)
LEMMA LruCounts ==
  ASSUME RateInv, store = "LRU", NEW ip \in Clients, NEW m \in Methods, LruCheck(ip, m),
         UNCHANGED <<clock, store>>, ~shouldReset(ip), reset[ip] # Absent
  PROVE  Windows!GrantCall(<<ip, m>>) \/ Windows!RefuseCall(<<ip, m>>)
<1> DEFINE key == <<ip, m>>
<1> USE RateBounds, KeysArePairs
<1>1. RateTypeOK /\ EntriesInWindow
  BY DEF RateInv
<1>2. \A k \in RateKeys : Windows!Over(k) <=> Until(k) < clock
  BY DEF Windows!Over
<1>3. reset' = reset
  BY <1>1 DEF LruCheck, WindowEnd, RateTypeOK
<1>4. [k \in RateKeys |-> Until(k)]' = [k \in RateKeys |-> Until(k)]
  BY <1>3 DEF Until
<1>5. ~(Until(key) < clock)
  BY <1>1 DEF Until, shouldReset, WindowEnd
<1>6. UNCHANGED <<IF store = "LRU" THEN Duration ELSE Duration - 1, store = "REDIS", clock>>
  OBVIOUS
<1>7. Left(ip, m) \in Nat /\ Granted(key) = Total[m] - Left(ip, m)
  BY <1>1 DEF Left, Granted, Known, RateTypeOK
<1>8. CASE Left(ip, m) > 0
  <2>1. remaining' = [remaining EXCEPT ![key] = Left(ip, m) - 1] /\ verdict' = "pass"
    BY <1>8 DEF LruCheck
  <2>2. \A k \in RateKeys : remaining'[k] = IF k = key THEN Left(ip, m) - 1 ELSE remaining[k]
    BY <2>1, <1>1 DEF RateTypeOK
  <2>3. \A k \in RateKeys : Granted(k)' = IF k = key THEN Granted(k) + 1 ELSE Granted(k)
    BY <2>2, <1>7, <1>8 DEF Granted, Known, Absent
  <2>4. \A k \in RateKeys : Granted(k) \in Int
    BY <1>1 DEF Granted, RateTypeOK, Known
  <2>5. Windows!Renew({}, Windows!One(key))
    <3>1. [k \in RateKeys |-> Granted(k)]' =
            [k \in RateKeys |-> IF k \in {} THEN Windows!One(key)[k]
                                ELSE [j \in RateKeys |-> Granted(j)][k] + Windows!One(key)[k]]
      BY <2>3, <2>4 DEF Windows!One
    <3> QED BY <3>1, <1>4 DEF Windows!Renew
  <2>6. [k \in RateKeys |-> Granted(k)]'[key] <= [k \in RateKeys |-> Total[k[2]]][key]
    BY <2>3, <1>7, <1>8
  <2>7. {} \in SUBSET RateKeys /\ (key \in {} <=> Windows!Over(key))
    BY <1>2, <1>5
  <2> QED BY <2>1, <2>5, <2>6, <2>7, <1>6 DEF Windows!GrantCall, Windows!kind
<1>9. CASE Left(ip, m) = 0
  <2>1. remaining' = [remaining EXCEPT ![key] = 0] /\ verdict' = "limited"
    BY <1>9, <1>7 DEF LruCheck
  <2>2. remaining[key] = 0
    BY <1>9 DEF Left
  <2>3. remaining' = remaining
    BY <2>1, <2>2, <1>1 DEF RateTypeOK
  <2>4. [k \in RateKeys |-> Granted(k)]' = [k \in RateKeys |-> Granted(k)]
    BY <2>3 DEF Granted, Known
  <2>5. [k \in RateKeys |-> Granted(k)][key] = [k \in RateKeys |-> Total[k[2]]][key]
    BY <1>7, <1>9
  <2> QED BY <2>1, <2>4, <2>5, <1>2, <1>4, <1>5, <1>6 DEF Windows!RefuseCall, Windows!kind
<1> QED BY <1>7, <1>8, <1>9

(* Redis counts a call, refuses it, or lets it pass uncounted.             *)
LEMMA RedisCounts ==
  ASSUME RateInv, store = "REDIS", NEW key \in RateKeys, RedisCheck(key),
         UNCHANGED <<clock, store>>
  PROVE  Windows!GrantCall(key) \/ Windows!RefuseCall(key) \/ Windows!PassUncounted(key)
<1> DEFINE total == Total[key[2]]
           K == IF Expired(key) THEN {key} ELSE {}
<1> USE RateBounds, KeysArePairs
<1>1. RateTypeOK
  BY DEF RateInv
<1>2. total \in Nat /\ total >= 1
  OBVIOUS
<1>3. clock \in Nat /\ count \in [RateKeys -> Nat] /\ expires \in [RateKeys -> Nat]
  BY <1>1 DEF RateTypeOK
<1>4. \A k \in RateKeys :
        /\ Granted(k) = IF count[k] > Total[k[2]] THEN Total[k[2]] ELSE count[k]
        /\ Until(k) = IF count[k] = 0 THEN Absent ELSE expires[k] - 1
        /\ Granted(k)' = IF count'[k] > Total[k[2]] THEN Total[k[2]] ELSE count'[k]
        /\ Until(k)' = IF count'[k] = 0 THEN Absent ELSE expires'[k] - 1
  BY DEF Granted, Until
<1>5. \A k \in RateKeys : Windows!Over(k) <=> Until(k) < clock
  BY DEF Windows!Over
<1>6. Expired(key) <=> Until(key) < clock
  BY <1>3, <1>4 DEF Expired, Absent
<1>7. UNCHANGED <<IF store = "LRU" THEN Duration ELSE Duration - 1, store = "REDIS", clock>>
  OBVIOUS
<1>8. Counted(key) \in Nat /\ Counted(key) >= 1 /\ (Expired(key) => Counted(key) = 1)
      /\ (~Expired(key) => Counted(key) = count[key] + 1)
  BY <1>3 DEF Counted
<1>9. CASE UNCHANGED redis /\ verdict' = "pass"
  <2>1. count' = count /\ expires' = expires
    BY <1>9 DEF redis
  <2>2. /\ [k \in RateKeys |-> Granted(k)]' = [k \in RateKeys |-> Granted(k)]
        /\ [k \in RateKeys |-> Until(k)]' = [k \in RateKeys |-> Until(k)]
    BY <2>1, <1>4
  <2> QED BY <2>2, <1>7, <1>9 DEF Windows!PassUncounted, Windows!kind
<1>10. CASE /\ count' = [count EXCEPT ![key] = Counted(key)]
            /\ expires' = [expires EXCEPT ![key] = WindowOf(key)]
            /\ verdict' \in {"pass", "limited"}
            /\ Counted(key) <= total => verdict' = "pass"
  <2>1. \A k \in RateKeys :
          /\ count'[k] = IF k = key THEN Counted(key) ELSE count[k]
          /\ expires'[k] = IF k = key THEN WindowOf(key) ELSE expires[k]
    BY <1>3, <1>10
  <2>2. \A k \in RateKeys : Until(k)' = IF k \in K THEN clock + (Duration - 1) ELSE Until(k)
    <3> SUFFICES ASSUME NEW k \in RateKeys
                 PROVE  Until(k)' = IF k \in K THEN clock + (Duration - 1) ELSE Until(k)
      OBVIOUS
    <3>1. CASE k # key
      BY <3>1, <2>1, <1>4
    <3>2. CASE k = key /\ Expired(key)
      <4>1. WindowOf(key) = clock + Duration
        BY <3>2 DEF WindowOf
      <4>2. count'[k] # 0 /\ expires'[k] = clock + Duration
        BY <4>1, <3>2, <2>1, <1>8
      <4>3. Until(k)' = (clock + Duration) - 1
        BY <4>2, <1>4
      <4> QED BY <4>3, <3>2, <1>3
    <3>3. CASE k = key /\ ~Expired(key)
      BY <3>3, <2>1, <1>4, <1>8, <1>3 DEF WindowOf, Expired
    <3> QED BY <3>1, <3>2, <3>3
  <2>3. CASE Counted(key) <= total
    <3>1. \A k \in RateKeys : Granted(k)' = IF k \in K THEN 1
                                            ELSE IF k = key THEN Granted(k) + 1 ELSE Granted(k)
      <4> SUFFICES ASSUME NEW k \in RateKeys
                   PROVE  Granted(k)' = IF k \in K THEN 1
                                        ELSE IF k = key THEN Granted(k) + 1 ELSE Granted(k)
        OBVIOUS
      <4>1. CASE k # key
        BY <4>1, <2>1, <1>4
      <4>2. CASE k = key
        <5>1. Granted(k)' = Counted(key)
          BY <4>2, <2>1, <2>3, <1>4, <1>8
        <5>2. ~Expired(key) => Granted(k) = count[key]
          BY <4>2, <2>3, <1>3, <1>4, <1>8
        <5> QED BY <4>2, <5>1, <5>2, <1>8
      <4> QED BY <4>1, <4>2
    <3>2. \A k \in RateKeys : Granted(k) \in Int
      BY <1>3, <1>4
    <3>3. Windows!Renew(K, Windows!One(key))
      <4>1. \A k \in K : Windows!Over(k)
        BY <1>5, <1>6
      <4>2. [k \in RateKeys |-> Until(k)]' =
              [k \in RateKeys |->
                 IF k \in K THEN clock + (IF store = "LRU" THEN Duration ELSE Duration - 1)
                 ELSE [j \in RateKeys |-> Until(j)][k]]
        BY <2>2
      <4>3. [k \in RateKeys |-> Granted(k)]' =
              [k \in RateKeys |-> IF k \in K THEN Windows!One(key)[k]
                                  ELSE [j \in RateKeys |-> Granted(j)][k] + Windows!One(key)[k]]
        BY <3>1, <3>2 DEF Windows!One
      <4> QED BY <4>1, <4>2, <4>3 DEF Windows!Renew
    <3>4. [k \in RateKeys |-> Granted(k)]'[key] <= [k \in RateKeys |-> Total[k[2]]][key]
      BY <2>1, <2>3, <1>4, <1>8
    <3>5. K \in SUBSET RateKeys /\ (key \in K <=> Windows!Over(key))
      BY <1>5, <1>6
    <3>6. verdict' = "pass"
      BY <2>3, <1>10
    <3> HIDE DEF K
    <3> QED BY <3>3, <3>4, <3>5, <3>6, <1>7 DEF Windows!GrantCall, Windows!kind
  <2>4. CASE Counted(key) > total
    <3>1. ~Expired(key) /\ count[key] >= total
      BY <2>4, <1>2, <1>3, <1>8
    <3>2. K = {}
      BY <3>1
    <3>3. [k \in RateKeys |-> Until(k)]' = [k \in RateKeys |-> Until(k)]
      BY <2>2, <3>2
    <3>4. Granted(key) = total /\ Granted(key)' = total
      <4>1. Granted(key) = total
        <5>1. count[key] \in Nat /\ (count[key] > total \/ count[key] = total)
          BY <3>1, <1>2, <1>3
        <5> QED BY <5>1, <1>4
      <4>2. count'[key] > total
        BY <2>1, <2>4
      <4> QED BY <4>1, <4>2, <1>4
    <3>5. \A k \in RateKeys : k # key => Granted(k)' = Granted(k)
      BY <2>1, <1>4
    <3>6. [k \in RateKeys |-> Granted(k)]' = [k \in RateKeys |-> Granted(k)]
      BY <3>4, <3>5
    <3>7. CASE verdict' = "limited"
      <4>1. ~Windows!Over(key)
        BY <3>1, <1>5, <1>6
      <4>2. [k \in RateKeys |-> Granted(k)][key] = [k \in RateKeys |-> Total[k[2]]][key]
        BY <3>4
      <4> QED BY <4>1, <4>2, <3>3, <3>6, <3>7, <1>7 DEF Windows!RefuseCall, Windows!kind
    <3>8. CASE verdict' = "pass"
      BY <3>3, <3>6, <3>8, <1>7 DEF Windows!PassUncounted, Windows!kind
    <3> QED BY <3>7, <3>8, <1>10
  <2> QED BY <2>3, <2>4, <1>2, <1>8
<1> QED BY <1>2, <1>8, <1>9, <1>10 DEF RedisCheck

(* A step of the rate limiter is one of the windows or leaves them alone.  *)
LEMMA WindowsStep == RateInv /\ [RateNext]_rateVars => [Windows!FWNext]_(Windows!fwVars)
<1> SUFFICES ASSUME RateInv, [RateNext]_rateVars PROVE [Windows!FWNext]_(Windows!fwVars)
  OBVIOUS
<1>1. ASSUME NEW ip \in Clients, NEW m \in Methods, shouldRateLimit(ip, m)
      PROVE  Windows!FWNext
  <2>1. <<ip, m>> \in RateKeys /\ UNCHANGED <<clock, store>>
    BY <1>1 DEF RateKeys, shouldRateLimit
  <2>2. CASE store = "LRU"
    <3>1. LruCheck(ip, m)
      BY <1>1, <2>2 DEF shouldRateLimit
    <3> QED BY <2>1, <2>2, <3>1, LruOpens, LruCounts DEF Windows!FWNext
  <2>3. CASE store # "LRU"
    <3>1. store = "REDIS" /\ RedisCheck(<<ip, m>>)
      BY <1>1, <2>3 DEF shouldRateLimit, RateInv, RateTypeOK
    <3> QED BY <2>1, <3>1, RedisCounts DEF Windows!FWNext
  <2> QED BY <2>2, <2>3
<1>2. CASE RateTick
  <2>1. clock' > clock /\ UNCHANGED <<store, reset, remaining, count, expires, verdict>>
    BY <1>2 DEF RateTick, RateInv, RateTypeOK, lru, redis
  <2>2. /\ [k \in RateKeys |-> Granted(k)]' = [k \in RateKeys |-> Granted(k)]
        /\ [k \in RateKeys |-> Until(k)]' = [k \in RateKeys |-> Until(k)]
    BY <2>1 DEF Granted, Until, Known
  <2> QED BY <2>1, <2>2 DEF Windows!FWNext, Windows!FWTick, Windows!kind
<1>3. CASE UNCHANGED rateVars
  <2>1. UNCHANGED <<clock, store, reset, remaining, count, expires, verdict>>
    BY <1>3 DEF rateVars, lru, redis
  <2>2. /\ [k \in RateKeys |-> Granted(k)]' = [k \in RateKeys |-> Granted(k)]
        /\ [k \in RateKeys |-> Until(k)]' = [k \in RateKeys |-> Until(k)]
    BY <2>1 DEF Granted, Until, Known
  <2> QED BY <2>1, <2>2 DEF Windows!fwVars, Windows!kind
<1> QED BY <1>1, <1>2, <1>3 DEF RateNext

(* Both stores implement fixed windows: in each at most the method's total *)
(* of calls pass, and none is refused earlier, but for calls that a        *)
(* failing Redis lets through (IPRateLimiterService.shouldRateLimit).      *)
THEOREM StoresCountInWindows == RateSpec => CountsInWindows
<1>1. RateSpec => []RateInv
  BY RateStarts, RateStep, PTL DEF RateSpec
<1> QED BY <1>1, WindowsStart, WindowsStep, PTL DEF RateSpec, CountsInWindows, Windows!FWSpec

-----------------------------------------------------------------------------
(***************************************************************************)
(* The cache decorator: whatever is asked, in whatever order and by however *)
(* many requests at a time, a kept answer is right for who gets it.        *)
(***************************************************************************)

Named(p) == {p.blocks[i] : i \in DOMAIN p.blocks}

(* The answer is for the blocks the question names: those without a number *)
(* are blocks of the chain as it was at some time since, and the chain did *)
(* not reach the one that was not found before then.                       *)
Right(p, answer, since) ==
  /\ answer.kind = "value" /\ (Tag \in Named(p) \/ EndsAtNewest(p)) => answer.to >= since
  /\ answer.kind = "value" /\ Len(p.blocks) > 0 =>
       /\ p.blocks[1] \in Nat => answer.from = p.blocks[1]
       /\ p.blocks[Len(p.blocks)] \in Nat => answer.to = p.blocks[Len(p.blocks)]
  /\ answer.kind = "empty" => \E i \in DOMAIN p.blocks : p.blocks[i] \in Nat /\ p.blocks[i] > since

Age(p) == TtlOfMethod(p) + MaxAskTime

(* What is kept is the answer to a question that names no moving block.    *)
KeptRight ==
  \A k \in Keys :
    LET entry == answerCache[k] IN
    entry.answer # Nothing =>
      Accepts(k) /\ ~SkipsCaching(k) /\ Right(k, entry.answer, entry.until - Age(k))

AskedLately ==
  \A q \in Askers :
    /\ asking[q].pc # "idle" => asking[q].question \in Questions /\ asking[q].start <= newest
    /\ Open(q) => Accepts(asking[q].question) /\ newest - asking[q].start <= MaxAskTime

KeepRight ==
  \A q \in Askers :
    LET p == asking[q].question IN
    asking[q].pc = "keep" => ~SkipsCaching(p) /\ Right(p, asking[q].answer, asking[q].start)

DoneRight ==
  \A q \in Askers :
    LET p == asking[q].question
        answer == asking[q].answer IN
    asking[q].pc = "done" =>
      /\ answer.kind \in {"value", "empty"} => Accepts(p)
      /\ \/ Right(p, answer, asking[q].start)
         \/ ~SkipsCaching(p) /\ Right(p, answer, asking[q].start - Age(p))

CachedInv == CachedMethodsTypeOK /\ KeptRight /\ AskedLately /\ KeepRight /\ DoneRight

-----------------------------------------------------------------------------

LEMMA TtlsAreNat == AnswerTtl \in Nat /\ ShortTtl \in Nat /\ MaxAskTime \in Nat
BY CachedConstants

LEMMA AgeIsNat == \A p : Age(p) \in Nat
BY TtlsAreNat DEF Age, TtlOfMethod

(* A key is the question it is made of.                                    *)
LEMMA QuestionsTyped ==
  \A p \in Questions :
    /\ p.method \in CachedMethodNames
    /\ p.blocks \in Seq(Unnumbered \cup Nat)
    /\ CacheKey(p) = p /\ p \in Keys
<1> SUFFICES ASSUME NEW p \in Questions
             PROVE  /\ p.method \in CachedMethodNames
                    /\ p.blocks \in Seq(Unnumbered \cup Nat)
                    /\ CacheKey(p) = p /\ p \in Keys
  OBVIOUS
<1>1. p \in [method : CachedMethodNames, blocks : Seq(Unnumbered \cup Nat)]
  BY CachedConstants
<1>2. CacheKey(p) = p
  BY <1>1 DEF CacheKey
<1> QED BY <1>1, <1>2 DEF Keys

LEMMA KeysAreQuestions == Keys = Questions
<1>1. Keys \subseteq Questions
  <2> SUFFICES ASSUME NEW k \in Keys PROVE k \in Questions
    OBVIOUS
  <2>1. PICK p \in Questions : k = CacheKey(p)
    BY DEF Keys
  <2> QED BY <2>1, QuestionsTyped
<1>2. Questions \subseteq Keys
  BY QuestionsTyped
<1> QED BY <1>1, <1>2

(* What was right since some time was right since an earlier one.          *)
LEMMA RightSince ==
  ASSUME NEW p \in Questions, NEW answer \in AnswerRecords, NEW s \in Int, NEW t \in Int,
         t <= s, Right(p, answer, s)
  PROVE  Right(p, answer, t)
<1>1. \A i \in DOMAIN p.blocks : p.blocks[i] \in Int
  BY QuestionsTyped DEF Unnumbered, Tag, Missing, InObject
<1>2. answer.to \in Int
  BY DEF AnswerRecords
<1> QED BY <1>1, <1>2 DEF Right

(* No answer at all is right, and so is an error.                          *)
LEMMA ErrorsAreRight ==
  \A p, s : /\ Right(p, Nothing, s) /\ Nothing \in AnswerRecords
            /\ Right(p, [Nothing EXCEPT !.kind = "error"], s)
            /\ [Nothing EXCEPT !.kind = "error"] \in AnswerRecords
BY DEF Right, Nothing, AnswerRecords

(* What a method answers is right since any time before now.               *)
LEMMA AnswerIsRight ==
  ASSUME newest \in Nat, NEW p \in Questions, Accepts(p), NEW s \in Nat, s <= newest
  PROVE  AnswerNow(p) \in AnswerRecords /\ Right(p, AnswerNow(p), s)
<1> USE DEF Unnumbered, Tag, Missing, InObject
<1>1. p.blocks \in Seq(Unnumbered \cup Nat) /\ p.method \in CachedMethodNames
  BY QuestionsTyped
<1>2. \A i \in DOMAIN p.blocks : p.blocks[i] \in Unnumbered \cup Nat
  BY <1>1
<1>3. CASE p.method \in TimedMethods
  <2>1. Len(p.blocks) = 0
    BY <1>3 DEF Accepts, TimedMethods, RangeMethods
  <2>2. AnswerNow(p) = [kind |-> "value", from |-> newest, to |-> newest]
    BY <1>3 DEF AnswerNow
  <2> QED BY <2>1, <2>2 DEF Right, AnswerRecords
<1>4. CASE p.method \in RangeMethods
  <2> DEFINE from == BlockAt(p.blocks[1])
             to == BlockAt(p.blocks[2])
             value == [kind |-> "value", from |-> from, to |-> to]
             empty == [Nothing EXCEPT !.kind = "empty"]
  <2>1. Len(p.blocks) = 2 /\ DOMAIN p.blocks = {1, 2}
    <3>1. Len(p.blocks) = 2
      BY <1>4 DEF Accepts
    <3> QED BY <3>1, <1>1
  <2>2. AnswerNow(p) = RangeAnswer(p)
    BY <1>4 DEF AnswerNow, TimedMethods, RangeMethods
  <2>3. \/ AnswerNow(p) = [Nothing EXCEPT !.kind = "error"]
        \/ AnswerNow(p) = empty /\ (from > newest \/ to > newest)
        \/ AnswerNow(p) = value /\ ~(to > newest) /\ ~(from > to)
    BY <2>2 DEF RangeAnswer
  <2>4. from \in Nat /\ to \in Nat
    BY <1>2, <2>1 DEF BlockAt
  <2>5. CASE AnswerNow(p) = empty /\ (from > newest \/ to > newest)
    <3>1. \E i \in DOMAIN p.blocks : BlockAt(p.blocks[i]) > newest
      BY <2>1, <2>5
    <3>2. \E i \in DOMAIN p.blocks : p.blocks[i] \in Nat /\ p.blocks[i] > newest
      BY <3>1, <1>2 DEF BlockAt
    <3>3. \E i \in DOMAIN p.blocks : p.blocks[i] \in Nat /\ p.blocks[i] > s
      BY <3>2, <1>2
    <3> QED BY <3>3, <2>5 DEF Right, Nothing, AnswerRecords
  <2>6. CASE AnswerNow(p) = value /\ ~(to > newest) /\ ~(from > to)
    <3>1. value \in AnswerRecords
      BY <2>4 DEF AnswerRecords
    <3>2. /\ p.blocks[1] \in Nat => from = p.blocks[1]
          /\ p.blocks[2] \in Nat => to = p.blocks[2]
      BY DEF BlockAt
    <3>3. EndsAtNewest(p) => to = newest
      BY <2>1 DEF EndsAtNewest, BlockAt
    <3>4. Tag \in Named(p) => from = newest \/ to = newest
      BY <2>1 DEF Named, BlockAt
    <3>5. Tag \in Named(p) => to = newest
      BY <3>4, <2>4, <2>6
    <3> QED BY <3>1, <3>2, <3>3, <3>5, <2>1, <2>6 DEF Right
  <2> QED BY <2>3, <2>5, <2>6, ErrorsAreRight
<1>5. CASE p.method \notin TimedMethods \cup RangeMethods
  <2> DEFINE b == BlockAt(p.blocks[1])
             value == [kind |-> "value", from |-> b, to |-> b]
  <2>1. Len(p.blocks) = 1 /\ DOMAIN p.blocks = {1}
    <3>1. Len(p.blocks) = 1
      BY <1>5 DEF Accepts
    <3> QED BY <3>1, <1>1
  <2>2. AnswerNow(p) = NumberedAnswer(p)
    BY <1>5 DEF AnswerNow
  <2>3. AnswerNow(p) \in {value, Nothing, [Nothing EXCEPT !.kind = "error"]}
    BY <2>2 DEF NumberedAnswer
  <2>4. b \in Nat
    BY <1>2, <2>1 DEF BlockAt
  <2>5. CASE AnswerNow(p) = value
    <3>1. value \in AnswerRecords
      BY <2>4 DEF AnswerRecords
    <3>2. p.blocks[1] \in Nat => b = p.blocks[1]
      BY DEF BlockAt
    <3>3. Tag \in Named(p) \/ EndsAtNewest(p) => b = newest
      BY <2>1 DEF Named, EndsAtNewest, BlockAt
    <3> QED BY <3>1, <3>2, <3>3, <2>1, <2>5 DEF Right
  <2> QED BY <2>3, <2>5, ErrorsAreRight
<1> QED BY <1>3, <1>4, <1>5

-----------------------------------------------------------------------------

LEMMA CachedStarts == CachedMethodsInit => CachedInv
<1> SUFFICES ASSUME CachedMethodsInit PROVE CachedInv
  OBVIOUS
<1>1. Nothing \in AnswerRecords /\ NotKept \in [answer : AnswerRecords, until : Int]
  BY DEF Nothing, AnswerRecords, NotKept
<1>2. IdleAsk \in AskStates /\ IdleAsk.pc = "idle"
  BY <1>1 DEF IdleAsk, AskStates
<1>3. CachedMethodsTypeOK
  BY <1>1, <1>2 DEF CachedMethodsInit, CachedMethodsTypeOK
<1>4. KeptRight
  BY DEF CachedMethodsInit, KeptRight, NotKept
<1>5. \A q \in Askers : asking[q].pc = "idle"
  BY <1>2 DEF CachedMethodsInit
<1>6. AskedLately /\ KeepRight /\ DoneRight
  BY <1>5 DEF AskedLately, KeepRight, DoneRight, Open
<1> QED BY <1>3, <1>4, <1>6 DEF CachedInv

(* A block is made: the requests that are processed are not delayed more.  *)
LEMMA MinedKeeps == ASSUME CachedInv, Mined PROVE CachedInv'
<1> USE TtlsAreNat
<1>1. newest \in Nat /\ newest' = newest + 1 /\ answerCache' = answerCache /\ asking' = asking
  BY DEF Mined, CachedInv, CachedMethodsTypeOK
<1>2. \A q \in Askers : asking[q].start \in Nat
  BY DEF CachedInv, CachedMethodsTypeOK, AskStates
<1>3. AskedLately'
  BY <1>1, <1>2 DEF CachedInv, AskedLately, Mined, Open
<1>4. CachedMethodsTypeOK' /\ KeptRight' /\ KeepRight' /\ DoneRight'
  BY <1>1 DEF CachedInv, CachedMethodsTypeOK, KeptRight, KeepRight, DoneRight
<1> QED BY <1>3, <1>4 DEF CachedInv

(* What is said of the requests, of one of them.                           *)
AskedOk(r, now) ==
  /\ r.pc # "idle" => r.question \in Questions /\ r.start <= now
  /\ r.pc \in {"compute", "keep"} => Accepts(r.question) /\ now - r.start <= MaxAskTime
  /\ r.pc = "keep" => ~SkipsCaching(r.question) /\ Right(r.question, r.answer, r.start)
  /\ r.pc = "done" =>
       /\ r.answer.kind \in {"value", "empty"} => Accepts(r.question)
       /\ \/ Right(r.question, r.answer, r.start)
          \/ ~SkipsCaching(r.question) /\ Right(r.question, r.answer, r.start - Age(r.question))

LEMMA OneByOne ==
  AskedLately /\ KeepRight /\ DoneRight <=> \A q \in Askers : AskedOk(asking[q], newest)
BY DEF AskedLately, KeepRight, DoneRight, AskedOk, Open

(* One request moves on.                                                   *)
LEMMA OneMoves ==
  ASSUME CachedInv, NEW q \in Askers, NEW r \in AskStates, AskedOk(r, newest),
         asking' = [asking EXCEPT ![q] = r], newest' = newest
  PROVE  /\ asking' \in [Askers -> AskStates]
         /\ AskedLately' /\ KeepRight' /\ DoneRight'
<1>1. asking \in [Askers -> AskStates]
  BY DEF CachedInv, CachedMethodsTypeOK
<1>2. asking' \in [Askers -> AskStates] /\ \A u \in Askers : u # q => asking'[u] = asking[u]
  BY <1>1
<1>3. asking'[q] = r
  BY <1>1
<1>4. \A u \in Askers : AskedOk(asking[u], newest)
  BY OneByOne DEF CachedInv
<1>5. \A u \in Askers : AskedOk(asking'[u], newest)
  BY <1>2, <1>3, <1>4
<1>6. \A u \in Askers : AskedOk(asking'[u], newest')
  BY <1>5
<1>7. AskedLately' /\ KeepRight' /\ DoneRight'
  BY <1>6 DEF AskedLately, KeepRight, DoneRight, AskedOk, Open
<1> QED BY <1>2, <1>7

(* The request is refused, answered from the cache, or processed.          *)
LEMMA AskKeeps ==
  ASSUME CachedInv, NEW q \in Askers, NEW p \in Questions, Ask(q, p) PROVE CachedInv'
<1> DEFINE entry == answerCache[CacheKey(p)]
           error == [Nothing EXCEPT !.kind = "error"]
           State(pc, answer) ==
             [pc |-> pc, question |-> p, start |-> newest, answer |-> answer]
<1>1. CachedMethodsTypeOK /\ KeptRight /\ CacheKey(p) = p /\ p \in Keys
  BY QuestionsTyped DEF CachedInv
<1>2. newest \in Nat /\ entry.answer \in AnswerRecords /\ entry.until \in Int
  BY <1>1 DEF CachedMethodsTypeOK
<1>3. UNCHANGED <<newest, answerCache>>
  BY DEF Ask
<1>4. \/ asking' = [asking EXCEPT ![q] = State("done", error)]
      \/ /\ Accepts(p) /\ entry.answer # Nothing /\ newest <= entry.until
         /\ asking' = [asking EXCEPT ![q] = State("done", entry.answer)]
      \/ Accepts(p) /\ asking' = [asking EXCEPT ![q] = State("compute", Nothing)]
  BY DEF Ask
<1>5. \A pc \in {"compute", "done"} : \A answer \in AnswerRecords :
        State(pc, answer) \in AskStates
  BY <1>2 DEF AskStates
<1>6. CASE asking' = [asking EXCEPT ![q] = State("done", error)]
  <2>1. error \in AnswerRecords /\ error.kind = "error" /\ Right(p, error, newest)
    BY ErrorsAreRight DEF Nothing
  <2> HIDE DEF error
  <2>2. AskedOk(State("done", error), newest)
    BY <2>1, <1>2 DEF AskedOk
  <2> QED BY <2>1, <2>2, <1>1, <1>3, <1>5, <1>6, OneMoves DEF CachedInv, CachedMethodsTypeOK, KeptRight
<1>7. CASE /\ Accepts(p) /\ entry.answer # Nothing /\ newest <= entry.until
           /\ asking' = [asking EXCEPT ![q] = State("done", entry.answer)]
  <2>1. ~SkipsCaching(p) /\ Right(p, entry.answer, entry.until - Age(p))
    BY <1>1, <1>7 DEF KeptRight
  <2>2. newest - Age(p) \in Int /\ entry.until - Age(p) \in Int
        /\ newest - Age(p) <= entry.until - Age(p)
    BY <1>2, <1>7, AgeIsNat
  <2>3. Right(p, entry.answer, newest - Age(p))
    BY <2>1, <2>2, <1>2, RightSince
  <2>4. AskedOk(State("done", entry.answer), newest)
    BY <2>1, <2>3, <1>2, <1>7 DEF AskedOk
  <2> QED BY <2>4, <1>1, <1>2, <1>3, <1>5, <1>7, OneMoves DEF CachedInv, CachedMethodsTypeOK, KeptRight
<1>8. CASE Accepts(p) /\ asking' = [asking EXCEPT ![q] = State("compute", Nothing)]
  <2>1. Nothing \in AnswerRecords
    BY ErrorsAreRight
  <2>2. AskedOk(State("compute", Nothing), newest)
    BY <1>2, <1>8, TtlsAreNat DEF AskedOk
  <2> QED BY <2>1, <2>2, <1>1, <1>3, <1>5, <1>8, OneMoves DEF CachedInv, CachedMethodsTypeOK, KeptRight
<1> QED BY <1>4, <1>6, <1>7, <1>8

(* The method answers, and it is decided whether the answer is kept.       *)
LEMMA ComputeKeeps == ASSUME CachedInv, NEW q \in Askers, Compute(q) PROVE CachedInv'
<1> DEFINE r == asking[q]
           p == r.question
           answer == AnswerNow(p)
           pc == IF IsKept(p, answer) THEN "keep" ELSE "done"
           new == [pc |-> pc, question |-> p, start |-> r.start, answer |-> answer]
<1>1. CachedMethodsTypeOK /\ KeptRight /\ r \in AskStates /\ r.pc = "compute" /\ newest \in Nat
  BY DEF CachedInv, CachedMethodsTypeOK, Compute
<1>2. AskedOk(r, newest)
  BY OneByOne DEF CachedInv
<1>3. p \in Questions /\ r.start \in Nat /\ r.start <= newest /\ Accepts(p)
      /\ newest - r.start <= MaxAskTime
  BY <1>1, <1>2 DEF AskedOk, AskStates
<1>4. answer \in AnswerRecords /\ Right(p, answer, r.start)
  BY <1>1, <1>3, AnswerIsRight
<1>5. UNCHANGED <<newest, answerCache>>
  BY DEF Compute
<1>6. asking' = [asking EXCEPT ![q] = new]
  BY <1>1 DEF Compute, CachedMethodsTypeOK, AskStates
<1>7. new \in AskStates
  BY <1>3, <1>4 DEF AskStates
<1>8. AskedOk(new, newest)
  BY <1>3, <1>4 DEF AskedOk, IsKept
<1> QED BY <1>1, <1>5, <1>6, <1>7, <1>8, OneMoves DEF CachedInv, CachedMethodsTypeOK, KeptRight

(* The answer is kept, as old as the request may be by now.                *)
LEMMA KeepKeeps == ASSUME CachedInv, NEW q \in Askers, Keep(q) PROVE CachedInv'
<1> DEFINE r == asking[q]
           p == r.question
           new == [pc |-> "done", question |-> p, start |-> r.start, answer |-> r.answer]
           entry == [answer |-> r.answer, until |-> newest + TtlOfMethod(p)]
<1>1. CachedMethodsTypeOK /\ KeptRight /\ r \in AskStates /\ r.pc = "keep" /\ newest \in Nat
  BY DEF CachedInv, CachedMethodsTypeOK, Keep
<1>2. AskedOk(r, newest)
  BY OneByOne DEF CachedInv
<1>3. /\ p \in Questions /\ r.start \in Nat /\ r.start <= newest /\ Accepts(p)
      /\ newest - r.start <= MaxAskTime
      /\ ~SkipsCaching(p) /\ Right(p, r.answer, r.start) /\ r.answer \in AnswerRecords
  BY <1>1, <1>2 DEF AskedOk, AskStates
<1>4. newest' = newest /\ asking' = [asking EXCEPT ![q] = new]
  <2>1. asking' = [asking EXCEPT ![q] = [@ EXCEPT !.pc = "done"]] /\ newest' = newest
    BY DEF Keep
  <2>2. [r EXCEPT !.pc = "done"] = new
    BY <1>1 DEF AskStates
  <2> QED BY <2>1, <2>2
<1>5. new \in AskStates /\ AskedOk(new, newest)
  BY <1>3 DEF AskStates, AskedOk
<1>6. answerCache' = [answerCache EXCEPT ![p] = entry] /\ p \in Keys
  BY <1>3, QuestionsTyped DEF Keep
<1>7. TtlOfMethod(p) \in Nat /\ entry.until - Age(p) = newest - MaxAskTime
  BY <1>1, TtlsAreNat DEF TtlOfMethod, Age
<1>8. Right(p, r.answer, entry.until - Age(p))
  <2>1. newest - MaxAskTime \in Int /\ newest - MaxAskTime <= r.start
    BY <1>1, <1>3, TtlsAreNat
  <2> QED BY <2>1, <1>3, <1>7, RightSince
<1>9. answerCache' \in [Keys -> [answer : AnswerRecords, until : Int]]
  BY <1>1, <1>3, <1>6, <1>7 DEF CachedMethodsTypeOK
<1>10. KeptRight'
  <2> SUFFICES ASSUME NEW k \in Keys, answerCache'[k].answer # Nothing
               PROVE  /\ Accepts(k) /\ ~SkipsCaching(k)
                      /\ Right(k, answerCache'[k].answer, answerCache'[k].until - Age(k))
    BY DEF KeptRight
  <2>1. CASE k = p
    <3>1. answerCache'[k] = entry
      BY <2>1, <1>1, <1>6 DEF CachedMethodsTypeOK
    <3> QED BY <2>1, <3>1, <1>3, <1>8
  <2>2. CASE k # p
    <3>1. answerCache'[k] = answerCache[k]
      BY <2>2, <1>1, <1>6 DEF CachedMethodsTypeOK
    <3> QED BY <3>1, <1>1 DEF KeptRight
  <2> QED BY <2>1, <2>2
<1> QED BY <1>1, <1>4, <1>5, <1>9, <1>10, OneMoves DEF CachedInv, CachedMethodsTypeOK

LEMMA CachedStep == CachedInv /\ [CachedMethodsNext]_cachedVars => CachedInv'
<1> SUFFICES ASSUME CachedInv, [CachedMethodsNext]_cachedVars PROVE CachedInv'
  OBVIOUS
<1>1. CASE UNCHANGED cachedVars
  BY <1>1 DEF cachedVars, CachedInv, CachedMethodsTypeOK, KeptRight, AskedLately, KeepRight, DoneRight, Open
<1> QED BY <1>1, MinedKeeps, AskKeeps, ComputeKeeps, KeepKeeps DEF CachedMethodsNext

LEMMA CachedAlways == CachedMethodsSpec => []CachedInv
BY CachedStarts, CachedStep, PTL DEF CachedMethodsSpec

(* What the properties use of an answer that was given.                    *)
LEMMA AnswerGiven ==
  ASSUME CachedInv, NEW q \in Askers, asking[q].pc = "done"
  PROVE  /\ asking[q].question \in Questions /\ BlocksOf(q) = Named(asking[q].question)
         /\ asking[q].start \in Nat /\ asking[q].answer \in AnswerRecords
         /\ asking[q].answer.kind \in {"value", "empty"} => Accepts(asking[q].question)
         /\ Tag \in BlocksOf(q) => Right(asking[q].question, asking[q].answer, asking[q].start)
         /\ Right(asking[q].question, asking[q].answer,
                  asking[q].start - Age(asking[q].question))
<1> DEFINE r == asking[q]
           p == r.question
<1>1. AskedOk(r, newest) /\ r \in AskStates
  BY OneByOne DEF CachedInv, CachedMethodsTypeOK
<1>2. p \in Questions /\ r.start \in Nat /\ r.answer \in AnswerRecords
  BY <1>1 DEF AskedOk, AskStates
<1>3. r.answer.kind \in {"value", "empty"} => Accepts(p)
  BY <1>1 DEF AskedOk
<1>4. BlocksOf(q) = Named(p)
  BY DEF BlocksOf, Named
<1>5. Tag \in Named(p) => SkipsCaching(p)
  BY DEF Named, SkipsCaching
<1>6. Tag \in Named(p) => Right(p, r.answer, r.start)
  BY <1>1, <1>5 DEF AskedOk
<1>7. Right(p, r.answer, r.start - Age(p))
  <2>1. r.start - Age(p) \in Int /\ r.start - Age(p) <= r.start /\ r.start \in Int
    BY <1>2, AgeIsNat
  <2>2. Right(p, r.answer, r.start) \/ Right(p, r.answer, r.start - Age(p))
    BY <1>1 DEF AskedOk
  <2> QED BY <2>1, <2>2, <1>2, RightSince
<1> QED BY <1>2, <1>3, <1>4, <1>6, <1>7

(* A tag is never answered for a block older than the request              *)
(* (cache.decorator.ts, skipParams and skipNamedParams).                   *)
THEOREM TagsAreAlwaysNow == CachedMethodsSpec => []TagsAreNow
<1>1. CachedInv => TagsAreNow
  BY AnswerGiven DEF TagsAreNow, Got, Right
<1> QED BY <1>1, CachedAlways, PTL

(* An answer kept under the numbers of its blocks is for those blocks; that*)
(* there are none is not told for longer than CACHE_TTL (generateCacheKey, *)
(* LogService.getLogs).                                                    *)
THEOREM NumbersAreAlwaysExact == CachedMethodsSpec => []NumbersAreExact
<1>1. ASSUME CachedInv PROVE NumbersAreExact
  <2> SUFFICES ASSUME NEW q \in Askers, asking[q].pc = "done"
               PROVE
                 LET p == asking[q].question
                     answer == asking[q].answer
                     n == Len(p.blocks) IN
                 /\ answer.kind = "value" /\ n > 0 =>
                      /\ p.blocks[1] \in Nat => answer.from = p.blocks[1]
                      /\ p.blocks[n] \in Nat => answer.to = p.blocks[n]
                 /\ answer.kind = "empty" => \E i \in 1..n :
                      p.blocks[i] \in Nat /\ p.blocks[i] > asking[q].start - AnswerTtl - MaxAskTime
    BY DEF NumbersAreExact, Got
  <2> DEFINE p == asking[q].question
             answer == asking[q].answer
  <2>1. p \in Questions /\ DOMAIN p.blocks = 1 .. Len(p.blocks) /\ asking[q].start \in Nat
    BY <1>1, AnswerGiven, QuestionsTyped
  <2>2. Right(p, answer, asking[q].start - Age(p))
    BY <1>1, AnswerGiven
  <2>3. answer.kind = "empty" => p.method \notin TimedMethods
    <3>1. answer.kind = "empty" => Accepts(p)
      BY <1>1, AnswerGiven
    <3>2. Accepts(p) /\ p.method \in TimedMethods => Len(p.blocks) = 0
      BY DEF Accepts, TimedMethods, RangeMethods
    <3>3. answer.kind = "empty" => Len(p.blocks) # 0
      BY <2>1, <2>2 DEF Right
    <3> QED BY <3>1, <3>2, <3>3
  <2>4. answer.kind = "empty" =>
          asking[q].start - Age(p) = asking[q].start - AnswerTtl - MaxAskTime
    BY <2>1, <2>3, TtlsAreNat DEF Age, TtlOfMethod
  <2> QED BY <2>1, <2>2, <2>4 DEF Right
<1> QED BY <1>1, CachedAlways, PTL

(* No answer is older than its ttl and the time of a request               *)
(* (cache.decorator.ts, cache).                                            *)
THEOREM AnswersAreNeverOlder == CachedMethodsSpec => []OldestAnswer
<1>1. ASSUME CachedInv PROVE OldestAnswer
  <2> SUFFICES ASSUME NEW q \in Askers, asking[q].pc = "done", asking[q].answer.kind = "value",
                      EndsAtNewest(asking[q].question)
               PROVE  asking[q].answer.to >= asking[q].start - MaxAskTime -
                        (IF asking[q].question.method \in TimedMethods THEN ShortTtl ELSE AnswerTtl)
    BY DEF OldestAnswer, Got
  <2> DEFINE p == asking[q].question
  <2>1. /\ Right(p, asking[q].answer, asking[q].start - Age(p))
        /\ asking[q].start \in Nat /\ asking[q].answer.to \in Int
    BY <1>1, AnswerGiven DEF AnswerRecords
  <2>2. asking[q].answer.to >= asking[q].start - Age(p)
    BY <2>1 DEF Right
  <2>3. asking[q].start - Age(p) = asking[q].start - MaxAskTime -
          (IF p.method \in TimedMethods THEN ShortTtl ELSE AnswerTtl)
    BY <2>1, TtlsAreNat DEF Age, TtlOfMethod
  <2> QED BY <2>2, <2>3
<1> QED BY <1>1, CachedAlways, PTL

(* So what was kept is right for everybody who gets it (cache.decorator.ts,*)
(* cache).                                                                 *)
THEOREM KeptAnswersAreRight == CachedMethodsSpec => []KeptIsRight
<1>1. CachedInv => CachedMethodsTypeOK
  BY DEF CachedInv
<1> QED
  BY <1>1, CachedAlways, TagsAreAlwaysNow, NumbersAreAlwaysExact, AnswersAreNeverOlder, PTL
     DEF KeptIsRight

-----------------------------------------------------------------------------

(***************************************************************************)
(* The cache service: what a read returns after failures of Redis,         *)
(* eviction and expiry, for any keys, times to live and size of the cache. *)
(***************************************************************************)

Plain == CacheKeys \ Reserved

(* The singleton is made before the relay names the keys to be reserved.   *)
LEMMA NothingIsReserved == Reserved = {} /\ Plain = CacheKeys
BY DEF Reserved, getInstance, Plain

NoTwice(q) == \A i, j \in DOMAIN q : q[i] = q[j] => i = j

(* The order has every ordinary key that has an entry, once.               *)
OrderOK ==
  /\ order \in Seq(Plain) /\ Len(order) <= MaxEntries /\ NoTwice(order)
  /\ \A k \in Plain : mem[k] # Empty <=> Among(order, k)

(* The values are those of the writes so far.                              *)
Bounded(e) == e \in [val : Nat, exp : {Never} \cup Nat] /\ e.val <= 2 * writes

ValuesOK ==
  /\ shared \in BOOLEAN /\ tick \in 0..MaxTick /\ failures \in 0..MaxFailures /\ writes \in 0..MaxWrites
  /\ rds \in [CacheKeys -> [val : Nat, exp : {Never} \cup Nat]]
  /\ mem \in [CacheKeys -> [val : Nat, exp : {Never} \cup Nat]]
  /\ \A k \in CacheKeys : Bounded(rds[k]) /\ Bounded(mem[k])
  /\ \/ adding = Idle
     \/ /\ adding \in [key : CacheKeys, val : Nat, exp : {Never} \cup Nat]
        /\ adding.val >= 1 /\ adding.val <= 2 * writes
  /\ latest \in [CacheKeys -> [val : Nat, exp : {Never} \cup Nat, fellBack : BOOLEAN]]

Last(k) == [val |-> latest[k].val, exp |-> latest[k].exp]

(* Redis has the last write of every key that did not fall back ...        *)
RedisHasLast == shared => \A k \in CacheKeys : ~latest[k].fellBack => rds[k] = Last(k)

(* ... and the LRU cache alone has it unless it was evicted or is stale.   *)
MemoryHasLast ==
  ~shared => \A k \in CacheKeys :
    \/ mem[k] = Last(k)
    \/ mem[k] = Empty /\ (k \notin Reserved \/ InMemory(Last(k)) = Empty)

CacheInv ==
  /\ OrderOK /\ ValuesOK /\ RedisHasLast /\ MemoryHasLast
  /\ StaleOnlyAfterFallback /\ LatestOrNone

-----------------------------------------------------------------------------

LEMMA WithoutFacts ==
  ASSUME NEW S, NEW q \in Seq(S), NEW k, NoTwice(q)
  PROVE  /\ Without(q, k) \in Seq(S) /\ NoTwice(Without(q, k))
         /\ Len(Without(q, k)) = IF Among(q, k) THEN Len(q) - 1 ELSE Len(q)
         /\ \A x : Among(Without(q, k), x) <=> Among(q, x) /\ x # k
<1>1. Len(q) \in Nat /\ DOMAIN q = 1..Len(q) /\ \A i \in 1..Len(q) : q[i] \in S
  OBVIOUS
<1>2. CASE ~Among(q, k)
  <2>1. Without(q, k) = q
    BY <1>2 DEF Without
  <2> QED BY <1>2, <2>1 DEF Among
<1>3. CASE Among(q, k)
  <2> DEFINE at == CHOOSE i \in DOMAIN q : q[i] = k
             w == [i \in 1..Len(q) - 1 |-> IF i < at THEN q[i] ELSE q[i + 1]]
  <2>1. at \in 1..Len(q) /\ q[at] = k
    BY <1>1, <1>3 DEF Among
  <2>2. Without(q, k) = w
    BY <1>3 DEF Without
  <2> HIDE DEF at
  <2>3. Len(q) - 1 \in Nat
    BY <1>1, <2>1
  <2>4. \A i \in 1..Len(q) - 1 :
          /\ w[i] = IF i < at THEN q[i] ELSE q[i + 1]
          /\ w[i] \in S
    BY <1>1, <2>1
  <2>5. w \in Seq(S) /\ Len(w) = Len(q) - 1 /\ DOMAIN w = 1..Len(q) - 1
    BY <2>3, <2>4
  <2> HIDE DEF w
  <2>6. NoTwice(w)
    <3> SUFFICES ASSUME NEW i \in DOMAIN w, NEW j \in DOMAIN w, w[i] = w[j] PROVE i = j
      BY DEF NoTwice
    <3> DEFINE a == IF i < at THEN i ELSE i + 1
               b == IF j < at THEN j ELSE j + 1
    <3>1. i \in 1..Len(q) - 1 /\ j \in 1..Len(q) - 1
      BY <2>5
    <3>2. a \in 1..Len(q) /\ b \in 1..Len(q) /\ w[i] = q[a] /\ w[j] = q[b]
      BY <1>1, <2>1, <2>4, <3>1
    <3>3. a = b
      BY <1>1, <3>2 DEF NoTwice
    <3> QED BY <1>1, <2>1, <3>1, <3>3
  <2>7. ASSUME NEW x PROVE Among(w, x) <=> Among(q, x) /\ x # k
    <3>1. ASSUME NEW i \in DOMAIN w, w[i] = x PROVE Among(q, x) /\ x # k
      <4>1. CASE i < at
        <5>1. i \in 1..Len(q) /\ q[i] = x /\ i # at
          BY <1>1, <2>1, <2>4, <2>5, <3>1, <4>1
        <5> QED BY <1>1, <2>1, <5>1 DEF NoTwice, Among
      <4>2. CASE ~(i < at)
        <5>1. i + 1 \in 1..Len(q) /\ q[i + 1] = x /\ i + 1 # at
          BY <1>1, <2>1, <2>4, <2>5, <3>1, <4>2
        <5> QED BY <1>1, <2>1, <5>1 DEF NoTwice, Among
      <4> QED BY <4>1, <4>2
    <3>2. ASSUME NEW i \in DOMAIN q, q[i] = x, x # k PROVE Among(w, x)
      <4>1. CASE i < at
        <5>1. i \in 1..Len(q) - 1 /\ w[i] = x
          BY <1>1, <2>1, <2>4, <3>2, <4>1
        <5> QED BY <2>5, <5>1 DEF Among
      <4>2. CASE i > at
        <5>1. i - 1 \in 1..Len(q) - 1 /\ w[i - 1] = x
          BY <1>1, <2>1, <2>4, <3>2, <4>2
        <5> QED BY <2>5, <5>1 DEF Among
      <4> QED BY <1>1, <2>1, <3>2, <4>1, <4>2
    <3> QED BY <3>1, <3>2 DEF Among
  <2> QED BY <1>3, <2>2, <2>5, <2>6, <2>7
<1> QED BY <1>2, <1>3

(* A key that is used moves to the end.                                    *)
LEMMA UsedFacts ==
  ASSUME OrderOK, NEW k \in CacheKeys
  PROVE  /\ Used(k) \in Seq(Plain) /\ NoTwice(Used(k))
         /\ Len(Used(k)) = IF k \in Reserved \/ Among(order, k) THEN Len(order) ELSE Len(order) + 1
         /\ \A x \in Plain : Among(Used(k), x) <=> Among(order, x) \/ x = k
         /\ Len(Used(k)) > MaxEntries => Head(Used(k)) # k
<1>1. MaxEntries \in Nat /\ MaxEntries >= 1 /\ Reserved \subseteq CacheKeys
  BY CacheConstants, NothingIsReserved
<1>2. CASE k \in Reserved
  BY <1>1, <1>2 DEF OrderOK, Used, Plain
<1>3. CASE k \notin Reserved
  <2> DEFINE w == Without(order, k)
             u == Append(w, k)
  <2>1. /\ w \in Seq(Plain) /\ NoTwice(w)
        /\ Len(w) = IF Among(order, k) THEN Len(order) - 1 ELSE Len(order)
        /\ \A x : Among(w, x) <=> Among(order, x) /\ x # k
        /\ k \in Plain /\ Used(k) = u
    BY <1>3, WithoutFacts DEF OrderOK, Plain, Used
  <2> HIDE DEF w
  <2>2. Len(w) \in Nat /\ DOMAIN w = 1..Len(w) /\ Len(order) \in Nat
    BY <2>1 DEF OrderOK
  <2>3. /\ u \in Seq(Plain) /\ Len(u) = Len(w) + 1 /\ DOMAIN u = 1..Len(w) + 1
        /\ u[Len(w) + 1] = k /\ \A i \in 1..Len(w) : u[i] = w[i]
    BY <2>1
  <2> HIDE DEF u
  <2>4. \A i \in 1..Len(w) : w[i] # k
    BY <2>1, <2>2 DEF Among
  <2>5. NoTwice(u)
    <3> SUFFICES ASSUME NEW i \in 1..Len(w) + 1, NEW j \in 1..Len(w) + 1, u[i] = u[j] PROVE i = j
      BY <2>3 DEF NoTwice
    <3>1. CASE i \in 1..Len(w) /\ j \in 1..Len(w)
      BY <2>1, <2>2, <2>3, <3>1 DEF NoTwice
    <3> QED BY <2>2, <2>3, <2>4, <3>1
  <2>6. ASSUME NEW x PROVE Among(u, x) <=> Among(order, x) \/ x = k
    <3>1. Among(u, x) => Among(w, x) \/ x = k
      BY <2>2, <2>3 DEF Among
    <3>2. Among(w, x) => Among(u, x)
      BY <2>2, <2>3 DEF Among
    <3>3. Among(u, k)
      BY <2>2, <2>3 DEF Among
    <3> QED BY <2>1, <3>1, <3>2, <3>3
  <2>7. Len(u) > MaxEntries => Head(u) # k
    <3> SUFFICES ASSUME Len(u) > MaxEntries PROVE Head(u) # k
      OBVIOUS
    <3>1. 1 \in 1..Len(w) /\ Head(u) = u[1]
      BY <1>1, <2>2, <2>3
    <3> QED BY <2>3, <2>4, <3>1
  <2> QED BY <1>3, <2>1, <2>2, <2>3, <2>5, <2>6, <2>7
<1> QED BY <1>2, <1>3

LEMMA TailFacts ==
  ASSUME NEW S, NEW q \in Seq(S), Len(q) > 0, NoTwice(q)
  PROVE  /\ Tail(q) \in Seq(S) /\ Len(Tail(q)) = Len(q) - 1 /\ NoTwice(Tail(q)) /\ Head(q) \in S
         /\ \A x : Among(Tail(q), x) <=> Among(q, x) /\ x # Head(q)
<1> DEFINE u == Tail(q)
<1>1. Len(q) \in Nat /\ DOMAIN q = 1..Len(q) /\ Head(q) = q[1] /\ Head(q) \in S
  OBVIOUS
<1>2. u \in Seq(S) /\ Len(u) = Len(q) - 1 /\ DOMAIN u = 1..Len(q) - 1
      /\ \A i \in 1..Len(q) - 1 : u[i] = q[i + 1]
  OBVIOUS
<1> HIDE DEF u
<1>3. NoTwice(u)
  BY <1>1, <1>2, SMTT(20) DEF NoTwice
<1>4. ASSUME NEW x PROVE Among(u, x) <=> Among(q, x) /\ x # Head(q)
  <2>1. ASSUME NEW i \in DOMAIN u, u[i] = x PROVE Among(q, x) /\ x # Head(q)
    <3>1. i + 1 \in 1..Len(q) /\ q[i + 1] = x /\ i + 1 # 1 /\ 1 \in 1..Len(q)
      BY <1>1, <1>2, <2>1
    <3> QED BY <1>1, <3>1 DEF NoTwice, Among
  <2>2. ASSUME NEW i \in DOMAIN q, q[i] = x, x # Head(q) PROVE Among(u, x)
    <3>1. i - 1 \in 1..Len(q) - 1 /\ u[i - 1] = x
      BY <1>1, <1>2, <2>2
    <3> QED BY <1>2, <3>1 DEF Among
  <2> QED BY <2>1, <2>2 DEF Among
<1> QED BY <1>1, <1>2, <1>3, <1>4 DEF u

(***************************************************************************)
(* What the operations of the LRU cache do to its entries.                 *)
(***************************************************************************)

Entries == [val : Nat, exp : {Never} \cup Nat]

LEMMA MemSetFacts ==
  ASSUME OrderOK, mem \in [CacheKeys -> Entries], NEW k \in CacheKeys, NEW e \in Entries, e # Empty,
         MemSet(k, e)
  PROVE  /\ OrderOK' /\ mem' \in [CacheKeys -> Entries] /\ mem'[k] = e
         /\ \A x \in CacheKeys : x # k => mem'[x] = mem[x] \/ (mem'[x] = Empty /\ x \notin Reserved)
<1> DEFINE u == Used(k)
           out == Evicted(u)
<1>1. MaxEntries \in Nat /\ MaxEntries >= 1 /\ Reserved \subseteq CacheKeys /\ Empty \in Entries
  BY CacheConstants, NothingIsReserved DEF Empty, Entries, None, Never
<1>2. /\ u \in Seq(Plain) /\ NoTwice(u)
      /\ Len(u) = IF k \in Reserved \/ Among(order, k) THEN Len(order) ELSE Len(order) + 1
      /\ \A x \in Plain : Among(u, x) <=> Among(order, x) \/ x = k
      /\ Len(u) > MaxEntries => Head(u) # k
  BY UsedFacts
<1>3. /\ order' = Kept(u)
      /\ mem' = [x \in CacheKeys |-> IF x = k THEN e ELSE IF x \in out THEN Empty ELSE mem[x]]
  BY DEF MemSet
<1> HIDE DEF u
<1>4. k \notin Reserved <=> k \in Plain
  BY DEF Plain
<1>5. Len(order) \in Nat /\ Len(order) <= MaxEntries /\ Len(u) \in Nat
  BY <1>2 DEF OrderOK
<1>6. /\ out \subseteq Plain /\ k \notin out
      /\ order' \in Seq(Plain) /\ NoTwice(order') /\ Len(order') <= MaxEntries
      /\ \A x \in Plain : Among(order', x) <=> Among(u, x) /\ x \notin out
  <2>1. CASE Len(u) > MaxEntries
    <3>1. out = {Head(u)} /\ order' = Tail(u)
      BY <1>3, <2>1 DEF Evicted, Kept
    <3>2. /\ Tail(u) \in Seq(Plain) /\ Len(Tail(u)) = Len(u) - 1 /\ NoTwice(Tail(u)) /\ Head(u) \in Plain
          /\ \A x : Among(Tail(u), x) <=> Among(u, x) /\ x # Head(u)
      BY <1>1, <1>2, <1>5, <2>1, TailFacts
    <3> QED BY <1>1, <1>2, <1>5, <2>1, <3>1, <3>2
  <2>2. CASE ~(Len(u) > MaxEntries)
    <3>1. out = {} /\ order' = u
      BY <1>3, <2>2 DEF Evicted, Kept
    <3> QED BY <1>1, <1>2, <1>5, <2>2, <3>1
  <2> QED BY <2>1, <2>2
<1> HIDE DEF out
<1>7. /\ mem' \in [CacheKeys -> Entries] /\ mem'[k] = e
      /\ \A x \in CacheKeys : x # k => mem'[x] = IF x \in out THEN Empty ELSE mem[x]
  BY <1>1, <1>3
<1>8. \A x \in Plain : mem'[x] # Empty <=> Among(order', x)
  <2> SUFFICES ASSUME NEW x \in Plain PROVE mem'[x] # Empty <=> Among(order', x)
    OBVIOUS
  <2>1. x \in CacheKeys /\ (mem[x] # Empty <=> Among(order, x))
    BY DEF OrderOK, Plain
  <2>2. CASE x = k
    BY <1>2, <1>6, <1>7, <2>2
  <2>3. CASE x # k
    BY <1>2, <1>6, <1>7, <2>1, <2>3
  <2> QED BY <2>2, <2>3
<1>9. OrderOK'
  BY <1>6, <1>8 DEF OrderOK, Plain
<1> QED BY <1>6, <1>7, <1>9 DEF Plain

LEMMA MemDeleteFacts ==
  ASSUME OrderOK, mem \in [CacheKeys -> Entries], NEW k \in CacheKeys, MemDelete(k)
  PROVE  /\ OrderOK' /\ mem' \in [CacheKeys -> Entries] /\ mem'[k] = Empty
         /\ \A x \in CacheKeys : x # k => mem'[x] = mem[x]
<1>1. MaxEntries \in Nat /\ Empty \in Entries
  BY CacheConstants DEF Empty, Entries, None, Never
<1>2. /\ order' \in Seq(Plain) /\ NoTwice(order')
      /\ Len(order') = IF Among(order, k) THEN Len(order) - 1 ELSE Len(order)
      /\ \A x : Among(order', x) <=> Among(order, x) /\ x # k
  BY WithoutFacts DEF MemDelete, OrderOK
<1>3. /\ mem' \in [CacheKeys -> Entries] /\ mem'[k] = Empty
      /\ \A x \in CacheKeys : x # k => mem'[x] = mem[x]
  BY <1>1 DEF MemDelete
<1>4. Len(order) \in Nat /\ Len(order) <= MaxEntries /\ Len(order') <= MaxEntries
  BY <1>1, <1>2 DEF OrderOK
<1>5. \A x \in Plain : mem'[x] # Empty <=> Among(order', x)
  BY <1>2, <1>3 DEF OrderOK, Plain
<1>6. OrderOK'
  BY <1>2, <1>4, <1>5 DEF OrderOK, Plain
<1> QED BY <1>3, <1>6

LEMMA MemGetFacts ==
  ASSUME OrderOK, mem \in [CacheKeys -> Entries], NEW k \in CacheKeys, MemGet(k)
  PROVE  /\ OrderOK' /\ mem' \in [CacheKeys -> Entries]
         /\ \A x \in CacheKeys : mem'[x] = mem[x] \/ (x = k /\ mem'[x] = Empty /\ InMemory(mem[k]) = Empty)
<1>1. CASE InMemory(mem[k]) = Empty
  <2>1. MemDelete(k)
    BY <1>1 DEF MemGet
  <2> QED BY <1>1, <2>1, MemDeleteFacts
<1>2. CASE InMemory(mem[k]) # Empty
  <2>1. order' = Used(k) /\ mem' = mem /\ mem[k] # Empty
    BY <1>2 DEF MemGet, InMemory
  <2>2. k \in Reserved \/ Among(order, k)
    BY <2>1 DEF OrderOK, Plain
  <2>3. /\ Used(k) \in Seq(Plain) /\ NoTwice(Used(k))
        /\ Len(Used(k)) = Len(order)
        /\ \A x \in Plain : Among(Used(k), x) <=> Among(order, x)
    <3>1. Reserved \subseteq CacheKeys
      BY NothingIsReserved
    <3> QED BY <2>2, <3>1, UsedFacts DEF Plain
  <2>4. OrderOK'
    BY <2>1, <2>3 DEF OrderOK, Plain
  <2> QED BY <2>1, <2>4
<1> QED BY <1>1, <1>2

(***************************************************************************)
(* The steps.                                                              *)
(***************************************************************************)

LEMMA CacheStarts == CacheInit => CacheInv
<1> SUFFICES ASSUME CacheInit PROVE CacheInv
  OBVIOUS
<1>1. Empty \in Entries /\ Empty.val = 0 /\ MaxEntries \in Nat /\ MaxTick \in Nat /\ MaxFailures \in Nat
      /\ MaxWrites \in Nat
  BY CacheConstants DEF Empty, Entries, None, Never
<1>2. OrderOK
  <2>1. order = <<>> /\ \A k \in CacheKeys : mem[k] = Empty
    BY DEF CacheInit
  <2> QED BY <1>1, <2>1 DEF OrderOK, NoTwice, Among, Plain
<1>3. ValuesOK
  <2>1. \A k \in CacheKeys : rds[k] = Empty /\ mem[k] = Empty
    BY DEF CacheInit
  <2>2. latest \in [CacheKeys -> [val : Nat, exp : {Never} \cup Nat, fellBack : BOOLEAN]]
    BY DEF CacheInit, None, Never
  <2>3. rds \in [CacheKeys -> Entries] /\ mem \in [CacheKeys -> Entries]
    BY <1>1 DEF CacheInit
  <2>4. shared \in BOOLEAN /\ tick = 0 /\ failures = 0 /\ writes = 0 /\ adding = Idle
    BY DEF CacheInit
  <2> QED BY <1>1, <2>1, <2>2, <2>3, <2>4 DEF ValuesOK, Bounded, Entries
<1>4. RedisHasLast /\ MemoryHasLast
  <2>1. \A k \in CacheKeys : rds[k] = Empty /\ mem[k] = Empty /\ Last(k) = Empty
    BY DEF CacheInit, Last, Empty
  <2> QED BY <2>1 DEF RedisHasLast, MemoryHasLast
<1>5. StaleOnlyAfterFallback /\ LatestOrNone
  BY DEF CacheInit, StaleOnlyAfterFallback, LatestOrNone
<1> QED BY <1>2, <1>3, <1>4, <1>5 DEF CacheInv

(* What a write of one key does: Redis or the LRU cache takes the entry,   *)
(* and the history says which.                                             *)
LEMMA WriteKeeps ==
  ASSUME CacheInv, NEW k \in CacheKeys, NEW e \in Entries, e.val <= 2 * writes',
         e = Empty \/ e.val >= 1, writes' \in {writes, writes + 1}, writes' \in 0..MaxWrites,
         Write(k, e), UNCHANGED <<shared, tick, seen>>,
         adding' \in {adding, Idle}
  PROVE  CacheInv'
<1>1. /\ shared \in BOOLEAN /\ writes \in Nat /\ writes' \in Nat
      /\ rds \in [CacheKeys -> Entries] /\ mem \in [CacheKeys -> Entries]
      /\ \A x \in CacheKeys : rds[x].val <= 2 * writes /\ mem[x].val <= 2 * writes
      /\ \A x \in CacheKeys : rds[x].val \in Nat /\ mem[x].val \in Nat
      /\ failures \in 0..MaxFailures /\ MaxFailures \in Nat /\ MaxWrites \in Nat
      /\ latest \in [CacheKeys -> [val : Nat, exp : {Never} \cup Nat, fellBack : BOOLEAN]]
      /\ OrderOK
  BY CacheConstants DEF CacheInv, ValuesOK, Bounded, Entries
<1>2. PICK fell \in BOOLEAN :
        /\ latest' = [latest EXCEPT ![k] = [val |-> e.val, exp |-> e.exp, fellBack |-> fell]]
        /\ shared /\ ~fell => rds' = [rds EXCEPT ![k] = e]
        /\ rds' = rds \/ rds' = [rds EXCEPT ![k] = e]
        /\ \/ UNCHANGED <<mem, order>> /\ shared
           \/ (IF e = Empty THEN MemDelete(k) ELSE MemSet(k, e))
        /\ failures' \in 0..MaxFailures
  <2>1. CASE shared /\ Works /\ RedisPut(k, e) /\ UNCHANGED <<mem, order>> /\ Latest(k, e, FALSE)
    <3>1. /\ latest' = [latest EXCEPT ![k] = [val |-> e.val, exp |-> e.exp, fellBack |-> FALSE]]
          /\ rds' = [rds EXCEPT ![k] = e] /\ failures' = failures
      BY <2>1 DEF Works, RedisPut, Latest
    <3> QED BY <1>1, <2>1, <3>1
  <2>2. CASE /\ IF shared
                THEN Fails /\ (RedisPut(k, e) \/ UNCHANGED rds)
                ELSE Works /\ UNCHANGED rds
             /\ IF e = Empty THEN MemDelete(k) ELSE MemSet(k, e)
             /\ Latest(k, e, shared)
    <3>1. /\ latest' = [latest EXCEPT ![k] = [val |-> e.val, exp |-> e.exp, fellBack |-> shared]]
          /\ rds' = rds \/ rds' = [rds EXCEPT ![k] = e]
          /\ failures' \in 0..MaxFailures
      BY <1>1, <2>2 DEF Works, Fails, RedisPut, Latest
    <3> QED BY <1>1, <2>2, <3>1
  <2> QED BY <2>1, <2>2 DEF Write
<1>3. /\ OrderOK' /\ mem' \in [CacheKeys -> Entries]
      /\ \A x \in CacheKeys : x # k => mem'[x] = mem[x] \/ (mem'[x] = Empty /\ x \notin Reserved)
      /\ mem'[k] = e \/ (mem'[k] = mem[k] /\ shared)
  <2>1. CASE UNCHANGED <<mem, order>> /\ shared
    BY <1>1, <2>1 DEF OrderOK, NoTwice, Among
  <2>2. CASE e = Empty /\ MemDelete(k)
    BY <1>1, <2>2, MemDeleteFacts
  <2>3. CASE e # Empty /\ MemSet(k, e)
    BY <1>1, <2>3, MemSetFacts
  <2> QED BY <1>2, <2>1, <2>2, <2>3
<1>4. rds' \in [CacheKeys -> Entries] /\ \A x \in CacheKeys : rds'[x] = rds[x] \/ rds'[x] = e
  BY <1>1, <1>2
<1>e. Empty.val = 0
  BY DEF Empty, None
<1>5. ASSUME NEW x \in CacheKeys PROVE Bounded(rds[x])' /\ Bounded(mem[x])'
  <2>1. rds'[x] \in Entries /\ mem'[x] \in Entries
    BY <1>3, <1>4
  <2>2. rds'[x].val <= 2 * writes'
    BY <1>1, <1>4
  <2>3. mem'[x] \in {mem[x], e, Empty}
    BY <1>3
  <2>4. mem'[x].val <= 2 * writes'
    BY <1>1, <1>e, <2>3
  <2> QED BY <2>1, <2>2, <2>4 DEF Bounded, Entries
<1>6. latest' \in [CacheKeys -> [val : Nat, exp : {Never} \cup Nat, fellBack : BOOLEAN]]
  BY <1>1, <1>2 DEF Entries
<1>7. ValuesOK'
  <2>1. \/ adding' = Idle
        \/ /\ adding' \in [key : CacheKeys, val : Nat, exp : {Never} \cup Nat]
           /\ adding'.val >= 1 /\ adding'.val <= 2 * writes'
    <3>1. CASE adding' = Idle
      BY <3>1
    <3>2. CASE adding' # Idle
      <4>1. /\ adding' = adding /\ adding \in [key : CacheKeys, val : Nat, exp : {Never} \cup Nat]
            /\ adding.val >= 1 /\ adding.val <= 2 * writes /\ adding.val \in Nat
        BY <3>2 DEF CacheInv, ValuesOK
      <4>2. adding.val <= 2 * writes'
        BY <1>1, <4>1
      <4> QED BY <4>1, <4>2
    <3> QED BY <3>1, <3>2
  <2>2. tick \in 0..MaxTick
    BY DEF CacheInv, ValuesOK
  <2> QED BY <1>1, <1>2, <1>3, <1>4, <1>5, <1>6, <2>1, <2>2 DEF ValuesOK, Entries
<1>8. \A x \in CacheKeys : /\ x # k => latest'[x] = latest[x]
                           /\ latest'[k] = [val |-> e.val, exp |-> e.exp, fellBack |-> fell]
  BY <1>1, <1>2
<1>9. Last(k)' = e /\ \A x \in CacheKeys : x # k => Last(x)' = Last(x)
  <2>1. e = [val |-> e.val, exp |-> e.exp]
    BY DEF Entries
  <2> QED BY <1>8, <2>1 DEF Last
<1>10. RedisHasLast'
  <2> SUFFICES ASSUME shared', NEW x \in CacheKeys, ~latest'[x].fellBack PROVE rds'[x] = Last(x)'
    BY DEF RedisHasLast
  <2>1. CASE x = k
    <3>1. ~fell
      BY <1>8, <2>1
    <3> QED BY <1>1, <1>2, <1>9, <2>1, <3>1
  <2>2. CASE x # k
    BY <1>1, <1>2, <1>8, <1>9, <2>2 DEF CacheInv, RedisHasLast
  <2> QED BY <2>1, <2>2
<1>11. MemoryHasLast'
  <2> SUFFICES ASSUME ~shared', NEW x \in CacheKeys
               PROVE  \/ mem'[x] = Last(x)'
                      \/ mem'[x] = Empty /\ (x \notin Reserved \/ InMemory(Last(x))' = Empty)
    BY DEF MemoryHasLast
  <2>1. CASE x = k
    BY <1>3, <1>9, <2>1
  <2>2. CASE x # k
    <3>1. \/ mem[x] = Last(x)
          \/ mem[x] = Empty /\ (x \notin Reserved \/ InMemory(Last(x)) = Empty)
      BY DEF CacheInv, MemoryHasLast
    <3>2. Last(x)' = Last(x) /\ InMemory(Last(x))' = InMemory(Last(x))
      BY <1>9, <2>2 DEF InMemory
    <3> QED BY <1>3, <2>2, <3>1, <3>2
  <2> QED BY <2>1, <2>2
<1>12. StaleOnlyAfterFallback' /\ LatestOrNone'
  BY DEF CacheInv, StaleOnlyAfterFallback, LatestOrNone
<1> QED BY <1>3, <1>7, <1>10, <1>11, <1>12 DEF CacheInv

LEMMA SetKeeps ==
  ASSUME CacheInv, NEW k \in CacheKeys, NEW ttl \in Ttls, set(k, ttl) PROVE CacheInv'
<1>1. writes \in Nat /\ tick \in Nat /\ ttl \in Nat /\ MaxWrites \in Nat
  BY CacheConstants DEF CacheInv, ValuesOK
<1> DEFINE e == [val |-> NewValue, exp |-> ExpiryOf(ttl)]
<1>2. e \in Entries /\ e.val = 2 * writes + 1
  BY <1>1 DEF NewValue, ExpiryOf, Entries
<1>3. /\ writes < MaxWrites /\ writes' = writes + 1 /\ Write(k, e)
      /\ UNCHANGED <<shared, tick, seen>> /\ adding' = adding
  BY DEF set, OneWrite
<1> HIDE DEF e
<1> QED BY <1>1, <1>2, <1>3, WriteKeeps

LEMMA DeleteKeeps == ASSUME CacheInv, NEW k \in CacheKeys, Delete(k) PROVE CacheInv'
<1>1. writes \in Nat /\ MaxWrites \in Nat
  BY CacheConstants DEF CacheInv, ValuesOK
<1>2. Empty \in Entries /\ Empty.val = 0
  BY DEF Empty, Entries, None, Never
<1>3. /\ writes < MaxWrites /\ writes' = writes + 1 /\ Write(k, Empty)
      /\ UNCHANGED <<shared, tick, seen>> /\ adding' = adding
  BY DEF Delete, OneWrite
<1> QED BY <1>1, <1>2, <1>3, WriteKeeps

(* The sum of an incrBy of the LRU cache is a write that fell back, or one *)
(* of the LRU cache alone.                                                 *)
LEMMA StoreSumKeeps == ASSUME CacheInv, StoreSum PROVE CacheInv'
<1>1. writes \in Nat /\ writes \in 0..MaxWrites /\ adding # Idle
      /\ adding \in [key : CacheKeys, val : Nat, exp : {Never} \cup Nat]
      /\ adding.val >= 1 /\ adding.val <= 2 * writes
  BY CacheConstants DEF CacheInv, ValuesOK, StoreSum
<1>p. PICK k \in CacheKeys, e \in Entries : k = adding.key /\ e = [val |-> adding.val, exp |-> adding.exp]
  BY <1>1 DEF Entries
<1>2. e.val = adding.val /\ e # Empty
  BY <1>1, <1>p DEF Empty, None
<1>3. /\ MemSet(k, e) /\ Latest(k, e, shared) /\ adding' = Idle
      /\ UNCHANGED <<shared, tick, rds, seen, failures, writes>>
  BY <1>p DEF StoreSum
<1>4. /\ OrderOK' /\ mem' \in [CacheKeys -> Entries] /\ mem'[k] = e
      /\ \A x \in CacheKeys : x # k => mem'[x] = mem[x] \/ (mem'[x] = Empty /\ x \notin Reserved)
  BY <1>2, <1>3, MemSetFacts DEF CacheInv, ValuesOK, Entries
<1>5. /\ latest \in [CacheKeys -> [val : Nat, exp : {Never} \cup Nat, fellBack : BOOLEAN]]
      /\ latest' = [latest EXCEPT ![k] = [val |-> e.val, exp |-> e.exp, fellBack |-> shared]]
      /\ shared \in BOOLEAN
  BY <1>3 DEF CacheInv, ValuesOK, Latest
<1>6. /\ latest' \in [CacheKeys -> [val : Nat, exp : {Never} \cup Nat, fellBack : BOOLEAN]]
      /\ latest'[k] = [val |-> e.val, exp |-> e.exp, fellBack |-> shared]
      /\ \A x \in CacheKeys : x # k => latest'[x] = latest[x]
  BY <1>2, <1>5 DEF Entries
<1>7. Last(k)' = e /\ \A x \in CacheKeys : x # k => Last(x)' = Last(x)
  <2>1. e = [val |-> e.val, exp |-> e.exp]
    BY <1>2 DEF Entries
  <2> QED BY <1>6, <2>1 DEF Last
<1>8. ASSUME NEW x \in CacheKeys PROVE Bounded(mem[x])'
  <2>1. mem'[x] \in {mem[x], e, Empty} /\ mem'[x] \in Entries /\ Empty.val = 0
    BY <1>4 DEF Empty, None
  <2>2. mem[x].val <= 2 * writes /\ e.val <= 2 * writes
    BY <1>1, <1>2 DEF CacheInv, ValuesOK, Bounded
  <2>3. mem'[x].val <= 2 * writes
    BY <1>1, <2>1, <2>2
  <2> QED BY <1>3, <2>1, <2>3 DEF Bounded, Entries
<1>9. ValuesOK'
  BY <1>3, <1>4, <1>6, <1>8 DEF CacheInv, ValuesOK, Bounded, Entries
<1>10. RedisHasLast'
  <2> SUFFICES ASSUME shared', NEW x \in CacheKeys, ~latest'[x].fellBack PROVE rds'[x] = Last(x)'
    BY DEF RedisHasLast
  <2>1. x # k
    BY <1>3, <1>6
  <2> QED BY <1>3, <1>6, <1>7, <2>1 DEF CacheInv, RedisHasLast
<1>11. MemoryHasLast'
  <2> SUFFICES ASSUME ~shared', NEW x \in CacheKeys
               PROVE  \/ mem'[x] = Last(x)'
                      \/ mem'[x] = Empty /\ (x \notin Reserved \/ InMemory(Last(x))' = Empty)
    BY DEF MemoryHasLast
  <2>1. CASE x = k
    BY <1>4, <1>7, <2>1
  <2>2. CASE x # k
    <3>1. \/ mem[x] = Last(x)
          \/ mem[x] = Empty /\ (x \notin Reserved \/ InMemory(Last(x)) = Empty)
      BY <1>3 DEF CacheInv, MemoryHasLast
    <3>2. Last(x)' = Last(x) /\ InMemory(Last(x))' = InMemory(Last(x))
      BY <1>3, <1>7, <2>2 DEF InMemory
    <3> QED BY <1>4, <2>2, <3>1, <3>2
  <2> QED BY <2>1, <2>2
<1>12. StaleOnlyAfterFallback' /\ LatestOrNone'
  BY <1>3 DEF CacheInv, StaleOnlyAfterFallback, LatestOrNone
<1> QED BY <1>4, <1>9, <1>10, <1>11, <1>12 DEF CacheInv

LEMMA ReadKeeps == ASSUME CacheInv, NEW k \in CacheKeys, getAsync(k) PROVE CacheInv'
<1>1. /\ shared \in BOOLEAN /\ OrderOK /\ mem \in [CacheKeys -> Entries]
      /\ failures \in 0..MaxFailures /\ MaxFailures \in Nat
      /\ UNCHANGED <<shared, tick, rds, adding, latest, writes>>
  BY CacheConstants DEF CacheInv, ValuesOK, Entries, getAsync
<1>2. failures' \in 0..MaxFailures
  BY <1>1 DEF getAsync, Works, Fails
<1>3. \/ /\ shared /\ Saw(k, InRedis(rds[k]).val, "redis") /\ UNCHANGED <<mem, order>>
      \/ /\ Saw(k, InMemory(mem[k]).val, IF shared THEN "fallback" ELSE "memory") /\ MemGet(k)
  BY DEF getAsync
<1>4. /\ OrderOK' /\ mem' \in [CacheKeys -> Entries]
      /\ \A x \in CacheKeys : mem'[x] = mem[x] \/ (x = k /\ mem'[x] = Empty /\ InMemory(mem[k]) = Empty)
  <2>1. CASE UNCHANGED <<mem, order>>
    BY <1>1, <2>1 DEF OrderOK, NoTwice, Among
  <2>2. CASE MemGet(k)
    BY <1>1, <2>2, MemGetFacts
  <2> QED BY <1>3, <2>1, <2>2
<1>5. Empty.val = 0 /\ Empty \in Entries
  BY DEF Empty, None, Never, Entries
<1>6. ASSUME NEW x \in CacheKeys PROVE Bounded(mem[x])'
  <2>1. mem'[x] \in {mem[x], Empty} /\ mem'[x] \in Entries
    BY <1>4
  <2>2. mem[x].val <= 2 * writes /\ 0 <= 2 * writes
    BY CacheConstants DEF CacheInv, ValuesOK, Bounded
  <2>3. mem'[x].val <= 2 * writes
    BY <1>5, <2>1, <2>2
  <2> QED BY <1>1, <2>1, <2>3 DEF Bounded, Entries
<1>7. ValuesOK'
  BY <1>1, <1>2, <1>4, <1>6 DEF CacheInv, ValuesOK, Bounded, Entries
<1>8. RedisHasLast'
  BY <1>1 DEF CacheInv, RedisHasLast, Last
<1>9. \A x \in CacheKeys : Last(x)' = Last(x) /\ InMemory(Last(x))' = InMemory(Last(x))
  BY <1>1 DEF Last, InMemory
<1>10. MemoryHasLast'
  <2> SUFFICES ASSUME ~shared', NEW x \in CacheKeys
               PROVE  \/ mem'[x] = Last(x)'
                      \/ mem'[x] = Empty /\ (x \notin Reserved \/ InMemory(Last(x))' = Empty)
    BY DEF MemoryHasLast
  <2>1. \/ mem[x] = Last(x)
        \/ mem[x] = Empty /\ (x \notin Reserved \/ InMemory(Last(x)) = Empty)
    BY <1>1 DEF CacheInv, MemoryHasLast
  <2>2. mem'[x] = mem[x] \/ (mem'[x] = Empty /\ InMemory(mem[x]) = Empty)
    BY <1>4
  <2> QED BY <1>9, <2>1, <2>2
<1>11. /\ InRedis(latest[k]).val = InRedis(Last(k)).val
       /\ InMemory(latest[k]).val = InMemory(Last(k)).val
  BY DEF InRedis, InMemory, Last
<1>12. StaleOnlyAfterFallback' /\ LatestOrNone'
  <2>1. CASE shared /\ Saw(k, InRedis(rds[k]).val, "redis")
    <3>1. /\ seen'.from = "redis" /\ seen'.val = InRedis(rds[k]).val
          /\ seen'.right = InRedis(latest[k]).val /\ seen'.fellBack = latest[k].fellBack
      BY <2>1 DEF Saw, Live
    <3>2. ~latest[k].fellBack => rds[k] = Last(k)
      BY <2>1 DEF CacheInv, RedisHasLast
    <3> QED BY <1>11, <3>1, <3>2 DEF StaleOnlyAfterFallback, LatestOrNone
  <2>2. CASE shared /\ Saw(k, InMemory(mem[k]).val, "fallback")
    <3>1. seen'.from = "fallback"
      BY <2>2 DEF Saw
    <3> QED BY <3>1 DEF StaleOnlyAfterFallback, LatestOrNone
  <2>3. CASE ~shared /\ Saw(k, InMemory(mem[k]).val, "memory")
    <3>1. /\ seen'.from = "memory" /\ seen'.val = InMemory(mem[k]).val /\ seen'.key = k
          /\ seen'.right = InMemory(latest[k]).val
      BY <2>3 DEF Saw, Live
    <3>2. \/ mem[k] = Last(k)
          \/ mem[k] = Empty /\ (k \notin Reserved \/ InMemory(Last(k)) = Empty)
      BY <2>3 DEF CacheInv, MemoryHasLast
    <3>3. InMemory(Empty) = Empty /\ Empty.val = None
      BY DEF InMemory, Empty
    <3> QED BY <1>11, <3>1, <3>2, <3>3 DEF StaleOnlyAfterFallback, LatestOrNone
  <2> QED BY <1>1, <1>3, <2>1, <2>2, <2>3
<1> QED BY <1>4, <1>7, <1>8, <1>10, <1>12 DEF CacheInv

LEMMA IncrKeeps == ASSUME CacheInv, NEW k \in CacheKeys, incrBy(k) PROVE CacheInv'
<1> DEFINE inRedis == Incremented(InRedis(rds[k]))
           inMemory == Incremented(InMemory(mem[k]))
<1>1. /\ shared \in BOOLEAN /\ OrderOK /\ mem \in [CacheKeys -> Entries] /\ rds \in [CacheKeys -> Entries]
      /\ failures \in 0..MaxFailures /\ MaxFailures \in Nat /\ MaxWrites \in Nat
      /\ writes \in Nat /\ writes' = writes + 1 /\ writes < MaxWrites
      /\ UNCHANGED <<shared, tick, seen>>
      /\ \A x \in CacheKeys : rds[x].val <= 2 * writes /\ mem[x].val <= 2 * writes
      /\ \A x \in CacheKeys : rds[x].val \in Nat /\ mem[x].val \in Nat
      /\ latest \in [CacheKeys -> [val : Nat, exp : {Never} \cup Nat, fellBack : BOOLEAN]]
  BY CacheConstants DEF CacheInv, ValuesOK, Bounded, Entries, incrBy, OneWrite
<1>2. Empty.val = 0 /\ Empty \in Entries
  BY DEF Empty, None, Never, Entries
<1>3. ASSUME NEW e \in Entries, e.val <= 2 * writes
      PROVE  /\ Incremented(e) \in Entries /\ Incremented(e).val \in Nat
             /\ Incremented(e).val >= 1 /\ Incremented(e).val <= 2 * writes'
  <2>1. e.val \in Nat /\ e.exp \in {Never} \cup Nat
    BY DEF Entries
  <2> QED BY <1>1, <1>3, <2>1 DEF Incremented, Entries
<1>4. /\ InRedis(rds[k]) \in {rds[k], Empty} /\ InMemory(mem[k]) \in {mem[k], Empty}
      /\ 0 <= 2 * writes
  BY <1>1 DEF InRedis, InMemory
<1>5. /\ InRedis(rds[k]) \in Entries /\ InRedis(rds[k]).val <= 2 * writes
      /\ InMemory(mem[k]) \in Entries /\ InMemory(mem[k]).val <= 2 * writes
  BY <1>1, <1>2, <1>4
<1>6. /\ inRedis \in Entries /\ inRedis.val \in Nat /\ inRedis.val >= 1 /\ inRedis.val <= 2 * writes'
      /\ inMemory \in Entries /\ inMemory.val \in Nat /\ inMemory.val >= 1 /\ inMemory.val <= 2 * writes'
  BY <1>3, <1>5
<1>7. \/ /\ shared /\ failures' = failures /\ rds' = [rds EXCEPT ![k] = inRedis]
         /\ latest' = [latest EXCEPT ![k] = [val |-> inRedis.val, exp |-> inRedis.exp,
                                             fellBack |-> latest[k].fellBack]]
         /\ UNCHANGED <<mem, order, adding>>
      \/ /\ rds' = rds \/ (shared /\ rds' = [rds EXCEPT ![k] = inRedis])
         /\ failures' \in 0..MaxFailures
         /\ adding' = [key |-> k, val |-> inMemory.val, exp |-> inMemory.exp]
         /\ MemGet(k)
         /\ latest' = [latest EXCEPT ![k].fellBack = shared \/ @]
  BY <1>1 DEF incrBy, RedisPut, Latest, Works, Fails
<1> HIDE DEF inRedis, inMemory
<1>8. /\ OrderOK' /\ mem' \in [CacheKeys -> Entries]
      /\ \A x \in CacheKeys : mem'[x] = mem[x] \/ (x = k /\ mem'[x] = Empty /\ InMemory(mem[k]) = Empty)
  <2>1. CASE UNCHANGED <<mem, order>>
    BY <1>1, <2>1 DEF OrderOK, NoTwice, Among
  <2>2. CASE MemGet(k)
    BY <1>1, <2>2, MemGetFacts
  <2> QED BY <1>7, <2>1, <2>2
<1>9. /\ rds' \in [CacheKeys -> Entries] /\ failures' \in 0..MaxFailures
      /\ \A x \in CacheKeys : rds'[x] \in {rds[x], inRedis}
  BY <1>1, <1>6, <1>7
<1>10. ASSUME NEW x \in CacheKeys PROVE Bounded(rds[x])' /\ Bounded(mem[x])'
  <2>1. mem'[x] \in {mem[x], Empty} /\ mem'[x] \in Entries /\ rds'[x] \in Entries
    BY <1>8, <1>9
  <2>2. mem'[x].val <= 2 * writes' /\ rds'[x].val <= 2 * writes'
    BY <1>1, <1>2, <1>6, <1>9, <2>1
  <2> QED BY <2>1, <2>2 DEF Bounded, Entries
<1>11. latest' \in [CacheKeys -> [val : Nat, exp : {Never} \cup Nat, fellBack : BOOLEAN]]
       /\ \A x \in CacheKeys : x # k => latest'[x] = latest[x]
  <2>1. [val |-> inRedis.val, exp |-> inRedis.exp, fellBack |-> latest[k].fellBack]
           \in [val : Nat, exp : {Never} \cup Nat, fellBack : BOOLEAN]
    BY <1>1, <1>6 DEF Entries
  <2>2. [latest[k] EXCEPT !.fellBack = shared \/ @]
           \in [val : Nat, exp : {Never} \cup Nat, fellBack : BOOLEAN]
    BY <1>1
  <2>3. PICK e \in [val : Nat, exp : {Never} \cup Nat, fellBack : BOOLEAN] :
           latest' = [latest EXCEPT ![k] = e]
    BY <1>7, <2>1, <2>2
  <2> QED BY <1>1, <2>3
<1>12. \/ adding' = Idle
       \/ /\ adding' \in [key : CacheKeys, val : Nat, exp : {Never} \cup Nat]
          /\ adding'.val >= 1 /\ adding'.val <= 2 * writes'
  <2>1. CASE adding' = adding
    <3>1. CASE adding = Idle
      BY <2>1, <3>1
    <3>2. CASE adding # Idle
      <4>1. /\ adding \in [key : CacheKeys, val : Nat, exp : {Never} \cup Nat]
            /\ adding.val >= 1 /\ adding.val <= 2 * writes /\ adding.val \in Nat
        BY <3>2 DEF CacheInv, ValuesOK
      <4>2. adding.val <= 2 * writes'
        BY <1>1, <4>1
      <4> QED BY <2>1, <4>1, <4>2
    <3> QED BY <3>1, <3>2
  <2>2. CASE adding' = [key |-> k, val |-> inMemory.val, exp |-> inMemory.exp]
    BY <1>6, <2>2 DEF Entries
  <2> QED BY <1>7, <2>1, <2>2
<1>13. ValuesOK'
  <2>1. tick \in 0..MaxTick
    BY DEF CacheInv, ValuesOK
  <2> QED BY <1>1, <1>8, <1>9, <1>10, <1>11, <1>12, <2>1 DEF ValuesOK, Entries
<1>14. RedisHasLast'
  <2> SUFFICES ASSUME shared', NEW x \in CacheKeys, ~latest'[x].fellBack PROVE rds'[x] = Last(x)'
    BY DEF RedisHasLast
  <2>1. CASE x # k
    <3>1. rds'[x] = rds[x]
      BY <1>1, <1>7, <2>1
    <3> QED BY <1>1, <1>11, <2>1, <3>1 DEF CacheInv, RedisHasLast, Last
  <2>2. CASE x = k
    <3>1. /\ rds' = [rds EXCEPT ![k] = inRedis]
          /\ latest'[k].val = inRedis.val /\ latest'[k].exp = inRedis.exp
      BY <1>1, <1>7, <2>2
    <3>2. inRedis = [val |-> inRedis.val, exp |-> inRedis.exp]
      BY <1>6 DEF Entries
    <3> QED BY <1>1, <2>2, <3>1, <3>2 DEF Last
  <2> QED BY <2>1, <2>2
<1>15. MemoryHasLast'
  <2> SUFFICES ASSUME ~shared', NEW x \in CacheKeys
               PROVE  \/ mem'[x] = Last(x)'
                      \/ mem'[x] = Empty /\ (x \notin Reserved \/ InMemory(Last(x))' = Empty)
    BY DEF MemoryHasLast
  <2>1. \/ mem[x] = Last(x)
        \/ mem[x] = Empty /\ (x \notin Reserved \/ InMemory(Last(x)) = Empty)
    BY <1>1 DEF CacheInv, MemoryHasLast
  <2>2. mem'[x] = mem[x] \/ (mem'[x] = Empty /\ InMemory(mem[x]) = Empty)
    BY <1>8
  <2>3. latest'[x].val = latest[x].val /\ latest'[x].exp = latest[x].exp
    BY <1>1, <1>7
  <2>4. Last(x)' = Last(x) /\ InMemory(Last(x))' = InMemory(Last(x))
    BY <1>1, <2>3 DEF Last, InMemory
  <2> QED BY <2>1, <2>2, <2>4
<1>16. StaleOnlyAfterFallback' /\ LatestOrNone'
  BY <1>1 DEF CacheInv, StaleOnlyAfterFallback, LatestOrNone
<1> QED BY <1>8, <1>13, <1>14, <1>15, <1>16 DEF CacheInv

LEMMA CacheStep == CacheInv /\ [CacheNext]_cacheVars => CacheInv'
<1> SUFFICES ASSUME CacheInv, [CacheNext]_cacheVars PROVE CacheInv'
  OBVIOUS
<1>1. CASE UNCHANGED cacheVars
  BY <1>1 DEF cacheVars, caches, CacheInv, OrderOK, NoTwice, Among, ValuesOK, Bounded, RedisHasLast,
              MemoryHasLast, Last, InMemory, StaleOnlyAfterFallback, LatestOrNone
<1>2. CASE CacheTick
  <2>1. /\ UNCHANGED <<shared, rds, mem, order, adding, latest, seen, failures, writes>>
        /\ tick \in 0..MaxTick /\ tick' = tick + 1 /\ tick < MaxTick /\ MaxTick \in Nat
    BY <1>2, CacheConstants DEF CacheTick, caches, CacheInv, ValuesOK
  <2>2. OrderOK' /\ RedisHasLast' /\ StaleOnlyAfterFallback' /\ LatestOrNone'
    BY <2>1 DEF CacheInv, OrderOK, NoTwice, Among, RedisHasLast, Last, StaleOnlyAfterFallback,
                LatestOrNone
  <2>3. ValuesOK'
    BY <2>1 DEF CacheInv, ValuesOK, Bounded
  <2>4. ASSUME NEW k \in CacheKeys, InMemory(Last(k)) = Empty PROVE InMemory(Last(k))' = Empty
    <3>1. Last(k)' = Last(k) /\ Last(k).exp \in {Never} \cup Nat
      BY <2>1 DEF Last, CacheInv, ValuesOK
    <3> QED BY <2>1, <2>4, <3>1 DEF InMemory, Never
  <2>5. MemoryHasLast'
    <3>1. \A k \in CacheKeys : Last(k)' = Last(k)
      BY <2>1 DEF Last
    <3> QED BY <2>1, <2>4, <3>1 DEF CacheInv, MemoryHasLast
  <2> QED BY <2>2, <2>3, <2>5 DEF CacheInv
<1> QED BY <1>1, <1>2, SetKeeps, DeleteKeeps, StoreSumKeeps, ReadKeeps, IncrKeeps DEF CacheNext

(* A read of Redis returns the last value written unless that write fell   *)
(* back to the LRU cache, and a read of the LRU cache alone returns it or  *)
(* nothing, whatever keys the relay asks to be reserved, and however the   *)
(* operations, failures, evictions and expiries are ordered (getAsync,     *)
(* set, incrBy, LocalLRUCache).                                            *)
THEOREM CacheIsRight == CacheSpec => []CacheRight
<1>1. CacheInv => CacheRight
  <2> SUFFICES ASSUME CacheInv PROVE CacheTypeOK
    BY DEF CacheRight, CacheInv
  <2>1. writes \in Nat /\ MaxWrites \in Nat /\ writes <= MaxWrites
    BY CacheConstants DEF CacheInv, ValuesOK
  <2>2. ASSUME NEW n \in Nat, n <= 2 * writes PROVE n \in 0..2 * MaxWrites
    BY <2>1, <2>2
  <2>3. ASSUME NEW e, Bounded(e) PROVE e \in Entry
    BY <2>2, <2>3 DEF Bounded, Entry
  <2>4. rds \in [CacheKeys -> Entry] /\ mem \in [CacheKeys -> Entry]
    BY <2>3 DEF CacheInv, ValuesOK
  <2>5. adding = Idle \/ adding \in [key : CacheKeys, val : 0..2 * MaxWrites, exp : {Never} \cup Nat]
    BY <2>2 DEF CacheInv, ValuesOK
  <2> QED BY <2>4, <2>5, NothingIsReserved DEF CacheInv, ValuesOK, OrderOK, CacheTypeOK
<1> QED BY <1>1, CacheStarts, CacheStep, PTL DEF CacheSpec

-----------------------------------------------------------------------------
(***************************************************************************)
(* The two servers: whatever messages overlap, for any methods, limits and *)
(* sizes of batches.                                                       *)
(***************************************************************************)

Item == [at : {"limit", "run", "end"}, answer : Answers, as : Slots \cup {Nobody}]
Message == [at : {"free", "body", "items", "sent"}, ip : Clients \cup {Nobody},
            body : Bodies \cup {NoBody}, status : {0, 200, 400, 429, 500, 501}]

(* What a request of message s knows of its details, and that one a batch  *)
(* must not contain is past its limit without having had any.              *)
ItemOK(b, s, i, x) ==
  /\ b.via = "ws" => x.as \in {Nobody, s}
  /\ b.batch /\ b.items[i].method \in Disallowed => x.at # "limit" /\ x.as = Nobody

(* A message with its requests.                                            *)
SlotOK(s) ==
  /\ msg[s] \in Message /\ item[s] \in Seq(Item)
  /\ msg[s].at \in {"free", "body"} => item[s] = <<>>
  /\ msg[s].at # "free" => msg[s].body \in Bodies /\ msg[s].ip \in Clients
  /\ item[s] # <<>> => Len(item[s]) = Len(msg[s].body.items)
  /\ \A i \in DOMAIN item[s] : ItemOK(msg[s].body, s, i, item[s][i])
  /\ msg[s].at = "sent" /\ msg[s].body.batch /\ item[s] # <<>> /\ ~HasNull(msg[s].body) =>
       msg[s].status = 200

GatewayInv ==
  /\ RateInv
  /\ server \in {"http", "ws"} /\ details \in Slots \cup {Nobody} /\ messages \in 0..MaxMessages
  /\ msg \in [Slots -> Message] /\ item \in [Slots -> Seq(Item)]
  /\ \A s \in Slots : SlotOK(s)

-----------------------------------------------------------------------------

LEMMA ChangedTwice ==
  ASSUME NEW f, NEW S, NEW T, f \in [S -> T], NEW s \in S, NEW a, NEW b
  PROVE  [[f EXCEPT ![s] = a] EXCEPT ![s] = b] = [f EXCEPT ![s] = b]
OBVIOUS

LEMMA SendMakes ==
  ASSUME msg \in [Slots -> Message], NEW s \in Slots, NEW status, Send(s, status)
  PROVE  msg' = [msg EXCEPT ![s] =
           [at |-> "sent", ip |-> msg[s].ip, body |-> msg[s].body, status |-> status]]
<1> DEFINE half == [at |-> "sent", ip |-> msg[s].ip, body |-> msg[s].body, status |-> msg[s].status]
           all == [at |-> "sent", ip |-> msg[s].ip, body |-> msg[s].body, status |-> status]
           one == [msg EXCEPT ![s] = half]
<1>1. msg[s] \in Message
  OBVIOUS
<1>2. [msg[s] EXCEPT !.at = "sent"] = half /\ [half EXCEPT !.status = status] = all
  BY <1>1 DEF Message
<1>3. msg' = [[msg EXCEPT ![s] = [msg[s] EXCEPT !.at = "sent"]] EXCEPT ![s].status = status]
  BY DEF Send
<1>4. msg' = [one EXCEPT ![s].status = status] /\ one[s] = half
  BY <1>2, <1>3
<1>5. msg' = [one EXCEPT ![s] = all]
  BY <1>2, <1>4
<1>6. [one EXCEPT ![s] = all] = [msg EXCEPT ![s] = all]
  <2> HIDE DEF half, all
  <2> QED BY ChangedTwice
<1> QED BY <1>5, <1>6

LEMMA EndMakes ==
  ASSUME item \in [Slots -> Seq(Item)], NEW s \in Slots, NEW i \in DOMAIN item[s], NEW answer,
         End(s, i, answer)
  PROVE  item' = [item EXCEPT ![s][i] = [at |-> "end", answer |-> answer, as |-> item[s][i].as]]
<1> DEFINE half == [at |-> "end", answer |-> item[s][i].answer, as |-> item[s][i].as]
           all == [at |-> "end", answer |-> answer, as |-> item[s][i].as]
           first == [item[s] EXCEPT ![i] = half]
           one == [item EXCEPT ![s] = first]
<1>1. item[s] \in Seq(Item) /\ item[s][i] \in Item
  OBVIOUS
<1>2. [item[s][i] EXCEPT !.at = "end"] = half /\ [half EXCEPT !.answer = answer] = all
  BY <1>1 DEF Item
<1>3. item' = [[item EXCEPT ![s][i] = [item[s][i] EXCEPT !.at = "end"]]
                 EXCEPT ![s][i].answer = answer]
  BY DEF End
<1>4. item' = [one EXCEPT ![s] = [one[s] EXCEPT ![i].answer = answer]]
  BY <1>2, <1>3
<1>5. one[s] = first /\ first[i] = half
  BY <1>1
<1>6. item' = [one EXCEPT ![s] = [first EXCEPT ![i] = all]]
  BY <1>2, <1>4, <1>5
<1>7. [first EXCEPT ![i] = all] = [item[s] EXCEPT ![i] = all]
  <2> HIDE DEF half, all
  <2> item[s] \in [DOMAIN item[s] -> Item]
    BY <1>1
  <2> QED BY ChangedTwice
<1>8. item' = [one EXCEPT ![s] = [item[s] EXCEPT ![i] = all]]
  BY <1>6, <1>7
<1>9. [one EXCEPT ![s] = [item[s] EXCEPT ![i] = all]] = [item EXCEPT ![s] = [item[s] EXCEPT ![i] = all]]
  <2> HIDE DEF first, all
  <2> QED BY ChangedTwice
<1> QED BY <1>8, <1>9

LEMMA GatewayStarts == GatewayInit => GatewayInv
<1> SUFFICES ASSUME GatewayInit PROVE GatewayInv
  OBVIOUS
<1>1. FreeSlot \in Message
  BY DEF FreeSlot, Message, NoBody
<1>2. /\ RateInv
      /\ msg = [s \in Slots |-> FreeSlot] /\ item = [s \in Slots |-> <<>>]
      /\ server \in {"http", "ws"} /\ details = Nobody /\ messages = 0
  BY RateStarts DEF GatewayInit
<1>3. messages \in 0..MaxMessages
  BY <1>2, GatewayConstants
<1>4. ASSUME NEW s \in Slots PROVE SlotOK(s)
  BY <1>1, <1>2 DEF SlotOK, FreeSlot
<1> QED BY <1>1, <1>2, <1>3, <1>4 DEF GatewayInv

(* A step of message s that leaves the others alone.                       *)
LEMMA SlotKeeps ==
  ASSUME GatewayInv, NEW s \in Slots, NEW m \in Message, NEW q \in Seq(Item),
         msg' = [msg EXCEPT ![s] = m], item' = [item EXCEPT ![s] = q], SlotOK(s)',
         RateInv', server' = server, details' \in Slots \cup {Nobody}, messages' \in 0..MaxMessages
  PROVE  GatewayInv'
<1>1. msg' \in [Slots -> Message] /\ item' \in [Slots -> Seq(Item)] /\ server' \in {"http", "ws"}
  BY DEF GatewayInv
<1>2. ASSUME NEW t \in Slots, t # s PROVE SlotOK(t)'
  <2>1. msg'[t] = msg[t] /\ item'[t] = item[t] /\ SlotOK(t)
    BY <1>2 DEF GatewayInv
  <2> QED BY <2>1 DEF SlotOK, HasNull, NullBefore
<1> QED BY <1>1, <1>2 DEF GatewayInv

LEMMA ReceiveKeeps ==
  ASSUME GatewayInv, NEW s \in Slots, NEW ip \in Clients, NEW b \in Bodies, Receive(s, ip, b)
  PROVE  GatewayInv'
<1> DEFINE m == [at |-> "body", ip |-> ip, body |-> b, status |-> 0]
<1>1. m \in Message /\ <<>> \in Seq(Item)
  BY DEF Message
<1>2. msg' = [msg EXCEPT ![s] = m] /\ item' = [item EXCEPT ![s] = <<>>]
  BY DEF Receive
<1>3. RateInv' /\ server' = server /\ details' \in Slots \cup {Nobody}
  BY RateStep DEF Receive, GatewayInv
<1>4. messages' \in 0..MaxMessages
  BY GatewayConstants DEF Receive, GatewayInv
<1>5. msg'[s] = m /\ item'[s] = <<>>
  BY <1>2 DEF GatewayInv
<1>6. SlotOK(s)'
  BY <1>1, <1>5 DEF SlotOK
<1> HIDE DEF m
<1> QED BY <1>1, <1>2, <1>3, <1>4, <1>6, SlotKeeps

LEMMA ParseBodyKeeps ==
  ASSUME GatewayInv, NEW s \in Slots, ParseBody(s) PROVE GatewayInv'
<1> DEFINE b == msg[s].body
<1>1. /\ msg[s] \in Message /\ msg[s].at = "body" /\ item[s] = <<>> /\ b \in Bodies
      /\ msg[s].ip \in Clients
  BY DEF ParseBody, GatewayInv, SlotOK
<1>2. /\ RateInv' /\ server' = server /\ details' \in Slots \cup {Nobody}
      /\ messages' \in 0..MaxMessages
  BY RateStep DEF ParseBody, GatewayInv
<1>3. item \in [Slots -> Seq(Item)] /\ msg \in [Slots -> Message] /\ <<>> \in Seq(Item)
  BY DEF GatewayInv
<1>4. ASSUME NEW status \in {200, 400}, Send(s, status), UNCHANGED item
      PROVE  GatewayInv'
  <2> DEFINE m == [at |-> "sent", ip |-> msg[s].ip, body |-> b, status |-> status]
  <2>1. m \in Message
    BY <1>1 DEF Message
  <2>2. msg' = [msg EXCEPT ![s] = m]
    BY <1>4, <1>3, SendMakes
  <2>3. item' = [item EXCEPT ![s] = <<>>]
    BY <1>4, <1>1, <1>3
  <2>4. msg'[s] = m /\ item'[s] = <<>>
    BY <2>2, <2>3, <1>3
  <2>5. SlotOK(s)'
    BY <2>1, <2>4, <1>1 DEF SlotOK
  <2> HIDE DEF m
  <2> QED BY <2>1, <2>2, <2>3, <2>5, <1>2, <1>3, SlotKeeps
<1>5. ASSUME NEW q,
             q = [i \in DOMAIN b.items |->
                    IF Thrown(b, i) THEN Answered("none") ELSE FirstStep(b, i)],
             msg' = [msg EXCEPT ![s].at = "items"], item' = [item EXCEPT ![s] = q]
      PROVE  GatewayInv'
  <2> DEFINE m == [at |-> "items", ip |-> msg[s].ip, body |-> b, status |-> msg[s].status]
  <2>1. m \in Message
    BY <1>1 DEF Message
  <2>2. msg' = [msg EXCEPT ![s] = m]
    <3>1. [msg[s] EXCEPT !.at = "items"] = m
      BY <1>1 DEF Message
    <3> QED BY <1>5, <3>1
  <2>3. b.items \in Seq([method : Methods, form : Forms]) /\ b.via \in {"http", "ws"}
    BY <1>1, GatewayConstants
  <2>4. ASSUME NEW i \in DOMAIN b.items
        PROVE  q[i] \in Item /\ q[i].as = Nobody
               /\ (b.batch /\ b.items[i].method \in Disallowed => q[i].at # "limit")
    BY <1>5, <2>4 DEF Item, Answers, Answered, FirstStep
  <2>5. q \in Seq(Item) /\ Len(q) = Len(b.items) /\ DOMAIN q = DOMAIN b.items
    <3>1. DOMAIN b.items = 1..Len(b.items) /\ Len(b.items) \in Nat
      BY <2>3
    <3>2. q \in [1..Len(b.items) -> Item]
      BY <3>1, <2>4, <1>5
    <3> QED BY <3>1, <3>2
  <2>6. msg'[s] = m /\ item'[s] = q
    BY <2>2, <1>5, <1>3
  <2>7. \A i \in DOMAIN q : ItemOK(b, s, i, q[i])
    BY <2>4, <2>5 DEF ItemOK
  <2>8. SlotOK(s)'
    BY <2>1, <2>5, <2>6, <2>7, <1>1 DEF SlotOK
  <2> HIDE DEF m
  <2> QED BY <2>1, <2>2, <2>5, <2>8, <1>2, <1>5, SlotKeeps
<1>6. \/ \E status \in {200, 400} : Send(s, status) /\ UNCHANGED item
      \/ \E q : /\ q = [i \in DOMAIN b.items |->
                          IF Thrown(b, i) THEN Answered("none") ELSE FirstStep(b, i)]
                /\ msg' = [msg EXCEPT ![s].at = "items"] /\ item' = [item EXCEPT ![s] = q]
  <2>1. CASE Send(s, 200) /\ UNCHANGED item
    BY <2>1
  <2>2. CASE Send(s, IF b.via = "http" THEN 400 ELSE 200) /\ UNCHANGED item
    BY <2>2
  <2> QED BY <2>1, <2>2 DEF ParseBody
<1> QED BY <1>4, <1>5, <1>6

(* A request of the message goes on: only its own entry changes.           *)
LEMMA ItemKeeps ==
  ASSUME GatewayInv, NEW s \in Slots, NEW i \in DOMAIN item[s], NEW x \in Item,
         item' = [item EXCEPT ![s][i] = x], ItemOK(msg[s].body, s, i, x),
         UNCHANGED <<server, msg, details, messages>>, RateInv'
  PROVE  GatewayInv'
<1> DEFINE q == [item[s] EXCEPT ![i] = x]
<1>1. msg[s] \in Message /\ item[s] \in Seq(Item) /\ SlotOK(s) /\ msg \in [Slots -> Message]
  BY DEF GatewayInv
<1>2. DOMAIN item[s] = 1..Len(item[s]) /\ Len(item[s]) \in Nat /\ item[s] # <<>>
  BY <1>1
<1>3. q \in Seq(Item) /\ Len(q) = Len(item[s]) /\ DOMAIN q = DOMAIN item[s] /\ q # <<>>
  BY <1>1, <1>2
<1>4. item' = [item EXCEPT ![s] = q] /\ msg' = [msg EXCEPT ![s] = msg[s]]
  BY <1>1 DEF GatewayInv
<1>5. item'[s] = q /\ msg'[s] = msg[s]
  BY <1>4 DEF GatewayInv
<1>6. \A j \in DOMAIN q : ItemOK(msg[s].body, s, j, q[j])
  BY <1>1, <1>3 DEF SlotOK
<1>7. SlotOK(s)'
  <2> HIDE DEF q
  <2> QED BY <1>1, <1>2, <1>3, <1>5, <1>6 DEF SlotOK, HasNull, NullBefore
<1>8. details' \in Slots \cup {Nobody} /\ messages' \in 0..MaxMessages /\ server' = server
  BY DEF GatewayInv
<1> HIDE DEF q
<1> QED BY <1>1, <1>3, <1>4, <1>7, <1>8, SlotKeeps

LEMMA CheckLimitKeeps ==
  ASSUME GatewayInv, NEW s \in Slots, NEW i \in DOMAIN item[s], CheckLimit(s, i)
  PROVE  GatewayInv'
<1> DEFINE b == msg[s].body
           r == b.items[i]
<1>1. /\ item[s] \in Seq(Item) /\ item[s][i].at = "limit" /\ SlotOK(s)
      /\ item \in [Slots -> Seq(Item)]
  BY DEF GatewayInv, CheckLimit
<1>2. item[s][i] \in Item /\ ItemOK(b, s, i, item[s][i]) /\ item[s] # <<>>
  BY <1>1 DEF SlotOK
<1>3. /\ msg[s].at # "free" /\ b \in Bodies /\ msg[s].ip \in Clients
      /\ Len(item[s]) = Len(b.items)
  BY <1>1, <1>2 DEF SlotOK
<1>4. r.method \in Methods
  <2>1. b.items \in Seq([method : Methods, form : Forms])
    BY <1>3, GatewayConstants
  <2>2. i \in 1..Len(b.items)
    BY <1>1, <1>3
  <2>3. b.items[i] \in [method : Methods, form : Forms]
    <3>1. \A S : \A q \in Seq(S) : \A j \in 1..Len(q) : q[j] \in S
      OBVIOUS
    <3> HIDE DEF b
    <3> QED BY <2>1, <2>2, <3>1
  <2> QED BY <2>3
<1>5. RateInv'
  BY <1>3, <1>4, RateStep DEF CheckLimit, GatewayInv, RateNext
<1>6. UNCHANGED <<server, msg, details, messages>>
  BY DEF CheckLimit
<1>7. CASE End(s, i, "rate limited")
  <2> DEFINE x == [at |-> "end", answer |-> "rate limited", as |-> item[s][i].as]
  <2>1. x \in Item
    BY <1>2 DEF Item, Answers
  <2>2. item' = [item EXCEPT ![s][i] = x]
    BY <1>7, <1>1, EndMakes
  <2>3. ItemOK(b, s, i, x)
    BY <1>2 DEF ItemOK
  <2> HIDE DEF x
  <2> QED BY <2>1, <2>2, <2>3, <1>5, <1>6, ItemKeeps
<1>8. ASSUME NEW at \in {"run", "end"}, NEW answer \in Answers,
             item' = [item EXCEPT ![s][i] = [at |-> at, answer |-> answer, as |-> DetailsOf(s)]]
      PROVE  GatewayInv'
  <2> DEFINE x == [at |-> at, answer |-> answer, as |-> DetailsOf(s)]
  <2>1. DetailsOf(s) \in Slots \cup {Nobody}
    BY DEF DetailsOf, GatewayInv
  <2>2. x \in Item
    BY <2>1 DEF Item
  <2>3. b.via = "ws" => x.as = s
    BY DEF DetailsOf
  <2>4. ~(b.batch /\ r.method \in Disallowed)
    BY <1>1, <1>2 DEF ItemOK
  <2>5. ItemOK(b, s, i, x)
    BY <2>3, <2>4 DEF ItemOK
  <2> HIDE DEF x
  <2>6. item' = [item EXCEPT ![s][i] = x]
    BY <1>8 DEF x
  <2> QED BY <2>2, <2>5, <2>6, <1>5, <1>6, ItemKeeps
<1>9. Prechecked(r) \in Answers
  BY DEF Prechecked, Answers
<1>10. \/ End(s, i, "rate limited")
       \/ item' = [item EXCEPT ![s][i] =
                     [at     |-> IF Prechecked(r) = "none" THEN "run" ELSE "end",
                      answer |-> Prechecked(r),
                      as     |-> DetailsOf(s)]]
  BY DEF CheckLimit
<1>11. (IF Prechecked(r) = "none" THEN "run" ELSE "end") \in {"run", "end"}
  OBVIOUS
<1> HIDE DEF r, b
<1> QED BY <1>7, <1>8, <1>9, <1>10, <1>11

LEMMA ExecuteKeeps ==
  ASSUME GatewayInv, NEW s \in Slots, NEW i \in DOMAIN item[s], Execute(s, i)
  PROVE  GatewayInv'
<1>1. item[s] \in Seq(Item) /\ SlotOK(s) /\ item \in [Slots -> Seq(Item)]
  BY DEF GatewayInv
<1>2. item[s][i] \in Item /\ ItemOK(msg[s].body, s, i, item[s][i])
  BY <1>1 DEF SlotOK
<1>3. RateInv' /\ UNCHANGED <<server, msg, details, messages>>
  BY RateStep DEF Execute, GatewayInv
<1>4. ASSUME NEW answer \in Answers, End(s, i, answer)
      PROVE  GatewayInv'
  <2> DEFINE x == [at |-> "end", answer |-> answer, as |-> item[s][i].as]
  <2>1. x \in Item
    BY <1>2 DEF Item
  <2>2. item' = [item EXCEPT ![s][i] = x]
    BY <1>4, <1>1, EndMakes
  <2>3. ItemOK(msg[s].body, s, i, x)
    BY <1>2 DEF ItemOK
  <2> HIDE DEF x
  <2> QED BY <2>1, <2>2, <2>3, <1>3, ItemKeeps
<1> QED BY <1>4 DEF Execute, Answers

LEMMA RespondKeeps == ASSUME GatewayInv, NEW s \in Slots, Respond(s) PROVE GatewayInv'
<1> DEFINE b == msg[s].body
<1>1. /\ SlotOK(s) /\ msg[s] \in Message /\ msg[s].at = "items" /\ b \in Bodies
      /\ item[s] \in Seq(Item) /\ msg \in [Slots -> Message] /\ item \in [Slots -> Seq(Item)]
  BY DEF Respond, GatewayInv, SlotOK
<1>2. /\ RateInv' /\ server' = server /\ details' \in Slots \cup {Nobody}
      /\ messages' \in 0..MaxMessages /\ item' = item
  BY RateStep DEF Respond, GatewayInv
<1>3. Status(s) \subseteq {200, 400, 429, 500, 501} /\ (b.batch => Status(s) = {200})
  <2>1. \A answer : StatusOf(answer) \subseteq {200, 400, 429, 500, 501}
    BY ZenonT(40) DEF StatusOf
  <2> QED BY <2>1 DEF Status
<1>4. \E status \in {0, 200, 400, 429, 500, 501} :
        Send(s, status) /\ (b.batch /\ ~HasNull(b) => status = 200)
  <2>1. CASE HasNull(b) /\ Send(s, IF b.via = "http" THEN 500 ELSE 0)
    BY <2>1
  <2>2. CASE ~HasNull(b) /\ \E status \in Status(s) : Send(s, status)
    BY <2>2, <1>3
  <2> QED BY <2>1, <2>2 DEF Respond
<1>5. PICK status \in {0, 200, 400, 429, 500, 501} :
        Send(s, status) /\ (b.batch /\ ~HasNull(b) => status = 200)
  BY <1>4
<1> DEFINE m == [at |-> "sent", ip |-> msg[s].ip, body |-> b, status |-> status]
<1>6. m \in Message
  BY <1>1 DEF Message
<1>7. msg' = [msg EXCEPT ![s] = m] /\ item' = [item EXCEPT ![s] = item[s]]
  BY <1>1, <1>2, <1>5, SendMakes
<1>8. msg'[s] = m /\ item'[s] = item[s]
  BY <1>1, <1>7
<1>9. SlotOK(s)'
  BY <1>1, <1>5, <1>6, <1>8 DEF SlotOK, HasNull, NullBefore
<1> DEFINE q == item[s]
<1>10. q \in Seq(Item) /\ item' = [item EXCEPT ![s] = q] /\ msg' = [msg EXCEPT ![s] = m]
  BY <1>1, <1>7
<1> HIDE DEF m, q
<1> QED BY <1>2, <1>6, <1>9, <1>10, SlotKeeps

LEMMA NextMessageKeeps == ASSUME GatewayInv, NEW s \in Slots, NextMessage(s) PROVE GatewayInv'
<1>1. FreeSlot \in Message /\ <<>> \in Seq(Item)
  BY DEF FreeSlot, Message, NoBody
<1>2. msg' = [msg EXCEPT ![s] = FreeSlot] /\ item' = [item EXCEPT ![s] = <<>>]
  BY DEF NextMessage
<1>3. /\ RateInv' /\ server' = server /\ details' \in Slots \cup {Nobody}
      /\ messages' \in 0..MaxMessages
  BY RateStep DEF NextMessage, GatewayInv
<1>4. msg'[s] = FreeSlot /\ item'[s] = <<>>
  BY <1>2 DEF GatewayInv
<1>5. SlotOK(s)'
  BY <1>1, <1>4 DEF SlotOK, FreeSlot
<1> QED BY <1>1, <1>2, <1>3, <1>5, SlotKeeps

LEMMA GatewayStep == GatewayInv /\ [GatewayNext]_gwVars => GatewayInv'
<1> SUFFICES ASSUME GatewayInv, [GatewayNext]_gwVars PROVE GatewayInv'
  OBVIOUS
<1>1. ASSUME RateInv', UNCHANGED gatewayVars PROVE GatewayInv'
  BY <1>1 DEF GatewayInv, gatewayVars, SlotOK, HasNull, NullBefore
<1>2. CASE RateTick /\ UNCHANGED gatewayVars
  BY <1>1, <1>2, RateStep DEF GatewayInv, RateNext
<1>3. CASE UNCHANGED gwVars
  BY <1>1, <1>3, RateStep DEF GatewayInv, gwVars
<1>4. ASSUME NEW s \in Slots, MessageStep(s) PROVE GatewayInv'
  BY <1>4, ParseBodyKeeps, RespondKeeps, NextMessageKeeps, CheckLimitKeeps, ExecuteKeeps
     DEF MessageStep
<1> QED BY <1>2, <1>3, <1>4, ReceiveKeeps DEF GatewayNext

(* However messages overlap: on a WebSocket the relay is called with the   *)
(* details of the very message, an accepted batch without a null is        *)
(* answered with status 200, and no method a batch must not contain is     *)
(* executed in one (handleMultipleRequest, getRequestResult).              *)
THEOREM MessagesAreRight == GatewaySpec => []MessagesRight
<1>1. GatewayInv => MessagesRight
  <2> SUFFICES ASSUME GatewayInv PROVE MessagesRight
    OBVIOUS
  <2>1. GatewayTypeOK
    BY DEF GatewayInv, RateInv, GatewayTypeOK, Message, Item
  <2>2. SocketDetailsAreOwn
    BY DEF GatewayInv, SlotOK, ItemOK, SocketDetailsAreOwn
  <2>3. BatchesAnswered
    BY DEF GatewayInv, SlotOK, ItemOK, BatchesAnswered
  <2> QED BY <2>1, <2>2, <2>3 DEF MessagesRight
<1> QED BY <1>1, GatewayStarts, GatewayStep, PTL DEF GatewaySpec

-----------------------------------------------------------------------------

(***************************************************************************)
(* Spending plans, for any configuration, any number of relays that start  *)
(* together and any addresses.                                             *)
(***************************************************************************)

PlanWorks == [stage : Stages, config : PlanConfigs \cup {NoConfig}, todo : SUBSET PresetPlans,
          existing : SUBSET PresetPlans, kind : {"evm", "ip"}, addrs : SUBSET Linkable,
          found : SUBSET Linkable, alone : BOOLEAN]
Links == [Linkable -> PresetPlans \cup {"own", "none"}]

Dropping == {"unlink", "unlink one"}
Opening == {"list", "read", "drop", "add"} \cup Dropping
Checking == {"exists", "find", "remove"}
Scanning == {"scan", "scan one", "adjust"}
Over == {"down", "failed", "done"}

(* The plan a relay is at, and the addresses it should have.               *)
At(w) == First(w.todo)
Due(w) == w.config[At(w)]

(* What is left of the configured plans as they are taken one by one: the  *)
(* smallest family that has all of them and, with a set, the set without   *)
(* its first.                                                              *)
Rest(S) == S \ {First(S)}
Taken(F, L) == L \in F /\ \A X \in F : X # {} => Rest(X) \in F
Tails(L) == {T \in SUBSET L : \A F \in SUBSET SUBSET L : Taken(F, L) => T \in F}

(* What holds of a relay whatever the others do.                           *)
Shaped(w) ==
  /\ w.stage \notin Over => w.config \in PlanConfigs
  /\ w.stage = "done" => w.todo = {}
  /\ w.stage \in {"drop"} \cup Dropping => w.todo \subseteq w.existing \ Listed(w.config)
  /\ w.stage = "add" => w.todo \subseteq Listed(w.config)
  /\ w.stage \in Dropping \cup Checking \cup Scanning => w.todo # {}
  /\ w.stage \in Checking \cup Scanning => w.todo \in Tails(Listed(w.config))
  /\ w.stage \in Checking => w.addrs \subseteq Due(w) \cap Kind[w.kind]
  /\ w.stage \in {"find", "remove"} => w.addrs # {}
  /\ w.stage \in {"unlink one", "scan one", "adjust"} => w.addrs \subseteq Kind[w.kind]
  /\ w.stage = "scan one" => w.found \subseteq Kind[w.kind]
  /\ w.alone => w.stage \notin {"down", "failed"} /\ w.config \in PlanConfigs

(* A plan without a link or with a link of its own only.                   *)
Cleaned(S, st, l) == \A p \in S : p \notin st /\ \A a \in Linkable : l[a] # p
Settled(c, p, l) ==
  \A a \in Linkable : (a \in c[p] => l[a] \in {p, "none"}) /\ (a \notin c[p] => l[a] # p)

(* What a relay knows of the plans st and the links l if nobody but relays *)
(* with the same configuration c wrote any.                                *)
Dropped(w, st, l) ==
  LET c == w.config IN
  /\ w.stage \in {"drop"} \cup Dropping =>
       /\ w.existing \cap Listed(c) \subseteq st
       /\ Cleaned((w.existing \ Listed(c)) \ w.todo, st, l)
  /\ w.stage \in Dropping =>
       At(w) \notin st /\ (w.kind = "ip" => \A a \in Evm : l[a] # At(w))
  /\ w.stage = "unlink one" => \A a \in Kind[w.kind] : l[a] = At(w) => a \in w.addrs
  /\ w.stage = "add" => Cleaned(w.existing \ Listed(c), st, l) /\ Listed(c) \subseteq st \cup w.todo

Linking(w, st, l) ==
  LET c == w.config IN
  /\ w.stage \in Checking \cup Scanning \cup {"done"} =>
       Listed(c) \subseteq st /\ \A p \in Listed(c) \ w.todo : Settled(c, p, l)
  /\ w.stage \in Checking =>
       \A a \in Due(w) : a \in w.addrs \/ (w.kind = "evm" /\ a \in Ip) \/ l[a] \in {At(w), "none"}
  /\ w.stage \in Scanning =>
       /\ \A a \in Due(w) : l[a] \in {At(w), "none"}
       /\ w.kind = "ip" => \A a \in Evm \ Due(w) : l[a] # At(w)
  /\ w.stage = "scan one" =>
       /\ \A a \in Kind[w.kind] \ Due(w) : l[a] = At(w) => a \in w.addrs \cup w.found
       /\ \A a \in w.found \ Due(w), q \in PresetPlans : a \in c[q] => q \in Rest(w.todo)
  /\ w.stage = "adjust" =>
       /\ \A a \in Kind[w.kind] \ Due(w) : l[a] = At(w) => a \in w.addrs
       /\ \A a \in w.addrs \ Due(w), q \in PresetPlans : a \in c[q] => q \in Rest(w.todo)

(* The link of an address is right if the address is configured.           *)
LinkRight(c, l, a) == \A p \in PresetPlans : a \in c[p] => l[a] = p

(* A relay that goes on will see to the address.                           *)
OfAny(w, plans, a) == \E p \in plans : a \in w.config[p]
SeesTo(w, a) ==
  \/ w.stage \in Opening
  \/ w.stage \in Checking /\ OfAny(w, w.todo, a)
  \/ /\ w.stage \in Scanning
     /\ \/ OfAny(w, Rest(w.todo), a)
        \/ w.kind = "evm" /\ a \in Ip /\ a \in Due(w)
        \/ /\ a \in Due(w) /\ a \in Kind[w.kind]
           /\ w.stage = "scan one" => a \notin w.found
           /\ w.stage = "adjust" => a \in w.addrs

(* It may still give up for no reason; it will, for the link it is at is   *)
(* gone.                                                                   *)
Begun(w) == w.stage \notin {"down", "failed", "list", "read"}
Doomed(w, l) == w.stage = "find" /\ l[First(w.addrs)] = "none"

Trusts(w) == calm \/ w.alone
SameConfig(w) ==
  /\ w.stage \notin Over => w.config = config
  /\ w.stage = "done" => w.config = config \/ (Listed(config) = {} /\ Listed(w.config) = {})

(* Once a relay has begun, every address is seen to by one that is not     *)
(* about to give up.                                                       *)
Watched(l, a) == \E s \in Populaters : Begun(pop[s]) /\ ~Doomed(pop[s], l) /\ SeesTo(pop[s], a)
SeenTo ==
  calm /\ (\E r \in Populaters : Begun(pop[r])) =>
    \A a \in Linkable : LinkRight(config, linked, a) \/ Watched(linked, a)

PlansInv ==
  /\ SpendingPlansTypeOK
  /\ \A r \in Populaters : Shaped(pop[r])
  /\ \A r \in Populaters : Trusts(pop[r]) =>
       Dropped(pop[r], stored, linked) /\ Linking(pop[r], stored, linked)
  /\ calm => \A r \in Populaters : SameConfig(pop[r])
  /\ \A r \in Populaters : pop[r].alone =>
       \A a \in Linkable : LinkRight(pop[r].config, linked, a) \/ SeesTo(pop[r], a)
  /\ SeenTo

LEMMA KindIs == Kind["evm"] = Evm /\ Kind["ip"] = Ip
BY DEF Kind

LEMMA FirstIn == ASSUME NEW S, S # {} PROVE First(S) \in S
BY DEF First

LEMMA TailsClosed ==
  ASSUME NEW L
  PROVE  L \in Tails(L) /\ \A T \in Tails(L) : T \subseteq L /\ (T # {} => Rest(T) \in Tails(L))
<1>1. L \in Tails(L)
  BY DEF Tails, Taken
<1>2. ASSUME NEW T \in Tails(L) PROVE T \subseteq L
  BY <1>2 DEF Tails
<1>3. ASSUME NEW T \in Tails(L), T # {} PROVE Rest(T) \in Tails(L)
  <2>1. Rest(T) \in SUBSET L
    BY <1>2 DEF Rest
  <2>2. ASSUME NEW F \in SUBSET SUBSET L, Taken(F, L) PROVE Rest(T) \in F
    <3>1. T \in F
      BY <2>2 DEF Tails
    <3> QED BY <2>2, <3>1, <1>3 DEF Taken
  <2> QED BY <2>1, <2>2 DEF Tails
<1> QED BY <1>1, <1>2, <1>3

(* Of two sets of plans that are left, one is the other or is left later.  *)
Chained(S, T) == S = T \/ S \subseteq Rest(T) \/ T \subseteq Rest(S)

LEMMA TailsInduct ==
  ASSUME NEW L, NEW F, F \subseteq Tails(L), L \in F,
         ASSUME NEW X \in F, X # {} PROVE Rest(X) \in F
  PROVE  Tails(L) \subseteq F
<1>1. F \in SUBSET SUBSET L
  BY TailsClosed
<1>2. Taken(F, L)
  BY DEF Taken
<1> QED BY <1>1, <1>2 DEF Tails

LEMMA WholeChained == ASSUME NEW L PROVE \A T \in Tails(L) : Chained(L, T)
<1> DEFINE F == {T \in Tails(L) : Chained(L, T)}
<1>1. L \in F
  BY TailsClosed DEF Chained
<1>2. ASSUME NEW X \in F, X # {} PROVE Rest(X) \in F
  <2>1. X \in Tails(L) /\ Rest(X) \in Tails(L) /\ X \subseteq L /\ Chained(L, X)
    BY <1>2, TailsClosed
  <2>2. First(X) \in X
    BY <1>2, FirstIn
  <2>3. Chained(L, Rest(X))
    BY <2>1, <2>2 DEF Chained, Rest
  <2> QED BY <2>1, <2>3
<1>3. F \subseteq Tails(L)
  OBVIOUS
<1> HIDE DEF F
<1>4. Tails(L) \subseteq F
  BY <1>1, <1>2, <1>3, TailsInduct
<1> QED BY <1>4 DEF F

LEMMA RestChained ==
  ASSUME NEW L, NEW S \in Tails(L), S # {}, \A T \in Tails(L) : Chained(S, T)
  PROVE  \A T \in Tails(L) : Chained(Rest(S), T)
<1> DEFINE F == {T \in Tails(L) : Chained(Rest(S), T)}
<1>1. S \subseteq L /\ First(S) \in S /\ L \in Tails(L) /\ L # {}
  BY TailsClosed, FirstIn
<1>2. L \in F
  <2>1. Chained(S, L)
    BY <1>1
  <2>2. First(L) \in L
    BY <1>1, FirstIn
  <2> QED BY <1>1, <2>1, <2>2 DEF Chained, Rest
<1>3. ASSUME NEW X \in F, X # {} PROVE Rest(X) \in F
  <2>1. X \in Tails(L) /\ Rest(X) \in Tails(L) /\ Chained(Rest(S), X)
    BY <1>3, TailsClosed
  <2>2. First(X) \in X
    BY <1>3, FirstIn
  <2>3. Chained(S, Rest(X))
    BY <2>1
  <2>4. PICK R : R = Rest(S)
    OBVIOUS
  <2>5. PICK Y : Y = Rest(X)
    OBVIOUS
  <2>6. R \subseteq S /\ Y \subseteq X /\ Rest(Y) \subseteq Y /\ Rest(R) \subseteq R
    BY <2>4, <2>5 DEF Rest
  <2>7. ASSUME S \subseteq Rest(Y) \/ S = Y PROVE Chained(R, Y)
    BY <2>4, <2>6, <2>7 DEF Chained, Rest
  <2>8. ASSUME Y \subseteq R PROVE Chained(R, Y)
    <3>1. R = X \/ R \subseteq Y \/ X \subseteq Rest(R)
      BY <2>1, <2>4, <2>5 DEF Chained
    <3>2. R = X => Y \subseteq Rest(R)
      BY <2>5
    <3>3. R \subseteq Y => R = Y
      BY <2>8
    <3>4. X \subseteq Rest(R) => Y \subseteq Rest(R)
      BY <2>6
    <3> QED BY <3>1, <3>2, <3>3, <3>4 DEF Chained
  <2>9. Chained(R, Y)
    BY <2>3, <2>4, <2>5, <2>7, <2>8 DEF Chained
  <2> QED BY <2>1, <2>4, <2>5, <2>9
<1>4. F \subseteq Tails(L)
  OBVIOUS
<1> HIDE DEF F
<1>5. Tails(L) \subseteq F
  BY <1>2, <1>3, <1>4, TailsInduct
<1> QED BY <1>5 DEF F

LEMMA TailsChained == ASSUME NEW L PROVE \A S, T \in Tails(L) : Chained(S, T)
<1> DEFINE F == {S \in Tails(L) : \A T \in Tails(L) : Chained(S, T)}
<1>1. L \in F
  BY WholeChained, TailsClosed
<1>2. ASSUME NEW X \in F, X # {} PROVE Rest(X) \in F
  BY <1>2, TailsClosed, RestChained
<1>3. F \subseteq Tails(L)
  OBVIOUS
<1> HIDE DEF F
<1>4. Tails(L) \subseteq F
  BY <1>1, <1>2, <1>3, TailsInduct
<1> QED BY <1>4 DEF F

(* Relays that are at the same plan have the same plans left, and one that *)
(* will come to the plan of another has all that the other has left.       *)
LEMMA TailsAhead ==
  ASSUME NEW L, NEW S \in Tails(L), NEW T \in Tails(L), S # {}, T # {}
  PROVE  /\ First(S) = First(T) => S = T
         /\ First(S) \in Rest(T) => S \subseteq Rest(T)
<1>1. Chained(S, T) /\ First(S) \in S /\ First(T) \in T
  BY TailsChained, FirstIn
<1> QED BY <1>1 DEF Chained, Rest

(* What a relay with the configuration c may write.                        *)
PlanWrite(c, st, l, st2, l2) ==
  /\ st2 \subseteq st \cup Listed(c) /\ st \cap Listed(c) \subseteq st2
  /\ \A a \in Linkable : \/ l2[a] = l[a] \/ l2[a] = "none"
                         \/ \E p \in PresetPlans : l2[a] = p /\ a \in c[p]

LEMMA ConfigFacts ==
  ASSUME NEW c \in PlanConfigs
  PROVE  /\ \A p \in PresetPlans : c[p] \subseteq Linkable
         /\ \A p, q \in PresetPlans : \A a : a \in c[p] /\ a \in c[q] => p = q
         /\ \A p \in PresetPlans : \A a : a \in c[p] => p \in Listed(c)
         /\ Listed(c) \subseteq PresetPlans
         /\ "none" \notin PresetPlans /\ "own" \notin PresetPlans
         /\ Evm \subseteq Linkable /\ Ip \subseteq Linkable /\ Linkable = Evm \cup Ip
         /\ Evm \cap Ip = {}
<1>1. c \in [PresetPlans -> SUBSET Linkable]
  BY PresetConstants
<1>2. \A p, q \in PresetPlans : p # q => c[p] \cap c[q] = {}
  BY PresetConstants
<1> QED BY <1>1, <1>2, PresetConstants DEF Listed, Linkable

LEMMA LinkWritten ==
  ASSUME NEW c \in PlanConfigs, NEW st, NEW l, NEW st2, NEW l2, PlanWrite(c, st, l, st2, l2),
         NEW a \in Linkable, NEW p \in PresetPlans
  PROVE  /\ a \notin c[p] /\ l2[a] = p => l[a] = p
         /\ a \in c[p] /\ l[a] \in {p, "none"} => l2[a] \in {p, "none"}
BY ConfigFacts DEF PlanWrite

LEMMA PlanIn ==
  ASSUME NEW w \in PlanWorks, Shaped(w), w.stage \in Dropping \cup Checking \cup Scanning
  PROVE  /\ At(w) \in w.todo /\ At(w) \in PresetPlans
         /\ w.stage \in Dropping => At(w) \notin Listed(w.config)
         /\ w.stage \in Checking \cup Scanning => At(w) \in Listed(w.config)
         /\ w.config \in PlanConfigs
         /\ Kind[w.kind] \subseteq Linkable
<1>1. At(w) \in w.todo
  BY FirstIn DEF Shaped, At
<1>2. w.todo \subseteq PresetPlans /\ w.kind \in {"evm", "ip"}
  BY DEF PlanWorks
<1>3. w.stage \in Checking \cup Scanning => w.todo \subseteq Listed(w.config)
  BY TailsClosed DEF Shaped
<1>4. w.config \in PlanConfigs
  BY DEF Shaped, Over, Dropping, Checking, Scanning
<1> QED BY <1>1, <1>2, <1>3, <1>4, KindIs DEF Shaped, Linkable

LEMMA DroppedStable ==
  ASSUME NEW w \in PlanWorks, Shaped(w), w.config \in PlanConfigs, NEW st, NEW l, NEW st2, NEW l2,
         PlanWrite(w.config, st, l, st2, l2), Dropped(w, st, l)
  PROVE  Dropped(w, st2, l2)
<1>1. PICK c \in PlanConfigs : c = w.config
  OBVIOUS
<1>2. ASSUME NEW S \in SUBSET PresetPlans, S \cap Listed(c) = {}, Cleaned(S, st, l)
      PROVE  Cleaned(S, st2, l2)
  <2>1. ASSUME NEW p \in S PROVE p \notin st2 /\ \A a \in Linkable : l2[a] # p
    <3>1. p \in PresetPlans /\ p \notin st /\ p \notin Listed(c) /\ \A a \in Linkable : l[a] # p
      BY <1>2, <2>1 DEF Cleaned
    <3>2. \A a \in Linkable : l2[a] # p
      BY <3>1, <1>1, ConfigFacts, LinkWritten
    <3> QED BY <3>1, <3>2, <1>1 DEF PlanWrite
  <2> QED BY <2>1 DEF Cleaned
<1>3. w.existing \subseteq PresetPlans
  BY DEF PlanWorks
<1>4. w.stage \in {"drop"} \cup Dropping =>
        /\ w.existing \cap Listed(c) \subseteq st2
        /\ Cleaned((w.existing \ Listed(c)) \ w.todo, st2, l2)
  BY <1>1, <1>2, <1>3 DEF Dropped, PlanWrite
<1>5. w.stage = "add" => Cleaned(w.existing \ Listed(c), st2, l2) /\ Listed(c) \subseteq st2 \cup w.todo
  BY <1>1, <1>2, <1>3 DEF Dropped, PlanWrite
<1>6. ASSUME w.stage \in Dropping
      PROVE  /\ At(w) \notin st2 /\ (w.kind = "ip" => \A a \in Evm : l2[a] # At(w))
             /\ w.stage = "unlink one" => \A a \in Kind[w.kind] : l2[a] = At(w) => a \in w.addrs
  <2>1. PICK p \in PresetPlans : p = At(w) /\ p \notin Listed(c)
    BY <1>1, <1>6, PlanIn
  <2>2. \A a \in Linkable : l2[a] = p => l[a] = p
    BY <1>1, <2>1, ConfigFacts, LinkWritten
  <2>3. Evm \subseteq Linkable /\ Kind[w.kind] \subseteq Linkable
    BY <1>6, PlanIn DEF Linkable
  <2> QED BY <1>1, <1>6, <2>1, <2>2, <2>3 DEF Dropped, PlanWrite
<1> QED BY <1>1, <1>4, <1>5, <1>6 DEF Dropped, Dropping

LEMMA LinkingStable ==
  ASSUME NEW w \in PlanWorks, Shaped(w), w.config \in PlanConfigs, NEW st, NEW l, NEW st2, NEW l2,
         PlanWrite(w.config, st, l, st2, l2), Linking(w, st, l)
  PROVE  Linking(w, st2, l2)
<1>1. PICK c \in PlanConfigs : c = w.config
  OBVIOUS
<1>2. ASSUME w.stage \in Checking \cup Scanning \cup {"done"}
      PROVE  Listed(c) \subseteq st2 /\ \A p \in Listed(c) \ w.todo : Settled(c, p, l2)
  <2>1. Listed(c) \subseteq st /\ \A p \in Listed(c) \ w.todo : Settled(c, p, l)
    BY <1>1, <1>2 DEF Linking
  <2>2. ASSUME NEW p \in Listed(c), Settled(c, p, l) PROVE Settled(c, p, l2)
    BY <1>1, <2>2, ConfigFacts, LinkWritten DEF Settled
  <2> QED BY <1>1, <2>1, <2>2 DEF PlanWrite
<1>3. ASSUME w.stage \in Checking \cup Scanning
      PROVE  /\ w.stage \in Checking =>
                  \A a \in Due(w) : a \in w.addrs \/ (w.kind = "evm" /\ a \in Ip)
                                      \/ l2[a] \in {At(w), "none"}
             /\ w.stage \in Scanning =>
                  /\ \A a \in Due(w) : l2[a] \in {At(w), "none"}
                  /\ w.kind = "ip" => \A a \in Evm \ Due(w) : l2[a] # At(w)
             /\ w.stage = "scan one" =>
                  \A a \in Kind[w.kind] \ Due(w) : l2[a] = At(w) => a \in w.addrs \cup w.found
             /\ w.stage = "adjust" =>
                  \A a \in Kind[w.kind] \ Due(w) : l2[a] = At(w) => a \in w.addrs
  <2>1. PICK p \in PresetPlans : p = At(w)
    BY <1>3, PlanIn
  <2>2. Due(w) = c[p] /\ c[p] \subseteq Linkable /\ Evm \subseteq Linkable /\ Kind[w.kind] \subseteq Linkable
    BY <1>1, <1>3, <2>1, PlanIn, ConfigFacts DEF Due
  <2>3. \A a \in Linkable : /\ a \notin c[p] /\ l2[a] = p => l[a] = p
                            /\ a \in c[p] /\ l[a] \in {p, "none"} => l2[a] \in {p, "none"}
    BY <1>1, LinkWritten
  <2> QED BY <2>1, <2>2, <2>3 DEF Linking
<1> QED BY <1>1, <1>2, <1>3 DEF Linking, Checking, Scanning

LEMMA FactsOfIdle ==
  ASSUME NEW w, w.stage \in Over, w.stage = "done" => Listed(w.config) = {}, NEW st, NEW l
  PROVE  Dropped(w, st, l) /\ Linking(w, st, l)
BY DEF Dropped, Linking, Over, Dropping, Checking, Scanning

(* Two relays that differ only in whether they are alone.                  *)
Alike(v, w) ==
  /\ v.stage = w.stage /\ v.config = w.config /\ v.todo = w.todo /\ v.existing = w.existing
  /\ v.kind = w.kind /\ v.addrs = w.addrs /\ v.found = w.found

LEMMA AlikeFacts ==
  ASSUME NEW v \in PlanWorks, NEW w \in PlanWorks, Alike(v, w), NEW st, NEW l
  PROVE  /\ Dropped(w, st, l) => Dropped(v, st, l)
         /\ Linking(w, st, l) => Linking(v, st, l)
         /\ Shaped(w) /\ (v.alone => w.alone) => Shaped(v)
         /\ SameConfig(w) => SameConfig(v)
         /\ Begun(v) <=> Begun(w)
         /\ Doomed(v, l) <=> Doomed(w, l)
         /\ \A a : SeesTo(v, a) <=> SeesTo(w, a)
<1>1. At(v) = At(w) /\ Due(v) = Due(w) /\ \A S, a : OfAny(v, S, a) <=> OfAny(w, S, a)
  BY DEF Alike, At, Due, OfAny
<1>2. Dropped(w, st, l) => Dropped(v, st, l)
  BY <1>1 DEF Alike, Dropped
<1>3. Linking(w, st, l) => Linking(v, st, l)
  BY <1>1 DEF Alike, Linking
<1>4. Shaped(w) /\ (v.alone => w.alone) => Shaped(v)
  BY <1>1 DEF Alike, Shaped
<1>5. SameConfig(w) => SameConfig(v)
  BY DEF Alike, SameConfig
<1>6. (Begun(v) <=> Begun(w)) /\ (Doomed(v, l) <=> Doomed(w, l))
  BY DEF Alike, Begun, Doomed
<1>7. \A a : SeesTo(v, a) <=> SeesTo(w, a)
  BY <1>1 DEF Alike, SeesTo
<1> QED BY <1>2, <1>3, <1>4, <1>5, <1>6, <1>7

(* A relay that goes on from what it is to v; the others keep what they    *)
(* know, but for being alone.                                              *)
Goes(r, v) ==
  /\ UNCHANGED <<config, assigning, starts, calm>>
  /\ pop' \in [Populaters -> PlanWorks] /\ pop'[r] = v
  /\ stored' \in SUBSET PresetPlans /\ linked' \in Links
  /\ \A s \in Populaters \ {r} :
       Alike(pop'[s], pop[s]) /\ (pop'[s].alone => pop[s].alone /\ UNCHANGED plansDb)
  /\ pop[r].stage \notin Over /\ v.stage \notin {"down", "failed"}
  /\ v.config = pop[r].config /\ v.alone = pop[r].alone

LEMMA GoesKeeps ==
  ASSUME PlansInv, NEW r \in Populaters, NEW v \in PlanWorks, Goes(r, v), Shaped(v),
         PlanWrite(v.config, stored, linked, stored', linked'),
         Trusts(v) => Dropped(v, stored', linked') /\ Linking(v, stored', linked'),
         Trusts(v) => \A a \in Linkable :
           LinkRight(v.config, linked, a) \/ SeesTo(pop[r], a) =>
             LinkRight(v.config, linked', a) \/ SeesTo(v, a),
         Begun(v) => ~Doomed(v, linked'),
         ~Begun(v) => ~Begun(pop[r]) /\ UNCHANGED plansDb,
         calm => \A s \in Populaters \ {r} :
           Doomed(pop[s], linked') /\ ~Doomed(pop[s], linked) =>
             \A a \in Linkable : SeesTo(pop[s], a) => SeesTo(v, a)
  PROVE  PlansInv'
<1>1. /\ pop \in [Populaters -> PlanWorks] /\ pop' \in [Populaters -> PlanWorks] /\ pop'[r] = v
      /\ calm' = calm /\ config' = config
  BY DEF Goes, PlansInv, SpendingPlansTypeOK, PlanWorks
<1>2. /\ v.config \in PlanConfigs /\ v.config = pop[r].config /\ v.alone = pop[r].alone
      /\ pop[r].stage \notin Over /\ v.stage \notin {"down", "failed"}
  BY DEF Goes, PlansInv, Shaped
<1>3. ASSUME NEW s \in Populaters, s # r
      PROVE  /\ pop[s] \in PlanWorks /\ pop'[s] \in PlanWorks /\ Alike(pop'[s], pop[s])
             /\ Shaped(pop[s]) /\ (pop'[s].alone => pop[s].alone /\ UNCHANGED plansDb)
  BY <1>1, <1>3 DEF Goes, PlansInv
<1>4. SpendingPlansTypeOK'
  BY <1>1 DEF Goes, PlansInv, SpendingPlansTypeOK, PlanWorks, Links
<1>5. \A s \in Populaters : Shaped(pop'[s])
  BY <1>1, <1>3, AlikeFacts
<1>6. calm => v.config = config
  BY <1>2 DEF PlansInv, SameConfig
<1>7. ASSUME NEW s \in Populaters, Trusts(pop[s])'
      PROVE  Dropped(pop'[s], stored', linked') /\ Linking(pop'[s], stored', linked')
  <2>1. CASE s = r
    BY <1>1, <1>7, <2>1 DEF Trusts
  <2>2. CASE s # r
    <3>1. PICK w \in PlanWorks : w = pop[s]
      BY <1>3, <2>2
    <3>2. PICK x \in PlanWorks : x = pop'[s] /\ Alike(x, w)
      BY <1>3, <2>2, <3>1
    <3>3. Shaped(w) /\ Trusts(w) /\ Dropped(w, stored, linked) /\ Linking(w, stored, linked)
      BY <1>1, <1>3, <1>7, <2>2, <3>1 DEF PlansInv, Trusts
    <3>4. CASE UNCHANGED plansDb
      BY <3>2, <3>3, <3>4, AlikeFacts DEF plansDb
    <3>5. CASE ~UNCHANGED plansDb
      <4>1. calm /\ SameConfig(w)
        BY <1>1, <1>3, <1>7, <2>2, <3>1, <3>5 DEF Trusts, PlansInv
      <4>2. CASE w.config = config
        BY <1>2, <1>6, <3>2, <3>3, <4>1, <4>2, DroppedStable, LinkingStable, AlikeFacts
      <4>3. CASE w.config # config
        BY <3>2, <4>1, <4>3, FactsOfIdle DEF SameConfig, Over, Alike
      <4> QED BY <3>2, <4>2, <4>3
    <3> QED BY <3>4, <3>5
  <2> QED BY <2>1, <2>2
<1>8. calm' => \A s \in Populaters : SameConfig(pop[s])'
  <2>1. ASSUME NEW s \in Populaters, calm PROVE SameConfig(pop'[s])
    <3>1. CASE s = r
      BY <1>1, <1>6, <2>1, <3>1 DEF SameConfig
    <3>2. CASE s # r
      BY <1>3, <2>1, <3>2, AlikeFacts DEF PlansInv
    <3> QED BY <3>1, <3>2
  <2>2. \A s \in Populaters : SameConfig(pop'[s]) => SameConfig(pop[s])'
    BY <1>1 DEF SameConfig
  <2> QED BY <1>1, <2>1, <2>2
<1>9. ASSUME NEW s \in Populaters, pop'[s].alone, NEW a \in Linkable
      PROVE  LinkRight(pop'[s].config, linked', a) \/ SeesTo(pop'[s], a)
  <2>1. CASE s = r
    BY <1>1, <1>2, <1>9, <2>1 DEF PlansInv, Trusts
  <2>2. CASE s # r
    <3>1. pop[s].alone /\ linked' = linked /\ pop'[s].config = pop[s].config
      BY <1>3, <1>9, <2>2 DEF plansDb, Alike
    <3>2. LinkRight(pop[s].config, linked, a) \/ SeesTo(pop[s], a)
      BY <3>1 DEF PlansInv
    <3> QED BY <1>3, <2>2, <3>1, <3>2, AlikeFacts
  <2> QED BY <2>1, <2>2
<1>10. ASSUME NEW s \in Populaters, s # r, Begun(pop[s]), ~Doomed(pop[s], linked)
       PROVE  /\ Begun(pop'[s]) /\ \A a : SeesTo(pop'[s], a) <=> SeesTo(pop[s], a)
              /\ ~Doomed(pop[s], linked') => ~Doomed(pop'[s], linked')
  BY <1>3, <1>10, AlikeFacts
<1>11. ASSUME calm, NEW a \in Linkable, NEW t \in Populaters, Begun(pop'[t])
       PROVE  LinkRight(config, linked', a) \/ Watched(linked, a)'
  <2>1. CASE Begun(v)
    <3>1. SeesTo(v, a) => Watched(linked, a)'
      BY <1>1, <2>1 DEF Watched
    <3>2. /\ LinkRight(config, linked, a) => LinkRight(config, linked', a) \/ SeesTo(v, a)
          /\ SeesTo(pop[r], a) => LinkRight(config, linked', a) \/ SeesTo(v, a)
      BY <1>6, <1>11 DEF Trusts
    <3>3. CASE ~Begun(pop[r])
      <4>1. SeesTo(pop[r], a)
        BY <1>2, <3>3 DEF Begun, SeesTo, Opening, Over
      <4> QED BY <3>1, <3>2, <4>1
    <3>4. CASE Begun(pop[r])
      <4>1. LinkRight(config, linked, a) \/ Watched(linked, a)
        BY <1>11, <3>4 DEF PlansInv, SeenTo
      <4>2. ASSUME NEW s \in Populaters, s # r, Begun(pop[s]), ~Doomed(pop[s], linked), SeesTo(pop[s], a)
            PROVE  SeesTo(v, a) \/ Watched(linked, a)'
        BY <1>10, <1>11, <4>2 DEF Watched
      <4> QED BY <3>1, <3>2, <4>1, <4>2 DEF Watched
    <3> QED BY <3>3, <3>4
  <2>2. CASE ~Begun(v)
    <3>1. t # r /\ linked' = linked /\ ~Begun(pop[r])
      BY <1>1, <1>11, <2>2 DEF plansDb
    <3>2. Begun(pop[t])
      BY <1>3, <1>11, <3>1, AlikeFacts
    <3>3. LinkRight(config, linked, a) \/ Watched(linked, a)
      BY <1>11, <3>2 DEF PlansInv, SeenTo
    <3>4. ASSUME NEW s \in Populaters, Begun(pop[s]), ~Doomed(pop[s], linked), SeesTo(pop[s], a)
          PROVE  Watched(linked, a)'
      BY <1>10, <3>1, <3>4 DEF Watched
    <3> QED BY <3>1, <3>3, <3>4 DEF Watched
  <2> QED BY <2>1, <2>2
<1>12. SeenTo'
  BY <1>1, <1>11 DEF SeenTo
<1> QED BY <1>4, <1>5, <1>7, <1>8, <1>9, <1>12 DEF PlansInv

LEMMA WritesGo ==
  ASSUME PlansInv, NEW r \in Populaters, NEW v \in PlanWorks, Writes(r, v), Quiet,
         stored' \in SUBSET PresetPlans, linked' \in Links,
         pop[r].stage \notin Over, v.stage \notin {"down", "failed"},
         v.config = pop[r].config, v.alone = pop[r].alone
  PROVE  Goes(r, v)
<1>1. pop \in [Populaters -> PlanWorks]
  BY DEF PlansInv, SpendingPlansTypeOK, PlanWorks
<1>2. ASSUME NEW w \in PlanWorks
      PROVE  LET h == [w EXCEPT !.alone = FALSE] IN h \in PlanWorks /\ Alike(h, w) /\ ~h.alone
  BY DEF PlanWorks, Alike
<1>3. ASSUME NEW s \in Populaters
      PROVE  /\ pop'[s] \in PlanWorks
             /\ s # r => Alike(pop'[s], pop[s]) /\ ~pop'[s].alone
             /\ s = r => pop'[s] = v
  BY <1>1, <1>2 DEF Writes
<1>4. pop' \in [Populaters -> PlanWorks]
  BY <1>3 DEF Writes
<1> QED BY <1>3, <1>4 DEF Goes, Quiet

(* A step that writes.                                                     *)
LEMMA WriteKept ==
  ASSUME PlansInv, NEW r \in Populaters, NEW v \in PlanWorks, Writes(r, v), Quiet,
         stored' \in SUBSET PresetPlans, linked' \in Links,
         pop[r].stage \notin Over, v.stage \notin Over,
         v.config = pop[r].config, v.alone = pop[r].alone, Shaped(v),
         PlanWrite(v.config, stored, linked, stored', linked'),
         Trusts(v) /\ Dropped(pop[r], stored, linked) /\ Linking(pop[r], stored, linked) =>
           /\ Dropped(v, stored', linked') /\ Linking(v, stored', linked')
           /\ \A a \in Linkable :
                LinkRight(v.config, linked, a) \/ SeesTo(pop[r], a) =>
                  LinkRight(v.config, linked', a) \/ SeesTo(v, a),
         Begun(v), v.stage # "find",
         calm /\ Dropped(pop[r], stored, linked) /\ Linking(pop[r], stored, linked) =>
           \A s \in Populaters \ {r} :
             Doomed(pop[s], linked') /\ ~Doomed(pop[s], linked) =>
               \A a \in Linkable : SeesTo(pop[s], a) => SeesTo(v, a)
  PROVE  PlansInv'
<1>1. Goes(r, v)
  BY WritesGo DEF Over
<1>2. Trusts(v) => Dropped(pop[r], stored, linked) /\ Linking(pop[r], stored, linked)
  BY DEF PlansInv, Trusts
<1>3. calm => Dropped(pop[r], stored, linked) /\ Linking(pop[r], stored, linked)
  BY DEF PlansInv, Trusts
<1>4. ~Doomed(v, linked')
  BY DEF Doomed
<1>5. calm => \A s \in Populaters \ {r} :
        Doomed(pop[s], linked') /\ ~Doomed(pop[s], linked) =>
          \A a \in Linkable : SeesTo(pop[s], a) => SeesTo(v, a)
  BY <1>3
<1> QED BY <1>1, <1>2, <1>4, <1>5, GoesKeeps

(* A step that only reads.                                                 *)
LEMMA ReadKept ==
  ASSUME PlansInv, NEW r \in Populaters, NEW v \in PlanWorks, Becomes(r, v), Quiet,
         UNCHANGED plansDb, pop[r].stage \notin Over, v.stage \notin {"down", "failed"},
         v.config = pop[r].config, v.alone = pop[r].alone, Shaped(v),
         Trusts(v) /\ Dropped(pop[r], stored, linked) /\ Linking(pop[r], stored, linked) =>
           /\ Dropped(v, stored, linked) /\ Linking(v, stored, linked)
           /\ \A a \in Linkable :
                SeesTo(pop[r], a) => LinkRight(v.config, linked, a) \/ SeesTo(v, a),
         ~Doomed(v, linked), ~Begun(v) => ~Begun(pop[r])
  PROVE  PlansInv'
<1>1. /\ pop \in [Populaters -> PlanWorks] /\ stored \subseteq PresetPlans /\ linked \in Links
      /\ stored' = stored /\ linked' = linked
  BY DEF PlansInv, SpendingPlansTypeOK, PlanWorks, Links, plansDb
<1>2. /\ pop' \in [Populaters -> PlanWorks] /\ pop'[r] = v
      /\ \A s \in Populaters \ {r} : pop'[s] = pop[s]
  BY <1>1 DEF Becomes
<1>3. Goes(r, v)
  BY <1>1, <1>2 DEF Goes, Quiet, Alike, plansDb
<1>4. Trusts(v) => Dropped(pop[r], stored, linked) /\ Linking(pop[r], stored, linked)
  BY DEF PlansInv, Trusts
<1>5. PlanWrite(v.config, stored, linked, stored', linked')
  BY <1>1 DEF PlanWrite
<1>6. Trusts(v) => /\ Dropped(v, stored', linked') /\ Linking(v, stored', linked')
                   /\ \A a \in Linkable :
                        LinkRight(v.config, linked, a) \/ SeesTo(pop[r], a) =>
                          LinkRight(v.config, linked', a) \/ SeesTo(v, a)
  BY <1>1, <1>4
<1>7. /\ ~Doomed(v, linked')
      /\ \A s \in Populaters \ {r} :
           ~(Doomed(pop[s], linked') /\ ~Doomed(pop[s], linked))
  BY <1>1
<1> QED BY <1>3, <1>5, <1>6, <1>7, GoesKeeps

(* Giving up is harmless: another relay sees to what is left.              *)
LEMMA FailKept ==
  ASSUME PlansInv, NEW r \in Populaters, Fail(r), Quiet, UNCHANGED plansDb,
         ~Begun(pop[r]) \/ Doomed(pop[r], linked)
  PROVE  PlansInv'
<1>1. /\ pop \in [Populaters -> PlanWorks] /\ stored' = stored /\ linked' = linked
      /\ config' = config /\ calm' = calm
  BY DEF PlansInv, SpendingPlansTypeOK, PlanWorks, plansDb, Quiet
<1>2. PICK v : v = [Down EXCEPT !.stage = "failed"]
  OBVIOUS
<1>3. v \in PlanWorks /\ v.stage = "failed" /\ ~v.alone
  BY <1>2 DEF Down, PlanWorks, Stages
<1>4. /\ pop' \in [Populaters -> PlanWorks] /\ pop'[r] = v
      /\ \A s \in Populaters \ {r} : pop'[s] = pop[s]
  BY <1>1, <1>2, <1>3 DEF Fail, Becomes
<1>5. Shaped(v) /\ Dropped(v, stored, linked) /\ Linking(v, stored, linked) /\ SameConfig(v)
  BY <1>3, FactsOfIdle DEF Shaped, SameConfig, Over, Dropping, Checking, Scanning
<1>6. SpendingPlansTypeOK'
  BY <1>1, <1>4 DEF PlansInv, SpendingPlansTypeOK, PlanWorks, Quiet
<1>7. \A s \in Populaters : Shaped(pop'[s])
  BY <1>4, <1>5 DEF PlansInv
<1>8. \A s \in Populaters : Trusts(pop[s])' =>
        Dropped(pop'[s], stored', linked') /\ Linking(pop'[s], stored', linked')
  BY <1>1, <1>4, <1>5 DEF PlansInv, Trusts
<1>9. calm' => \A s \in Populaters : SameConfig(pop[s])'
  BY <1>1, <1>3, <1>4 DEF PlansInv, SameConfig, Over
<1>10. \A s \in Populaters : pop'[s].alone =>
         \A a \in Linkable : LinkRight(pop'[s].config, linked', a) \/ SeesTo(pop'[s], a)
  BY <1>1, <1>3, <1>4 DEF PlansInv
<1>11. SeenTo'
  <2>1. ASSUME calm, NEW a \in Linkable, NEW t \in Populaters, Begun(pop'[t])
        PROVE  LinkRight(config, linked, a) \/ Watched(linked, a)'
    <3>1. ~Begun(v) /\ Begun(pop[t])
      BY <1>3, <1>4, <2>1 DEF Begun
    <3>2. LinkRight(config, linked, a) \/ Watched(linked, a)
      BY <2>1, <3>1 DEF PlansInv, SeenTo
    <3>3. Watched(linked, a) => Watched(linked, a)'
      BY <1>1, <1>4 DEF Watched
    <3> QED BY <3>2, <3>3
  <2> QED BY <1>1, <2>1 DEF SeenTo
<1> QED BY <1>6, <1>7, <1>8, <1>9, <1>10, <1>11 DEF PlansInv

LEMMA ListPlansKeeps ==
  ASSUME PlansInv, NEW r \in Populaters, ListPlans(r)
  PROVE  PlansInv'
<1>1. PICK w \in PlanWorks : w = pop[r] /\ Shaped(w) /\ w.stage = "list"
  BY DEF PlansInv, SpendingPlansTypeOK, PlanWorks, ListPlans
<1>2. PICK v : v = [w EXCEPT !.stage = "read", !.existing = stored]
  OBVIOUS
<1>3. /\ v \in PlanWorks /\ v.stage = "read" /\ v.existing = stored /\ v.config = w.config
      /\ v.alone = w.alone
  BY <1>2 DEF PlansInv, SpendingPlansTypeOK, PlanWorks, Stages
<1>4. Becomes(r, v) /\ Quiet /\ UNCHANGED plansDb
  BY <1>1, <1>2 DEF ListPlans
<1>5. Shaped(v) /\ Dropped(v, stored, linked) /\ Linking(v, stored, linked)
  BY <1>1, <1>3 DEF Shaped, Dropped, Linking, Over, Dropping, Checking, Scanning
<1>6. ~Doomed(v, linked) /\ ~Begun(w) /\ \A a : SeesTo(v, a)
  BY <1>1, <1>3 DEF Doomed, Begun, SeesTo, Opening
<1> QED BY <1>1, <1>3, <1>4, <1>5, <1>6, ReadKept DEF Over


LEMMA WorkIs ==
  ASSUME PlansInv, NEW r \in Populaters
  PROVE  /\ pop[r] \in PlanWorks /\ Shaped(pop[r])
         /\ pop \in [Populaters -> PlanWorks] /\ stored \subseteq PresetPlans /\ linked \in Links
         /\ pop[r].stage \notin Over => pop[r].config \in PlanConfigs
BY DEF PlansInv, SpendingPlansTypeOK, PlanWorks, Links, Shaped

LEMMA ReadPlansKeeps ==
  ASSUME PlansInv, NEW r \in Populaters, ReadPlans(r)
  PROVE  PlansInv'
<1>1. PICK w \in PlanWorks : w = pop[r] /\ Shaped(w) /\ w.stage = "read"
  BY WorkIs DEF ReadPlans
<1>2. Quiet /\ UNCHANGED plansDb
  BY DEF ReadPlans
<1>3. CASE Fail(r)
  BY <1>1, <1>2, <1>3, FailKept DEF Begun
<1>4. CASE ~Fail(r)
  <2>1. PICK left : left = w.existing \ BasicTier
    OBVIOUS
  <2>2. PICK v : v = [w EXCEPT !.stage = "drop", !.existing = left, !.todo = left \ Listed(w.config)]
    OBVIOUS
  <2>3. Becomes(r, v) /\ w.existing \subseteq stored
    BY <1>1, <1>4, <2>1, <2>2 DEF ReadPlans
  <2>4. left \subseteq stored /\ left \subseteq PresetPlans
    BY <2>1, <2>3, WorkIs
  <2>5. /\ v \in PlanWorks /\ v.stage = "drop" /\ v.existing = left /\ v.config = w.config
        /\ v.todo = left \ Listed(w.config) /\ v.alone = w.alone
    BY <2>2, <2>4 DEF PlanWorks, Stages
  <2>6. Shaped(v)
    BY <1>1, <2>5 DEF Shaped, Over, Dropping, Checking, Scanning
  <2>7. Dropped(v, stored, linked) /\ Linking(v, stored, linked)
    BY <2>4, <2>5 DEF Dropped, Linking, Cleaned, Dropping, Checking, Scanning
  <2>8. ~Doomed(v, linked) /\ Begun(v) /\ \A a : SeesTo(v, a)
    BY <2>5 DEF Doomed, Begun, SeesTo, Opening
  <2> QED BY <1>1, <1>2, <2>3, <2>5, <2>6, <2>7, <2>8, ReadKept DEF Over
<1> QED BY <1>3, <1>4

LEMMA DropPlanKeeps ==
  ASSUME PlansInv, NEW r \in Populaters, DropPlan(r)
  PROVE  PlansInv'
<1>1. PICK w \in PlanWorks : w = pop[r] /\ Shaped(w) /\ w.stage = "drop"
  BY WorkIs DEF DropPlan
<1>2. PICK c \in PlanConfigs : c = w.config
  BY <1>1 DEF Shaped, Over
<1>3. w.existing \subseteq PresetPlans /\ w.todo \subseteq w.existing \ Listed(c)
  BY <1>1, <1>2 DEF Shaped, PlanWorks
<1>4. CASE w.todo = {}
  <2>1. PICK v : v = [w EXCEPT !.stage = "add", !.todo = Listed(c) \ w.existing]
    OBVIOUS
  <2>2. Becomes(r, v) /\ Quiet /\ UNCHANGED plansDb
    BY <1>1, <1>2, <1>4, <2>1 DEF DropPlan
  <2>3. /\ v \in PlanWorks /\ v.stage = "add" /\ v.existing = w.existing /\ v.config = c
        /\ v.todo = Listed(c) \ w.existing /\ v.alone = w.alone
    BY <1>2, <2>1, ConfigFacts DEF PlanWorks, Stages
  <2>4. Shaped(v)
    BY <1>1, <1>2, <2>3 DEF Shaped, Over, Dropping, Checking, Scanning
  <2>5. Dropped(w, stored, linked) => Dropped(v, stored, linked)
    BY <1>1, <1>2, <1>4, <2>3 DEF Dropped, Cleaned, Dropping
  <2>6. Linking(v, stored, linked)
    BY <2>3 DEF Linking, Checking, Scanning
  <2>7. ~Doomed(v, linked) /\ Begun(v) /\ \A a : SeesTo(v, a)
    BY <2>3 DEF Doomed, Begun, SeesTo, Opening
  <2> QED BY <1>1, <1>2, <2>2, <2>3, <2>4, <2>5, <2>6, <2>7, ReadKept DEF Over
<1>5. CASE w.todo # {}
  <2>1. PICK v : v = [w EXCEPT !.stage = "unlink", !.kind = "evm"]
    OBVIOUS
  <2>2. PICK p : p = Plan(r)
    OBVIOUS
  <2>3. Writes(r, v) /\ Quiet /\ stored' = stored \ {p} /\ linked' = linked
    BY <1>1, <1>5, <2>1, <2>2 DEF DropPlan
  <2>4. /\ v \in PlanWorks /\ v.stage = "unlink" /\ v.existing = w.existing /\ v.config = c
        /\ v.todo = w.todo /\ v.alone = w.alone /\ v.kind = "evm"
    BY <1>2, <2>1 DEF PlanWorks, Stages
  <2>5. Shaped(v)
    BY <1>1, <1>2, <1>5, <2>4 DEF Shaped, Over, Dropping, Checking, Scanning
  <2>6. p = At(v) /\ p \in w.todo /\ p \notin Listed(c)
    BY <1>1, <1>3, <1>5, <2>2, <2>4, FirstIn DEF Plan, At
  <2>7. PlanWrite(c, stored, linked, stored', linked')
    BY <2>3, <2>6 DEF PlanWrite
  <2>8. Dropped(w, stored, linked) => Dropped(v, stored', linked')
    BY <1>1, <1>2, <2>3, <2>4, <2>6 DEF Dropped, Cleaned, Dropping
  <2>9. Linking(v, stored', linked')
    BY <2>4 DEF Linking, Checking, Scanning
  <2>10. Begun(v) /\ \A a : SeesTo(v, a)
    BY <2>4 DEF Begun, SeesTo, Opening, Dropping
  <2>11. stored' \in SUBSET PresetPlans /\ linked' \in Links
    BY <2>3, WorkIs
  <2> QED BY <1>1, <1>2, <2>3, <2>4, <2>5, <2>7, <2>8, <2>9, <2>10, <2>11, WriteKept DEF Over
<1> QED BY <1>4, <1>5

LEMMA UnlinkKeysKeeps ==
  ASSUME PlansInv, NEW r \in Populaters, UnlinkKeys(r)
  PROVE  PlansInv'
<1>1. PICK w \in PlanWorks : w = pop[r] /\ Shaped(w) /\ w.stage = "unlink"
  BY WorkIs DEF UnlinkKeys
<1>2. PICK keys : keys = LinksOf(w.kind)
  OBVIOUS
<1>3. PICK v : v = [w EXCEPT !.stage = "unlink one", !.addrs = keys]
  OBVIOUS
<1>4. Becomes(r, v) /\ Quiet /\ UNCHANGED plansDb
  BY <1>1, <1>2, <1>3 DEF UnlinkKeys
<1>5. /\ At(w) \in PresetPlans /\ At(w) \notin Listed(w.config) /\ w.config \in PlanConfigs
      /\ Kind[w.kind] \subseteq Linkable
  BY <1>1, PlanIn DEF Dropping
<1>6. keys = {a \in Kind[w.kind] : linked[a] # "none"}
  BY <1>2 DEF LinksOf
<1>7. /\ v \in PlanWorks /\ v.stage = "unlink one" /\ v.existing = w.existing /\ v.config = w.config
      /\ v.todo = w.todo /\ v.alone = w.alone /\ v.kind = w.kind /\ v.addrs = keys
  BY <1>3, <1>5, <1>6 DEF PlanWorks, Stages
<1>8. Shaped(v)
  BY <1>1, <1>6, <1>7 DEF Shaped, Over, Dropping, Checking, Scanning
<1>9. At(v) = At(w) /\ At(w) # "none"
  BY <1>5, <1>7, ConfigFacts DEF At
<1>10. Dropped(w, stored, linked) => Dropped(v, stored, linked)
  BY <1>1, <1>6, <1>7, <1>9 DEF Dropped, Dropping
<1>11. Linking(v, stored, linked)
  BY <1>7 DEF Linking, Checking, Scanning
<1>12. ~Doomed(v, linked) /\ Begun(v) /\ \A a : SeesTo(v, a)
  BY <1>7 DEF Doomed, Begun, SeesTo, Opening, Dropping
<1> QED BY <1>1, <1>4, <1>7, <1>8, <1>10, <1>11, <1>12, ReadKept DEF Over

LEMMA UnlinkKeeps ==
  ASSUME PlansInv, NEW r \in Populaters, Unlink(r)
  PROVE  PlansInv'
<1>1. PICK w \in PlanWorks : w = pop[r] /\ Shaped(w) /\ w.stage = "unlink one"
  BY WorkIs DEF Unlink
<1>2. PICK p \in PresetPlans : p = At(w) /\ p \in w.todo /\ p \notin Listed(w.config)
  BY <1>1, PlanIn DEF Dropping
<1>3. /\ w.config \in PlanConfigs /\ Plan(r) = p /\ Quiet /\ w.addrs \subseteq Kind[w.kind]
      /\ Kind[w.kind] \subseteq Linkable /\ w.kind \in {"evm", "ip"}
  BY <1>1, <1>2, PlanIn DEF Dropping, Plan, At, Unlink, Shaped, PlanWorks
<1>4. CASE w.addrs = {} /\ Becomes(r, AfterUnlink(r)) /\ UNCHANGED plansDb
  <2>1. ASSUME w.kind = "evm" PROVE PlansInv'
    <3>1. PICK v : v = [w EXCEPT !.stage = "unlink", !.kind = "ip"]
      OBVIOUS
    <3>2. Becomes(r, v)
      BY <1>1, <1>4, <2>1, <3>1 DEF AfterUnlink
    <3>3. /\ v \in PlanWorks /\ v.stage = "unlink" /\ v.existing = w.existing /\ v.config = w.config
          /\ v.todo = w.todo /\ v.alone = w.alone /\ v.kind = "ip"
      BY <3>1 DEF PlanWorks, Stages
    <3>4. Shaped(v)
      BY <1>1, <3>3 DEF Shaped, Over, Dropping, Checking, Scanning
    <3>5. At(v) = At(w)
      BY <3>3 DEF At
    <3>6. Dropped(w, stored, linked) => Dropped(v, stored, linked)
      BY <1>1, <1>4, <2>1, <3>3, <3>5, KindIs DEF Dropped, Dropping
    <3>7. Linking(v, stored, linked)
      BY <3>3 DEF Linking, Checking, Scanning
    <3>8. ~Doomed(v, linked) /\ Begun(v) /\ \A a : SeesTo(v, a)
      BY <3>3 DEF Doomed, Begun, SeesTo, Opening, Dropping
    <3> QED BY <1>1, <1>3, <1>4, <3>2, <3>3, <3>4, <3>6, <3>7, <3>8, ReadKept DEF Over
  <2>2. ASSUME w.kind # "evm" PROVE PlansInv'
    <3>1. PICK v : v = [w EXCEPT !.stage = "drop", !.todo = w.todo \ {p}]
      OBVIOUS
    <3>2. Becomes(r, v)
      BY <1>1, <1>3, <1>4, <2>2, <3>1 DEF AfterUnlink
    <3>3. /\ v \in PlanWorks /\ v.stage = "drop" /\ v.existing = w.existing /\ v.config = w.config
          /\ v.todo = w.todo \ {p} /\ v.alone = w.alone
      BY <3>1 DEF PlanWorks, Stages
    <3>4. Shaped(v)
      BY <1>1, <3>3 DEF Shaped, Over, Dropping, Checking, Scanning
    <3>5. ASSUME Dropped(w, stored, linked) PROVE Dropped(v, stored, linked)
      <4>1. p \notin stored /\ \A a \in Linkable : linked[a] # p
        BY <1>1, <1>2, <1>3, <1>4, <2>2, <3>5, KindIs DEF Dropped, Dropping, Linkable
      <4> QED BY <1>1, <3>3, <3>5, <4>1 DEF Dropped, Cleaned, Dropping
    <3>6. Linking(v, stored, linked)
      BY <3>3 DEF Linking, Checking, Scanning
    <3>7. ~Doomed(v, linked) /\ Begun(v) /\ \A a : SeesTo(v, a)
      BY <3>3 DEF Doomed, Begun, SeesTo, Opening, Dropping
    <3> QED BY <1>1, <1>3, <1>4, <3>2, <3>3, <3>4, <3>5, <3>6, <3>7, ReadKept DEF Over
  <2> QED BY <2>1, <2>2
<1>5. ASSUME NEW a \in w.addrs,
             IF linked[a] = p THEN /\ linked' = [linked EXCEPT ![a] = "none"]
                                   /\ Writes(r, [w EXCEPT !.addrs = @ \ {a}])
                                   /\ UNCHANGED stored
             ELSE Becomes(r, [w EXCEPT !.addrs = @ \ {a}]) /\ UNCHANGED plansDb
      PROVE  PlansInv'
  <2>1. PICK v : v = [w EXCEPT !.addrs = @ \ {a}]
    OBVIOUS
  <2>2. /\ v \in PlanWorks /\ v.stage = "unlink one" /\ v.existing = w.existing
        /\ v.config = w.config /\ v.todo = w.todo /\ v.alone = w.alone /\ v.kind = w.kind
        /\ v.addrs = w.addrs \ {a}
    BY <1>1, <2>1 DEF PlanWorks, Stages
  <2>3. Shaped(v)
    BY <1>1, <2>2 DEF Shaped, Over, Dropping, Checking, Scanning
  <2>4. At(v) = p
    BY <1>2, <2>2 DEF At
  <2>5. Linking(v, stored, linked')
    BY <2>2 DEF Linking, Checking, Scanning
  <2>6. ~Doomed(v, linked) /\ Begun(v) /\ \A b : SeesTo(v, b)
    BY <2>2 DEF Doomed, Begun, SeesTo, Opening, Dropping
  <2>7. CASE linked[a] = p
    <3>1. /\ linked' = [linked EXCEPT ![a] = "none"] /\ linked' \in Links /\ stored' = stored
          /\ Writes(r, v) /\ stored' \in SUBSET PresetPlans
      BY <1>5, <2>1, <2>7, WorkIs DEF Links
    <3>2. p # "none" /\ \A b \in Linkable : linked'[b] = IF b = a THEN "none" ELSE linked[b]
      BY <1>3, <3>1, ConfigFacts, WorkIs DEF Links
    <3>3. PlanWrite(v.config, stored, linked, stored', linked')
      BY <3>1, <3>2 DEF PlanWrite
    <3>4. ASSUME Dropped(w, stored, linked) PROVE Dropped(v, stored', linked')
      <4>1. \A q \in PresetPlans, b \in Linkable : linked'[b] = q => linked[b] = q /\ (q = p => b # a)
        BY <1>3, <3>2, ConfigFacts
      <4>2. w.existing \subseteq PresetPlans /\ Evm \subseteq Linkable
        BY DEF PlanWorks, Linkable
      <4>3. Cleaned((w.existing \ Listed(w.config)) \ w.todo, stored, linked')
        BY <1>1, <3>4, <4>1, <4>2 DEF Dropped, Cleaned, Dropping
      <4>4. p \notin stored /\ (w.kind = "ip" => \A b \in Evm : linked'[b] # p)
        BY <1>1, <1>2, <3>4, <4>1, <4>2 DEF Dropped, Dropping
      <4>5. \A b \in Kind[w.kind] : linked'[b] = p => b \in w.addrs \ {a}
        BY <1>1, <1>2, <1>3, <3>4, <4>1 DEF Dropped
      <4>6. w.existing \cap Listed(w.config) \subseteq stored
        BY <1>1, <3>4 DEF Dropped, Dropping
      <4> QED BY <2>2, <2>4, <3>1, <4>3, <4>4, <4>5, <4>6 DEF Dropped
    <3> QED BY <1>1, <1>3, <2>2, <2>3, <2>5, <2>6, <3>1, <3>3, <3>4, WriteKept DEF Over
  <2>8. CASE linked[a] # p
    <3>1. Becomes(r, v) /\ UNCHANGED plansDb
      BY <1>5, <2>1, <2>8
    <3>2. Dropped(w, stored, linked) => Dropped(v, stored, linked)
      BY <1>1, <1>2, <2>2, <2>4, <2>8 DEF Dropped, Dropping
    <3>3. Linking(v, stored, linked)
      BY <2>5, <3>1 DEF plansDb
    <3> QED BY <1>1, <1>3, <2>2, <2>3, <2>6, <3>1, <3>2, <3>3, ReadKept DEF Over
  <2> QED BY <2>7, <2>8
<1> QED BY <1>1, <1>3, <1>4, <1>5 DEF Unlink

LEMMA Associates ==
  ASSUME NEW r \in Populaters, NEW w \in PlanWorks, w = pop[r], Shaped(w), w.config \in PlanConfigs,
         w.stage \notin Over, NEW T \in Tails(Listed(w.config)), NEW st, NEW l
  PROVE  \E v \in PlanWorks :
           /\ v = Associate(r, T) /\ v.config = w.config /\ v.alone = w.alone
           /\ v.stage \notin {"down", "failed"} /\ Begun(v) /\ ~Doomed(v, l) /\ Shaped(v)
           /\ Listed(w.config) \subseteq st /\ (\A p \in Listed(w.config) \ T : Settled(w.config, p, l))
                => Dropped(v, st, l) /\ Linking(v, st, l)
           /\ \A a : OfAny(w, T, a) => SeesTo(v, a)
<1>1. PICK c \in PlanConfigs : c = w.config
  OBVIOUS
<1>2. PICK v : v = Associate(r, T)
  OBVIOUS
<1>3. T \subseteq Listed(c) /\ Listed(c) \subseteq PresetPlans
  BY <1>1, TailsClosed, ConfigFacts
<1>4. CASE T = {}
  <2>1. v = [Down EXCEPT !.stage = "done", !.config = c, !.alone = w.alone]
    BY <1>1, <1>2, <1>4 DEF Associate
  <2>2. /\ v \in PlanWorks /\ v.stage = "done" /\ v.config = c /\ v.alone = w.alone /\ v.todo = {}
    BY <2>1 DEF Down, PlanWorks, Stages
  <2>3. Shaped(v) /\ Begun(v) /\ ~Doomed(v, l)
    BY <2>2 DEF Shaped, Begun, Doomed, Over, Dropping, Checking, Scanning
  <2>4. Dropped(v, st, l)
    BY <2>2 DEF Dropped, Dropping
  <2>5. Listed(c) \subseteq st /\ (\A p \in Listed(c) \ T : Settled(c, p, l)) => Linking(v, st, l)
    BY <1>4, <2>2 DEF Linking, Checking, Scanning
  <2> QED BY <1>1, <1>2, <1>4, <2>2, <2>3, <2>4, <2>5 DEF OfAny
<1>5. CASE T # {}
  <2>1. PICK p \in PresetPlans : p = First(T) /\ p \in T
    BY <1>3, <1>5, FirstIn
  <2>2. PICK S : S = c[p] \cap Evm
    OBVIOUS
  <2>3. v = [w EXCEPT !.stage = "exists", !.todo = T, !.kind = "evm", !.addrs = S]
    BY <1>1, <1>2, <1>5, <2>1, <2>2 DEF Associate
  <2>4. c[p] \subseteq Linkable /\ Linkable = Evm \cup Ip /\ S \subseteq Linkable
    BY <2>1, <2>2, ConfigFacts
  <2>5. /\ v \in PlanWorks /\ v.stage = "exists" /\ v.config = c /\ v.alone = w.alone /\ v.todo = T
        /\ v.kind = "evm" /\ v.addrs = S
    BY <1>1, <1>3, <2>3, <2>4 DEF PlanWorks, Stages
  <2>6. At(v) = p /\ Due(v) = c[p]
    BY <2>1, <2>5 DEF At, Due
  <2>7. Shaped(v)
    BY <1>1, <1>5, <2>2, <2>5, <2>6, KindIs DEF Shaped, Over, Dropping, Checking, Scanning
  <2>8. Begun(v) /\ ~Doomed(v, l) /\ Dropped(v, st, l)
    BY <2>5 DEF Begun, Doomed, Dropped, Dropping
  <2>9. Listed(c) \subseteq st /\ (\A q \in Listed(c) \ T : Settled(c, q, l)) => Linking(v, st, l)
    BY <2>2, <2>4, <2>5, <2>6 DEF Linking, Checking, Scanning
  <2>10. \A a : OfAny(w, T, a) => SeesTo(v, a)
    BY <1>1, <2>5 DEF OfAny, SeesTo, Checking
  <2> QED BY <1>1, <1>2, <2>5, <2>7, <2>8, <2>9, <2>10
<1> QED BY <1>4, <1>5

LEMMA AddPlanKeeps ==
  ASSUME PlansInv, NEW r \in Populaters, AddPlan(r)
  PROVE  PlansInv'
<1>1. PICK w \in PlanWorks : w = pop[r] /\ Shaped(w) /\ w.stage = "add"
  BY WorkIs DEF AddPlan
<1>2. PICK c \in PlanConfigs : c = w.config
  BY <1>1 DEF Shaped, Over
<1>3. Quiet /\ linked' = linked
  BY DEF AddPlan
<1>4. CASE w.todo = {}
  <2>1. Listed(c) \in Tails(Listed(w.config)) /\ w.stage \notin Over
    BY <1>1, <1>2, TailsClosed DEF Over
  <2>2. PICK v \in PlanWorks :
          /\ v = Associate(r, Listed(c)) /\ v.config = w.config /\ v.alone = w.alone
          /\ v.stage \notin {"down", "failed"} /\ Begun(v) /\ ~Doomed(v, linked) /\ Shaped(v)
          /\ Listed(w.config) \subseteq stored
                /\ (\A p \in Listed(w.config) \ Listed(c) : Settled(w.config, p, linked))
               => Dropped(v, stored, linked) /\ Linking(v, stored, linked)
          /\ \A a : OfAny(w, Listed(c), a) => SeesTo(v, a)
    BY <1>1, <1>2, <2>1, Associates
  <2>3. Becomes(r, v) /\ UNCHANGED plansDb
    BY <1>1, <1>2, <1>3, <1>4, <2>2 DEF AddPlan, plansDb
  <2>4. Dropped(w, stored, linked) => Dropped(v, stored, linked) /\ Linking(v, stored, linked)
    BY <1>1, <1>2, <1>4, <2>2 DEF Dropped
  <2>5. ASSUME NEW a \in Linkable PROVE LinkRight(c, linked, a) \/ SeesTo(v, a)
    BY <1>2, <2>2, ConfigFacts DEF LinkRight, OfAny
  <2> QED BY <1>1, <1>2, <1>3, <2>1, <2>2, <2>3, <2>4, <2>5, ReadKept
<1>5. CASE w.todo # {}
  <2>1. PICK p \in w.todo : p = Plan(r)
    BY <1>1, <1>5, FirstIn DEF Plan
  <2>2. PICK v : v = [w EXCEPT !.todo = w.todo \ {p}]
    OBVIOUS
  <2>3. Writes(r, v) /\ stored' = stored \cup {p} /\ p \in Listed(c) /\ p \in PresetPlans
    BY <1>1, <1>2, <1>5, <2>1, <2>2, ConfigFacts DEF AddPlan, Shaped
  <2>4. /\ v \in PlanWorks /\ v.stage = "add" /\ v.existing = w.existing /\ v.config = c
        /\ v.todo = w.todo \ {p} /\ v.alone = w.alone
    BY <1>1, <1>2, <2>2 DEF PlanWorks
  <2>5. Shaped(v)
    BY <1>1, <1>2, <2>4 DEF Shaped, Over, Dropping, Checking, Scanning
  <2>6. PlanWrite(c, stored, linked, stored', linked')
    BY <1>3, <2>3 DEF PlanWrite
  <2>7. Dropped(w, stored, linked) => Dropped(v, stored', linked')
    BY <1>1, <1>2, <1>3, <2>3, <2>4 DEF Dropped, Cleaned, Dropping
  <2>8. Linking(v, stored', linked')
    BY <2>4 DEF Linking, Checking, Scanning
  <2>9. Begun(v) /\ \A a : SeesTo(v, a)
    BY <2>4 DEF Begun, SeesTo, Opening, Dropping
  <2>10. stored' \in SUBSET PresetPlans /\ linked' \in Links
    BY <1>3, <2>3, WorkIs
  <2> QED BY <1>1, <1>2, <1>3, <2>3, <2>4, <2>5, <2>6, <2>7, <2>8, <2>9, <2>10, WriteKept DEF Over
<1> QED BY <1>4, <1>5

(* The next address of a plan, when the link is there or was not.          *)
LEMMA NextIs ==
  ASSUME NEW r \in Populaters, NEW w \in PlanWorks, w = pop[r], Shaped(w),
         w.stage \in Checking, w.addrs # {}
  PROVE  \E v \in PlanWorks, a \in Linkable :
           /\ v = NextAddress(r) /\ a = First(w.addrs) /\ a \in w.addrs /\ a \in Due(w)
           /\ v.stage = "exists" /\ v.config = w.config /\ v.alone = w.alone /\ v.todo = w.todo
           /\ v.kind = w.kind /\ v.addrs = w.addrs \ {a} /\ Shaped(v) /\ Begun(v)
           /\ \A l : ~Doomed(v, l)
           /\ \A st, l : Linking(w, st, l) /\ l[a] \in {At(w), "none"} =>
                           Dropped(v, st, l) /\ Linking(v, st, l)
           /\ \A b : SeesTo(w, b) => SeesTo(v, b)
<1>1. PICK a \in w.addrs : a = First(w.addrs)
  BY FirstIn
<1>2. w.addrs \subseteq Due(w) \cap Kind[w.kind] /\ a \in Linkable
  BY DEF Shaped, PlanWorks
<1>3. PICK v : v = [w EXCEPT !.stage = "exists", !.addrs = @ \ {a}]
  OBVIOUS
<1>4. v = NextAddress(r)
  BY <1>1, <1>3 DEF NextAddress
<1>5. /\ v \in PlanWorks /\ v.stage = "exists" /\ v.config = w.config /\ v.alone = w.alone
      /\ v.todo = w.todo /\ v.kind = w.kind /\ v.addrs = w.addrs \ {a}
  BY <1>3 DEF PlanWorks, Stages
<1>6. At(v) = At(w) /\ Due(v) = Due(w)
  BY <1>5 DEF At, Due
<1>7. Shaped(v)
  BY <1>2, <1>5, <1>6 DEF Shaped, Over, Dropping, Checking, Scanning
<1>8. Begun(v) /\ \A l : ~Doomed(v, l)
  BY <1>5 DEF Begun, Doomed
<1>9. ASSUME NEW st, NEW l, Linking(w, st, l), l[a] \in {At(w), "none"}
      PROVE  Dropped(v, st, l) /\ Linking(v, st, l)
  BY <1>5, <1>6, <1>9 DEF Dropped, Linking, Dropping, Checking, Scanning
<1>10. \A b : SeesTo(w, b) => SeesTo(v, b)
  BY <1>5 DEF SeesTo, OfAny, Opening, Dropping, Checking, Scanning
<1> QED BY <1>1, <1>2, <1>4, <1>5, <1>7, <1>8, <1>9, <1>10

LEMMA CheckLinkKeeps ==
  ASSUME PlansInv, NEW r \in Populaters, CheckLink(r)
  PROVE  PlansInv'
<1>1. PICK w \in PlanWorks : w = pop[r] /\ Shaped(w) /\ w.stage = "exists"
  BY WorkIs DEF CheckLink
<1>2. PICK c \in PlanConfigs : c = w.config
  BY <1>1 DEF Shaped, Over
<1>3. Quiet /\ UNCHANGED plansDb
  BY DEF CheckLink
<1>4. PICK p \in PresetPlans : p = At(w) /\ p \in w.todo /\ p = Plan(r)
  BY <1>1, PlanIn DEF Checking, At, Plan
<1>5. Due(w) = c[p] /\ c[p] \subseteq Linkable /\ Linkable = Evm \cup Ip /\ w.kind \in {"evm", "ip"}
  BY <1>2, <1>4, ConfigFacts DEF Due, PlanWorks
<1>6. CASE w.addrs # {} /\ linked[First(w.addrs)] = "none"
  <2>1. Becomes(r, NextAddress(r))
    BY <1>1, <1>6 DEF CheckLink
  <2> QED BY <1>1, <1>3, <1>6, <2>1, NextIs, ReadKept DEF Checking, Over
<1>7. CASE w.addrs # {} /\ linked[First(w.addrs)] # "none"
  <2>1. PICK v : v = [w EXCEPT !.stage = "find"]
    OBVIOUS
  <2>2. Becomes(r, v)
    BY <1>1, <1>7, <2>1 DEF CheckLink
  <2>3. /\ v \in PlanWorks /\ v.stage = "find" /\ v.config = w.config /\ v.alone = w.alone
        /\ v.todo = w.todo /\ v.kind = w.kind /\ v.addrs = w.addrs
    BY <2>1 DEF PlanWorks, Stages
  <2>4. At(v) = At(w) /\ Due(v) = Due(w)
    BY <2>3 DEF At, Due
  <2>5. Shaped(v)
    BY <1>1, <1>7, <2>3, <2>4 DEF Shaped, Over, Dropping, Checking, Scanning
  <2>6. Begun(v) /\ ~Doomed(v, linked)
    BY <1>7, <2>3 DEF Begun, Doomed
  <2>7. Linking(w, stored, linked) => Dropped(v, stored, linked) /\ Linking(v, stored, linked)
    BY <1>1, <2>3, <2>4 DEF Dropped, Linking, Dropping, Checking, Scanning
  <2>8. \A b : SeesTo(w, b) => SeesTo(v, b)
    BY <1>1, <2>3 DEF SeesTo, OfAny, Opening, Dropping, Checking, Scanning
  <2> QED BY <1>1, <1>3, <2>2, <2>3, <2>5, <2>6, <2>7, <2>8, ReadKept DEF Over
<1>8. CASE w.addrs = {} /\ w.kind = "evm"
  <2>1. PICK S : S = c[p] \cap Ip
    OBVIOUS
  <2>2. PICK v : v = [w EXCEPT !.kind = "ip", !.addrs = S]
    OBVIOUS
  <2>3. Becomes(r, v)
    BY <1>1, <1>2, <1>4, <1>8, <2>1, <2>2 DEF CheckLink
  <2>4. /\ v \in PlanWorks /\ v.stage = "exists" /\ v.config = w.config /\ v.alone = w.alone
        /\ v.todo = w.todo /\ v.kind = "ip" /\ v.addrs = S
    BY <1>1, <1>5, <2>1, <2>2 DEF PlanWorks
  <2>5. At(v) = At(w) /\ Due(v) = Due(w)
    BY <2>4 DEF At, Due
  <2>6. Shaped(v)
    BY <1>1, <1>5, <2>1, <2>4, <2>5, KindIs DEF Shaped, Over, Dropping, Checking, Scanning
  <2>7. Begun(v) /\ ~Doomed(v, linked)
    BY <2>4 DEF Begun, Doomed
  <2>8. Linking(w, stored, linked) => Dropped(v, stored, linked) /\ Linking(v, stored, linked)
    BY <1>1, <1>5, <1>8, <2>1, <2>4, <2>5 DEF Dropped, Linking, Dropping, Checking, Scanning
  <2>9. \A b : SeesTo(w, b) => SeesTo(v, b)
    BY <1>1, <2>4 DEF SeesTo, OfAny, Opening, Dropping, Checking, Scanning
  <2> QED BY <1>1, <1>3, <2>3, <2>4, <2>6, <2>7, <2>8, <2>9, ReadKept DEF Over
<1>9. CASE w.addrs = {} /\ w.kind = "ip"
  <2>1. PICK v : v = [w EXCEPT !.stage = "scan", !.kind = "evm"]
    OBVIOUS
  <2>2. Becomes(r, v)
    BY <1>1, <1>9, <2>1 DEF CheckLink
  <2>3. /\ v \in PlanWorks /\ v.stage = "scan" /\ v.config = w.config /\ v.alone = w.alone
        /\ v.todo = w.todo /\ v.kind = "evm" /\ v.addrs = w.addrs
    BY <1>1, <2>1 DEF PlanWorks, Stages
  <2>4. At(v) = At(w) /\ Due(v) = Due(w)
    BY <2>3 DEF At, Due
  <2>5. Shaped(v)
    BY <1>1, <2>3, <2>4 DEF Shaped, Over, Dropping, Checking, Scanning
  <2>6. Begun(v) /\ ~Doomed(v, linked)
    BY <2>3 DEF Begun, Doomed
  <2>7. Linking(w, stored, linked) => Dropped(v, stored, linked) /\ Linking(v, stored, linked)
    BY <1>1, <1>9, <2>3, <2>4 DEF Dropped, Linking, Dropping, Checking, Scanning
  <2>8. ASSUME NEW b, SeesTo(w, b) PROVE SeesTo(v, b)
    <3>1. PICK q \in w.todo : b \in c[q]
      BY <1>1, <1>2, <2>8 DEF SeesTo, OfAny, Opening, Dropping, Checking, Scanning
    <3>2. q \in Rest(w.todo) \/ q = p
      BY <1>4 DEF Rest, At
    <3> QED BY <1>2, <1>5, <2>3, <2>4, <3>1, <3>2, KindIs DEF SeesTo, OfAny, Scanning
  <2> QED BY <1>1, <1>3, <2>2, <2>3, <2>5, <2>6, <2>7, <2>8, ReadKept DEF Over
<1> QED BY <1>5, <1>6, <1>7, <1>8, <1>9

(* A relay that finds a link gone that was there before was overtaken by   *)
(* the one that took it away, which has as much left to do: the addresses  *)
(* of S and of what comes after.                                           *)
LEMMA Overtaken ==
  ASSUME PlansInv, calm, NEW r \in Populaters, pop[r].stage \in Checking \cup Scanning,
         NEW a \in Linkable, \A b \in Linkable : b # a => linked'[b] = linked[b],
         NEW q \in PresetPlans, a \in pop[r].config[q], q \in pop[r].todo,
         NEW s \in Populaters, Doomed(pop[s], linked'), ~Doomed(pop[s], linked)
  PROVE  /\ pop[s].stage = "find" /\ pop[s].config = pop[r].config
         /\ q = At(pop[r]) => pop[s].todo = pop[r].todo
         /\ q # At(pop[r]) => pop[s].todo \subseteq Rest(pop[r].todo)
<1>1. PICK w \in PlanWorks : w = pop[r] /\ Shaped(w) /\ w.stage \in Checking \cup Scanning
  BY WorkIs
<1>2. PICK x \in PlanWorks : x = pop[s] /\ Shaped(x) /\ x.stage = "find"
  BY WorkIs DEF Doomed
<1>3. x.config = config /\ w.config = config /\ config \in PlanConfigs
  BY <1>1, <1>2 DEF PlansInv, SameConfig, SpendingPlansTypeOK, Over, Checking, Scanning
<1>4. x.addrs # {} /\ x.addrs \subseteq Due(x) /\ First(x.addrs) \in x.addrs
  BY <1>2, FirstIn DEF Shaped, Checking
<1>5. First(x.addrs) = a
  BY <1>2, <1>4 DEF Doomed, PlanWorks
<1>6. /\ At(x) \in PresetPlans /\ At(w) \in PresetPlans /\ x.todo # {} /\ w.todo # {}
      /\ x.todo \in Tails(Listed(config)) /\ w.todo \in Tails(Listed(config))
  BY <1>1, <1>2, <1>3, PlanIn, ZenonT(40) DEF Shaped, Checking
<1>7. At(x) = q
  BY <1>1, <1>3, <1>4, <1>5, <1>6, ConfigFacts DEF Due
<1>8. /\ First(x.todo) = First(w.todo) => x.todo = w.todo
      /\ First(x.todo) \in Rest(w.todo) => x.todo \subseteq Rest(w.todo)
  BY <1>6, TailsAhead
<1>9. q # At(w) => q \in Rest(w.todo)
  BY <1>1 DEF Rest, At
<1> QED BY <1>1, <1>2, <1>3, <1>7, <1>8, <1>9 DEF At

LEMMA FindLinkKeeps ==
  ASSUME PlansInv, NEW r \in Populaters, FindLink(r)
  PROVE  PlansInv'
<1>1. PICK w \in PlanWorks : w = pop[r] /\ Shaped(w) /\ w.stage = "find" /\ w.addrs # {}
  BY WorkIs DEF FindLink, Shaped
<1>2. Quiet /\ UNCHANGED plansDb /\ First(w.addrs) = First(pop[r].addrs)
  BY <1>1 DEF FindLink
<1>3. CASE linked[First(w.addrs)] = "none"
  <2>1. Fail(r) /\ Doomed(w, linked)
    BY <1>1, <1>3 DEF FindLink, Doomed
  <2> QED BY <1>1, <1>2, <2>1, FailKept
<1>4. CASE linked[First(w.addrs)] # "none" /\ LinkIsRight(r)
  <2>1. Becomes(r, NextAddress(r))
    BY <1>1, <1>4 DEF FindLink
  <2>2. linked[First(w.addrs)] = At(w)
    BY <1>1, <1>4 DEF LinkIsRight, Plan, At
  <2> QED BY <1>1, <1>2, <2>1, <2>2, NextIs, ReadKept DEF Checking, Over
<1>5. CASE linked[First(w.addrs)] # "none" /\ ~LinkIsRight(r)
  <2>1. PICK v : v = [w EXCEPT !.stage = "remove"]
    OBVIOUS
  <2>2. Becomes(r, v)
    BY <1>1, <1>5, <2>1 DEF FindLink
  <2>3. /\ v \in PlanWorks /\ v.stage = "remove" /\ v.config = w.config /\ v.alone = w.alone
        /\ v.todo = w.todo /\ v.kind = w.kind /\ v.addrs = w.addrs
    BY <2>1 DEF PlanWorks, Stages
  <2>4. At(v) = At(w) /\ Due(v) = Due(w)
    BY <2>3 DEF At, Due
  <2>5. Shaped(v)
    BY <1>1, <2>3, <2>4 DEF Shaped, Over, Dropping, Checking, Scanning
  <2>6. Begun(v) /\ ~Doomed(v, linked)
    BY <2>3 DEF Begun, Doomed
  <2>7. Linking(w, stored, linked) => Dropped(v, stored, linked) /\ Linking(v, stored, linked)
    BY <1>1, <2>3, <2>4 DEF Dropped, Linking, Dropping, Checking, Scanning
  <2>8. \A b : SeesTo(w, b) => SeesTo(v, b)
    BY <1>1, <2>3 DEF SeesTo, OfAny, Opening, Dropping, Checking, Scanning
  <2> QED BY <1>1, <1>2, <2>2, <2>3, <2>5, <2>6, <2>7, <2>8, ReadKept DEF Over
<1> QED BY <1>3, <1>4, <1>5

LEMMA RemoveLinkKeeps ==
  ASSUME PlansInv, NEW r \in Populaters, RemoveLink(r)
  PROVE  PlansInv'
<1>1. PICK w \in PlanWorks : w = pop[r] /\ Shaped(w) /\ w.stage = "remove" /\ w.addrs # {}
  BY WorkIs DEF RemoveLink, Shaped
<1>2. PICK v \in PlanWorks, a \in Linkable :
        /\ v = NextAddress(r) /\ a = First(w.addrs) /\ a \in w.addrs /\ a \in Due(w)
        /\ v.stage = "exists" /\ v.config = w.config /\ v.alone = w.alone /\ v.todo = w.todo
        /\ v.kind = w.kind /\ v.addrs = w.addrs \ {a} /\ Shaped(v) /\ Begun(v)
        /\ \A l : ~Doomed(v, l)
        /\ \A st, l : Linking(w, st, l) /\ l[a] \in {At(w), "none"} =>
                        Dropped(v, st, l) /\ Linking(v, st, l)
        /\ \A b : SeesTo(w, b) => SeesTo(v, b)
  BY <1>1, NextIs DEF Checking
<1>3. /\ Writes(r, v) /\ Quiet /\ stored' = stored /\ linked' = [linked EXCEPT ![a] = "none"]
      /\ linked' \in Links /\ stored' \in SUBSET PresetPlans
  BY <1>1, <1>2, WorkIs DEF RemoveLink, Links
<1>4. /\ linked'[a] = "none" /\ \A b \in Linkable : b # a => linked'[b] = linked[b]
      /\ w.config \in PlanConfigs
  BY <1>1, <1>2, <1>3, WorkIs DEF Links, Over
<1>5. PlanWrite(w.config, stored, linked, stored', linked')
  BY <1>3, <1>4 DEF PlanWrite
<1>6. Linking(w, stored, linked) => Dropped(v, stored', linked') /\ Linking(v, stored', linked')
  BY <1>1, <1>2, <1>4, <1>5, LinkingStable
<1>7. /\ At(w) \in PresetPlans /\ At(w) \in w.todo /\ a \in w.config[At(w)]
  BY <1>1, <1>2, PlanIn DEF Checking, Due
<1>8. ASSUME NEW b \in Linkable, LinkRight(w.config, linked, b) \/ SeesTo(w, b)
      PROVE  LinkRight(w.config, linked', b) \/ SeesTo(v, b)
  <2>1. CASE b = a
    BY <1>2, <1>7, <2>1 DEF SeesTo, OfAny, Checking
  <2>2. CASE b # a
    BY <1>2, <1>4, <1>8, <2>2 DEF LinkRight
  <2> QED BY <2>1, <2>2
<1>9. ASSUME calm, NEW s \in Populaters \ {r}, Doomed(pop[s], linked'), ~Doomed(pop[s], linked),
             NEW b \in Linkable, SeesTo(pop[s], b)
      PROVE  SeesTo(v, b)
  <2>1. pop[s].stage = "find" /\ pop[s].config = w.config /\ pop[s].todo = w.todo
    BY <1>1, <1>4, <1>7, <1>9, Overtaken DEF Checking
  <2> QED BY <1>2, <1>9, <2>1 DEF SeesTo, OfAny, Opening, Dropping, Checking, Scanning
<1> QED BY <1>1, <1>2, <1>3, <1>5, <1>6, <1>8, <1>9, WriteKept DEF Over

LEMMA ScanKeysKeeps ==
  ASSUME PlansInv, NEW r \in Populaters, ScanKeys(r)
  PROVE  PlansInv'
<1>1. PICK w \in PlanWorks : w = pop[r] /\ Shaped(w) /\ w.stage = "scan"
  BY WorkIs DEF ScanKeys
<1>2. PICK keys : keys = LinksOf(w.kind)
  OBVIOUS
<1>3. PICK v : v = [w EXCEPT !.stage = "scan one", !.addrs = keys, !.found = {}]
  OBVIOUS
<1>4. Becomes(r, v) /\ Quiet /\ UNCHANGED plansDb
  BY <1>1, <1>2, <1>3 DEF ScanKeys
<1>5. At(w) \in PresetPlans /\ At(w) # "none" /\ Kind[w.kind] \subseteq Linkable
  <2>1. At(w) \in PresetPlans /\ Kind[w.kind] \subseteq Linkable
    BY <1>1, PlanIn DEF Scanning
  <2> QED BY <2>1, PresetConstants
<1>6. keys = {a \in Kind[w.kind] : linked[a] # "none"}
  BY <1>2 DEF LinksOf
<1>7. /\ v \in PlanWorks /\ v.stage = "scan one" /\ v.config = w.config /\ v.alone = w.alone
      /\ v.todo = w.todo /\ v.kind = w.kind /\ v.addrs = keys /\ v.found = {}
  BY <1>3, <1>5, <1>6 DEF PlanWorks, Stages
<1>8. At(v) = At(w) /\ Due(v) = Due(w)
  BY <1>7 DEF At, Due
<1>9. Shaped(v)
  BY <1>1, <1>6, <1>7, <1>8 DEF Shaped, Over, Dropping, Checking, Scanning
<1>10. Begun(v) /\ ~Doomed(v, linked)
  BY <1>7 DEF Begun, Doomed
<1>11. Linking(w, stored, linked) => Dropped(v, stored, linked) /\ Linking(v, stored, linked)
  BY <1>1, <1>5, <1>6, <1>7, <1>8 DEF Dropped, Linking, Dropping, Checking, Scanning
<1>12. \A b : SeesTo(w, b) => SeesTo(v, b)
  BY <1>1, <1>7, <1>8 DEF SeesTo, OfAny, Opening, Dropping, Checking, Scanning
<1> QED BY <1>1, <1>4, <1>7, <1>9, <1>10, <1>11, <1>12, ReadKept DEF Over

LEMMA ScanOneKeeps ==
  ASSUME PlansInv, NEW r \in Populaters, ScanOne(r)
  PROVE  PlansInv'
<1>1. PICK w \in PlanWorks : w = pop[r] /\ Shaped(w) /\ w.stage = "scan one"
  BY WorkIs DEF ScanOne
<1>2. PICK c \in PlanConfigs : c = w.config
  BY <1>1 DEF Shaped, Over
<1>3. PICK p \in PresetPlans : p = At(w) /\ p \in w.todo /\ p = Plan(r) /\ p \in Listed(c)
  BY <1>1, <1>2, PlanIn DEF Scanning, At, Plan
<1>4. /\ Due(w) = c[p] /\ Quiet /\ UNCHANGED plansDb /\ Kind[w.kind] \subseteq Linkable
      /\ w.addrs \subseteq Kind[w.kind] /\ w.found \subseteq Kind[w.kind]
  BY <1>1, <1>2, <1>3, PlanIn DEF Due, ScanOne, Scanning, Shaped
<1>5. CASE w.addrs = {} /\ Becomes(r, [pop[r] EXCEPT !.stage = "adjust", !.addrs = ToChange(r)])
  <2>1. PICK S : S = ToChange(r)
    OBVIOUS
  <2>2. S = (w.found \ (c[p] \cap Kind[w.kind])) \cup ((c[p] \cap Kind[w.kind]) \ w.found)
    BY <1>1, <1>2, <1>3, <2>1 DEF ToChange, Wanted
  <2>3. PICK v : v = [w EXCEPT !.stage = "adjust", !.addrs = S]
    OBVIOUS
  <2>4. Becomes(r, v) /\ S \subseteq Kind[w.kind]
    BY <1>1, <1>4, <1>5, <2>1, <2>2, <2>3
  <2>5. /\ v \in PlanWorks /\ v.stage = "adjust" /\ v.config = c /\ v.alone = w.alone
        /\ v.todo = w.todo /\ v.kind = w.kind /\ v.addrs = S
    BY <1>2, <1>4, <2>3, <2>4 DEF PlanWorks, Stages
  <2>6. At(v) = p /\ Due(v) = c[p]
    BY <1>3, <2>5 DEF At, Due
  <2>7. Shaped(v)
    BY <1>1, <1>2, <2>4, <2>5 DEF Shaped, Over, Dropping, Checking, Scanning
  <2>8. Begun(v) /\ ~Doomed(v, linked)
    BY <2>5 DEF Begun, Doomed
  <2>9. ASSUME Linking(w, stored, linked) PROVE Dropped(v, stored, linked) /\ Linking(v, stored, linked)
    <3>1. /\ Listed(c) \subseteq stored /\ \A q \in Listed(c) \ w.todo : Settled(c, q, linked)
          /\ \A b \in c[p] : linked[b] \in {p, "none"}
          /\ w.kind = "ip" => \A b \in Evm \ c[p] : linked[b] # p
      BY <1>1, <1>2, <1>3, <1>4, <2>9 DEF Linking, Scanning
    <3>2. /\ \A b \in Kind[w.kind] \ c[p] : linked[b] = p => b \in w.found
          /\ \A b \in w.found \ c[p], q \in PresetPlans : b \in c[q] => q \in Rest(w.todo)
      BY <1>1, <1>2, <1>3, <1>4, <1>5, <2>9 DEF Linking
    <3>3. \A b \in Kind[w.kind] \ c[p] : linked[b] = p => b \in S
      BY <2>2, <3>2
    <3>4. \A b \in S \ c[p], q \in PresetPlans : b \in c[q] => q \in Rest(w.todo)
      BY <2>2, <3>2
    <3>5. Dropped(v, stored, linked)
      BY <2>5 DEF Dropped, Dropping
    <3> QED BY <2>5, <2>6, <3>1, <3>3, <3>4, <3>5 DEF Linking, Checking, Scanning
  <2>10. \A b : SeesTo(w, b) => SeesTo(v, b)
    BY <1>1, <1>2, <1>4, <2>2, <2>5, <2>6 DEF SeesTo, OfAny, Opening, Dropping, Checking, Scanning
  <2> QED BY <1>1, <1>2, <1>4, <2>4, <2>5, <2>7, <2>8, <2>9, <2>10, ReadKept DEF Over
<1>6. ASSUME NEW a \in w.addrs,
             Becomes(r, [pop[r] EXCEPT !.addrs = @ \ {a},
                                       !.found = IF linked[a] = Plan(r) THEN @ \cup {a} ELSE @])
      PROVE  PlansInv'
  <2>1. PICK S : S = IF linked[a] = p THEN w.found \cup {a} ELSE w.found
    OBVIOUS
  <2>2. PICK v : v = [w EXCEPT !.addrs = @ \ {a}, !.found = S]
    OBVIOUS
  <2>3. Becomes(r, v)
    BY <1>1, <1>3, <1>6, <2>1, <2>2
  <2>4. S \subseteq Kind[w.kind] /\ a \in Kind[w.kind] /\ a \in Linkable
    BY <1>4, <1>6, <2>1
  <2>5. /\ v \in PlanWorks /\ v.stage = "scan one" /\ v.config = c /\ v.alone = w.alone
        /\ v.todo = w.todo /\ v.kind = w.kind /\ v.addrs = w.addrs \ {a} /\ v.found = S
    BY <1>1, <1>2, <1>4, <2>2, <2>4 DEF PlanWorks
  <2>6. At(v) = p /\ Due(v) = c[p]
    BY <1>3, <2>5 DEF At, Due
  <2>7. Shaped(v)
    BY <1>1, <1>2, <2>4, <2>5 DEF Shaped, Over, Dropping, Checking, Scanning
  <2>8. Begun(v) /\ ~Doomed(v, linked)
    BY <2>5 DEF Begun, Doomed
  <2>9. ASSUME Linking(w, stored, linked) PROVE Linking(v, stored, linked)
    <3>1. /\ Listed(c) \subseteq stored /\ \A q \in Listed(c) \ w.todo : Settled(c, q, linked)
          /\ \A b \in c[p] : linked[b] \in {p, "none"}
          /\ w.kind = "ip" => \A b \in Evm \ c[p] : linked[b] # p
      BY <1>1, <1>2, <1>3, <1>4, <2>9 DEF Linking, Scanning
    <3>2. \A b \in Kind[w.kind] \ c[p] : linked[b] = p => b \in (w.addrs \ {a}) \cup S
      BY <1>1, <1>2, <1>3, <1>4, <2>1, <2>9 DEF Linking
    <3>3. ASSUME NEW b \in S \ c[p], NEW q \in PresetPlans, b \in c[q] PROVE q \in Rest(w.todo)
      <4>1. CASE b \in w.found
        BY <1>1, <1>2, <1>4, <2>9, <3>3, <4>1 DEF Linking
      <4>2. CASE b \notin w.found
        <5>1. linked[b] = p /\ b \in Linkable /\ p # "none" /\ q # p /\ q \in Listed(c)
          BY <2>1, <2>4, <3>3, <4>2, ConfigFacts
        <5>2. q \in w.todo
          BY <3>1, <3>3, <5>1 DEF Settled
        <5> QED BY <1>3, <5>1, <5>2 DEF Rest, At
      <4> QED BY <4>1, <4>2
    <3> QED BY <2>5, <2>6, <3>1, <3>2, <3>3 DEF Linking, Checking, Scanning
  <2>10. Dropped(v, stored, linked)
    BY <2>5 DEF Dropped, Dropping
  <2>11. ASSUME NEW b \in Linkable, SeesTo(w, b) PROVE LinkRight(c, linked, b) \/ SeesTo(v, b)
    <3>1. CASE b \in c[p] /\ b = a /\ linked[a] = p
      BY <3>1, ConfigFacts DEF LinkRight
    <3>2. CASE ~(b \in c[p] /\ b = a /\ linked[a] = p)
      BY <1>1, <1>2, <1>4, <2>1, <2>5, <2>6, <2>11, <3>2, ZenonT(40)
      DEF SeesTo, OfAny, Opening, Dropping, Checking, Scanning
    <3> QED BY <3>1, <3>2
  <2> QED BY <1>1, <1>2, <1>4, <2>3, <2>5, <2>7, <2>8, <2>9, <2>10, <2>11, ReadKept DEF Over
<1> QED BY <1>1, <1>5, <1>6 DEF ScanOne

(* The addresses of one kind are as they should be.                        *)
LEMMA AdjustedKeeps ==
  ASSUME PlansInv, NEW r \in Populaters, Adjust(r), pop[r].addrs = {}, Becomes(r, AfterAdjust(r)),
         linked' = linked
  PROVE  PlansInv'
<1>1. PICK w \in PlanWorks : w = pop[r] /\ Shaped(w) /\ w.stage = "adjust" /\ w.addrs = {}
  BY WorkIs DEF Adjust
<1>2. PICK c \in PlanConfigs : c = w.config
  BY <1>1 DEF Shaped, Over
<1>3. PICK p \in PresetPlans : p = At(w) /\ p \in w.todo /\ p = Plan(r) /\ p \in Listed(c)
  BY <1>1, <1>2, PlanIn DEF Scanning, At, Plan
<1>4. /\ Due(w) = c[p] /\ Quiet /\ UNCHANGED plansDb /\ c[p] \subseteq Linkable
      /\ Linkable = Evm \cup Ip /\ Evm \cap Ip = {} /\ w.kind \in {"evm", "ip"}
  BY <1>1, <1>2, <1>3, ConfigFacts DEF Due, Adjust, plansDb, PlanWorks
<1>5. CASE w.kind = "evm"
  <2>1. PICK v : v = [w EXCEPT !.stage = "scan", !.kind = "ip", !.found = {}]
    OBVIOUS
  <2>2. Becomes(r, v)
    BY <1>1, <1>5, <2>1 DEF AfterAdjust
  <2>3. /\ v \in PlanWorks /\ v.stage = "scan" /\ v.config = c /\ v.alone = w.alone
        /\ v.todo = w.todo /\ v.kind = "ip" /\ v.addrs = {} /\ v.found = {}
    BY <1>1, <1>2, <2>1 DEF PlanWorks, Stages
  <2>4. At(v) = p /\ Due(v) = c[p]
    BY <1>3, <2>3 DEF At, Due
  <2>5. Shaped(v)
    BY <1>1, <1>2, <2>3 DEF Shaped, Over, Dropping, Checking, Scanning
  <2>6. Begun(v) /\ ~Doomed(v, linked)
    BY <2>3 DEF Begun, Doomed
  <2>7. Linking(w, stored, linked) => Dropped(v, stored, linked) /\ Linking(v, stored, linked)
    BY <1>1, <1>2, <1>3, <1>4, <1>5, <2>3, <2>4, KindIs
    DEF Dropped, Linking, Dropping, Checking, Scanning
  <2>8. \A b : SeesTo(w, b) => SeesTo(v, b)
    BY <1>1, <1>2, <1>4, <1>5, <2>3, <2>4, KindIs
    DEF SeesTo, OfAny, Opening, Dropping, Checking, Scanning
  <2> QED BY <1>1, <1>2, <1>4, <2>2, <2>3, <2>5, <2>6, <2>7, <2>8, ReadKept DEF Over
<1>6. CASE w.kind = "ip"
  <2>1. PICK T : T = Rest(w.todo)
    OBVIOUS
  <2>2. T = w.todo \ {p} /\ T \in Tails(Listed(w.config)) /\ w.stage \notin Over
    <3>1. w.todo \in Tails(Listed(w.config)) /\ w.todo # {}
      BY <1>1 DEF Shaped, Scanning
    <3>2. T \in Tails(Listed(w.config))
      BY <2>1, <3>1, TailsClosed
    <3>3. T = w.todo \ {p}
      BY <1>3, <2>1 DEF Rest, At
    <3> QED BY <1>1, <3>2, <3>3 DEF Over
  <2>3. PICK v \in PlanWorks :
          /\ v = Associate(r, T) /\ v.config = w.config /\ v.alone = w.alone
          /\ v.stage \notin {"down", "failed"} /\ Begun(v) /\ ~Doomed(v, linked) /\ Shaped(v)
          /\ Listed(w.config) \subseteq stored
                /\ (\A q \in Listed(w.config) \ T : Settled(w.config, q, linked))
               => Dropped(v, stored, linked) /\ Linking(v, stored, linked)
          /\ \A a : OfAny(w, T, a) => SeesTo(v, a)
    BY <1>1, <1>2, <2>2, Associates
  <2>4. Becomes(r, v)
    BY <1>1, <1>3, <1>6, <2>2, <2>3 DEF AfterAdjust
  <2>5. ASSUME Linking(w, stored, linked) PROVE Dropped(v, stored, linked) /\ Linking(v, stored, linked)
    <3>1. Listed(c) \subseteq stored /\ \A q \in Listed(c) \ w.todo : Settled(c, q, linked)
      BY <1>1, <1>2, <2>5 DEF Linking, Scanning
    <3>2. Settled(c, p, linked)
      BY <1>1, <1>2, <1>3, <1>4, <1>6, <2>5, KindIs DEF Linking, Scanning, Settled
    <3> QED BY <1>2, <2>2, <2>3, <3>1, <3>2
  <2>6. \A b : SeesTo(w, b) => SeesTo(v, b)
    BY <1>1, <1>4, <1>6, <2>1, <2>3 DEF SeesTo, OfAny, Opening, Dropping, Checking, Scanning
  <2> QED BY <1>1, <1>4, <2>2, <2>3, <2>4, <2>5, <2>6, ReadKept
<1> QED BY <1>4, <1>5, <1>6

LEMMA AdjustKeeps ==
  ASSUME PlansInv, NEW r \in Populaters, Adjust(r)
  PROVE  PlansInv'
<1>1. PICK w \in PlanWorks : w = pop[r] /\ Shaped(w) /\ w.stage = "adjust"
  BY WorkIs DEF Adjust
<1>2. PICK c \in PlanConfigs : c = w.config
  BY <1>1 DEF Shaped, Over
<1>3. PICK p \in PresetPlans : p = At(w) /\ p \in w.todo /\ p = Plan(r) /\ p \in Listed(c)
  BY <1>1, <1>2, PlanIn DEF Scanning, At, Plan
<1>4. /\ Due(w) = c[p] /\ Quiet /\ stored' = stored /\ Kind[w.kind] \subseteq Linkable
      /\ w.addrs \subseteq Kind[w.kind] /\ p # "none"
  <2>1. Kind[w.kind] \subseteq Linkable
    BY <1>1, PlanIn DEF Scanning
  <2>2. w.addrs \subseteq Kind[w.kind]
    BY <1>1 DEF Shaped
  <2>3. p # "none"
    BY PresetConstants
  <2> QED BY <1>2, <1>3, <2>1, <2>2, <2>3 DEF Due, Adjust
<1>5. CASE w.addrs = {} /\ Becomes(r, AfterAdjust(r)) /\ linked' = linked
  BY <1>1, <1>5, AdjustedKeeps
<1>6. ASSUME NEW a \in w.addrs,
             linked' = [linked EXCEPT ![a] = IF a \in Wanted(r) THEN Plan(r) ELSE "none"],
             Writes(r, [pop[r] EXCEPT !.addrs = @ \ {a}])
      PROVE  PlansInv'
  <2>1. PICK v : v = [w EXCEPT !.addrs = @ \ {a}]
    OBVIOUS
  <2>2. /\ v \in PlanWorks /\ v.stage = "adjust" /\ v.config = c /\ v.alone = w.alone
        /\ v.todo = w.todo /\ v.kind = w.kind /\ v.addrs = w.addrs \ {a}
    BY <1>1, <1>2, <2>1 DEF PlanWorks
  <2>3. At(v) = p /\ Due(v) = c[p] /\ a \in Linkable
    BY <1>3, <1>4, <1>6, <2>2 DEF At, Due
  <2>4. Shaped(v)
    BY <1>1, <1>2, <2>2 DEF Shaped, Over, Dropping, Checking, Scanning
  <2>5. Begun(v) /\ v.stage # "find" /\ Dropped(v, stored', linked')
    BY <2>2 DEF Begun, Dropped, Dropping
  <2>6. Writes(r, v)
    BY <1>1, <1>6, <2>1
  <2>7. a \in Wanted(r) <=> a \in c[p]
    BY <1>1, <1>2, <1>3, <1>4, <1>6 DEF Wanted
  <2>8. /\ linked' \in Links /\ stored' \in SUBSET PresetPlans
        /\ linked'[a] = IF a \in c[p] THEN p ELSE "none"
        /\ \A b \in Linkable : b # a => linked'[b] = linked[b]
    BY <1>3, <1>4, <1>6, <2>3, <2>7, WorkIs DEF Links
  <2>9. PlanWrite(c, stored, linked, stored', linked')
    BY <1>4, <2>8 DEF PlanWrite
  <2>10. ASSUME Linking(w, stored, linked) PROVE Linking(v, stored', linked')
    <3>1. Linking(w, stored', linked')
      BY <1>1, <1>2, <2>9, <2>10, LinkingStable
    <3>2. \A b \in Kind[w.kind] \ c[p] : linked'[b] = p => b \in w.addrs \ {a}
      BY <1>1, <1>2, <1>3, <1>4, <2>8, <3>1 DEF Linking
    <3> QED BY <1>1, <1>2, <1>3, <1>4, <2>2, <2>3, <3>1, <3>2 DEF Linking, Checking, Scanning
  <2>11. ASSUME Linking(w, stored, linked), a \notin c[p], NEW q \in PresetPlans, a \in c[q]
         PROVE  q \in Rest(w.todo)
    BY <1>1, <1>2, <1>4, <1>6, <2>11 DEF Linking
  <2>12. ASSUME Linking(w, stored, linked), NEW b \in Linkable,
                LinkRight(c, linked, b) \/ SeesTo(w, b)
         PROVE  LinkRight(c, linked', b) \/ SeesTo(v, b)
    <3>1. CASE b = a /\ a \in c[p]
      BY <2>8, <3>1, ConfigFacts DEF LinkRight
    <3>2. CASE b = a /\ a \notin c[p]
      BY <2>2, <2>11, <2>12, <3>2 DEF LinkRight, SeesTo, OfAny, Scanning
    <3>3. CASE b # a
      <4>1. LinkRight(c, linked, b) => LinkRight(c, linked', b)
        BY <2>8, <3>3 DEF LinkRight
      <4>2. SeesTo(w, b) => SeesTo(v, b)
        BY <1>1, <1>2, <1>4, <2>2, <2>3, <3>3
        DEF SeesTo, OfAny, Opening, Dropping, Checking, Scanning
      <4> QED BY <2>12, <4>1, <4>2
    <3> QED BY <3>1, <3>2, <3>3
  <2>13. ASSUME calm, Linking(w, stored, linked), NEW s \in Populaters \ {r},
                Doomed(pop[s], linked'), ~Doomed(pop[s], linked), NEW b \in Linkable, SeesTo(pop[s], b)
         PROVE  SeesTo(v, b)
    <3>1. PICK x \in PlanWorks : x = pop[s] /\ Shaped(x) /\ x.stage = "find"
      BY <2>13, WorkIs DEF Doomed
    <3>2. x.config = c /\ c = config
      BY <1>1, <1>2, <2>13, <3>1 DEF PlansInv, SameConfig, Over
    <3>3. First(x.addrs) = a /\ linked'[a] = "none"
      <4>1. First(x.addrs) \in x.addrs /\ x.addrs \subseteq Linkable
        BY <3>1, FirstIn DEF Shaped, PlanWorks
      <4> QED BY <2>8, <2>13, <3>1, <4>1 DEF Doomed
    <3>4. PICK q \in PresetPlans : q = At(x) /\ a \in c[q]
      <4>1. a \in Due(x) /\ At(x) \in PresetPlans
        BY <3>1, <3>3, FirstIn, PlanIn DEF Shaped, Checking
      <4> QED BY <3>2, <4>1 DEF Due
    <3>5. a \notin c[p] /\ q # p
      BY <1>4, <2>8, <3>3, <3>4
    <3>6. q \in Rest(w.todo) /\ q \in w.todo
      BY <2>11, <2>13, <3>4, <3>5 DEF Rest
    <3>7. x.todo \subseteq Rest(w.todo)
      BY <1>1, <1>2, <1>3, <2>3, <2>8, <2>13, <3>1, <3>4, <3>5, <3>6, Overtaken DEF Scanning
    <3>8. OfAny(x, x.todo, b)
      BY <2>13, <3>1 DEF SeesTo, Opening, Dropping, Checking, Scanning
    <3> QED BY <2>2, <3>2, <3>7, <3>8 DEF SeesTo, OfAny, Scanning
  <2>14. Trusts(v) /\ Dropped(w, stored, linked) /\ Linking(w, stored, linked) =>
           /\ Dropped(v, stored', linked') /\ Linking(v, stored', linked')
           /\ \A b \in Linkable : LinkRight(v.config, linked, b) \/ SeesTo(w, b) =>
                                    LinkRight(v.config, linked', b) \/ SeesTo(v, b)
    BY <2>2, <2>5, <2>10, <2>12
  <2>15. w.stage \notin Over /\ v.stage \notin Over /\ v.config = w.config
    BY <1>1, <1>2, <2>2 DEF Over
  <2> QED BY <1>1, <1>2, <1>4, <2>2, <2>4, <2>5, <2>6, <2>8, <2>9, <2>13, <2>14, <2>15, WriteKept
<1> QED BY <1>1, <1>5, <1>6 DEF Adjust

LEMMA DownIs ==
  /\ Down \in PlanWorks /\ Down.stage = "down" /\ ~Down.alone /\ Down.todo = {}
  /\ \A st, l : Dropped(Down, st, l) /\ Linking(Down, st, l)
  /\ Shaped(Down) /\ ~Begun(Down)
<1>1. Down \in PlanWorks /\ Down.stage = "down" /\ ~Down.alone /\ Down.todo = {}
  BY DEF Down, PlanWorks, Stages
<1>2. PICK w : w = Down
  OBVIOUS
<1>3. \A st, l : Dropped(w, st, l) /\ Linking(w, st, l)
  BY <1>1, <1>2, FactsOfIdle DEF Over
<1>4. Shaped(w) /\ ~Begun(w)
  BY <1>1, <1>2 DEF Shaped, Begun, Over, Dropping, Checking, Scanning
<1> QED BY <1>1, <1>2, <1>3, <1>4

(* What else happens: no relay can be sure of what the others did, but one *)
(* that is alone still is of what it found.                                *)
LEMMA OutsideKept ==
  ASSUME PlansInv, SpendingPlansTypeOK', ~calm', pop' \in [Populaters -> PlanWorks],
         \A s \in Populaters : Shaped(pop'[s]),
         \A s \in Populaters : pop'[s].alone =>
           /\ pop'[s] = pop[s]
           /\ Dropped(pop[s], stored', linked') /\ Linking(pop[s], stored', linked')
           /\ \A a \in Linkable : LinkRight(pop[s].config, linked, a) =>
                                    LinkRight(pop[s].config, linked', a)
  PROVE  PlansInv'
<1>1. \A s \in Populaters : Trusts(pop[s])' =>
        Dropped(pop'[s], stored', linked') /\ Linking(pop'[s], stored', linked')
  BY DEF Trusts
<1>2. \A s \in Populaters : pop'[s].alone =>
        \A a \in Linkable : LinkRight(pop'[s].config, linked', a) \/ SeesTo(pop'[s], a)
  BY DEF PlansInv
<1>3. SeenTo'
  BY DEF SeenTo
<1> QED BY <1>1, <1>2, <1>3 DEF PlansInv

LEMMA StopRelayKeeps ==
  ASSUME PlansInv, NEW r \in Populaters, StopRelay(r)
  PROVE  PlansInv'
<1>1. /\ pop \in [Populaters -> PlanWorks] /\ pop' = [pop EXCEPT ![r] = Down] /\ ~calm'
      /\ stored' = stored /\ linked' = linked
  BY WorkIs DEF StopRelay, Becomes, plansDb
<1>2. /\ pop' \in [Populaters -> PlanWorks] /\ pop'[r] = Down
      /\ \A s \in Populaters \ {r} : pop'[s] = pop[s]
  BY <1>1, DownIs
<1>3. SpendingPlansTypeOK'
  BY <1>1, <1>2 DEF StopRelay, PlansInv, SpendingPlansTypeOK, PlanWorks, plansDb
<1>4. \A s \in Populaters : Shaped(pop'[s])
  BY <1>2, DownIs, WorkIs
<1>5. \A s \in Populaters : pop'[s].alone =>
        /\ pop'[s] = pop[s]
        /\ Dropped(pop[s], stored', linked') /\ Linking(pop[s], stored', linked')
  BY <1>1, <1>2, DownIs DEF PlansInv, Trusts
<1> QED BY <1>1, <1>2, <1>3, <1>4, <1>5, OutsideKept

LEMMA ChangeConfigKeeps ==
  ASSUME PlansInv, NEW c \in PlanConfigs, ChangeConfig(c)
  PROVE  PlansInv'
<1>1. /\ pop' = pop /\ pop' \in [Populaters -> PlanWorks] /\ ~calm'
      /\ stored' = stored /\ linked' = linked
  BY DEF ChangeConfig, PlansInv, SpendingPlansTypeOK, PlanWorks, plansDb
<1>2. SpendingPlansTypeOK'
  BY <1>1 DEF ChangeConfig, PlansInv, SpendingPlansTypeOK
<1>3. \A s \in Populaters : Shaped(pop'[s])
  BY <1>1, WorkIs
<1>4. \A s \in Populaters : pop'[s].alone =>
        Dropped(pop[s], stored', linked') /\ Linking(pop[s], stored', linked')
  BY <1>1 DEF PlansInv, Trusts
<1> QED BY <1>1, <1>2, <1>3, <1>4, OutsideKept

LEMMA NobodyAloneIs ==
  ASSUME PlansInv, NobodyAlone
  PROVE  /\ ~calm' /\ pop' \in [Populaters -> PlanWorks]
         /\ \A s \in Populaters : Shaped(pop'[s]) /\ ~pop'[s].alone
<1>1. ASSUME NEW w \in PlanWorks
      PROVE  LET h == [w EXCEPT !.alone = FALSE] IN h \in PlanWorks /\ Alike(h, w) /\ ~h.alone
  BY DEF PlanWorks, Alike
<1>2. pop \in [Populaters -> PlanWorks] /\ \A s \in Populaters : Shaped(pop[s])
  BY DEF PlansInv, SpendingPlansTypeOK, PlanWorks
<1>3. ASSUME NEW s \in Populaters
      PROVE  pop'[s] \in PlanWorks /\ Alike(pop'[s], pop[s]) /\ ~pop'[s].alone
  BY <1>1, <1>2 DEF NobodyAlone
<1>4. pop' \in [Populaters -> PlanWorks]
  BY <1>3 DEF NobodyAlone
<1>5. \A s \in Populaters : Shaped(pop'[s])
  BY <1>2, <1>3, AlikeFacts
<1> QED BY <1>3, <1>4, <1>5 DEF NobodyAlone

LEMMA LimiterKeeps ==
  ASSUME PlansInv, NEW a \in Evm, LookupFails(a) \/ SaveOwnPlan(a)
  PROVE  PlansInv'
<1>1. /\ ~calm' /\ pop' \in [Populaters -> PlanWorks]
      /\ \A s \in Populaters : Shaped(pop'[s]) /\ ~pop'[s].alone
  BY NobodyAloneIs DEF LookupFails, SaveOwnPlan
<1>2. linked' \in Links /\ stored' = stored /\ assigning' \subseteq Evm
  BY DEF LookupFails, SaveOwnPlan, PlansInv, SpendingPlansTypeOK, Links, plansDb
<1>3. SpendingPlansTypeOK'
  <2>1. config' = config /\ starts' = starts
    BY DEF LookupFails, SaveOwnPlan
  <2>2. calm' = FALSE
    BY DEF LookupFails, SaveOwnPlan, NobodyAlone
  <2> QED BY <1>1, <1>2, <2>1, <2>2 DEF PlansInv, SpendingPlansTypeOK, PlanWorks, Links
<1> QED BY <1>1, <1>3, OutsideKept

LEMMA LinkExpiresKeeps ==
  ASSUME PlansInv, NEW a \in Evm, LinkExpires(a)
  PROVE  PlansInv'
<1>1. /\ pop' = pop /\ pop' \in [Populaters -> PlanWorks] /\ calm' = FALSE /\ stored' = stored
      /\ linked[a] = "own" /\ linked' = [linked EXCEPT ![a] = "none"] /\ linked \in Links
      /\ config' = config /\ starts' = starts /\ assigning' = assigning
  BY DEF LinkExpires, PlansInv, SpendingPlansTypeOK, PlanWorks, Links
<1>2. linked' \in Links /\ \A b \in Linkable : linked'[b] = IF b = a THEN "none" ELSE linked[b]
  BY <1>1 DEF Links
<1>3. SpendingPlansTypeOK'
  BY <1>1, <1>2 DEF PlansInv, SpendingPlansTypeOK, PlanWorks, Links
<1>4. \A s \in Populaters : Shaped(pop'[s])
  BY <1>1, WorkIs
<1>5. ASSUME NEW s \in Populaters, pop'[s].alone
      PROVE  /\ Dropped(pop[s], stored', linked') /\ Linking(pop[s], stored', linked')
             /\ \A b \in Linkable : LinkRight(pop[s].config, linked, b) =>
                                      LinkRight(pop[s].config, linked', b)
  <2>1. PICK w \in PlanWorks : w = pop[s] /\ Shaped(w) /\ w.alone /\ w.config \in PlanConfigs
    BY <1>1, <1>5, WorkIs DEF Shaped
  <2>2. Dropped(w, stored, linked) /\ Linking(w, stored, linked)
    BY <2>1 DEF PlansInv, Trusts
  <2>3. PlanWrite(w.config, stored, linked, stored', linked')
    BY <1>1, <1>2 DEF PlanWrite
  <2>4. Dropped(w, stored', linked')
    BY <2>1, <2>2, <2>3, DroppedStable
  <2>5. Linking(w, stored', linked')
    BY <2>1, <2>2, <2>3, LinkingStable
  <2>6. ASSUME NEW b \in Linkable, LinkRight(w.config, linked, b)
        PROVE  LinkRight(w.config, linked', b)
    <3>1. "own" \notin PresetPlans
      BY PresetConstants
    <3> QED BY <1>1, <1>2, <2>6, <3>1 DEF LinkRight
  <2> QED BY <2>1, <2>4, <2>5, <2>6
<1> QED BY <1>1, <1>3, <1>4, <1>5, OutsideKept

(* What a relay may be after it started.                                   *)
LEMMA StartsAs ==
  ASSUME PlansInv, NEW r \in Populaters, StartRelay(r)
  PROVE  \E v \in PlanWorks :
           /\ Becomes(r, v) /\ Shaped(v) /\ SameConfig(v)
           /\ \A st, l : Dropped(v, st, l) /\ Linking(v, st, l)
           /\ v.alone => \A a : SeesTo(v, a)
           /\ Begun(v) => Listed(config) = {}
<1>1. config \in PlanConfigs
  BY DEF PlansInv, SpendingPlansTypeOK
<1>2. ASSUME NEW b \in BOOLEAN, Becomes(r, [Down EXCEPT !.stage = "list", !.config = config, !.alone = b])
      PROVE  \E v \in PlanWorks :
               /\ Becomes(r, v) /\ Shaped(v) /\ SameConfig(v)
               /\ \A st, l : Dropped(v, st, l) /\ Linking(v, st, l)
               /\ v.alone => \A a : SeesTo(v, a)
               /\ Begun(v) => Listed(config) = {}
  <2>1. PICK v : v = [Down EXCEPT !.stage = "list", !.config = config, !.alone = b]
    OBVIOUS
  <2>2. v \in PlanWorks /\ v.stage = "list" /\ v.config = config
    BY <1>1, <2>1 DEF Down, PlanWorks, Stages
  <2>3. Shaped(v) /\ SameConfig(v) /\ ~Begun(v) /\ \A a : SeesTo(v, a)
    BY <1>1, <2>2
    DEF Shaped, SameConfig, Begun, SeesTo, Over, Opening, Dropping, Checking, Scanning
  <2>4. \A st, l : Dropped(v, st, l) /\ Linking(v, st, l)
    BY <2>2 DEF Dropped, Linking, Dropping, Checking, Scanning
  <2> QED BY <1>2, <2>1, <2>2, <2>3, <2>4
<1>3. ASSUME Listed(config) = {}, Becomes(r, [Down EXCEPT !.stage = "done"])
      PROVE  \E v \in PlanWorks :
               /\ Becomes(r, v) /\ Shaped(v) /\ SameConfig(v)
               /\ \A st, l : Dropped(v, st, l) /\ Linking(v, st, l)
               /\ v.alone => \A a : SeesTo(v, a)
               /\ Begun(v) => Listed(config) = {}
  <2>1. PICK v : v = [Down EXCEPT !.stage = "done"]
    OBVIOUS
  <2>2. v \in PlanWorks /\ v.stage = "done" /\ v.config = NoConfig /\ ~v.alone /\ v.todo = {}
    BY <2>1 DEF Down, PlanWorks, Stages
  <2>3. Listed(v.config) = {}
    BY <2>2 DEF Listed, NoConfig
  <2>4. Shaped(v) /\ SameConfig(v)
    BY <1>3, <2>2, <2>3 DEF Shaped, SameConfig, Over, Dropping, Checking, Scanning
  <2>5. \A st, l : Dropped(v, st, l) /\ Linking(v, st, l)
    BY <2>2, <2>3, FactsOfIdle DEF Over
  <2> QED BY <1>3, <2>1, <2>2, <2>4, <2>5
<1>4. ASSUME Fail(r)
      PROVE  \E v \in PlanWorks :
               /\ Becomes(r, v) /\ Shaped(v) /\ SameConfig(v)
               /\ \A st, l : Dropped(v, st, l) /\ Linking(v, st, l)
               /\ v.alone => \A a : SeesTo(v, a)
               /\ Begun(v) => Listed(config) = {}
  <2>1. PICK v : v = [Down EXCEPT !.stage = "failed"]
    OBVIOUS
  <2>2. v \in PlanWorks /\ v.stage = "failed" /\ ~v.alone
    BY <2>1 DEF Down, PlanWorks, Stages
  <2>3. Shaped(v) /\ SameConfig(v) /\ ~Begun(v)
    BY <2>2 DEF Shaped, SameConfig, Begun, Over, Dropping, Checking, Scanning
  <2>4. \A st, l : Dropped(v, st, l) /\ Linking(v, st, l)
    BY <2>2, FactsOfIdle DEF Over
  <2> QED BY <1>4, <2>1, <2>2, <2>3, <2>4 DEF Fail
<1>5. PICK others : others = {s \in Populaters \ {r} : pop[s].stage \notin {"down", "done", "failed"}}
  OBVIOUS
<1>6. PICK b \in BOOLEAN : b = (others = {} /\ assigning = {})
  OBVIOUS
<1>7. \/ Becomes(r, [Down EXCEPT !.stage = "list", !.config = config, !.alone = b])
      \/ Listed(config) = {} /\ Becomes(r, [Down EXCEPT !.stage = "done"])
      \/ Fail(r)
  BY <1>5, <1>6 DEF StartRelay
<1> QED BY <1>2, <1>3, <1>4, <1>7

LEMMA StartRelayKeeps ==
  ASSUME PlansInv, NEW r \in Populaters, StartRelay(r)
  PROVE  PlansInv'
<1>1. PICK v \in PlanWorks :
           /\ Becomes(r, v) /\ Shaped(v) /\ SameConfig(v)
           /\ \A st, l : Dropped(v, st, l) /\ Linking(v, st, l)
           /\ v.alone => \A a : SeesTo(v, a)
           /\ Begun(v) => Listed(config) = {}
  BY StartsAs
<1>2. /\ pop \in [Populaters -> PlanWorks] /\ stored' = stored /\ linked' = linked
      /\ config' = config /\ assigning' = assigning /\ starts' = starts + 1 /\ starts < MaxStarts
      /\ pop[r].stage = "down"
  BY WorkIs DEF StartRelay, plansDb
<1>3. /\ pop' \in [Populaters -> PlanWorks] /\ pop'[r] = v
      /\ \A s \in Populaters \ {r} : pop'[s] = pop[s]
  BY <1>1, <1>2 DEF Becomes
<1>4. /\ calm' \in BOOLEAN
      /\ calm' => calm \/ \A s \in Populaters : pop[s].stage = "down"
  BY DEF StartRelay, PlansInv, SpendingPlansTypeOK
<1>5. SpendingPlansTypeOK'
  <2>1. starts' \in 0..MaxStarts
    BY <1>2, PresetConstants DEF PlansInv, SpendingPlansTypeOK
  <2> QED BY <1>2, <1>3, <1>4, <2>1 DEF PlansInv, SpendingPlansTypeOK, PlanWorks
<1>6. \A s \in Populaters : Shaped(pop'[s])
  BY <1>1, <1>3, WorkIs
<1>7. ASSUME NEW s \in Populaters, Trusts(pop[s])'
      PROVE  Dropped(pop'[s], stored', linked') /\ Linking(pop'[s], stored', linked')
  <2>1. CASE s = r
    BY <1>1, <1>3, <2>1
  <2>2. CASE s # r /\ Trusts(pop[s])
    BY <1>2, <1>3, <2>2 DEF PlansInv
  <2>3. CASE s # r /\ pop[s].stage = "down"
    BY <1>3, <2>3, FactsOfIdle DEF Over
  <2> QED BY <1>3, <1>4, <1>7, <2>1, <2>2, <2>3 DEF Trusts
<1>8. calm' => \A s \in Populaters : SameConfig(pop[s])'
  <2>1. ASSUME calm', NEW s \in Populaters PROVE SameConfig(pop'[s])
    <3>1. CASE s = r
      BY <1>1, <1>3, <3>1
    <3>2. CASE s # r
      BY <1>3, <1>4, <2>1, <3>2 DEF PlansInv, SameConfig, Over
    <3> QED BY <3>1, <3>2
  <2>2. \A s \in Populaters : SameConfig(pop'[s]) => SameConfig(pop[s])'
    BY <1>2 DEF SameConfig
  <2> QED BY <2>1, <2>2
<1>9. \A s \in Populaters : pop'[s].alone =>
        \A a \in Linkable : LinkRight(pop'[s].config, linked', a) \/ SeesTo(pop'[s], a)
  BY <1>1, <1>2, <1>3 DEF PlansInv
<1>10. ASSUME calm', NEW t \in Populaters, Begun(pop'[t]), NEW a \in Linkable
       PROVE  LinkRight(config, linked, a) \/ Watched(linked, a)'
  <2>1. CASE t = r
    <3>1. Listed(config) = {} /\ config \in PlanConfigs
      BY <1>1, <1>3, <1>10, <2>1 DEF PlansInv, SpendingPlansTypeOK
    <3> QED BY <3>1, ConfigFacts DEF LinkRight
  <2>2. CASE t # r
    <3>1. calm /\ Begun(pop[t])
      BY <1>3, <1>4, <1>10, <2>2 DEF Begun
    <3>2. LinkRight(config, linked, a) \/ Watched(linked, a)
      BY <3>1 DEF PlansInv, SeenTo
    <3>3. ~Begun(pop[r])
      BY <1>2 DEF Begun
    <3>4. Watched(linked, a) => Watched(linked, a)'
      BY <1>2, <1>3, <3>3 DEF Watched
    <3> QED BY <3>2, <3>4
  <2> QED BY <2>1, <2>2
<1>11. SeenTo'
  BY <1>2, <1>10 DEF SeenTo
<1> QED BY <1>5, <1>6, <1>7, <1>8, <1>9, <1>11 DEF PlansInv

LEMMA PlansStart == SpendingPlansInit => PlansInv
<1> SUFFICES ASSUME SpendingPlansInit PROVE PlansInv
  OBVIOUS
<1>1. pop = [r \in Populaters |-> Down] /\ pop \in [Populaters -> PlanWorks]
  BY DownIs DEF SpendingPlansInit
<1>2. SpendingPlansTypeOK
  <2>1. linked \in Links
    BY DEF SpendingPlansInit, Links
  <2>2. starts \in 0..MaxStarts
    BY PresetConstants DEF SpendingPlansInit
  <2> QED BY <1>1, <2>1, <2>2 DEF SpendingPlansInit, SpendingPlansTypeOK, PlanWorks, Links
<1>3. \A r \in Populaters : Shaped(pop[r]) /\ ~pop[r].alone /\ pop[r].stage = "down" /\ ~Begun(pop[r])
  BY <1>1, DownIs
<1>4. \A r \in Populaters : Dropped(pop[r], stored, linked) /\ Linking(pop[r], stored, linked)
  BY <1>1, DownIs
<1>5. \A r \in Populaters : SameConfig(pop[r])
  BY <1>3 DEF SameConfig, Over
<1>6. SeenTo
  BY <1>3 DEF SeenTo
<1> QED BY <1>2, <1>3, <1>4, <1>5, <1>6 DEF PlansInv

LEMMA PlansStep == PlansInv /\ [SpendingPlansNext]_planVars => PlansInv'
<1> SUFFICES ASSUME PlansInv, [SpendingPlansNext]_planVars PROVE PlansInv'
  OBVIOUS
<1>1. ASSUME NEW r \in Populaters, PopulateStep(r) PROVE PlansInv'
  BY <1>1, ListPlansKeeps, ReadPlansKeeps, DropPlanKeeps, UnlinkKeysKeeps, UnlinkKeeps, AddPlanKeeps,
     CheckLinkKeeps, FindLinkKeeps, RemoveLinkKeeps, ScanKeysKeeps, ScanOneKeeps, AdjustKeeps
  DEF PopulateStep
<1>2. ASSUME NEW r \in Populaters, StartRelay(r) \/ StopRelay(r) PROVE PlansInv'
  BY <1>2, StartRelayKeeps, StopRelayKeeps
<1>3. ASSUME NEW c \in PlanConfigs, ChangeConfig(c) PROVE PlansInv'
  BY <1>3, ChangeConfigKeeps
<1>4. ASSUME NEW a \in Evm, LookupFails(a) \/ SaveOwnPlan(a) \/ LinkExpires(a) PROVE PlansInv'
  BY <1>4, LimiterKeeps, LinkExpiresKeeps
<1>5. CASE UNCHANGED planVars
  BY <1>5
  DEF planVars, plansDb, PlansInv, SpendingPlansTypeOK, Trusts, SameConfig, SeenTo, Watched
<1> QED BY <1>1, <1>2, <1>3, <1>4, <1>5 DEF SpendingPlansNext

LEMMA AllLinked ==
  ASSUME NEW c \in PlanConfigs, Listed(c) \subseteq stored,
         \A p \in Listed(c) : Settled(c, p, linked), \A a \in Linkable : LinkRight(c, linked, a)
  PROVE  AsConfigured(c)
<1>1. ASSUME NEW p \in Listed(c) PROVE {a \in Linkable : linked[a] = p} = c[p]
  <2>1. p \in PresetPlans /\ c[p] \subseteq Linkable
    BY <1>1, ConfigFacts
  <2> QED BY <1>1, <2>1 DEF Settled, LinkRight
<1> QED BY <1>1 DEF AsConfigured

LEMMA PlansFollow == PlansInv => PlansAsConfigured
<1> SUFFICES ASSUME PlansInv PROVE PlansAsConfigured
  OBVIOUS
<1>1. ASSUME NEW r \in Populaters, pop[r].stage = "done"
      PROVE  /\ \A a : ~SeesTo(pop[r], a)
             /\ Trusts(pop[r]) => /\ Listed(pop[r].config) \subseteq stored
                                  /\ \A p \in Listed(pop[r].config) : Settled(pop[r].config, p, linked)
  <2>1. pop[r].todo = {}
    BY <1>1, WorkIs DEF Shaped
  <2>2. \A a : ~SeesTo(pop[r], a)
    BY <1>1 DEF SeesTo, Opening, Dropping, Checking, Scanning
  <2> QED BY <1>1, <2>1, <2>2 DEF PlansInv, Linking
<1>2. PopulatedAsConfigured
  <2>1. ASSUME NEW r \in Populaters, pop[r].stage = "done", pop[r].alone
        PROVE  AsConfigured(pop[r].config)
    <3>1. pop[r].config \in PlanConfigs
      BY <2>1, WorkIs DEF Shaped
    <3>2. \A a \in Linkable : LinkRight(pop[r].config, linked, a)
      BY <1>1, <2>1 DEF PlansInv
    <3> QED BY <1>1, <2>1, <3>1, <3>2, AllLinked DEF Trusts
  <2> QED BY <2>1 DEF PopulatedAsConfigured
<1>3. TogetherAsConfigured
  <2>1. ASSUME calm, \A r \in Populaters : pop[r].stage \in {"down", "done", "failed"},
               NEW r \in Populaters, pop[r].stage = "done", Listed(config) # {}
        PROVE  AsConfigured(config)
    <3>1. pop[r].config = config /\ config \in PlanConfigs
      BY <2>1 DEF PlansInv, SpendingPlansTypeOK, SameConfig
    <3>2. \A s \in Populaters : \A a : ~SeesTo(pop[s], a)
      BY <2>1 DEF SeesTo, Opening, Dropping, Checking, Scanning
    <3>3. Begun(pop[r])
      BY <2>1 DEF Begun
    <3>4. \A a \in Linkable : LinkRight(config, linked, a)
      BY <2>1, <3>2, <3>3 DEF PlansInv, SeenTo, Watched
    <3> QED BY <1>1, <2>1, <3>1, <3>4, AllLinked DEF Trusts
  <2> QED BY <2>1 DEF TogetherAsConfigured
<1>4. NoLinkToDropped
  <2>1. ASSUME NEW r \in Populaters, pop[r].stage = "add", pop[r].alone
        PROVE  Cleaned(pop[r].existing \ Listed(pop[r].config), stored, linked)
    BY <2>1 DEF PlansInv, Trusts, Dropped
  <2> QED BY <2>1 DEF NoLinkToDropped, Cleaned
<1> QED BY <1>2, <1>3, <1>4 DEF PlansAsConfigured, PlansInv

(* Whatever the configurations say, however many relays start and stop,    *)
(* whoever creates plans of its own meanwhile: a relay that populated the  *)
(* plans by itself leaves the plans and links of its configuration, a      *)
(* plan it deleted has no link left, and relays that start together leave  *)
(* what their common configuration lists, in whatever order they read,     *)
(* delete and save, and whichever of them give up because another one was  *)
(* faster (HbarSpendingPlanConfigService.populatePreconfiguredSpendingPlans).*)
THEOREM PlansAreConfigured ==
  SpendingPlansInit /\ [][SpendingPlansNext]_planVars => []PlansAsConfigured
BY PlansStart, PlansStep, PlansFollow, PTL

(***************************************************************************)
(* The logs of several addresses.                                          *)
(***************************************************************************)

LogRecords == [of : DOMAIN LogsOf, at : Nat, index : Nat]
Addressed == DOMAIN addressList
AllLogs(a) == LogsOf[addressList[a]]

(* What is read of an address are its first logs: those of the pages before*)
(* the one that is asked for, and all once it is done, unless an error was *)
(* accepted in the place of a page.                                        *)
PagesOK(a) ==
  /\ got[a] \in Seq(LogRecords) /\ Len(got[a]) <= Len(AllLogs(a))
  /\ \A n \in 1..Len(got[a]) : got[a][n] = AllLogs(a)[n]
  /\ reading[a] = "asking" => Len(got[a]) = (page[a] - 1) * PageSize
  /\ reading[a] = "done" /\ ~cut => Len(got[a]) = Len(AllLogs(a))

AllDone == \A a \in Addressed : reading[a] = "done"

ReplyOK ==
  \/ reply = NoReply
  \/ /\ reply = PaginationMax
     /\ \E a \in Addressed : Len(AllLogs(a)) >= (PageMax - 1) * PageSize
  \/ \E status \in ErrorStatuses \cup NoResponse : reply = TheError(status)
  \/ AllDone /\ \E kept \in BOOLEAN : reply = TheLogs(Sorted(kept))

(* Every request was the n-th attempt at a page of an address.             *)
Attempted(S) ==
  /\ S \subseteq (Addressed \X (1..PageMax)) \X (0..Retries)
  /\ Cardinality(S) = requests
  /\ \A s \in S :
       reading[s[1][1]] = "asking" =>
         \/ s[1][2] < page[s[1][1]]
         \/ s[1][2] = page[s[1][1]] /\ s[2] < attempts[s[1][1]]

LogInv ==
  /\ addressList \in Seq(DOMAIN LogsOf) /\ addressList \in LogQueries
  /\ reading \in [Addressed -> {"asking", "done", "failed"}]
  /\ page \in [Addressed -> 1..PageMax]
  /\ attempts \in [Addressed -> 0..Retries]
  /\ got \in [Addressed -> Seq(LogRecords)]
  /\ requests \in Nat /\ errors \in 0..MaxErrors /\ cut \in BOOLEAN
  /\ \A a \in Addressed : PagesOK(a)
  /\ ReplyOK
  /\ \E S : Attempted(S)

-----------------------------------------------------------------------------
(* The order of the logs.                                                  *)

LogTypes ==
  /\ addressList \in Seq(DOMAIN LogsOf)
  /\ DOMAIN got = Addressed
  /\ \A a \in Addressed : got[a] \in Seq(LogRecords)

LEMMA CollectedIsFinite ==
  ASSUME LogTypes
  PROVE  /\ IsFiniteSet(Collected)
         /\ \A p \in Collected : /\ p[1] \in Addressed /\ p[2] \in DOMAIN got[p[1]]
                                 /\ p = <<p[1], p[2]>> /\ p[1] \in Nat /\ p[2] \in Nat
                                 /\ LogAt(p) \in LogRecords
         /\ \A a \in Addressed : \A n \in DOMAIN got[a] : <<a, n>> \in Collected
<1>1. Addressed = 1..Len(addressList) /\ Len(addressList) \in Nat
  BY DEF LogTypes, Addressed
<1>2. IsFiniteSet(Addressed)
  BY <1>1, FS_Interval
<1>3. \A a \in Addressed : DOMAIN got[a] = 1..Len(got[a]) /\ Len(got[a]) \in Nat
  BY DEF LogTypes
<1>4. ASSUME NEW a \in Addressed PROVE IsFiniteSet({a} \X DOMAIN got[a])
  <2>1. IsFiniteSet(DOMAIN got[a])
    BY <1>3, <1>4, FS_Interval
  <2>2. IsFiniteSet({a})
    BY FS_Singleton
  <2> QED BY <2>1, <2>2, FS_Product
<1> DEFINE Parts == {{a} \X DOMAIN got[a] : a \in Addressed}
           part == [a \in Addressed |-> {a} \X DOMAIN got[a]]
<1>5. IsFiniteSet(Parts)
  <2>1. part \in Surjection(Addressed, Parts)
    BY DEF Surjection
  <2> QED BY <2>1, <1>2, FS_Surjection
<1>6. IsFiniteSet(Collected)
  BY <1>4, <1>5, FS_UNION DEF Collected, Addressed
<1>7. ASSUME NEW p \in Collected
      PROVE  /\ p[1] \in Addressed /\ p[2] \in DOMAIN got[p[1]]
             /\ p = <<p[1], p[2]>> /\ p[1] \in Nat /\ p[2] \in Nat
             /\ LogAt(p) \in LogRecords
  <2>1. PICK a \in Addressed : p \in {a} \X DOMAIN got[a]
    BY <1>7 DEF Collected, Addressed
  <2>2. p[1] = a /\ p[2] \in DOMAIN got[a] /\ p = <<p[1], p[2]>>
    BY <2>1
  <2>3. a \in Nat /\ p[2] \in Nat /\ p[2] \in 1..Len(got[a])
    BY <2>2, <1>1, <1>3
  <2>4. got[a][p[2]] \in LogRecords
    BY <2>3 DEF LogTypes
  <2> QED BY <2>2, <2>3, <2>4 DEF LogAt
<1>8. \A a \in Addressed : \A n \in DOMAIN got[a] : <<a, n>> \in Collected
  BY DEF Collected, Addressed
<1> QED BY <1>6, <1>7, <1>8

LEMMA PrecedesIsOrder ==
  ASSUME LogTypes, NEW kept \in BOOLEAN
  PROVE  /\ \A p \in Collected : ~Precedes(p, p, kept)
         /\ \A p, q \in Collected : p = q \/ Precedes(p, q, kept) \/ Precedes(q, p, kept)
         /\ \A p, q, s \in Collected :
              Precedes(p, q, kept) /\ Precedes(q, s, kept) => Precedes(p, s, kept)
         /\ \A p, q \in Collected : Precedes(p, q, kept) => LogAt(p).at <= LogAt(q).at
<1>1. \A p \in Collected : /\ p[1] \in Nat /\ p[2] \in Nat /\ p = <<p[1], p[2]>>
                           /\ LogAt(p).at \in Nat
  BY CollectedIsFinite DEF LogRecords
<1>2. \A p, q \in Collected : p[1] = q[1] /\ p[2] = q[2] => p = q
  BY <1>1
<1>3. CASE kept
  BY <1>1, <1>2, <1>3 DEF Precedes, ReadBefore
<1>4. CASE ~kept
  BY <1>1, <1>2, <1>4 DEF Precedes, ReadBefore
<1> QED BY <1>3, <1>4

(* Each place is taken by exactly one log.                                 *)
Ahead(p, kept) == {q \in Collected : Precedes(q, p, kept)}

LEMMA PlacesAreTaken ==
  ASSUME LogTypes, NEW kept \in BOOLEAN
  PROVE  /\ Cardinality(Collected) \in Nat
         /\ \A p \in Collected : Cardinality(Ahead(p, kept)) \in 0 .. Cardinality(Collected) - 1
         /\ \A p, q \in Collected :
              Precedes(p, q, kept) => Cardinality(Ahead(p, kept)) < Cardinality(Ahead(q, kept))
         /\ \A n \in 1..Cardinality(Collected) :
              \E p \in Collected : Cardinality(Ahead(p, kept)) = n - 1
<1> DEFINE N == Cardinality(Collected)
<1>1. IsFiniteSet(Collected) /\ N \in Nat
  BY CollectedIsFinite, FS_CardinalityType
<1>2. \A p \in Collected : IsFiniteSet(Ahead(p, kept)) /\ Cardinality(Ahead(p, kept)) \in Nat
  BY <1>1, FS_Subset, FS_CardinalityType DEF Ahead
<1>3. ASSUME NEW p \in Collected PROVE Cardinality(Ahead(p, kept)) \in 0 .. N - 1
  <2>1. Ahead(p, kept) \in SUBSET (Collected \ {p})
    BY PrecedesIsOrder DEF Ahead
  <2>2. IsFiniteSet(Collected \ {p}) /\ Cardinality(Collected \ {p}) = N - 1
    BY <1>1, <1>3, FS_RemoveElement
  <2>3. Cardinality(Ahead(p, kept)) <= N - 1
    BY <2>1, <2>2, FS_Subset
  <2> QED BY <1>1, <1>2, <1>3, <2>3
<1>4. ASSUME NEW p \in Collected, NEW q \in Collected, Precedes(p, q, kept)
      PROVE  Cardinality(Ahead(p, kept)) < Cardinality(Ahead(q, kept))
  <2>1. p \notin Ahead(p, kept)
    BY PrecedesIsOrder DEF Ahead
  <2>2. Ahead(p, kept) \cup {p} \in SUBSET Ahead(q, kept)
    BY <1>4, PrecedesIsOrder DEF Ahead
  <2>3. Cardinality(Ahead(p, kept) \cup {p}) = Cardinality(Ahead(p, kept)) + 1
    BY <2>1, <1>2, FS_AddElement
  <2>4. Cardinality(Ahead(p, kept) \cup {p}) <= Cardinality(Ahead(q, kept))
    BY <2>2, <1>2, FS_Subset
  <2> QED BY <1>2, <2>3, <2>4
<1>5. ASSUME NEW n \in 1..N PROVE \E p \in Collected : Cardinality(Ahead(p, kept)) = n - 1
  <2> DEFINE place == [p \in Collected |-> Cardinality(Ahead(p, kept))]
             Places == {place[p] : p \in Collected}
  <2>1. place \in Surjection(Collected, Places)
    BY DEF Surjection
  <2>2. \A p, q \in Collected : place[p] = place[q] => p = q
    BY <1>2, <1>4, PrecedesIsOrder
  <2>3. place \in Injection(Collected, Places)
    BY <2>1, <2>2 DEF Injection, IsInjective, Surjection
  <2>4. IsFiniteSet(Places) /\ Cardinality(Places) = N
    BY <1>1, <2>1, <2>3, FS_Surjection
  <2>5. Places \in SUBSET (0 .. N - 1)
    BY <1>3
  <2>6. IsFiniteSet(0 .. N - 1) /\ Cardinality(0 .. N - 1) = N
    <3>1. 0 \in Int /\ N - 1 \in Int
      BY <1>1
    <3>2. IsFiniteSet(0 .. N - 1)
          /\ Cardinality(0 .. N - 1) = IF 0 > N - 1 THEN 0 ELSE N - 1 - 0 + 1
      BY ONLY <3>1, FS_Interval
    <3> QED BY <3>2, <1>1
  <2>7. Places = 0 .. N - 1
    BY <2>4, <2>5, <2>6, FS_Subset
  <2>8. n - 1 \in 0 .. N - 1
    BY <1>1, <1>5
  <2>9. n - 1 \in Places
    BY <2>7, <2>8
  <2> QED BY <2>9
<1> QED BY <1>1, <1>3, <1>4, <1>5

LEMMA SortedIsRight ==
  ASSUME LogTypes, NEW kept \in BOOLEAN
  PROVE  /\ Range(Sorted(kept)) = {LogAt(p) : p \in Collected}
         /\ \A m, n \in DOMAIN Sorted(kept) : m < n => Sorted(kept)[m].at <= Sorted(kept)[n].at
<1> DEFINE N == Cardinality(Collected)
           Nth(n) == CHOOSE p \in Collected : Cardinality(Ahead(p, kept)) = n - 1
<1>1. Sorted(kept) = [n \in 1..N |-> LogAt(Nth(n))]
  BY DEF Sorted, Ahead
<1>2. \A n \in 1..N : Nth(n) \in Collected /\ Cardinality(Ahead(Nth(n), kept)) = n - 1
  BY PlacesAreTaken
<1>3. N \in Nat /\ \A p \in Collected : Cardinality(Ahead(p, kept)) + 1 \in 1..N
  BY PlacesAreTaken
<1>4. ASSUME NEW p \in Collected PROVE Nth(Cardinality(Ahead(p, kept)) + 1) = p
  <2>1. PICK n \in 1..N : n = Cardinality(Ahead(p, kept)) + 1
    BY <1>3, <1>4
  <2>2. Cardinality(Ahead(p, kept)) \in Nat /\ Cardinality(Ahead(p, kept)) = n - 1
    BY <1>4, <2>1, PlacesAreTaken
  <2>3. Nth(n) \in Collected /\ Cardinality(Ahead(Nth(n), kept)) = Cardinality(Ahead(p, kept))
    BY <1>2, <2>2
  <2>4. ~Precedes(Nth(n), p, kept) /\ ~Precedes(p, Nth(n), kept)
    BY <1>4, <2>2, <2>3, PlacesAreTaken
  <2>5. Nth(n) = p
    BY <1>4, <2>3, <2>4, PrecedesIsOrder
  <2> QED BY <2>1, <2>5
<1>5. \A n \in 1..N : Sorted(kept)[n] = LogAt(Nth(n))
  BY <1>1
<1>6. Range(Sorted(kept)) = {LogAt(p) : p \in Collected}
  <2> DEFINE s == Sorted(kept)
  <2>1. DOMAIN s = 1..N
    BY <1>1
  <2>2. Range(s) = {s[n] : n \in 1..N}
    BY <2>1 DEF Range
  <2>3. \A n \in 1..N : s[n] \in {LogAt(p) : p \in Collected}
    BY <1>2, <1>5
  <2>4. \A p \in Collected : LogAt(p) = s[Cardinality(Ahead(p, kept)) + 1]
    BY <1>3, <1>4, <1>5
  <2>5. \A p \in Collected : LogAt(p) \in {s[n] : n \in 1..N}
    BY <1>3, <2>4
  <2> QED BY <2>2, <2>3, <2>5
<1>7. ASSUME NEW m \in 1..N, NEW n \in 1..N, m < n
      PROVE  LogAt(Nth(m)).at <= LogAt(Nth(n)).at
  <2>1. Nth(m) \in Collected /\ Cardinality(Ahead(Nth(m), kept)) = m - 1
    BY <1>2
  <2>2. Nth(n) \in Collected /\ Cardinality(Ahead(Nth(n), kept)) = n - 1
    BY <1>2
  <2>3. ~Precedes(Nth(n), Nth(m), kept)
    BY <1>3, <1>7, <2>1, <2>2, PlacesAreTaken
  <2>4. Nth(n) = Nth(m) \/ Precedes(Nth(m), Nth(n), kept)
    BY <2>1, <2>2, <2>3, PrecedesIsOrder
  <2>5. LogAt(Nth(m)).at \in Nat
    BY <2>1, CollectedIsFinite DEF LogRecords
  <2> HIDE DEF Nth
  <2>6. Precedes(Nth(m), Nth(n), kept) => LogAt(Nth(m)).at <= LogAt(Nth(n)).at
    BY <2>1, <2>2, PrecedesIsOrder
  <2> QED BY <2>4, <2>5, <2>6
<1> QED BY <1>1, <1>5, <1>6, <1>7

-----------------------------------------------------------------------------
(* A request for the page of an address.                                   *)

LEMMA LogAssumptions ==
  /\ PageSize \in Nat /\ PageSize >= 1 /\ PageMax \in Nat /\ PageMax >= 1
  /\ Retries \in Nat /\ MaxErrors \in Nat
  /\ \A address \in DOMAIN LogsOf : LogsOf[address] \in Seq(LogRecords)
  /\ LogsOf[ZeroAddress] = <<>>
  /\ LogQueries \subseteq Seq(DOMAIN LogsOf)
<1>1. PageSize \in Nat \ {0} /\ PageMax \in Nat \ {0} /\ Retries \in Nat /\ MaxErrors \in Nat
  BY LogPagesAssumption
<1>2. \A address \in DOMAIN LogsOf : LogsOf[address] \in Seq(LogRecords)
  BY LogPagesAssumption DEF LogRecords
<1>3. LogsOf[ZeroAddress] = <<>> /\ LogQueries \subseteq Seq(DOMAIN LogsOf)
  BY LogPagesAssumption
<1> QED BY <1>1, <1>2, <1>3

LEMMA PagesAdd ==
  ASSUME NEW p \in Nat, p >= 1
  PROVE  /\ (p - 1) * PageSize \in Nat
         /\ p * PageSize = (p - 1) * PageSize + PageSize
         /\ (p + 1 - 1) * PageSize = p * PageSize
BY LogAssumptions

LEMMA LogFacts ==
  ASSUME LogInv
  PROVE  /\ LogTypes
         /\ Addressed = 1..Len(addressList) /\ Len(addressList) \in Nat
         /\ \A a \in Addressed :
              /\ addressList[a] \in DOMAIN LogsOf
              /\ AllLogs(a) \in Seq(LogRecords) /\ Len(AllLogs(a)) \in Nat
              /\ got[a] \in Seq(LogRecords) /\ Len(got[a]) \in Nat
              /\ page[a] \in 1..PageMax /\ page[a] \in Nat
              /\ attempts[a] \in 0..Retries /\ attempts[a] \in Nat
<1>1. addressList \in Seq(DOMAIN LogsOf)
  BY DEF LogInv
<1>2. Addressed = 1..Len(addressList) /\ Len(addressList) \in Nat
  BY <1>1 DEF Addressed
<1>3. \A a \in Addressed : addressList[a] \in DOMAIN LogsOf
  BY <1>1, <1>2
<1>4. \A a \in Addressed : AllLogs(a) \in Seq(LogRecords)
  BY <1>3, LogAssumptions DEF AllLogs
<1>5. \A a \in Addressed : got[a] \in Seq(LogRecords)
  BY DEF LogInv, PagesOK
<1>6. LogTypes
  BY <1>1, <1>5 DEF LogInv, LogTypes
<1>7. \A a \in Addressed : page[a] \in 1..PageMax /\ attempts[a] \in 0..Retries
  BY DEF LogInv
<1> QED BY <1>2, <1>3, <1>4, <1>5, <1>6, <1>7, LogAssumptions

(* With the page asked for, what was read is longer by a page, or whole.   *)
LEMMA PageIsRead ==
  ASSUME LogInv, NEW a \in Addressed, reading[a] = "asking"
  PROVE  /\ got[a] \o Rows(a, page[a]) \in Seq(LogRecords)
         /\ Len(got[a] \o Rows(a, page[a])) <= Len(AllLogs(a))
         /\ \A n \in 1..Len(got[a] \o Rows(a, page[a])) :
              (got[a] \o Rows(a, page[a]))[n] = AllLogs(a)[n]
         /\ Len(Rows(a, page[a])) = PageSize =>
              Len(got[a] \o Rows(a, page[a])) = page[a] * PageSize
         /\ Len(Rows(a, page[a])) # PageSize =>
              Len(got[a] \o Rows(a, page[a])) = Len(AllLogs(a))
<1>1. PICK L \in Seq(LogRecords) : L = AllLogs(a)
  BY LogFacts
<1>2. PICK g \in Seq(LogRecords) : g = got[a]
  BY LogFacts
<1>3. Len(g) = (page[a] - 1) * PageSize /\ Len(g) <= Len(L) /\ Len(g) \in Nat /\ Len(L) \in Nat
      /\ \A n \in 1..Len(g) : g[n] = L[n]
  BY <1>1, <1>2 DEF LogInv, PagesOK
<1>4. PICK full \in Nat : full = page[a] * PageSize /\ full = Len(g) + PageSize
  <2>1. page[a] \in 1..PageMax
    BY LogFacts
  <2>2. PageMax \in Nat
    BY LogAssumptions
  <2>3. PICK p \in Nat : p = page[a] /\ p >= 1
    BY ONLY <2>1, <2>2
  <2>4. (p - 1) * PageSize \in Nat /\ p * PageSize = (p - 1) * PageSize + PageSize
    BY ONLY <2>3, PagesAdd
  <2>5. PageSize \in Nat
    BY LogAssumptions
  <2> QED BY <1>3, <2>3, <2>4, <2>5
<1>5. PICK to \in Nat : to = IF full < Len(L) THEN full ELSE Len(L)
  BY <1>3, <1>4
<1>6. Rows(a, page[a]) = SubSeq(L, Len(g) + 1, to)
  BY <1>1, <1>3, <1>4, <1>5 DEF Rows, AllLogs
<1>7. Len(g) <= to /\ to <= Len(L) /\ PageSize \in Nat
  BY <1>3, <1>4, <1>5, LogAssumptions
<1>8. PICK s \in Seq(LogRecords) :
        /\ s = SubSeq(L, Len(g) + 1, to)
        /\ Len(s) = to - Len(g)
        /\ \A i \in 1..Len(s) : s[i] = L[Len(g) + i]
  <2>1. Len(g) + 1 \in 1 .. Len(L) + 1 /\ to \in (Len(g) + 1) - 1 .. Len(L)
    BY <1>3, <1>7
  <2>2. /\ SubSeq(L, Len(g) + 1, to) \in Seq(LogRecords)
        /\ Len(SubSeq(L, Len(g) + 1, to)) = to - (Len(g) + 1) + 1
        /\ \A i \in 1 .. to - (Len(g) + 1) + 1 :
             SubSeq(L, Len(g) + 1, to)[i] = L[(Len(g) + 1) + i - 1]
    BY <2>1, SubSeqProperties
  <2>3. PICK t : t = SubSeq(L, Len(g) + 1, to)
    OBVIOUS
  <2>4. Len(g) \in Nat /\ to \in Nat
    BY <1>3
  <2>5. t \in Seq(LogRecords) /\ Len(t) = to - Len(g)
    BY ONLY <2>2, <2>3, <2>4
  <2>6. ASSUME NEW i \in 1..Len(t) PROVE t[i] = L[Len(g) + i]
    <3>1. i \in 1 .. to - (Len(g) + 1) + 1 /\ (Len(g) + 1) + i - 1 = Len(g) + i
      BY ONLY <2>4, <2>5, <2>6
    <3> QED BY <2>2, <2>3, <3>1
  <2> QED BY <2>3, <2>5, <2>6
<1>9. g \o s \in Seq(LogRecords) /\ Len(g \o s) = to
  BY <1>3, <1>7, <1>8
<1>10. \A n \in 1..to : (g \o s)[n] = L[n]
  <2>1. \A n \in 1..to : (g \o s)[n] = IF n <= Len(g) THEN g[n] ELSE s[n - Len(g)]
    BY <1>9, ConcatProperties
  <2>2. ASSUME NEW n \in 1..to, n > Len(g) PROVE s[n - Len(g)] = L[n]
    <3>1. n - Len(g) \in 1..Len(s)
      BY <1>3, <1>7, <1>8, <2>2
    <3>2. Len(g) + (n - Len(g)) = n
      BY <1>3, <2>2
    <3> QED BY <1>8, <3>1, <3>2
  <2>3. ASSUME NEW n \in 1..to, n <= Len(g) PROVE g[n] = L[n]
    BY <1>3, <2>3
  <2>4. ASSUME NEW n \in 1..to PROVE (g \o s)[n] = L[n]
    <3>1. n <= Len(g) \/ n > Len(g)
      BY <1>3, <2>4
    <3> QED BY <1>3, <2>1, <2>2, <2>3, <3>1
  <2> QED BY <2>4
<1>11. (Len(s) = PageSize => to = full) /\ (Len(s) # PageSize => to = Len(L))
  <2>1. Len(s) = to - Len(g)
    BY <1>8
  <2>2. Len(g) \in Nat /\ Len(L) \in Nat
    BY <1>3
  <2> QED BY ONLY <1>4, <1>5, <1>7, <2>1, <2>2
<1>13. got[a] \o Rows(a, page[a]) = g \o s /\ Rows(a, page[a]) = s
  BY <1>2, <1>6, <1>8
<1> QED BY <1>1, <1>4, <1>7, <1>9, <1>10, <1>11, <1>13

(* No attempt is made twice.                                               *)
LEMMA AttemptIsNew ==
  ASSUME LogInv, NEW a \in Addressed, reading[a] = "asking",
         requests' = requests + 1, UNCHANGED addressList,
         \A b \in Addressed : b # a =>
           reading'[b] = reading[b] /\ page'[b] = page[b] /\ attempts'[b] = attempts[b],
         \/ reading'[a] # "asking"
         \/ page'[a] = page[a] + 1
         \/ page'[a] = page[a] /\ attempts'[a] = attempts[a] + 1
  PROVE  requests' \in Nat /\ \E S : Attempted(S)'
<1>1. PICK S : Attempted(S)
  BY DEF LogInv
<1>2. S \subseteq (Addressed \X (1..PageMax)) \X (0..Retries) /\ Cardinality(S) = requests
      /\ Addressed' = Addressed
  BY <1>1 DEF Attempted, Addressed
<1>3. page[a] \in 1..PageMax /\ attempts[a] \in 0..Retries /\ requests \in Nat
      /\ page[a] \in Nat /\ attempts[a] \in Nat
  BY LogFacts DEF LogInv
<1> DEFINE new == <<<<a, page[a]>>, attempts[a]>>
<1>4. IsFiniteSet(S)
  <2>1. IsFiniteSet(Addressed) /\ IsFiniteSet(1..PageMax) /\ IsFiniteSet(0..Retries)
    <3>1. Len(addressList) \in Int /\ PageMax \in Int /\ Retries \in Int /\ 0 \in Int /\ 1 \in Int
          /\ Addressed = 1..Len(addressList)
      BY LogFacts, LogAssumptions
    <3> QED BY ONLY <3>1, FS_Interval
  <2>2. IsFiniteSet(Addressed \X (1..PageMax))
    BY <2>1, FS_Product
  <2>3. IsFiniteSet((Addressed \X (1..PageMax)) \X (0..Retries))
    BY <2>1, <2>2, FS_Product
  <2> QED BY <1>2, <2>3, FS_Subset
<1>5. new \notin S
  <2>1. \A s \in S : reading[s[1][1]] = "asking" =>
               \/ s[1][2] < page[s[1][1]]
               \/ s[1][2] = page[s[1][1]] /\ s[2] < attempts[s[1][1]]
    BY <1>1 DEF Attempted
  <2> QED BY <1>3, <2>1
<1>10. PICK T : T = S \cup {new}
  OBVIOUS
<1>6. Cardinality(T) = requests + 1
  BY <1>2, <1>4, <1>5, <1>10, FS_AddElement
<1>7. T \subseteq (Addressed \X (1..PageMax)) \X (0..Retries)
  BY <1>2, <1>3, <1>10
<1>8. ASSUME NEW s \in T, reading'[s[1][1]] = "asking"
      PROVE  \/ s[1][2] < page'[s[1][1]]
             \/ s[1][2] = page'[s[1][1]] /\ s[2] < attempts'[s[1][1]]
  <2>1. s[1][1] \in Addressed /\ s[1][2] \in Nat /\ s[2] \in Nat
    BY <1>7, <1>8, LogAssumptions
  <2>2. CASE s[1][1] # a
    <3>1. s \in S
      BY <1>10, <2>2
    <3> QED BY <1>1, <1>8, <2>1, <2>2, <3>1 DEF Attempted
  <2>3. CASE s[1][1] = a
    <3>1. CASE s = new
      BY <1>3, <1>8, <2>3, <3>1
    <3>2. CASE s \in S
      <4>1. \/ s[1][2] < page[a]
            \/ s[1][2] = page[a] /\ s[2] < attempts[a]
        BY <1>1, <2>3, <3>2 DEF Attempted
      <4> QED BY <1>3, <1>8, <2>1, <2>3, <4>1
    <3> QED BY <1>10, <3>1, <3>2
  <2> QED BY <2>2, <2>3
<1>9. Attempted(T)'
  BY <1>2, <1>6, <1>7, <1>8 DEF Attempted
<1> QED BY <1>3, <1>9

(* While an address is asked for, nothing was merged.                      *)
LEMMA NotMergedYet ==
  ASSUME LogInv, NEW a \in Addressed, reading[a] = "asking"
  PROVE  \/ reply = NoReply
         \/ /\ reply = PaginationMax
            /\ \E b \in Addressed : Len(AllLogs(b)) >= (PageMax - 1) * PageSize
         \/ \E status \in ErrorStatuses \cup NoResponse : reply = TheError(status)
BY DEF LogInv, ReplyOK, AllDone

(* A step that asks for the page of one address.                           *)
LEMMA AddressMoves ==
  ASSUME LogInv, NEW a \in Addressed, reading[a] = "asking", Request(a),
         NEW g \in Seq(LogRecords), got' = [got EXCEPT ![a] = g],
         reading' \in [Addressed -> {"asking", "done", "failed"}],
         page' \in [Addressed -> 1..PageMax], attempts' \in [Addressed -> 0..Retries],
         \A b \in Addressed : b # a =>
           reading'[b] = reading[b] /\ page'[b] = page[b] /\ attempts'[b] = attempts[b],
         \/ reading'[a] # "asking"
         \/ page'[a] = page[a] + 1
         \/ page'[a] = page[a] /\ attempts'[a] = attempts[a] + 1,
         errors' \in 0..MaxErrors, cut' \in {cut, TRUE},
         reply' = reply \/ ReplyOK',
         PagesOK(a)'
  PROVE  LogInv'
<1>1. UNCHANGED addressList /\ requests' = requests + 1
  BY DEF Request
<1>2. Addressed' = Addressed /\ \A b \in Addressed : AllLogs(b)' = AllLogs(b)
  BY <1>1 DEF Addressed, AllLogs
<1>3. addressList' \in Seq(DOMAIN LogsOf) /\ addressList' \in LogQueries
      /\ got' \in [Addressed' -> Seq(LogRecords)] /\ cut' \in BOOLEAN
  BY <1>1, <1>2 DEF LogInv
<1>4. ASSUME NEW b \in Addressed, b # a PROVE PagesOK(b)'
  <2>1. PagesOK(b)
    BY <1>4 DEF LogInv
  <2>2. got'[b] = got[b] /\ reading'[b] = reading[b] /\ page'[b] = page[b]
    BY <1>4 DEF LogInv
  <2>3. (~cut)' => ~cut
    BY DEF LogInv
  <2> QED BY <1>2, <1>4, <2>1, <2>2, <2>3 DEF PagesOK
<1>5. ReplyOK'
  <2>1. CASE ReplyOK'
    BY <2>1
  <2>2. CASE reply' = reply
    BY <1>2, <2>2, NotMergedYet DEF ReplyOK
  <2> QED BY <2>1, <2>2
<1>6. requests' \in Nat /\ \E S : Attempted(S)'
  BY <1>1, AttemptIsNew
<1> QED BY <1>2, <1>3, <1>4, <1>5, <1>6 DEF LogInv

-----------------------------------------------------------------------------
(* What Reject, TurnPage and Collect do to the address.                    *)

LEMMA RejectMoves ==
  ASSUME LogInv, NEW a \in Addressed, NEW why, Reject(a, why)
  PROVE  /\ reading' \in [Addressed -> {"asking", "done", "failed"}] /\ reading'[a] = "failed"
         /\ page' \in [Addressed -> 1..PageMax] /\ attempts' \in [Addressed -> 0..Retries]
         /\ page'[a] = page[a]
         /\ \A b \in Addressed : b # a =>
              reading'[b] = reading[b] /\ page'[b] = page[b] /\ attempts'[b] = attempts[b]
         /\ reply' = reply \/ reply' = why
BY DEF Reject, LogInv

(* A page that was the last, or has no next, ends the reading.             *)
LEMMA TurnPageMoves ==
  ASSUME LogInv, NEW a \in Addressed, NEW next \in BOOLEAN, TurnPage(a, next)
  PROVE  /\ reading' \in [Addressed -> {"asking", "done", "failed"}]
         /\ page' \in [Addressed -> 1..PageMax] /\ attempts' \in [Addressed -> 0..Retries]
         /\ \A b \in Addressed : b # a =>
              reading'[b] = reading[b] /\ page'[b] = page[b] /\ attempts'[b] = attempts[b]
         /\ \/ page[a] = PageMax /\ reading'[a] = "failed"
               /\ (reply' = reply \/ reply' = PaginationMax)
            \/ next /\ page'[a] = page[a] + 1 /\ reply' = reply
            \/ ~next /\ reading'[a] = "done" /\ reply' = reply
<1>1. page[a] \in 1..PageMax /\ PageMax \in Nat /\ Retries \in Nat
  BY LogFacts, LogAssumptions
<1>2. CASE page[a] = PageMax
  <2>1. Reject(a, PaginationMax)
    BY <1>2 DEF TurnPage
  <2> QED BY <1>2, <2>1, RejectMoves
<1>3. CASE page[a] # PageMax /\ next
  <2>1. /\ page' = [page EXCEPT ![a] = @ + 1] /\ attempts' = [attempts EXCEPT ![a] = 0]
        /\ UNCHANGED <<reading, reply>>
    BY <1>3 DEF TurnPage, TurnAnyPage
  <2>2. page[a] + 1 \in 1..PageMax /\ 0 \in 0..Retries
    BY <1>1, <1>3
  <2> QED BY <1>3, <2>1, <2>2 DEF LogInv
<1>4. CASE page[a] # PageMax /\ ~next
  <2>1. reading' = [reading EXCEPT ![a] = "done"] /\ UNCHANGED <<page, attempts, reply>>
    BY <1>4 DEF TurnPage, TurnAnyPage
  <2> QED BY <1>4, <2>1 DEF LogInv
<1> QED BY <1>2, <1>3, <1>4

LEMMA AskPageKeeps ==
  ASSUME LogInv, NEW a \in Addressed, AskPage(a)
  PROVE  LogInv'
<1>1. Request(a) /\ reading[a] = "asking" /\ UNCHANGED <<addressList, errors, cut>>
  BY DEF AskPage, Request
<1>2. PICK g : g = got[a] \o Rows(a, page[a]) /\ got' = [got EXCEPT ![a] = g]
  BY DEF AskPage, Collect
<1>3. PICK next \in BOOLEAN : next = (Len(Rows(a, page[a])) = PageSize) /\ TurnPage(a, next)
  BY DEF AskPage
<1>4. /\ g \in Seq(LogRecords) /\ Len(g) <= Len(AllLogs(a))
      /\ \A n \in 1..Len(g) : g[n] = AllLogs(a)[n]
      /\ next => Len(g) = page[a] * PageSize
      /\ ~next => Len(g) = Len(AllLogs(a))
  BY <1>1, <1>2, <1>3, PageIsRead
<1>5. /\ reading' \in [Addressed -> {"asking", "done", "failed"}]
      /\ page' \in [Addressed -> 1..PageMax] /\ attempts' \in [Addressed -> 0..Retries]
      /\ \A b \in Addressed : b # a =>
           reading'[b] = reading[b] /\ page'[b] = page[b] /\ attempts'[b] = attempts[b]
      /\ \/ page[a] = PageMax /\ reading'[a] = "failed"
            /\ (reply' = reply \/ reply' = PaginationMax)
         \/ next /\ page'[a] = page[a] + 1 /\ reply' = reply
         \/ ~next /\ reading'[a] = "done" /\ reply' = reply
  BY <1>3, TurnPageMoves
<1>6. errors' \in 0..MaxErrors /\ cut' \in {cut, TRUE}
  BY <1>1 DEF LogInv
<1>7. got'[a] = g /\ AllLogs(a)' = AllLogs(a) /\ Addressed' = Addressed
  BY <1>1, <1>2 DEF LogInv, AllLogs, Addressed
<1>8. page[a] + 1 - 1 = page[a]
  BY LogFacts
<1>9. PagesOK(a)'
  <2>1. CASE reading'[a] = "failed"
    BY <1>4, <1>7, <2>1 DEF PagesOK
  <2>2. CASE next /\ page'[a] = page[a] + 1
    <3>1. Len(g) = (page'[a] - 1) * PageSize
      BY <1>4, <1>8, <2>2, LogFacts, LogAssumptions
    <3>2. page[a] = PageMax \/ reading' = reading
      BY <1>3, <2>2 DEF TurnPage, TurnAnyPage
    <3>3. page[a] # PageMax
      BY <1>5, <2>2, LogFacts, LogAssumptions
    <3>4. reading'[a] # "done"
      BY <1>1, <3>2, <3>3
    <3> QED BY <1>4, <1>7, <3>1, <3>4 DEF PagesOK
  <2>3. CASE ~next /\ reading'[a] = "done"
    BY <1>4, <1>7, <2>3 DEF PagesOK
  <2> QED BY <1>5, <2>1, <2>2, <2>3
<1>10. reply' = reply \/ ReplyOK'
  <2>1. CASE page[a] = PageMax /\ reply' = PaginationMax
    <3>1. Len(got[a]) = (PageMax - 1) * PageSize /\ Len(got[a]) <= Len(AllLogs(a))
      BY <1>1, <2>1 DEF LogInv, PagesOK
    <3>2. \E b \in Addressed' : Len(AllLogs(b)') >= (PageMax - 1) * PageSize
      BY <1>7, <3>1, LogFacts
    <3> QED BY <2>1, <3>2 DEF ReplyOK
  <2> QED BY <1>5, <2>1
<1>11. \/ reading'[a] # "asking"
       \/ page'[a] = page[a] + 1
       \/ page'[a] = page[a] /\ attempts'[a] = attempts[a] + 1
  BY <1>5
<1> QED BY <1>1, <1>2, <1>4, <1>5, <1>6, <1>9, <1>10, <1>11, AddressMoves

LEMMA AttemptFailsKeeps ==
  ASSUME LogInv, NEW a \in Addressed, NEW status \in ErrorStatuses \cup NoResponse,
         AttemptFails(a, status)
  PROVE  LogInv'
<1>1. Request(a) /\ reading[a] = "asking" /\ UNCHANGED addressList
  BY DEF AttemptFails, Request
<1>2. errors' \in 0..MaxErrors
  BY LogAssumptions DEF AttemptFails, LogInv
<1>3. AllLogs(a)' = AllLogs(a) /\ Addressed' = Addressed
  BY <1>1 DEF AllLogs, Addressed
<1>4. PICK g : g = got[a] /\ g \in Seq(LogRecords) /\ PagesOK(a)
  BY DEF LogInv, PagesOK
<1>5. CASE /\ Retryable(a, status)
           /\ attempts' = [attempts EXCEPT ![a] = @ + 1]
           /\ UNCHANGED <<reading, page, got, reply, cut>>
  <2>1. got' = [got EXCEPT ![a] = g]
    BY <1>4, <1>5 DEF LogInv
  <2>2. attempts[a] \in 0..Retries /\ attempts[a] < Retries
    BY <1>5, LogFacts DEF Retryable
  <2>3. attempts[a] + 1 \in 0..Retries
    BY <2>2, LogAssumptions
  <2>4. attempts' \in [Addressed -> 0..Retries] /\ attempts'[a] = attempts[a] + 1
        /\ \A b \in Addressed : b # a => attempts'[b] = attempts[b]
    BY <1>5, <2>3 DEF LogInv
  <2>5. PagesOK(a)'
    BY <1>3, <1>4, <1>5 DEF PagesOK
  <2>6. reading' \in [Addressed -> {"asking", "done", "failed"}]
        /\ page' \in [Addressed -> 1..PageMax] /\ cut' \in {cut, TRUE} /\ reply' = reply
    BY <1>5 DEF LogInv
  <2> QED BY <1>1, <1>2, <1>4, <1>5, <2>1, <2>4, <2>5, <2>6, AddressMoves
<1>6. CASE Collect(a, <<>>) /\ TurnPage(a, FALSE) /\ cut' = TRUE
  <2>1. g \o <<>> = g
    BY <1>4, ConcatEmptySeq
  <2>2. got' = [got EXCEPT ![a] = g] /\ got'[a] = g
    BY <1>4, <1>6, <2>1 DEF Collect, LogInv
  <2>3. /\ reading' \in [Addressed -> {"asking", "done", "failed"}]
        /\ page' \in [Addressed -> 1..PageMax] /\ attempts' \in [Addressed -> 0..Retries]
        /\ \A b \in Addressed : b # a =>
             reading'[b] = reading[b] /\ page'[b] = page[b] /\ attempts'[b] = attempts[b]
        /\ \/ page[a] = PageMax /\ reading'[a] = "failed"
              /\ (reply' = reply \/ reply' = PaginationMax)
           \/ reading'[a] = "done" /\ reply' = reply
    BY <1>6, TurnPageMoves
  <2>4. PagesOK(a)'
    BY <1>3, <1>4, <1>6, <2>2, <2>3 DEF PagesOK
  <2>5. reply' = reply \/ ReplyOK'
    <3>1. CASE page[a] = PageMax /\ reply' = PaginationMax
      <4>1. Len(got[a]) = (PageMax - 1) * PageSize /\ Len(got[a]) <= Len(AllLogs(a))
        BY <1>1, <3>1 DEF LogInv, PagesOK
      <4>2. \E b \in Addressed' : Len(AllLogs(b)') >= (PageMax - 1) * PageSize
        BY <1>3, <4>1, LogFacts
      <4> QED BY <3>1, <4>2 DEF ReplyOK
    <3> QED BY <2>3, <3>1
  <2>6. cut' \in {cut, TRUE} /\ reading'[a] # "asking"
    BY <1>6, <2>3
  <2> QED BY <1>1, <1>2, <1>4, <2>2, <2>3, <2>4, <2>5, <2>6, AddressMoves
<1>7. CASE Reject(a, TheError(status)) /\ UNCHANGED <<got, cut>>
  <2>1. got' = [got EXCEPT ![a] = g] /\ cut' \in {cut, TRUE}
    BY <1>4, <1>7 DEF LogInv
  <2>2. /\ reading' \in [Addressed -> {"asking", "done", "failed"}] /\ reading'[a] = "failed"
        /\ page' \in [Addressed -> 1..PageMax] /\ attempts' \in [Addressed -> 0..Retries]
        /\ \A b \in Addressed : b # a =>
             reading'[b] = reading[b] /\ page'[b] = page[b] /\ attempts'[b] = attempts[b]
        /\ reply' = reply \/ reply' = TheError(status)
    BY <1>7, RejectMoves
  <2>3. reply' = reply \/ ReplyOK'
    BY <2>2 DEF ReplyOK
  <2>4. PagesOK(a)'
    BY <1>3, <1>4, <1>7, <2>2 DEF PagesOK
  <2>5. reading'[a] # "asking"
    BY <2>2
  <2> QED BY <1>1, <1>2, <1>4, <2>1, <2>2, <2>3, <2>4, <2>5, AddressMoves
<1> QED BY <1>5, <1>6, <1>7 DEF AttemptFails

LEMMA MergeKeeps == ASSUME LogInv, Merge PROVE LogInv'
<1>1. UNCHANGED <<addressList, reading, page, attempts, got, requests, errors, cut>>
  BY DEF Merge
<1>2. Addressed' = Addressed /\ \A a \in Addressed : AllLogs(a)' = AllLogs(a)
  BY <1>1 DEF Addressed, AllLogs
<1>3. AllDone'
  BY <1>1, <1>2 DEF Merge, AllDone, Addressed
<1>4. \E kept \in BOOLEAN : reply' = TheLogs(Sorted(kept)')
  <2>1. \A kept \in BOOLEAN : Sorted(kept)' = Sorted(kept)
    BY <1>1 DEF Sorted, Collected, LogAt, Precedes, ReadBefore
  <2> QED BY <2>1 DEF Merge
<1>5. ReplyOK'
  BY <1>3, <1>4 DEF ReplyOK
<1>6. \A a \in Addressed' : PagesOK(a)'
  BY <1>1, <1>2 DEF LogInv, PagesOK
<1>7. \E S : Attempted(S)'
  BY <1>1, <1>2 DEF LogInv, Attempted
<1> QED BY <1>1, <1>2, <1>5, <1>6, <1>7 DEF LogInv

LEMMA LogPagesStart == LogPagesInit => LogInv
<1> SUFFICES ASSUME LogPagesInit PROVE LogInv
  OBVIOUS
<1>1. addressList \in Seq(DOMAIN LogsOf) /\ addressList \in LogQueries
  BY LogAssumptions DEF LogPagesInit
<1>2. /\ reading \in [Addressed -> {"asking", "done", "failed"}]
      /\ page \in [Addressed -> 1..PageMax] /\ attempts \in [Addressed -> 0..Retries]
      /\ got \in [Addressed -> Seq(LogRecords)] /\ requests = 0 /\ errors \in 0..MaxErrors /\ cut = FALSE
      /\ reply = NoReply
  BY LogAssumptions DEF LogPagesInit, Addressed
<1>3. ASSUME NEW a \in Addressed PROVE PagesOK(a)
  <2>1. got[a] = <<>> /\ page[a] = 1 /\ got[a] \in Seq(LogRecords) /\ Len(got[a]) = 0
        /\ reading[a] = IF addressList[a] = ZeroAddress THEN "done" ELSE "asking"
    BY <1>3 DEF LogPagesInit, Addressed
  <2>2. AllLogs(a) \in Seq(LogRecords) /\ Len(AllLogs(a)) \in Nat
    <3>1. addressList[a] \in DOMAIN LogsOf
      BY <1>1, <1>3 DEF Addressed
    <3> QED BY <3>1, LogAssumptions DEF AllLogs
  <2>3. reading[a] = "done" => AllLogs(a) = <<>>
    BY <2>1, LogAssumptions DEF AllLogs
  <2>4. (1 - 1) * PageSize = 0
    BY LogAssumptions
  <2> QED BY <2>1, <2>2, <2>3, <2>4 DEF PagesOK
<1>4. Attempted({})
  BY <1>2, FS_EmptySet DEF Attempted
<1> QED BY <1>1, <1>2, <1>3, <1>4 DEF LogInv, ReplyOK

LEMMA LogPagesKeep == ASSUME LogInv, [LogPagesNext]_logVars PROVE LogInv'
<1>1. CASE \E a \in Addressed : AskPage(a)
  BY <1>1, AskPageKeeps
<1>2. CASE \E a \in Addressed : \E status \in ErrorStatuses \union NoResponse : AttemptFails(a, status)
  BY <1>2, AttemptFailsKeeps
<1>3. CASE Merge
  BY <1>3, MergeKeeps
<1>4. CASE UNCHANGED logVars
  <2>1. UNCHANGED <<addressList, reading, page, attempts, got, reply, requests, errors, cut>>
    BY <1>4 DEF logVars
  <2>2. Addressed' = Addressed /\ \A a \in Addressed : AllLogs(a)' = AllLogs(a)
    BY <2>1 DEF Addressed, AllLogs
  <2>3. \A kept \in BOOLEAN : Sorted(kept)' = Sorted(kept)
    BY <2>1 DEF Sorted, Collected, LogAt, Precedes, ReadBefore
  <2>4. ReplyOK'
    <3>1. AllDone => AllDone'
      BY <2>1, <2>2 DEF AllDone
    <3> QED BY <2>1, <2>2, <2>3, <3>1 DEF LogInv, ReplyOK
  <2>5. \A a \in Addressed' : PagesOK(a)'
    BY <2>1, <2>2 DEF LogInv, PagesOK
  <2>6. \E S : Attempted(S)'
    BY <2>1, <2>2 DEF LogInv, Attempted
  <2> QED BY <2>1, <2>2, <2>4, <2>5, <2>6 DEF LogInv
<1> QED BY <1>1, <1>2, <1>3, <1>4 DEF LogPagesNext, Addressed

-----------------------------------------------------------------------------
LEMMA LogPagesTyped == LogInv => LogPagesTypeOK
<1> SUFFICES ASSUME LogInv PROVE LogPagesTypeOK
  OBVIOUS
<1>1. ASSUME NEW a \in Addressed PROVE Range(got[a]) \subseteq Range(AllLogs(a))
  <2>1. /\ got[a] \in Seq(LogRecords) /\ AllLogs(a) \in Seq(LogRecords)
        /\ Len(got[a]) <= Len(AllLogs(a)) /\ Len(got[a]) \in Nat /\ Len(AllLogs(a)) \in Nat
        /\ \A n \in 1..Len(got[a]) : got[a][n] = AllLogs(a)[n]
    BY <1>1, LogFacts DEF LogInv, PagesOK
  <2>2. DOMAIN got[a] = 1..Len(got[a]) /\ DOMAIN AllLogs(a) = 1..Len(AllLogs(a))
    BY <2>1
  <2>3. \A n \in DOMAIN got[a] : n \in DOMAIN AllLogs(a) /\ got[a][n] = AllLogs(a)[n]
    BY <2>1, <2>2
  <2> QED BY <2>3 DEF Range
<1>2. reply.kind \in {"none", "PAGINATION_MAX", "error", "logs"}
  BY DEF LogInv, ReplyOK, NoReply, PaginationMax, TheError, TheLogs
<1> QED BY <1>1, <1>2 DEF LogInv, LogPagesTypeOK, Addressed, AllLogs

(* What a reply with logs holds.                                           *)
LEMMA MergedIsRight ==
  ASSUME LogInv, reply.kind = "logs"
  PROVE  /\ AllDone
         /\ Range(reply.logs) = {LogAt(p) : p \in Collected}
         /\ \A m, n \in DOMAIN reply.logs : m < n => reply.logs[m].at <= reply.logs[n].at
<1>1. AllDone /\ \E kept \in BOOLEAN : reply = TheLogs(Sorted(kept))
  BY DEF LogInv, ReplyOK, NoReply, PaginationMax, TheError, TheLogs
<1>2. PICK kept \in BOOLEAN : reply = TheLogs(Sorted(kept))
  BY <1>1
<1>3. reply.logs = Sorted(kept)
  BY <1>2 DEF TheLogs
<1> QED BY <1>1, <1>3, SortedIsRight, LogFacts

LEMMA MergedIsWhole == LogInv => AnswerIsWhole
<1> SUFFICES ASSUME LogInv, reply.kind = "logs"
             PROVE  LET wanted == UNION {Range(LogsOf[address]) : address \in Range(addressList)} IN
                    IF cut THEN Range(reply.logs) \subseteq wanted ELSE Range(reply.logs) = wanted
  BY DEF AnswerIsWhole
<1> DEFINE wanted == UNION {Range(LogsOf[address]) : address \in Range(addressList)}
<1>1. AllDone /\ Range(reply.logs) = {LogAt(p) : p \in Collected} /\ cut \in BOOLEAN
  BY MergedIsRight DEF LogInv
<1>2. \A a \in Addressed : addressList[a] \in Range(addressList)
  BY DEF Range, Addressed
<1>3. \A a \in Addressed : Range(got[a]) \subseteq Range(AllLogs(a))
  BY LogPagesTyped DEF LogPagesTypeOK, Addressed, AllLogs
<1>4. ASSUME NEW p \in Collected PROVE LogAt(p) \in wanted
  <2>1. p[1] \in Addressed /\ p[2] \in DOMAIN got[p[1]]
    BY LogFacts, CollectedIsFinite, <1>4
  <2>2. LogAt(p) \in Range(got[p[1]])
    BY <2>1 DEF LogAt, Range
  <2>3. LogAt(p) \in Range(AllLogs(p[1]))
    BY <1>3, <2>1, <2>2
  <2> QED BY <1>2, <2>1, <2>3 DEF AllLogs
<1>5. ASSUME ~cut, NEW log \in wanted PROVE log \in {LogAt(p) : p \in Collected}
  <2>1. PICK address \in Range(addressList) : log \in Range(LogsOf[address])
    BY <1>5
  <2>2. PICK a \in Addressed : addressList[a] = address
    BY <2>1 DEF Range, Addressed
  <2>3. PICK n \in DOMAIN AllLogs(a) : log = AllLogs(a)[n]
    BY <2>1, <2>2 DEF Range, AllLogs
  <2>4. /\ AllLogs(a) \in Seq(LogRecords) /\ got[a] \in Seq(LogRecords)
        /\ Len(got[a]) = Len(AllLogs(a)) /\ \A k \in 1..Len(got[a]) : got[a][k] = AllLogs(a)[k]
    BY <1>1, <1>5, LogFacts DEF LogInv, PagesOK, AllDone
  <2>5. n \in DOMAIN got[a] /\ got[a][n] = log
    BY <2>3, <2>4
  <2>6. <<a, n>> \in Collected /\ LogAt(<<a, n>>) = log
    BY <2>5, LogFacts, CollectedIsFinite DEF LogAt
  <2> QED BY <2>6
<1>6. Range(reply.logs) \subseteq wanted
  BY <1>1, <1>4
<1>7. ~cut => wanted \subseteq Range(reply.logs)
  BY <1>1, <1>5
<1> QED BY <1>1, <1>6, <1>7

LEMMA RequestsAreBounded == LogInv => RequestsBounded
<1> SUFFICES ASSUME LogInv PROVE RequestsBounded
  OBVIOUS
<1>1. PICK S : Attempted(S)
  BY DEF LogInv
<1> DEFINE Tries == (Addressed \X (1..PageMax)) \X (0..Retries)
<1>2. Len(addressList) \in Int /\ PageMax \in Int /\ Retries \in Int /\ 0 \in Int /\ 1 \in Int
      /\ Addressed = 1..Len(addressList) /\ PageMax >= 1 /\ Retries >= 0 /\ Len(addressList) >= 0
  BY LogFacts, LogAssumptions
<1>3. /\ IsFiniteSet(Addressed) /\ Cardinality(Addressed) = Len(addressList)
      /\ IsFiniteSet(1..PageMax) /\ Cardinality(1..PageMax) = PageMax
      /\ IsFiniteSet(0..Retries) /\ Cardinality(0..Retries) = Retries + 1
  <2>1. /\ IsFiniteSet(Addressed)
        /\ Cardinality(Addressed) = IF 1 > Len(addressList) THEN 0 ELSE Len(addressList) - 1 + 1
    BY ONLY <1>2, FS_Interval
  <2>2. IsFiniteSet(1..PageMax) /\ Cardinality(1..PageMax) = IF 1 > PageMax THEN 0 ELSE PageMax - 1 + 1
    BY ONLY <1>2, FS_Interval
  <2>3. IsFiniteSet(0..Retries) /\ Cardinality(0..Retries) = IF 0 > Retries THEN 0 ELSE Retries - 0 + 1
    BY ONLY <1>2, FS_Interval
  <2> QED BY ONLY <1>2, <2>1, <2>2, <2>3
<1>4. /\ IsFiniteSet(Addressed \X (1..PageMax))
      /\ Cardinality(Addressed \X (1..PageMax)) = Len(addressList) * PageMax
  BY <1>3, FS_Product, ZenonT(40)
<1>5. IsFiniteSet(Tries) /\ Cardinality(Tries) = (Len(addressList) * PageMax) * (Retries + 1)
  BY <1>3, <1>4, FS_Product, ZenonT(40)
<1>6. S \in SUBSET Tries /\ Cardinality(S) = requests
  BY <1>1 DEF Attempted
<1>7. Cardinality(S) <= Cardinality(Tries)
  BY ONLY <1>5, <1>6, FS_Subset
<1> QED BY <1>5, <1>6, <1>7 DEF RequestsBounded

(* The logs of several addresses are whole and in the order of their       *)
(* blocks, refused only if there are many, and read with a bounded number  *)
(* of requests, for any addresses, logs, pages and failures                *)
(* (CommonService.ts, getLogsByAddress; mirrorNodeClient.ts).              *)
THEOREM LogsAreRight == LogPagesSpec => []LogsRight
<1>1. LogInv => LogsRight
  <2> SUFFICES ASSUME LogInv PROVE LogsRight
    OBVIOUS
  <2>1. AnswerInTimeOrder
    BY MergedIsRight DEF AnswerInTimeOrder
  <2>2. RefusedOnlyIfLong
    <3> SUFFICES ASSUME reply = PaginationMax
                 PROVE  \E a \in Addressed : Len(AllLogs(a)) >= (PageMax - 1) * PageSize
      BY DEF RefusedOnlyIfLong, Addressed, AllLogs
    <3>1. reply.kind = "PAGINATION_MAX"
      BY DEF PaginationMax
    <3>2. /\ NoReply.kind # "PAGINATION_MAX"
          /\ \A status : TheError(status).kind # "PAGINATION_MAX"
          /\ \A s : TheLogs(s).kind # "PAGINATION_MAX"
      BY DEF NoReply, TheError, TheLogs
    <3> QED BY <3>1, <3>2 DEF LogInv, ReplyOK
  <2> QED BY <2>1, <2>2, LogPagesTyped, MergedIsWhole, RequestsAreBounded DEF LogsRight
<1> QED BY <1>1, LogPagesStart, LogPagesKeep, PTL DEF LogPagesSpec

-----------------------------------------------------------------------------
(***************************************************************************)
(* The parameters of a request.                                            *)
(***************************************************************************)

(* The types of the rules, and those of them that a tag has.               *)
RuleTypes ==
  {"hex", "blockNumber", "array", "transaction", "filter", "address", "blockNumber|blockHash",
   "hex64", "blockHash", "boolean", "blockParams", "transactionHash",
   "transactionHash|transactionId", "tracerConfigWrapper"}
MovingTypes == {"blockNumber", "blockNumber|blockHash", "blockParams"}

(* What the rules, the layout and the cached position of a method have to  *)
(* do with each other.                                                     *)
RowOK(m, row) ==
  /\ row.rules \in Seq([type : RuleTypes, required : BOOLEAN])
  /\ row.takes = Len(row.rules)
  /\ row.layout \in {"details", "default", "positions", "counted"}
  /\ row.layout = "details" => row.takes = 0
  /\ row.layout = "default" => row.takes > 0 /\ \A i \in 1..row.takes : row.rules[i].required
  /\ row.skip \in -1 .. row.takes
  /\ row.skip >= 0 =>
       \A i \in 1..row.takes :
         /\ row.rules[i].type \in MovingTypes => i = row.skip
         /\ row.rules[i].type = "filter" => i = 1 /\ m = "getLogs"
  /\ m \in {"traceTransaction", "traceBlockByNumber"} =>
       /\ row.takes = 2 /\ row.layout = "positions"
       /\ row.rules[2].type = "tracerConfigWrapper"

RowsOK(table) == \A m \in DOMAIN table : RowOK(m, table[m])

LEMMA JoinedRows ==
  ASSUME NEW f, NEW g, RowsOK(f), RowsOK(g)
  PROVE  RowsOK(Joined(f, g))
BY DEF RowsOK, Joined

Rules == [type : RuleTypes, required : BOOLEAN]
Layouts == {"default", "positions", "counted"}
TracesAre(m) == m \in {"traceTransaction", "traceBlockByNumber"}

(* The rule at a position agrees with the rest of the row.                 *)
RuleOK(m, r, i, layout, skip) ==
  /\ layout = "default" => r.required
  /\ skip >= 0 => /\ r.type \in MovingTypes => i = skip
                  /\ r.type = "filter" => i = 1 /\ m = "getLogs"

LEMMA RowIs ==
  ASSUME NEW m, NEW row, row.rules \in Seq(Rules), row.takes \in Nat, row.takes > 0,
         row.takes = Len(row.rules),
         row.layout \in Layouts, row.skip \in -1 .. row.takes,
         \A i \in 1..row.takes : RuleOK(m, row.rules[i], i, row.layout, row.skip),
         TracesAre(m) => /\ row.takes = 2 /\ row.layout = "positions"
                         /\ row.rules[2].type = "tracerConfigWrapper"
  PROVE  RowOK(m, row)
<1>1. row.layout \in {"details", "default", "positions", "counted"} /\ row.layout # "details"
  BY DEF Layouts
<1>2. row.layout = "default" => \A i \in 1..row.takes : row.rules[i].required
  BY DEF RuleOK
<1>3. row.skip >= 0 =>
        \A i \in 1..row.takes :
          /\ row.rules[i].type \in MovingTypes => i = row.skip
          /\ row.rules[i].type = "filter" => i = 1 /\ m = "getLogs"
  BY DEF RuleOK
<1> QED BY <1>1, <1>2, <1>3 DEF RowOK, Rules, TracesAre

LEMMA OneRule ==
  ASSUME NEW m, ~TracesAre(m), NEW r \in Rules,
         NEW layout \in Layouts, NEW skip \in -1..1,
         RuleOK(m, r, 1, layout, skip)
  PROVE  RowOK(m, Method(<<r>>, layout, 1, skip))
<1>1. PICK row : row = Method(<<r>>, layout, 1, skip)
  OBVIOUS
<1>2. row.rules = <<r>> /\ row.layout = layout /\ row.takes = 1 /\ row.skip = skip
  BY <1>1 DEF Method
<1>3. <<r>> \in Seq(Rules)
  OBVIOUS
<1>4. PICK rules \in Seq(Rules) : rules = <<r>> /\ Len(rules) = 1 /\ rules[1] = r
  BY <1>3
<1>5. \A i \in 1..row.takes : RuleOK(m, row.rules[i], i, row.layout, row.skip)
  BY <1>2, <1>4
<1>6. /\ row.rules \in Seq(Rules) /\ row.takes = Len(row.rules) /\ row.takes \in Nat /\ row.takes > 0
      /\ row.layout \in Layouts /\ row.skip \in -1 .. row.takes
  BY <1>2, <1>4
<1>7. ~TracesAre(m)
  OBVIOUS
<1> QED BY <1>1, <1>5, <1>6, <1>7, RowIs

LEMMA TwoRules ==
  ASSUME NEW m, NEW r \in Rules, NEW s \in Rules,
         NEW layout \in Layouts, NEW skip \in -1..2,
         RuleOK(m, r, 1, layout, skip), RuleOK(m, s, 2, layout, skip),
         TracesAre(m) => layout = "positions" /\ s.type = "tracerConfigWrapper"
  PROVE  RowOK(m, Method(<<r, s>>, layout, 2, skip))
<1>1. PICK row : row = Method(<<r, s>>, layout, 2, skip)
  OBVIOUS
<1>2. row.rules = <<r, s>> /\ row.layout = layout /\ row.takes = 2 /\ row.skip = skip
  BY <1>1 DEF Method
<1>3. <<r, s>> \in Seq(Rules)
  OBVIOUS
<1>4. PICK rules \in Seq(Rules) : rules = <<r, s>> /\ Len(rules) = 2 /\ rules[1] = r /\ rules[2] = s
  BY <1>3
<1>5. \A i \in 1..row.takes : RuleOK(m, row.rules[i], i, row.layout, row.skip)
  BY <1>2, <1>4
<1>6. /\ row.rules \in Seq(Rules) /\ row.takes = Len(row.rules) /\ row.takes \in Nat /\ row.takes > 0
      /\ row.layout \in Layouts /\ row.skip \in -1 .. row.takes
  BY <1>2, <1>4
<1>7. TracesAre(m) => /\ row.takes = 2 /\ row.layout = "positions"
                      /\ row.rules[2].type = "tracerConfigWrapper"
  BY <1>2, <1>4
<1> QED BY <1>1, <1>5, <1>6, <1>7, RowIs

LEMMA ThreeRules ==
  ASSUME NEW m, ~TracesAre(m), NEW r \in Rules, NEW s \in Rules, NEW t \in Rules,
         NEW layout \in Layouts, NEW skip \in -1..3,
         RuleOK(m, r, 1, layout, skip), RuleOK(m, s, 2, layout, skip), RuleOK(m, t, 3, layout, skip)
  PROVE  RowOK(m, Method(<<r, s, t>>, layout, 3, skip))
<1>1. PICK row : row = Method(<<r, s, t>>, layout, 3, skip)
  OBVIOUS
<1>2. row.rules = <<r, s, t>> /\ row.layout = layout /\ row.takes = 3 /\ row.skip = skip
  BY <1>1 DEF Method
<1>3. <<r, s, t>> \in Seq(Rules)
  OBVIOUS
<1>4. PICK rules \in Seq(Rules) : rules = <<r, s, t>> /\ Len(rules) = 3 /\ rules[1] = r /\ rules[2] = s /\ rules[3] = t
  BY <1>3
<1>5. \A i \in 1..row.takes : RuleOK(m, row.rules[i], i, row.layout, row.skip)
  BY <1>2, <1>4
<1>6. /\ row.rules \in Seq(Rules) /\ row.takes = Len(row.rules) /\ row.takes \in Nat /\ row.takes > 0
      /\ row.layout \in Layouts /\ row.skip \in -1 .. row.takes
  BY <1>2, <1>4
<1>7. ~TracesAre(m)
  OBVIOUS
<1> QED BY <1>1, <1>5, <1>6, <1>7, RowIs

(* A rule of a known type is a rule.                                       *)
LEMMA RulesAre ==
  ASSUME NEW type \in RuleTypes
  PROVE  /\ Required(type) \in Rules /\ Required(type).type = type /\ Required(type).required
         /\ Optional(type) \in Rules /\ Optional(type).type = type
BY DEF Required, Optional, Rules

LEMMA FeeRows == RowsOK(FeeMethods)
<1>1. RowOK("feeHistory", Method(<<Required("hex"), Required("blockNumber"), Optional("array")>>,
                                 "counted", 3, 2))
  <2>1. /\ RuleOK("feeHistory", Required("hex"), 1, "counted", 2)
        /\ RuleOK("feeHistory", Required("blockNumber"), 2, "counted", 2)
        /\ RuleOK("feeHistory", Optional("array"), 3, "counted", 2)
    BY RulesAre DEF RuleOK, RuleTypes, MovingTypes
  <2>2. Required("hex") \in Rules /\ Required("blockNumber") \in Rules /\ Optional("array") \in Rules
    BY RulesAre DEF RuleTypes
  <2>3. ~TracesAre("feeHistory") /\ "counted" \in Layouts /\ 2 \in -1..3
    BY DEF Layouts, TracesAre
  <2> QED BY ONLY <2>1, <2>2, <2>3, ThreeRules
<1> QED BY <1>1 DEF FeeMethods, RowsOK

LEMMA EstimateRows == RowsOK(EstimateMethods)
<1>1. RowOK("estimateGas", Method(<<Required("transaction"), Optional("blockNumber")>>, "positions", 2, -1))
  <2>1. /\ RuleOK("estimateGas", Required("transaction"), 1, "positions", -1)
        /\ RuleOK("estimateGas", Optional("blockNumber"), 2, "positions", -1)
    BY RulesAre DEF RuleOK, RuleTypes, MovingTypes
  <2>2. Required("transaction") \in Rules /\ Optional("blockNumber") \in Rules
    BY RulesAre DEF RuleTypes
  <2> QED BY <2>1, <2>2, RulesAre, TwoRules DEF Layouts, TracesAre
<1> QED BY <1>1 DEF EstimateMethods, RowsOK

LEMMA FilterRows == RowsOK(FilterMethods)
<1>1. ASSUME NEW m \in {"getFilterLogs", "getFilterChanges", "uninstallFilter"}
      PROVE  RowOK(m, Method(<<Required("hex")>>, "default", 1, -1))
  <2>1. RuleOK(m, Required("hex"), 1, "default", -1)
    BY RulesAre DEF RuleOK, RuleTypes, MovingTypes
  <2>2. Required("hex") \in Rules
    BY RulesAre DEF RuleTypes
  <2> QED BY <1>1, <2>1, <2>2, RulesAre, OneRule DEF Layouts, TracesAre
<1>2. RowOK("newFilter", Method(<<Required("filter")>>, "default", 1, -1))
  <2>1. RuleOK("newFilter", Required("filter"), 1, "default", -1)
    BY RulesAre DEF RuleOK, RuleTypes, MovingTypes
  <2>2. Required("filter") \in Rules
    BY RulesAre DEF RuleTypes
  <2> QED BY <2>1, <2>2, RulesAre, OneRule DEF Layouts, TracesAre
<1>3. RowsOK([m \in {"getFilterLogs", "getFilterChanges", "uninstallFilter"} |->
                Method(<<Required("hex")>>, "default", 1, -1)])
  BY <1>1 DEF RowsOK
<1>4. RowsOK([newFilter |-> Method(<<Required("filter")>>, "default", 1, -1)])
  BY <1>2 DEF RowsOK
<1> QED BY <1>3, <1>4, JoinedRows DEF FilterMethods

LEMMA StateRows == RowsOK(StateMethods)
<1>1. ASSUME NEW m \in {"getBalance", "getCode"}
      PROVE  RowOK(m, Method(<<Required("address"), Required("blockNumber|blockHash")>>,
                             "default", 2, 2))
  <2>1. /\ RuleOK(m, Required("address"), 1, "default", 2)
        /\ RuleOK(m, Required("blockNumber|blockHash"), 2, "default", 2)
    BY RulesAre DEF RuleOK, RuleTypes, MovingTypes
  <2>2. Required("address") \in Rules /\ Required("blockNumber|blockHash") \in Rules
    BY RulesAre DEF RuleTypes
  <2> QED BY <1>1, <2>1, <2>2, RulesAre, TwoRules DEF Layouts, TracesAre
<1>2. RowOK("getStorageAt", Method(<<Required("address"), Required("hex64"),
                                     Required("blockNumber|blockHash")>>, "positions", 3, 3))
  <2>1. /\ RuleOK("getStorageAt", Required("address"), 1, "positions", 3)
        /\ RuleOK("getStorageAt", Required("hex64"), 2, "positions", 3)
        /\ RuleOK("getStorageAt", Required("blockNumber|blockHash"), 3, "positions", 3)
    BY RulesAre DEF RuleOK, RuleTypes, MovingTypes
  <2>2. Required("address") \in Rules /\ Required("hex64") \in Rules /\ Required("blockNumber|blockHash") \in Rules
    BY RulesAre DEF RuleTypes
  <2> QED BY <2>1, <2>2, RulesAre, ThreeRules DEF Layouts, TracesAre
<1>3. RowsOK([m \in {"getBalance", "getCode"} |->
                Method(<<Required("address"), Required("blockNumber|blockHash")>>, "default", 2, 2)])
  BY <1>1 DEF RowsOK
<1>4. RowsOK([getStorageAt |-> Method(<<Required("address"), Required("hex64"),
                                        Required("blockNumber|blockHash")>>, "positions", 3, 3)])
  BY <1>2 DEF RowsOK
<1> QED BY <1>3, <1>4, JoinedRows DEF StateMethods

LEMMA BlockRows == RowsOK(BlockMethods)
<1>1. RowOK("getBlockByHash", Method(<<Required("blockHash"), Required("boolean")>>, "default", 2, 0))
  <2>1. /\ RuleOK("getBlockByHash", Required("blockHash"), 1, "default", 0)
        /\ RuleOK("getBlockByHash", Required("boolean"), 2, "default", 0)
    BY RulesAre DEF RuleOK, RuleTypes, MovingTypes
  <2>2. Required("blockHash") \in Rules /\ Required("boolean") \in Rules
    BY RulesAre DEF RuleTypes
  <2> QED BY <2>1, <2>2, RulesAre, TwoRules DEF Layouts, TracesAre
<1>2. RowOK("getBlockTransactionCountByHash", Method(<<Required("blockHash")>>, "default", 1, 0))
  <2>1. RuleOK("getBlockTransactionCountByHash", Required("blockHash"), 1, "default", 0)
    BY RulesAre DEF RuleOK, RuleTypes, MovingTypes
  <2>2. Required("blockHash") \in Rules
    BY RulesAre DEF RuleTypes
  <2> QED BY <2>1, <2>2, RulesAre, OneRule DEF Layouts, TracesAre
<1>3. RowOK("getBlockTransactionCountByNumber", Method(<<Required("blockNumber")>>, "default", 1, 1))
  <2>1. RuleOK("getBlockTransactionCountByNumber", Required("blockNumber"), 1, "default", 1)
    BY RulesAre DEF RuleOK, RuleTypes, MovingTypes
  <2>2. Required("blockNumber") \in Rules
    BY RulesAre DEF RuleTypes
  <2> QED BY <2>1, <2>2, RulesAre, OneRule DEF Layouts, TracesAre
<1>4. RowOK("getTransactionByBlockHashAndIndex", Method(<<Required("blockHash"), Required("hex")>>, "default", 2, 0))
  <2>1. /\ RuleOK("getTransactionByBlockHashAndIndex", Required("blockHash"), 1, "default", 0)
        /\ RuleOK("getTransactionByBlockHashAndIndex", Required("hex"), 2, "default", 0)
    BY RulesAre DEF RuleOK, RuleTypes, MovingTypes
  <2>2. Required("blockHash") \in Rules /\ Required("hex") \in Rules
    BY RulesAre DEF RuleTypes
  <2> QED BY <2>1, <2>2, RulesAre, TwoRules DEF Layouts, TracesAre
<1>5. RowOK("getTransactionByBlockNumberAndIndex", Method(<<Required("blockNumber"), Required("hex")>>, "default", 2, 1))
  <2>1. /\ RuleOK("getTransactionByBlockNumberAndIndex", Required("blockNumber"), 1, "default", 1)
        /\ RuleOK("getTransactionByBlockNumberAndIndex", Required("hex"), 2, "default", 1)
    BY RulesAre DEF RuleOK, RuleTypes, MovingTypes
  <2>2. Required("blockNumber") \in Rules /\ Required("hex") \in Rules
    BY RulesAre DEF RuleTypes
  <2> QED BY <2>1, <2>2, RulesAre, TwoRules DEF Layouts, TracesAre
<1>6. RowOK("getBlockByNumber", Method(<<Required("blockNumber"), Required("boolean")>>, "default", 2, 1))
  <2>1. /\ RuleOK("getBlockByNumber", Required("blockNumber"), 1, "default", 1)
        /\ RuleOK("getBlockByNumber", Required("boolean"), 2, "default", 1)
    BY RulesAre DEF RuleOK, RuleTypes, MovingTypes
  <2>2. Required("blockNumber") \in Rules /\ Required("boolean") \in Rules
    BY RulesAre DEF RuleTypes
  <2> QED BY <2>1, <2>2, RulesAre, TwoRules DEF Layouts, TracesAre
<1> QED BY <1>1, <1>2, <1>3, <1>4, <1>5, <1>6 DEF BlockMethods, RowsOK

LEMMA TransactionRows == RowsOK(TransactionMethods)
<1>1. RowOK("getTransactionCount", Method(<<Required("address"), Required("blockNumber|blockHash")>>, "default", 2, 2))
  <2>1. /\ RuleOK("getTransactionCount", Required("address"), 1, "default", 2)
        /\ RuleOK("getTransactionCount", Required("blockNumber|blockHash"), 2, "default", 2)
    BY RulesAre DEF RuleOK, RuleTypes, MovingTypes
  <2>2. Required("address") \in Rules /\ Required("blockNumber|blockHash") \in Rules
    BY RulesAre DEF RuleTypes
  <2> QED BY <2>1, <2>2, RulesAre, TwoRules DEF Layouts, TracesAre
<1>2. RowOK("sendRawTransaction", Method(<<Required("hex")>>, "default", 1, -1))
  <2>1. RuleOK("sendRawTransaction", Required("hex"), 1, "default", -1)
    BY RulesAre DEF RuleOK, RuleTypes, MovingTypes
  <2>2. Required("hex") \in Rules
    BY RulesAre DEF RuleTypes
  <2> QED BY <2>1, <2>2, RulesAre, OneRule DEF Layouts, TracesAre
<1>3. RowOK("call", Method(<<Required("transaction"), Required("blockParams")>>, "default", 2, 2))
  <2>1. /\ RuleOK("call", Required("transaction"), 1, "default", 2)
        /\ RuleOK("call", Required("blockParams"), 2, "default", 2)
    BY RulesAre DEF RuleOK, RuleTypes, MovingTypes
  <2>2. Required("transaction") \in Rules /\ Required("blockParams") \in Rules
    BY RulesAre DEF RuleTypes
  <2> QED BY <2>1, <2>2, RulesAre, TwoRules DEF Layouts, TracesAre
<1> QED BY <1>1, <1>2, <1>3 DEF TransactionMethods, RowsOK

LEMMA LookUpRows == RowsOK(LookUpMethods)
<1>1. ASSUME NEW m \in {"getTransactionByHash", "getTransactionReceipt"}
      PROVE  RowOK(m, Method(<<Required("transactionHash")>>, "default", 1, 0))
  <2>1. RuleOK(m, Required("transactionHash"), 1, "default", 0)
    BY RulesAre DEF RuleOK, RuleTypes, MovingTypes
  <2>2. Required("transactionHash") \in Rules
    BY RulesAre DEF RuleTypes
  <2> QED BY <1>1, <2>1, <2>2, RulesAre, OneRule DEF Layouts, TracesAre
<1>2. RowOK("getLogs", Method(<<Required("filter")>>, "default", 1, 0))
  <2>1. RuleOK("getLogs", Required("filter"), 1, "default", 0)
    BY RulesAre DEF RuleOK, RuleTypes, MovingTypes
  <2>2. Required("filter") \in Rules
    BY RulesAre DEF RuleTypes
  <2> QED BY <2>1, <2>2, RulesAre, OneRule DEF Layouts, TracesAre
<1>3. RowOK("getBlockReceipts", Method(<<Required("blockNumber|blockHash")>>, "default", 1, 1))
  <2>1. RuleOK("getBlockReceipts", Required("blockNumber|blockHash"), 1, "default", 1)
    BY RulesAre DEF RuleOK, RuleTypes, MovingTypes
  <2>2. Required("blockNumber|blockHash") \in Rules
    BY RulesAre DEF RuleTypes
  <2> QED BY <2>1, <2>2, RulesAre, OneRule DEF Layouts, TracesAre
<1>4. RowsOK([m \in {"getTransactionByHash", "getTransactionReceipt"} |->
                Method(<<Required("transactionHash")>>, "default", 1, 0)])
  BY <1>1 DEF RowsOK
<1>5. RowsOK([getLogs |-> Method(<<Required("filter")>>, "default", 1, 0),
              getBlockReceipts |-> Method(<<Required("blockNumber|blockHash")>>, "default", 1, 1)])
  BY <1>2, <1>3 DEF RowsOK
<1> QED BY <1>4, <1>5, JoinedRows DEF LookUpMethods

LEMMA TraceRows == RowsOK(TraceMethods)
<1>1. RowOK("traceTransaction", Method(<<Required("transactionHash|transactionId"), Optional("tracerConfigWrapper")>>, "positions", 2, 0))
  <2>1. /\ RuleOK("traceTransaction", Required("transactionHash|transactionId"), 1, "positions", 0)
        /\ RuleOK("traceTransaction", Optional("tracerConfigWrapper"), 2, "positions", 0)
    BY RulesAre DEF RuleOK, RuleTypes, MovingTypes
  <2>2. Required("transactionHash|transactionId") \in Rules /\ Optional("tracerConfigWrapper") \in Rules
    BY RulesAre DEF RuleTypes
  <2> QED BY <2>1, <2>2, RulesAre, TwoRules DEF Layouts, TracesAre, RuleTypes
<1>2. RowOK("traceBlockByNumber", Method(<<Required("blockNumber"), Optional("tracerConfigWrapper")>>, "positions", 2, 1))
  <2>1. /\ RuleOK("traceBlockByNumber", Required("blockNumber"), 1, "positions", 1)
        /\ RuleOK("traceBlockByNumber", Optional("tracerConfigWrapper"), 2, "positions", 1)
    BY RulesAre DEF RuleOK, RuleTypes, MovingTypes
  <2>2. Required("blockNumber") \in Rules /\ Optional("tracerConfigWrapper") \in Rules
    BY RulesAre DEF RuleTypes
  <2> QED BY <2>1, <2>2, RulesAre, TwoRules DEF Layouts, TracesAre, RuleTypes
<1> QED BY <1>1, <1>2 DEF TraceMethods, RowsOK

LEMMA StaticRows == RowsOK(StaticMethods)
BY DEF RowsOK, RowOK, StaticMethods, Method, RuleTypes, MovingTypes

LEMMA UnsupportedRows == RowsOK(UnsupportedMethods)
BY DEF RowsOK, RowOK, UnsupportedMethods, Method, RuleTypes, MovingTypes

LEMMA PresentRows == RowsOK(PresentMethods)
<1>1. ASSUME NEW m, ~TracesAre(m), NEW skip \in {-1, 0}
      PROVE  RowOK(m, Method(<<>>, "details", 0, skip))
  <2>1. PICK row : row = Method(<<>>, "details", 0, skip)
    OBVIOUS
  <2>2. row.rules = <<>> /\ row.layout = "details" /\ row.takes = 0 /\ row.skip = skip
    BY <2>1 DEF Method
  <2>3. row.rules \in Seq(Rules) /\ row.takes = Len(row.rules) /\ 1..row.takes = {}
        /\ row.skip \in -1 .. row.takes
    BY <1>1, <2>2
  <2> QED BY <1>1, <2>1, <2>2, <2>3 DEF RowOK, TracesAre, Rules
<1>2. /\ RowOK("blockNumber", Method(<<>>, "details", 0, 0))
      /\ RowOK("gasPrice", Method(<<>>, "details", 0, 0))
      /\ RowOK("newBlockFilter", Method(<<>>, "details", 0, -1))
  BY <1>1 DEF TracesAre
<1> QED BY <1>2 DEF PresentMethods, RowsOK

LEMMA AllRows == RowsOK(RpcMethods)
<1>1. RowsOK(Joined(FeeMethods, EstimateMethods))
  BY FeeRows, EstimateRows, JoinedRows
<1>2. RowsOK(Joined(FilterMethods, StateMethods))
  BY FilterRows, StateRows, JoinedRows
<1>3. RowsOK(Joined(BlockMethods, TransactionMethods))
  BY BlockRows, TransactionRows, JoinedRows
<1>4. RowsOK(EthMethods)
  BY <1>1, <1>2, <1>3, LookUpRows, JoinedRows DEF EthMethods
<1>5. RowsOK(Joined(EthMethods, TraceMethods))
  BY <1>4, TraceRows, JoinedRows
<1>6. RowsOK(Joined(Joined(StaticMethods, UnsupportedMethods), PresentMethods))
  BY StaticRows, UnsupportedRows, PresentRows, JoinedRows
<1> QED BY <1>5, <1>6, JoinedRows DEF RpcMethods

-----------------------------------------------------------------------------
(* What the types of the rules admit.                                      *)

(* A tag is admitted by the types of blocks only.                          *)
LEMMA TagsAreBlocks ==
  ASSUME NEW T \in RuleTypes, NEW v, Test(T, v), v.kind = "latest"
  PROVE  T \in MovingTypes
BY DEF RuleTypes, MovingTypes, Test, FieldTest, Matches, AsString, Pattern, Hexes, Numbers,
   Filter, Transaction, Wrapper, ValidObject

(* An object is admitted by the types of objects only.                     *)
LEMMA ObjectsAreDeclared ==
  ASSUME NEW T \in RuleTypes, NEW v, Test(T, v), v.kind = "object"
  PROVE  T \in {"filter", "transaction", "blockParams", "tracerConfigWrapper"}
BY DEF RuleTypes, Test, FieldTest, Matches, AsString, Pattern, Hexes, Numbers, Tags,
   NON_CACHABLE_BLOCK_PARAMS

FieldTypes ==
  {"blockHash", "blockNumber", "addressFilter", "topics", "tracerType", "tracerConfig", "hex",
   "address", "hexEvenLength", "array"}

LEMMA FieldsAreNotNull ==
  ASSUME NEW T \in FieldTypes, NEW v, FieldTest(T, v)
  PROVE  v.kind # "null"
BY DEF FieldTypes, FieldTest, AddressFilter, TracerConfig, Matches, AsString, Pattern, Hexes,
   Numbers, Tags, NON_CACHABLE_BLOCK_PARAMS, TracerType

LEMMA SchemaFields ==
  /\ DOMAIN BlockHashObject = {"blockHash"}
  /\ DOMAIN BlockNumberObject = {"blockNumber"}
  /\ DOMAIN FilterObject = {"blockHash", "fromBlock", "toBlock", "address", "topics"}
  /\ DOMAIN TracerConfigWrapper = {"tracer", "tracerConfig"}
  /\ DOMAIN TransactionObject =
       {"gas", "gasPrice", "maxPriorityFeePerGas", "maxFeePerGas", "value", "type", "chainId",
        "nonce", "input", "from", "to", "data", "accessList"}
<1>1. /\ DOMAIN BlockHashObject = {"blockHash"}
      /\ DOMAIN BlockNumberObject = {"blockNumber"}
      /\ DOMAIN FilterObject = {"blockHash", "fromBlock", "toBlock", "address", "topics"}
      /\ DOMAIN TracerConfigWrapper = {"tracer", "tracerConfig"}
  BY DEF BlockHashObject, BlockNumberObject, FilterObject, TracerConfigWrapper
<1>2. DOMAIN TransactionObject =
        {"gas", "gasPrice", "maxPriorityFeePerGas", "maxFeePerGas", "value", "type", "chainId",
         "nonce", "input", "from", "to", "data", "accessList"}
  BY DEF TransactionObject, Joined
<1> QED BY <1>1, <1>2

LEMMA SchemaTypes ==
  /\ \A f \in DOMAIN BlockHashObject : BlockHashObject[f] \in FieldTypes
  /\ \A f \in DOMAIN BlockNumberObject : BlockNumberObject[f] \in FieldTypes
  /\ \A f \in DOMAIN FilterObject : FilterObject[f] \in FieldTypes
  /\ \A f \in DOMAIN TracerConfigWrapper : TracerConfigWrapper[f] \in FieldTypes
  /\ \A f \in DOMAIN TransactionObject : TransactionObject[f] \in FieldTypes
<1>1. /\ \A f \in DOMAIN BlockHashObject : BlockHashObject[f] \in FieldTypes
      /\ \A f \in DOMAIN BlockNumberObject : BlockNumberObject[f] \in FieldTypes
      /\ \A f \in DOMAIN FilterObject : FilterObject[f] \in FieldTypes
      /\ \A f \in DOMAIN TracerConfigWrapper : TracerConfigWrapper[f] \in FieldTypes
  BY DEF BlockHashObject, BlockNumberObject, FilterObject, TracerConfigWrapper, FieldTypes
<1>2. \A f \in DOMAIN TransactionObject : TransactionObject[f] \in FieldTypes
  BY DEF TransactionObject, Joined, FieldTypes
<1> QED BY <1>1, <1>2

(* A valid object has null in its nullable fields only.                    *)
LEMMA ValidHasNoNull ==
  ASSUME NEW v, NEW schema, NEW nullable, NEW unexpected, ValidObject(v, schema, nullable, unexpected),
         \A f \in DOMAIN schema : schema[f] \in FieldTypes,
         NEW f \in DOMAIN v.fields \cap DOMAIN schema, v.fields[f].kind = "null"
  PROVE  f \in nullable
BY FieldsAreNotNull DEF ValidObject

LEMMA NoNull ==
  ASSUME NEW v, NEW schema, ValidObject(v, schema, {}, FALSE),
         \A f \in DOMAIN schema : schema[f] \in FieldTypes
  PROVE  \A f \in DOMAIN v.fields : v.fields[f].kind # "null"
<1>1. DOMAIN v.fields \subseteq DOMAIN schema
  BY DEF ValidObject
<1>2. TAKE f \in DOMAIN v.fields
<1>3. FieldTest(schema[f], v.fields[f]) /\ schema[f] \in FieldTypes
  BY <1>1 DEF ValidObject
<1> QED BY <1>3, FieldsAreNotNull

(* The objects of each type.                                               *)
BlockNames == {"blockHash", "blockNumber", "fromBlock", "toBlock"}
NamedOnce(v) ==
  "blockHash" \in DOMAIN v.fields \/ "blockNumber" \in DOMAIN v.fields =>
    \E f \in BlockNames : DOMAIN v.fields \cap BlockNames = {f}
Clean(v) ==
  /\ DOMAIN v.fields \subseteq KnownFields
  /\ \A f \in DOMAIN v.fields : v.fields[f].kind = "null" => f \in NullableFields

LEMMA FilterObjectsAreRight ==
  ASSUME NEW v, Filter(v)
  PROVE  v.kind = "object" /\ NamedOnce(v) /\ Clean(v)
<1>1. ValidObject(v, FilterObject, {}, FALSE)
  BY DEF Filter
<1>2. v.kind = "object" /\ DOMAIN v.fields \subseteq DOMAIN FilterObject
  BY <1>1 DEF ValidObject
<1>3. NamedOnce(v)
  BY <1>2, SchemaFields DEF Filter, NamedOnce, BlockNames
<1>4. \A f \in DOMAIN v.fields : v.fields[f].kind # "null"
  BY <1>1, SchemaTypes, NoNull
<1> QED BY <1>2, <1>3, <1>4 DEF Clean, KnownFields

LEMMA BlockObjectsAreRight ==
  ASSUME NEW v, BlockParams(v), v.kind = "object"
  PROVE  /\ NamedOnce(v) /\ Clean(v)
         /\ DOMAIN v.fields \cap {"fromBlock", "toBlock"} = {}
<1>1. ~Matches("blockNumber", v)
  BY DEF Matches, AsString, Pattern, Numbers, Tags, NON_CACHABLE_BLOCK_PARAMS
<1>2. \/ ValidObject(v, BlockHashObject, {}, FALSE)
      \/ ValidObject(v, BlockNumberObject, {}, FALSE)
  BY <1>1 DEF BlockParams
<1>3. \/ DOMAIN v.fields \subseteq DOMAIN BlockHashObject
      \/ DOMAIN v.fields \subseteq DOMAIN BlockNumberObject
  BY <1>2 DEF ValidObject
<1>4. \A f \in DOMAIN v.fields : v.fields[f].kind # "null"
  <2>1. CASE ValidObject(v, BlockHashObject, {}, FALSE)
    BY <2>1, SchemaTypes, NoNull
  <2>2. CASE ValidObject(v, BlockNumberObject, {}, FALSE)
    BY <2>2, SchemaTypes, NoNull
  <2> QED BY <1>2, <2>1, <2>2
<1>5. NamedOnce(v) /\ DOMAIN v.fields \cap {"fromBlock", "toBlock"} = {}
  BY <1>3, SchemaFields DEF NamedOnce, BlockNames
<1>6. DOMAIN v.fields \subseteq KnownFields
  BY <1>3, SchemaFields DEF KnownFields
<1> QED BY <1>4, <1>5, <1>6 DEF Clean

LEMMA WrappersAreRight ==
  ASSUME NEW v, Wrapper(v)
  PROVE  /\ v.kind = "object" /\ NamedOnce(v) /\ Clean(v)
         /\ DOMAIN v.fields \cap {"fromBlock", "toBlock"} = {}
<1>1. ValidObject(v, TracerConfigWrapper, {}, FALSE)
  BY DEF Wrapper
<1>2. v.kind = "object" /\ DOMAIN v.fields \subseteq DOMAIN TracerConfigWrapper
  BY <1>1 DEF ValidObject
<1>3. \A f \in DOMAIN v.fields : v.fields[f].kind # "null"
  BY <1>1, SchemaTypes, NoNull
<1>4. NamedOnce(v) /\ DOMAIN v.fields \cap {"fromBlock", "toBlock"} = {}
  BY <1>2, SchemaFields DEF NamedOnce, BlockNames
<1>5. DOMAIN v.fields \subseteq KnownFields
  BY <1>2, SchemaFields DEF KnownFields
<1> QED BY <1>2, <1>3, <1>4, <1>5 DEF Clean

LEMMA TransactionsAreRight ==
  ASSUME NEW v, Transaction(v), DOMAIN v.fields \subseteq DOMAIN TransactionObject
  PROVE  /\ v.kind = "object" /\ NamedOnce(v) /\ Clean(v)
         /\ DOMAIN v.fields \cap {"fromBlock", "toBlock"} = {}
<1>1. ValidObject(v, TransactionObject, NullableFields, TRUE)
  BY DEF Transaction
<1>2. v.kind = "object"
  BY <1>1 DEF ValidObject
<1>3. \A f \in DOMAIN v.fields : v.fields[f].kind = "null" => f \in NullableFields
  BY <1>1, SchemaTypes, ValidHasNoNull
<1>4. NamedOnce(v) /\ DOMAIN v.fields \cap {"fromBlock", "toBlock"} = {}
  BY SchemaFields DEF NamedOnce, BlockNames
<1>5. DOMAIN v.fields \subseteq KnownFields
  BY DEF KnownFields
<1> QED BY <1>2, <1>3, <1>4, <1>5 DEF Clean

(* A stripped transaction is still valid.                                  *)
LEMMA StrippedIsValid ==
  ASSUME NEW v, Json(v), Transaction(v)
  PROVE  /\ Json(Stripped(v)) /\ Transaction(Stripped(v))
         /\ DOMAIN Stripped(v).fields \subseteq DOMAIN TransactionObject
<1> DEFINE kept == [f \in DOMAIN v.fields \cap DOMAIN TransactionObject |-> v.fields[f]]
<1>1. v = [kind |-> v.kind, items |-> v.items, fields |-> v.fields]
  BY DEF Json, Value
<1>2. Stripped(v) = [kind |-> v.kind, items |-> v.items, fields |-> kept]
  BY <1>1 DEF Stripped
<1>3. /\ Stripped(v).kind = v.kind /\ Stripped(v).items = v.items /\ Stripped(v).fields = kept
  BY <1>2
<1>4. DOMAIN kept = DOMAIN v.fields \cap DOMAIN TransactionObject
      /\ \A f \in DOMAIN kept : kept[f] = v.fields[f]
  OBVIOUS
<1>5. Json(Stripped(v))
  BY <1>2, <1>3, <1>4 DEF Json, Value
<1>6. Transaction(Stripped(v))
  BY <1>3, <1>4 DEF Transaction, ValidObject
<1> QED BY <1>3, <1>4, <1>5, <1>6

-----------------------------------------------------------------------------
(* A request on its way.                                                   *)

Admitted(rule, v) ==
  \/ v = Undefined /\ ~rule.required
  \/ /\ Json(v) /\ v.kind # "null" /\ Test(rule.type, v)
     /\ rule.type = "transaction" => DOMAIN v.fields \subseteq DOMAIN TransactionObject

CallOK(c) ==
  /\ c = [method |-> c.method, params |-> c.params]
  /\ c.method \in DOMAIN RpcMethods
  /\ \E S : c.params \in Seq(S)
  /\ \A i \in 1..Len(c.params) : Json(c.params[i])

ParamInv ==
  /\ received = [pc |-> received.pc, call |-> received.call, at |-> received.at,
                 args |-> received.args, kept |-> received.kept]
  /\ received.pc \in {"waiting", "validating", "refused", "invoked"}
  /\ received.kept \in BOOLEAN
  /\ CallOK(received.call)
  /\ received.at \in 1 .. Len(RulesOf(received)) + 1
  /\ received.pc = "waiting" => received.at = 1
  /\ \A i \in 1 .. received.at - 1 : Admitted(RulesOf(received)[i], ParamAt(received, i))
  /\ received.pc = "invoked" =>
       /\ ~TooManyParams(received) /\ received.at = Len(RulesOf(received)) + 1
       /\ received.args = arrangeRpcParams(received)
       /\ received.kept =>
            /\ RpcMethods[received.call.method].skip >= 0
            /\ ~shouldSkipCachingForSingleParams(received.call.method, received.args)
            /\ ~shouldSkipCachingForNamedParams(received.call.method, received.args)

LEMMA CallsAreOK == \A c \in Calls : CallOK(c)
<1> SUFFICES ASSUME NEW c \in Calls PROVE CallOK(c)
  OBVIOUS
<1>1. /\ c = [method |-> c.method, params |-> c.params]
      /\ c.method \in DOMAIN RpcMethods
      /\ c.params \in Seq({c.params[i] : i \in DOMAIN c.params})
      /\ \A i \in DOMAIN c.params : Json(c.params[i])
  BY ParameterConstants
<1>2. DOMAIN c.params = 1..Len(c.params)
  BY <1>1
<1> QED BY <1>1, <1>2 DEF CallOK

LEMMA RowOfCall ==
  ASSUME NEW m \in DOMAIN RpcMethods
  PROVE  RowOK(m, RpcMethods[m])
BY AllRows DEF RowsOK

LEMMA ParametersStart == ParametersInit => ParamInv
<1> SUFFICES ASSUME ParametersInit PROVE ParamInv
  OBVIOUS
<1>1. SomeCall \in Calls
  BY ParameterConstants DEF SomeCall
<1>2. received = [pc |-> "waiting", call |-> SomeCall, at |-> 1, args |-> <<>>, kept |-> FALSE]
  BY DEF ParametersInit
<1>3. CallOK(received.call) /\ received.call.method \in DOMAIN RpcMethods
  BY <1>1, <1>2, CallsAreOK DEF CallOK
<1>4. Len(RulesOf(received)) \in Nat
  BY <1>3, RowOfCall DEF RowOK, RulesOf
<1> QED BY <1>2, <1>3, <1>4 DEF ParamInv

LEMMA ReceiveCallKeeps == ASSUME ParamInv, ReceiveCall PROVE ParamInv'
<1>1. PICK c \in Calls : received' = [received EXCEPT !.pc = "validating", !.call = c]
  BY DEF ReceiveCall
<1>2. received' = [pc |-> "validating", call |-> c, at |-> received.at, args |-> received.args,
                   kept |-> received.kept]
  BY <1>1 DEF ParamInv
<1>3. received.at = 1 /\ received.kept \in BOOLEAN
  BY DEF ParamInv, ReceiveCall
<1>4. CallOK(c) /\ c.method \in DOMAIN RpcMethods
  BY CallsAreOK DEF CallOK
<1>5. Len(RpcMethods[c.method].rules) \in Nat
  BY <1>4, RowOfCall DEF RowOK
<1>6. PICK r : r = received'
  OBVIOUS
<1>7. r.at = 1 /\ r.pc = "validating" /\ r.call = c /\ r.kept \in BOOLEAN /\ r.args = received.args
      /\ r = [pc |-> r.pc, call |-> r.call, at |-> r.at, args |-> r.args, kept |-> r.kept]
  BY <1>2, <1>3, <1>6
<1>8. Len(RulesOf(r)) \in Nat
  BY <1>5, <1>7 DEF RulesOf
<1> QED BY <1>4, <1>6, <1>7, <1>8 DEF ParamInv, RulesOf

LEMMA RefuseCallKeeps == ASSUME ParamInv, RefuseCall PROVE ParamInv'
<1>1. received' = [received EXCEPT !.pc = "refused"] /\ received.pc = "validating"
  BY DEF RefuseCall
<1>2. PICK r : r = received'
  OBVIOUS
<1>3. r = [pc |-> "refused", call |-> received.call, at |-> received.at, args |-> received.args,
           kept |-> received.kept]
  BY <1>1, <1>2 DEF ParamInv
<1>4. r.pc = "refused" /\ r.call = received.call /\ r.at = received.at /\ r.kept = received.kept
      /\ r.args = received.args
  BY <1>3
<1>5. RulesOf(r) = RulesOf(received) /\ \A i : ParamAt(r, i) = ParamAt(received, i)
  BY <1>4 DEF RulesOf, ParamAt
<1> QED BY <1>2, <1>3, <1>4, <1>5 DEF ParamInv

LEMMA PassParamKeeps == ASSUME ParamInv, PassParam PROVE ParamInv'
<1> DEFINE n == received.at
           rule == RulesOf(received)[n]
           v == ParamAt(received, n)
           c == received.call
<1>1. /\ received.pc = "validating" /\ n <= Len(RulesOf(received)) /\ ValidParam(rule, v)
      /\ received' = [received EXCEPT
             !.at = NextPosition(@),
             !.call.params = IF rule.type = "transaction" THEN [@ EXCEPT ![n] = Stripped(v)] ELSE @]
  BY DEF PassParam
<1>2. PICK ps : ps = IF rule.type = "transaction" THEN [c.params EXCEPT ![n] = Stripped(v)]
                                                  ELSE c.params
  OBVIOUS
<1>3. /\ CallOK(c) /\ c = [method |-> c.method, params |-> c.params]
      /\ c.method \in DOMAIN RpcMethods
      /\ \A i \in 1..Len(c.params) : Json(c.params[i])
      /\ n \in 1 .. Len(RulesOf(received)) + 1 /\ received.kept \in BOOLEAN
      /\ \A i \in 1 .. n - 1 : Admitted(RulesOf(received)[i], ParamAt(received, i))
  BY DEF ParamInv, CallOK
<1>4. PICK S : c.params \in Seq(S)
  BY <1>3 DEF CallOK
<1>5. PICK r : r = received'
  OBVIOUS
<1>6. r = [pc |-> "validating", call |-> [method |-> c.method, params |-> ps], at |-> n + 1,
           args |-> received.args, kept |-> received.kept]
  BY <1>1, <1>2, <1>3, <1>5 DEF ParamInv, NextPosition
<1>7. /\ r.pc = "validating" /\ r.call = [method |-> c.method, params |-> ps] /\ r.at = n + 1
      /\ r.kept = received.kept /\ r.args = received.args
      /\ r.call.method = c.method /\ r.call.params = ps
  BY <1>6
<1>8. RulesOf(r) = RulesOf(received)
  BY <1>7 DEF RulesOf
<1>9. Len(RulesOf(received)) \in Nat /\ n \in Nat /\ n >= 1
  BY <1>3, RowOfCall DEF RowOK, RulesOf
<1>10. Len(c.params) \in Nat /\ DOMAIN c.params = 1..Len(c.params)
  BY <1>4
<1>11. n <= Len(c.params) => v = c.params[n] /\ Json(v)
  BY <1>3, <1>9, <1>10 DEF ParamAt
<1>12. n > Len(c.params) => v = Undefined
  BY <1>9, <1>10 DEF ParamAt
<1>13. v = Undefined => v.kind = "undefined"
  BY DEF Undefined, Simple, Value
<1>14. /\ \E U : ps \in Seq(U)
       /\ Len(ps) = Len(c.params)
       /\ \A i \in 1..Len(c.params) : i # n => ps[i] = c.params[i]
       /\ n <= Len(c.params) => ps[n] = IF rule.type = "transaction" THEN Stripped(v) ELSE v
  <2>1. CASE rule.type # "transaction"
    BY <1>2, <1>4, <1>11, <2>1
  <2>2. CASE rule.type = "transaction" /\ n <= Len(c.params)
    <3>1. ps = [c.params EXCEPT ![n] = Stripped(v)] /\ n \in 1..Len(c.params)
      BY <1>2, <1>9, <2>2
    <3>2. c.params \in Seq(S \cup {Stripped(v)})
      BY <1>4
    <3>3. ps \in Seq(S \cup {Stripped(v)}) /\ Len(ps) = Len(c.params)
      BY <3>1, <3>2
    <3> QED BY <1>10, <2>2, <3>1, <3>3
  <2>3. CASE rule.type = "transaction" /\ n > Len(c.params)
    <3>1. ps = [c.params EXCEPT ![n] = Stripped(v)] /\ n \notin DOMAIN c.params
      BY <1>2, <1>9, <1>10, <2>3
    <3>2. ps = c.params
      BY <1>4, <3>1
    <3> QED BY <1>4, <1>9, <1>10, <2>3, <3>2
  <2> QED BY <1>9, <1>10, <2>1, <2>2, <2>3
<1>15. Admitted(rule, ParamAt(r, n))
  <2>1. CASE v = Undefined
    <3>1. ~rule.required
      BY <1>1, <1>13, <2>1 DEF ValidParam
    <3>2. n > Len(c.params)
      BY <1>9, <1>10, <1>11, <1>13, <2>1 DEF Json
    <3>3. ParamAt(r, n) = Undefined
      BY <1>7, <1>9, <1>10, <1>14, <3>2 DEF ParamAt
    <3> QED BY <3>1, <3>3 DEF Admitted
  <2>2. CASE v # Undefined
    <3>1. n <= Len(c.params)
      BY <1>9, <1>10, <1>12, <2>2
    <3>2. Json(v) /\ v.kind # "null" /\ Test(rule.type, v)
      BY <1>1, <1>11, <2>2, <3>1 DEF ValidParam
    <3>3. ParamAt(r, n) = IF rule.type = "transaction" THEN Stripped(v) ELSE v
      BY <1>7, <1>14, <3>1 DEF ParamAt
    <3>4. CASE rule.type = "transaction"
      <4>1. Transaction(v)
        BY <3>2, <3>4 DEF Test
      <4>2. /\ Json(Stripped(v)) /\ Transaction(Stripped(v))
            /\ DOMAIN Stripped(v).fields \subseteq DOMAIN TransactionObject
        BY <3>2, <4>1, StrippedIsValid
      <4>3. Stripped(v).kind = "object" /\ Test(rule.type, Stripped(v))
        BY <3>4, <4>2 DEF Test, Transaction, ValidObject
      <4> QED BY <3>3, <3>4, <4>2, <4>3 DEF Admitted
    <3>5. CASE rule.type # "transaction"
      BY <3>2, <3>3, <3>5 DEF Admitted
    <3> QED BY <3>4, <3>5
  <2> QED BY <2>1, <2>2
<1>16. \A i \in 1 .. n - 1 : ParamAt(r, i) = ParamAt(received, i)
  BY <1>7, <1>9, <1>10, <1>14 DEF ParamAt
<1>17. \A i \in 1 .. (n + 1) - 1 : Admitted(RulesOf(r)[i], ParamAt(r, i))
  <2>1. \A i \in 1 .. (n + 1) - 1 : i = n \/ i \in 1 .. n - 1
    BY <1>9
  <2> QED BY <1>3, <1>8, <1>15, <1>16, <2>1
<1>18. CallOK(r.call)
  <2>1. \A i \in 1..Len(ps) : Json(ps[i])
    <3> SUFFICES ASSUME NEW i \in 1..Len(ps) PROVE Json(ps[i])
      OBVIOUS
    <3>1. CASE i # n
      BY <1>3, <1>14, <3>1
    <3>2. CASE i = n
      <4>1. n <= Len(c.params) /\ ps[n] = IF rule.type = "transaction" THEN Stripped(v) ELSE v
        BY <1>9, <1>10, <1>14, <3>2
      <4>2. Json(v) /\ (rule.type = "transaction" => Transaction(v))
        BY <1>1, <1>11, <1>13, <4>1 DEF ValidParam, Json, Test
      <4> QED BY <3>2, <4>1, <4>2, StrippedIsValid
    <3> QED BY <3>1, <3>2
  <2> QED BY <1>3, <1>7, <1>14, <2>1 DEF CallOK
<1>19. r.at \in 1 .. Len(RulesOf(r)) + 1
  BY <1>1, <1>7, <1>8, <1>9
<1>20. r = [pc |-> r.pc, call |-> r.call, at |-> r.at, args |-> r.args, kept |-> r.kept]
  BY <1>6, <1>7
<1> QED BY <1>3, <1>5, <1>7, <1>17, <1>18, <1>19, <1>20 DEF ParamInv

LEMMA InvokeHandlerKeeps == ASSUME ParamInv, InvokeHandler PROVE ParamInv'
<1> DEFINE m == received.call.method
           args == arrangeRpcParams(received)
           kept == /\ RpcMethods[m].skip >= 0
                   /\ ~shouldSkipCachingForSingleParams(m, args)
                   /\ ~shouldSkipCachingForNamedParams(m, args)
<1>1. /\ received.pc = "validating" /\ ~TooManyParams(received)
      /\ received.at > Len(RulesOf(received))
      /\ received' = [received EXCEPT !.pc = "invoked", !.args = args, !.kept = kept]
  BY DEF InvokeHandler
<1>2. PICK r : r = received'
  OBVIOUS
<1>3. r = [pc |-> "invoked", call |-> received.call, at |-> received.at, args |-> args,
           kept |-> kept]
  BY <1>1, <1>2 DEF ParamInv
<1>4. /\ r.pc = "invoked" /\ r.call = received.call /\ r.at = received.at /\ r.args = args
      /\ r.kept = kept
      /\ r = [pc |-> r.pc, call |-> r.call, at |-> r.at, args |-> r.args, kept |-> r.kept]
  BY <1>3
<1>5. /\ RulesOf(r) = RulesOf(received) /\ \A i : ParamAt(r, i) = ParamAt(received, i)
      /\ arrangeRpcParams(r) = args /\ TooManyParams(r) = TooManyParams(received)
  BY <1>4 DEF RulesOf, ParamAt, arrangeRpcParams, TooManyParams
<1>6. Len(RulesOf(received)) \in Nat
  BY RowOfCall DEF ParamInv, CallOK, RowOK, RulesOf
<1>7. received.at = Len(RulesOf(received)) + 1
  BY <1>1, <1>6 DEF ParamInv
<1>8. r.kept \in BOOLEAN
  BY <1>4
<1>9. /\ r.pc \in {"waiting", "validating", "refused", "invoked"}
      /\ CallOK(r.call)
      /\ r.at \in 1 .. Len(RulesOf(r)) + 1
      /\ \A i \in 1 .. r.at - 1 : Admitted(RulesOf(r)[i], ParamAt(r, i))
  BY <1>4, <1>5 DEF ParamInv
<1>10. /\ ~TooManyParams(r) /\ r.at = Len(RulesOf(r)) + 1
       /\ r.args = arrangeRpcParams(r)
       /\ r.kept =>
            /\ RpcMethods[r.call.method].skip >= 0
            /\ ~shouldSkipCachingForSingleParams(r.call.method, r.args)
            /\ ~shouldSkipCachingForNamedParams(r.call.method, r.args)
  BY <1>1, <1>4, <1>5, <1>7
<1> QED BY <1>2, <1>4, <1>8, <1>9, <1>10 DEF ParamInv

LEMMA ParametersKeep == ASSUME ParamInv, [ParametersNext]_parameterVars PROVE ParamInv'
<1>1. CASE UNCHANGED parameterVars
  BY <1>1 DEF parameterVars, ParamInv, RulesOf, ParamAt, TooManyParams, arrangeRpcParams
<1> QED BY <1>1, ReceiveCallKeeps, RefuseCallKeeps, PassParamKeeps, InvokeHandlerKeeps DEF ParametersNext

-----------------------------------------------------------------------------
(* What the handler is given.                                              *)

Argument(rule, w) == Admitted(rule, w) \/ w \in {Simple("NaN"), Simple("number")}

LEMMA RuleAt ==
  ASSUME NEW m, NEW row, RowOK(m, row), NEW i, i \in 1..row.takes
  PROVE  row.rules[i].type \in RuleTypes /\ i > 0
<1>1. PICK rules \in Seq([type : RuleTypes, required : BOOLEAN]) : rules = row.rules
  BY DEF RowOK
<1>2. row.takes = Len(rules) /\ Len(rules) \in Nat
  BY <1>1 DEF RowOK
<1>3. i \in 1..Len(rules)
  BY <1>2
<1>4. PICK R : R = [type : RuleTypes, required : BOOLEAN]
  OBVIOUS
<1>5. rules \in Seq(R)
  BY <1>4
<1>6. rules[i] \in R
  BY ONLY <1>2, <1>3, <1>5
<1>7. i > 0
  BY ONLY <1>2, <1>3
<1>8. rules[i].type \in RuleTypes
  BY <1>4, <1>6
<1> QED BY <1>1, <1>7, <1>8

LEMMA ArgumentsArranged ==
  ASSUME ParamInv, Invoked
  PROVE  LET row == RpcMethods[received.call.method] IN
         /\ RowOK(received.call.method, row) /\ row.takes \in Nat
         /\ Len(received.args) = row.takes + 1 /\ DOMAIN received.args = 1 .. row.takes + 1
         /\ received.args[row.takes + 1] = Details
         /\ \A i \in 1..row.takes :
              /\ Argument(row.rules[i], received.args[i])
              /\ row.layout = "positions" => received.args[i] = ParamAt(received, i)
                                             /\ Admitted(row.rules[i], received.args[i])
<1> DEFINE row == RpcMethods[received.call.method]
           c == received.call
<1>1. /\ CallOK(c) /\ ~TooManyParams(received) /\ received.at = Len(row.rules) + 1
      /\ received.args = arrangeRpcParams(received)
      /\ \A i \in 1 .. received.at - 1 : Admitted(row.rules[i], ParamAt(received, i))
  BY DEF ParamInv, Invoked, RulesOf
<1>2. RowOK(c.method, row) /\ row.takes = Len(row.rules) /\ row.takes \in Nat
  <2>1. RowOK(c.method, row)
    BY <1>1, RowOfCall DEF CallOK
  <2>2. row.takes = Len(row.rules) /\ row.rules \in Seq([type : RuleTypes, required : BOOLEAN])
    BY ONLY <2>1 DEF RowOK
  <2> QED BY <2>1, <2>2
<1>3. \A i \in 1..row.takes : Admitted(row.rules[i], ParamAt(received, i))
  BY <1>1, <1>2
<1>4. PICK S : c.params \in Seq(S)
  BY <1>1 DEF CallOK
<1>5. Len(c.params) \in Nat /\ DOMAIN c.params = 1..Len(c.params)
  BY <1>4
<1>6. \A i : ParamAt(received, i) = IF i <= Len(c.params) THEN c.params[i] ELSE Undefined
  BY DEF ParamAt
<1>7. CASE row.layout = "details"
  <2>1. row.takes = 0 /\ received.args = <<Details>>
    BY <1>1, <1>2, <1>7 DEF RowOK, arrangeRpcParams
  <2> QED BY <1>2, <2>1
<1>8. CASE row.layout = "default"
  <2>1. row.takes > 0 /\ received.args = Append(c.params, Details)
        /\ \A i \in 1..row.takes : row.rules[i].required
    BY <1>1, <1>2, <1>8 DEF RowOK, arrangeRpcParams
  <2>2. Len(c.params) <= row.takes
    <3>1. row.rules # <<>>
      BY <1>2, <2>1
    <3> QED BY <1>1, <1>2, <1>5, <3>1 DEF TooManyParams, RulesOf
  <2>3. \A i \in 1..row.takes : ParamAt(received, i) # Undefined
    <3> SUFFICES ASSUME NEW i \in 1..row.takes, ParamAt(received, i) = Undefined PROVE FALSE
      OBVIOUS
    <3>1. Json(Undefined)
      BY <1>3, <2>1 DEF Admitted
    <3> QED BY <3>1 DEF Json, Undefined, Simple, Value
  <2>4. row.takes <= Len(c.params)
    <3>1. row.takes \in 1..row.takes
      BY <1>2, <2>1
    <3> QED BY <1>2, <1>5, <1>6, <2>3, <3>1
  <2>5. Len(c.params) = row.takes
    BY <1>2, <1>5, <2>2, <2>4
  <2>6. /\ Len(received.args) = row.takes + 1 /\ DOMAIN received.args = 1 .. row.takes + 1
        /\ received.args[row.takes + 1] = Details
        /\ \A i \in 1..row.takes : received.args[i] = c.params[i]
    <3>1. c.params \in Seq(S \cup {Details}) /\ Details \in S \cup {Details}
      BY <1>4
    <3> QED BY <1>2, <2>1, <2>5, <3>1
  <2>7. \A i \in 1..row.takes : received.args[i] = ParamAt(received, i)
    BY <1>2, <1>6, <2>5, <2>6
  <2> QED BY <1>2, <1>3, <1>8, <2>6, <2>7 DEF Argument
<1>9. CASE row.layout = "positions"
  <2>1. PICK f : f = [i \in 1..row.takes |-> ParamAt(received, i)]
    OBVIOUS
  <2>2. received.args = Append(f, Details)
    BY <1>1, <1>9, <2>1 DEF arrangeRpcParams
  <2>3. PICK U : f \in Seq(U) /\ Details \in U
    <3>1. f \in Seq({f[i] : i \in 1..row.takes} \cup {Details})
      BY <1>2, <2>1
    <3> QED BY <3>1
  <2>4. Len(f) = row.takes /\ \A i \in 1..row.takes : f[i] = ParamAt(received, i)
    BY <1>2, <2>1
  <2>5. /\ Len(received.args) = row.takes + 1 /\ DOMAIN received.args = 1 .. row.takes + 1
        /\ received.args[row.takes + 1] = Details
        /\ \A i \in 1..row.takes : received.args[i] = ParamAt(received, i)
    BY <1>2, <2>2, <2>3, <2>4
  <2> QED BY <1>2, <1>3, <2>5 DEF Argument
<1>10. CASE row.layout = "counted"
  <2>1. PICK f : f = [i \in 1..row.takes |-> IF i = 1 THEN NumberOf(ParamAt(received, 1))
                                             ELSE ParamAt(received, i)]
    OBVIOUS
  <2>2. received.args = Append(f, Details)
    BY <1>1, <1>10, <2>1 DEF arrangeRpcParams
  <2>3. PICK U : f \in Seq(U) /\ Details \in U
    <3>1. f \in Seq({f[i] : i \in 1..row.takes} \cup {Details})
      BY <1>2, <2>1
    <3> QED BY <3>1
  <2>4. Len(f) = row.takes
        /\ \A i \in 1..row.takes : f[i] \in {Simple("NaN"), Simple("number"), ParamAt(received, i)}
    BY <1>2, <2>1 DEF NumberOf
  <2>5. /\ Len(received.args) = row.takes + 1 /\ DOMAIN received.args = 1 .. row.takes + 1
        /\ received.args[row.takes + 1] = Details
        /\ \A i \in 1..row.takes : received.args[i] = f[i]
    BY <1>2, <2>2, <2>3, <2>4
  <2> QED BY <1>2, <1>3, <1>10, <2>4, <2>5 DEF Argument
<1> QED BY <1>2, <1>7, <1>8, <1>9, <1>10 DEF RowOK

(* Values that are not parameters of the request.                          *)
LEMMA OtherValues ==
  /\ Details.kind = "requestDetails" /\ Undefined.kind = "undefined"
  /\ Simple("NaN").kind = "NaN" /\ Simple("number").kind = "number"
  /\ DOMAIN Details.fields = {} /\ DOMAIN Undefined.fields = {}
  /\ DOMAIN Simple("NaN").fields = {} /\ DOMAIN Simple("number").fields = {}
BY DEF Details, Undefined, Simple, Value, NoFields

(* Every argument is the details, no parameter of the request, or admitted *)
(* by its rule.                                                            *)
ArgumentOK(row, i, w) ==
  \/ i = row.takes + 1 /\ w = Details
  \/ /\ i \in 1..row.takes /\ w.kind \in {"undefined", "NaN", "number"}
     /\ DOMAIN w.fields = {}
  \/ /\ i \in 1..row.takes /\ Json(w) /\ Test(row.rules[i].type, w)
     /\ row.rules[i].type \in RuleTypes
     /\ row.rules[i].type = "transaction" => DOMAIN w.fields \subseteq DOMAIN TransactionObject

LEMMA EachArgument ==
  ASSUME ParamInv, Invoked, NEW i \in DOMAIN received.args
  PROVE  ArgumentOK(RpcMethods[received.call.method], i, received.args[i])
<1> DEFINE row == RpcMethods[received.call.method]
           w == received.args[i]
<1>1. /\ RowOK(received.call.method, row) /\ row.takes \in Nat
      /\ DOMAIN received.args = 1 .. row.takes + 1
      /\ received.args[row.takes + 1] = Details
      /\ \A j \in 1..row.takes : Argument(row.rules[j], received.args[j])
  BY ArgumentsArranged
<1>2. CASE i = row.takes + 1
  BY <1>1, <1>2 DEF ArgumentOK
<1>3. CASE i \in 1..row.takes
  <2>1. row.rules[i].type \in RuleTypes
    BY <1>1, <1>3, RuleAt
  <2>2. Admitted(row.rules[i], w) \/ w \in {Simple("NaN"), Simple("number")}
    BY <1>1, <1>3 DEF Argument
  <2> QED BY <1>3, <2>1, <2>2, OtherValues DEF Admitted, ArgumentOK
<1>4. i = row.takes + 1 \/ i \in 1..row.takes
  BY <1>1
<1> QED BY <1>2, <1>3, <1>4

LEMMA DetailsAreInPlace == ParamInv => DetailsInPlace
<1> SUFFICES ASSUME ParamInv, Invoked PROVE DetailsInPlace
  BY DEF DetailsInPlace
<1> DEFINE takes == RpcMethods[received.call.method].takes
<1>1. /\ takes \in Nat /\ Len(received.args) = takes + 1
      /\ DOMAIN received.args = 1 .. takes + 1 /\ received.args[takes + 1] = Details
  BY ArgumentsArranged
<1>2. ASSUME NEW i \in DOMAIN received.args, i # takes + 1 PROVE received.args[i] # Details
  BY <1>2, EachArgument, OtherValues DEF Json, ArgumentOK
<1> QED BY <1>1, <1>2 DEF DetailsInPlace

LEMMA MovingIsNotKept == ParamInv => MovingNotKept
<1> SUFFICES ASSUME ParamInv, Invoked, received.kept, NEW i \in DOMAIN received.args
             PROVE  /\ received.args[i].kind \notin NON_CACHABLE_BLOCK_PARAMS
                    /\ \A f \in {"fromBlock", "toBlock"} \cap DOMAIN received.args[i].fields :
                         received.args[i].fields[f].kind \notin NON_CACHABLE_BLOCK_PARAMS
  BY DEF MovingNotKept
<1> DEFINE m == received.call.method
           row == RpcMethods[m]
           w == received.args[i]
<1>1. RowOK(m, row) /\ row.takes \in Nat /\ DOMAIN received.args = 1 .. row.takes + 1
  BY ArgumentsArranged
<1>2. /\ row.skip >= 0
      /\ ~shouldSkipCachingForSingleParams(m, received.args)
      /\ ~shouldSkipCachingForNamedParams(m, received.args)
  BY DEF ParamInv, Invoked
<1>3. row.skip \in -1 .. row.takes
      /\ \A j \in 1..row.takes :
           /\ row.rules[j].type \in MovingTypes => j = row.skip
           /\ row.rules[j].type = "filter" => j = 1 /\ m = "getLogs"
  BY <1>1, <1>2 DEF RowOK
<1>4. CASE DOMAIN w.fields = {} /\ w.kind # "latest"
  BY <1>4 DEF NON_CACHABLE_BLOCK_PARAMS
<1>5. CASE /\ i \in 1..row.takes /\ Json(w) /\ Test(row.rules[i].type, w)
           /\ row.rules[i].type \in RuleTypes
           /\ row.rules[i].type = "transaction" => DOMAIN w.fields \subseteq DOMAIN TransactionObject
  <2>1. w.kind # "latest"
    <3> SUFFICES ASSUME w.kind = "latest" PROVE FALSE
      OBVIOUS
    <3>1. i = row.skip
      BY <1>3, <1>5, TagsAreBlocks
    <3>2. row.skip > 0
      BY <1>1, <1>5, <3>1, RuleAt
    <3>3. received.args[row.skip].kind \in NON_CACHABLE_BLOCK_PARAMS
      BY <3>1 DEF NON_CACHABLE_BLOCK_PARAMS
    <3> QED BY <1>2, <3>2, <3>3 DEF shouldSkipCachingForSingleParams
  <2>2. ASSUME NEW f \in {"fromBlock", "toBlock"} \cap DOMAIN w.fields
        PROVE  w.fields[f].kind \notin NON_CACHABLE_BLOCK_PARAMS
    <3>1. w.kind = "object"
      BY <1>5, <2>2 DEF Json
    <3>2. row.rules[i].type \in {"filter", "transaction", "blockParams", "tracerConfigWrapper"}
      BY <1>5, <3>1, ObjectsAreDeclared
    <3>3. CASE row.rules[i].type = "filter"
      <4>1. i = 1 /\ m = "getLogs"
        BY <1>3, <1>5, <3>3
      <4> QED BY <1>2, <2>2, <4>1 DEF shouldSkipCachingForNamedParams
    <3>4. CASE row.rules[i].type = "transaction"
      BY <1>5, <2>2, <3>4, TransactionsAreRight DEF Test
    <3>5. CASE row.rules[i].type = "blockParams"
      BY <1>5, <2>2, <3>1, <3>5, BlockObjectsAreRight DEF Test
    <3>6. CASE row.rules[i].type = "tracerConfigWrapper"
      BY <1>5, <2>2, <3>6, WrappersAreRight DEF Test
    <3> QED BY <3>2, <3>3, <3>4, <3>5, <3>6
  <2> QED BY <2>1, <2>2 DEF NON_CACHABLE_BLOCK_PARAMS
<1> QED BY <1>4, <1>5, EachArgument, OtherValues DEF ArgumentOK

LEMMA ObjectsAreRight ==
  ASSUME ParamInv, Invoked, NEW v \in ArgObjects
  PROVE  NamedOnce(v) /\ Clean(v)
<1>1. PICK i \in DOMAIN received.args : v = received.args[i] /\ v.kind = "object"
  BY DEF ArgObjects
<1>2. PICK T \in RuleTypes :
        /\ Test(T, v)
        /\ T = "transaction" => DOMAIN v.fields \subseteq DOMAIN TransactionObject
  BY <1>1, EachArgument, OtherValues DEF ArgumentOK
<1>3. T \in {"filter", "transaction", "blockParams", "tracerConfigWrapper"}
  BY <1>1, <1>2, ObjectsAreDeclared
<1>4. CASE T = "filter"
  BY <1>2, <1>4, FilterObjectsAreRight DEF Test
<1>5. CASE T = "transaction"
  BY <1>2, <1>5, TransactionsAreRight DEF Test
<1>6. CASE T = "blockParams"
  BY <1>1, <1>2, <1>6, BlockObjectsAreRight DEF Test
<1>7. CASE T = "tracerConfigWrapper"
  BY <1>2, <1>7, WrappersAreRight DEF Test
<1> QED BY <1>3, <1>4, <1>5, <1>6, <1>7

LEMMA OptionsAreOfTracer == ParamInv => OptionsOfTracer
<1> SUFFICES ASSUME ParamInv, Invoked, received.call.method \in DOMAIN TraceMethods
             PROVE  LET v == received.args[2] IN
                    /\ Options(v) \cap OpcodeLoggerOptions # {} => TracerOf = "opcodeLogger"
                    /\ Options(v) \cap CallTracerOptions # {} => ~NamesTracer(v, "opcodeLogger")
  BY DEF OptionsOfTracer
<1> DEFINE row == RpcMethods[received.call.method]
           v == received.args[2]
<1>1. received.call.method \in {"traceTransaction", "traceBlockByNumber"}
  BY DEF TraceMethods
<1>2. row.takes = 2 /\ row.layout = "positions" /\ row.rules[2].type = "tracerConfigWrapper"
  BY <1>1, ArgumentsArranged DEF RowOK
<1>3. Admitted(row.rules[2], v)
  <2>1. \A i \in 1..row.takes : row.layout = "positions" => Admitted(row.rules[i], received.args[i])
    BY ArgumentsArranged
  <2> QED BY <1>2, <2>1
<1>4. CASE v = Undefined
  <2>1. Options(v) = {}
    BY <1>4, OtherValues DEF Options
  <2> QED BY <2>1
<1>5. CASE v # Undefined
  <2>1. Wrapper(v)
    BY <1>2, <1>3, <1>5 DEF Admitted, Test
  <2>2. NamesTracer(v, "opcodeLogger") => TracerOf = "opcodeLogger"
    BY <1>5 DEF NamesTracer, TracerOf
  <2> QED BY <2>1, <2>2 DEF Wrapper
<1> QED BY <1>4, <1>5

(* For any calls with parsed parameters, whatever their values: a handler  *)
(* that is called finds the request's details where it declares them, and  *)
(* arguments that its rules admit; no answer is kept for a block that      *)
(* moves; objects name blocks in one way, options fit the tracer, and      *)
(* unknown fields and nulls are gone (validateParams, arrangeRpcParams,    *)
(* the cache decorator).                                                   *)
THEOREM ArgumentsAreRight == ParametersSpec => []ArgumentsRight
<1>1. ParamInv => ArgumentsRight
  <2> SUFFICES ASSUME ParamInv PROVE ArgumentsRight
    OBVIOUS
  <2>1. ParametersTypeOK
    BY DEF ParamInv, CallOK, ParametersTypeOK
  <2>2. BlocksNamedOnce
    <3>1. Invoked => \A v \in ArgObjects : NamedOnce(v)
      BY ObjectsAreRight
    <3> QED BY <3>1 DEF BlocksNamedOnce, NamedOnce, BlockNames
  <2>3. CleanArguments
    BY ObjectsAreRight DEF CleanArguments, Clean
  <2> QED BY <2>1, <2>2, <2>3, DetailsAreInPlace, MovingIsNotKept, OptionsAreOfTracer
          DEF ArgumentsRight
<1> QED BY <1>1, ParametersStart, ParametersKeep, PTL DEF ParametersSpec
=============================================================================
