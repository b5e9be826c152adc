---------------------------- MODULE RateLimiter -----------------------------
(***************************************************************************)
(* IPRateLimiterService with its two stores: LruRateLimitStore, in memory, *)
(* one window for all methods of an address; and RedisRateLimitStore, one  *)
(* counter with a TTL for every address and method, which lets calls pass  *)
(* when Redis fails.                                                       *)
(***************************************************************************)
EXTENDS Integers, FiniteSets

CONSTANTS
  Clients,    \* IP addresses
  Methods,
  Total,      \* methodConfiguration: calls of a method in a window
  Duration,   \* LIMIT_DURATION
  MaxClock    \* bound on the clock

ASSUME RateConstants ==
  /\ Total \in [Methods -> Nat \ {0}]
  /\ Duration \in Nat \ {0}
  /\ MaxClock \in Nat

VARIABLES
  clock,
  store,      \* "LRU" or "REDIS"
  reset,      \* LRU: when the window of an address ends, Absent if it has no entry
  remaining,  \* LRU: calls left of a method
  count,      \* REDIS: the counters, 0 if there is no entry
  expires,    \* REDIS: when the entry expires
  verdict     \* what the last call was told

lru == <<reset, remaining>>
redis == <<count, expires>>
rateVars == <<clock, store, lru, redis, verdict>>

Absent == -1
RateKeys == Clients \X Methods

RateTypeOK ==
  /\ clock \in 0..MaxClock
  /\ store \in {"LRU", "REDIS"}
  /\ reset \in [Clients -> {Absent} \cup 0 .. MaxClock + Duration]
  /\ remaining \in [RateKeys -> {Absent} \cup Nat]
  /\ count \in [RateKeys -> Nat]
  /\ expires \in [RateKeys -> 0 .. MaxClock + Duration]
  /\ verdict \in {"none", "pass", "limited"}

\* determineStoreType: an unknown name stops the relay at once
RateInit ==
  /\ clock = 0
  /\ store \in {"LRU", "REDIS"}
  /\ reset = [ip \in Clients |-> Absent]
  /\ remaining = [k \in RateKeys |-> Absent]
  /\ count = [k \in RateKeys |-> 0]
  /\ expires = [k \in RateKeys |-> 0]
  /\ verdict = "none"

-----------------------------------------------------------------------------
(* LruRateLimitStore.incrementAndCheck                                     *)

Known(k) == remaining[k] # Absent
WindowEnd(ip) == IF reset[ip] = Absent THEN clock + Duration ELSE reset[ip]
shouldReset(ip) == WindowEnd(ip) < clock
Left(ip, m) == IF Known(<<ip, m>>) THEN remaining[<<ip, m>>] ELSE Total[m]

\* mutant: the window of the address goes on for the methods that did not ask
ResetOne(ip, m) == [remaining EXCEPT ![<<ip, m>>] = Total[m] - 1]

\* reset: every method of the address that has an entry gets its total back
ResetAll(ip, m) ==
  [k \in RateKeys |-> IF k = <<ip, m>> THEN Total[m] - 1
                      ELSE IF k[1] = ip /\ Known(k) THEN Total[k[2]] ELSE remaining[k]]

LruCheck(ip, m) ==
  /\ UNCHANGED redis
  /\ IF shouldReset(ip)
     THEN /\ reset' = [reset EXCEPT ![ip] = clock + Duration]
          /\ remaining' = ResetAll(ip, m)
          /\ verdict' = "pass"
     ELSE /\ reset' = [reset EXCEPT ![ip] = WindowEnd(ip)]
          /\ remaining' = [remaining EXCEPT ![<<ip, m>>] =
                             IF Left(ip, m) > 0 THEN Left(ip, m) - 1 ELSE 0]
          /\ verdict' = IF Left(ip, m) > 0 THEN "pass" ELSE "limited"

-----------------------------------------------------------------------------
(* RedisRateLimitStore.incrementAndCheck: a script that runs in one piece  *)

Expired(k) == count[k] = 0 \/ expires[k] <= clock
Counted(k) == IF Expired(k) THEN 1 ELSE count[k] + 1

WindowOf(k) == IF Expired(k) THEN clock + Duration ELSE expires[k]

\* an error, before or after the script ran, lets the call pass
RedisCheck(k) ==
  /\ UNCHANGED lru
  /\ \/ /\ count' = [count EXCEPT ![k] = Counted(k)]
        /\ expires' = [expires EXCEPT ![k] = WindowOf(k)]
        /\ verdict' = IF Counted(k) > Total[k[2]] THEN "limited" ELSE "pass"
     \/ /\ count' = [count EXCEPT ![k] = Counted(k)]
        /\ expires' = [expires EXCEPT ![k] = WindowOf(k)]
        /\ verdict' = "pass"
     \/ verdict' = "pass" /\ UNCHANGED redis

-----------------------------------------------------------------------------
(* shouldRateLimit                                                         *)

shouldRateLimit(ip, m) ==
  /\ IF store = "LRU" THEN LruCheck(ip, m) ELSE RedisCheck(<<ip, m>>)
  /\ UNCHANGED <<clock, store>>

RateTick ==
  /\ clock < MaxClock
  /\ clock' = clock + 1
  /\ UNCHANGED <<store, lru, redis, verdict>>

RateNext == RateTick \/ \E ip \in Clients, m \in Methods : shouldRateLimit(ip, m)

RateSpec == RateInit /\ [][RateNext]_rateVars

-----------------------------------------------------------------------------
(* Both stores implement fixed windows                                     *)

\* the calls that were counted in the window, and where it ends
Granted(k) ==
  IF store = "LRU" THEN IF Known(k) THEN Total[k[2]] - remaining[k] ELSE 0
  ELSE IF count[k] > Total[k[2]] THEN Total[k[2]] ELSE count[k]

Until(k) ==
  IF store = "LRU" THEN IF reset[k[1]] = Absent THEN Absent ELSE reset[k[1]]
  ELSE IF count[k] = 0 THEN Absent ELSE expires[k] - 1

Windows ==
  INSTANCE FixedWindow WITH
    WKeys <- RateKeys,
    Limit <- [k \in RateKeys |-> Total[k[2]]],
    length <- IF store = "LRU" THEN Duration ELSE Duration - 1,
    mayFail <- store = "REDIS",
    granted <- [k \in RateKeys |-> Granted(k)],
    until <- [k \in RateKeys |-> Until(k)]

\* Whatever the store, the calls of an address and a method pass in windows of LIMIT_DURATION,
\* at most the method's total in each, and none is refused earlier; only a failing Redis lets
\* more through (IPRateLimiterService.shouldRateLimit).
CountsInWindows == Windows!FWSpec
=============================================================================
