---------------------------- MODULE HbarLimiter ----------------------------
(***************************************************************************)
(* The HBAR limiter of the relay: HbarLimitService on top of the spending  *)
(* plan repositories, together with the part of the request that drives it *)
(* (ask shouldLimit, execute the transaction, book the expense when the    *)
(* metric service has fetched the transaction record).                     *)
(*                                                                         *)
(* Every cache operation the code awaits is one step, so that requests     *)
(* interleave exactly where the event loop (and, with a shared Redis,      *)
(* another relay instance) can interleave them.  The cache holds three     *)
(* kinds of entries, each with its own expiry: address -> plan links,      *)
(* plans, and the amount spent on a plan.  The in-process cache is an LRU  *)
(* cache that all answers of the relay share (CACHE_MAX entries); it may   *)
(* evict any of them at any time, the preconfigured ones too.  Time is a   *)
(* discrete clock.                                                         *)
(***************************************************************************)
EXTENDS Integers

CONSTANTS
  Relays,      \* relay instances; each keeps its own reset timestamp
  Requests,    \* requests in flight at the same time
  Home,        \* Home[p]: the instance that serves request p
  Users,       \* EVM addresses that sign transactions
  Ips,         \* client IP addresses
  Operator,    \* EVM address of the operator account
  None,        \* "no address"
  Limit,       \* TIER_LIMITS: tier -> tinybars
  Duration,    \* limitDuration
  Costs,       \* possible transaction fees
  Estimates,   \* possible values of estimatedTxFee
  SharedCache, \* TRUE: Redis, FALSE: in-process LRU cache
  NumPresets,  \* number of preconfigured plans; their ids are 1..NumPresets
  PresetTier,  \* their tiers
  PresetLink,  \* preconfigured links: address -> plan id, 0 if none
  StartTime,   \* clock when the relays start
  FirstTime,   \* clock when the first request arrives
  ClockStep,   \* how far the clock advances at a time
  MaxTime,     \* bound on the clock
  MaxPlans,    \* bound on the number of plans ever created
  MaxPaid,     \* bound on the total fees paid
  MaxEvictions \* bound on the entries the cache evicts

Tiers == {"BASIC", "EXTENDED", "PRIVILEGED", "OPERATOR"}
Keys == Users \cup Ips \cup {Operator}
PlanIds == 1..MaxPlans
Presets == 1..NumPresets
NoPlan == 0
Never == -1    \* expiry of an entry stored without a TTL
Gone == -2     \* ... of a plan that was evicted

ASSUME LimiterConstants ==
  /\ Home \in [Requests -> Relays]
  /\ None \notin Keys
  /\ Limit \in [Tiers -> Nat \ {0}]
  /\ Duration \in Nat \ {0}
  /\ Costs \subseteq Nat \ {0}
  /\ Estimates \subseteq Nat
  /\ SharedCache \in BOOLEAN
  /\ MaxPlans \in Nat
  /\ NumPresets \in 0..MaxPlans
  /\ PresetTier \in [Presets -> Tiers]
  /\ PresetLink \in [Keys -> Presets \cup {NoPlan}]
  /\ StartTime \in Nat
  /\ FirstTime \in Nat
  /\ StartTime <= FirstTime
  /\ ClockStep \in Nat \ {0}
  /\ MaxTime \in Nat
  /\ MaxPaid \in Nat
  /\ MaxEvictions \in Nat

VARIABLES
  now,     \* Date.now()
  reset,   \* HbarLimitService.reset of every instance
  link,    \* evmAddress/ipAddress -> spending plan link entries
  plans,   \* spending plan entries
  amount,  \* amountSpent entries (value 0: no entry)
  nextId,  \* next fresh plan id (a UUID in the code)
  req,     \* program counter and locals of every request
  paid,    \* ghost: fees the operator really paid
  ledger,  \* ghost: sum of all expenses ever booked on a plan
  settled, \* ghost: fees completely booked since the current window opened
  opened,  \* ghost: boundary at which the current window opened
  evicted, \* ghost: "plan": an operator's plan or link was evicted; "amount": one's amount, in this window
  evictions  \* how many entries the cache has evicted

vars == <<now, reset, link, plans, amount, nextId, req, paid, ledger, settled, opened,
          evicted, evictions>>
cache == <<link, plans, amount, nextId>>
window == <<settled, opened, evicted, evictions>>

-----------------------------------------------------------------------------
(* The clock and the entries of the cache                                  *)

Live(e) == e.exp = Never \/ now <= e.exp

LinkOf(k) == IF k \in Keys /\ Live(link[k]) THEN link[k].plan ELSE NoPlan

PlanExists(id) == id \in PlanIds /\ id < nextId /\ Live(plans[id])

AmountSpent(id) == IF Live(amount[id]) THEN amount[id].val ELSE 0

\* mutant: rounded down
ResetRoundedDown(r, t) == IF r < t THEN r + ((t - r) \div Duration) * Duration ELSE r

\* mutant: a period is added, whatever the time is
ResetOnePeriod(r, t) == r + Duration

\* getResetTimestamp: the next multiple of the duration that is not in the past
GetResetTimestamp(r, t) ==
  IF r < t THEN r + ((t - r + Duration - 1) \div Duration) * Duration ELSE r

\* mutant: a reset is due within the whole last period
ResetTooEarly(h) == now >= reset[h] - Duration

ShouldResetLimiter(h) == now >= reset[h]

\* the boundary at or before the present time
Boundary == (now \div Duration) * Duration

-----------------------------------------------------------------------------
(* Types                                                                   *)

Labels == {"idle", "reset_keys", "reset_delete", "reset_done", "link", "plan", "spent",
           "create", "save", "budget", "check", "execute", "record", "charge_op", "gauge",
           "charge_user", "charge_read", "charge_set", "charge_incr", "charge_incr_set",
           "limited_total", "limited_plan"}
Returns == {"reset_done", "budget", "check", "charge_op", "gauge", "charge_user"}
Expiry == Nat \cup {Never, Gone}

Request ==
  [pc : Labels, ret : Returns, who : Keys \cup {None}, by : {"evm", "ip"},
   signer : Users \cup {None}, ip : Ips \cup {None}, est : Nat, cost : Nat,
   plan : PlanIds \cup {NoPlan}, seen : Nat, keys : SUBSET PlanIds,
   before : Nat]  \* before (ghost): the value of settled when the request read the budget

TypeOK ==
  /\ now \in Nat
  /\ reset \in [Relays -> Nat]
  /\ link \in [Keys -> [plan : PlanIds \cup {NoPlan}, exp : Expiry]]
  /\ plans \in [PlanIds -> [tier : Tiers, owners : SUBSET Keys, exp : Expiry]]
  /\ amount \in [PlanIds -> [val : Nat, exp : Expiry]]
  /\ nextId \in 1..(MaxPlans + 1)
  /\ req \in [Requests -> Request]
  /\ paid \in Nat
  /\ ledger \in [PlanIds -> Nat]
  /\ settled \in Nat
  /\ opened \in Nat
  /\ evicted \subseteq {"plan", "amount"}
  /\ evictions \in Nat

-----------------------------------------------------------------------------
(* The initial state: the preconfigured plans are in the cache without TTL *)

IdleRequest ==
  [pc |-> "idle", ret |-> "budget", who |-> None, by |-> "evm", signer |-> None, ip |-> None,
   est |-> 0, cost |-> 0, plan |-> NoPlan, seen |-> 0, keys |-> {}, before |-> 0]

Init ==
  /\ now = FirstTime
  /\ reset = [h \in Relays |-> GetResetTimestamp(0, StartTime)]
  /\ link = [k \in Keys |-> [plan |-> PresetLink[k], exp |-> Never]]
  /\ plans = [id \in PlanIds |->
                [tier   |-> IF id \in Presets THEN PresetTier[id] ELSE "BASIC",
                 owners |-> {k \in Keys : PresetLink[k] = id},
                 exp    |-> Never]]
  /\ amount = [id \in PlanIds |-> [val |-> 0, exp |-> Never]]
  /\ nextId = NumPresets + 1
  /\ req = [p \in Requests |-> IdleRequest]
  /\ paid = 0
  /\ ledger = [id \in PlanIds |-> 0]
  /\ settled = 0
  /\ opened = (StartTime \div Duration) * Duration
  /\ evicted = {}
  /\ evictions = 0

-----------------------------------------------------------------------------
(* getSpendingPlan and createSpendingPlanForAddress, as a subroutine: the  *)
(* plan of who (or, failing that, of the request's IP address) ends up in  *)
(* plan and its amountSpent in seen, and the request goes on at ret.       *)

Step(p, r) == req' = [req EXCEPT ![p] = r]

\* nothing found: create a plan, or give up when there is no address to link
Miss(r) == IF r.who = None THEN IdleRequest ELSE [r EXCEPT !.pc = "create", !.plan = NoPlan]

LookUp(r, who, ret) ==
  LET q == [r EXCEPT !.who = who, !.ret = ret, !.plan = NoPlan, !.seen = 0] IN
  IF who # None THEN [q EXCEPT !.pc = "link", !.by = "evm"]
  ELSE IF r.ip # None THEN [q EXCEPT !.pc = "link", !.by = "ip"]
  ELSE Miss(q)

\* mutant: the lookup by EVM address is repeated
RetryLookup(r) == [r EXCEPT !.pc = "link"]

\* a lookup by EVM address that throws is followed by one by IP address
NotFound(r) ==
  IF r.by = "evm" /\ r.ip # None THEN [r EXCEPT !.pc = "link", !.by = "ip", !.plan = NoPlan]
  ELSE Miss(r)

Key(r) == IF r.by = "evm" THEN r.who ELSE r.ip

\* findByAddress
FindLink(p) ==
  LET r == req[p] IN
  /\ r.pc = "link"
  /\ Step(p, IF LinkOf(Key(r)) = NoPlan THEN NotFound(r)
             ELSE [r EXCEPT !.pc = "plan", !.plan = LinkOf(Key(r))])
  /\ UNCHANGED <<now, reset, cache, paid, ledger, window>>

\* findById, and the same read again in checkExistsAndActive
FindPlan(p) ==
  LET r == req[p] IN
  /\ r.pc = "plan"
  /\ Step(p, IF PlanExists(r.plan) THEN [r EXCEPT !.pc = "spent"] ELSE NotFound(r))
  /\ UNCHANGED <<now, reset, cache, paid, ledger, window>>

\* getAmountSpent
FindAmount(p) ==
  LET r == req[p] IN
  /\ r.pc = "spent"
  /\ Step(p, [r EXCEPT !.pc = r.ret, !.seen = AmountSpent(r.plan)])
  /\ UNCHANGED <<now, reset, cache, paid, ledger, window>>

\* the first of the two writes of createSpendingPlanForAddress
CreatePlan(p) ==
  LET r == req[p]
      tier == IF r.who = Operator THEN "OPERATOR" ELSE "BASIC"
  IN
  /\ r.pc = "create"
  /\ nextId <= MaxPlans
  /\ plans' = [plans EXCEPT ![nextId] =
                 [tier |-> tier, owners |-> {r.who}, exp |-> now + Duration]]
  /\ nextId' = nextId + 1
  /\ Step(p, [r EXCEPT !.pc = "save", !.plan = nextId, !.seen = 0])
  /\ UNCHANGED <<now, reset, link, amount, paid, ledger, window>>

\* the second one
SaveLink(p) ==
  LET r == req[p] IN
  /\ r.pc = "save"
  /\ link' = [link EXCEPT ![r.who] = [plan |-> r.plan, exp |-> now + Duration]]
  /\ Step(p, [r EXCEPT !.pc = r.ret])
  /\ UNCHANGED <<now, reset, plans, amount, nextId, paid, ledger, window>>

-----------------------------------------------------------------------------
(* resetLimiter                                                            *)

\* resetAmountSpentOfAllPlans takes the matching keys; the first reset after a
\* boundary opens a new window (ghost)
ResetKeys(p) ==
  LET keys == {id \in PlanIds : AmountSpent(id) > 0}
      r == [req[p] EXCEPT !.pc = "reset_delete", !.keys = keys]
  IN
  /\ req[p].pc = "reset_keys"
  /\ IF opened < Boundary
     THEN /\ opened' = Boundary
          /\ settled' = 0
          /\ evicted' = evicted \ {"amount"}
          /\ UNCHANGED evictions
          /\ req' = [q \in Requests |-> IF q = p THEN r ELSE [req[q] EXCEPT !.before = 0]]
     ELSE Step(p, r) /\ UNCHANGED window
  /\ UNCHANGED <<now, reset, cache, paid, ledger>>

\* the keys are deleted concurrently
ResetDelete(p) ==
  /\ req[p].pc = "reset_delete"
  /\ \E id \in req[p].keys :
       /\ amount' = [amount EXCEPT ![id] = [val |-> 0, exp |-> Never]]
       /\ Step(p, [req[p] EXCEPT !.keys = @ \ {id}])
  /\ UNCHANGED <<now, reset, link, plans, nextId, paid, ledger, window>>

\* the remaining budget is read for the gauge
ResetGauge(p) ==
  /\ req[p].pc = "reset_delete"
  /\ req[p].keys = {}
  /\ Step(p, LookUp(req[p], Operator, "reset_done"))
  /\ UNCHANGED <<now, reset, cache, paid, ledger, window>>

\* the budget check of a request, once no reset is due (any more)
ReadBudget(p, r) ==
  Step(p, LookUp([r EXCEPT !.before = settled], Operator, "budget"))

\* the new timestamp is stored last
ResetDone(p) ==
  /\ req[p].pc = "reset_done"
  /\ reset' = [reset EXCEPT ![Home[p]] = GetResetTimestamp(@, now)]
  /\ ReadBudget(p, req[p])
  /\ UNCHANGED <<now, cache, paid, ledger, window>>

-----------------------------------------------------------------------------
(* shouldLimit                                                             *)

Start(p) ==
  /\ req[p].pc = "idle"
  /\ \E s \in Users \cup {None}, i \in Ips \cup {None}, e \in Estimates :
       LET r == [IdleRequest EXCEPT !.signer = s, !.ip = i, !.est = e] IN
       IF ShouldResetLimiter(Home[p])
       THEN Step(p, [r EXCEPT !.pc = "reset_keys"])
       ELSE ReadBudget(p, r)
  /\ UNCHANGED <<now, reset, cache, paid, ledger, window>>

Exceeds(limit, spent, est) == limit <= spent \/ limit < spent + est

\* isTotalBudgetExceeded, then the early return of shouldLimit
CheckBudget(p) ==
  LET r == req[p] IN
  /\ r.pc = "budget"
  /\ Step(p, IF Exceeds(Limit["OPERATOR"], r.seen, r.est) THEN [r EXCEPT !.pc = "limited_total"]
             ELSE IF r.signer = None /\ r.ip = None THEN [r EXCEPT !.pc = "execute"]
             ELSE LookUp(r, r.signer, "check"))
  /\ UNCHANGED <<now, reset, cache, paid, ledger, window>>

\* the limit of the tier of the signer's plan
CheckPlan(p) ==
  LET r == req[p] IN
  /\ r.pc = "check"
  /\ Step(p, [r EXCEPT !.pc = IF Exceeds(Limit[plans[r.plan].tier], r.seen, r.est)
                               THEN "limited_plan" ELSE "execute"])
  /\ UNCHANGED <<now, reset, cache, paid, ledger, window>>

\* executeTransaction throws HBAR_RATE_LIMIT_EXCEEDED
Refuse(p) ==
  /\ req[p].pc \in {"limited_total", "limited_plan"}
  /\ Step(p, IdleRequest)
  /\ UNCHANGED <<now, reset, cache, paid, ledger, window>>

-----------------------------------------------------------------------------
(* executing the transaction and booking what it cost                      *)

Execute(p) ==
  /\ req[p].pc = "execute"
  /\ \E c \in Costs :
       /\ paid + c <= MaxPaid
       /\ paid' = paid + c
       /\ Step(p, [req[p] EXCEPT !.pc = "record", !.cost = c, !.est = 0, !.before = 0])
  /\ UNCHANGED <<now, reset, cache, ledger, window>>

\* the transaction does not reach the network: no fee, no expense
ExecuteFails(p) ==
  /\ req[p].pc = "execute"
  /\ Step(p, IdleRequest)
  /\ UNCHANGED <<now, reset, cache, paid, ledger, window>>

\* mutant: the first charge goes to the plan of the signer
ChargeSignerFirst(p) ==
  /\ req[p].pc = "record"
  /\ Step(p, LookUp(req[p], req[p].signer, "charge_op"))
  /\ UNCHANGED <<now, reset, cache, paid, ledger, window>>

\* captureTransactionMetrics calls addExpense ...
AddExpense(p) ==
  /\ req[p].pc = "record"
  /\ Step(p, LookUp(req[p], Operator, "charge_op"))
  /\ UNCHANGED <<now, reset, cache, paid, ledger, window>>

\* ... unless no transaction record can be fetched
RecordUnavailable(p) ==
  /\ req[p].pc = "record"
  /\ Step(p, IdleRequest)
  /\ UNCHANGED <<now, reset, cache, paid, ledger, window>>

\* addToAmountSpent: checkExistsAndActive throws when the plan is gone
ChargeExists(p) ==
  LET r == req[p] IN
  /\ r.pc \in {"charge_op", "charge_user"}
  /\ Step(p, IF PlanExists(r.plan) THEN [r EXCEPT !.pc = "charge_read", !.seen = 0] ELSE IdleRequest)
  /\ UNCHANGED <<now, reset, cache, paid, ledger, window>>

ChargeRead(p) ==
  LET r == req[p] IN
  /\ r.pc = "charge_read"
  /\ Step(p, [r EXCEPT !.pc = IF AmountSpent(r.plan) = 0 THEN "charge_set" ELSE "charge_incr"])
  /\ UNCHANGED <<now, reset, cache, paid, ledger, window>>

\* what follows a write: the gauge after the operator's plan, nothing after the user's
Charged(p) ==
  LET r == req[p] IN
  /\ ledger' = [ledger EXCEPT ![r.plan] = @ + r.cost]
  /\ IF r.ret = "charge_op"
     THEN Step(p, LookUp(r, Operator, "gauge")) /\ settled' = settled + r.cost
     ELSE Step(p, IdleRequest) /\ UNCHANGED settled
  /\ UNCHANGED <<now, reset, link, plans, nextId, paid, opened, evicted, evictions>>

\* mutant: the first charge is set and then incremented too
SetAndIncrement(p) ==
  LET r == req[p] IN
  /\ r.pc = "charge_set"
  /\ amount' = [amount EXCEPT ![r.plan] = [val |-> 2 * r.cost, exp |-> now + Duration]]
  /\ Charged(p)

\* no amount seen: set it, whatever is stored by now
ChargeSet(p) ==
  LET r == req[p] IN
  /\ r.pc = "charge_set"
  /\ amount' = [amount EXCEPT ![r.plan] = [val |-> r.cost, exp |-> now + Duration]]
  /\ Charged(p)

\* mutant: INCRBY is sent twice
ChargeTwice(p) ==
  LET r == req[p] IN
  /\ r.pc = "charge_incr" /\ SharedCache
  /\ amount' = [amount EXCEPT ![r.plan] =
                  [val |-> AmountSpent(r.plan) + 2 * r.cost,
                   exp |-> IF AmountSpent(r.plan) = 0 THEN Never ELSE @.exp]]
  /\ Charged(p)

\* INCRBY of Redis: atomic, and without TTL when the entry is gone
ChargeIncr(p) ==
  LET r == req[p] IN
  /\ r.pc = "charge_incr" /\ SharedCache
  /\ amount' = [amount EXCEPT ![r.plan] =
                  [val |-> AmountSpent(r.plan) + r.cost,
                   exp |-> IF AmountSpent(r.plan) = 0 THEN Never ELSE @.exp]]
  /\ Charged(p)

\* incrBy of the in-process cache: a read ...
ChargeIncrRead(p) ==
  LET r == req[p] IN
  /\ r.pc = "charge_incr" /\ ~SharedCache
  /\ Step(p, [r EXCEPT !.pc = "charge_incr_set", !.seen = AmountSpent(r.plan)])
  /\ UNCHANGED <<now, reset, cache, paid, ledger, window>>

\* mutant: the amount read is added to the one stored
AddReadAmount(p) ==
  LET r == req[p] IN
  /\ r.pc = "charge_incr_set"
  /\ amount' = [amount EXCEPT ![r.plan] =
                  [val |-> AmountSpent(r.plan) + r.seen + r.cost,
                   exp |-> IF AmountSpent(r.plan) = 0 THEN Never ELSE @.exp]]
  /\ Charged(p)

\* ... followed by a write that keeps the remaining TTL
ChargeIncrSet(p) ==
  LET r == req[p] IN
  /\ r.pc = "charge_incr_set"
  /\ amount' = [amount EXCEPT ![r.plan] =
                  [val |-> r.seen + r.cost,
                   exp |-> IF AmountSpent(r.plan) = 0 THEN Never ELSE @.exp]]
  /\ Charged(p)

\* mutant: the operator's plan is charged again
ChargeOperatorAgain(p) ==
  /\ req[p].pc = "gauge"
  /\ Step(p, LookUp(req[p], Operator, "charge_user"))
  /\ UNCHANGED <<now, reset, cache, paid, ledger, window>>

\* the gauge is set; addExpense goes on with the plan of the signer
ChargeUser(p) ==
  /\ req[p].pc = "gauge"
  /\ Step(p, LookUp(req[p], req[p].signer, "charge_user"))
  /\ UNCHANGED <<now, reset, cache, paid, ledger, window>>

-----------------------------------------------------------------------------
Tick ==
  /\ now + ClockStep <= MaxTime
  /\ now' = now + ClockStep
  /\ UNCHANGED <<reset, cache, req, paid, ledger, window>>

(* The LRU cache is full and drops its least recently used entry.  The     *)
(* reserved keys that should keep the preconfigured entries out of it are  *)
(* not in force (CacheService, getInstance), so any entry may be the one.  *)
IsOperators(id) == Operator \in plans[id].owners

EvictLink(k) ==
  /\ link[k].plan # NoPlan
  /\ link' = [link EXCEPT ![k] = [plan |-> NoPlan, exp |-> Never]]
  /\ evicted' = IF k = Operator THEN evicted \cup {"plan"} ELSE evicted
  /\ UNCHANGED <<plans, amount>>

EvictPlan(id) ==
  /\ PlanExists(id)
  /\ plans' = [plans EXCEPT ![id].exp = Gone]
  /\ evicted' = IF IsOperators(id) THEN evicted \cup {"plan"} ELSE evicted
  /\ UNCHANGED <<link, amount>>

EvictAmount(id) ==
  /\ AmountSpent(id) > 0
  /\ amount' = [amount EXCEPT ![id] = [val |-> 0, exp |-> Never]]
  /\ evicted' = IF IsOperators(id) THEN evicted \cup {"amount"} ELSE evicted
  /\ UNCHANGED <<link, plans>>

Evict ==
  /\ ~SharedCache
  /\ evictions < MaxEvictions
  /\ evictions' = evictions + 1
  /\ (\E k \in Keys : EvictLink(k)) \/ (\E id \in PlanIds : EvictPlan(id) \/ EvictAmount(id))
  /\ UNCHANGED <<now, reset, nextId, req, paid, ledger, settled, opened>>

\* the steps of a request once it has been received
Progress(p) ==
  \/ ResetKeys(p) \/ ResetDelete(p) \/ ResetGauge(p) \/ ResetDone(p)
  \/ FindLink(p) \/ FindPlan(p) \/ FindAmount(p) \/ CreatePlan(p) \/ SaveLink(p)
  \/ CheckBudget(p) \/ CheckPlan(p) \/ Refuse(p)
  \/ Execute(p) \/ ExecuteFails(p) \/ AddExpense(p) \/ RecordUnavailable(p)
  \/ ChargeExists(p) \/ ChargeRead(p) \/ ChargeSet(p) \/ ChargeIncr(p)
  \/ ChargeIncrRead(p) \/ ChargeIncrSet(p) \/ ChargeUser(p)

Next == Tick \/ Evict \/ \E p \in Requests : Start(p) \/ Progress(p)

Spec == Init /\ [][Next]_vars

\* every awaited cache or network call returns: a received request makes progress
FairSpec == Spec /\ \A p \in Requests : WF_vars(Progress(p))
-----------------------------------------------------------------------------
(* Properties                                                              *)

\* The amount recorded on a plan never exceeds the expenses booked on it, in
\* spite of lost updates, resets that overtake a charge and entries that
\* expire under it (addToAmountSpent, incrBy, resetAmountSpentOfAllPlans).
NoPhantomSpending == \A id \in PlanIds : amount[id].val <= ledger[id]

\* shouldLimit refuses a request only on account of expenses that were really
\* booked on the plan it looked at (both the total budget and the tier limit).
LimitedOnlyIfBooked ==
  \A p \in Requests :
    LET r == req[p] IN
    /\ r.pc = "limited_total" => Exceeds(Limit["OPERATOR"], ledger[r.plan], r.est)
    /\ r.pc = "limited_plan" => Exceeds(Limit[plans[r.plan].tier], ledger[r.plan], r.est)

\* A request is refused for the total budget only if the operator really paid
\* that much: no fee is counted twice against the budget.  (Once the in-process cache has
\* evicted the operator's plan or link, the budget is read on the plan of the IP address, on
\* which a fee may be booked twice: as the operator's and as the user's.)
LimitedOnlyIfPaid ==
  \A p \in Requests :
    req[p].pc = "limited_total" =>
      Exceeds(Limit["OPERATOR"], paid, req[p].est) \/ "plan" \in evicted

\* The plan a request is judged by and charged to is one of its signer or of
\* its IP address, whatever plans and links are created, replaced or expire
\* while it runs (getSpendingPlan, createSpendingPlanForAddress).
ChargedToOwnPlan ==
  \A p \in Requests :
    LET r == req[p] IN
    \/ r.ret \notin {"check", "charge_user"}
    \/ r.pc \notin {"check", "execute", "record", "limited_plan", "charge_user",
                    "charge_read", "charge_set", "charge_incr", "charge_incr_set"}
    \/ plans[r.plan].owners \cap {r.signer, r.ip} # {}

\* The total budget is tracked on a plan of the operator, separate from those of the users,
\* until the cache has evicted the operator's plan or its link: from then on its look-up falls
\* back to the IP address of the request (getOperatorSpendingPlan, getSpendingPlan).
OperatorPlanIsSeparate ==
  \A p \in Requests :
    LET r == req[p] IN
    \/ "plan" \in evicted
    \/ /\ r.pc = "budget" => IsOperators(r.plan)
       /\ r.pc \in {"charge_op", "charge_read"} /\ r.ret = "charge_op" => IsOperators(r.plan)

\* Once the fees booked in a window reach the total budget, every request that
\* reads the budget afterwards is refused until the next boundary is passed,
\* unless the cache has evicted what they were booked on: the operator's plan
\* or link at any time, or its amount in this window (the next reset makes up
\* for an amount, nothing for a plan).
BlockedUntilReset ==
  \A p \in Requests :
    req[p].pc = "execute" =>
      req[p].before < Limit["OPERATOR"] \/ opened < Boundary \/ evicted # {}

\* A reset moves the timestamp forward to a boundary that has not passed and is
\* less than a period away, however late it runs and however many requests of
\* the relay found it due at once (resetLimiter, getResetTimestamp).
ResetsKeepPace ==
  [][\A h \in Relays : reset'[h] # reset[h] =>
       /\ reset[h] < reset'[h]
       /\ reset'[h] \in now..(now + Duration - 1)
       /\ reset'[h] % Duration = 0]_vars

\* The reset timestamp computed by resetLimiter lies in the future.
ResetInFuture ==
  [][\A p \in Requests : ResetDone(p) => reset'[Home[p]] > now]_vars

\* Every request that is received is answered and its expense handling ends.
RequestsEnd == \A p \in Requests : (req[p].pc # "idle") ~> (req[p].pc = "idle")

\* Both refusals together: they rest on expenses booked on the plan and paid by the operator,
\* whatever resets, charges and expiries run at the same time (shouldLimit).
RefusedForSpending == LimitedOnlyIfBooked /\ LimitedOnlyIfPaid

\* What docs/design/hbar-limiter.md promises of the total budget, one request at a time: it is
\* kept on a plan of the operator, and once spent it is spent until the next reset; both only
\* while the in-process cache keeps the operator's entries.
LimiterPromises == BlockedUntilReset /\ OperatorPlanIsSeparate

\* Every reset moves the timestamp to the next boundary, and the one that resetLimiter computes
\* never lies in the past.
ResetsOnTime == ResetsKeepPace /\ ResetInFuture
=============================================================================
