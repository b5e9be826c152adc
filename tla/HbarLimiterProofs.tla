------------------------- MODULE HbarLimiterProofs -------------------------
(***************************************************************************)
(* What is proved of the HBAR limiter for every number of relays, requests,*)
(* users, IP addresses and preconfigured plans, every duration and limit:  *)
(* types, what is booked and refused, resets, and at the end progress.     *)
(***************************************************************************)
EXTENDS HbarLimiter, FiniteSetTheorems, TLAPS

(* ---------------------------- type correctness ------------------------- *)

LEMMA IdleType == IdleRequest \in Request
  BY DEF IdleRequest, Request, Labels, Returns, NoPlan

\* The lookup subroutine keeps the locals of a request well typed.
LEMMA LookUpType ==
  ASSUME NEW r \in Request, NEW who \in Keys \cup {None}, NEW ret \in Returns
  PROVE  LookUp(r, who, ret) \in Request
<1> DEFINE q == [r EXCEPT !.who = who, !.ret = ret, !.plan = NoPlan, !.seen = 0]
<1>1. q \in Request
  <2> DEFINE s == [r EXCEPT !.who = who, !.ret = ret]
  <2>1. s \in Request
    BY DEF Request
  <2> HIDE DEF s
  <2>2. [s EXCEPT !.plan = NoPlan, !.seen = 0] \in Request
    BY <2>1 DEF Request
  <2> QED BY <2>2 DEF s
<1> HIDE DEF q
<1>2. [q EXCEPT !.pc = "link", !.by = "evm"] \in Request
  BY <1>1, ZenonT(40) DEF Request, Labels
<1>3. [q EXCEPT !.pc = "link", !.by = "ip"] \in Request
  BY <1>1, ZenonT(40) DEF Request, Labels
<1>4. Miss(q) \in Request
  <2>1. [q EXCEPT !.pc = "create", !.plan = NoPlan] \in Request
    BY <1>1 DEF Request, Labels
  <2> QED BY <2>1, IdleType DEF Miss
<1> QED BY <1>2, <1>3, <1>4 DEF LookUp, q

LEMMA NotFoundType ==
  ASSUME NEW r \in Request
  PROVE  NotFound(r) \in Request
<1>1. [r EXCEPT !.pc = "link", !.by = "ip", !.plan = NoPlan] \in Request
  <2> DEFINE s == [r EXCEPT !.pc = "link", !.by = "ip"]
  <2>1. s \in Request
    BY DEF Request, Labels
  <2> HIDE DEF s
  <2>2. [s EXCEPT !.plan = NoPlan] \in Request
    BY <2>1 DEF Request
  <2> QED BY <2>2 DEF s
<1>2. [r EXCEPT !.pc = "create", !.plan = NoPlan] \in Request
  BY DEF Request, Labels
<1> QED BY <1>1, <1>2, IdleType DEF NotFound, Miss

(* TypeOK is not inductive: the label of a request says whether it holds a *)
(* plan, and the steps that read the plan rely on it.                      *)

WithPlan == Returns \cup {"plan", "spent", "save", "charge_read", "charge_set", "charge_incr",
                          "charge_incr_set", "limited_total", "limited_plan"}

ReqOK(r) ==
  /\ r \in Request
  /\ r.pc \in WithPlan => r.plan \in PlanIds
  /\ r.pc \in {"create", "save"} => r.who \in Keys

TypeInv == TypeOK /\ \A p \in Requests : ReqOK(req[p])

LEMMA IdleOK == ReqOK(IdleRequest)
  BY IdleType DEF ReqOK, IdleRequest, WithPlan, Returns

LEMMA LookUpOK ==
  ASSUME NEW r \in Request, NEW who \in Keys \cup {None}, NEW ret \in Returns
  PROVE  ReqOK(LookUp(r, who, ret))
<1>1. LookUp(r, who, ret) \in Request
  BY LookUpType
<1> DEFINE q == [r EXCEPT !.who = who, !.ret = ret, !.plan = NoPlan, !.seen = 0]
<1>2. q \in Request /\ q.who = who
  <2> DEFINE s == [r EXCEPT !.who = who, !.ret = ret]
  <2>1. s \in Request /\ s.who = who
    BY DEF Request
  <2> HIDE DEF s
  <2>2. [s EXCEPT !.plan = NoPlan, !.seen = 0] \in Request
        /\ [s EXCEPT !.plan = NoPlan, !.seen = 0].who = who
    BY <2>1 DEF Request
  <2> QED BY <2>2 DEF s
<1> HIDE DEF q
<1>3. CASE who # None
  <2>1. LookUp(r, who, ret) = [q EXCEPT !.pc = "link", !.by = "evm"]
    BY <1>3 DEF LookUp, q
  <2>2. LookUp(r, who, ret).pc = "link"
    BY <2>1, <1>2 DEF Request
  <2> QED BY <1>1, <2>2 DEF ReqOK, WithPlan, Returns
<1>4. CASE who = None /\ r.ip # None
  <2>1. LookUp(r, who, ret) = [q EXCEPT !.pc = "link", !.by = "ip"]
    BY <1>4 DEF LookUp, q
  <2>2. LookUp(r, who, ret).pc = "link"
    BY <2>1, <1>2 DEF Request
  <2> QED BY <1>1, <2>2 DEF ReqOK, WithPlan, Returns
<1>5. CASE who = None /\ r.ip = None
  <2>1. LookUp(r, who, ret) = IdleRequest
    BY <1>5, <1>2 DEF LookUp, q, Miss
  <2> QED BY <2>1, IdleOK
<1> QED BY <1>3, <1>4, <1>5

LEMMA NotFoundOK ==
  ASSUME NEW r \in Request
  PROVE  ReqOK(NotFound(r))
<1>1. NotFound(r) \in Request
  BY NotFoundType
<1>2. CASE r.by = "evm" /\ r.ip # None
  <2>1. NotFound(r).pc = "link"
    BY <1>2 DEF NotFound, Request
  <2> QED BY <1>1, <2>1 DEF ReqOK, WithPlan, Returns
<1>3. CASE ~(r.by = "evm" /\ r.ip # None) /\ r.who = None
  BY <1>3, IdleOK DEF NotFound, Miss
<1>4. CASE ~(r.by = "evm" /\ r.ip # None) /\ r.who # None
  <2>1. NotFound(r) = [r EXCEPT !.pc = "create", !.plan = NoPlan]
    BY <1>4 DEF NotFound, Miss
  <2>2. NotFound(r).pc = "create" /\ NotFound(r).who = r.who
    BY <2>1 DEF Request
  <2>3. r.who \in Keys
    BY <1>4 DEF Request
  <2> QED BY <1>1, <2>2, <2>3 DEF ReqOK, WithPlan, Returns
<1> QED BY <1>2, <1>3, <1>4

\* A step of one request leaves the others alone.
LEMMA StepOK ==
  ASSUME req \in [Requests -> Request], \A q \in Requests : ReqOK(req[q]),
         NEW p \in Requests, NEW r, ReqOK(r), Step(p, r)
  PROVE  req' \in [Requests -> Request] /\ \A q \in Requests : ReqOK(req'[q])
<1>1. r \in Request
  BY DEF ReqOK
<1>2. req' \in [Requests -> Request]
  BY <1>1 DEF Step
<1>3. \A q \in Requests : req'[q] = IF q = p THEN r ELSE req[q]
  BY DEF Step
<1> QED BY <1>2, <1>3

\* The next reset timestamp is a time.
LEMMA ResetTimestampType ==
  ASSUME NEW r \in Nat, NEW t \in Nat
  PROVE  GetResetTimestamp(r, t) \in Nat
<1>1. CASE r < t
  <2>1. Duration \in Nat /\ Duration > 0
    BY LimiterConstants
  <2>2. (t - r + Duration - 1) \div Duration \in Nat
    BY <2>1, <1>1
  <2> DEFINE k == (t - r + Duration - 1) \div Duration
  <2>3. k * Duration \in Nat
    <3> HIDE DEF k
    <3>1. k \in Nat
      BY <2>2 DEF k
    <3> QED BY <3>1, <2>1
  <2> HIDE DEF k
  <2>4. r + k * Duration \in Nat
    BY <2>3
  <2> QED BY <1>1, <2>4 DEF GetResetTimestamp, k
<1>2. CASE ~(r < t)
  BY <1>2 DEF GetResetTimestamp
<1> QED BY <1>1, <1>2

\* The constants, with the facts about them the proofs use.
LEMMA ConstantTypes ==
  /\ Duration \in Nat /\ Duration > 0
  /\ MaxPlans \in Nat /\ NumPresets \in Nat /\ NumPresets <= MaxPlans
  /\ StartTime \in Nat /\ FirstTime \in Nat
  /\ ClockStep \in Nat
  /\ Home \in [Requests -> Relays]
  /\ \A c \in Costs : c \in Nat /\ c > 0
  /\ Estimates \subseteq Nat
  BY LimiterConstants

LEMMA BoundaryType ==
  ASSUME NEW t \in Nat
  PROVE  (t \div Duration) * Duration \in Nat
<1> DEFINE k == t \div Duration
<1>1. k \in Nat
  BY ConstantTypes
<1> HIDE DEF k
<1>2. k * Duration \in Nat
  BY <1>1, ConstantTypes
<1> QED BY <1>2 DEF k

LEMMA InitTypeOK == Init => TypeOK
<1> SUFFICES ASSUME Init PROVE TypeOK
  OBVIOUS
<1> USE DEF Init
<1>1. now \in Nat /\ paid \in Nat /\ settled \in Nat
  BY ConstantTypes
<1>2. reset \in [Relays -> Nat]
  BY ConstantTypes, ResetTimestampType
<1>3. link \in [Keys -> [plan : PlanIds \cup {NoPlan}, exp : Expiry]]
  <2>1. PresetLink \in [Keys -> 1..NumPresets \cup {NoPlan}]
    BY LimiterConstants DEF Presets
  <2>2. 1..NumPresets \subseteq PlanIds
    BY ConstantTypes DEF PlanIds
  <2>3. \A k \in Keys : PresetLink[k] \in PlanIds \cup {NoPlan}
    BY <2>1, <2>2
  <2> QED BY <2>3 DEF Expiry
<1>4. plans \in [PlanIds -> [tier : Tiers, owners : SUBSET Keys, exp : Expiry]]
  <2>1. \A id \in PlanIds : (IF id \in Presets THEN PresetTier[id] ELSE "BASIC") \in Tiers
    BY LimiterConstants DEF Tiers
  <2> QED BY <2>1 DEF Expiry
<1>5. amount \in [PlanIds -> [val : Nat, exp : Expiry]] /\ ledger \in [PlanIds -> Nat]
  BY DEF Expiry
<1>6. nextId \in 1..(MaxPlans + 1)
  BY ConstantTypes
<1>7. req \in [Requests -> Request]
  BY IdleType
<1>8. opened \in Nat
  BY ConstantTypes, BoundaryType
<1>9. evicted \subseteq {"plan", "amount"} /\ evictions \in Nat
  OBVIOUS
<1> QED BY <1>1, <1>2, <1>3, <1>4, <1>5, <1>6, <1>7, <1>8, <1>9 DEF TypeOK

LEMMA InitTypeInv == Init => TypeInv
  BY InitTypeOK, IdleOK DEF TypeInv, Init

\* What the reads of the cache return.
LEMMA ReadTypes ==
  ASSUME TypeOK
  PROVE  /\ \A k : LinkOf(k) \in PlanIds \cup {NoPlan}
         /\ \A id \in PlanIds : AmountSpent(id) \in Nat
  BY DEF TypeOK, LinkOf, AmountSpent

LEMMA PlanIdFacts == NoPlan \notin PlanIds /\ \A id \in PlanIds : id \in Nat
  BY ConstantTypes DEF PlanIds, NoPlan

\* The steps that only change the locals of one request.
LEMMA LocalTypeInv ==
  ASSUME TypeInv, NEW p \in Requests, NEW r, ReqOK(r), Step(p, r),
         UNCHANGED <<now, reset, cache, paid, ledger, window>>
  PROVE  TypeInv'
<1>1. req' \in [Requests -> Request] /\ \A q \in Requests : ReqOK(req'[q])
  BY StepOK DEF TypeInv, TypeOK
<1>2. TypeOK'
  BY <1>1 DEF TypeInv, TypeOK, cache, window
<1> QED BY <1>1, <1>2 DEF TypeInv

\* The writes of addToAmountSpent.
LEMMA ChargedTypeInv ==
  ASSUME TypeInv, NEW p \in Requests, req[p].plan \in PlanIds, Charged(p),
         amount' \in [PlanIds -> [val : Nat, exp : Expiry]]
  PROVE  TypeInv'
<1> DEFINE r == req[p]
<1>1. r \in Request /\ Operator \in Keys /\ "gauge" \in Returns
  BY DEF TypeInv, TypeOK, Keys, Returns
<1>2. req' \in [Requests -> Request] /\ \A q \in Requests : ReqOK(req'[q])
  <2>1. ReqOK(LookUp(r, Operator, "gauge"))
    BY <1>1, LookUpOK
  <2>2. Step(p, LookUp(r, Operator, "gauge")) \/ Step(p, IdleRequest)
    BY DEF Charged
  <2> QED BY <2>1, <2>2, IdleOK, StepOK DEF TypeInv, TypeOK
<1>3. r.cost \in Nat
  BY <1>1 DEF Request
<1>4. ledger' \in [PlanIds -> Nat] /\ settled' \in Nat
  BY <1>3 DEF Charged, TypeInv, TypeOK
<1>5. UNCHANGED <<now, reset, link, plans, nextId, paid, opened, evicted, evictions>>
  BY DEF Charged
<1>6. TypeOK'
  BY <1>2, <1>4, <1>5 DEF TypeInv, TypeOK
<1> QED BY <1>2, <1>6 DEF TypeInv

\* An eviction takes a link, the life of a plan or an amount, and leaves a mark when it strikes
\* what the operator's budget is kept in; the plans keep their tiers and owners.
LEMMA EvictFacts ==
  ASSUME TypeOK, Evict
  PROVE  /\ UNCHANGED <<now, reset, nextId, req, paid, ledger, settled, opened>>
         /\ TypeOK'
         /\ \A k \in Keys : link'[k] = link[k] \/ link'[k].plan = NoPlan
         /\ \A id \in PlanIds : plans'[id].tier = plans[id].tier /\ plans'[id].owners = plans[id].owners
         /\ \A id \in PlanIds : amount'[id] = amount[id] \/ amount'[id].val = 0
         /\ evicted \subseteq evicted'
         /\ "plan" \notin evicted' =>
              /\ link'[Operator] = link[Operator]
              /\ \A id \in PlanIds : IsOperators(id) => plans'[id] = plans[id]
         /\ "amount" \notin evicted' => \A id \in PlanIds : IsOperators(id) => amount'[id] = amount[id]
<1>1. UNCHANGED <<now, reset, nextId, req, paid, ledger, settled, opened>> /\ evictions' \in Nat
  BY DEF Evict, TypeOK
<1>2. ASSUME NEW k \in Keys, EvictLink(k)
      PROVE  /\ UNCHANGED <<plans, amount>>
             /\ link' \in [Keys -> [plan : PlanIds \cup {NoPlan}, exp : Expiry]]
             /\ \A x \in Keys : link'[x] = link[x] \/ link'[x].plan = NoPlan
             /\ evicted \subseteq evicted' /\ evicted' \subseteq {"plan", "amount"}
             /\ "plan" \notin evicted' => link'[Operator] = link[Operator]
  <2>1. /\ UNCHANGED <<plans, amount>>
        /\ evicted' = IF k = Operator THEN evicted \cup {"plan"} ELSE evicted
    BY <1>2 DEF EvictLink
  <2>2. link' = [link EXCEPT ![k] = [plan |-> NoPlan, exp |-> Never]]
    BY <1>2 DEF EvictLink
  <2>3. link' \in [Keys -> [plan : PlanIds \cup {NoPlan}, exp : Expiry]]
    BY <2>2 DEF TypeOK, Expiry
  <2>4. \A x \in Keys : link'[x] = IF x = k THEN [plan |-> NoPlan, exp |-> Never] ELSE link[x]
    BY <2>2 DEF TypeOK
  <2>5. Operator \in Keys
    BY DEF Keys
  <2> QED BY <2>1, <2>3, <2>4, <2>5 DEF TypeOK
<1>3. ASSUME NEW id \in PlanIds, EvictPlan(id)
      PROVE  /\ UNCHANGED <<link, amount>>
             /\ plans' \in [PlanIds -> [tier : Tiers, owners : SUBSET Keys, exp : Expiry]]
             /\ \A x \in PlanIds : plans'[x].tier = plans[x].tier /\ plans'[x].owners = plans[x].owners
             /\ evicted \subseteq evicted' /\ evicted' \subseteq {"plan", "amount"}
             /\ "plan" \notin evicted' => \A x \in PlanIds : IsOperators(x) => plans'[x] = plans[x]
  <2>1. /\ UNCHANGED <<link, amount>>
        /\ evicted' = IF IsOperators(id) THEN evicted \cup {"plan"} ELSE evicted
    BY <1>3 DEF EvictPlan
  <2>2. PICK e : e = [plans[id] EXCEPT !.exp = Gone]
    OBVIOUS
  <2>3. plans' = [plans EXCEPT ![id] = e]
    BY <1>3, <2>2 DEF EvictPlan
  <2>4. /\ e \in [tier : Tiers, owners : SUBSET Keys, exp : Expiry]
        /\ e.tier = plans[id].tier /\ e.owners = plans[id].owners
    BY <2>2 DEF TypeOK, Expiry
  <2>5. /\ plans' \in [PlanIds -> [tier : Tiers, owners : SUBSET Keys, exp : Expiry]]
        /\ \A x \in PlanIds : plans'[x] = IF x = id THEN e ELSE plans[x]
    BY <2>3, <2>4 DEF TypeOK
  <2> QED BY <2>1, <2>4, <2>5 DEF TypeOK
<1>4. ASSUME NEW id \in PlanIds, EvictAmount(id)
      PROVE  /\ UNCHANGED <<link, plans>>
             /\ amount' \in [PlanIds -> [val : Nat, exp : Expiry]]
             /\ \A x \in PlanIds : amount'[x] = amount[x] \/ amount'[x].val = 0
             /\ evicted \subseteq evicted' /\ evicted' \subseteq {"plan", "amount"}
             /\ "amount" \notin evicted' => \A x \in PlanIds : IsOperators(x) => amount'[x] = amount[x]
  <2>1. /\ UNCHANGED <<link, plans>>
        /\ evicted' = IF IsOperators(id) THEN evicted \cup {"amount"} ELSE evicted
    BY <1>4 DEF EvictAmount
  <2>2. amount' = [amount EXCEPT ![id] = [val |-> 0, exp |-> Never]]
    BY <1>4 DEF EvictAmount
  <2>3. /\ amount' \in [PlanIds -> [val : Nat, exp : Expiry]]
        /\ \A x \in PlanIds : amount'[x] = IF x = id THEN [val |-> 0, exp |-> Never] ELSE amount[x]
    BY <2>2 DEF TypeOK, Expiry
  <2> QED BY <2>1, <2>3 DEF TypeOK
<1>5. (\E k \in Keys : EvictLink(k)) \/ (\E id \in PlanIds : EvictPlan(id) \/ EvictAmount(id))
  BY DEF Evict
<1>6. CASE \E k \in Keys : EvictLink(k)
  BY <1>1, <1>2, <1>6 DEF TypeOK
<1>7. CASE \E id \in PlanIds : EvictPlan(id)
  BY <1>1, <1>3, <1>7 DEF TypeOK
<1>8. CASE \E id \in PlanIds : EvictAmount(id)
  BY <1>1, <1>4, <1>8 DEF TypeOK
<1> QED BY <1>5, <1>6, <1>7, <1>8

LEMMA NextTypeInv == TypeInv /\ [Next]_vars => TypeInv'
<1> SUFFICES ASSUME TypeInv, [Next]_vars PROVE TypeInv'
  OBVIOUS
<1>1. TypeOK /\ \A q \in Requests : ReqOK(req[q])
  BY DEF TypeInv
<1>2. CASE Tick
  <2>1. now' \in Nat
    BY <1>1, <1>2, ConstantTypes DEF Tick, TypeOK
  <2>2. TypeOK'
    BY <1>1, <1>2, <2>1 DEF Tick, TypeOK, cache, window
  <2> QED BY <1>1, <1>2, <2>2 DEF Tick, TypeInv
<1>5. CASE Evict
  BY <1>1, <1>5, EvictFacts DEF TypeInv
<1>3. CASE UNCHANGED vars
  <2>1. TypeOK'
    BY <1>1, <1>3 DEF TypeOK, vars
  <2> QED BY <1>1, <1>3, <2>1 DEF TypeInv, vars
<1>4. ASSUME NEW p \in Requests, Start(p) \/ Progress(p) PROVE TypeInv'
  <2> DEFINE r == req[p]
  <2>1. /\ r \in Request /\ ReqOK(r)
        /\ Operator \in Keys
        /\ \A x \in Users \cup {None} : x \in Keys \cup {None}
    BY <1>1 DEF TypeOK, Keys
  <2> USE DEF Returns
  <2>start. CASE Start(p)
    <3>1. PICK s \in Users \cup {None}, i \in Ips \cup {None}, e \in Estimates :
            LET t == [IdleRequest EXCEPT !.signer = s, !.ip = i, !.est = e] IN
            IF ShouldResetLimiter(Home[p])
            THEN Step(p, [t EXCEPT !.pc = "reset_keys"])
            ELSE ReadBudget(p, t)
      BY <2>start DEF Start
    <3> DEFINE t == [IdleRequest EXCEPT !.signer = s, !.ip = i, !.est = e]
    <3>2. t \in Request
      <4> DEFINE t1 == [IdleRequest EXCEPT !.signer = s, !.ip = i]
      <4>1. t1 \in Request
        BY IdleType DEF Request
      <4> HIDE DEF t1
      <4>2. [t1 EXCEPT !.est = e] \in Request
        BY <4>1, ConstantTypes DEF Request
      <4> QED BY <4>2 DEF t1
    <3>3. IF ShouldResetLimiter(Home[p]) THEN Step(p, [t EXCEPT !.pc = "reset_keys"])
          ELSE ReadBudget(p, t)
      BY <3>1
    <3>4. UNCHANGED <<now, reset, cache, paid, ledger, window>>
      BY <2>start DEF Start
    <3> HIDE DEF t
    <3>5. ReqOK([t EXCEPT !.pc = "reset_keys"])
      BY <3>2 DEF ReqOK, Request, Labels, WithPlan
    <3>6. [t EXCEPT !.before = settled] \in Request
      BY <3>2, <1>1 DEF Request, TypeOK
    <3>7. ReqOK(LookUp([t EXCEPT !.before = settled], Operator, "budget"))
      BY <3>6, <2>1, LookUpOK
    <3> QED BY <3>3, <3>4, <3>5, <3>7, LocalTypeInv DEF ReadBudget
  <2>rkeys. CASE ResetKeys(p)
    <3> DEFINE keys == {id \in PlanIds : AmountSpent(id) > 0}
               t == [r EXCEPT !.pc = "reset_delete", !.keys = keys]
    <3>1. t \in Request
      BY <2>1 DEF Request, Labels
    <3>2. ReqOK(t)
      BY <2>1, <3>1 DEF ReqOK, Request, WithPlan
    <3>3. CASE Step(p, t) /\ UNCHANGED window
      BY <3>2, <3>3, <2>rkeys, LocalTypeInv DEF ResetKeys
    <3> HIDE DEF t
    <3>4. CASE /\ opened' = Boundary /\ settled' = 0
               /\ evicted' = evicted \ {"amount"} /\ UNCHANGED evictions
               /\ req' = [q \in Requests |-> IF q = p THEN t ELSE [req[q] EXCEPT !.before = 0]]
      <4>1. \A q \in Requests : ReqOK([req[q] EXCEPT !.before = 0])
        BY <1>1 DEF ReqOK, Request
      <4>2. \A q \in Requests : ReqOK(req'[q])
        BY <4>1, <3>2, <3>4
      <4>3. req' \in [Requests -> Request]
        BY <4>1, <3>2, <3>4 DEF ReqOK
      <4>4. opened' \in Nat
        BY <3>4, <1>1, BoundaryType DEF Boundary, TypeOK
      <4>5. UNCHANGED <<now, reset, cache, paid, ledger>>
        BY <2>rkeys DEF ResetKeys
      <4>6. TypeOK'
        BY <1>1, <3>4, <4>3, <4>4, <4>5 DEF TypeOK, cache
      <4> QED BY <4>2, <4>6 DEF TypeInv
    <3> QED BY <2>rkeys, <3>3, <3>4 DEF ResetKeys, t
  <2>rdel. CASE ResetDelete(p)
    <3>1. PICK id \in r.keys : /\ amount' = [amount EXCEPT ![id] = [val |-> 0, exp |-> Never]]
                              /\ Step(p, [r EXCEPT !.keys = @ \ {id}])
      BY <2>rdel DEF ResetDelete
    <3>2. ReqOK([r EXCEPT !.keys = @ \ {id}])
      BY <2>1 DEF ReqOK, Request
    <3>3. req' \in [Requests -> Request] /\ \A q \in Requests : ReqOK(req'[q])
      BY <1>1, <3>1, <3>2, StepOK DEF TypeOK
    <3>4. amount' \in [PlanIds -> [val : Nat, exp : Expiry]]
      BY <1>1, <3>1 DEF TypeOK, Expiry
    <3>5. TypeOK'
      BY <1>1, <2>rdel, <3>3, <3>4 DEF ResetDelete, TypeOK, window
    <3> QED BY <3>3, <3>5 DEF TypeInv
  <2>rgauge. CASE ResetGauge(p)
    BY <2>1, <2>rgauge, LookUpOK, LocalTypeInv DEF ResetGauge
  <2>rdone. CASE ResetDone(p)
    <3>1. [r EXCEPT !.before = settled] \in Request
      BY <2>1, <1>1 DEF Request, TypeOK
    <3>2. ReqOK(LookUp([r EXCEPT !.before = settled], Operator, "budget"))
      BY <3>1, <2>1, LookUpOK
    <3>3. req' \in [Requests -> Request] /\ \A q \in Requests : ReqOK(req'[q])
      BY <1>1, <2>rdone, <3>2, StepOK DEF TypeOK, ResetDone, ReadBudget
    <3>4. reset' \in [Relays -> Nat]
      BY <1>1, <2>rdone, ConstantTypes, ResetTimestampType DEF ResetDone, TypeOK
    <3>5. TypeOK'
      BY <1>1, <2>rdone, <3>3, <3>4 DEF ResetDone, TypeOK, cache, window
    <3> QED BY <3>3, <3>5 DEF TypeInv
  <2>flink. CASE FindLink(p)
    <3> DEFINE t == [r EXCEPT !.pc = "plan", !.plan = LinkOf(Key(r))]
    <3>1. LinkOf(Key(r)) # NoPlan => ReqOK(t)
      BY <1>1, <2>1, ReadTypes DEF ReqOK, Request, Labels, WithPlan
    <3>2. ReqOK(NotFound(r))
      BY <2>1, NotFoundOK
    <3> QED BY <2>flink, <3>1, <3>2, LocalTypeInv DEF FindLink
  <2>fplan. CASE FindPlan(p)
    <3>1. ReqOK([r EXCEPT !.pc = "spent"])
      BY <2>1, <2>fplan DEF FindPlan, ReqOK, Request, Labels, WithPlan
    <3>2. ReqOK(NotFound(r))
      BY <2>1, NotFoundOK
    <3> QED BY <2>fplan, <3>1, <3>2, LocalTypeInv DEF FindPlan
  <2>famt. CASE FindAmount(p)
    <3>1. r.plan \in PlanIds /\ AmountSpent(r.plan) \in Nat
      BY <1>1, <2>1, <2>famt, ReadTypes DEF FindAmount, ReqOK, WithPlan
    <3>2. ReqOK([r EXCEPT !.pc = r.ret, !.seen = AmountSpent(r.plan)])
      BY <2>1, <3>1, ZenonT(40) DEF ReqOK, Request, Labels, WithPlan
    <3> QED BY <2>famt, <3>2, LocalTypeInv DEF FindAmount
  <2>create. CASE CreatePlan(p)
    <3>1. nextId \in PlanIds /\ nextId' \in 1..(MaxPlans + 1)
      BY <1>1, <2>create, ConstantTypes, SMTT(20) DEF CreatePlan, TypeOK, PlanIds
    <3>2. r.who \in Keys
      BY <2>1, <2>create DEF CreatePlan, ReqOK
    <3> DEFINE t == [r EXCEPT !.pc = "save", !.plan = nextId, !.seen = 0]
    <3>3. ReqOK(t)
      <4> DEFINE t1 == [r EXCEPT !.pc = "save", !.plan = nextId]
      <4>1. t1 \in Request /\ t1.plan \in PlanIds /\ t1.who \in Keys /\ t1.pc = "save"
        BY <2>1, <3>1, <3>2 DEF Request, Labels
      <4> HIDE DEF t1
      <4>2. ReqOK([t1 EXCEPT !.seen = 0])
        BY <4>1 DEF ReqOK, Request, WithPlan
      <4> QED BY <4>2 DEF t1
    <3>4. req' \in [Requests -> Request] /\ \A q \in Requests : ReqOK(req'[q])
      BY <1>1, <2>create, <3>3, StepOK DEF TypeOK, CreatePlan
    <3>5. plans' \in [PlanIds -> [tier : Tiers, owners : SUBSET Keys, exp : Expiry]]
      <4>1. now + Duration \in Nat
        BY <1>1, ConstantTypes DEF TypeOK
      <4> QED BY <1>1, <2>create, <3>2, <4>1 DEF CreatePlan, TypeOK, Tiers, Expiry
    <3>6. TypeOK'
      BY <1>1, <2>create, <3>1, <3>4, <3>5 DEF CreatePlan, TypeOK, window
    <3> QED BY <3>4, <3>6 DEF TypeInv
  <2>save. CASE SaveLink(p)
    <3>1. ReqOK([r EXCEPT !.pc = r.ret])
      BY <2>1, <2>save DEF SaveLink, ReqOK, Request, Labels, WithPlan
    <3>2. req' \in [Requests -> Request] /\ \A q \in Requests : ReqOK(req'[q])
      BY <1>1, <2>save, <3>1, StepOK DEF TypeOK, SaveLink
    <3>3. link' \in [Keys -> [plan : PlanIds \cup {NoPlan}, exp : Expiry]]
      <4>1. now + Duration \in Nat /\ r.plan \in PlanIds
        BY <1>1, <2>1, <2>save, ConstantTypes DEF TypeOK, SaveLink, ReqOK, WithPlan
      <4> QED BY <1>1, <2>save, <4>1 DEF SaveLink, TypeOK, Expiry
    <3>4. TypeOK'
      BY <1>1, <2>save, <3>2, <3>3 DEF SaveLink, TypeOK, window
    <3> QED BY <3>2, <3>4 DEF TypeInv
  <2>budget. CASE CheckBudget(p)
    <3>1. ReqOK([r EXCEPT !.pc = "limited_total"]) /\ ReqOK([r EXCEPT !.pc = "execute"])
      BY <2>1, <2>budget DEF CheckBudget, ReqOK, Request, Labels, WithPlan
    <3>2. ReqOK(LookUp(r, r.signer, "check"))
      BY <2>1, LookUpOK DEF Request
    <3> QED BY <2>budget, <3>1, <3>2, LocalTypeInv DEF CheckBudget
  <2>check. CASE CheckPlan(p)
    <3>1. ReqOK([r EXCEPT !.pc = "limited_plan"]) /\ ReqOK([r EXCEPT !.pc = "execute"])
      BY <2>1, <2>check DEF CheckPlan, ReqOK, Request, Labels, WithPlan
    <3>2. \/ Step(p, [r EXCEPT !.pc = "limited_plan"])
          \/ Step(p, [r EXCEPT !.pc = "execute"])
      BY <2>check DEF CheckPlan
    <3> QED BY <2>check, <3>1, <3>2, LocalTypeInv DEF CheckPlan
  <2>refuse. CASE Refuse(p) \/ ExecuteFails(p) \/ RecordUnavailable(p)
    BY <2>refuse, IdleOK, LocalTypeInv DEF Refuse, ExecuteFails, RecordUnavailable
  <2>exec. CASE Execute(p)
    <3>1. PICK c \in Costs :
            /\ paid' = paid + c
            /\ Step(p, [r EXCEPT !.pc = "record", !.cost = c, !.est = 0, !.before = 0])
      BY <2>exec DEF Execute
    <3>2. ReqOK([r EXCEPT !.pc = "record", !.cost = c, !.est = 0, !.before = 0])
      <4> DEFINE t == [r EXCEPT !.pc = "record", !.cost = c]
      <4>1. t \in Request /\ t.pc = "record"
        BY <2>1, ConstantTypes DEF Request, Labels
      <4> HIDE DEF t
      <4>2. ReqOK([t EXCEPT !.est = 0, !.before = 0])
        BY <4>1 DEF ReqOK, Request, WithPlan
      <4> QED BY <4>2 DEF t
    <3>3. req' \in [Requests -> Request] /\ \A q \in Requests : ReqOK(req'[q])
      BY <1>1, <3>1, <3>2, StepOK DEF TypeOK
    <3>4. paid' \in Nat
      BY <1>1, <3>1, ConstantTypes DEF TypeOK
    <3>5. TypeOK'
      BY <1>1, <2>exec, <3>3, <3>4 DEF Execute, TypeOK, cache, window
    <3> QED BY <3>3, <3>5 DEF TypeInv
  <2>add. CASE AddExpense(p)
    BY <2>1, <2>add, LookUpOK, LocalTypeInv DEF AddExpense
  <2>cex. CASE ChargeExists(p)
    <3>1. ReqOK([r EXCEPT !.pc = "charge_read", !.seen = 0])
      BY <2>1, <2>cex DEF ChargeExists, ReqOK, Request, Labels, WithPlan
    <3> QED BY <2>cex, <3>1, IdleOK, LocalTypeInv DEF ChargeExists
  <2>cread. CASE ChargeRead(p)
    <3>1. ReqOK([r EXCEPT !.pc = "charge_set"]) /\ ReqOK([r EXCEPT !.pc = "charge_incr"])
      BY <2>1, <2>cread DEF ChargeRead, ReqOK, Request, Labels, WithPlan
    <3>2. Step(p, [r EXCEPT !.pc = "charge_set"]) \/ Step(p, [r EXCEPT !.pc = "charge_incr"])
      BY <2>cread DEF ChargeRead
    <3> QED BY <2>cread, <3>1, <3>2, LocalTypeInv DEF ChargeRead
  <2>cset. CASE ChargeSet(p)
    <3>1. r.plan \in PlanIds /\ r.cost \in Nat /\ now + Duration \in Nat
      BY <1>1, <2>1, <2>cset, ConstantTypes DEF ChargeSet, ReqOK, Request, WithPlan, TypeOK
    <3>2. amount' \in [PlanIds -> [val : Nat, exp : Expiry]]
      BY <1>1, <2>cset, <3>1 DEF ChargeSet, TypeOK, Expiry
    <3> QED BY <2>cset, <3>1, <3>2, ChargedTypeInv DEF ChargeSet
  <2>cincr. CASE ChargeIncr(p)
    <3>1. r.plan \in PlanIds /\ AmountSpent(r.plan) + r.cost \in Nat
      BY <1>1, <2>1, <2>cincr, ReadTypes DEF ChargeIncr, ReqOK, Request, WithPlan
    <3>2. amount' \in [PlanIds -> [val : Nat, exp : Expiry]]
      BY <1>1, <2>cincr, <3>1 DEF ChargeIncr, TypeOK, Expiry
    <3> QED BY <2>cincr, <3>1, <3>2, ChargedTypeInv DEF ChargeIncr
  <2>ciread. CASE ChargeIncrRead(p)
    <3>1. r.plan \in PlanIds /\ AmountSpent(r.plan) \in Nat
      BY <1>1, <2>1, <2>ciread, ReadTypes DEF ChargeIncrRead, ReqOK, WithPlan
    <3>2. ReqOK([r EXCEPT !.pc = "charge_incr_set", !.seen = AmountSpent(r.plan)])
      BY <2>1, <3>1 DEF ReqOK, Request, Labels, WithPlan
    <3> QED BY <2>ciread, <3>2, LocalTypeInv DEF ChargeIncrRead
  <2>ciset. CASE ChargeIncrSet(p)
    <3>1. r.plan \in PlanIds /\ r.seen + r.cost \in Nat
      BY <2>1, <2>ciset DEF ChargeIncrSet, ReqOK, Request, WithPlan
    <3>2. amount' \in [PlanIds -> [val : Nat, exp : Expiry]]
      BY <1>1, <2>ciset, <3>1 DEF ChargeIncrSet, TypeOK, Expiry
    <3> QED BY <2>ciset, <3>1, <3>2, ChargedTypeInv DEF ChargeIncrSet
  <2>user. CASE ChargeUser(p)
    <3>1. r.signer \in Keys \cup {None}
      BY <2>1 DEF Request
    <3> QED BY <2>1, <2>user, <3>1, LookUpOK, LocalTypeInv DEF ChargeUser
  <2> QED
    BY <1>4, <2>start, <2>rkeys, <2>rdel, <2>rgauge, <2>rdone, <2>flink, <2>fplan, <2>famt,
       <2>create, <2>save, <2>budget, <2>check, <2>refuse, <2>exec, <2>add, <2>cex, <2>cread,
       <2>cset, <2>cincr, <2>ciread, <2>ciset, <2>user DEF Progress
<1> QED BY <1>2, <1>3, <1>4, <1>5 DEF Next

\* The type invariant of the limiter holds in every reachable state: among
\* others, a request only reads and charges plans that were created.
THEOREM LimiterTypeCorrect == Spec => []TypeOK
<1>1. TypeInv => TypeOK
  BY DEF TypeInv
<1> QED BY InitTypeInv, NextTypeInv, <1>1, PTL DEF Spec

(* ------------------- the amounts are backed by expenses ---------------- *)
(* The inductive invariant.  An amount read earlier stays bounded by the   *)
(* ledger because the ledger only grows; the tier and the owners of a plan *)
(* held by a request or a link stay what they were because a new plan never *)
(* takes the id of an existing one.                                        *)

Holding == WithPlan \cup {"execute", "record"}

ReqInv(r, L, P, n) ==
  /\ r.plan < n
  /\ r.seen = 0 \/ (r.plan \in PlanIds /\ r.seen <= L[r.plan])
  /\ r.pc \in {"link", "plan", "create"} => r.seen = 0
  /\ r.pc = "limited_total" => Exceeds(Limit["OPERATOR"], r.seen, r.est)
  /\ r.pc = "limited_plan" => Exceeds(Limit[P[r.plan].tier], r.seen, r.est)
  /\ r.pc # "idle" /\ r.ret \in {"check", "charge_user"} => r.who = r.signer
  /\ r.pc \in Holding => r.plan \in PlanIds /\ P[r.plan].owners \cap {r.who, r.ip} # {}
  /\ r.pc = "save" => r.who \in P[r.plan].owners

LinkInv ==
  \A k \in Keys :
    /\ link[k].plan < nextId
    /\ link[k].plan # NoPlan => k \in plans[link[k].plan].owners

LimiterInv ==
  /\ TypeInv
  /\ NoPhantomSpending
  /\ LinkInv
  /\ \A p \in Requests : ReqInv(req[p], ledger, plans, nextId)

LEMMA InitLimiterInv == Init => LimiterInv
<1> SUFFICES ASSUME Init PROVE LimiterInv
  OBVIOUS
<1>1. TypeInv
  BY InitTypeInv
<1>2. NoPhantomSpending
  BY DEF Init, NoPhantomSpending
<1>3. LinkInv
  <2> SUFFICES ASSUME NEW k \in Keys
               PROVE  /\ link[k].plan < nextId
                      /\ link[k].plan # NoPlan => k \in plans[link[k].plan].owners
    BY DEF LinkInv
  <2>1. PresetLink[k] \in 1..NumPresets \cup {NoPlan}
    BY LimiterConstants DEF Presets
  <2>2. link[k].plan = PresetLink[k] /\ nextId = NumPresets + 1
    BY DEF Init
  <2>3. link[k].plan < nextId
    BY <2>1, <2>2, ConstantTypes DEF NoPlan
  <2>4. ASSUME link[k].plan # NoPlan PROVE k \in plans[link[k].plan].owners
    <3>1. PresetLink[k] \in PlanIds
      BY <2>1, <2>2, <2>4, ConstantTypes DEF PlanIds, NoPlan
    <3>2. plans[PresetLink[k]].owners = {x \in Keys : PresetLink[x] = PresetLink[k]}
      BY <3>1 DEF Init
    <3> QED BY <2>2, <3>2
  <2> QED BY <2>3, <2>4
<1>4. ReqInv(IdleRequest, ledger, plans, nextId)
  BY ConstantTypes DEF Init, ReqInv, IdleRequest, NoPlan, Holding, WithPlan, Returns
<1> QED BY <1>1, <1>2, <1>3, <1>4 DEF LimiterInv, Init

\* A request's part of the invariant survives what the other requests do.
LEMMA ReqInvMono ==
  ASSUME NEW r \in Request, NEW L, NEW P, NEW n \in Nat, NEW L1, NEW P1, NEW n1 \in Nat,
         ReqInv(r, L, P, n), n <= n1,
         L \in [PlanIds -> Nat], L1 \in [PlanIds -> Nat],
         \A id \in PlanIds : L[id] <= L1[id],
         \A id \in PlanIds : id < n => P1[id] = P[id]
  PROVE  ReqInv(r, L1, P1, n1)
<1>1. r.plan \in Nat /\ r.seen \in Nat
  BY PlanIdFacts DEF Request, NoPlan
<1>2. r.plan < n1
  BY <1>1 DEF ReqInv
<1>3. r.plan \in PlanIds => P1[r.plan] = P[r.plan]
  BY DEF ReqInv
<1>4. r.seen = 0 \/ (r.plan \in PlanIds /\ r.seen <= L1[r.plan])
  <2>1. CASE r.seen = 0
    BY <2>1
  <2>2. CASE r.plan \in PlanIds /\ r.seen <= L[r.plan]
    <3>1. L[r.plan] \in Nat /\ L1[r.plan] \in Nat /\ L[r.plan] <= L1[r.plan]
      BY <2>2
    <3> QED BY <2>2, <3>1, <1>1
  <2> QED BY <2>1, <2>2 DEF ReqInv
<1>5. "limited_plan" \in Holding /\ "save" \in Holding
  BY DEF Holding, WithPlan
<1> QED BY <1>2, <1>3, <1>4, <1>5 DEF ReqInv

LEMMA IdleInv ==
  ASSUME NEW L, NEW P, NEW n \in Nat, n > 0
  PROVE  ReqInv(IdleRequest, L, P, n)
  BY DEF ReqInv, IdleRequest, NoPlan, Holding, WithPlan, Returns

LEMMA LookUpInv ==
  ASSUME NEW r \in Request, NEW who \in Keys \cup {None}, NEW ret \in Returns,
         ret \in {"check", "charge_user"} => who = r.signer,
         NEW L, NEW P, NEW n \in Nat, n > 0
  PROVE  ReqInv(LookUp(r, who, ret), L, P, n)
<1> DEFINE q == [r EXCEPT !.who = who, !.ret = ret, !.plan = NoPlan, !.seen = 0]
<1>1. q \in Request /\ q.who = who /\ q.ret = ret /\ q.signer = r.signer
      /\ q.plan = NoPlan /\ q.seen = 0
  <2> DEFINE s == [r EXCEPT !.who = who, !.ret = ret]
  <2>1. s \in Request /\ s.who = who /\ s.ret = ret /\ s.signer = r.signer
    BY DEF Request
  <2> HIDE DEF s
  <2> DEFINE u == [s EXCEPT !.plan = NoPlan, !.seen = 0]
  <2>2. u \in Request
    BY <2>1 DEF Request
  <2>3. u.who = who /\ u.ret = ret /\ u.signer = r.signer /\ u.plan = NoPlan /\ u.seen = 0
    BY <2>1 DEF Request
  <2> QED BY <2>2, <2>3 DEF s
<1> HIDE DEF q
<1>2. ASSUME NEW b \in {"evm", "ip"}
      PROVE  ReqInv([q EXCEPT !.pc = "link", !.by = b], L, P, n)
  <2> DEFINE u == [q EXCEPT !.pc = "link", !.by = b]
  <2>1. u.pc = "link" /\ u.who = who /\ u.ret = ret /\ u.signer = r.signer
        /\ u.plan = NoPlan /\ u.seen = 0
    BY <1>1 DEF Request
  <2> HIDE DEF u
  <2>2. ReqInv(u, L, P, n)
    BY <2>1 DEF ReqInv, NoPlan, Holding, WithPlan, Returns
  <2> QED BY <2>2 DEF u
<1>3. who = None => Miss(q) = IdleRequest
  BY <1>1 DEF Miss
<1> QED BY <1>2, <1>3, IdleInv DEF LookUp, q

LEMMA NotFoundInv ==
  ASSUME NEW r \in Request, NEW L, NEW P, NEW n \in Nat, n > 0,
         ReqInv(r, L, P, n), r.pc \in {"link", "plan"}
  PROVE  ReqInv(NotFound(r), L, P, n)
<1>1. r.seen = 0 /\ (r.ret \in {"check", "charge_user"} => r.who = r.signer)
  BY DEF ReqInv
<1>2. CASE r.by = "evm" /\ r.ip # None
  <2> DEFINE s == [r EXCEPT !.pc = "link", !.by = "ip"]
             u == [s EXCEPT !.plan = NoPlan]
  <2>1. s \in Request /\ s.pc = "link" /\ s.seen = 0 /\ s.ret = r.ret /\ s.who = r.who
        /\ s.signer = r.signer
    BY <1>1 DEF Request, Labels
  <2> HIDE DEF s
  <2>2. u.pc = "link" /\ u.seen = 0 /\ u.ret = r.ret /\ u.who = r.who
        /\ u.signer = r.signer /\ u.plan = NoPlan
    BY <2>1 DEF Request
  <2>3. NotFound(r) = u
    BY <1>2 DEF NotFound, s
  <2> HIDE DEF u
  <2> QED BY <1>1, <2>2, <2>3 DEF ReqInv, NoPlan, Holding, WithPlan, Returns
<1>3. CASE ~(r.by = "evm" /\ r.ip # None) /\ r.who # None
  <2> DEFINE u == [r EXCEPT !.pc = "create", !.plan = NoPlan]
  <2>1. u.pc = "create" /\ u.seen = 0 /\ u.ret = r.ret /\ u.who = r.who
        /\ u.signer = r.signer /\ u.plan = NoPlan
    BY <1>1 DEF Request
  <2>2. NotFound(r) = u
    BY <1>3 DEF NotFound, Miss
  <2> HIDE DEF u
  <2> QED BY <1>1, <2>1, <2>2 DEF ReqInv, NoPlan, Holding, WithPlan, Returns
<1>4. CASE ~(r.by = "evm" /\ r.ip # None) /\ r.who = None
  BY <1>4, IdleInv DEF NotFound, Miss
<1> QED BY <1>2, <1>3, <1>4

\* A step of one request, seen from all of them.
LEMMA StepInv ==
  ASSUME LimiterInv, TypeInv', NEW p \in Requests, NEW r, Step(p, r),
         ReqInv(r, ledger', plans', nextId'),
         nextId <= nextId',
         \A id \in PlanIds : ledger[id] <= ledger'[id],
         \A id \in PlanIds : id < nextId => plans'[id] = plans[id]
  PROVE  \A q \in Requests : ReqInv(req'[q], ledger', plans', nextId')
<1> SUFFICES ASSUME NEW q \in Requests PROVE ReqInv(req'[q], ledger', plans', nextId')
  OBVIOUS
<1>1. CASE q = p
  <2>1. req'[p] = r
    BY DEF Step, LimiterInv, TypeInv, TypeOK
  <2> QED BY <1>1, <2>1
<1>2. CASE q # p
  <2>1. req'[q] = req[q] /\ req[q] \in Request /\ ReqInv(req[q], ledger, plans, nextId)
    BY <1>2 DEF Step, LimiterInv, TypeInv, TypeOK
  <2>2. /\ nextId \in Nat /\ nextId' \in Nat
        /\ ledger \in [PlanIds -> Nat] /\ ledger' \in [PlanIds -> Nat]
    BY ConstantTypes DEF LimiterInv, TypeInv, TypeOK
  <2> QED BY <2>1, <2>2, ReqInvMono
<1> QED BY <1>1, <1>2

LEMMA LocalInv ==
  ASSUME LimiterInv, TypeInv', NEW p \in Requests, NEW r, Step(p, r),
         ReqInv(r, ledger, plans, nextId), UNCHANGED <<link, plans, amount, nextId, ledger>>
  PROVE  LimiterInv'
<1>1. nextId \in Nat /\ ledger \in [PlanIds -> Nat]
  BY ConstantTypes DEF LimiterInv, TypeInv, TypeOK
<1>2. \A q \in Requests : ReqInv(req'[q], ledger', plans', nextId')
  BY <1>1, StepInv
<1>3. NoPhantomSpending' /\ LinkInv'
  BY DEF LimiterInv, NoPhantomSpending, LinkInv
<1> QED BY <1>2, <1>3 DEF LimiterInv

LEMMA ChargedInv ==
  ASSUME LimiterInv, TypeInv', NEW p \in Requests, req[p].plan \in PlanIds, Charged(p),
         \A id \in PlanIds : id # req[p].plan => amount'[id] = amount[id],
         amount'[req[p].plan].val <= ledger[req[p].plan] + req[p].cost
  PROVE  LimiterInv'
<1> DEFINE r == req[p]
<1>1. /\ r \in Request /\ r.cost \in Nat /\ Operator \in Keys /\ "gauge" \in Returns
      /\ nextId \in Nat /\ nextId > 0
      /\ ledger \in [PlanIds -> Nat] /\ ledger' \in [PlanIds -> Nat]
  BY ConstantTypes DEF LimiterInv, TypeInv, TypeOK, Request, Keys, Returns
<1>2. UNCHANGED <<link, plans, nextId>>
  BY DEF Charged
<1>3. ledger'[r.plan] = ledger[r.plan] + r.cost
      /\ \A id \in PlanIds : id # r.plan => ledger'[id] = ledger[id]
  BY <1>1 DEF Charged
<1>4. \A id \in PlanIds : ledger[id] <= ledger'[id]
  BY <1>1, <1>3
<1>5. NoPhantomSpending'
  BY <1>1, <1>3 DEF LimiterInv, NoPhantomSpending
<1>6. LinkInv'
  BY <1>2 DEF LimiterInv, LinkInv
<1>7. /\ ReqInv(LookUp(r, Operator, "gauge"), ledger', plans', nextId')
      /\ ReqInv(IdleRequest, ledger', plans', nextId')
  BY <1>1, <1>2, LookUpInv, IdleInv
<1>8. Step(p, LookUp(r, Operator, "gauge")) \/ Step(p, IdleRequest)
  BY DEF Charged
<1>9. \A q \in Requests : ReqInv(req'[q], ledger', plans', nextId')
  BY <1>1, <1>2, <1>4, <1>7, <1>8, StepInv
<1> QED BY <1>5, <1>6, <1>9 DEF LimiterInv

\* An eviction: the plans keep their tiers and owners.
LEMMA EvictInv ==
  ASSUME LimiterInv, TypeInv', Evict
  PROVE  LimiterInv'
<1>1. TypeOK /\ TypeOK'
  BY DEF LimiterInv, TypeInv
<1>2. /\ UNCHANGED <<nextId, req, ledger>>
      /\ \A k \in Keys : link'[k] = link[k] \/ link'[k].plan = NoPlan
      /\ \A id \in PlanIds : plans'[id].tier = plans[id].tier /\ plans'[id].owners = plans[id].owners
      /\ \A id \in PlanIds : amount'[id] = amount[id] \/ amount'[id].val = 0
  BY <1>1, EvictFacts
<1>3. nextId \in Nat /\ nextId > 0 /\ ledger \in [PlanIds -> Nat]
  BY <1>1, ConstantTypes DEF TypeOK
<1>4. NoPhantomSpending'
  BY <1>2, <1>3 DEF LimiterInv, NoPhantomSpending
<1>5. LinkInv'
  <2> SUFFICES ASSUME NEW k \in Keys
               PROVE  /\ link'[k].plan < nextId
                      /\ link'[k].plan # NoPlan => k \in plans'[link'[k].plan].owners
    BY <1>2 DEF LinkInv
  <2>1. link[k].plan < nextId /\ (link[k].plan # NoPlan => k \in plans[link[k].plan].owners)
    BY DEF LimiterInv, LinkInv
  <2>2. link[k].plan \in PlanIds \cup {NoPlan}
    BY <1>1 DEF TypeOK
  <2>3. CASE link'[k].plan = NoPlan
    BY <1>3, <2>3 DEF NoPlan
  <2>4. CASE link'[k] = link[k]
    BY <1>2, <2>1, <2>2, <2>4
  <2> QED BY <1>2, <2>3, <2>4
<1>6. ASSUME NEW p \in Requests PROVE ReqInv(req[p], ledger, plans', nextId)
  <2>1. ReqInv(req[p], ledger, plans, nextId)
    BY DEF LimiterInv
  <2>2. req[p].pc \in Holding => /\ plans'[req[p].plan].tier = plans[req[p].plan].tier
                                 /\ plans'[req[p].plan].owners = plans[req[p].plan].owners
    BY <1>2, <2>1 DEF ReqInv
  <2>3. "limited_plan" \in Holding /\ "save" \in Holding
    BY DEF Holding, WithPlan
  <2> QED BY <2>1, <2>2, <2>3 DEF ReqInv
<1> QED BY <1>2, <1>4, <1>5, <1>6 DEF LimiterInv

LEMMA NextLimiterInv == LimiterInv /\ [Next]_vars => LimiterInv'
<1> SUFFICES ASSUME LimiterInv, [Next]_vars PROVE LimiterInv'
  OBVIOUS
<1>t. TypeInv' /\ TypeInv /\ TypeOK
  BY NextTypeInv DEF LimiterInv, TypeInv
<1>n. nextId \in Nat /\ nextId > 0 /\ ledger \in [PlanIds -> Nat] /\ settled \in Nat
  BY <1>t, ConstantTypes DEF TypeOK
<1>1. CASE Tick \/ UNCHANGED vars
  <2>1. UNCHANGED <<link, plans, amount, nextId, ledger, req>>
    BY <1>1 DEF Tick, vars, cache
  <2> QED BY <1>t, <2>1 DEF LimiterInv, NoPhantomSpending, LinkInv
<1>3. CASE Evict
  BY <1>t, <1>3, EvictInv
<1>2. ASSUME NEW p \in Requests, Start(p) \/ Progress(p) PROVE LimiterInv'
  <2> DEFINE r == req[p]
  <2>1. /\ r \in Request /\ ReqOK(r)
        /\ Operator \in Keys
        /\ r.signer \in Keys \cup {None}
    BY <1>t DEF TypeInv, TypeOK, Keys, Request
  <2>2. ReqInv(r, ledger, plans, nextId)
    BY DEF LimiterInv
  <2> USE DEF Returns
  <2>start. CASE Start(p)
    <3>1. PICK s \in Users \cup {None}, i \in Ips \cup {None}, e \in Estimates :
            LET t == [IdleRequest EXCEPT !.signer = s, !.ip = i, !.est = e] IN
            IF ShouldResetLimiter(Home[p])
            THEN Step(p, [t EXCEPT !.pc = "reset_keys"])
            ELSE ReadBudget(p, t)
      BY <2>start DEF Start
    <3> DEFINE t == [IdleRequest EXCEPT !.signer = s, !.ip = i, !.est = e]
    <3>2. t \in Request /\ t.plan = NoPlan /\ t.seen = 0 /\ t.ret = "budget"
      <4> DEFINE t1 == [IdleRequest EXCEPT !.signer = s, !.ip = i]
      <4>1. t1 \in Request /\ t1.plan = NoPlan /\ t1.seen = 0 /\ t1.ret = "budget"
        BY IdleType DEF Request, IdleRequest
      <4> HIDE DEF t1
      <4>2. [t1 EXCEPT !.est = e] \in Request /\ [t1 EXCEPT !.est = e].plan = NoPlan
            /\ [t1 EXCEPT !.est = e].seen = 0 /\ [t1 EXCEPT !.est = e].ret = "budget"
        BY <4>1, ConstantTypes DEF Request
      <4> QED BY <4>2 DEF t1
    <3>3. IF ShouldResetLimiter(Home[p]) THEN Step(p, [t EXCEPT !.pc = "reset_keys"])
          ELSE ReadBudget(p, t)
      BY <3>1
    <3>4. UNCHANGED <<link, plans, amount, nextId, ledger>>
      BY <2>start DEF Start, cache
    <3> HIDE DEF t
    <3>5. ReqInv([t EXCEPT !.pc = "reset_keys"], ledger, plans, nextId)
      <4> DEFINE u == [t EXCEPT !.pc = "reset_keys"]
      <4>1. u.pc = "reset_keys" /\ u.plan = NoPlan /\ u.seen = 0 /\ u.ret = "budget"
        BY <3>2 DEF Request
      <4> HIDE DEF u
      <4>2. ReqInv(u, ledger, plans, nextId)
        BY <4>1, <1>n DEF ReqInv, NoPlan, Holding, WithPlan
      <4> QED BY <4>2 DEF u
    <3>6. [t EXCEPT !.before = settled] \in Request
      BY <3>2, <1>n DEF Request
    <3>7. ReqInv(LookUp([t EXCEPT !.before = settled], Operator, "budget"), ledger, plans, nextId)
      BY <3>6, <2>1, <1>n, LookUpInv
    <3> QED BY <1>t, <3>3, <3>4, <3>5, <3>7, LocalInv DEF ReadBudget
  <2>rkeys. CASE ResetKeys(p)
    <3> DEFINE keys == {id \in PlanIds : AmountSpent(id) > 0}
               t == [r EXCEPT !.pc = "reset_delete", !.keys = keys]
    <3>1. ReqInv(t, ledger, plans, nextId)
      <4>1. t.pc = "reset_delete" /\ t.plan = r.plan /\ t.seen = r.seen /\ t.ret = r.ret
            /\ t.who = r.who /\ t.signer = r.signer
        BY <2>1 DEF Request
      <4>2. r.pc = "reset_keys"
        BY <2>rkeys DEF ResetKeys
      <4> HIDE DEF t
      <4> QED BY <2>2, <4>1, <4>2 DEF ReqInv, Holding, WithPlan
    <3>2. UNCHANGED <<link, plans, amount, nextId, ledger>>
      BY <2>rkeys DEF ResetKeys, cache
    <3>3. CASE Step(p, t)
      BY <1>t, <3>1, <3>2, <3>3, LocalInv
    <3> HIDE DEF t
    <3>4. CASE req' = [q \in Requests |-> IF q = p THEN t ELSE [req[q] EXCEPT !.before = 0]]
      <4>1. \A q \in Requests : ReqInv([req[q] EXCEPT !.before = 0], ledger, plans, nextId)
        <5> SUFFICES ASSUME NEW q \in Requests
                     PROVE  ReqInv([req[q] EXCEPT !.before = 0], ledger, plans, nextId)
          OBVIOUS
        <5> DEFINE u == [req[q] EXCEPT !.before = 0]
        <5>1. req[q] \in Request /\ ReqInv(req[q], ledger, plans, nextId)
          BY <1>t DEF LimiterInv, TypeInv, TypeOK
        <5>2. /\ u.pc = req[q].pc /\ u.plan = req[q].plan /\ u.seen = req[q].seen
              /\ u.ret = req[q].ret /\ u.who = req[q].who /\ u.signer = req[q].signer
              /\ u.ip = req[q].ip /\ u.est = req[q].est
          BY <5>1 DEF Request
        <5> HIDE DEF u
        <5>3. ReqInv(u, ledger, plans, nextId)
          BY <5>1, <5>2 DEF ReqInv
        <5> QED BY <5>3 DEF u
      <4>2. \A q \in Requests : ReqInv(req'[q], ledger', plans', nextId')
        BY <3>1, <3>2, <3>4, <4>1
      <4> QED BY <1>t, <3>2, <4>2 DEF LimiterInv, NoPhantomSpending, LinkInv
    <3> QED BY <2>rkeys, <3>3, <3>4 DEF ResetKeys, t
  <2>rdel. CASE ResetDelete(p)
    <3>1. PICK id \in r.keys : /\ amount' = [amount EXCEPT ![id] = [val |-> 0, exp |-> Never]]
                              /\ Step(p, [r EXCEPT !.keys = @ \ {id}])
      BY <2>rdel DEF ResetDelete
    <3> DEFINE u == [r EXCEPT !.keys = @ \ {id}]
    <3>2. u.pc = r.pc /\ u.plan = r.plan /\ u.seen = r.seen /\ u.ret = r.ret
          /\ u.who = r.who /\ u.signer = r.signer /\ u.ip = r.ip /\ u.est = r.est
      BY <2>1 DEF Request
    <3>3. Step(p, u)
      BY <3>1
    <3> HIDE DEF u
    <3>4. ReqInv(u, ledger, plans, nextId)
      BY <2>2, <3>2 DEF ReqInv
    <3>5. UNCHANGED <<link, plans, nextId, ledger>>
      BY <2>rdel DEF ResetDelete
    <3>6. \A q \in Requests : ReqInv(req'[q], ledger', plans', nextId')
      BY <1>t, <1>n, <3>3, <3>4, <3>5, StepInv
    <3>7. NoPhantomSpending'
      BY <1>t, <1>n, <3>1, <3>5 DEF LimiterInv, NoPhantomSpending, TypeOK
    <3> QED BY <1>t, <3>5, <3>6, <3>7 DEF LimiterInv, LinkInv
  <2>look. CASE ResetGauge(p) \/ AddExpense(p) \/ ChargeUser(p)
    <3>1. /\ ReqInv(LookUp(r, Operator, "reset_done"), ledger, plans, nextId)
          /\ ReqInv(LookUp(r, Operator, "charge_op"), ledger, plans, nextId)
          /\ ReqInv(LookUp(r, r.signer, "charge_user"), ledger, plans, nextId)
      BY <1>n, <2>1, LookUpInv
    <3>2. UNCHANGED <<link, plans, amount, nextId, ledger>>
      BY <2>look DEF ResetGauge, AddExpense, ChargeUser, cache
    <3> QED BY <1>t, <2>look, <3>1, <3>2, LocalInv DEF ResetGauge, AddExpense, ChargeUser
  <2>rdone. CASE ResetDone(p)
    <3>1. [r EXCEPT !.before = settled] \in Request
      BY <2>1, <1>n DEF Request
    <3>2. ReqInv(LookUp([r EXCEPT !.before = settled], Operator, "budget"), ledger, plans, nextId)
      BY <3>1, <2>1, <1>n, LookUpInv
    <3>3. UNCHANGED <<link, plans, amount, nextId, ledger>>
      BY <2>rdone DEF ResetDone, cache
    <3> QED BY <1>t, <2>rdone, <3>2, <3>3, LocalInv DEF ResetDone, ReadBudget
  <2>flink. CASE FindLink(p)
    <3> DEFINE k == Key(r)
               t == [r EXCEPT !.pc = "plan", !.plan = LinkOf(k)]
    <3>1. r.pc = "link"
      BY <2>flink DEF FindLink
    <3>2. ReqInv(NotFound(r), ledger, plans, nextId)
      BY <1>n, <2>1, <2>2, <3>1, NotFoundInv
    <3>3. ASSUME LinkOf(k) # NoPlan PROVE ReqInv(t, ledger, plans, nextId)
      <4>1. k \in Keys /\ LinkOf(k) = link[k].plan
        BY <3>3 DEF LinkOf
      <4>2. LinkOf(k) \in PlanIds /\ LinkOf(k) < nextId /\ k \in plans[LinkOf(k)].owners
        BY <1>t, <3>3, <4>1, ReadTypes DEF LimiterInv, LinkInv
      <4>3. k \in {r.who, r.ip}
        BY DEF Key
      <4>4. t.pc = "plan" /\ t.plan = LinkOf(k) /\ t.seen = r.seen /\ t.ret = r.ret
            /\ t.who = r.who /\ t.signer = r.signer /\ t.ip = r.ip
        BY <2>1 DEF Request
      <4>5. r.seen = 0 /\ (r.ret \in {"check", "charge_user"} => r.who = r.signer)
        BY <2>2, <3>1 DEF ReqInv
      <4> HIDE DEF t, k
      <4> QED BY <4>2, <4>3, <4>4, <4>5 DEF ReqInv
    <3>4. UNCHANGED <<link, plans, amount, nextId, ledger>>
      BY <2>flink DEF FindLink, cache
    <3> QED BY <1>t, <2>flink, <3>2, <3>3, <3>4, LocalInv DEF FindLink
  <2>fplan. CASE FindPlan(p)
    <3> DEFINE t == [r EXCEPT !.pc = "spent"]
    <3>1. r.pc = "plan"
      BY <2>fplan DEF FindPlan
    <3>2. ReqInv(NotFound(r), ledger, plans, nextId)
      BY <1>n, <2>1, <2>2, <3>1, NotFoundInv
    <3>3. ReqInv(t, ledger, plans, nextId)
      <4>1. t.pc = "spent" /\ t.plan = r.plan /\ t.seen = r.seen /\ t.ret = r.ret
            /\ t.who = r.who /\ t.signer = r.signer /\ t.ip = r.ip
        BY <2>1 DEF Request
      <4> HIDE DEF t
      <4> QED BY <2>2, <3>1, <4>1 DEF ReqInv, Holding, WithPlan
    <3>4. UNCHANGED <<link, plans, amount, nextId, ledger>>
      BY <2>fplan DEF FindPlan, cache
    <3> QED BY <1>t, <2>fplan, <3>2, <3>3, <3>4, LocalInv DEF FindPlan
  <2>read. ASSUME NEW l \in Returns \cup {"charge_incr_set"}, r.pc \in Holding \ {"execute"}, r.pc # "idle",
                  Step(p, [r EXCEPT !.pc = l, !.seen = AmountSpent(r.plan)]),
                  l \in {"check", "charge_user"} => l = r.ret,
                  UNCHANGED <<link, plans, amount, nextId, ledger>>
           PROVE  LimiterInv'
    <3> DEFINE t == [r EXCEPT !.pc = l, !.seen = AmountSpent(r.plan)]
    <3>1. t.pc = l /\ t.plan = r.plan /\ t.seen = AmountSpent(r.plan) /\ t.ret = r.ret
          /\ t.who = r.who /\ t.signer = r.signer /\ t.ip = r.ip
      BY <2>1 DEF Request
    <3>2. r.plan \in PlanIds /\ plans[r.plan].owners \cap {r.who, r.ip} # {}
      BY <2>2, <2>read DEF ReqInv
    <3>3. AmountSpent(r.plan) <= ledger[r.plan]
      BY <1>t, <1>n, <3>2 DEF AmountSpent, LimiterInv, NoPhantomSpending, TypeOK
    <3>4. ReqInv(t, ledger, plans, nextId)
      <4> HIDE DEF t
      <4> QED BY <2>2, <2>read, <3>1, <3>2, <3>3 DEF ReqInv
    <3> QED BY <1>t, <2>read, <3>4, LocalInv
  <2>famt. CASE FindAmount(p)
    <3>1. r.pc = "spent" /\ r.ret \in Returns /\ r.pc \in Holding \ {"execute"}
      BY <2>famt, <2>1 DEF FindAmount, Request, Holding, WithPlan
    <3>2. UNCHANGED <<link, plans, amount, nextId, ledger>>
      BY <2>famt DEF FindAmount, cache
    <3> QED BY <2>famt, <3>1, <3>2, <2>read DEF FindAmount
  <2>ciread. CASE ChargeIncrRead(p)
    <3>1. r.pc = "charge_incr" /\ r.pc \in Holding \ {"execute"}
      BY <2>ciread DEF ChargeIncrRead, Holding, WithPlan
    <3>2. UNCHANGED <<link, plans, amount, nextId, ledger>>
      BY <2>ciread DEF ChargeIncrRead, cache
    <3> QED BY <2>ciread, <3>1, <3>2, <2>read DEF ChargeIncrRead
  <2>create. CASE CreatePlan(p)
    <3>1. r.pc = "create" /\ r.seen = 0 /\ (r.ret \in {"check", "charge_user"} => r.who = r.signer)
      BY <2>create, <2>2 DEF CreatePlan, ReqInv
    <3>2. nextId \in PlanIds /\ nextId' = nextId + 1 /\ UNCHANGED <<link, amount, ledger>>
      BY <1>t, <2>create, ConstantTypes DEF CreatePlan, TypeOK, PlanIds
    <3>3. \A id \in PlanIds : id < nextId => plans'[id] = plans[id]
      BY <1>t, <1>n, <2>create, PlanIdFacts DEF CreatePlan, TypeOK
    <3>4. plans'[nextId].owners = {r.who}
      BY <1>t, <2>create, <3>2 DEF CreatePlan, TypeOK
    <3> DEFINE t == [r EXCEPT !.pc = "save", !.plan = nextId, !.seen = 0]
    <3>5. ReqInv(t, ledger', plans', nextId')
      <4> DEFINE t1 == [r EXCEPT !.pc = "save", !.plan = nextId]
      <4>1. t1 \in Request /\ t1.plan = nextId /\ t1.pc = "save" /\ t1.who = r.who
            /\ t1.ret = r.ret /\ t1.signer = r.signer /\ t1.ip = r.ip
        BY <2>1, <3>2 DEF Request, Labels
      <4> HIDE DEF t1
      <4> DEFINE t2 == [t1 EXCEPT !.seen = 0]
      <4>2. t2.plan = nextId /\ t2.pc = "save" /\ t2.who = r.who /\ t2.seen = 0
            /\ t2.ret = r.ret /\ t2.signer = r.signer /\ t2.ip = r.ip
        BY <4>1 DEF Request
      <4> HIDE DEF t2
      <4>3. ReqInv(t2, ledger', plans', nextId')
        BY <1>n, <3>1, <3>2, <3>4, <4>2 DEF ReqInv
      <4> QED BY <4>3 DEF t1, t2
    <3>6. Step(p, t)
      BY <2>create DEF CreatePlan
    <3> HIDE DEF t
    <3>7. nextId <= nextId' /\ \A id \in PlanIds : ledger[id] <= ledger'[id]
      BY <1>n, <3>2
    <3>8. \A q \in Requests : ReqInv(req'[q], ledger', plans', nextId')
      BY <1>t, <3>7, <3>3, <3>5, <3>6, StepInv
    <3>9. LinkInv'
      <4> SUFFICES ASSUME NEW k \in Keys
                   PROVE  /\ link[k].plan < nextId + 1
                          /\ link[k].plan # NoPlan => k \in plans'[link[k].plan].owners
        BY <3>2 DEF LinkInv
      <4>1. link[k].plan \in PlanIds \cup {NoPlan} /\ link[k].plan < nextId
        BY <1>t DEF TypeOK, LimiterInv, LinkInv
      <4>2. link[k].plan # NoPlan => plans'[link[k].plan] = plans[link[k].plan]
        BY <3>3, <4>1
      <4>3. link[k].plan \in Nat
        BY <4>1, PlanIdFacts DEF NoPlan
      <4> QED BY <1>n, <4>1, <4>2, <4>3 DEF LimiterInv, LinkInv
    <3> QED BY <1>t, <3>2, <3>8, <3>9 DEF LimiterInv, NoPhantomSpending
  <2>save. CASE SaveLink(p)
    <3>1. r.pc = "save" /\ r.plan \in PlanIds /\ r.plan < nextId
      BY <2>save, <2>1, <2>2 DEF SaveLink, ReqOK, ReqInv, WithPlan
    <3> DEFINE t == [r EXCEPT !.pc = r.ret]
    <3>2. t.pc = r.ret /\ t.plan = r.plan /\ t.seen = r.seen /\ t.ret = r.ret
          /\ t.who = r.who /\ t.signer = r.signer /\ t.ip = r.ip /\ r.ret \in Returns
      BY <2>1 DEF Request
    <3>3. Step(p, t) /\ UNCHANGED <<plans, amount, nextId, ledger>>
          /\ link' = [link EXCEPT ![r.who] = [plan |-> r.plan, exp |-> now + Duration]]
      BY <2>save DEF SaveLink
    <3> HIDE DEF t
    <3>4. ReqInv(t, ledger, plans, nextId)
      BY <2>2, <3>1, <3>2 DEF ReqInv, Holding, WithPlan
    <3>5. \A q \in Requests : ReqInv(req'[q], ledger', plans', nextId')
      BY <1>t, <1>n, <3>3, <3>4, StepInv
    <3>6. r.who \in plans[r.plan].owners
      BY <2>2, <3>1 DEF ReqInv
    <3>7. LinkInv'
      BY <1>t, <3>1, <3>3, <3>6 DEF LimiterInv, LinkInv, TypeOK
    <3> QED BY <1>t, <3>3, <3>5, <3>7 DEF LimiterInv, NoPhantomSpending
  <2>budget. CASE CheckBudget(p)
    <3>1. r.pc = "budget" /\ UNCHANGED <<link, plans, amount, nextId, ledger>>
      BY <2>budget DEF CheckBudget, cache
    <3>2. ReqInv(LookUp(r, r.signer, "check"), ledger, plans, nextId)
      BY <1>n, <2>1, LookUpInv
    <3>3. ASSUME NEW l \in {"limited_total", "execute"},
                 l = "limited_total" => Exceeds(Limit["OPERATOR"], r.seen, r.est)
          PROVE  ReqInv([r EXCEPT !.pc = l], ledger, plans, nextId)
      <4> DEFINE t == [r EXCEPT !.pc = l]
      <4>1. t.pc = l /\ t.plan = r.plan /\ t.seen = r.seen /\ t.ret = r.ret /\ t.est = r.est
            /\ t.who = r.who /\ t.signer = r.signer /\ t.ip = r.ip
        BY <2>1 DEF Request
      <4> HIDE DEF t
      <4>2. ReqInv(t, ledger, plans, nextId)
        BY <2>2, <3>1, <3>3, <4>1 DEF ReqInv, Holding, WithPlan
      <4> QED BY <4>2 DEF t
    <3>4. CASE Exceeds(Limit["OPERATOR"], r.seen, r.est)
      <4>1. Step(p, [r EXCEPT !.pc = "limited_total"])
        BY <2>budget, <3>4 DEF CheckBudget
      <4>2. ReqInv([r EXCEPT !.pc = "limited_total"], ledger, plans, nextId)
        BY <3>3, <3>4
      <4> QED BY <1>t, <3>1, <4>1, <4>2, LocalInv
    <3>5. CASE ~Exceeds(Limit["OPERATOR"], r.seen, r.est)
      <4>1. Step(p, [r EXCEPT !.pc = "execute"]) \/ Step(p, LookUp(r, r.signer, "check"))
        BY <2>budget, <3>5 DEF CheckBudget
      <4>2. ReqInv([r EXCEPT !.pc = "execute"], ledger, plans, nextId)
        BY <3>3
      <4> QED BY <1>t, <3>1, <3>2, <4>1, <4>2, LocalInv
    <3> QED BY <3>4, <3>5
  <2>check. CASE CheckPlan(p)
    <3>1. r.pc = "check" /\ UNCHANGED <<link, plans, amount, nextId, ledger>>
      BY <2>check DEF CheckPlan, cache
    <3>2. ASSUME NEW l \in {"limited_plan", "execute"},
                 l = "limited_plan" => Exceeds(Limit[plans[r.plan].tier], r.seen, r.est)
          PROVE  ReqInv([r EXCEPT !.pc = l], ledger, plans, nextId)
      <4> DEFINE t == [r EXCEPT !.pc = l]
      <4>1. t.pc = l /\ t.plan = r.plan /\ t.seen = r.seen /\ t.ret = r.ret /\ t.est = r.est
            /\ t.who = r.who /\ t.signer = r.signer /\ t.ip = r.ip
        BY <2>1 DEF Request
      <4> HIDE DEF t
      <4>2. ReqInv(t, ledger, plans, nextId)
        BY <2>2, <3>1, <3>2, <4>1 DEF ReqInv, Holding, WithPlan
      <4> QED BY <4>2 DEF t
    <3>3. \/ /\ Step(p, [r EXCEPT !.pc = "limited_plan"])
             /\ Exceeds(Limit[plans[r.plan].tier], r.seen, r.est)
          \/ Step(p, [r EXCEPT !.pc = "execute"])
      BY <2>check DEF CheckPlan
    <3> QED BY <1>t, <3>1, <3>2, <3>3, LocalInv
  <2>idle. ASSUME Step(p, IdleRequest), UNCHANGED <<link, plans, amount, nextId, ledger>>
           PROVE  LimiterInv'
    BY <1>t, <1>n, <2>idle, IdleInv, LocalInv
  <2>refuse. CASE Refuse(p) \/ ExecuteFails(p) \/ RecordUnavailable(p)
    BY <2>refuse, <2>idle DEF Refuse, ExecuteFails, RecordUnavailable, cache
  <2>exec. CASE Execute(p)
    <3>1. PICK c \in Costs :
            Step(p, [r EXCEPT !.pc = "record", !.cost = c, !.est = 0, !.before = 0])
      BY <2>exec DEF Execute
    <3>2. r.pc = "execute" /\ UNCHANGED <<link, plans, amount, nextId, ledger>>
      BY <2>exec DEF Execute, cache
    <3> DEFINE t1 == [r EXCEPT !.pc = "record", !.cost = c]
               t == [t1 EXCEPT !.est = 0, !.before = 0]
    <3>3. t1 \in Request /\ t1.pc = "record" /\ t1.plan = r.plan /\ t1.seen = r.seen
          /\ t1.ret = r.ret /\ t1.who = r.who /\ t1.signer = r.signer /\ t1.ip = r.ip
      BY <2>1, ConstantTypes DEF Request, Labels
    <3>4. Step(p, t)
      BY <3>1
    <3> HIDE DEF t1
    <3>5. t.pc = "record" /\ t.plan = r.plan /\ t.seen = r.seen
          /\ t.ret = r.ret /\ t.who = r.who /\ t.signer = r.signer /\ t.ip = r.ip
      BY <3>3 DEF Request
    <3> HIDE DEF t
    <3>6. ReqInv(t, ledger, plans, nextId)
      BY <2>2, <3>2, <3>5 DEF ReqInv, Holding, WithPlan
    <3> QED BY <1>t, <3>2, <3>4, <3>6, LocalInv
  <2>cex. CASE ChargeExists(p)
    <3>1. r.pc \in {"charge_op", "charge_user"}
          /\ UNCHANGED <<link, plans, amount, nextId, ledger>>
      BY <2>cex DEF ChargeExists, cache
    <3> DEFINE t == [r EXCEPT !.pc = "charge_read", !.seen = 0]
    <3>2. t.pc = "charge_read" /\ t.plan = r.plan /\ t.seen = 0 /\ t.ret = r.ret
          /\ t.who = r.who /\ t.signer = r.signer /\ t.ip = r.ip
      BY <2>1 DEF Request
    <3>3. Step(p, t) \/ Step(p, IdleRequest)
      BY <2>cex DEF ChargeExists
    <3> HIDE DEF t
    <3>4. ReqInv(t, ledger, plans, nextId)
      BY <2>2, <3>1, <3>2 DEF ReqInv, Holding, WithPlan
    <3> QED BY <1>t, <3>1, <3>3, <3>4, <2>idle, LocalInv
  <2>cread. CASE ChargeRead(p)
    <3>1. r.pc = "charge_read" /\ UNCHANGED <<link, plans, amount, nextId, ledger>>
      BY <2>cread DEF ChargeRead, cache
    <3>2. PICK l \in {"charge_set", "charge_incr"} : Step(p, [r EXCEPT !.pc = l])
      BY <2>cread DEF ChargeRead
    <3> DEFINE t == [r EXCEPT !.pc = l]
    <3>3. t.pc = l /\ t.plan = r.plan /\ t.seen = r.seen /\ t.ret = r.ret
          /\ t.who = r.who /\ t.signer = r.signer /\ t.ip = r.ip
      BY <2>1 DEF Request
    <3>4. Step(p, t)
      BY <3>2
    <3> HIDE DEF t
    <3>5. ReqInv(t, ledger, plans, nextId)
      BY <2>2, <3>1, <3>3 DEF ReqInv, Holding, WithPlan
    <3> QED BY <1>t, <3>1, <3>4, <3>5, LocalInv
  <2>write. ASSUME NEW v \in Nat, NEW x, r.pc \in Holding, v <= ledger[r.plan] + r.cost,
                   amount' = [amount EXCEPT ![r.plan] = [val |-> v, exp |-> x]], Charged(p)
            PROVE  LimiterInv'
    <3>1. r.plan \in PlanIds
      BY <2>2, <2>write DEF ReqInv
    <3>2. /\ amount'[r.plan].val <= ledger[r.plan] + r.cost
          /\ \A id \in PlanIds : id # r.plan => amount'[id] = amount[id]
      BY <1>t, <2>write, <3>1 DEF TypeOK
    <3> QED BY <1>t, <2>write, <3>1, <3>2, ChargedInv
  <2>cost. r.cost \in Nat /\ r.seen \in Nat
    BY <2>1 DEF Request
  <2>cset. CASE ChargeSet(p)
    <3>1. r.pc \in Holding /\ r.plan \in PlanIds
      BY <2>cset, <2>2 DEF ChargeSet, Holding, WithPlan, ReqInv
    <3>2. r.cost <= ledger[r.plan] + r.cost
      BY <1>n, <2>cost, <3>1
    <3> QED BY <2>cset, <2>cost, <3>1, <3>2, <2>write DEF ChargeSet
  <2>cincr. CASE ChargeIncr(p)
    <3>1. r.pc \in Holding /\ r.plan \in PlanIds
      BY <2>cincr, <2>2 DEF ChargeIncr, Holding, WithPlan, ReqInv
    <3>2. AmountSpent(r.plan) \in Nat /\ AmountSpent(r.plan) <= ledger[r.plan]
      BY <1>t, <1>n, <3>1 DEF AmountSpent, LimiterInv, NoPhantomSpending, TypeOK
    <3> DEFINE v == AmountSpent(r.plan) + r.cost
               x == IF AmountSpent(r.plan) = 0 THEN Never ELSE amount[r.plan].exp
    <3>3. v \in Nat /\ v <= ledger[r.plan] + r.cost
      BY <1>n, <2>cost, <3>1, <3>2
    <3>4. amount' = [amount EXCEPT ![r.plan] = [val |-> v, exp |-> x]] /\ Charged(p)
      BY <2>cincr DEF ChargeIncr
    <3> HIDE DEF v, x
    <3> QED BY <3>1, <3>3, <3>4, <2>write
  <2>ciset. CASE ChargeIncrSet(p)
    <3>1. r.pc \in Holding /\ r.plan \in PlanIds
      BY <2>ciset, <2>2 DEF ChargeIncrSet, Holding, WithPlan, ReqInv
    <3>2. r.seen <= ledger[r.plan]
      BY <1>n, <2>cost, <2>2, <3>1 DEF ReqInv
    <3> DEFINE v == r.seen + r.cost
               x == IF AmountSpent(r.plan) = 0 THEN Never ELSE amount[r.plan].exp
    <3>3. v \in Nat /\ v <= ledger[r.plan] + r.cost
      BY <1>n, <2>cost, <3>1, <3>2
    <3>4. amount' = [amount EXCEPT ![r.plan] = [val |-> v, exp |-> x]] /\ Charged(p)
      BY <2>ciset DEF ChargeIncrSet
    <3> HIDE DEF v, x
    <3> QED BY <3>1, <3>3, <3>4, <2>write
  <2> QED
    BY <1>2, <2>start, <2>rkeys, <2>rdel, <2>look, <2>rdone, <2>flink, <2>fplan, <2>famt,
       <2>create, <2>save, <2>budget, <2>check, <2>refuse, <2>exec, <2>cex, <2>cread,
       <2>cset, <2>cincr, <2>ciread, <2>ciset DEF Progress
<1> QED BY <1>1, <1>2, <1>3 DEF Next

\* No amount recorded on a plan exceeds what was booked on it: concurrent
\* charges, resets and expiries may forget spending but never invent it.
THEOREM SpendingIsReal == Spec => []NoPhantomSpending
<1>1. LimiterInv => NoPhantomSpending
  BY DEF LimiterInv
<1> QED BY InitLimiterInv, NextLimiterInv, <1>1, PTL DEF Spec

\* A request is refused only on account of expenses really booked on the plan
\* the refusal is about, for the total budget and for the limit of a tier.
THEOREM RefusalsAreJustified == Spec => []LimitedOnlyIfBooked
<1>1. LimiterInv => LimitedOnlyIfBooked
  <2> SUFFICES ASSUME LimiterInv, NEW p \in Requests,
                      NEW lim \in Nat, req[p].pc \in {"limited_total", "limited_plan"},
                      Exceeds(lim, req[p].seen, req[p].est)
               PROVE  Exceeds(lim, ledger[req[p].plan], req[p].est)
    <3>1. LimiterInv => \A p \in Requests : ReqInv(req[p], ledger, plans, nextId)
      BY DEF LimiterInv
    <3>2. ASSUME LimiterInv, NEW p \in Requests, req[p].pc = "limited_plan"
          PROVE  Limit[plans[req[p].plan].tier] \in Nat
      <4>1. req[p].plan \in PlanIds
        BY <3>1, <3>2 DEF ReqInv, Holding, WithPlan
      <4> QED BY <3>2, <4>1, LimiterConstants DEF LimiterInv, TypeInv, TypeOK
    <3>3. Limit["OPERATOR"] \in Nat
      BY LimiterConstants DEF Tiers
    <3> QED BY <3>1, <3>2, <3>3 DEF LimitedOnlyIfBooked, ReqInv
  <2>1. req[p] \in Request /\ ReqInv(req[p], ledger, plans, nextId) /\ ledger \in [PlanIds -> Nat]
    BY DEF LimiterInv, TypeInv, TypeOK
  <2>2. req[p].plan \in PlanIds
    BY <2>1 DEF ReqInv, Holding, WithPlan
  <2>3. ledger[req[p].plan] \in Nat /\ req[p].seen \in Nat /\ req[p].est \in Nat
    BY <2>1, <2>2 DEF Request
  <2>4. req[p].seen <= ledger[req[p].plan]
    BY <2>1, <2>3 DEF ReqInv
  <2> QED BY <2>3, <2>4 DEF Exceeds
<1> QED BY InitLimiterInv, NextLimiterInv, <1>1, PTL DEF Spec

\* Whatever plans and links are created, replaced or expire meanwhile, a
\* request is judged by and charged to a plan of its signer or of its IP.
THEOREM RequestsUseTheirOwnPlan == Spec => []ChargedToOwnPlan
<1>1. LimiterInv => ChargedToOwnPlan
  <2> SUFFICES ASSUME LimiterInv, NEW p \in Requests,
                      req[p].ret \in {"check", "charge_user"},
                      req[p].pc \in {"check", "execute", "record", "limited_plan", "charge_user",
                                     "charge_read", "charge_set", "charge_incr", "charge_incr_set"}
               PROVE  plans[req[p].plan].owners \cap {req[p].signer, req[p].ip} # {}
    BY DEF ChargedToOwnPlan
  <2>1. ReqInv(req[p], ledger, plans, nextId)
    BY DEF LimiterInv
  <2>2. req[p].pc \in Holding /\ req[p].pc # "idle"
    BY DEF Holding, WithPlan, Returns
  <2> QED BY <2>1, <2>2 DEF ReqInv
<1> QED BY InitLimiterInv, NextLimiterInv, <1>1, PTL DEF Spec

(* --------------- no fee is counted twice against the budget ------------ *)
(* What a fee has still to add to the plan of the operator is pending; what *)
(* was added and what is pending never exceed what was paid.               *)

ForOperator == {"reset_done", "budget", "charge_op", "gauge"}
Charging == {"charge_read", "charge_set", "charge_incr", "charge_incr_set"}
Found == {"plan", "spent", "save", "limited_total"} \cup ForOperator \cup Charging
Looking == Found \cup {"link", "create"}
Booking == {"link", "plan", "spent", "create", "save", "charge_op"} \cup Charging

HasPreset == PresetLink[Operator] # NoPlan

(* The operator signs no transaction of a user and shares no preconfigured *)
(* plan, and its look-up never falls back to an IP address.                *)
OperatorSeparate ==
  /\ Operator \notin Users \cup Ips
  /\ \A k \in Users \cup Ips : PresetLink[k] = NoPlan \/ PresetLink[k] # PresetLink[Operator]
  /\ Ips = {} \/ HasPreset

Due(r) == IF r.pc = "record" \/ (r.ret = "charge_op" /\ r.pc \in Booking) THEN r.cost ELSE 0

Pending(R) == {x \in Requests \X Nat : x[2] \in 1..Due(R[x[1]])}

OpReq(r, P) ==
  /\ r.pc \in {"budget", "limited_total"} => r.ret = "budget"
  /\ r.pc \in {"charge_op", "charge_user"} => r.ret = r.pc
  /\ r.pc \in Charging => r.ret \in {"charge_op", "charge_user"}
  /\ r.ret \in ForOperator /\ r.pc \in Looking =>
       /\ r.who = Operator /\ r.by = "evm"
       /\ r.pc \in Found => Operator \in P[r.plan].owners
       /\ HasPreset => r.pc \notin {"create", "save"} /\ (r.pc = "plan" => r.plan = PresetLink[Operator])

OwnedAlone == \A id \in PlanIds : Operator \in plans[id].owners => plans[id].owners = {Operator}

PresetStays ==
  HasPreset => /\ link[Operator] = [plan |-> PresetLink[Operator], exp |-> Never]
               /\ plans[PresetLink[Operator]].exp = Never

BookedWithinPaid ==
  /\ IsFiniteSet(Pending(req))
  /\ \A id \in PlanIds :
       id >= nextId \/ Operator \in plans[id].owners => ledger[id] + Cardinality(Pending(req)) <= paid

OpInv ==
  /\ nextId > NumPresets
  /\ OwnedAlone
  /\ PresetStays
  /\ \A p \in Requests : OpReq(req[p], plans)
  /\ BookedWithinPaid

LEMMA DisjointUnion ==
  ASSUME NEW S, IsFiniteSet(S), NEW T, IsFiniteSet(T), S \cap T = {}
  PROVE  /\ IsFiniteSet(S \cup T) /\ Cardinality(S) \in Nat
         /\ Cardinality(S \cup T) = Cardinality(S) + Cardinality(T)
<1>1. /\ IsFiniteSet(S \cup T)
      /\ Cardinality(S \cup T) = Cardinality(S) + Cardinality(T) - Cardinality(S \cap T)
  BY FS_Union
<1>2. Cardinality(S \cap T) = 0
  BY FS_EmptySet
<1>3. Cardinality(S) \in Nat /\ Cardinality(T) \in Nat
  BY FS_CardinalityType
<1> QED BY <1>1, <1>2, <1>3

LEMMA DueType == ASSUME NEW r \in Request PROVE Due(r) \in Nat
  BY DEF Due, Request

\* One request changes what it has to book.
LEMMA PendingMoves ==
  ASSUME NEW R1 \in [Requests -> Request], NEW R2 \in [Requests -> Request], NEW p \in Requests,
         \A q \in Requests \ {p} : Due(R2[q]) = Due(R1[q]),
         IsFiniteSet(Pending(R1))
  PROVE  /\ IsFiniteSet(Pending(R2))
         /\ Cardinality(Pending(R1)) \in Nat /\ Cardinality(Pending(R2)) \in Nat
         /\ Cardinality(Pending(R2)) + Due(R1[p]) = Cardinality(Pending(R1)) + Due(R2[p])
<1> DEFINE Rest == {x \in Pending(R1) : x[1] # p}
           Own(n) == {p} \X (1..n)
<1>1. Due(R1[p]) \in Nat /\ Due(R2[p]) \in Nat
  BY DueType
<1>2. Pending(R1) = Rest \cup Own(Due(R1[p]))
  BY <1>1 DEF Pending
<1>3. Pending(R2) = Rest \cup Own(Due(R2[p]))
  BY <1>1 DEF Pending
<1>4. ASSUME NEW n \in Nat
      PROVE  /\ IsFiniteSet(Rest \cup Own(n)) /\ IsFiniteSet(Rest)
             /\ Cardinality(Rest \cup Own(n)) = Cardinality(Rest) + n
             /\ Cardinality(Rest) \in Nat
  <2>1. IsFiniteSet(Rest)
    BY FS_Subset
  <2>2. IsFiniteSet(1..n) /\ Cardinality(1..n) = n
    BY FS_Interval
  <2>3. IsFiniteSet({p}) /\ Cardinality({p}) = 1
    BY FS_Singleton
  <2>4. IsFiniteSet(Own(n)) /\ Cardinality(Own(n)) = 1 * n
    BY <2>2, <2>3, FS_Product, ZenonT(40)
  <2>5. Rest \cap Own(n) = {}
    OBVIOUS
  <2> HIDE DEF Rest, Own
  <2>6. Cardinality(Own(n)) = n
    BY <2>4
  <2> QED BY <2>1, <2>4, <2>5, <2>6, DisjointUnion
<1> HIDE DEF Rest, Own
<1>5. /\ IsFiniteSet(Pending(R2)) /\ Cardinality(Rest) \in Nat
      /\ Cardinality(Pending(R1)) = Cardinality(Rest) + Due(R1[p])
      /\ Cardinality(Pending(R2)) = Cardinality(Rest) + Due(R2[p])
  BY <1>1, <1>2, <1>3, <1>4
<1> QED BY <1>1, <1>5

LEMMA PresetFacts ==
  HasPreset => /\ PresetLink[Operator] \in PlanIds
               /\ PresetLink[Operator] \in 1..NumPresets
               /\ PresetLink[Operator] # NoPlan
<1>1. PresetLink[Operator] \in 1..NumPresets \cup {NoPlan}
  BY LimiterConstants DEF Presets, Keys
<1> QED BY <1>1, ConstantTypes DEF HasPreset, PlanIds

LEMMA InitOpInv == OperatorSeparate /\ Init => OpInv
<1> SUFFICES ASSUME OperatorSeparate, Init PROVE OpInv
  OBVIOUS
<1>1. nextId > NumPresets
  BY ConstantTypes DEF Init
<1>2. OwnedAlone
  <2> SUFFICES ASSUME NEW id \in PlanIds, Operator \in plans[id].owners
               PROVE  plans[id].owners = {Operator}
    BY DEF OwnedAlone
  <2>1. plans[id].owners = {k \in Keys : PresetLink[k] = id}
    BY DEF Init
  <2>2. PresetLink[Operator] = id /\ id # NoPlan
    BY <2>1, PlanIdFacts
  <2>3. ASSUME NEW k \in Keys, PresetLink[k] = id PROVE k = Operator
    BY <2>2, <2>3 DEF Keys, OperatorSeparate
  <2> QED BY <2>1, <2>3
<1>3. PresetStays
  BY PresetFacts DEF PresetStays, Init, Keys
<1>4. \A p \in Requests : OpReq(req[p], plans)
  BY DEF Init, OpReq, IdleRequest, Looking, Found, ForOperator, Charging
<1>5. Pending(req) = {}
  <2>1. \A p \in Requests : Due(req[p]) = 0
    BY DEF Init, Due, IdleRequest, Booking, Charging
  <2> QED BY <2>1 DEF Pending
<1>6. BookedWithinPaid
  <2>1. IsFiniteSet(Pending(req)) /\ Cardinality(Pending(req)) = 0
    BY <1>5, FS_EmptySet
  <2> QED BY <2>1 DEF BookedWithinPaid, Init
<1> QED BY <1>1, <1>2, <1>3, <1>4, <1>6 DEF OpInv

LEMMA LookUpFields ==
  ASSUME NEW r \in Request, NEW who \in Keys \cup {None}, NEW ret \in Returns
  PROVE  LET u == LookUp(r, who, ret) IN
         \/ u = IdleRequest /\ who = None
         \/ /\ u \in Request /\ u.pc = "link" /\ u.ret = ret /\ u.who = who /\ u.cost = r.cost /\ u.before = r.before
            /\ who # None => u.by = "evm"
<1> DEFINE s == [r EXCEPT !.who = who, !.ret = ret]
           q == [s EXCEPT !.plan = NoPlan, !.seen = 0]
<1>1. s \in Request /\ s.who = who /\ s.ret = ret /\ s.cost = r.cost /\ s.before = r.before /\ s.ip = r.ip
  BY DEF Request
<1> HIDE DEF s
<1>2. q \in Request /\ q.who = who /\ q.ret = ret /\ q.cost = r.cost /\ q.before = r.before
  BY <1>1 DEF Request
<1>3. q = [r EXCEPT !.who = who, !.ret = ret, !.plan = NoPlan, !.seen = 0]
  BY DEF s
<1> HIDE DEF q
<1>4. ASSUME NEW b \in {"evm", "ip"}
      PROVE  LET u == [q EXCEPT !.pc = "link", !.by = b] IN
             /\ u \in Request /\ u.pc = "link" /\ u.by = b
             /\ u.ret = ret /\ u.who = who /\ u.cost = r.cost /\ u.before = r.before
  <2> DEFINE v == [q EXCEPT !.pc = "link"]
  <2>1. v \in Request /\ v.pc = "link" /\ v.ret = ret /\ v.who = who /\ v.cost = r.cost /\ v.before = r.before
    BY <1>2 DEF Request, Labels
  <2>2. [q EXCEPT !.pc = "link", !.by = b] = [v EXCEPT !.by = b]
    OBVIOUS
  <2> HIDE DEF v
  <2>3. [v EXCEPT !.by = b] \in Request
    BY <2>1 DEF Request
  <2>4. LET u == [v EXCEPT !.by = b] IN
        u.pc = "link" /\ u.by = b /\ u.ret = ret /\ u.who = who /\ u.cost = r.cost /\ u.before = r.before
    BY <2>1 DEF Request
  <2> QED BY <2>2, <2>3, <2>4
<1>5. LookUp(r, who, ret) =
        IF who # None THEN [q EXCEPT !.pc = "link", !.by = "evm"]
        ELSE IF r.ip # None THEN [q EXCEPT !.pc = "link", !.by = "ip"]
        ELSE Miss(q)
  BY <1>3 DEF LookUp
<1>6. who = None => Miss(q) = IdleRequest
  BY <1>2 DEF Miss
<1> QED BY <1>4, <1>5, <1>6

LEMMA NotFoundFields ==
  ASSUME NEW r \in Request
  PROVE  LET u == NotFound(r) IN
         \/ u = IdleRequest
         \/ /\ u \in Request /\ u.pc \in {"link", "create"} /\ u.ret = r.ret /\ u.who = r.who
            /\ u.cost = r.cost /\ u.before = r.before
            /\ r.ip = None => u.pc = "create" /\ u.by = r.by
<1>1. CASE r.by = "evm" /\ r.ip # None
  <2> DEFINE s == [r EXCEPT !.pc = "link", !.by = "ip"]
  <2>1. s \in Request /\ s.pc = "link" /\ s.ret = r.ret /\ s.who = r.who /\ s.cost = r.cost /\ s.before = r.before
    BY DEF Request, Labels
  <2>2. NotFound(r) = [s EXCEPT !.plan = NoPlan]
    BY <1>1 DEF NotFound
  <2> HIDE DEF s
  <2> QED BY <1>1, <2>1, <2>2 DEF Request
<1>2. CASE ~(r.by = "evm" /\ r.ip # None)
  <2> DEFINE u == [r EXCEPT !.pc = "create", !.plan = NoPlan]
  <2>1. u \in Request /\ u.pc = "create" /\ u.ret = r.ret /\ u.who = r.who /\ u.cost = r.cost /\ u.before = r.before
        /\ u.by = r.by
    BY DEF Request, Labels
  <2>2. NotFound(r) = u \/ NotFound(r) = IdleRequest
    BY <1>2 DEF NotFound, Miss
  <2> HIDE DEF u
  <2> QED BY <2>1, <2>2
<1> QED BY <1>1, <1>2

LEMMA IdleOp == /\ Due(IdleRequest) = 0
                /\ \A P : OpReq(IdleRequest, P)
  BY DEF IdleRequest, OpReq, Due, Looking, Found, ForOperator, Charging, Booking

\* A look-up of the operator, or of the signer for anything but the budget.
LEMMA LookUpOp ==
  ASSUME NEW r \in Request, NEW who \in Keys \cup {None}, NEW ret \in Returns, NEW P,
         ret \in ForOperator => who = Operator
  PROVE  /\ OpReq(LookUp(r, who, ret), P)
         /\ ret # "charge_op" => Due(LookUp(r, who, ret)) = 0
         /\ Due(LookUp(r, who, ret)) <= r.cost
<1>1. r.cost \in Nat /\ Operator # None
  BY LimiterConstants DEF Request, Keys
<1> DEFINE u == LookUp(r, who, ret)
<1>2. CASE u = IdleRequest
  BY <1>1, <1>2, IdleOp
<1>3. CASE /\ u \in Request /\ u.pc = "link" /\ u.ret = ret /\ u.who = who /\ u.cost = r.cost
           /\ who # None => u.by = "evm"
  <2> HIDE DEF u
  <2>1. OpReq(u, P)
    BY <1>1, <1>3 DEF OpReq, Found, ForOperator, Charging
  <2>2. Due(u) = IF ret = "charge_op" THEN r.cost ELSE 0
    BY <1>3 DEF Due, Booking
  <2>3. OpReq(u, P) /\ (ret # "charge_op" => Due(u) = 0) /\ Due(u) <= r.cost
    BY <1>1, <2>1, <2>2
  <2> QED BY <2>3 DEF u
<1> QED BY <1>2, <1>3, LookUpFields

\* The requests that do nothing.
LEMMA OpReqStays ==
  ASSUME NEW r, NEW L, NEW P, NEW P1, NEW n, OpReq(r, P), ReqInv(r, L, P, n),
         \A id \in PlanIds : id < n => P1[id] = P[id]
  PROVE  OpReq(r, P1)
<1>1. r.pc \in Found => r.pc \in Holding
  BY DEF Found, ForOperator, Charging, Holding, WithPlan, Returns
<1>2. r.pc \in Found => P1[r.plan] = P[r.plan]
  BY <1>1 DEF ReqInv
<1> QED BY <1>2 DEF OpReq

LEMMA OpStep ==
  ASSUME LimiterInv, TypeInv', OpInv, NEW p \in Requests, NEW r, Step(p, r), OpReq(r, plans'),
         \A id \in PlanIds : id < nextId => plans'[id] = plans[id]
  PROVE  /\ \A q \in Requests : OpReq(req'[q], plans')
         /\ IsFiniteSet(Pending(req'))
         /\ Cardinality(Pending(req)) \in Nat /\ Cardinality(Pending(req')) \in Nat
         /\ Cardinality(Pending(req')) + Due(req[p]) = Cardinality(Pending(req)) + Due(r)
<1>1. req \in [Requests -> Request] /\ req' \in [Requests -> Request]
  BY DEF LimiterInv, TypeInv, TypeOK
<1>2. req'[p] = r /\ \A q \in Requests \ {p} : req'[q] = req[q]
  BY <1>1 DEF Step
<1>3. \A q \in Requests : OpReq(req'[q], plans')
  BY <1>2, OpReqStays DEF LimiterInv, OpInv
<1>4. \A q \in Requests \ {p} : Due(req'[q]) = Due(req[q])
  BY <1>2
<1>5. IsFiniteSet(Pending(req))
  BY DEF OpInv, BookedWithinPaid
<1> QED BY <1>1, <1>2, <1>3, <1>4, <1>5, PendingMoves

\* The steps that book nothing and move nothing but their request.
LEMMA OpLocal ==
  ASSUME LimiterInv, TypeInv', OpInv, NEW p \in Requests, NEW r, Step(p, r), OpReq(r, plans),
         Due(r) <= Due(req[p]), UNCHANGED <<link, plans, nextId, ledger, paid>>
  PROVE  OpInv'
<1>1. req[p] \in Request /\ r \in Request
  BY DEF LimiterInv, TypeInv, TypeOK, Step
<1>2. Due(req[p]) \in Nat /\ Due(r) \in Nat
  BY <1>1, DueType
<1>3. /\ \A q \in Requests : OpReq(req'[q], plans')
      /\ IsFiniteSet(Pending(req'))
      /\ Cardinality(Pending(req)) \in Nat /\ Cardinality(Pending(req')) \in Nat
      /\ Cardinality(Pending(req')) + Due(req[p]) = Cardinality(Pending(req)) + Due(r)
  BY OpStep
<1>4. Cardinality(Pending(req')) <= Cardinality(Pending(req))
  BY <1>2, <1>3
<1>5. BookedWithinPaid'
  <2>1. \A id \in PlanIds : ledger[id] \in Nat
    BY DEF LimiterInv, TypeInv, TypeOK
  <2>2. paid \in Nat
    BY DEF LimiterInv, TypeInv, TypeOK
  <2>3. ASSUME NEW id \in PlanIds, id >= nextId \/ Operator \in plans[id].owners
        PROVE  ledger[id] + Cardinality(Pending(req')) <= paid
    BY <1>3, <1>4, <2>1, <2>2, <2>3 DEF OpInv, BookedWithinPaid
  <2> QED BY <1>3, <2>3 DEF BookedWithinPaid
<1>6. OwnedAlone' /\ PresetStays' /\ nextId' > NumPresets
  BY DEF OpInv, OwnedAlone, PresetStays
<1> QED BY <1>3, <1>5, <1>6 DEF OpInv

\* A booking on the plan of the operator takes from what is pending, one on
\* the plan of a user goes to another plan.
LEMMA OpCharged ==
  ASSUME OperatorSeparate, LimiterInv, TypeInv', OpInv, NEW p \in Requests,
         req[p].pc \in Charging, Charged(p)
  PROVE  OpInv'
<1> DEFINE r == req[p]
<1>1. /\ r \in Request /\ r.cost \in Nat /\ Operator \in Keys /\ "gauge" \in Returns
      /\ nextId \in Nat /\ paid \in Nat
      /\ ledger \in [PlanIds -> Nat] /\ ledger' \in [PlanIds -> Nat]
  BY ConstantTypes DEF LimiterInv, TypeInv, TypeOK, Request, Keys, Returns
<1>2. UNCHANGED <<link, plans, nextId, paid>>
  BY DEF Charged
<1>3. r.plan \in PlanIds /\ r.plan < nextId /\ plans[r.plan].owners \cap {r.who, r.ip} # {}
  <2>1. r.pc \in Holding /\ ReqInv(r, ledger, plans, nextId)
    BY DEF LimiterInv, Charging, Holding, WithPlan
  <2> QED BY <2>1 DEF ReqInv
<1>4. ledger'[r.plan] = ledger[r.plan] + r.cost
      /\ \A id \in PlanIds : id # r.plan => ledger'[id] = ledger[id]
  BY <1>1, <1>3 DEF Charged
<1>5. r.ret \in {"charge_op", "charge_user"}
  BY DEF OpInv, OpReq
<1>6. OwnedAlone' /\ PresetStays' /\ nextId' > NumPresets
  BY <1>2 DEF OpInv, OwnedAlone, PresetStays
<1>7. CASE r.ret = "charge_op"
  <2>1. Due(r) = r.cost
    BY <1>7 DEF Due, Booking
  <2> DEFINE u == LookUp(r, Operator, "gauge")
  <2>2. Step(p, u)
    BY <1>7 DEF Charged
  <2>3. OpReq(u, plans') /\ Due(u) = 0
    BY <1>1, LookUpOp
  <2> HIDE DEF u
  <2>4. /\ \A q \in Requests : OpReq(req'[q], plans')
        /\ IsFiniteSet(Pending(req'))
        /\ Cardinality(Pending(req)) \in Nat /\ Cardinality(Pending(req')) \in Nat
        /\ Cardinality(Pending(req')) + r.cost = Cardinality(Pending(req)) + 0
    BY <1>2, <2>1, <2>2, <2>3, OpStep
  <2>5. ASSUME NEW id \in PlanIds, id >= nextId \/ Operator \in plans[id].owners
        PROVE  ledger'[id] + Cardinality(Pending(req')) <= paid
    <3>1. ledger[id] + Cardinality(Pending(req)) <= paid
      BY <2>5 DEF OpInv, BookedWithinPaid
    <3>2. ledger[id] \in Nat /\ ledger'[id] <= ledger[id] + r.cost
      BY <1>1, <1>4
    <3>3. ledger'[id] \in Nat
      BY <1>1
    <3> QED BY <1>1, <2>4, <3>1, <3>2, <3>3
  <2>6. BookedWithinPaid'
    BY <1>2, <2>4, <2>5 DEF BookedWithinPaid
  <2> QED BY <1>6, <2>4, <2>6 DEF OpInv
<1>8. CASE r.ret = "charge_user"
  <2>1. Due(r) = 0
    BY <1>8 DEF Due, Charging
  <2>2. Step(p, IdleRequest) /\ OpReq(IdleRequest, plans') /\ Due(IdleRequest) = 0
    BY <1>8, IdleOp DEF Charged
  <2>3. /\ \A q \in Requests : OpReq(req'[q], plans')
        /\ IsFiniteSet(Pending(req'))
        /\ Cardinality(Pending(req)) \in Nat /\ Cardinality(Pending(req')) \in Nat
        /\ Cardinality(Pending(req')) + 0 = Cardinality(Pending(req)) + 0
    BY <1>2, <2>1, <2>2, OpStep
  <2>4. r.plan < nextId /\ Operator \notin plans[r.plan].owners
    <3>1. r.who = r.signer
      BY <1>8 DEF LimiterInv, ReqInv, Charging
    <3>2. r.signer \in Users \cup {None} /\ r.ip \in Ips \cup {None}
      BY <1>1 DEF Request
    <3>3. Operator \notin {r.who, r.ip}
      BY <1>1, <3>1, <3>2, LimiterConstants DEF OperatorSeparate
    <3>4. plans[r.plan].owners # {Operator}
      BY <1>3, <3>3
    <3> QED BY <1>3, <3>4 DEF OpInv, OwnedAlone
  <2>5. ASSUME NEW id \in PlanIds, id >= nextId \/ Operator \in plans[id].owners
        PROVE  ledger'[id] + Cardinality(Pending(req')) <= paid
    <3>1. id # r.plan
      BY <1>1, <1>3, <2>4, <2>5, PlanIdFacts
    <3>2. ledger[id] + Cardinality(Pending(req)) <= paid
      BY <2>5 DEF OpInv, BookedWithinPaid
    <3> QED BY <1>4, <2>3, <3>1, <3>2
  <2>6. BookedWithinPaid'
    BY <1>2, <2>3, <2>5 DEF BookedWithinPaid
  <2> QED BY <1>6, <2>3, <2>6 DEF OpInv
<1> QED BY <1>5, <1>7, <1>8

\* An eviction that spares what the operator's budget is kept in.
LEMMA EvictOp ==
  ASSUME OperatorSeparate, LimiterInv, OpInv, Evict, "plan" \notin evicted'
  PROVE  OpInv'
<1>1. TypeOK
  BY DEF LimiterInv, TypeInv
<1>2. /\ UNCHANGED <<nextId, req, ledger, paid>>
      /\ \A id \in PlanIds : plans'[id].owners = plans[id].owners
      /\ link'[Operator] = link[Operator]
      /\ \A id \in PlanIds : IsOperators(id) => plans'[id] = plans[id]
  BY <1>1, EvictFacts
<1>3. OwnedAlone'
  BY <1>2 DEF OpInv, OwnedAlone
<1>4. PresetStays'
  <2> SUFFICES ASSUME HasPreset
               PROVE  /\ link'[Operator] = [plan |-> PresetLink[Operator], exp |-> Never]
                      /\ plans'[PresetLink[Operator]].exp = Never
    BY DEF PresetStays, HasPreset
  <2>1. /\ link[Operator] = [plan |-> PresetLink[Operator], exp |-> Never]
        /\ plans[PresetLink[Operator]].exp = Never
    BY DEF OpInv, PresetStays
  <2>2. Operator \in Keys /\ PresetLink[Operator] \in PlanIds
    BY PresetFacts DEF Keys
  <2>3. IsOperators(PresetLink[Operator])
    BY <2>1, <2>2, PresetFacts DEF LimiterInv, LinkInv, IsOperators
  <2> QED BY <1>2, <2>1, <2>2, <2>3
<1>5. ASSUME NEW p \in Requests PROVE OpReq(req[p], plans')
  <2>1. OpReq(req[p], plans) /\ ReqOK(req[p]) /\ ReqInv(req[p], ledger, plans, nextId)
    BY DEF OpInv, LimiterInv, TypeInv
  <2>2. req[p].pc \in Found => req[p].plan \in PlanIds
    BY <2>1 DEF ReqOK, ReqInv, Found, ForOperator, Charging, WithPlan, Returns, Holding
  <2>3. req[p].pc \in Found => plans'[req[p].plan].owners = plans[req[p].plan].owners
    BY <1>2, <2>2
  <2> QED BY <2>1, <2>3 DEF OpReq, HasPreset
<1>6. BookedWithinPaid'
  BY <1>2 DEF OpInv, BookedWithinPaid
<1> QED BY <1>2, <1>3, <1>4, <1>5, <1>6 DEF OpInv

\* The mark of an evicted plan stays.
LEMMA EvictedStays ==
  ASSUME TypeOK, [Next]_vars, "plan" \in evicted
  PROVE  "plan" \in evicted'
<1>1. CASE UNCHANGED vars \/ Tick
  BY <1>1 DEF vars, Tick, window
<1>2. CASE Evict
  BY <1>2, EvictFacts
<1>3. ASSUME NEW p \in Requests, Start(p) \/ Progress(p) PROVE "plan" \in evicted'
  BY <1>3 DEF Progress, Start, ResetKeys, ResetDelete, ResetGauge, ResetDone, FindLink, FindPlan,
     FindAmount, CreatePlan, SaveLink, CheckBudget, CheckPlan, Refuse, Execute, ExecuteFails, AddExpense,
     RecordUnavailable, ChargeExists, ChargeRead, ChargeSet, ChargeIncr, ChargeIncrRead,
     ChargeIncrSet, ChargeUser, Charged, window
<1> QED BY <1>1, <1>2, <1>3 DEF Next

LEMMA NextOpInv ==
  ASSUME OperatorSeparate, LimiterInv, OpInv, [Next]_vars, "plan" \notin evicted'
  PROVE  OpInv'
<1>t. TypeInv' /\ TypeInv /\ TypeOK
  BY NextTypeInv DEF LimiterInv, TypeInv
<1>n. /\ nextId \in Nat /\ ledger \in [PlanIds -> Nat] /\ settled \in Nat /\ paid \in Nat
      /\ Operator \in Keys /\ Operator # None
  BY <1>t, ConstantTypes, LimiterConstants DEF TypeOK, Keys
<1>1. CASE Tick \/ UNCHANGED vars
  <2>1. UNCHANGED <<link, plans, nextId, ledger, paid, req>>
    BY <1>1 DEF Tick, vars, cache
  <2> QED BY <2>1 DEF OpInv, OwnedAlone, PresetStays, BookedWithinPaid
<1>2. ASSUME NEW p \in Requests, Start(p) \/ Progress(p) PROVE OpInv'
  <2> DEFINE r == req[p]
  <2>1. /\ r \in Request /\ ReqOK(r) /\ r.cost \in Nat /\ Due(r) \in Nat
        /\ r.signer \in Keys \cup {None}
        /\ r.signer \in Users \cup {None} /\ r.ip \in Ips \cup {None}
    BY <1>t, DueType DEF TypeInv, TypeOK, Keys, Request
  <2>2. ReqInv(r, ledger, plans, nextId) /\ OpReq(r, plans)
    BY DEF LimiterInv, OpInv
  <2> USE DEF Returns
  <2>idle. ASSUME Step(p, IdleRequest), UNCHANGED <<link, plans, nextId, ledger, paid>>
           PROVE  OpInv'
    <3>1. Due(IdleRequest) <= Due(r)
      BY <2>1, IdleOp
    <3> QED BY <1>t, <2>idle, <3>1, IdleOp, OpLocal
  <2>look. ASSUME NEW t \in Request, NEW who \in Keys \cup {None}, NEW ret \in Returns,
                  ret \in ForOperator => who = Operator,
                  ret = "charge_op" => t.cost = Due(r),
                  Step(p, LookUp(t, who, ret)), UNCHANGED <<link, plans, nextId, ledger, paid>>
           PROVE  OpInv'
    <3>1. OpReq(LookUp(t, who, ret), plans) /\ Due(LookUp(t, who, ret)) <= Due(r)
      <4>1. /\ OpReq(LookUp(t, who, ret), plans)
            /\ ret # "charge_op" => Due(LookUp(t, who, ret)) = 0
            /\ Due(LookUp(t, who, ret)) <= t.cost
        BY <2>look, LookUpOp
      <4> QED BY <2>1, <2>look, <4>1
    <3> QED BY <1>t, <2>look, <3>1, OpLocal
  <2>start. CASE Start(p)
    <3>1. PICK s \in Users \cup {None}, i \in Ips \cup {None}, e \in Estimates :
            LET t == [IdleRequest EXCEPT !.signer = s, !.ip = i, !.est = e] IN
            IF ShouldResetLimiter(Home[p])
            THEN Step(p, [t EXCEPT !.pc = "reset_keys"])
            ELSE ReadBudget(p, t)
      BY <2>start DEF Start
    <3> DEFINE t == [IdleRequest EXCEPT !.signer = s, !.ip = i, !.est = e]
    <3>2. t \in Request
      <4> DEFINE t1 == [IdleRequest EXCEPT !.signer = s, !.ip = i]
      <4>1. t1 \in Request
        BY IdleType DEF Request
      <4> HIDE DEF t1
      <4>2. [t1 EXCEPT !.est = e] \in Request
        BY <4>1, ConstantTypes DEF Request
      <4> QED BY <4>2 DEF t1
    <3>3. IF ShouldResetLimiter(Home[p]) THEN Step(p, [t EXCEPT !.pc = "reset_keys"])
          ELSE ReadBudget(p, t)
      BY <3>1
    <3>4. UNCHANGED <<link, plans, nextId, ledger, paid>>
      BY <2>start DEF Start, cache
    <3> HIDE DEF t
    <3> DEFINE u == [t EXCEPT !.pc = "reset_keys"]
    <3>5. u.pc = "reset_keys"
      BY <3>2 DEF Request
    <3>6. Step(p, u) => OpInv'
      <4> HIDE DEF u
      <4>1. OpReq(u, plans)
        BY <3>5 DEF OpReq, Looking, Found, ForOperator, Charging
      <4>2. Due(u) = 0
        BY <3>5 DEF Due, Booking, Charging
      <4> QED BY <1>t, <2>1, <3>4, <4>1, <4>2, OpLocal
    <3>7. [t EXCEPT !.before = settled] \in Request
      BY <3>2, <1>n DEF Request
    <3> QED BY <1>n, <3>3, <3>4, <3>6, <3>7, <2>look DEF ReadBudget
  <2>rkeys. CASE ResetKeys(p)
    <3> DEFINE keys == {id \in PlanIds : AmountSpent(id) > 0}
               t == [r EXCEPT !.pc = "reset_delete", !.keys = keys]
    <3>1. t.pc = "reset_delete" /\ r.pc = "reset_keys"
      BY <2>1, <2>rkeys DEF Request, ResetKeys
    <3>2. UNCHANGED <<link, plans, nextId, ledger, paid>>
      BY <2>rkeys DEF ResetKeys, cache
    <3> HIDE DEF t
    <3>3. OpReq(t, plans) /\ Due(t) = 0
      BY <3>1 DEF OpReq, Looking, Found, ForOperator, Charging, Due, Booking
    <3>4. CASE Step(p, t)
      BY <1>t, <2>1, <3>2, <3>3, <3>4, OpLocal
    <3>5. CASE req' = [q \in Requests |-> IF q = p THEN t ELSE [req[q] EXCEPT !.before = 0]]
      <4>1. \A q \in Requests : OpReq(req'[q], plans) /\ Due(req'[q]) = Due(req[q])
        <5> SUFFICES ASSUME NEW q \in Requests
                     PROVE  OpReq(req'[q], plans) /\ Due(req'[q]) = Due(req[q])
          OBVIOUS
        <5>1. CASE q = p
          <6>1. Due(r) = 0
            BY <3>1 DEF Due, Booking, Charging
          <6> QED BY <3>3, <3>5, <5>1, <6>1
        <5>2. CASE q # p
          <6> DEFINE u == [req[q] EXCEPT !.before = 0]
          <6>1. req[q] \in Request /\ OpReq(req[q], plans)
            BY <1>t DEF TypeOK, OpInv
          <6>2. /\ u.pc = req[q].pc /\ u.plan = req[q].plan /\ u.ret = req[q].ret
                /\ u.who = req[q].who /\ u.by = req[q].by /\ u.cost = req[q].cost
            BY <6>1 DEF Request
          <6>3. req'[q] = u
            BY <3>5, <5>2
          <6> HIDE DEF u
          <6> QED BY <6>1, <6>2, <6>3 DEF OpReq, Due
        <5> QED BY <5>1, <5>2
      <4>2. Pending(req') = Pending(req)
        BY <4>1 DEF Pending
      <4> QED BY <3>2, <4>1, <4>2 DEF OpInv, OwnedAlone, PresetStays, BookedWithinPaid
    <3> QED BY <2>rkeys, <3>4, <3>5 DEF ResetKeys, t
  <2>rdel. CASE ResetDelete(p)
    <3>1. PICK id \in r.keys : Step(p, [r EXCEPT !.keys = @ \ {id}])
      BY <2>rdel DEF ResetDelete
    <3> DEFINE u == [r EXCEPT !.keys = @ \ {id}]
    <3>2. /\ u.pc = r.pc /\ u.plan = r.plan /\ u.ret = r.ret
          /\ u.who = r.who /\ u.by = r.by /\ u.cost = r.cost
      BY <2>1 DEF Request
    <3>3. Step(p, u)
      BY <3>1
    <3> HIDE DEF u
    <3>4. OpReq(u, plans) /\ Due(u) <= Due(r)
      <4>1. Due(u) = Due(r)
        BY <3>2 DEF Due
      <4> QED BY <2>1, <2>2, <3>2, <4>1 DEF OpReq
    <3>5. UNCHANGED <<link, plans, nextId, ledger, paid>>
      BY <2>rdel DEF ResetDelete
    <3> QED BY <1>t, <3>3, <3>4, <3>5, OpLocal
  <2>rgauge. CASE ResetGauge(p)
    BY <1>n, <2>1, <2>look, <2>rgauge DEF ResetGauge, cache
  <2>add. CASE AddExpense(p)
    <3>1. Due(r) = r.cost
      BY <2>add DEF AddExpense, Due
    <3> QED BY <1>n, <2>1, <2>look, <2>add, <3>1 DEF AddExpense, cache
  <2>user. CASE ChargeUser(p)
    BY <1>n, <2>1, <2>look, <2>user DEF ChargeUser, cache, ForOperator
  <2>rdone. CASE ResetDone(p)
    <3>1. [r EXCEPT !.before = settled] \in Request
      BY <2>1, <1>n DEF Request
    <3> QED BY <1>n, <2>look, <2>rdone, <3>1 DEF ResetDone, ReadBudget, cache
  <2>refuse. CASE Refuse(p) \/ ExecuteFails(p) \/ RecordUnavailable(p)
    BY <2>refuse, <2>idle DEF Refuse, ExecuteFails, RecordUnavailable, cache
  <2>lost. ASSUME r.pc \in {"link", "plan"}, Step(p, NotFound(r)),
                  r.ret \in ForOperator => ~HasPreset,
                  UNCHANGED <<link, plans, nextId, ledger, paid>>
           PROVE  OpInv'
    <3> DEFINE u == NotFound(r)
    <3>1. CASE u = IdleRequest
      BY <2>idle, <2>lost, <3>1
    <3>2. CASE /\ u \in Request /\ u.pc \in {"link", "create"} /\ u.ret = r.ret /\ u.who = r.who
               /\ u.cost = r.cost
               /\ r.ip = None => u.pc = "create" /\ u.by = r.by
      <4> HIDE DEF u
      <4>1. r.ret \in ForOperator => r.ip = None
        BY <2>1, <2>lost DEF OperatorSeparate
      <4>2. r.ret \in ForOperator => r.who = Operator /\ r.by = "evm"
        BY <2>2, <2>lost DEF OpReq, Looking, Found
      <4>3. OpReq(u, plans)
        BY <2>lost, <3>2, <4>1, <4>2 DEF OpReq, Found, ForOperator, Charging
      <4>4. Due(u) = Due(r)
        BY <2>lost, <3>2 DEF Due, Booking
      <4>5. Step(p, u)
        BY <2>lost DEF u
      <4> QED BY <1>t, <2>1, <2>lost, <4>3, <4>4, <4>5, OpLocal
    <3> QED BY <2>1, <3>1, <3>2, NotFoundFields
  <2>flink. CASE FindLink(p)
    <3> DEFINE k == Key(r)
               t == [r EXCEPT !.pc = "plan", !.plan = LinkOf(k)]
    <3>1. r.pc = "link" /\ UNCHANGED <<link, plans, nextId, ledger, paid>>
      BY <2>flink DEF FindLink, cache
    <3>2. r.ret \in ForOperator => k = Operator /\ r.who = Operator /\ r.by = "evm"
      BY <2>2, <3>1 DEF OpReq, Looking, Key
    <3>3. r.ret \in ForOperator /\ HasPreset => LinkOf(k) = PresetLink[Operator] /\ LinkOf(k) # NoPlan
      BY <1>n, <3>2, PresetFacts DEF OpInv, PresetStays, LinkOf, Live
    <3>4. CASE LinkOf(k) = NoPlan
      BY <2>lost, <2>flink, <3>1, <3>3, <3>4 DEF FindLink
    <3>5. CASE LinkOf(k) # NoPlan
      <4>1. k \in Keys /\ LinkOf(k) = link[k].plan
        BY <3>5 DEF LinkOf
      <4>2. k \in plans[LinkOf(k)].owners
        BY <3>5, <4>1 DEF LimiterInv, LinkInv
      <4>3. /\ t.pc = "plan" /\ t.plan = LinkOf(k) /\ t.ret = r.ret
            /\ t.who = r.who /\ t.by = r.by /\ t.cost = r.cost
        BY <2>1 DEF Request
      <4>4. Step(p, t)
        BY <2>flink, <3>5 DEF FindLink
      <4> HIDE DEF t, k
      <4>5. OpReq(t, plans)
        BY <3>2, <3>3, <4>2, <4>3 DEF OpReq, ForOperator, Charging
      <4>6. Due(t) = Due(r)
        BY <3>1, <4>3 DEF Due, Booking
      <4> QED BY <1>t, <2>1, <3>1, <4>4, <4>5, <4>6, OpLocal
    <3> QED BY <3>4, <3>5
  <2>fplan. CASE FindPlan(p)
    <3> DEFINE t == [r EXCEPT !.pc = "spent"]
    <3>1. r.pc = "plan" /\ UNCHANGED <<link, plans, nextId, ledger, paid>>
      BY <2>fplan DEF FindPlan, cache
    <3>2. r.ret \in ForOperator => r.who = Operator /\ r.by = "evm" /\ Operator \in plans[r.plan].owners
      BY <2>2, <3>1 DEF OpReq, Looking, Found
    <3>3. CASE ~PlanExists(r.plan)
      <4>1. ASSUME r.ret \in ForOperator, HasPreset PROVE FALSE
        <5>1. r.plan = PresetLink[Operator]
          BY <2>2, <3>1, <4>1 DEF OpReq, Looking, Found
        <5>2. PresetLink[Operator] \in PlanIds /\ PresetLink[Operator] < nextId
          BY <1>n, <4>1, PresetFacts, ConstantTypes DEF OpInv
        <5>3. Live(plans[PresetLink[Operator]])
          BY <4>1 DEF OpInv, PresetStays, Live
        <5> QED BY <3>3, <5>1, <5>2, <5>3 DEF PlanExists
      <4> QED BY <2>lost, <2>fplan, <3>1, <3>3, <4>1 DEF FindPlan
    <3>4. CASE PlanExists(r.plan)
      <4>1. /\ t.pc = "spent" /\ t.plan = r.plan /\ t.ret = r.ret
            /\ t.who = r.who /\ t.by = r.by /\ t.cost = r.cost
        BY <2>1 DEF Request
      <4>2. Step(p, t)
        BY <2>fplan, <3>4 DEF FindPlan
      <4> HIDE DEF t
      <4>3. OpReq(t, plans)
        BY <3>2, <4>1 DEF OpReq, ForOperator, Charging
      <4>4. Due(t) = Due(r)
        BY <3>1, <4>1 DEF Due, Booking
      <4> QED BY <1>t, <2>1, <3>1, <4>2, <4>3, <4>4, OpLocal
    <3> QED BY <3>3, <3>4
  \* the plan was found or created: the request goes on at ret
  <2>found. ASSUME NEW t, r.pc \in {"spent", "save"},
                   t.pc = r.ret, t.ret = r.ret, t.plan = r.plan,
                   t.who = r.who, t.by = r.by, t.cost = r.cost
            PROVE  OpReq(t, plans) /\ Due(t) = Due(r)
    <3>1. r.ret \in Returns
      BY <2>1 DEF Request
    <3>2. r.ret \in ForOperator => /\ r.who = Operator /\ r.by = "evm"
                                   /\ Operator \in plans[r.plan].owners
      BY <2>2, <2>found DEF OpReq, Looking, Found
    <3>3. OpReq(t, plans)
      BY <2>found, <3>1, <3>2 DEF OpReq, ForOperator, Charging
    <3>4. Due(t) = Due(r)
      BY <2>found, <3>1 DEF Due, Booking
    <3> QED BY <3>3, <3>4
  <2>famt. CASE FindAmount(p)
    <3> DEFINE t == [r EXCEPT !.pc = r.ret, !.seen = AmountSpent(r.plan)]
    <3>1. /\ t.pc = r.ret /\ t.plan = r.plan /\ t.ret = r.ret
          /\ t.who = r.who /\ t.by = r.by /\ t.cost = r.cost
      BY <2>1 DEF Request
    <3>2. r.pc = "spent" /\ Step(p, t) /\ UNCHANGED <<link, plans, nextId, ledger, paid>>
      BY <2>famt DEF FindAmount, cache
    <3> HIDE DEF t
    <3>3. OpReq(t, plans) /\ Due(t) = Due(r)
      BY <2>found, <3>1, <3>2
    <3> QED BY <1>t, <2>1, <3>2, <3>3, OpLocal
  <2>save. CASE SaveLink(p)
    <3> DEFINE t == [r EXCEPT !.pc = r.ret]
    <3>1. /\ t.pc = r.ret /\ t.plan = r.plan /\ t.ret = r.ret
          /\ t.who = r.who /\ t.by = r.by /\ t.cost = r.cost
      BY <2>1 DEF Request
    <3>2. /\ r.pc = "save" /\ Step(p, t) /\ UNCHANGED <<plans, nextId, ledger, paid>>
          /\ link' = [link EXCEPT ![r.who] = [plan |-> r.plan, exp |-> now + Duration]]
      BY <2>save DEF SaveLink
    <3> HIDE DEF t
    <3>3. OpReq(t, plans) /\ Due(t) = Due(r)
      BY <2>found, <3>1, <3>2
    <3>4. HasPreset => r.who # Operator
      <4>1. r.ret \in Returns /\ r.who \in Keys
        BY <2>1, <3>2 DEF ReqOK, Request
      <4>2. HasPreset => r.ret \in {"check", "charge_user"}
        BY <2>2, <3>2, <4>1 DEF OpReq, Looking, Found, ForOperator
      <4>3. r.ret \in {"check", "charge_user"} => r.who = r.signer
        BY <2>2, <3>2 DEF ReqInv
      <4> QED BY <2>1, <4>1, <4>2, <4>3, LimiterConstants DEF OperatorSeparate
    <3>5. PresetStays'
      BY <1>t, <1>n, <3>2, <3>4 DEF OpInv, PresetStays, TypeOK
    <3>6. /\ \A q \in Requests : OpReq(req'[q], plans')
          /\ IsFiniteSet(Pending(req'))
          /\ Cardinality(Pending(req')) = Cardinality(Pending(req))
      <4>1. /\ \A q \in Requests : OpReq(req'[q], plans')
            /\ IsFiniteSet(Pending(req'))
            /\ Cardinality(Pending(req)) \in Nat /\ Cardinality(Pending(req')) \in Nat
            /\ Cardinality(Pending(req')) + Due(r) = Cardinality(Pending(req)) + Due(t)
        BY <1>t, <3>2, <3>3, OpStep
      <4> QED BY <2>1, <3>3, <4>1
    <3>7. BookedWithinPaid'
      BY <3>2, <3>6 DEF OpInv, BookedWithinPaid
    <3> QED BY <3>2, <3>5, <3>6, <3>7 DEF OpInv, OwnedAlone
  <2>create. CASE CreatePlan(p)
    <3> DEFINE t1 == [r EXCEPT !.pc = "save", !.plan = nextId]
               t == [t1 EXCEPT !.seen = 0]
    <3>1. /\ r.pc = "create" /\ nextId \in PlanIds /\ nextId' = nextId + 1
          /\ UNCHANGED <<link, ledger, paid>> /\ Step(p, t)
      <4>1. Step(p, [r EXCEPT !.pc = "save", !.plan = nextId, !.seen = 0])
        BY <2>create DEF CreatePlan
      <4>2. /\ r.pc = "create" /\ nextId <= MaxPlans /\ nextId' = nextId + 1
            /\ UNCHANGED <<link, ledger, paid>>
        BY <2>create DEF CreatePlan
      <4>3. nextId \in PlanIds
        BY <1>t, <1>n, <4>2, ConstantTypes DEF PlanIds, TypeOK
      <4> QED BY <4>1, <4>2, <4>3
    <3>2. /\ t1 \in Request /\ t1.pc = "save" /\ t1.plan = nextId /\ t1.ret = r.ret
          /\ t1.who = r.who /\ t1.by = r.by /\ t1.cost = r.cost
      BY <2>1, <3>1 DEF Request, Labels
    <3> HIDE DEF t1
    <3>3. /\ t.pc = "save" /\ t.plan = nextId /\ t.ret = r.ret
          /\ t.who = r.who /\ t.by = r.by /\ t.cost = r.cost
      BY <3>2 DEF Request
    <3> HIDE DEF t
    <3>4. /\ plans'[nextId].owners = {r.who}
          /\ \A id \in PlanIds : id # nextId => plans'[id] = plans[id]
      BY <1>t, <2>create, <3>1 DEF CreatePlan, TypeOK
    <3>5. \A id \in PlanIds : id < nextId => plans'[id] = plans[id]
      BY <1>n, <3>4
    <3>6. r.ret \in ForOperator => r.who = Operator /\ r.by = "evm" /\ ~HasPreset
      BY <2>2, <3>1 DEF OpReq, Looking
    <3>7. OpReq(t, plans') /\ Due(t) = Due(r)
      <4>1. OpReq(t, plans')
        BY <3>3, <3>4, <3>6 DEF OpReq, ForOperator, Charging
      <4>2. Due(t) = Due(r)
        BY <3>1, <3>3 DEF Due, Booking
      <4> QED BY <4>1, <4>2
    <3>8. /\ \A q \in Requests : OpReq(req'[q], plans')
          /\ IsFiniteSet(Pending(req'))
          /\ Cardinality(Pending(req')) = Cardinality(Pending(req))
      <4>1. /\ \A q \in Requests : OpReq(req'[q], plans')
            /\ IsFiniteSet(Pending(req'))
            /\ Cardinality(Pending(req)) \in Nat /\ Cardinality(Pending(req')) \in Nat
            /\ Cardinality(Pending(req')) + Due(r) = Cardinality(Pending(req)) + Due(t)
        BY <1>t, <3>1, <3>5, <3>7, OpStep
      <4> QED BY <2>1, <3>7, <4>1
    <3>9. OwnedAlone'
      BY <3>4 DEF OpInv, OwnedAlone
    <3>10. PresetStays'
      <4>1. HasPreset => PresetLink[Operator] \in PlanIds /\ PresetLink[Operator] < nextId
        BY <1>n, PresetFacts, ConstantTypes DEF OpInv
      <4> QED BY <3>1, <3>5, <4>1 DEF OpInv, PresetStays
    <3>11. BookedWithinPaid'
      <4> SUFFICES ASSUME NEW id \in PlanIds, id >= nextId + 1 \/ Operator \in plans'[id].owners
                   PROVE  ledger[id] + Cardinality(Pending(req)) <= paid
        BY <3>1, <3>8 DEF BookedWithinPaid
      <4>1. id >= nextId \/ Operator \in plans[id].owners
        BY <1>n, <3>4, PlanIdFacts
      <4> QED BY <4>1 DEF OpInv, BookedWithinPaid
    <3>12. nextId' > NumPresets
      BY <1>n, <3>1, ConstantTypes DEF OpInv
    <3> QED BY <3>8, <3>9, <3>10, <3>11, <3>12 DEF OpInv
  \* the request goes on elsewhere, with the plan it has
  <2>goto. ASSUME NEW l \in {"limited_total", "limited_plan", "execute"} \cup Charging, NEW n \in Nat,
                  Step(p, [r EXCEPT !.pc = l, !.seen = n]), r.pc \in Returns \cup Charging,
                  l = "limited_total" => r.pc = "budget",
                  l \in Charging => r.pc \in {"charge_op", "charge_user"} \cup Charging,
                  UNCHANGED <<link, plans, nextId, ledger, paid>>
           PROVE  OpInv'
    <3> DEFINE t == [r EXCEPT !.pc = l, !.seen = n]
    <3>1. /\ t.pc = l /\ t.plan = r.plan /\ t.ret = r.ret
          /\ t.who = r.who /\ t.by = r.by /\ t.cost = r.cost
      BY <2>1 DEF Request
    <3>2. Step(p, t)
      BY <2>goto
    <3> HIDE DEF t
    <3>3. l \in Charging => \/ r.pc \in Looking /\ r.ret \in {"charge_op", "charge_user"}
                            \/ r.ret = "charge_user"
      BY <2>2, <2>goto DEF OpReq, Looking, Found, ForOperator, Charging
    <3>4. OpReq(t, plans)
      <4>1. CASE l \in {"limited_plan", "execute"}
        BY <3>1, <4>1 DEF OpReq, Looking, Found, ForOperator, Charging
      <4>2. CASE l = "limited_total"
        BY <2>2, <2>goto, <3>1, <4>2 DEF OpReq, Looking, Found, ForOperator, Charging
      <4>3. CASE l \in Charging
        <5>1. r.ret \in {"charge_op", "charge_user"}
          BY <3>3, <4>3
        <5>2. r.ret = "charge_op" => /\ r.pc \in Found
                                     /\ r.who = Operator /\ r.by = "evm"
                                     /\ Operator \in plans[r.plan].owners
          BY <2>2, <2>goto, <4>3, <5>1 DEF OpReq, Looking, Found, ForOperator, Charging
        <5> QED BY <3>1, <4>3, <5>1, <5>2 DEF OpReq, ForOperator, Charging
      <4> QED BY <2>goto, <4>1, <4>2, <4>3
    <3>5. Due(t) <= Due(r)
      <4>1. CASE l \notin Charging
        <5>1. Due(t) = 0
          BY <2>goto, <3>1, <4>1 DEF Due, Booking
        <5> QED BY <2>1, <5>1
      <4>2. CASE l \in Charging
        <5>1. r.pc \in Booking \cup {"charge_user"} /\ l \in Booking /\ l # "record"
          BY <2>goto, <4>2 DEF Booking, Charging
        <5>2. r.pc = "charge_user" => r.ret = "charge_user"
          BY <2>2 DEF OpReq
        <5>3. Due(t) = Due(r)
          BY <3>1, <5>1, <5>2 DEF Due, Booking, Charging
        <5> QED BY <2>1, <5>3
      <4> QED BY <4>1, <4>2
    <3> QED BY <1>t, <2>goto, <3>2, <3>4, <3>5, OpLocal
  <2>move. ASSUME NEW l \in {"limited_total", "limited_plan", "execute"} \cup Charging,
                  Step(p, [r EXCEPT !.pc = l]), r.pc \in Returns \cup Charging,
                  l = "limited_total" => r.pc = "budget",
                  l \in Charging => r.pc \in {"charge_op", "charge_user"} \cup Charging,
                  UNCHANGED <<link, plans, nextId, ledger, paid>>
           PROVE  OpInv'
    <3>1. r.seen \in Nat
      BY <2>1 DEF Request
    <3>2. [r EXCEPT !.pc = l] = [r EXCEPT !.pc = l, !.seen = r.seen]
      BY <2>1 DEF Request
    <3>3. Step(p, [r EXCEPT !.pc = l, !.seen = r.seen])
      BY <2>move, <3>2
    <3> QED BY <2>goto, <2>move, <3>1, <3>3
  <2>budget. CASE CheckBudget(p)
    <3>1. r.pc = "budget" /\ UNCHANGED <<link, plans, nextId, ledger, paid>>
      BY <2>budget DEF CheckBudget, cache
    <3>2. \/ Step(p, [r EXCEPT !.pc = "limited_total"])
          \/ Step(p, [r EXCEPT !.pc = "execute"])
          \/ Step(p, LookUp(r, r.signer, "check"))
      BY <2>budget DEF CheckBudget
    <3>3. \A l \in {"limited_total", "execute"} : Step(p, [r EXCEPT !.pc = l]) => OpInv'
      BY <2>move, <3>1 DEF Charging
    <3>4. Step(p, LookUp(r, r.signer, "check")) => OpInv'
      BY <2>1, <2>look, <3>1 DEF ForOperator
    <3> QED BY <3>2, <3>3, <3>4
  <2>check. CASE CheckPlan(p)
    <3>1. r.pc = "check" /\ UNCHANGED <<link, plans, nextId, ledger, paid>>
      BY <2>check DEF CheckPlan, cache
    <3>2. \/ Step(p, [r EXCEPT !.pc = "limited_plan"])
          \/ Step(p, [r EXCEPT !.pc = "execute"])
      BY <2>check DEF CheckPlan
    <3> QED BY <2>move, <3>1, <3>2 DEF Charging
  <2>cex. CASE ChargeExists(p)
    <3>1. r.pc \in {"charge_op", "charge_user"} /\ UNCHANGED <<link, plans, nextId, ledger, paid>>
      BY <2>cex DEF ChargeExists, cache
    <3>2. Step(p, [r EXCEPT !.pc = "charge_read", !.seen = 0]) \/ Step(p, IdleRequest)
      BY <2>cex DEF ChargeExists
    <3>3. Step(p, [r EXCEPT !.pc = "charge_read", !.seen = 0]) => OpInv'
      BY <2>goto, <3>1 DEF Charging
    <3>4. Step(p, IdleRequest) => OpInv'
      BY <2>idle, <3>1
    <3> QED BY <3>2, <3>3, <3>4
  <2>cread. CASE ChargeRead(p)
    <3>1. r.pc = "charge_read" /\ UNCHANGED <<link, plans, nextId, ledger, paid>>
      BY <2>cread DEF ChargeRead, cache
    <3>2. Step(p, [r EXCEPT !.pc = "charge_set"]) \/ Step(p, [r EXCEPT !.pc = "charge_incr"])
      BY <2>cread DEF ChargeRead
    <3> QED BY <2>move, <3>1, <3>2 DEF Charging
  <2>ciread. CASE ChargeIncrRead(p)
    <3>1. r.pc = "charge_incr" /\ UNCHANGED <<link, plans, nextId, ledger, paid>>
      BY <2>ciread DEF ChargeIncrRead, cache
    <3>2. Step(p, [r EXCEPT !.pc = "charge_incr_set", !.seen = AmountSpent(r.plan)])
      BY <2>ciread DEF ChargeIncrRead
    <3>3. AmountSpent(r.plan) \in Nat
      BY <1>t, <2>1, <3>1, ReadTypes DEF ReqOK, WithPlan
    <3>4. \A n \in Nat : Step(p, [r EXCEPT !.pc = "charge_incr_set", !.seen = n]) => OpInv'
      BY <2>goto, <3>1 DEF Charging
    <3> QED BY <3>2, <3>3, <3>4
  <2>charge. CASE ChargeSet(p) \/ ChargeIncr(p) \/ ChargeIncrSet(p)
    <3>1. r.pc \in Charging /\ Charged(p)
      BY <2>charge DEF ChargeSet, ChargeIncr, ChargeIncrSet, Charging
    <3> QED BY <1>t, <3>1, OpCharged
  <2>exec. CASE Execute(p)
    <3>1. PICK c \in Costs :
            /\ paid' = paid + c
            /\ Step(p, [r EXCEPT !.pc = "record", !.cost = c, !.est = 0, !.before = 0])
      BY <2>exec DEF Execute
    <3>2. r.pc = "execute" /\ c \in Nat /\ UNCHANGED <<link, plans, nextId, ledger>>
      BY <2>exec, ConstantTypes DEF Execute, cache
    <3> DEFINE t1 == [r EXCEPT !.pc = "record", !.cost = c]
               t == [t1 EXCEPT !.est = 0, !.before = 0]
    <3>3. t1 \in Request /\ t1.pc = "record" /\ t1.cost = c
      BY <2>1, <3>2 DEF Request, Labels
    <3>4. Step(p, t)
      BY <3>1
    <3> HIDE DEF t1
    <3>5. t.pc = "record" /\ t.cost = c
      BY <3>3 DEF Request
    <3> HIDE DEF t
    <3>6. OpReq(t, plans) /\ Due(t) = c /\ Due(r) = 0
      BY <3>2, <3>5 DEF OpReq, Looking, Found, ForOperator, Charging, Due, Booking
    <3>7. /\ \A q \in Requests : OpReq(req'[q], plans')
          /\ IsFiniteSet(Pending(req'))
          /\ Cardinality(Pending(req)) \in Nat /\ Cardinality(Pending(req')) \in Nat
          /\ Cardinality(Pending(req')) + 0 = Cardinality(Pending(req)) + c
      BY <1>t, <3>2, <3>4, <3>6, OpStep
    <3>8. BookedWithinPaid'
      <4> SUFFICES ASSUME NEW id \in PlanIds, id >= nextId \/ Operator \in plans[id].owners
                   PROVE  ledger[id] + Cardinality(Pending(req')) <= paid'
        BY <3>2, <3>7 DEF BookedWithinPaid
      <4>1. ledger[id] + Cardinality(Pending(req)) <= paid
        BY DEF OpInv, BookedWithinPaid
      <4>2. ledger[id] \in Nat
        BY <1>n
      <4> QED BY <1>n, <3>1, <3>2, <3>7, <4>1, <4>2
    <3> QED BY <3>2, <3>7, <3>8 DEF OpInv, OwnedAlone, PresetStays
  <2> QED
    BY <1>2, <2>start, <2>rkeys, <2>rdel, <2>rgauge, <2>rdone, <2>flink, <2>fplan, <2>famt,
       <2>create, <2>save, <2>budget, <2>check, <2>refuse, <2>exec, <2>add, <2>cex, <2>cread,
       <2>charge, <2>ciread, <2>user DEF Progress
<1> QED BY <1>1, <1>2, EvictOp DEF Next

\* A request is refused for the total budget only if the operator really paid
\* that much, and for the limit of a tier only if that much was booked on its
\* plan: no fee counts twice, whatever charges, resets and expiries overlap, as
\* long as the operator's plan is its own.
THEOREM RefusedForRealSpending ==
  ASSUME OperatorSeparate PROVE Spec => []RefusedForSpending
<1> DEFINE Inv == LimiterInv /\ ("plan" \in evicted \/ OpInv)
<1>1. Inv => LimitedOnlyIfPaid
  <2> SUFFICES ASSUME LimiterInv, OpInv, NEW p \in Requests, req[p].pc = "limited_total"
               PROVE  Exceeds(Limit["OPERATOR"], paid, req[p].est)
    BY DEF LimitedOnlyIfPaid
  <2> DEFINE r == req[p]
  <2>1. /\ r \in Request /\ ledger \in [PlanIds -> Nat] /\ paid \in Nat
        /\ ReqInv(r, ledger, plans, nextId) /\ OpReq(r, plans)
    BY DEF LimiterInv, TypeInv, TypeOK, OpInv
  <2>2. r.plan \in PlanIds /\ Operator \in plans[r.plan].owners
    BY <2>1 DEF ReqInv, Holding, WithPlan, OpReq, Looking, Found, ForOperator
  <2>3. r.seen \in Nat /\ r.est \in Nat /\ ledger[r.plan] \in Nat
    BY <2>1, <2>2 DEF Request
  <2>4. r.seen <= ledger[r.plan] /\ Exceeds(Limit["OPERATOR"], r.seen, r.est)
    BY <2>1, <2>3 DEF ReqInv
  <2>5. ledger[r.plan] <= paid
    <3>1. ledger[r.plan] + Cardinality(Pending(req)) <= paid /\ Cardinality(Pending(req)) \in Nat
      BY <2>2, FS_CardinalityType DEF OpInv, BookedWithinPaid
    <3> QED BY <2>1, <2>3, <3>1
  <2>6. Limit["OPERATOR"] \in Nat
    BY LimiterConstants DEF Tiers
  <2> QED BY <2>1, <2>3, <2>4, <2>5, <2>6 DEF Exceeds
<1>2. Init => Inv
  BY InitLimiterInv, InitOpInv
<1>3. Inv /\ [Next]_vars => Inv'
  <2> SUFFICES ASSUME Inv, [Next]_vars PROVE Inv'
    OBVIOUS
  <2>1. TypeOK
    BY DEF LimiterInv, TypeInv
  <2>2. CASE "plan" \in evicted'
    BY <2>2, NextLimiterInv
  <2>3. CASE "plan" \notin evicted'
    BY <2>1, <2>3, EvictedStays, NextLimiterInv, NextOpInv
  <2> QED BY <2>2, <2>3
<1>4. Spec => []LimitedOnlyIfPaid
  BY <1>1, <1>2, <1>3, PTL DEF Spec
<1> QED BY <1>4, RefusalsAreJustified, PTL DEF RefusedForSpending

(* ------------------- resets go from boundary to boundary --------------- *)

OnBoundary(t) == \E k \in Nat : t = k * Duration

\* The reset timestamps are boundaries.
ResetsOnBoundary == \A h \in Relays : OnBoundary(reset[h])

\* Rounding up to a multiple of the duration.
LEMMA RoundedUp ==
  ASSUME NEW x \in Nat
  PROVE  /\ (x + Duration - 1) \div Duration \in Nat
         /\ x <= ((x + Duration - 1) \div Duration) * Duration
         /\ ((x + Duration - 1) \div Duration) * Duration <= x + Duration - 1
<1>1. Duration \in Nat /\ Duration > 0
  BY ConstantTypes
<1> DEFINE y == x + Duration - 1
           k == y \div Duration
<1>2. y \in Nat
  BY <1>1
<1> HIDE DEF y
<1>3. y = Duration * k + (y % Duration) /\ y % Duration \in 0..(Duration - 1) /\ k \in Nat
  BY <1>1, <1>2
<1> HIDE DEF k
<1>4. Duration * k = k * Duration /\ k * Duration \in Nat
  BY <1>1, <1>3
<1>5. k \in Nat /\ x <= k * Duration /\ k * Duration <= x + Duration - 1
  BY <1>1, <1>3, <1>4 DEF y
<1> QED BY <1>5 DEF k, y

\* A timestamp in the past moves to the first boundary that is not past.
LEMMA ResetTimestampMoves ==
  ASSUME NEW r \in Nat, NEW t \in Nat, OnBoundary(r)
  PROVE  /\ OnBoundary(GetResetTimestamp(r, t))
         /\ r < t => /\ GetResetTimestamp(r, t) \in t..(t + Duration - 1)
                     /\ r < GetResetTimestamp(r, t)
         /\ ~(r < t) => GetResetTimestamp(r, t) = r
<1>1. Duration \in Nat /\ Duration > 0
  BY ConstantTypes
<1>2. CASE r < t
  <2> DEFINE k == (t - r + Duration - 1) \div Duration
  <2>1. k \in Nat /\ t - r <= k * Duration /\ k * Duration <= (t - r) + Duration - 1
    <3>1. t - r \in Nat
      BY <1>2
    <3> QED BY <3>1, RoundedUp
  <2>2. GetResetTimestamp(r, t) = r + k * Duration
    BY <1>2 DEF GetResetTimestamp
  <2> HIDE DEF k
  <2>3. k * Duration \in Nat
    BY <1>1, <2>1
  <2>4. PICK j \in Nat : r = j * Duration
    BY DEF OnBoundary
  <2>5. r + k * Duration = (j + k) * Duration /\ j + k \in Nat
    BY <1>1, <2>1, <2>4
  <2>6. OnBoundary(r + k * Duration)
    BY <2>5 DEF OnBoundary
  <2> QED BY <1>1, <1>2, <2>1, <2>2, <2>3, <2>6
<1>3. CASE ~(r < t)
  BY <1>3 DEF GetResetTimestamp
<1> QED BY <1>2, <1>3

LEMMA BoundaryRest == ASSUME NEW t \in Nat PROVE OnBoundary(t) <=> t % Duration = 0
<1>1. Duration \in Nat /\ Duration > 0
  BY ConstantTypes
<1>2. ASSUME NEW k \in Nat, t = k * Duration PROVE t % Duration = 0
  <2> DEFINE q == t \div Duration
             m == t % Duration
  <2>1. t = Duration * q + m /\ m \in 0..(Duration - 1) /\ q \in Int
    BY <1>1
  <2> HIDE DEF q, m
  <2>2. m = (k - q) * Duration
    BY <1>1, <1>2, <2>1
  <2>3. k - q \in Int
    BY <2>1
  <2>4. CASE k - q >= 1
    <3>1. (k - q) * Duration >= Duration
      BY <1>1, <2>3, <2>4
    <3> QED BY <1>1, <2>1, <2>2, <3>1
  <2>5. CASE k - q <= -1
    <3>1. (k - q) * Duration <= -Duration
      BY <1>1, <2>3, <2>5
    <3> QED BY <1>1, <2>1, <2>2, <3>1
  <2>6. CASE k - q = 0
    BY <1>1, <2>2, <2>6 DEF m
  <2> QED BY <2>3, <2>4, <2>5, <2>6
<1>3. ASSUME t % Duration = 0 PROVE OnBoundary(t)
  <2>1. t = Duration * (t \div Duration) + (t % Duration) /\ t \div Duration \in Nat
    BY <1>1
  <2>2. t = (t \div Duration) * Duration
    BY <1>1, <1>3, <2>1
  <2> QED BY <2>1, <2>2 DEF OnBoundary
<1> QED BY <1>2, <1>3 DEF OnBoundary

LEMMA InitOnBoundary == Init => ResetsOnBoundary
<1>1. OnBoundary(0)
  <2>1. 0 = 0 * Duration
    BY ConstantTypes
  <2> QED BY <2>1 DEF OnBoundary
<1>2. OnBoundary(GetResetTimestamp(0, StartTime))
  BY <1>1, ConstantTypes, ResetTimestampMoves
<1> QED BY <1>2 DEF Init, ResetsOnBoundary

\* The only step that changes a timestamp.
LEMMA OnlyResetDone ==
  ASSUME TypeOK, [Next]_vars
  PROVE  \/ UNCHANGED reset
         \/ \E p \in Requests : reset' = [reset EXCEPT ![Home[p]] = GetResetTimestamp(@, now)]
<1>1. CASE UNCHANGED vars
  BY <1>1 DEF vars
<1>2. CASE Tick \/ Evict
  BY <1>2 DEF Tick, Evict
<1>3. ASSUME NEW p \in Requests, Start(p) \/ Progress(p), ~ResetDone(p)
      PROVE  UNCHANGED reset
  BY <1>3 DEF Progress, Start, ResetKeys, ResetDelete, ResetGauge, FindLink, FindPlan, FindAmount,
     CreatePlan, SaveLink, CheckBudget, CheckPlan, Refuse, Execute, ExecuteFails, AddExpense,
     RecordUnavailable, ChargeExists, ChargeRead, ChargeSet, ChargeIncr, ChargeIncrRead,
     ChargeIncrSet, ChargeUser, Charged
<1> QED BY <1>1, <1>2, <1>3 DEF Next, ResetDone

LEMMA StepOnBoundary ==
  ASSUME TypeOK, ResetsOnBoundary, [Next]_vars
  PROVE  /\ ResetsOnBoundary'
         /\ \A h \in Relays : reset'[h] # reset[h] =>
              /\ reset[h] < reset'[h]
              /\ reset'[h] \in now..(now + Duration - 1)
              /\ reset'[h] % Duration = 0
<1>1. CASE UNCHANGED reset
  BY <1>1 DEF ResetsOnBoundary, OnBoundary
<1>2. ASSUME NEW p \in Requests, reset' = [reset EXCEPT ![Home[p]] = GetResetTimestamp(@, now)]
      PROVE  /\ ResetsOnBoundary'
             /\ \A h \in Relays : reset'[h] # reset[h] =>
                  /\ reset[h] < reset'[h]
                  /\ reset'[h] \in now..(now + Duration - 1)
                  /\ reset'[h] % Duration = 0
  <2>1. now \in Nat /\ reset \in [Relays -> Nat] /\ Home[p] \in Relays
    BY ConstantTypes DEF TypeOK
  <2>2. ASSUME NEW h \in Relays
        PROVE  /\ OnBoundary(reset'[h])
               /\ reset'[h] # reset[h] => /\ reset[h] < reset'[h]
                                          /\ reset'[h] \in now..(now + Duration - 1)
                                          /\ reset'[h] % Duration = 0
    <3>1. reset[h] \in Nat /\ OnBoundary(reset[h])
      BY <2>1 DEF ResetsOnBoundary
    <3>2. CASE h = Home[p]
      <4>1. reset'[h] = GetResetTimestamp(reset[h], now) /\ reset'[h] \in Nat
        BY <1>2, <2>1, <3>1, <3>2, ResetTimestampType
      <4> QED BY <2>1, <3>1, <4>1, ResetTimestampMoves, BoundaryRest
    <3>3. CASE h # Home[p]
      BY <1>2, <2>1, <3>1, <3>3
    <3> QED BY <3>2, <3>3
  <2> QED BY <2>2 DEF ResetsOnBoundary
<1> QED BY <1>1, <1>2, OnlyResetDone

\* However late a reset runs and however many requests found it due, it moves
\* the timestamp of its relay forward to the first boundary that is not past.
THEOREM ResetsAlwaysKeepPace == Spec => ResetsKeepPace
<1>1. Init => ResetsOnBoundary
  BY InitOnBoundary
<1>2. TypeOK /\ ResetsOnBoundary /\ [Next]_vars => ResetsOnBoundary'
  BY StepOnBoundary
<1>3. TypeOK /\ ResetsOnBoundary /\ [Next]_vars =>
        [\A h \in Relays : reset'[h] # reset[h] =>
           /\ reset[h] < reset'[h]
           /\ reset'[h] \in now..(now + Duration - 1)
           /\ reset'[h] % Duration = 0]_vars
  BY StepOnBoundary
<1> QED BY <1>1, <1>2, <1>3, LimiterTypeCorrect, PTL DEF Spec, ResetsKeepPace

(* The clock shows no boundary when it is read: as a boundary is one of    *)
(* very many milliseconds, requests rarely meet it.                        *)
OffBoundary == \A k \in Nat : (FirstTime + k * ClockStep) % Duration # 0

ClockOnGrid == \E k \in Nat : now = FirstTime + k * ClockStep

LEMMA ClockStays ==
  /\ Init => ClockOnGrid
  /\ ClockOnGrid /\ [Next]_vars => ClockOnGrid'
<1>1. FirstTime \in Nat /\ ClockStep \in Nat
  BY ConstantTypes
<1>2. ASSUME Init PROVE ClockOnGrid
  <2>1. now = FirstTime + 0 * ClockStep
    BY <1>1, <1>2 DEF Init
  <2> QED BY <2>1 DEF ClockOnGrid
<1>3. ASSUME ClockOnGrid, [Next]_vars PROVE ClockOnGrid'
  <2>1. PICK k \in Nat : now = FirstTime + k * ClockStep
    BY <1>3 DEF ClockOnGrid
  <2>2. CASE Tick
    <3>1. now' = FirstTime + (k + 1) * ClockStep /\ k + 1 \in Nat
      BY <1>1, <2>1, <2>2 DEF Tick
    <3> QED BY <3>1 DEF ClockOnGrid
  <2>3. CASE now' = now
    BY <2>1, <2>3 DEF ClockOnGrid
  <2>4. Tick \/ now' = now
    <3>1. CASE UNCHANGED vars \/ Evict
      BY <3>1 DEF vars, Evict
    <3>2. ASSUME NEW p \in Requests, Start(p) \/ Progress(p) PROVE now' = now
      BY <3>2 DEF Progress, Start, ResetKeys, ResetDelete, ResetGauge, ResetDone, FindLink,
         FindPlan, FindAmount, CreatePlan, SaveLink, CheckBudget, CheckPlan, Refuse, Execute,
         ExecuteFails, AddExpense, RecordUnavailable, ChargeExists, ChargeRead, ChargeSet,
         ChargeIncr, ChargeIncrRead, ChargeIncrSet, ChargeUser, Charged
    <3> QED BY <1>3, <3>1, <3>2 DEF Next
  <2> QED BY <2>2, <2>3, <2>4
<1> QED BY <1>2, <1>3

\* Unless it runs at the very millisecond of a boundary, a reset sets the
\* timestamp to the future; and it always keeps pace.
THEOREM ResetsAreOnTime ==
  ASSUME OffBoundary PROVE Spec => ResetsOnTime
<1>1. TypeOK /\ ResetsOnBoundary /\ ClockOnGrid /\ [Next]_vars =>
        [\A p \in Requests : ResetDone(p) => reset'[Home[p]] > now]_vars
  <2> SUFFICES ASSUME TypeOK, ResetsOnBoundary, ClockOnGrid, NEW p \in Requests, ResetDone(p)
               PROVE  reset'[Home[p]] > now
    OBVIOUS
  <2> DEFINE h == Home[p]
  <2>1. now \in Nat /\ reset \in [Relays -> Nat] /\ h \in Relays
    BY ConstantTypes DEF TypeOK
  <2>2. reset'[h] = GetResetTimestamp(reset[h], now)
    BY <2>1 DEF ResetDone
  <2>3. reset[h] \in Nat /\ OnBoundary(reset[h])
    BY <2>1 DEF ResetsOnBoundary
  <2>4. ~OnBoundary(now)
    BY <2>1, BoundaryRest DEF OffBoundary, ClockOnGrid
  <2>5. OnBoundary(reset'[h]) /\ reset'[h] \in Nat /\ reset'[h] >= now
    <3>1. GetResetTimestamp(reset[h], now) \in Nat
      BY <2>1, <2>3, ResetTimestampType
    <3>2. OnBoundary(GetResetTimestamp(reset[h], now))
      BY <2>1, <2>3, ResetTimestampMoves
    <3>3. GetResetTimestamp(reset[h], now) >= now
      BY <2>1, <2>3, <3>1, ResetTimestampMoves
    <3> QED BY <2>2, <3>1, <3>2, <3>3
  <2>6. reset'[h] # now
    BY <2>4, <2>5
  <2> QED BY <2>1, <2>5, <2>6
<1>2. Spec => []ResetsOnBoundary
  <2>1. TypeOK /\ ResetsOnBoundary /\ [Next]_vars => ResetsOnBoundary'
    BY StepOnBoundary
  <2> QED BY <2>1, InitOnBoundary, LimiterTypeCorrect, PTL DEF Spec
<1>3. Spec => ResetInFuture
  BY <1>1, <1>2, ClockStays, LimiterTypeCorrect, PTL DEF Spec, ResetInFuture
<1> QED BY <1>3, ResetsAlwaysKeepPace DEF ResetsOnTime

(* --------------- spent is spent, one request at a time ----------------- *)

OneAtATime == \A p, q \in Requests : p = q

OpPlan == PresetLink[Operator]

\* the window that was opened last is over
Over == opened < Boundary

\* ... or what was booked in it has been evicted
Excused == Over \/ "amount" \in evicted

InReset(r) ==
  \/ r.pc \in {"reset_keys", "reset_delete", "reset_done"}
  \/ r.ret = "reset_done" /\ r.pc \in {"link", "plan", "spent", "create", "save"}

\* the operator has no plan but the preconfigured one
SoleOperatorPlan == \A id \in PlanIds : Operator \in plans[id].owners => id = OpPlan

\* what is on the plan stays until the window is over, or is being reset
KeptOnPlan(r) ==
  \/ AmountSpent(OpPlan) = 0
  \/ amount[OpPlan].exp = Never
  \/ amount[OpPlan].exp >= opened + Duration
  \/ r.pc = "reset_delete" /\ OpPlan \in r.keys

\* a reset finds, and leaves behind, a window in which nothing is booked
ResetReq(r, h) ==
  /\ InReset(r) => settled = 0 \/ (r.pc = "reset_keys" /\ Over)
  /\ reset[h] > opened \/ (settled = 0 /\ (r.pc = "idle" \/ InReset(r)))

\* what a request has read of the budget, on its way to being executed
BudgetReq(r) ==
  /\ r.ret = "budget" /\ r.pc \in {"link", "plan", "spent"} => r.before = settled
  /\ r.pc = "budget" => Excused \/ r.before <= r.seen
  /\ r.pc \in {"check", "execute"} \/ (r.ret = "check" /\ r.pc \in {"link", "plan", "spent", "create", "save"})
       => Excused \/ r.before < Limit["OPERATOR"]

\* what it has read of the amount it is about to change
ChargeReq(r) ==
  /\ r.pc = "charge_set" /\ r.plan = OpPlan => AmountSpent(OpPlan) = 0
  /\ r.pc = "charge_incr_set" /\ r.plan = OpPlan => Excused \/ settled <= r.seen

AloneReq(r, h) ==
  /\ Excused \/ settled <= AmountSpent(OpPlan)  \* what was booked in this window is on the plan
  /\ KeptOnPlan(r) /\ ResetReq(r, h) /\ BudgetReq(r) /\ ChargeReq(r)

AloneInv ==
  /\ SoleOperatorPlan
  /\ OnBoundary(opened) /\ opened <= now
  /\ \A p \in Requests : AloneReq(req[p], Home[p])

\* The boundary at or before the present time.
LEMMA BoundaryFacts ==
  ASSUME NEW t \in Nat
  PROVE  LET b == (t \div Duration) * Duration IN
         /\ b \in Nat /\ OnBoundary(b) /\ b <= t
         /\ \A c \in Nat : OnBoundary(c) /\ c <= t => c <= b
<1>1. Duration \in Nat /\ Duration > 0
  BY ConstantTypes
<1> DEFINE q == t \div Duration
           m == t % Duration
<1>2. t = Duration * q + m /\ m \in 0..(Duration - 1) /\ q \in Nat
  BY <1>1
<1> HIDE DEF q, m
<1>3. Duration * q = q * Duration /\ q * Duration \in Nat
  BY <1>1, <1>2
<1>4. ASSUME NEW c \in Nat, OnBoundary(c), c <= t PROVE c <= q * Duration
  <2>1. PICK k \in Nat : c = k * Duration
    BY <1>4 DEF OnBoundary
  <2>2. CASE k <= q
    <3>1. k * Duration <= q * Duration
      BY <1>1, <1>2, <2>2
    <3> QED BY <2>1, <3>1
  <2>3. CASE k >= q + 1
    <3>1. k * Duration >= (q + 1) * Duration
      BY <1>1, <1>2, <2>3
    <3>2. (q + 1) * Duration = q * Duration + Duration
      BY <1>1, <1>2
    <3> QED BY <1>1, <1>2, <1>3, <1>4, <2>1, <3>1, <3>2
  <2> QED BY <1>2, <2>2, <2>3
<1>5. q * Duration <= t
  BY <1>1, <1>2, <1>3
<1> QED BY <1>2, <1>3, <1>4, <1>5 DEF OnBoundary, q

\* What the invariants say of the one request, and of the operator's plan.
LEMMA AloneFacts ==
  ASSUME HasPreset, LimiterInv, OpInv, AloneInv, NEW p \in Requests
  PROVE  LET r == req[p] IN
         /\ TypeOK /\ r \in Request /\ ReqOK(r) /\ OpReq(r, plans) /\ ReqInv(r, ledger, plans, nextId)
         /\ AloneReq(r, Home[p])
         /\ OpPlan \in PlanIds /\ AmountSpent(OpPlan) \in Nat
         /\ r.signer \in Keys \cup {None} /\ r.signer \in Users \cup {None}
         /\ r.before \in Nat /\ r.seen \in Nat /\ r.cost \in Nat /\ r.ret \in Returns
         /\ now \in Nat /\ reset[Home[p]] \in Nat /\ opened \in Nat /\ settled \in Nat
         /\ Boundary \in Nat /\ Home[p] \in Relays
<1>1. TypeOK /\ ReqOK(req[p]) /\ OpReq(req[p], plans) /\ ReqInv(req[p], ledger, plans, nextId)
  BY DEF LimiterInv, TypeInv, OpInv
<1>2. req[p] \in Request /\ Home[p] \in Relays
  BY <1>1, ConstantTypes DEF ReqOK
<1>3. OpPlan \in PlanIds /\ AmountSpent(OpPlan) \in Nat
  BY <1>1, PresetFacts, ReadTypes DEF OpPlan
<1>4. /\ req[p].signer \in Users \cup {None} /\ req[p].before \in Nat /\ req[p].seen \in Nat
      /\ req[p].cost \in Nat /\ req[p].ret \in Returns
  BY <1>2 DEF Request
<1>5. now \in Nat /\ reset[Home[p]] \in Nat /\ opened \in Nat /\ settled \in Nat
  BY <1>1, <1>2 DEF TypeOK
<1>6. Boundary \in Nat
  BY <1>5, BoundaryType DEF Boundary
<1> QED BY <1>1, <1>2, <1>3, <1>4, <1>5, <1>6 DEF AloneInv, Keys

\* A request that reads or charges for the operator has its preconfigured plan.
LEMMA OperatorsPlan ==
  ASSUME HasPreset, LimiterInv, OpInv, AloneInv, NEW p \in Requests,
         req[p].ret \in ForOperator, req[p].pc \in Found
  PROVE  req[p].plan = OpPlan /\ req[p].pc \notin {"create", "save"}
<1>1. ReqOK(req[p]) /\ OpReq(req[p], plans)
  BY AloneFacts
<1>2. Operator \in plans[req[p].plan].owners /\ req[p].pc \notin {"create", "save"}
  BY <1>1 DEF OpReq, Looking
<1>3. req[p].plan \in PlanIds
  <2>1. req[p].pc \in WithPlan
    BY <1>2 DEF Found, ForOperator, Charging, WithPlan, Returns
  <2> QED BY <1>1, <2>1 DEF ReqOK
<1> QED BY <1>2, <1>3 DEF AloneInv, SoleOperatorPlan

\* A step that changes only the locals of the request.
LEMMA AloneLocal ==
  ASSUME OneAtATime, AloneInv, NEW p \in Requests, NEW t, Step(p, t), req \in [Requests -> Request],
         UNCHANGED <<now, reset, amount, plans, window>>,
         AloneReq(t, Home[p])
  PROVE  AloneInv'
<1>1. UNCHANGED <<now, reset, amount, plans, settled, opened, evicted>>
  BY DEF window
<1>2. \A q \in Requests : q = p /\ req'[q] = t
  BY DEF OneAtATime, Step
<1>3. AloneReq(req[p], Home[p])'
  BY <1>1, <1>2 DEF AloneReq, KeptOnPlan, ResetReq, BudgetReq, ChargeReq, Excused, Over, Boundary, InReset,
                    AmountSpent, Live
<1>4. SoleOperatorPlan' /\ OnBoundary(opened)' /\ (opened <= now)'
  BY <1>1 DEF AloneInv, SoleOperatorPlan
<1>5. \A q \in Requests : AloneReq(req[q], Home[q])'
  BY <1>2, <1>3
<1> QED BY <1>4, <1>5 DEF AloneInv

\* ... outside a reset: what is read and written is all that matters.
LEMMA AloneQuiet ==
  ASSUME NEW r, NEW t, NEW h, AloneReq(r, h), r.pc # "idle", ~InReset(r), ~InReset(t),
         BudgetReq(t), ChargeReq(t)
  PROVE  AloneReq(t, h)
<1>1. reset[h] > opened
  BY DEF AloneReq, ResetReq
<1>2. r.pc # "reset_delete"
  BY DEF InReset
<1> QED BY <1>1, <1>2 DEF AloneReq, KeptOnPlan, ResetReq

LEMMA AloneIdle ==
  ASSUME NEW r, NEW h, AloneReq(r, h), r.pc # "reset_delete"
  PROVE  AloneReq(IdleRequest, h)
<1>1. ~InReset(IdleRequest) /\ IdleRequest.pc = "idle" /\ IdleRequest.ret = "budget"
  BY DEF InReset, IdleRequest
<1> QED BY <1>1 DEF AloneReq, KeptOnPlan, ResetReq, BudgetReq, ChargeReq

LEMMA InitAloneInv == HasPreset /\ OperatorSeparate /\ Init => AloneInv
<1> SUFFICES ASSUME HasPreset, OperatorSeparate, Init PROVE AloneInv
  OBVIOUS
<1>1. SoleOperatorPlan
  <2> SUFFICES ASSUME NEW id \in PlanIds, Operator \in plans[id].owners PROVE id = OpPlan
    BY DEF SoleOperatorPlan
  <2>1. plans[id].owners = {k \in Keys : PresetLink[k] = id}
    BY DEF Init
  <2> QED BY <2>1 DEF OpPlan
<1>2. OpPlan \in PlanIds
  BY PresetFacts DEF OpPlan
<1>3. AmountSpent(OpPlan) = 0 /\ settled = 0
  BY <1>2 DEF Init, AmountSpent
<1>4. OnBoundary(opened) /\ opened <= now
  <2>1. OnBoundary(opened) /\ opened <= StartTime /\ opened \in Nat
    BY ConstantTypes, BoundaryFacts DEF Init
  <2> QED BY <2>1, LimiterConstants DEF Init
<1>5. ASSUME NEW p \in Requests PROVE AloneReq(req[p], Home[p])
  <2>1. req[p] = IdleRequest
    BY DEF Init
  <2>2. ~InReset(IdleRequest) /\ IdleRequest.pc = "idle" /\ IdleRequest.ret = "budget"
    BY DEF InReset, IdleRequest
  <2> QED BY <1>3, <2>1, <2>2 DEF AloneReq, KeptOnPlan, ResetReq, BudgetReq, ChargeReq
<1> QED BY <1>1, <1>4, <1>5 DEF AloneInv

\* Time passes: an amount that expires belongs to a window that is over.
LEMMA TickAlone ==
  ASSUME OneAtATime, HasPreset, LimiterInv, OpInv, AloneInv, Tick
  PROVE  AloneInv'
<1>1. /\ now' = now + ClockStep /\ now \in Nat /\ now' \in Nat /\ now <= now'
      /\ UNCHANGED <<reset, amount, plans, req, settled, opened, evicted>>
  BY ConstantTypes DEF Tick, cache, window, LimiterInv, TypeInv, TypeOK
<1>2. /\ opened \in Nat /\ settled \in Nat /\ OpPlan \in PlanIds /\ amount[OpPlan].val \in Nat
      /\ amount[OpPlan].exp \in Expiry
  BY PresetFacts DEF LimiterInv, TypeInv, TypeOK, OpPlan
<1>3. Boundary \in Nat /\ Boundary' \in Nat /\ Boundary <= Boundary'
  <2>1. Boundary \in Nat /\ OnBoundary(Boundary) /\ Boundary <= now
    BY <1>1, BoundaryFacts DEF Boundary
  <2>2. Boundary' \in Nat /\ \A c \in Nat : OnBoundary(c) /\ c <= now' => c <= Boundary'
    BY <1>1, BoundaryFacts DEF Boundary
  <2> QED BY <1>1, <2>1, <2>2
<1>4. (Over => Over') /\ (Excused => Excused')
  BY <1>1, <1>2, <1>3 DEF Excused, Over
<1>5. AmountSpent(OpPlan)' = AmountSpent(OpPlan) \/ AmountSpent(OpPlan)' = 0
  BY <1>1, <1>2 DEF AmountSpent, Live, Expiry, Never, Gone
<1>6. ASSUME NEW p \in Requests PROVE AloneReq(req[p], Home[p])'
  <2>1. KeptOnPlan(req[p]) /\ ResetReq(req[p], Home[p]) /\ BudgetReq(req[p]) /\ ChargeReq(req[p])
        /\ (Excused \/ settled <= AmountSpent(OpPlan))
    BY DEF AloneInv, AloneReq
  <2>2. Excused' \/ settled <= AmountSpent(OpPlan)'
    <3>1. CASE AmountSpent(OpPlan)' = AmountSpent(OpPlan)
      BY <1>4, <2>1, <3>1
    <3>2. CASE AmountSpent(OpPlan)' = 0 /\ AmountSpent(OpPlan) # 0 /\ settled # 0
      <4>1. amount[OpPlan].exp # Never /\ ~(now' <= amount[OpPlan].exp)
        BY <1>1, <3>2 DEF AmountSpent, Live
      <4>2. amount[OpPlan].exp >= opened + Duration
        BY <2>1, <3>2, <4>1 DEF KeptOnPlan, ResetReq, InReset
      <4>3. opened + Duration \in Nat /\ opened + Duration <= now' /\ opened < opened + Duration
        BY <1>1, <1>2, <4>1, <4>2, ConstantTypes DEF Expiry, Gone
      <4>4. OnBoundary(opened + Duration)
        <5>1. PICK k \in Nat : opened = k * Duration
          BY DEF AloneInv, OnBoundary
        <5>2. opened + Duration = (k + 1) * Duration /\ k + 1 \in Nat
          BY <5>1, ConstantTypes
        <5> QED BY <5>2 DEF OnBoundary
      <4>5. opened + Duration <= Boundary'
        BY <1>1, <4>3, <4>4, BoundaryFacts DEF Boundary
      <4> QED BY <1>1, <1>2, <1>3, <4>3, <4>5 DEF Excused, Over
    <3>3. CASE AmountSpent(OpPlan)' = 0 /\ settled = 0
      BY <3>3
    <3> QED BY <1>5, <3>1, <3>2, <3>3
  <2>3. KeptOnPlan(req[p])'
    BY <1>1, <1>5, <2>1 DEF KeptOnPlan
  <2>4. ResetReq(req[p], Home[p])'
    BY <1>1, <1>4, <2>1 DEF ResetReq, InReset
  <2>5. BudgetReq(req[p])'
    BY <1>1, <1>4, <2>1 DEF BudgetReq
  <2>6. ChargeReq(req[p])'
    BY <1>1, <1>4, <1>5, <2>1 DEF ChargeReq
  <2> QED BY <1>1, <2>2, <2>3, <2>4, <2>5, <2>6 DEF AloneReq
<1>7. SoleOperatorPlan' /\ OnBoundary(opened)' /\ (opened <= now)'
  BY <1>1, <1>2 DEF AloneInv, SoleOperatorPlan
<1> QED BY <1>6, <1>7 DEF AloneInv

\* The budget is read: the look-up of the operator's plan starts.
LEMMA ReadAlone ==
  ASSUME NEW t \in Request, settled \in Nat
  PROVE  LET u == LookUp([t EXCEPT !.before = settled], Operator, "budget") IN
         ~InReset(u) /\ BudgetReq(u) /\ ChargeReq(u) /\ u.pc = "link"
<1> DEFINE s == [t EXCEPT !.before = settled]
           u == LookUp(s, Operator, "budget")
<1>1. s \in Request /\ s.before = settled
  BY DEF Request
<1> HIDE DEF s
<1>2. Operator \in Keys /\ Operator # None /\ "budget" \in Returns
  BY LimiterConstants DEF Keys, Returns
<1>3. u.pc = "link" /\ u.ret = "budget" /\ u.before = settled
  BY <1>1, <1>2, LookUpFields
<1> HIDE DEF u
<1>4. ~InReset(u) /\ BudgetReq(u) /\ ChargeReq(u) /\ u.pc = "link"
  BY <1>3 DEF InReset, BudgetReq, ChargeReq
<1> QED BY <1>4 DEF u, s

\* A reset that is due opens a new window, or one in which nothing was booked.
LEMMA DueIsOver ==
  ASSUME HasPreset, LimiterInv, OpInv, AloneInv, ResetsOnBoundary, NEW p \in Requests,
         reset[Home[p]] > opened, ShouldResetLimiter(Home[p])
  PROVE  Over
<1>1. /\ now \in Nat /\ reset[Home[p]] \in Nat /\ opened \in Nat /\ Boundary \in Nat
      /\ Home[p] \in Relays
  BY AloneFacts
<1>2. OnBoundary(reset[Home[p]]) /\ reset[Home[p]] <= now
  BY <1>1 DEF ResetsOnBoundary, ShouldResetLimiter
<1>3. reset[Home[p]] <= Boundary
  BY <1>1, <1>2, BoundaryFacts DEF Boundary
<1> QED BY <1>1, <1>3 DEF Over

\* The write of an amount, for the operator's plan or for another.
LEMMA ChargeAlone ==
  ASSUME OneAtATime, HasPreset, LimiterInv, OpInv, AloneInv, NEW p \in Requests,
         ChargeSet(p) \/ ChargeIncr(p) \/ ChargeIncrSet(p)
  PROVE  AloneInv'
<1> DEFINE r == req[p]
<1>1. /\ TypeOK /\ r \in Request /\ ReqOK(r) /\ OpReq(r, plans)
      /\ AloneReq(r, Home[p])
      /\ OpPlan \in PlanIds /\ AmountSpent(OpPlan) \in Nat
      /\ r.before \in Nat /\ r.seen \in Nat /\ r.cost \in Nat
      /\ now \in Nat /\ opened \in Nat /\ settled \in Nat
      /\ Boundary \in Nat
  BY AloneFacts
<1>2. Charged(p) /\ r.pc \in Charging
  BY DEF ChargeSet, ChargeIncr, ChargeIncrSet, Charging
<1>3. r.ret \in {"charge_op", "charge_user"} /\ ~InReset(r) /\ reset[Home[p]] > opened
  BY <1>1, <1>2 DEF OpReq, InReset, Charging, AloneReq, ResetReq
<1>4. r.plan \in PlanIds /\ (r.ret = "charge_op" => r.plan = OpPlan)
  <2>1. r.plan \in PlanIds
    BY <1>1, <1>2 DEF ReqOK, WithPlan, Charging
  <2> QED BY <1>2, <1>3, <2>1, OperatorsPlan DEF ForOperator, Found
<1>5. /\ UNCHANGED <<now, reset, plans, opened>>
      /\ evicted' = evicted
      /\ settled' = IF r.ret = "charge_op" THEN settled + r.cost ELSE settled
      /\ Boundary' = Boundary
  BY <1>2 DEF Charged, Boundary
<1>6. PICK t : /\ Step(p, t) /\ ~InReset(t) /\ t.pc \in {"idle", "link"}
               /\ t.ret # "budget" \/ t.pc = "idle"
               /\ t.ret # "check" \/ t.pc = "idle"
  <2>1. IdleRequest.pc = "idle" /\ ~InReset(IdleRequest)
    BY DEF IdleRequest, InReset
  <2> DEFINE u == LookUp(r, Operator, "gauge")
  <2>2. u.pc = "link" /\ u.ret = "gauge"
    <3>1. Operator \in Keys /\ Operator # None /\ "gauge" \in Returns
      BY LimiterConstants DEF Keys, Returns
    <3> QED BY <1>1, <3>1, LookUpFields
  <2>3. Step(p, u) \/ Step(p, IdleRequest)
    BY <1>2 DEF Charged
  <2> HIDE DEF u
  <2>4. ~InReset(u)
    BY <2>2 DEF InReset
  <2> QED BY <2>1, <2>2, <2>3, <2>4
<1>7. /\ Excused \/ settled' <= AmountSpent(OpPlan)'
      /\ \/ AmountSpent(OpPlan)' = 0
         \/ amount'[OpPlan].exp = Never
         \/ amount'[OpPlan].exp >= opened + Duration
  <2>1. /\ Excused \/ settled <= AmountSpent(OpPlan)
        /\ \/ AmountSpent(OpPlan) = 0
           \/ amount[OpPlan].exp = Never
           \/ amount[OpPlan].exp >= opened + Duration
    BY <1>1, <1>3 DEF AloneReq, KeptOnPlan, InReset
  <2>2. CASE r.plan # OpPlan
    <3>1. amount'[OpPlan] = amount[OpPlan]
      BY <1>1, <2>2 DEF ChargeSet, ChargeIncr, ChargeIncrSet, TypeOK
    <3>2. AmountSpent(OpPlan)' = AmountSpent(OpPlan)
      BY <1>5, <3>1 DEF AmountSpent, Live
    <3> QED BY <1>4, <1>5, <2>1, <2>2, <3>1, <3>2
  <2>3. CASE r.plan = OpPlan /\ ChargeSet(p)
    <3>1. amount'[OpPlan].val = r.cost /\ amount'[OpPlan].exp = now + Duration
      BY <1>1, <2>3 DEF ChargeSet, TypeOK
    <3>2. AmountSpent(OpPlan)' = r.cost /\ opened <= now
      BY <1>1, <1>5, <3>1, ConstantTypes DEF AmountSpent, Live, AloneInv
    <3>3. AmountSpent(OpPlan) = 0
      BY <1>1, <2>3 DEF ChargeSet, AloneReq, ChargeReq
    <3> QED BY <1>1, <1>5, <2>1, <3>1, <3>2, <3>3, ConstantTypes
  <2>4. ASSUME NEW n \in Nat, r.plan = OpPlan,
               amount' = [amount EXCEPT ![r.plan] =
                            [val |-> n + r.cost,
                             exp |-> IF AmountSpent(r.plan) = 0 THEN Never ELSE @.exp]],
               Excused \/ settled <= n
        PROVE  /\ Excused \/ settled' <= AmountSpent(OpPlan)'
               /\ \/ amount'[OpPlan].exp = Never
                  \/ amount'[OpPlan].exp >= opened + Duration
    <3> DEFINE e == IF AmountSpent(r.plan) = 0 THEN Never ELSE amount[OpPlan].exp
    <3>1. amount'[OpPlan] = [val |-> n + r.cost, exp |-> e]
      BY <1>1, <2>4 DEF TypeOK
    <3>2. e = Never \/ (now <= e /\ e >= opened + Duration)
      <4>1. CASE AmountSpent(OpPlan) = 0
        BY <2>4, <4>1
      <4>2. CASE AmountSpent(OpPlan) # 0
        <5>1. e = amount[OpPlan].exp /\ Live(amount[OpPlan])
          BY <2>4, <4>2 DEF AmountSpent
        <5> QED BY <2>1, <4>2, <5>1 DEF Live
      <4> QED BY <4>1, <4>2
    <3> HIDE DEF e
    <3>3. amount'[OpPlan].val = n + r.cost /\ amount'[OpPlan].exp = e
      BY <3>1
    <3>4. AmountSpent(OpPlan)' = n + r.cost
      BY <1>5, <3>2, <3>3 DEF AmountSpent, Live
    <3> QED BY <1>1, <1>5, <2>4, <3>2, <3>3, <3>4
  <2>5. CASE r.plan = OpPlan /\ ChargeIncr(p)
    <3>1. AmountSpent(r.plan) \in Nat /\ (Excused \/ settled <= AmountSpent(r.plan))
      BY <1>1, <2>1, <2>5
    <3>2. amount' = [amount EXCEPT ![r.plan] =
                       [val |-> AmountSpent(r.plan) + r.cost,
                        exp |-> IF AmountSpent(r.plan) = 0 THEN Never ELSE @.exp]]
      BY <2>5 DEF ChargeIncr
    <3> QED BY <2>4, <2>5, <3>1, <3>2
  <2>6. CASE r.plan = OpPlan /\ ChargeIncrSet(p)
    <3>1. Excused \/ settled <= r.seen
      BY <1>1, <2>6 DEF ChargeIncrSet, AloneReq, ChargeReq
    <3>2. amount' = [amount EXCEPT ![r.plan] =
                       [val |-> r.seen + r.cost,
                        exp |-> IF AmountSpent(r.plan) = 0 THEN Never ELSE @.exp]]
      BY <2>6 DEF ChargeIncrSet
    <3> QED BY <1>1, <2>4, <2>6, <3>1, <3>2
  <2> QED BY <2>2, <2>3, <2>5, <2>6
<1>8. \A q \in Requests : q = p /\ req'[q] = t
  BY <1>1, <1>6 DEF OneAtATime, Step, TypeOK
<1>9. AloneReq(req[p], Home[p])'
  <2>1. Excused' <=> Excused
    BY <1>5 DEF Excused, Over
  <2>2. KeptOnPlan(req[p])'
    BY <1>5, <1>7 DEF KeptOnPlan
  <2>3. ResetReq(req[p], Home[p])' /\ BudgetReq(req[p])' /\ ChargeReq(req[p])'
    BY <1>3, <1>5, <1>6, <1>8 DEF ResetReq, BudgetReq, ChargeReq, InReset
  <2> QED BY <1>7, <2>1, <2>2, <2>3 DEF AloneReq
<1>10. SoleOperatorPlan' /\ OnBoundary(opened)' /\ (opened <= now)'
  BY <1>5 DEF AloneInv, SoleOperatorPlan
<1> QED BY <1>8, <1>9, <1>10 DEF AloneInv

\* A reset: the first one after a boundary opens a new window; what is on the
\* operator's plan is among the keys it takes and deletes.
LEMMA ResetAlone ==
  ASSUME OneAtATime, HasPreset, LimiterInv, OpInv, AloneInv, ~OnBoundary(now), ResetsOnBoundary,
         NEW p \in Requests, ResetKeys(p) \/ ResetDelete(p) \/ ResetGauge(p) \/ ResetDone(p)
  PROVE  AloneInv'
<1> DEFINE r == req[p]
<1>1. /\ TypeOK /\ r \in Request /\ AloneReq(r, Home[p])
      /\ OpPlan \in PlanIds /\ AmountSpent(OpPlan) \in Nat
      /\ now \in Nat /\ opened \in Nat /\ settled \in Nat /\ reset[Home[p]] \in Nat
      /\ Boundary \in Nat /\ Home[p] \in Relays
  BY AloneFacts
<1>2. ASSUME NEW t, \A q \in Requests : req'[q] = t, UNCHANGED <<now, plans>>, AloneReq(req[p], Home[p])',
             OnBoundary(opened)', (opened <= now)'
      PROVE  AloneInv'
  BY <1>2 DEF AloneInv, SoleOperatorPlan, OneAtATime
<1>3. CASE ResetKeys(p)
  <2> DEFINE keys == {id \in PlanIds : AmountSpent(id) > 0}
             t1 == [r EXCEPT !.pc = "reset_delete"]
             t == [t1 EXCEPT !.keys = keys]
  <2>1. t1 \in Request /\ t1.pc = "reset_delete"
    BY <1>1 DEF Request, Labels
  <2>2. t.pc = "reset_delete" /\ t.keys = keys
    <3> HIDE DEF t1, keys
    <3> QED BY <2>1 DEF Request
  <2>3. /\ UNCHANGED <<now, reset, amount, plans>>
        /\ \/ /\ opened < Boundary /\ opened' = Boundary /\ settled' = 0
              /\ req' = [q \in Requests |-> IF q = p THEN t ELSE [req[q] EXCEPT !.before = 0]]
           \/ ~(opened < Boundary) /\ Step(p, t) /\ UNCHANGED <<settled, opened, evicted>>
    BY <1>3 DEF ResetKeys, cache, window
  <2>4. AmountSpent(OpPlan) = 0 \/ OpPlan \in keys
    BY <1>1
  <2> HIDE DEF t, keys
  <2>5. \A q \in Requests : req'[q] = t
    BY <2>3, <1>1 DEF OneAtATime, Step, TypeOK
  <2>6. settled' = 0 /\ r.pc = "reset_keys"
    BY <1>3, <1>1, <2>3 DEF ResetKeys, AloneReq, ResetReq, InReset, Excused, Over
  <2>7. AmountSpent(OpPlan)' = AmountSpent(OpPlan) /\ opened' \in Nat
    BY <1>1, <2>3 DEF AmountSpent, Live
  <2>8. AloneReq(req[p], Home[p])'
    <3>1. (Excused \/ settled <= AmountSpent(OpPlan))' /\ KeptOnPlan(req[p])'
      BY <1>1, <2>2, <2>4, <2>5, <2>6, <2>7 DEF KeptOnPlan
    <3>2. ResetReq(req[p], Home[p])' /\ BudgetReq(req[p])' /\ ChargeReq(req[p])'
      BY <2>2, <2>5, <2>6 DEF ResetReq, BudgetReq, ChargeReq, InReset
    <3> QED BY <3>1, <3>2 DEF AloneReq
  <2>9. OnBoundary(opened)' /\ (opened <= now)'
    <3>1. OnBoundary(Boundary) /\ Boundary <= now
      BY <1>1, BoundaryFacts DEF Boundary
    <3> QED BY <2>3, <3>1 DEF AloneInv
  <2> QED BY <1>2, <2>3, <2>5, <2>8, <2>9
<1>4. CASE ResetDelete(p)
  <2>1. PICK id \in r.keys : /\ amount' = [amount EXCEPT ![id] = [val |-> 0, exp |-> Never]]
                             /\ Step(p, [r EXCEPT !.keys = @ \ {id}])
    BY <1>4 DEF ResetDelete
  <2> DEFINE t == [r EXCEPT !.keys = @ \ {id}]
  <2>2. r.pc = "reset_delete" /\ UNCHANGED <<now, reset, plans, settled, opened, evicted>>
    BY <1>4 DEF ResetDelete, window
  <2>3. t.pc = "reset_delete" /\ t.keys = r.keys \ {id}
    BY <1>1, <2>2 DEF Request
  <2>4. Step(p, t)
    BY <2>1
  <2> HIDE DEF t
  <2>5. \A q \in Requests : req'[q] = t
    BY <2>4, <1>1 DEF OneAtATime, Step, TypeOK
  <2>6. settled = 0 /\ KeptOnPlan(r)
    BY <1>1, <2>2 DEF AloneReq, ResetReq, InReset
  <2>7. /\ AmountSpent(OpPlan)' \in Nat
        /\ \/ AmountSpent(OpPlan)' = 0
           \/ amount'[OpPlan] = amount[OpPlan] /\ AmountSpent(OpPlan)' = AmountSpent(OpPlan) /\ id # OpPlan
    <3>1. CASE id = OpPlan
      <4>1. amount'[OpPlan].val = 0
        BY <1>1, <2>1, <3>1 DEF TypeOK
      <4> QED BY <4>1 DEF AmountSpent
    <3>2. CASE id # OpPlan
      <4>1. amount'[OpPlan] = amount[OpPlan]
        BY <1>1, <2>1, <3>2 DEF TypeOK
      <4> QED BY <1>1, <2>2, <3>2, <4>1 DEF AmountSpent, Live
    <3> QED BY <3>1, <3>2
  <2>8. AloneReq(req[p], Home[p])'
    <3>1. (Excused \/ settled <= AmountSpent(OpPlan))' /\ KeptOnPlan(req[p])'
      BY <2>2, <2>3, <2>5, <2>6, <2>7 DEF KeptOnPlan
    <3>2. ResetReq(req[p], Home[p])' /\ BudgetReq(req[p])' /\ ChargeReq(req[p])'
      BY <2>2, <2>3, <2>5, <2>6 DEF ResetReq, BudgetReq, ChargeReq, InReset
    <3> QED BY <3>1, <3>2 DEF AloneReq
  <2> QED BY <1>2, <2>2, <2>5, <2>8 DEF AloneInv
<1>5. CASE ResetGauge(p)
  <2> DEFINE t == LookUp(r, Operator, "reset_done")
  <2>1. /\ r.pc = "reset_delete" /\ r.keys = {} /\ Step(p, t)
        /\ UNCHANGED <<now, reset, amount, plans, window>>
    BY <1>5 DEF ResetGauge, cache
  <2>2. t.pc = "link" /\ t.ret = "reset_done"
    <3>1. Operator \in Keys /\ Operator # None /\ "reset_done" \in Returns
      BY LimiterConstants DEF Keys, Returns
    <3> QED BY <1>1, <3>1, LookUpFields
  <2> HIDE DEF t
  <2>3. settled = 0
    BY <1>1, <2>1 DEF AloneReq, ResetReq, InReset
  <2>4. AloneReq(t, Home[p])
    <3>1. KeptOnPlan(t) /\ (Excused \/ settled <= AmountSpent(OpPlan))
      BY <1>1, <2>1 DEF AloneReq, KeptOnPlan
    <3>2. ResetReq(t, Home[p]) /\ BudgetReq(t) /\ ChargeReq(t)
      BY <2>2, <2>3 DEF ResetReq, BudgetReq, ChargeReq, InReset
    <3> QED BY <3>1, <3>2 DEF AloneReq
  <2> QED BY <1>1, <2>1, <2>4, AloneLocal DEF TypeOK
<1>6. CASE ResetDone(p)
  <2> DEFINE t == LookUp([r EXCEPT !.before = settled], Operator, "budget")
  <2>1. /\ r.pc = "reset_done" /\ UNCHANGED <<now, amount, plans, settled, opened, evicted>> /\ Step(p, t)
        /\ reset'[Home[p]] = GetResetTimestamp(reset[Home[p]], now)
    BY <1>1, <1>6 DEF ResetDone, ReadBudget, cache, window, TypeOK
  <2>2. ~InReset(t) /\ BudgetReq(t) /\ ChargeReq(t) /\ t.pc = "link"
    BY <1>1, ReadAlone
  <2> HIDE DEF t
  <2>3. reset'[Home[p]] > opened
    <3>1. OnBoundary(reset[Home[p]])
      BY <1>1 DEF ResetsOnBoundary
    <3>2. /\ GetResetTimestamp(reset[Home[p]], now) \in Nat
          /\ OnBoundary(GetResetTimestamp(reset[Home[p]], now))
      BY <1>1, <3>1, ResetTimestampType, ResetTimestampMoves
    <3>3. GetResetTimestamp(reset[Home[p]], now) >= now
      BY <1>1, <3>1, <3>2, ResetTimestampMoves
    <3>4. GetResetTimestamp(reset[Home[p]], now) # now
      BY <3>2
    <3>5. opened <= now
      BY DEF AloneInv
    <3> QED BY <1>1, <2>1, <3>2, <3>3, <3>4, <3>5
  <2>4. \A q \in Requests : req'[q] = t
    BY <2>1, <1>1 DEF OneAtATime, Step, TypeOK
  <2>5. KeptOnPlan(r) /\ (Excused \/ settled <= AmountSpent(OpPlan))
    BY <1>1 DEF AloneReq
  <2>6. AloneReq(req[p], Home[p])'
    <3>1. KeptOnPlan(req[p])' /\ (Excused \/ settled <= AmountSpent(OpPlan))'
      BY <2>1, <2>2, <2>4, <2>5 DEF KeptOnPlan, Excused, Over, Boundary, AmountSpent, Live
    <3>2. ResetReq(req[p], Home[p])'
      BY <2>1, <2>2, <2>3, <2>4 DEF ResetReq, InReset
    <3>3. BudgetReq(req[p])' /\ ChargeReq(req[p])'
      BY <2>1, <2>2, <2>4 DEF BudgetReq, ChargeReq, Excused, Over, Boundary, AmountSpent, Live
    <3> QED BY <3>1, <3>2, <3>3 DEF AloneReq
  <2> QED BY <1>2, <2>1, <2>4, <2>6 DEF AloneInv
<1> QED BY <1>3, <1>4, <1>5, <1>6

\* An eviction that spares the operator's plan and link: what is on the plan stays, or the loss
\* is marked until the window is over.
LEMMA EvictAlone ==
  ASSUME OneAtATime, HasPreset, LimiterInv, OpInv, AloneInv, Evict, "plan" \notin evicted'
  PROVE  AloneInv'
<1>1. TypeOK /\ OpPlan \in PlanIds /\ amount[OpPlan].val \in Nat
  BY PresetFacts DEF LimiterInv, TypeInv, TypeOK, OpPlan
<1>2. /\ UNCHANGED <<now, reset, req, settled, opened>>
      /\ \A id \in PlanIds : plans'[id].owners = plans[id].owners
      /\ amount'[OpPlan] = amount[OpPlan] \/ amount'[OpPlan].val = 0
      /\ evicted \subseteq evicted'
      /\ "amount" \notin evicted' => \A id \in PlanIds : IsOperators(id) => amount'[id] = amount[id]
  BY <1>1, EvictFacts
<1>3. IsOperators(OpPlan)
  <2>1. link[Operator].plan = OpPlan /\ Operator \in Keys
    BY DEF OpInv, PresetStays, OpPlan, Keys
  <2> QED BY <2>1, PresetFacts DEF LimiterInv, LinkInv, IsOperators, OpPlan
<1>4. /\ AmountSpent(OpPlan)' = AmountSpent(OpPlan) \/ AmountSpent(OpPlan)' = 0
      /\ amount'[OpPlan] # amount[OpPlan] => AmountSpent(OpPlan)' = 0 /\ Excused'
      /\ Over' <=> Over
      /\ Excused => Excused'
  BY <1>1, <1>2, <1>3 DEF AmountSpent, Live, Excused, Over, Boundary
<1>5. ASSUME NEW p \in Requests PROVE AloneReq(req[p], Home[p])'
  <2>1. KeptOnPlan(req[p]) /\ ResetReq(req[p], Home[p]) /\ BudgetReq(req[p]) /\ ChargeReq(req[p])
        /\ (Excused \/ settled <= AmountSpent(OpPlan))
    BY DEF AloneInv, AloneReq
  <2>2. Excused' \/ settled' <= AmountSpent(OpPlan)'
    <3>1. CASE amount'[OpPlan] = amount[OpPlan]
      <4>1. AmountSpent(OpPlan)' = AmountSpent(OpPlan)
        BY <1>2, <3>1 DEF AmountSpent, Live
      <4> QED BY <1>2, <1>4, <2>1, <4>1
    <3>2. CASE amount'[OpPlan] # amount[OpPlan]
      BY <1>4, <3>2
    <3> QED BY <3>1, <3>2
  <2>3. KeptOnPlan(req[p])'
    <3>1. CASE amount'[OpPlan] = amount[OpPlan]
      <4>1. AmountSpent(OpPlan)' = AmountSpent(OpPlan)
        BY <1>2, <3>1 DEF AmountSpent, Live
      <4> QED BY <1>2, <2>1, <3>1, <4>1 DEF KeptOnPlan
    <3>2. CASE amount'[OpPlan] # amount[OpPlan]
      BY <1>4, <3>2 DEF KeptOnPlan
    <3> QED BY <3>1, <3>2
  <2>4. ResetReq(req[p], Home[p])'
    BY <1>2, <1>4, <2>1 DEF ResetReq, InReset
  <2>5. BudgetReq(req[p])'
    BY <1>2, <1>4, <2>1 DEF BudgetReq
  <2>6. ChargeReq(req[p])'
    BY <1>2, <1>4, <2>1 DEF ChargeReq
  <2> QED BY <1>2, <2>2, <2>3, <2>4, <2>5, <2>6 DEF AloneReq
<1>6. SoleOperatorPlan' /\ OnBoundary(opened)' /\ (opened <= now)'
  BY <1>2 DEF AloneInv, SoleOperatorPlan
<1> QED BY <1>5, <1>6 DEF AloneInv

LEMMA NextAloneInv ==
  ASSUME OneAtATime, HasPreset, OperatorSeparate, LimiterInv, OpInv, AloneInv, ~OnBoundary(now),
         ResetsOnBoundary, [Next]_vars, "plan" \notin evicted'
  PROVE  AloneInv'
<1>1. CASE UNCHANGED vars
  BY <1>1 DEF vars, AloneInv, SoleOperatorPlan, AloneReq, KeptOnPlan, ResetReq, BudgetReq, ChargeReq,
              Excused, Over, Boundary, InReset, AmountSpent, Live
<1>2. ASSUME NEW p \in Requests, Start(p) \/ Progress(p) PROVE AloneInv'
  <2> DEFINE r == req[p]
  <2>1. /\ TypeOK /\ r \in Request /\ ReqOK(r) /\ OpReq(r, plans) /\ ReqInv(r, ledger, plans, nextId)
        /\ AloneReq(r, Home[p])
        /\ OpPlan \in PlanIds /\ AmountSpent(OpPlan) \in Nat
        /\ r.signer \in Keys \cup {None} /\ r.signer \in Users \cup {None}
        /\ r.before \in Nat /\ r.seen \in Nat /\ r.cost \in Nat /\ r.ret \in Returns
        /\ now \in Nat /\ reset[Home[p]] \in Nat /\ opened \in Nat /\ settled \in Nat
        /\ Boundary \in Nat /\ Home[p] \in Relays
    BY AloneFacts
  <2>n. /\ req \in [Requests -> Request] /\ Limit["OPERATOR"] \in Nat
        /\ Operator \in Keys /\ Operator # None
    BY <2>1, LimiterConstants DEF TypeOK, Keys, Tiers
  <2> USE DEF Returns
  <2>idle. ASSUME Step(p, IdleRequest), r.pc # "reset_delete",
                  UNCHANGED <<now, reset, amount, plans, window>>
           PROVE  AloneInv'
    BY <2>1, <2>n, <2>idle, AloneIdle, AloneLocal
  <2>quiet. ASSUME NEW t, Step(p, t), r.pc # "idle", ~InReset(r), ~InReset(t), BudgetReq(t), ChargeReq(t),
                   UNCHANGED <<now, reset, amount, plans, window>>
            PROVE  AloneInv'
    BY <2>1, <2>n, <2>quiet, AloneQuiet, AloneLocal
  <2>look. ASSUME NEW t \in Request, NEW who \in Keys \cup {None},
                  NEW ret \in {"check", "charge_op", "gauge", "charge_user"},
                  ret = "check" => Excused \/ t.before < Limit["OPERATOR"],
                  r.pc # "idle", ~InReset(r),
                  Step(p, LookUp(t, who, ret)), UNCHANGED <<now, reset, amount, plans, window>>
           PROVE  AloneInv'
    <3> DEFINE u == LookUp(t, who, ret)
    <3>1. CASE u = IdleRequest
      BY <2>idle, <2>look, <3>1 DEF InReset
    <3>2. CASE u.pc = "link" /\ u.ret = ret /\ u.before = t.before
      <4>1. Step(p, u)
        BY <2>look
      <4> HIDE DEF u
      <4>2. ~InReset(u) /\ BudgetReq(u) /\ ChargeReq(u)
        BY <2>look, <3>2 DEF InReset, BudgetReq, ChargeReq
      <4> QED BY <2>look, <2>quiet, <4>1, <4>2
    <3>3. u = IdleRequest \/ (u.pc = "link" /\ u.ret = ret /\ u.before = t.before)
      <4>1. t \in Request /\ who \in Keys \cup {None} /\ ret \in Returns
        BY <2>look
      <4> HIDE DEF Returns
      <4> QED BY <4>1, LookUpFields
    <3> QED BY <3>1, <3>2, <3>3
  <2>start. CASE Start(p)
    <3>1. PICK s \in Users \cup {None}, i \in Ips \cup {None}, e \in Estimates :
            LET t == [IdleRequest EXCEPT !.signer = s, !.ip = i, !.est = e] IN
            IF ShouldResetLimiter(Home[p])
            THEN Step(p, [t EXCEPT !.pc = "reset_keys"])
            ELSE ReadBudget(p, t)
      BY <2>start DEF Start
    <3> DEFINE t == [IdleRequest EXCEPT !.signer = s, !.ip = i, !.est = e]
    <3>2. t \in Request /\ t.ret = "budget"
      <4> DEFINE t1 == [IdleRequest EXCEPT !.signer = s, !.ip = i]
      <4>1. t1 \in Request /\ t1.ret = "budget"
        BY IdleType DEF Request, IdleRequest
      <4> HIDE DEF t1
      <4>2. [t1 EXCEPT !.est = e] \in Request /\ [t1 EXCEPT !.est = e].ret = "budget"
        BY <4>1, ConstantTypes DEF Request
      <4> QED BY <4>2 DEF t1
    <3>3. IF ShouldResetLimiter(Home[p]) THEN Step(p, [t EXCEPT !.pc = "reset_keys"])
          ELSE ReadBudget(p, t)
      BY <3>1
    <3>4. r.pc = "idle" /\ UNCHANGED <<now, reset, amount, plans, window>>
      BY <2>start DEF Start, cache
    <3> HIDE DEF t
    <3>5. /\ KeptOnPlan(r) /\ (Excused \/ settled <= AmountSpent(OpPlan))
          /\ reset[Home[p]] > opened \/ settled = 0
      BY <2>1 DEF AloneReq, ResetReq
    <3>6. CASE ShouldResetLimiter(Home[p])
      <4> DEFINE u == [t EXCEPT !.pc = "reset_keys"]
      <4>1. u.pc = "reset_keys" /\ Step(p, u)
        BY <3>2, <3>3, <3>6 DEF Request
      <4> HIDE DEF u
      <4>2. settled = 0 \/ Over
        BY <3>5, <3>6, DueIsOver
      <4>3. AloneReq(u, Home[p])
        BY <3>4, <3>5, <4>1, <4>2 DEF AloneReq, KeptOnPlan, ResetReq, BudgetReq, ChargeReq, InReset
      <4> QED BY <2>n, <3>4, <4>1, <4>3, AloneLocal
    <3>7. CASE ~ShouldResetLimiter(Home[p])
      <4> DEFINE u == LookUp([t EXCEPT !.before = settled], Operator, "budget")
      <4>1. Step(p, u)
        BY <3>3, <3>7 DEF ReadBudget
      <4>2. ~InReset(u) /\ BudgetReq(u) /\ ChargeReq(u) /\ u.pc = "link"
        BY <2>1, <3>2, ReadAlone
      <4> HIDE DEF u
      <4>3. reset[Home[p]] > opened
        BY <2>1, <3>7 DEF ShouldResetLimiter, AloneInv
      <4>4. AloneReq(u, Home[p])
        BY <3>4, <3>5, <4>2, <4>3 DEF AloneReq, KeptOnPlan, ResetReq
      <4> QED BY <2>n, <3>4, <4>1, <4>4, AloneLocal
    <3> QED BY <3>6, <3>7
  <2>reset. CASE ResetKeys(p) \/ ResetDelete(p) \/ ResetGauge(p) \/ ResetDone(p)
    BY <2>reset, ResetAlone
  \* a look-up goes on: it stays in or out of a reset
  <2>on. ASSUME NEW t, r.pc \in {"link", "plan", "spent", "create", "save"},
                t.pc \in {"link", "plan", "spent", "create", "save", r.ret}, t.ret = r.ret,
                BudgetReq(t)
         PROVE  AloneReq(t, Home[p])
    <3>1. InReset(t) <=> InReset(r)
      BY <2>1, <2>on DEF InReset
    <3>2. ChargeReq(t)
      BY <2>1, <2>on DEF ChargeReq
    <3>3. ResetReq(t, Home[p])
      BY <2>1, <2>on, <3>1 DEF AloneReq, ResetReq, InReset
    <3> QED BY <2>1, <2>on, <3>2, <3>3 DEF AloneReq, KeptOnPlan
  <2>lost. ASSUME r.pc \in {"link", "plan"}, Step(p, NotFound(r)), r.ret \notin ForOperator,
                  UNCHANGED <<now, reset, amount, plans, window>>
           PROVE  AloneInv'
    <3> DEFINE u == NotFound(r)
    <3>1. CASE u = IdleRequest
      BY <2>idle, <2>lost, <3>1
    <3>2. CASE u.pc \in {"link", "create"} /\ u.ret = r.ret /\ u.before = r.before
      <4>1. Step(p, u)
        BY <2>lost
      <4> HIDE DEF u
      <4>2. BudgetReq(u)
        BY <2>1, <2>lost, <3>2 DEF AloneReq, BudgetReq, ForOperator
      <4> QED BY <2>1, <2>n, <2>lost, <2>on, <3>2, <4>1, <4>2, AloneLocal
    <3> QED BY <2>1, <3>1, <3>2, NotFoundFields
  <2>flink. CASE FindLink(p)
    <3> DEFINE k == Key(r)
               t == [r EXCEPT !.pc = "plan", !.plan = LinkOf(k)]
    <3>1. r.pc = "link" /\ UNCHANGED <<now, reset, amount, plans, window>>
      BY <2>flink DEF FindLink, cache
    <3>2. r.ret \in ForOperator => LinkOf(k) # NoPlan
      <4>1. r.ret \in ForOperator => k = Operator
        BY <2>1, <3>1 DEF OpReq, Looking, Key
      <4> QED BY <2>n, <4>1, PresetFacts DEF OpInv, PresetStays, LinkOf, Live
    <3>3. CASE LinkOf(k) = NoPlan
      BY <2>flink, <2>lost, <3>1, <3>2, <3>3 DEF FindLink
    <3>4. CASE LinkOf(k) # NoPlan
      <4>1. t.pc = "plan" /\ t.ret = r.ret /\ t.before = r.before
        BY <2>1 DEF Request
      <4>2. Step(p, t)
        BY <2>flink, <3>4 DEF FindLink
      <4> HIDE DEF t, k
      <4>3. BudgetReq(t)
        BY <2>1, <3>1, <4>1 DEF AloneReq, BudgetReq
      <4> QED BY <2>n, <2>on, <3>1, <4>1, <4>2, <4>3, AloneLocal
    <3> QED BY <3>3, <3>4
  <2>fplan. CASE FindPlan(p)
    <3> DEFINE t == [r EXCEPT !.pc = "spent"]
    <3>1. r.pc = "plan" /\ UNCHANGED <<now, reset, amount, plans, window>>
      BY <2>fplan DEF FindPlan, cache
    <3>2. r.ret \in ForOperator => PlanExists(r.plan)
      <4> SUFFICES ASSUME r.ret \in ForOperator PROVE PlanExists(r.plan)
        OBVIOUS
      <4>1. r.plan = OpPlan
        BY <3>1, OperatorsPlan DEF Found
      <4>2. OpPlan \in 1..NumPresets /\ nextId > NumPresets /\ nextId \in Nat
        BY <2>1, PresetFacts, ConstantTypes DEF OpPlan, OpInv, TypeOK
      <4>3. Live(plans[OpPlan])
        BY DEF OpInv, PresetStays, Live, OpPlan
      <4> QED BY <2>1, <4>1, <4>2, <4>3, ConstantTypes DEF PlanExists
    <3>3. CASE ~PlanExists(r.plan)
      BY <2>fplan, <2>lost, <3>1, <3>2, <3>3 DEF FindPlan
    <3>4. CASE PlanExists(r.plan)
      <4>1. t.pc = "spent" /\ t.ret = r.ret /\ t.before = r.before
        BY <2>1 DEF Request
      <4>2. Step(p, t)
        BY <2>fplan, <3>4 DEF FindPlan
      <4> HIDE DEF t
      <4>3. BudgetReq(t)
        BY <2>1, <3>1, <4>1 DEF AloneReq, BudgetReq
      <4> QED BY <2>n, <2>on, <3>1, <4>1, <4>2, <4>3, AloneLocal
    <3> QED BY <3>3, <3>4
  <2>famt. CASE FindAmount(p)
    <3> DEFINE t == [r EXCEPT !.pc = r.ret, !.seen = AmountSpent(r.plan)]
    <3>1. /\ t.pc = r.ret /\ t.ret = r.ret /\ t.before = r.before
          /\ t.seen = AmountSpent(r.plan)
      BY <2>1 DEF Request
    <3>2. r.pc = "spent" /\ Step(p, t) /\ UNCHANGED <<now, reset, amount, plans, window>>
      BY <2>famt DEF FindAmount, cache
    <3> HIDE DEF t
    <3>3. r.ret = "budget" => r.plan = OpPlan
      BY <3>2, OperatorsPlan DEF Found, ForOperator
    <3>4. BudgetReq(t)
      BY <2>1, <3>1, <3>2, <3>3 DEF AloneReq, BudgetReq
    <3> QED BY <2>n, <2>on, <3>1, <3>2, <3>4, AloneLocal
  <2>create. CASE CreatePlan(p)
    <3> DEFINE t1 == [r EXCEPT !.pc = "save", !.plan = nextId]
               t == [t1 EXCEPT !.seen = 0]
    <3>1. r.pc = "create" /\ UNCHANGED <<now, reset, amount, settled, opened, evicted>> /\ Step(p, t)
      <4>1. Step(p, [r EXCEPT !.pc = "save", !.plan = nextId, !.seen = 0])
        BY <2>create DEF CreatePlan
      <4>2. r.pc = "create" /\ UNCHANGED <<now, reset, amount, settled, opened, evicted>>
        BY <2>create DEF CreatePlan, window
      <4> QED BY <4>1, <4>2
    <3>2. t1 \in Request /\ t1.pc = "save" /\ t1.ret = r.ret /\ t1.before = r.before
      <4>1. nextId \in PlanIds
        BY <2>1, <2>create, ConstantTypes DEF CreatePlan, PlanIds, TypeOK
      <4> QED BY <2>1, <4>1 DEF Request, Labels
    <3> HIDE DEF t1
    <3>3. t.pc = "save" /\ t.ret = r.ret /\ t.before = r.before
      BY <3>2 DEF Request
    <3> HIDE DEF t
    <3>4. r.who # Operator
      <4>1. r.ret \in {"check", "charge_user"}
        BY <2>1, <3>1 DEF OpReq, Looking, ForOperator
      <4>2. r.who = r.signer /\ r.who \in Keys
        BY <2>1, <3>1, <4>1 DEF ReqInv, ReqOK
      <4> QED BY <2>1, <4>2, LimiterConstants DEF OperatorSeparate
    <3>5. SoleOperatorPlan'
      <4>1. plans'[nextId].owners = {r.who} /\ \A id \in PlanIds : id # nextId => plans'[id] = plans[id]
        <5>1. nextId \in PlanIds
          BY <2>1, <2>create, ConstantTypes DEF CreatePlan, PlanIds, TypeOK
        <5> QED BY <2>1, <2>create, <5>1 DEF CreatePlan, TypeOK
      <4> QED BY <3>4, <4>1 DEF AloneInv, SoleOperatorPlan
    <3>6. BudgetReq(t)
      BY <2>1, <3>1, <3>3 DEF AloneReq, BudgetReq
    <3>7. AloneReq(t, Home[p])
      BY <2>on, <3>1, <3>3, <3>6
    <3>8. \A q \in Requests : q = p /\ req'[q] = t
      BY <2>n, <3>1 DEF OneAtATime, Step
    <3>9. AloneReq(req[p], Home[p])'
      BY <3>1, <3>7, <3>8 DEF AloneReq, KeptOnPlan, ResetReq, BudgetReq, ChargeReq, Excused, Over, Boundary,
                              InReset, AmountSpent, Live
    <3> QED BY <3>1, <3>5, <3>8, <3>9 DEF AloneInv
  <2>save. CASE SaveLink(p)
    <3> DEFINE t == [r EXCEPT !.pc = r.ret]
    <3>1. t.pc = r.ret /\ t.ret = r.ret /\ t.before = r.before
      BY <2>1 DEF Request
    <3>2. r.pc = "save" /\ Step(p, t) /\ UNCHANGED <<now, reset, amount, plans, window>>
      BY <2>save DEF SaveLink
    <3> HIDE DEF t
    <3>3. r.ret \notin ForOperator
      BY <2>1, <3>2 DEF OpReq, Looking, Found
    <3>4. BudgetReq(t)
      BY <2>1, <3>1, <3>2, <3>3 DEF AloneReq, BudgetReq, ForOperator
    <3> QED BY <2>n, <2>on, <3>1, <3>2, <3>4, AloneLocal
  \* elsewhere the label changes, and what was read
  <2>goto. ASSUME NEW l \in {"limited_total", "limited_plan", "execute"} \cup Charging, NEW n \in Nat,
                  Step(p, [r EXCEPT !.pc = l, !.seen = n]), r.pc # "idle", ~InReset(r),
                  l = "execute" => Excused \/ r.before < Limit["OPERATOR"],
                  l = "charge_set" => AmountSpent(r.plan) = 0,
                  l = "charge_incr_set" => n = AmountSpent(r.plan),
                  UNCHANGED <<now, reset, amount, plans, window>>
           PROVE  AloneInv'
    <3> DEFINE t == [r EXCEPT !.pc = l, !.seen = n]
    <3>1. t.pc = l /\ t.plan = r.plan /\ t.ret = r.ret /\ t.before = r.before /\ t.seen = n
      BY <2>1 DEF Request
    <3>2. Step(p, t)
      BY <2>goto
    <3> HIDE DEF t
    <3>3. ~InReset(t) /\ BudgetReq(t)
      BY <2>goto, <3>1 DEF InReset, BudgetReq, Charging
    <3>4. ChargeReq(t)
      BY <2>1, <2>goto, <3>1 DEF ChargeReq, AloneReq
    <3> QED BY <2>goto, <2>quiet, <3>2, <3>3, <3>4
  <2>move. ASSUME NEW l \in {"limited_total", "limited_plan", "execute", "charge_set", "charge_incr"},
                  Step(p, [r EXCEPT !.pc = l]), r.pc # "idle", ~InReset(r),
                  l = "execute" => Excused \/ r.before < Limit["OPERATOR"],
                  l = "charge_set" => AmountSpent(r.plan) = 0,
                  UNCHANGED <<now, reset, amount, plans, window>>
           PROVE  AloneInv'
    <3>1. [r EXCEPT !.pc = l] = [r EXCEPT !.pc = l, !.seen = r.seen]
      BY <2>1 DEF Request
    <3>2. Step(p, [r EXCEPT !.pc = l, !.seen = r.seen])
      BY <2>move, <3>1
    <3> QED BY <2>1, <2>goto, <2>move, <3>2 DEF Charging
  <2>budget. CASE CheckBudget(p)
    <3>1. r.pc = "budget" /\ UNCHANGED <<now, reset, amount, plans, window>>
      BY <2>budget DEF CheckBudget, cache
    <3>2. r.ret = "budget" /\ ~InReset(r)
      BY <2>1, <3>1 DEF OpReq, InReset
    <3>3. r.est \in Nat /\ (Excused \/ r.before <= r.seen)
      BY <2>1, <3>1 DEF Request, AloneReq, BudgetReq
    <3>4. ~Exceeds(Limit["OPERATOR"], r.seen, r.est) => Excused \/ r.before < Limit["OPERATOR"]
      BY <2>1, <2>n, <3>3 DEF Exceeds
    <3>5. \/ Step(p, [r EXCEPT !.pc = "limited_total"])
          \/ /\ Excused \/ r.before < Limit["OPERATOR"]
             /\ Step(p, [r EXCEPT !.pc = "execute"]) \/ Step(p, LookUp(r, r.signer, "check"))
      BY <2>budget, <3>4 DEF CheckBudget
    <3>6. Step(p, [r EXCEPT !.pc = "limited_total"]) => AloneInv'
      BY <2>move, <3>1, <3>2
    <3>7. (Excused \/ r.before < Limit["OPERATOR"]) /\ Step(p, [r EXCEPT !.pc = "execute"]) => AloneInv'
      BY <2>move, <3>1, <3>2
    <3>8. (Excused \/ r.before < Limit["OPERATOR"]) /\ Step(p, LookUp(r, r.signer, "check")) => AloneInv'
      BY <2>1, <2>look, <3>1, <3>2
    <3> QED BY <3>5, <3>6, <3>7, <3>8
  <2>check. CASE CheckPlan(p)
    <3>1. r.pc = "check" /\ UNCHANGED <<now, reset, amount, plans, window>>
      BY <2>check DEF CheckPlan, cache
    <3>2. ~InReset(r) /\ (Excused \/ r.before < Limit["OPERATOR"])
      BY <2>1, <3>1 DEF AloneReq, BudgetReq, InReset
    <3>3. \/ Step(p, [r EXCEPT !.pc = "limited_plan"])
          \/ Step(p, [r EXCEPT !.pc = "execute"])
      BY <2>check DEF CheckPlan
    <3>4. Step(p, [r EXCEPT !.pc = "limited_plan"]) => AloneInv'
      BY <2>move, <3>1, <3>2
    <3>5. Step(p, [r EXCEPT !.pc = "execute"]) => AloneInv'
      BY <2>move, <3>1, <3>2
    <3> QED BY <3>3, <3>4, <3>5
  <2>cex. CASE ChargeExists(p)
    <3>1. r.pc \in {"charge_op", "charge_user"} /\ UNCHANGED <<now, reset, amount, plans, window>>
      BY <2>cex DEF ChargeExists, cache
    <3>2. r.ret = r.pc /\ ~InReset(r)
      BY <2>1, <3>1 DEF OpReq, InReset
    <3>3. Step(p, [r EXCEPT !.pc = "charge_read", !.seen = 0]) \/ Step(p, IdleRequest)
      BY <2>cex DEF ChargeExists
    <3>4. Step(p, [r EXCEPT !.pc = "charge_read", !.seen = 0]) => AloneInv'
      BY <2>goto, <3>1, <3>2 DEF Charging
    <3>5. Step(p, IdleRequest) => AloneInv'
      BY <2>idle, <3>1
    <3> QED BY <3>3, <3>4, <3>5
  <2>cread. CASE ChargeRead(p)
    <3>1. r.pc = "charge_read" /\ UNCHANGED <<now, reset, amount, plans, window>>
      BY <2>cread DEF ChargeRead, cache
    <3>2. r.ret \in {"charge_op", "charge_user"} /\ ~InReset(r)
      BY <2>1, <3>1 DEF OpReq, InReset, Charging
    <3>3. \/ AmountSpent(r.plan) = 0 /\ Step(p, [r EXCEPT !.pc = "charge_set"])
          \/ Step(p, [r EXCEPT !.pc = "charge_incr"])
      BY <2>cread DEF ChargeRead
    <3>4. AmountSpent(r.plan) = 0 /\ Step(p, [r EXCEPT !.pc = "charge_set"]) => AloneInv'
      BY <2>move, <3>1, <3>2
    <3>5. Step(p, [r EXCEPT !.pc = "charge_incr"]) => AloneInv'
      BY <2>move, <3>1, <3>2
    <3> QED BY <3>3, <3>4, <3>5
  <2>ciread. CASE ChargeIncrRead(p)
    <3>1. r.pc = "charge_incr" /\ UNCHANGED <<now, reset, amount, plans, window>>
      BY <2>ciread DEF ChargeIncrRead, cache
    <3>2. r.ret \in {"charge_op", "charge_user"} /\ ~InReset(r)
      BY <2>1, <3>1 DEF OpReq, InReset, Charging
    <3>3. Step(p, [r EXCEPT !.pc = "charge_incr_set", !.seen = AmountSpent(r.plan)])
      BY <2>ciread DEF ChargeIncrRead
    <3>4. AmountSpent(r.plan) \in Nat
      BY <2>1, <3>1, ReadTypes DEF ReqOK, WithPlan
    <3>5. \A n \in Nat : n = AmountSpent(r.plan) /\ Step(p, [r EXCEPT !.pc = "charge_incr_set", !.seen = n])
            => AloneInv'
      BY <2>goto, <3>1, <3>2 DEF Charging
    <3> QED BY <3>3, <3>4, <3>5
  <2>charge. CASE ChargeSet(p) \/ ChargeIncr(p) \/ ChargeIncrSet(p)
    BY <2>charge, ChargeAlone
  <2>exec. CASE Execute(p)
    <3>1. PICK c \in Costs : Step(p, [r EXCEPT !.pc = "record", !.cost = c, !.est = 0, !.before = 0])
      BY <2>exec DEF Execute
    <3>2. r.pc = "execute" /\ c \in Nat /\ UNCHANGED <<now, reset, amount, plans, window>>
      BY <2>exec, ConstantTypes DEF Execute, cache
    <3> DEFINE t1 == [r EXCEPT !.pc = "record", !.cost = c]
               t == [t1 EXCEPT !.est = 0, !.before = 0]
    <3>3. t1 \in Request /\ t1.pc = "record"
      BY <2>1, <3>2 DEF Request, Labels
    <3>4. Step(p, t)
      BY <3>1
    <3> HIDE DEF t1
    <3>5. t.pc = "record"
      BY <3>3 DEF Request
    <3> HIDE DEF t
    <3>6. ~InReset(r) /\ ~InReset(t) /\ BudgetReq(t) /\ ChargeReq(t)
      BY <3>2, <3>5 DEF InReset, BudgetReq, ChargeReq
    <3> QED BY <2>quiet, <3>2, <3>4, <3>6
  <2>add. CASE AddExpense(p) \/ ChargeUser(p)
    <3>1. r.pc \in {"record", "gauge"} /\ UNCHANGED <<now, reset, amount, plans, window>>
      BY <2>add DEF AddExpense, ChargeUser, cache
    <3>2. ~InReset(r)
      BY <3>1 DEF InReset
    <3>3. Step(p, LookUp(r, Operator, "charge_op")) \/ Step(p, LookUp(r, r.signer, "charge_user"))
      BY <2>add DEF AddExpense, ChargeUser
    <3> QED BY <2>1, <2>n, <2>look, <3>1, <3>2, <3>3
  <2>refuse. CASE Refuse(p) \/ ExecuteFails(p) \/ RecordUnavailable(p)
    BY <2>refuse, <2>idle DEF Refuse, ExecuteFails, RecordUnavailable, cache
  <2> QED
    BY <1>2, <2>start, <2>reset, <2>flink, <2>fplan, <2>famt, <2>create, <2>save, <2>budget,
       <2>check, <2>refuse, <2>exec, <2>add, <2>cex, <2>cread, <2>charge, <2>ciread DEF Progress
<1> QED BY <1>1, <1>2, TickAlone, EvictAlone DEF Next

\* The plan of which the budget is read and on which fees are booked is the
\* operator's: a link of the operator to a preconfigured plan never expires,
\* and only an eviction ends it.
LEMMA BudgetIsOperators ==
  LimiterInv /\ ("plan" \in evicted \/ OpInv) => OperatorPlanIsSeparate
<1> SUFFICES ASSUME LimiterInv, OpInv, NEW p \in Requests,
                    \/ req[p].pc = "budget"
                    \/ req[p].pc \in {"charge_op", "charge_read"} /\ req[p].ret = "charge_op"
             PROVE  IsOperators(req[p].plan)
  BY DEF OperatorPlanIsSeparate
<1>1. OpReq(req[p], plans)
  BY DEF OpInv
<1> QED BY <1>1 DEF OpReq, ForOperator, Found, Looking, Charging, IsOperators

\* What the design document promises of the total budget, when requests come
\* one at a time: whatever the clock, the expiry of amounts and links and the
\* evictions of other entries do meanwhile, once the fees booked since the last
\* reset reach the budget, nothing more is executed until the next boundary is
\* passed - as long as the cache has evicted neither the operator's plan or
\* link nor, in this window, the amount spent on it.
THEOREM PromisesKept ==
  ASSUME OneAtATime, HasPreset, OperatorSeparate, OffBoundary
  PROVE  Spec => []LimiterPromises
<1> DEFINE Kept == "plan" \in evicted \/ (OpInv /\ AloneInv)
           Inv == LimiterInv /\ ClockOnGrid /\ ResetsOnBoundary /\ Kept
<1>1. Init => Inv
  BY InitLimiterInv, InitOpInv, InitOnBoundary, InitAloneInv, ClockStays
<1>2. Inv /\ [Next]_vars => Inv'
  <2> SUFFICES ASSUME Inv, [Next]_vars PROVE Inv'
    OBVIOUS
  <2>1. TypeOK /\ now \in Nat
    BY DEF LimiterInv, TypeInv, TypeOK
  <2>2. ~OnBoundary(now)
    BY <2>1, BoundaryRest DEF OffBoundary, ClockOnGrid
  <2>3. LimiterInv' /\ ClockOnGrid' /\ ResetsOnBoundary'
    BY <2>1, NextLimiterInv, ClockStays, StepOnBoundary
  <2>4. CASE "plan" \in evicted'
    BY <2>3, <2>4
  <2>5. CASE "plan" \notin evicted'
    <3>1. OpInv /\ AloneInv
      BY <2>1, <2>5, EvictedStays
    <3>2. OpInv' /\ AloneInv'
      BY <2>2, <2>5, <3>1, NextOpInv, NextAloneInv
    <3> QED BY <2>3, <3>2
  <2> QED BY <2>4, <2>5
<1>3. Inv => LimiterPromises
  <2> SUFFICES ASSUME Inv PROVE BlockedUntilReset
    BY BudgetIsOperators DEF LimiterPromises
  <2>1. CASE "plan" \in evicted
    BY <2>1 DEF BlockedUntilReset
  <2>2. CASE "plan" \notin evicted
    BY <2>2 DEF AloneInv, AloneReq, BudgetReq, Excused, Over, BlockedUntilReset
  <2> QED BY <2>1, <2>2
<1> QED BY <1>1, <1>2, <1>3, PTL DEF Spec

-----------------------------------------------------------------------------
(***************************************************************************)
(* Every request makes progress: each cache or network call leaves it with *)
(* less to do, also when plans and amounts expire under it and while other *)
(* requests create plans and reset amounts.  A request passes through the  *)
(* look-ups of the plans one after the other, each of them by EVM address, *)
(* by IP address and at last through the creation of a plan; and a reset   *)
(* deletes each of its keys once.  With the fairness of FairSpec this is   *)
(* why RequestsEnd holds.                                                  *)
(***************************************************************************)

\* where the six look-ups of getSpendingPlan return to, counted from the end
Phase == [reset_done |-> 61, budget |-> 51, check |-> 41, charge_op |-> 30, gauge |-> 19,
          charge_user |-> 12]

\* the stages before that place and, of a charge, after it
WithinPhase(r) ==
  CASE r.pc = "link" -> IF r.by = "evm" THEN 6 ELSE 4
    [] r.pc = "plan" -> IF r.by = "evm" THEN 5 ELSE 3
    [] r.pc = "create" -> 2
    [] r.pc \in {"save", "spent"} -> 1
    [] r.pc = "charge_read" -> -1
    [] r.pc \in {"charge_set", "charge_incr"} -> -2
    [] r.pc = "charge_incr_set" -> -3
    [] OTHER -> 0

Outside == [idle |-> 0, limited_total |-> 1, limited_plan |-> 1, record |-> 38, execute |-> 39,
            reset_delete |-> 69, reset_keys |-> 70]

Place(r) == IF r.pc \in DOMAIN Outside THEN Outside[r.pc] ELSE Phase[r.ret] + WithinPhase(r)

\* how much a request with these locals has left to do
WorkOf(r) == Place(r) * (MaxPlans + 1) + Cardinality(r.keys)
Work(p) == WorkOf(req[p])

Lowered(p) == WorkOf(req'[p]) < WorkOf(req[p])

\* a request returns to the place its look-up was called from, only the two charges of
\* addExpense write amounts, and only a reset has keys
StageOK(r) ==
  /\ r.pc \in Returns => r.ret = r.pc
  /\ r.pc \in Charging => r.ret \in {"charge_op", "charge_user"}
  /\ r.pc # "reset_delete" => r.keys = {}

StagesOK == \A p \in Requests : StageOK(req[p])

LEMMA PhaseRange == \A ret \in Returns : Phase[ret] \in 12..61
  BY DEF Phase, Returns

LEMMA PlaceRange ==
  ASSUME NEW r \in Request, StageOK(r) PROVE Place(r) \in 0..70
<1>1. Phase[r.ret] \in 12..61
  BY PhaseRange DEF Request
<1>2. CASE r.pc \in DOMAIN Outside
  BY <1>2 DEF Place, Outside
<1>3. CASE r.pc \notin DOMAIN Outside
  <2>1. WithinPhase(r) \in -3..6
    BY DEF WithinPhase
  <2>2. Place(r) = Phase[r.ret] + WithinPhase(r)
    BY <1>3 DEF Place
  <2> QED BY <1>1, <2>1, <2>2
<1> QED BY <1>2, <1>3

LEMMA KeysRange ==
  ASSUME NEW r \in Request PROVE IsFiniteSet(r.keys) /\ Cardinality(r.keys) \in 0..MaxPlans
<1>1. IsFiniteSet(PlanIds) /\ Cardinality(PlanIds) = MaxPlans
  BY ConstantTypes, FS_Interval DEF PlanIds
<1>2. r.keys \subseteq PlanIds
  BY DEF Request
<1>3. IsFiniteSet(r.keys) /\ Cardinality(r.keys) <= MaxPlans
  BY <1>1, <1>2, FS_Subset
<1> QED BY <1>3, FS_CardinalityType, ConstantTypes

LEMMA WorkIsNat ==
  ASSUME NEW r \in Request, StageOK(r)
  PROVE  WorkOf(r) \in Nat /\ WorkOf(r) < 71 * (MaxPlans + 1)
<1>1. PICK n \in 0..70 : n = Place(r)
  BY PlaceRange
<1>2. PICK k \in 0..MaxPlans : k = Cardinality(r.keys)
  BY KeysRange
<1>3. PICK w \in Nat : w = MaxPlans + 1
  BY ConstantTypes
<1>4. n * w + k \in Nat /\ n * w + k < 71 * w
  <2>1. (70 - n) * w \in Nat /\ n * w \in Nat /\ (70 - n) * w = 70 * w - n * w
    BY <1>3
  <2> QED BY <1>2, <1>3, <2>1, ConstantTypes
<1> QED BY <1>1, <1>2, <1>3, <1>4 DEF WorkOf

\* An earlier place outweighs all keys.
LEMMA PlaceCounts ==
  ASSUME NEW r \in Request, NEW s \in Request, StageOK(r), StageOK(s), Place(s) < Place(r)
  PROVE  WorkOf(s) < WorkOf(r)
<1>1. PICK m \in 0..70, n \in 0..70 : m = Place(s) /\ n = Place(r)
  BY PlaceRange
<1>2. PICK j \in 0..MaxPlans, k \in 0..MaxPlans : j = Cardinality(s.keys) /\ k = Cardinality(r.keys)
  BY KeysRange
<1>3. PICK w \in Nat : w = MaxPlans + 1
  BY ConstantTypes
<1>4. m * w + j < n * w + k
  <2>1. PICK d : d = n - m - 1
    OBVIOUS
  <2>2. d \in Nat /\ n = m + 1 + d
    BY <1>1, <2>1
  <2>3. d * w \in Nat /\ m * w \in Nat /\ (m + 1 + d) * w = m * w + w + d * w
    BY <1>3, <2>2
  <2> QED BY <1>2, <1>3, <2>2, <2>3, ConstantTypes
<1> QED BY <1>1, <1>2, <1>3, <1>4 DEF WorkOf

\* A step that brings a request to a later place.
LEMMA PlaceMoves ==
  ASSUME TypeInv, TypeInv', StagesOK, NEW p \in Requests, NEW s, Step(p, s),
         StageOK(s), Place(s) < Place(req[p])
  PROVE  StagesOK' /\ Lowered(p)
<1>1. req \in [Requests -> Request] /\ req' \in [Requests -> Request]
  BY DEF TypeInv, TypeOK
<1>2. req'[p] = s /\ \A q \in Requests \ {p} : req'[q] = req[q]
  BY <1>1 DEF Step
<1>3. \A q \in Requests : StageOK(req'[q])
  BY <1>2 DEF StagesOK
<1>4. StagesOK'
  BY <1>3 DEF StagesOK, StageOK
<1>5. WorkOf(s) < WorkOf(req[p])
  BY <1>1, <1>2, PlaceCounts DEF StagesOK
<1> QED BY <1>2, <1>4, <1>5 DEF Lowered

LEMMA IdlePlace == StageOK(IdleRequest) /\ Place(IdleRequest) = 0
  BY DEF StageOK, IdleRequest, Returns, Charging, Place, Outside

LEMMA PlacePositive ==
  ASSUME NEW r \in Request, StageOK(r), r.pc # "idle" PROVE Place(r) > 0
<1>1. Phase[r.ret] \in 12..61
  BY PhaseRange DEF Request
<1>2. CASE r.pc \in DOMAIN Outside
  BY <1>2 DEF Place, Outside
<1>3. CASE r.pc \notin DOMAIN Outside
  <2>1. WithinPhase(r) \in -3..6
    BY DEF WithinPhase
  <2>2. Place(r) = Phase[r.ret] + WithinPhase(r)
    BY <1>3 DEF Place
  <2> QED BY <1>1, <2>1, <2>2
<1> QED BY <1>2, <1>3

\* A look-up begins at most six stages before the place it returns to.
LEMMA LookUpPlace ==
  ASSUME NEW r \in Request, NEW who \in Keys \cup {None}, NEW ret \in Returns, r.keys = {}
  PROVE  StageOK(LookUp(r, who, ret)) /\ Place(LookUp(r, who, ret)) <= Phase[ret] + 6
<1>1. PICK u : u = LookUp(r, who, ret)
  OBVIOUS
<1>2. Phase[ret] \in 12..61
  BY PhaseRange
<1>3. CASE u = IdleRequest
  BY <1>1, <1>2, <1>3, IdlePlace
<1>4. CASE u \in Request /\ u.pc = "link" /\ u.ret = ret
  <2>1. u.keys = {}
    BY <1>1, <1>4 DEF LookUp, Request, Miss, IdleRequest
  <2>2. StageOK(u)
    BY <1>4, <2>1 DEF StageOK, Returns, Charging
  <2>3. Place(u) = Phase[ret] + WithinPhase(u) /\ WithinPhase(u) \in {4, 6}
    BY <1>4 DEF Place, Outside, WithinPhase
  <2> QED BY <1>1, <1>2, <2>2, <2>3
<1> QED BY <1>1, <1>3, <1>4, LookUpFields

\* A look-up that fails goes on by IP address or with a new plan, or the request ends.
LEMMA NotFoundPlace ==
  ASSUME NEW r \in Request, StageOK(r), r.pc \in {"link", "plan"}
  PROVE  StageOK(NotFound(r)) /\ Place(NotFound(r)) < Place(r)
<1>1. PICK u : u = NotFound(r)
  OBVIOUS
<1>2. Phase[r.ret] \in 12..61 /\ r.keys = {}
  BY PhaseRange DEF Request, StageOK
<1>3. PICK b \in 12..61 : b = Phase[r.ret]
  BY <1>2
<1>4. PICK w \in 3..6 : w = WithinPhase(r) /\ (r.by = "evm" => w >= 5)
  BY DEF WithinPhase
<1>p. Place(r) = b + w
  BY <1>3, <1>4 DEF Place, Outside
<1>5. CASE r.by = "evm" /\ r.ip # None
  <2> DEFINE s == [r EXCEPT !.pc = "link", !.by = "ip"]
  <2>1. u = [s EXCEPT !.plan = NoPlan]
    BY <1>1, <1>5 DEF NotFound
  <2>2. s \in Request /\ s.pc = "link" /\ s.by = "ip" /\ s.ret = r.ret /\ s.keys = r.keys
    BY DEF Request, Labels
  <2> HIDE DEF s
  <2>3. u.pc = "link" /\ u.by = "ip" /\ u.ret = r.ret /\ u.keys = r.keys
    BY <2>1, <2>2 DEF Request
  <2>4. Place(u) = b + 4
    BY <1>3, <2>3 DEF Place, Outside, WithinPhase
  <2>5. StageOK(u)
    BY <1>2, <2>3 DEF StageOK, Returns, Charging
  <2> QED BY <1>1, <1>p, <1>4, <1>5, <2>4, <2>5
<1>6. CASE u = [r EXCEPT !.pc = "create", !.plan = NoPlan]
  <2>1. u.pc = "create" /\ u.ret = r.ret /\ u.keys = r.keys
    BY <1>6 DEF Request
  <2>2. Place(u) = b + 2
    BY <1>3, <2>1 DEF Place, Outside, WithinPhase
  <2>3. StageOK(u)
    BY <1>2, <2>1 DEF StageOK, Returns, Charging
  <2> QED BY <1>1, <1>p, <1>4, <2>2, <2>3
<1>7. CASE u = IdleRequest
  BY <1>1, <1>7, IdlePlace, PlacePositive
<1> QED BY <1>1, <1>5, <1>6, <1>7 DEF NotFound, Miss

-----------------------------------------------------------------------------
(* One lemma for the steps of each part of a request                       *)

\* what a step of the request finds
LEMMA StageFacts ==
  ASSUME TypeInv, StagesOK, NEW p \in Requests
  PROVE  /\ req[p] \in Request /\ StageOK(req[p])
         /\ req[p].pc # "reset_delete" => req[p].keys = {}
         /\ Operator \in Keys \cup {None} /\ req[p].signer \in Keys \cup {None}
BY DEF TypeInv, TypeOK, StagesOK, StageOK, Keys, Request

\* A step that leaves the place of return and the keys of a request alone.
LEMMA PcMoves ==
  ASSUME TypeInv, TypeInv', StagesOK, NEW p \in Requests, NEW s, Step(p, s),
         s.ret = req[p].ret, s.by = req[p].by, s.keys = req[p].keys, req[p].keys = {},
         s.pc \in Returns => s.ret = s.pc,
         s.pc \in Charging => s.ret \in {"charge_op", "charge_user"},
         Place(s) < Place(req[p])
  PROVE  StagesOK' /\ Lowered(p)
BY PlaceMoves DEF StageOK

LEMMA EndLowers ==
  ASSUME TypeInv, TypeInv', StagesOK, NEW p \in Requests, req[p].pc # "idle",
         Step(p, IdleRequest)
  PROVE  StagesOK' /\ Lowered(p)
BY PlaceMoves, IdlePlace, PlacePositive, StageFacts

LEMMA LookUpLowers ==
  ASSUME TypeInv, TypeInv', StagesOK, NEW p \in Requests, NEW r \in Request, r.keys = {},
         NEW who \in Keys \cup {None}, NEW ret \in Returns, Step(p, LookUp(r, who, ret)),
         Phase[ret] + 6 < Place(req[p])
  PROVE  StagesOK' /\ Lowered(p)
<1>1. PICK u : u = LookUp(r, who, ret)
  OBVIOUS
<1>2. StageOK(u) /\ Place(u) <= Phase[ret] + 6
  BY <1>1, LookUpPlace
<1>3. Phase[ret] \in 12..61 /\ Place(req[p]) \in 0..70
  BY PhaseRange, PlaceRange, StageFacts
<1>4. u \in Request
  BY <1>1, LookUpType
<1>5. Place(u) \in 0..70
  BY <1>2, <1>4, PlaceRange
<1>6. Place(u) < Place(req[p])
  BY <1>2, <1>3, <1>5
<1> QED BY <1>1, <1>2, <1>6, PlaceMoves

LEMMA LookUpStepsLower ==
  ASSUME TypeInv, TypeInv', StagesOK, NEW p \in Requests,
         FindLink(p) \/ FindPlan(p) \/ FindAmount(p) \/ CreatePlan(p) \/ SaveLink(p)
  PROVE  StagesOK' /\ Lowered(p)
<1>1. PICK r : r = req[p]
  OBVIOUS
<1>2. r \in Request /\ StageOK(r)
  BY <1>1, StageFacts
<1>3. r.pc \in {"link", "plan", "spent", "create", "save"}
  BY <1>1 DEF FindLink, FindPlan, FindAmount, CreatePlan, SaveLink
<1>4. r.keys = {}
  BY <1>2, <1>3 DEF StageOK
<1>5. PICK b \in 12..61 : b = Phase[r.ret]
  BY <1>2, PhaseRange DEF Request
<1>6. ASSUME NEW s, Step(p, s), s.ret = r.ret, s.by = r.by, s.keys = r.keys,
             \/ r.pc = "link" /\ s.pc = "plan"
             \/ r.pc = "plan" /\ s.pc = "spent"
             \/ r.pc = "create" /\ s.pc = "save"
             \/ r.pc \in {"spent", "save"} /\ s.pc = r.ret
      PROVE  StagesOK' /\ Lowered(p)
  <2>1. r.ret \in Returns
    BY <1>2 DEF Request
  <2>2. (s.pc \in Returns => s.ret = s.pc) /\ s.pc \notin Charging
    BY <1>6, <2>1 DEF Returns, Charging
  <2>3. Place(s) < Place(r)
    BY <1>5, <1>6, <2>1 DEF Place, Outside, WithinPhase, Returns, Phase
  <2> QED BY <1>1, <1>4, <1>6, <2>2, <2>3, PcMoves
<1>7. r.pc \in {"link", "plan"} /\ Step(p, NotFound(r)) => StagesOK' /\ Lowered(p)
  BY <1>1, <1>2, NotFoundPlace, PlaceMoves
<1>8. CASE FindLink(p)
  <2>1. \A id : LET s == [r EXCEPT !.pc = "plan", !.plan = id] IN
                s.pc = "plan" /\ s.ret = r.ret /\ s.by = r.by /\ s.keys = r.keys
    BY <1>2 DEF Request
  <2>2. \/ r.pc = "link" /\ Step(p, NotFound(r))
        \/ r.pc = "link" /\ \E id : Step(p, [r EXCEPT !.pc = "plan", !.plan = id])
    BY <1>1, <1>8 DEF FindLink
  <2> QED BY <1>6, <1>7, <2>1, <2>2
<1>9. CASE FindPlan(p)
  <2>1. LET s == [r EXCEPT !.pc = "spent"] IN
        s.pc = "spent" /\ s.ret = r.ret /\ s.by = r.by /\ s.keys = r.keys
    BY <1>2 DEF Request
  <2>2. r.pc = "plan" /\ (Step(p, NotFound(r)) \/ Step(p, [r EXCEPT !.pc = "spent"]))
    BY <1>1, <1>9 DEF FindPlan
  <2> QED BY <1>6, <1>7, <2>1, <2>2
<1>10. CASE FindAmount(p)
  <2>1. \A n : LET s == [r EXCEPT !.pc = r.ret, !.seen = n] IN
               s.pc = r.ret /\ s.ret = r.ret /\ s.by = r.by /\ s.keys = r.keys
    BY <1>2 DEF Request
  <2>2. r.pc = "spent" /\ \E n : Step(p, [r EXCEPT !.pc = r.ret, !.seen = n])
    BY <1>1, <1>10 DEF FindAmount
  <2> QED BY <1>6, <2>1, <2>2
<1>11. CASE CreatePlan(p)
  <2>1. \A id : LET s == [r EXCEPT !.pc = "save", !.plan = id, !.seen = 0] IN
                s.pc = "save" /\ s.ret = r.ret /\ s.by = r.by /\ s.keys = r.keys
    BY <1>2 DEF Request
  <2>2. r.pc = "create" /\ \E id : Step(p, [r EXCEPT !.pc = "save", !.plan = id, !.seen = 0])
    BY <1>1, <1>11 DEF CreatePlan
  <2> QED BY <1>6, <2>1, <2>2
<1>12. CASE SaveLink(p)
  <2>1. LET s == [r EXCEPT !.pc = r.ret] IN
        s.pc = r.ret /\ s.ret = r.ret /\ s.by = r.by /\ s.keys = r.keys
    BY <1>2 DEF Request
  <2>2. r.pc = "save" /\ Step(p, [r EXCEPT !.pc = r.ret])
    BY <1>1, <1>12 DEF SaveLink
  <2> QED BY <1>6, <2>1, <2>2
<1> QED BY <1>8, <1>9, <1>10, <1>11, <1>12

LEMMA CheckStepsLower ==
  ASSUME TypeInv, TypeInv', StagesOK, NEW p \in Requests,
         CheckBudget(p) \/ CheckPlan(p) \/ Refuse(p)
  PROVE  StagesOK' /\ Lowered(p)
<1>1. PICK r : r = req[p]
  OBVIOUS
<1>2. r \in Request /\ StageOK(r) /\ r.signer \in Keys \cup {None}
  BY <1>1, StageFacts
<1>3. r.pc \in {"budget", "check", "limited_total", "limited_plan"}
  BY <1>1 DEF CheckBudget, CheckPlan, Refuse
<1>4. r.keys = {}
  BY <1>2, <1>3 DEF StageOK
<1>5. r.pc \in {"budget", "check"} => r.ret = r.pc
  BY <1>2 DEF StageOK, Returns
<1>6. ASSUME NEW s, Step(p, s), s.ret = r.ret, s.by = r.by, s.keys = r.keys,
             s.pc \in {"limited_total", "limited_plan", "execute"}, r.pc \in {"budget", "check"}
      PROVE  StagesOK' /\ Lowered(p)
  <2>1. s.pc \notin Returns /\ s.pc \notin Charging
    BY <1>6 DEF Returns, Charging
  <2>2. Place(s) \in {1, 39} /\ Place(r) \in {41, 51}
    BY <1>5, <1>6 DEF Place, Outside, WithinPhase, Phase
  <2>3. Place(s) < Place(r)
    BY <2>2
  <2> QED BY <1>1, <1>4, <1>6, <2>1, <2>3, PcMoves
<1>7. \A pc : LET s == [r EXCEPT !.pc = pc] IN
              s.pc = pc /\ s.ret = r.ret /\ s.by = r.by /\ s.keys = r.keys
  BY <1>2 DEF Request
<1>8. CASE CheckBudget(p)
  <2>1. r.pc = "budget"
    BY <1>1, <1>8 DEF CheckBudget
  <2>2. \/ \E pc \in {"limited_total", "execute"} : Step(p, [r EXCEPT !.pc = pc])
        \/ Step(p, LookUp(r, r.signer, "check"))
    BY <1>1, <1>8 DEF CheckBudget
  <2>3. Phase["check"] + 6 < Place(r) /\ "check" \in Returns
    BY <1>5, <2>1 DEF Place, Outside, WithinPhase, Phase, Returns
  <2>4. Step(p, LookUp(r, r.signer, "check")) => StagesOK' /\ Lowered(p)
    BY <1>1, <1>2, <1>4, <2>3, LookUpLowers
  <2> QED BY <1>6, <1>7, <2>1, <2>2, <2>4
<1>9. CASE CheckPlan(p)
  <2>1. /\ r.pc = "check"
        /\ \E pc \in {"limited_plan", "execute"} : Step(p, [r EXCEPT !.pc = pc])
    BY <1>1, <1>9 DEF CheckPlan
  <2> QED BY <1>6, <1>7, <2>1
<1>10. CASE Refuse(p)
  BY <1>10, EndLowers DEF Refuse
<1> QED BY <1>8, <1>9, <1>10

LEMMA ExecutionLowers ==
  ASSUME TypeInv, TypeInv', StagesOK, NEW p \in Requests,
         \/ Execute(p) \/ ExecuteFails(p) \/ AddExpense(p) \/ RecordUnavailable(p)
         \/ ChargeUser(p)
  PROVE  StagesOK' /\ Lowered(p)
<1>1. PICK r : r = req[p]
  OBVIOUS
<1>2. /\ r \in Request /\ StageOK(r) /\ r.signer \in Keys \cup {None}
      /\ Operator \in Keys \cup {None}
  BY <1>1, StageFacts
<1>3. r.pc \in {"execute", "record", "gauge"}
  BY <1>1 DEF Execute, ExecuteFails, AddExpense, RecordUnavailable, ChargeUser
<1>4. r.keys = {} /\ (r.pc = "gauge" => r.ret = "gauge")
  BY <1>2, <1>3 DEF StageOK, Returns
<1>5. CASE Execute(p)
  <2>1. PICK c \in Costs :
          Step(p, [r EXCEPT !.pc = "record", !.cost = c, !.est = 0, !.before = 0])
    BY <1>1, <1>5 DEF Execute
  <2> DEFINE t1 == [r EXCEPT !.pc = "record", !.cost = c]
             t == [t1 EXCEPT !.est = 0, !.before = 0]
  <2>2. c \in Nat /\ r.pc = "execute"
    BY <1>1, <1>5, ConstantTypes DEF Execute
  <2>3. t1 \in Request /\ t1.pc = "record" /\ t1.ret = r.ret /\ t1.by = r.by /\ t1.keys = r.keys
    BY <1>2, <2>2 DEF Request, Labels
  <2>4. Step(p, t)
    BY <2>1
  <2> HIDE DEF t1
  <2>5. t.pc = "record" /\ t.ret = r.ret /\ t.by = r.by /\ t.keys = r.keys
    BY <2>3 DEF Request
  <2>6. PICK s : s = t
    OBVIOUS
  <2> HIDE DEF t
  <2>7. Place(s) < Place(r) /\ s.pc \notin Returns /\ s.pc \notin Charging
    BY <2>2, <2>5, <2>6 DEF Place, Outside, Returns, Charging
  <2>8. Step(p, s) /\ s.ret = r.ret /\ s.by = r.by /\ s.keys = r.keys
    BY <2>4, <2>5, <2>6
  <2> QED BY <1>1, <1>4, <2>7, <2>8, PcMoves
<1>6. CASE ExecuteFails(p) \/ RecordUnavailable(p)
  BY <1>6, EndLowers DEF ExecuteFails, RecordUnavailable
<1>7. CASE AddExpense(p)
  <2>1. r.pc = "record" /\ Step(p, LookUp(r, Operator, "charge_op"))
    BY <1>1, <1>7 DEF AddExpense
  <2>2. Phase["charge_op"] + 6 < Place(r) /\ "charge_op" \in Returns
    BY <2>1 DEF Place, Outside, Phase, Returns
  <2> QED BY <1>1, <1>2, <1>4, <2>1, <2>2, LookUpLowers
<1>8. CASE ChargeUser(p)
  <2>1. r.pc = "gauge" /\ Step(p, LookUp(r, r.signer, "charge_user"))
    BY <1>1, <1>8 DEF ChargeUser
  <2>2. Phase["charge_user"] + 6 < Place(r) /\ "charge_user" \in Returns
    BY <1>4, <2>1 DEF Place, Outside, WithinPhase, Phase, Returns
  <2> QED BY <1>1, <1>2, <1>4, <2>1, <2>2, LookUpLowers
<1> QED BY <1>5, <1>6, <1>7, <1>8

LEMMA ChargingLowers ==
  ASSUME TypeInv, TypeInv', StagesOK, NEW p \in Requests,
         \/ ChargeExists(p) \/ ChargeRead(p) \/ ChargeSet(p) \/ ChargeIncr(p)
         \/ ChargeIncrRead(p) \/ ChargeIncrSet(p)
  PROVE  StagesOK' /\ Lowered(p)
<1>1. PICK r : r = req[p]
  OBVIOUS
<1>2. r \in Request /\ StageOK(r) /\ Operator \in Keys \cup {None}
  BY <1>1, StageFacts
<1>3. r.pc \in {"charge_op", "charge_user"} \cup Charging
  BY <1>1 DEF ChargeExists, ChargeRead, ChargeSet, ChargeIncr, ChargeIncrRead, ChargeIncrSet,
              Charging
<1>4. r.keys = {} /\ r.ret \in {"charge_op", "charge_user"}
  BY <1>2, <1>3 DEF StageOK, Returns, Charging
<1>5. PICK b : b = Phase[r.ret] /\ b \in {12, 30} /\ (r.ret = "charge_op" => b = 30)
  BY <1>4 DEF Phase
<1>6. ASSUME NEW s, Step(p, s), s.ret = r.ret, s.by = r.by, s.keys = r.keys, s.pc \in Charging,
             \/ r.pc \in {"charge_op", "charge_user"} /\ s.pc = "charge_read"
             \/ r.pc = "charge_read" /\ s.pc \in {"charge_set", "charge_incr"}
             \/ r.pc = "charge_incr" /\ s.pc = "charge_incr_set"
      PROVE  StagesOK' /\ Lowered(p)
  <2>1. s.pc \notin Returns
    BY <1>6 DEF Returns, Charging
  <2>2. Place(s) < Place(r)
    BY <1>5, <1>6 DEF Place, Outside, WithinPhase
  <2> QED BY <1>1, <1>4, <1>6, <2>1, <2>2, PcMoves
<1>7. CASE ChargeExists(p)
  <2> DEFINE s == [r EXCEPT !.pc = "charge_read", !.seen = 0]
  <2>1. s.pc = "charge_read" /\ s.ret = r.ret /\ s.by = r.by /\ s.keys = r.keys
    BY <1>2 DEF Request
  <2>2. r.pc \in {"charge_op", "charge_user"} /\ (Step(p, s) \/ Step(p, IdleRequest))
    BY <1>1, <1>7 DEF ChargeExists
  <2> HIDE DEF s
  <2>3. "charge_read" \in Charging
    BY DEF Charging
  <2>4. Step(p, s) => StagesOK' /\ Lowered(p)
    BY <1>6, <2>1, <2>2, <2>3
  <2> QED BY <1>1, <2>2, <2>4, EndLowers
<1>8. CASE ChargeRead(p)
  <2>1. \A pc : LET s == [r EXCEPT !.pc = pc] IN
                s.pc = pc /\ s.ret = r.ret /\ s.by = r.by /\ s.keys = r.keys
    BY <1>2 DEF Request
  <2>2. /\ r.pc = "charge_read"
        /\ \E pc \in {"charge_set", "charge_incr"} : Step(p, [r EXCEPT !.pc = pc])
    BY <1>1, <1>8 DEF ChargeRead
  <2>3. PICK pc \in {"charge_set", "charge_incr"} : Step(p, [r EXCEPT !.pc = pc])
    BY <2>2
  <2>4. PICK s : s = [r EXCEPT !.pc = pc]
    OBVIOUS
  <2> QED BY <1>6, <2>1, <2>2, <2>3, <2>4 DEF Charging
<1>9. CASE ChargeIncrRead(p)
  <2>1. \A n : LET s == [r EXCEPT !.pc = "charge_incr_set", !.seen = n] IN
               /\ s.pc = "charge_incr_set" /\ s.ret = r.ret /\ s.by = r.by /\ s.keys = r.keys
    BY <1>2 DEF Request
  <2>2. /\ r.pc = "charge_incr"
        /\ \E n : Step(p, [r EXCEPT !.pc = "charge_incr_set", !.seen = n])
    BY <1>1, <1>9 DEF ChargeIncrRead
  <2>3. PICK n : Step(p, [r EXCEPT !.pc = "charge_incr_set", !.seen = n])
    BY <2>2
  <2>4. PICK s : s = [r EXCEPT !.pc = "charge_incr_set", !.seen = n]
    OBVIOUS
  <2> QED BY <1>6, <2>1, <2>2, <2>3, <2>4 DEF Charging
<1>10. CASE ChargeSet(p) \/ ChargeIncr(p) \/ ChargeIncrSet(p)
  <2>1. r.pc \in {"charge_set", "charge_incr", "charge_incr_set"} /\ Charged(p)
    BY <1>1, <1>10 DEF ChargeSet, ChargeIncr, ChargeIncrSet
  <2>2. \/ r.ret = "charge_op" /\ Step(p, LookUp(r, Operator, "gauge"))
        \/ Step(p, IdleRequest)
    BY <1>1, <2>1 DEF Charged
  <2>3. r.ret = "charge_op" => Phase["gauge"] + 6 < Place(r) /\ "gauge" \in Returns
    <3>1. ASSUME r.ret = "charge_op" PROVE Place(r) \in {27, 28}
      BY <1>5, <2>1, <3>1 DEF Place, Outside, WithinPhase
    <3>2. Phase["gauge"] = 19 /\ "gauge" \in Returns
      BY DEF Phase, Returns
    <3> QED BY <3>1, <3>2
  <2>4. r.ret = "charge_op" /\ Step(p, LookUp(r, Operator, "gauge")) => StagesOK' /\ Lowered(p)
    BY <1>1, <1>2, <1>4, <2>3, LookUpLowers
  <2> QED BY <1>1, <2>1, <2>2, <2>4, EndLowers
<1> QED BY <1>7, <1>8, <1>9, <1>10

\* resetLimiter: the step that opens a window forgets what requests had read (a ghost)
LEMMA ResetKeysLowers ==
  ASSUME TypeInv, TypeInv', StagesOK, NEW p \in Requests, ResetKeys(p)
  PROVE  /\ StagesOK' /\ Lowered(p)
         /\ \A q \in Requests \ {p} : WorkOf(req'[q]) = WorkOf(req[q])
<1>1. PICK r : r = req[p]
  OBVIOUS
<1>2. r \in Request /\ req \in [Requests -> Request]
  BY <1>1 DEF TypeInv, TypeOK
<1>3. PICK t : t = [r EXCEPT !.pc = "reset_delete", !.keys = {id \in PlanIds : AmountSpent(id) > 0}]
  OBVIOUS
<1>4. r.pc = "reset_keys" /\ t.pc = "reset_delete"
  BY <1>1, <1>2, <1>3 DEF ResetKeys, Request
<1>5. StageOK(t) /\ Place(t) < Place(r)
  BY <1>4 DEF StageOK, Place, Outside, Returns, Charging
<1>6. \/ Step(p, t)
      \/ req' = [q \in Requests |-> IF q = p THEN t ELSE [req[q] EXCEPT !.before = 0]]
  BY <1>1, <1>3 DEF ResetKeys
<1>7. ASSUME NEW q \in Requests \ {p}
      PROVE  LET u == req'[q] IN
             u.pc = req[q].pc /\ u.ret = req[q].ret /\ u.by = req[q].by /\ u.keys = req[q].keys
  BY <1>2, <1>6 DEF Step, Request
<1>8. \A q \in Requests \ {p} : WorkOf(req'[q]) = WorkOf(req[q]) /\ StageOK(req'[q])
  BY <1>7 DEF WorkOf, Place, WithinPhase, StageOK, StagesOK
<1>9. req'[p] = t /\ t \in Request
  <2>1. req'[p] = t
    BY <1>2, <1>6 DEF Step
  <2> QED BY <2>1 DEF TypeInv, TypeOK
<1>10. Lowered(p)
  BY <1>1, <1>2, <1>5, <1>9, PlaceCounts, StageFacts DEF Lowered
<1>11. \A q \in Requests : StageOK(req'[q])
  BY <1>5, <1>8, <1>9
<1>12. StagesOK'
  BY <1>11 DEF StagesOK, StageOK
<1> QED BY <1>8, <1>10, <1>12

\* each key is deleted once
LEMMA ResetDeleteLowers ==
  ASSUME TypeInv, TypeInv', StagesOK, NEW p \in Requests, ResetDelete(p)
  PROVE  StagesOK' /\ Lowered(p)
<1>1. PICK r : r = req[p]
  OBVIOUS
<1>2. r \in Request /\ req \in [Requests -> Request] /\ r.pc = "reset_delete"
  BY <1>1 DEF TypeInv, TypeOK, ResetDelete
<1>3. PICK id \in r.keys : Step(p, [r EXCEPT !.keys = r.keys \ {id}])
  BY <1>1 DEF ResetDelete
<1>4. PICK t : t = [r EXCEPT !.keys = r.keys \ {id}]
  OBVIOUS
<1>5. t.pc = r.pc /\ t.keys = r.keys \ {id}
  BY <1>2, <1>4 DEF Request
<1>6. req'[p] = t /\ \A q \in Requests \ {p} : req'[q] = req[q]
  BY <1>2, <1>3, <1>4 DEF Step
<1>7. IsFiniteSet(r.keys) /\ Cardinality(t.keys) = Cardinality(r.keys) - 1
  BY <1>2, <1>5, KeysRange, FS_RemoveElement
<1>8. Place(t) = 69 /\ Place(r) = 69
  BY <1>2, <1>5 DEF Place, Outside
<1>9. Lowered(p)
  <2>1. PICK w \in Nat : w = 69 * (MaxPlans + 1)
    BY ConstantTypes
  <2>2. PICK k \in 0..MaxPlans : k = Cardinality(r.keys)
    BY <1>2, KeysRange
  <2>3. WorkOf(t) = w + (k - 1) /\ WorkOf(r) = w + k
    BY <1>7, <1>8, <2>1, <2>2 DEF WorkOf
  <2> QED BY <1>1, <1>6, <2>2, <2>3, ConstantTypes DEF Lowered
<1>10. StageOK(t)
  BY <1>2, <1>5 DEF StageOK, Returns, Charging
<1>11. \A q \in Requests : StageOK(req'[q])
  BY <1>6, <1>10 DEF StagesOK
<1>12. StagesOK'
  BY <1>11 DEF StagesOK, StageOK
<1> QED BY <1>9, <1>12

LEMMA ResetStepsLower ==
  ASSUME TypeInv, TypeInv', StagesOK, NEW p \in Requests, ResetGauge(p) \/ ResetDone(p)
  PROVE  StagesOK' /\ Lowered(p)
<1>1. PICK r : r = req[p]
  OBVIOUS
<1>2. r \in Request /\ StageOK(r) /\ Operator \in Keys \cup {None}
  BY <1>1, StageFacts
<1>3. CASE ResetGauge(p)
  <2>1. r.pc = "reset_delete" /\ r.keys = {} /\ Step(p, LookUp(r, Operator, "reset_done"))
    BY <1>1, <1>3 DEF ResetGauge
  <2>2. Phase["reset_done"] + 6 < Place(r) /\ "reset_done" \in Returns
    BY <2>1 DEF Place, Outside, Phase, Returns
  <2> QED BY <1>1, <1>2, <2>1, <2>2, LookUpLowers
<1>4. CASE ResetDone(p)
  <2>1. r.pc = "reset_done" /\ Step(p, LookUp([r EXCEPT !.before = settled], Operator, "budget"))
    BY <1>1, <1>4 DEF ResetDone, ReadBudget
  <2>2. r.keys = {} /\ r.ret = "reset_done"
    BY <1>2, <2>1 DEF StageOK, Returns
  <2>3. PICK u : u = [r EXCEPT !.before = settled]
    OBVIOUS
  <2>4. u \in Request /\ u.keys = {}
    BY <1>2, <2>2, <2>3 DEF Request, TypeInv, TypeOK
  <2>5. Phase["budget"] + 6 < Place(r) /\ "budget" \in Returns
    BY <2>1, <2>2 DEF Place, Outside, WithinPhase, Phase, Returns
  <2> QED BY <1>1, <1>2, <2>1, <2>3, <2>4, <2>5, LookUpLowers
<1> QED BY <1>3, <1>4

LEMMA ProgressLowers ==
  ASSUME TypeInv, TypeInv', StagesOK, NEW p \in Requests, Progress(p)
  PROVE  StagesOK' /\ Lowered(p)
BY ResetKeysLowers, ResetDeleteLowers, ResetStepsLower, LookUpStepsLower, CheckStepsLower,
   ExecutionLowers, ChargingLowers DEF Progress

\* a request arrives
LEMMA StartKeepsStages ==
  ASSUME TypeInv, TypeInv', StagesOK, NEW p \in Requests, Start(p) PROVE StagesOK'
<1>1. PICK s \in Users \cup {None}, i \in Ips \cup {None}, e \in Estimates :
        LET t == [IdleRequest EXCEPT !.signer = s, !.ip = i, !.est = e] IN
        IF ShouldResetLimiter(Home[p])
        THEN Step(p, [t EXCEPT !.pc = "reset_keys"])
        ELSE ReadBudget(p, t)
  BY DEF Start
<1>2. PICK t1 : t1 = [IdleRequest EXCEPT !.signer = s, !.ip = i]
  OBVIOUS
<1>3. t1 \in Request /\ t1.keys = {}
  BY <1>2, IdleType DEF Request, IdleRequest
<1>4. PICK t : t = [t1 EXCEPT !.est = e]
  OBVIOUS
<1>5. t \in Request /\ t.keys = {}
  BY <1>3, <1>4, ConstantTypes DEF Request
<1>6. t = [IdleRequest EXCEPT !.signer = s, !.ip = i, !.est = e]
  BY <1>2, <1>4
<1>7. PICK u : u = [t EXCEPT !.pc = "reset_keys"]
  OBVIOUS
<1>8. StageOK(u)
  BY <1>5, <1>7 DEF StageOK, Request, Returns, Charging
<1>9. PICK v : v = [t EXCEPT !.before = settled]
  OBVIOUS
<1>10. v \in Request /\ v.keys = {} /\ Operator \in Keys \cup {None} /\ "budget" \in Returns
  BY <1>5, <1>9 DEF Request, TypeInv, TypeOK, Keys, Returns
<1>11. PICK w : w = LookUp(v, Operator, "budget")
  OBVIOUS
<1>12. StageOK(w)
  BY <1>10, <1>11, LookUpPlace
<1>13. Step(p, u) \/ Step(p, w)
  BY <1>1, <1>6, <1>7, <1>9, <1>11 DEF ReadBudget
<1>14. req \in [Requests -> Request]
  BY DEF TypeInv, TypeOK
<1>15. \A q \in Requests : StageOK(req'[q])
  BY <1>8, <1>12, <1>13, <1>14 DEF Step, StagesOK
<1> QED BY <1>15 DEF StagesOK, StageOK

\* What is not a step of the request leaves it what it has to do.
LEMMA OthersKeepWork ==
  ASSUME TypeInv, TypeInv', StagesOK, NEW p \in Requests, [Next]_vars, ~Start(p), ~Progress(p)
  PROVE  WorkOf(req'[p]) = WorkOf(req[p])
<1>1. CASE UNCHANGED req
  BY <1>1
<1>2. ASSUME NEW q \in Requests, Start(q) \/ Progress(q) PROVE WorkOf(req'[p]) = WorkOf(req[p])
  <2>1. q # p
    BY <1>2
  <2>2. CASE ResetKeys(q)
    BY <2>1, <2>2, ResetKeysLowers
  <2>3. CASE ~ResetKeys(q)
    <3>1. \E r : Step(q, r)
      BY <1>2, <2>3 DEF Progress, Start, ResetDelete, ResetGauge, ResetDone, FindLink, FindPlan,
         FindAmount, CreatePlan, SaveLink, CheckBudget, CheckPlan, Refuse, Execute, ExecuteFails,
         AddExpense, RecordUnavailable, ChargeExists, ChargeRead, ChargeSet, ChargeIncr,
         ChargeIncrRead, ChargeIncrSet, ChargeUser, Charged, ReadBudget
    <3>2. req'[p] = req[p]
      BY <2>1, <3>1 DEF Step, TypeInv, TypeOK
    <3> QED BY <3>2
  <2> QED BY <2>2, <2>3
<1> QED BY <1>1, <1>2 DEF Next, Tick, Evict, vars

LEMMA StagesStep ==
  ASSUME TypeInv, TypeInv', StagesOK, [Next]_vars PROVE StagesOK'
<1>1. CASE UNCHANGED req
  BY <1>1 DEF StagesOK, StageOK
<1> QED BY <1>1, StartKeepsStages, ProgressLowers DEF Next, Tick, Evict, vars

(* Each step of a request lowers a natural number that nothing else        *)
(* changes, neither the clock nor the other requests: whatever expires, is *)
(* evicted, created or reset meanwhile, a request ends after less than     *)
(* 71 * (MaxPlans + 1) cache and network calls (shouldLimit, addExpense).  *)
THEOREM LimiterMovesOn ==
  Spec => [][\A p \in Requests :
               /\ Work(p) \in 0..71 * (MaxPlans + 1) /\ Work(p)' \in Nat
               /\ Progress(p) => Work(p)' < Work(p)
               /\ Start(p) \/ Progress(p) \/ Work(p)' = Work(p)]_vars
<1>1. ASSUME TypeInv, TypeInv', StagesOK, [Next]_vars, NEW p \in Requests
      PROVE  /\ Work(p) \in 0..71 * (MaxPlans + 1) /\ Work(p)' \in Nat
             /\ Progress(p) => Work(p)' < Work(p)
             /\ Start(p) \/ Progress(p) \/ Work(p)' = Work(p)
  <2>1. req[p] \in Request /\ req'[p] \in Request /\ StageOK(req[p]) /\ StageOK(req'[p])
    <3>1. StagesOK'
      BY <1>1, StagesStep
    <3> QED BY <1>1, <3>1 DEF TypeInv, TypeOK, StagesOK, StageOK
  <2>2. WorkOf(req[p]) \in Nat /\ WorkOf(req'[p]) \in Nat /\ WorkOf(req[p]) < 71 * (MaxPlans + 1)
    BY <2>1, WorkIsNat
  <2>3. WorkOf(req[p]) \in 0..71 * (MaxPlans + 1)
    BY <2>2, ConstantTypes
  <2>4. Progress(p) => WorkOf(req'[p]) < WorkOf(req[p])
    BY <1>1, ProgressLowers DEF Lowered
  <2>5. Start(p) \/ Progress(p) \/ WorkOf(req'[p]) = WorkOf(req[p])
    BY <1>1, OthersKeepWork
  <2> QED BY <2>2, <2>3, <2>4, <2>5 DEF Work, WorkOf, Place, WithinPhase
<1>2. TypeInv /\ TypeInv' /\ StagesOK /\ [Next]_vars =>
        [\A p \in Requests :
           /\ Work(p) \in 0..71 * (MaxPlans + 1) /\ Work(p)' \in Nat
           /\ Progress(p) => Work(p)' < Work(p)
           /\ Start(p) \/ Progress(p) \/ Work(p)' = Work(p)]_vars
  BY <1>1
<1>3. Init => StagesOK
  BY IdlePlace DEF Init, StagesOK
<1>4. TypeInv /\ TypeInv' /\ StagesOK /\ [Next]_vars => StagesOK'
  BY StagesStep
<1> QED BY <1>2, <1>3, <1>4, InitTypeInv, NextTypeInv, PTL DEF Spec
=============================================================================
