--------------------------- MODULE SpendingPlans ----------------------------
(***************************************************************************)
(* HbarSpendingPlanConfigService: how the preconfigured spending plans and *)
(* their links to EVM and IP addresses get into the cache when a relay     *)
(* starts.  Nobody waits for it: requests of the HBAR limiter, and other   *)
(* relays that start on the same cache, run in between.  Every awaited     *)
(* repository call is a step.                                              *)
(***************************************************************************)
EXTENDS Integers

CONSTANTS
  Populaters,   \* relays that start
  PresetPlans,  \* ids in the configuration
  BasicTier,    \* those of them with the tier BASIC
  Evm, Ip,      \* addresses
  PlanConfigs,  \* configurations: the addresses of every plan, {} if it is not listed
  MaxStarts     \* bound on the starts

Linkable == Evm \cup Ip

ASSUME PresetConstants ==
  /\ BasicTier \subseteq PresetPlans
  /\ PresetPlans \cap {"own", "none"} = {}
  /\ Evm \cap Ip = {}
  /\ PlanConfigs \subseteq [PresetPlans -> SUBSET Linkable]
  /\ \A c \in PlanConfigs : \A p, q \in PresetPlans : p # q => c[p] \cap c[q] = {}
  /\ MaxStarts \in Nat

VARIABLES
  config,    \* HBAR_SPENDING_PLANS_CONFIG
  stored,    \* plans in the cache
  linked,    \* address -> plan; "own" is a BASIC plan of its own
  assigning, \* addresses a request found no plan for and creates one
  pop,       \* populatePreconfiguredSpendingPlans of every relay
  starts,
  calm       \* history: only relays that start have changed anything since the first did

plansDb == <<stored, linked>>
planVars == <<config, plansDb, assigning, pop, starts, calm>>

Stages == {"down", "list", "read", "drop", "unlink", "unlink one", "add", "exists", "find",
           "remove", "scan", "scan one", "adjust", "done", "failed"}
Kind == [evm |-> Evm, ip |-> Ip]
Listed(c) == {p \in PresetPlans : c[p] # {}}
NoConfig == [p \in PresetPlans |-> {}]

SpendingPlansTypeOK ==
  /\ config \in PlanConfigs
  /\ stored \subseteq PresetPlans
  /\ linked \in [Linkable -> PresetPlans \cup {"own", "none"}]
  /\ assigning \subseteq Evm
  /\ pop \in [Populaters -> [stage : Stages, config : PlanConfigs \cup {NoConfig},
                             todo : SUBSET PresetPlans, existing : SUBSET PresetPlans,
                             kind : {"evm", "ip"}, addrs : SUBSET Linkable,
                             found : SUBSET Linkable, alone : BOOLEAN]]
  /\ starts \in 0..MaxStarts
  /\ calm \in BOOLEAN

Down == [stage |-> "down", config |-> NoConfig, todo |-> {}, existing |-> {}, kind |-> "evm",
         addrs |-> {}, found |-> {}, alone |-> FALSE]

SpendingPlansInit ==
  /\ config \in PlanConfigs
  /\ stored = {}
  /\ linked = [a \in Linkable |-> "none"]
  /\ assigning = {}
  /\ pop = [r \in Populaters |-> Down]
  /\ starts = 0
  /\ calm = TRUE

\* the plans and the addresses of a plan are processed in the order of the configuration
First(S) == CHOOSE x \in S : TRUE

Plan(r) == First(pop[r].todo)
Wanted(r) == pop[r].config[Plan(r)] \cap Kind[pop[r].kind]

Becomes(r, p) == pop' = [pop EXCEPT ![r] = p]

\* a step that writes: what the others read may be out of date from now on
Writes(r, p) == pop' = [s \in Populaters |-> IF s = r THEN p ELSE [pop[s] EXCEPT !.alone = FALSE]]

Fail(r) == Becomes(r, [Down EXCEPT !.stage = "failed"])
Quiet == UNCHANGED <<config, assigning, starts, calm>>

-----------------------------------------------------------------------------
(* populatePreconfiguredSpendingPlans                                      *)

\* an empty configuration changes nothing, an invalid one is refused
StartRelay(r) ==
  LET others == {s \in Populaters \ {r} : pop[s].stage \notin {"down", "done", "failed"}} IN
  /\ pop[r].stage = "down"
  /\ starts < MaxStarts
  /\ starts' = starts + 1
  /\ calm' = IF \A s \in Populaters : pop[s].stage = "down" THEN assigning = {} ELSE calm
  /\ \/ /\ Listed(config) # {}
        /\ Becomes(r, [Down EXCEPT !.stage = "list", !.config = config,
                                   !.alone = (others = {} /\ assigning = {})])
     \/ /\ Listed(config) = {}
        /\ Becomes(r, [Down EXCEPT !.stage = "done"])
     \/ Fail(r)
  /\ UNCHANGED <<config, plansDb, assigning>>

\* findAllActiveBySubscriptionTier: the keys; those of the amounts match the pattern as well
ListPlans(r) ==
  /\ pop[r].stage = "list"
  /\ Becomes(r, [pop[r] EXCEPT !.stage = "read", !.existing = stored])
  /\ Quiet /\ UNCHANGED plansDb

\* an entry that is gone (a plan deleted, an amount reset) makes the filter throw
ReadPlans(r) ==
  LET existing == pop[r].existing \ BasicTier
      obsolete == existing \ Listed(pop[r].config)
  IN
  /\ pop[r].stage = "read"
  /\ \/ /\ pop[r].existing \subseteq stored
        /\ Becomes(r, [pop[r] EXCEPT !.stage = "drop", !.existing = existing, !.todo = obsolete])
     \/ Fail(r)
  /\ Quiet /\ UNCHANGED plansDb

\* deleteObsoletePlans: the plan first, its links then
DropPlan(r) ==
  /\ pop[r].stage = "drop"
  /\ IF pop[r].todo = {}
     THEN /\ Becomes(r, [pop[r] EXCEPT !.stage = "add",
                                       !.todo = Listed(pop[r].config) \ pop[r].existing])
          /\ UNCHANGED plansDb
     ELSE /\ stored' = stored \ {Plan(r)}
          /\ Writes(r, [pop[r] EXCEPT !.stage = "unlink", !.kind = "evm"])
          /\ UNCHANGED linked
  /\ Quiet

LinksOf(kind) == {a \in Kind[kind] : linked[a] # "none"}

\* deleteAllByPlanId: the keys, then a read and perhaps a deletion for each
UnlinkKeys(r) ==
  /\ pop[r].stage = "unlink"
  /\ Becomes(r, [pop[r] EXCEPT !.stage = "unlink one", !.addrs = LinksOf(pop[r].kind)])
  /\ Quiet /\ UNCHANGED plansDb

\* mutant: the links to IP addresses are forgotten
UnlinkedEvmOnly(r) ==
  [pop[r] EXCEPT !.stage = "drop", !.todo = @ \ {Plan(r)}]

AfterUnlink(r) ==
  IF pop[r].kind = "evm"
  THEN [pop[r] EXCEPT !.stage = "unlink", !.kind = "ip"]
  ELSE [pop[r] EXCEPT !.stage = "drop", !.todo = @ \ {Plan(r)}]

Unlink(r) ==
  /\ pop[r].stage = "unlink one"
  /\ \/ /\ pop[r].addrs = {}
        /\ Becomes(r, AfterUnlink(r))
        /\ UNCHANGED plansDb
     \/ \E a \in pop[r].addrs :
          LET p == [pop[r] EXCEPT !.addrs = @ \ {a}] IN
          IF linked[a] = Plan(r)
          THEN /\ linked' = [linked EXCEPT ![a] = "none"]
               /\ Writes(r, p)
               /\ UNCHANGED stored
          ELSE Becomes(r, p) /\ UNCHANGED plansDb
  /\ Quiet

Associate(r, todo) ==
  IF todo = {} THEN [Down EXCEPT !.stage = "done", !.config = pop[r].config, !.alone = pop[r].alone]
  ELSE [pop[r] EXCEPT !.stage = "exists", !.todo = todo, !.kind = "evm",
                      !.addrs = pop[r].config[First(todo)] \cap Evm]

\* addNewPlans
AddPlan(r) ==
  /\ pop[r].stage = "add"
  /\ IF pop[r].todo = {}
     THEN Becomes(r, Associate(r, Listed(pop[r].config))) /\ UNCHANGED stored
     ELSE /\ stored' = stored \cup {Plan(r)}
          /\ Writes(r, [pop[r] EXCEPT !.todo = @ \ {Plan(r)}])
  /\ Quiet /\ UNCHANGED linked

-----------------------------------------------------------------------------
(* updatePlanAssociations                                                  *)

NextAddress(r) == [pop[r] EXCEPT !.stage = "exists", !.addrs = @ \ {First(pop[r].addrs)}]

\* deleteObsoleteEvmAddressAssociations, then the same for IP addresses: existsByAddress
CheckLink(r) ==
  LET p == pop[r] IN
  /\ p.stage = "exists"
  /\ Becomes(r, IF p.addrs # {}
                THEN IF linked[First(p.addrs)] = "none" THEN NextAddress(r)
                     ELSE [p EXCEPT !.stage = "find"]
                ELSE IF p.kind = "evm"
                THEN [p EXCEPT !.kind = "ip", !.addrs = p.config[Plan(r)] \cap Ip]
                ELSE [p EXCEPT !.stage = "scan", !.kind = "evm"])
  /\ Quiet /\ UNCHANGED plansDb

LinkIsRight(r) == linked[First(pop[r].addrs)] = Plan(r)

\* findByAddress throws if the link is gone by now
FindLink(r) ==
  LET a == First(pop[r].addrs) IN
  /\ pop[r].stage = "find"
  /\ IF linked[a] = "none" THEN Fail(r)
     ELSE Becomes(r, IF LinkIsRight(r) THEN NextAddress(r) ELSE [pop[r] EXCEPT !.stage = "remove"])
  /\ Quiet /\ UNCHANGED plansDb

\* mutant: the link is emptied and stays
EmptyLink(r) ==
  /\ pop[r].stage = "remove"
  /\ linked' = [linked EXCEPT ![First(pop[r].addrs)] = "empty"]
  /\ Writes(r, NextAddress(r))
  /\ Quiet /\ UNCHANGED stored

RemoveLink(r) ==
  /\ pop[r].stage = "remove"
  /\ linked' = [linked EXCEPT ![First(pop[r].addrs)] = "none"]
  /\ Writes(r, NextAddress(r))
  /\ Quiet /\ UNCHANGED stored

\* updateEvmAddressAssociations, then the same for IP addresses: findAllByPlanId
ScanKeys(r) ==
  /\ pop[r].stage = "scan"
  /\ Becomes(r, [pop[r] EXCEPT !.stage = "scan one", !.addrs = LinksOf(pop[r].kind), !.found = {}])
  /\ Quiet /\ UNCHANGED plansDb

\* mutant: only what is missing is written, what is too much stays
ToAdd(r) == Wanted(r) \ pop[r].found

ToChange(r) == (pop[r].found \ Wanted(r)) \cup (Wanted(r) \ pop[r].found)

ScanOne(r) ==
  /\ pop[r].stage = "scan one"
  /\ \/ /\ pop[r].addrs = {}
        /\ Becomes(r, [pop[r] EXCEPT !.stage = "adjust", !.addrs = ToChange(r)])
     \/ \E a \in pop[r].addrs :
          Becomes(r, [pop[r] EXCEPT !.addrs = @ \ {a},
                                    !.found = IF linked[a] = Plan(r) THEN @ \cup {a} ELSE @])
  /\ Quiet /\ UNCHANGED plansDb

AfterAdjust(r) ==
  IF pop[r].kind = "evm" THEN [pop[r] EXCEPT !.stage = "scan", !.kind = "ip", !.found = {}]
  ELSE Associate(r, pop[r].todo \ {Plan(r)})

\* what is too much is deleted and what is missing is saved, all of it in parallel
Adjust(r) ==
  /\ pop[r].stage = "adjust"
  /\ \/ /\ pop[r].addrs = {}
        /\ Becomes(r, AfterAdjust(r))
        /\ UNCHANGED linked
     \/ \E a \in pop[r].addrs :
          /\ a \in Wanted(r) => pop[r].addrs \subseteq Wanted(r)
          /\ linked' = [linked EXCEPT ![a] = IF a \in Wanted(r) THEN Plan(r) ELSE "none"]
          /\ Writes(r, [pop[r] EXCEPT !.addrs = @ \ {a}])
  /\ Quiet /\ UNCHANGED stored

PopulateStep(r) ==
  \/ ListPlans(r) \/ ReadPlans(r) \/ DropPlan(r) \/ UnlinkKeys(r) \/ Unlink(r) \/ AddPlan(r)
  \/ CheckLink(r) \/ FindLink(r) \/ RemoveLink(r) \/ ScanKeys(r) \/ ScanOne(r) \/ Adjust(r)

-----------------------------------------------------------------------------
(* Everything around it                                                    *)

\* a relay stops, at whatever step it is
StopRelay(r) ==
  /\ pop[r].stage # "down"
  /\ Becomes(r, Down)
  /\ calm' = FALSE
  /\ UNCHANGED <<config, plansDb, assigning, starts>>

\* bound: no change when no relay will start any more and read it
ChangeConfig(c) ==
  /\ c # config
  /\ starts < MaxStarts
  /\ config' = c
  /\ calm' = FALSE
  /\ UNCHANGED <<plansDb, assigning, pop, starts>>

NobodyAlone ==
  /\ pop' = [s \in Populaters |-> [pop[s] EXCEPT !.alone = FALSE]]
  /\ calm' = FALSE

\* createSpendingPlanForAddress of the limiter: no plan was found, a link is saved later
LookupFails(a) ==
  /\ a \notin assigning
  /\ linked[a] = "none" \/ linked[a] \in PresetPlans \ stored
  /\ assigning' = assigning \cup {a}
  /\ NobodyAlone
  /\ UNCHANGED <<config, plansDb, starts>>

SaveOwnPlan(a) ==
  /\ a \in assigning
  /\ assigning' = assigning \ {a}
  /\ linked' = [linked EXCEPT ![a] = "own"]
  /\ NobodyAlone
  /\ UNCHANGED <<config, stored, starts>>

\* the links the limiter saves have a TTL
LinkExpires(a) ==
  /\ linked[a] = "own"
  /\ linked' = [linked EXCEPT ![a] = "none"]
  /\ calm' = FALSE
  /\ UNCHANGED <<config, stored, assigning, pop, starts>>

SpendingPlansNext ==
  \/ \E r \in Populaters : StartRelay(r) \/ PopulateStep(r) \/ StopRelay(r)
  \/ \E c \in PlanConfigs : ChangeConfig(c)
  \/ \E a \in Evm : LookupFails(a) \/ SaveOwnPlan(a) \/ LinkExpires(a)

-----------------------------------------------------------------------------
(* Correctness                                                             *)

AsConfigured(c) ==
  /\ Listed(c) \subseteq stored
  /\ \A p \in Listed(c) : {a \in Linkable : linked[a] = p} = c[p]

\* A relay that populated the plans by itself leaves them as its configuration lists them,
\* whatever plans, links and half-done changes it found (updatePlanAssociations).
PopulatedAsConfigured ==
  \A r \in Populaters : pop[r].stage = "done" /\ pop[r].alone => AsConfigured(pop[r].config)

\* Relays that start together on one cache with one configuration leave the plans as it lists
\* them, although they read, delete and save the same links in turns: a relay that gives up
\* because another one got there first does no harm (populatePreconfiguredSpendingPlans).
TogetherAsConfigured ==
  /\ calm
  /\ \A r \in Populaters : pop[r].stage \in {"down", "done", "failed"}
  => \A r \in Populaters : pop[r].stage = "done" /\ Listed(config) # {} => AsConfigured(config)

\* A plan that was deleted took its links along, if the relay was not disturbed
\* (deleteObsoletePlans deletes the plan first and then looks for its links).
NoLinkToDropped ==
  \A r \in Populaters : pop[r].stage = "add" /\ pop[r].alone =>
    \A p \in pop[r].existing \ Listed(pop[r].config) :
      p \notin stored /\ \A a \in Linkable : linked[a] # p

\* Plans and links are those of the configuration, after crashes, changes of the file, and when
\* relays start together (HbarSpendingPlanConfigService).
PlansAsConfigured ==
  SpendingPlansTypeOK /\ PopulatedAsConfigured /\ TogetherAsConfigured /\ NoLinkToDropped
=============================================================================
