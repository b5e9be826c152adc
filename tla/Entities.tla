------------------------------- MODULE Entities -------------------------------
(***************************************************************************)
(* What the relay takes an address for: resolveEntityType, whose answer is *)
(* cached under the address alone whatever types were looked for and       *)
(* whichever look-ups failed; eth_getCode, which builds on it and is       *)
(* cached in turn; and the look-ups of addresses in results and logs,      *)
(* which share that cache.  There is one address; the entity behind it     *)
(* appears in some block.  A cached value can be gone at any time.         *)
(***************************************************************************)
EXTENDS Integers

CONSTANTS
  Resolvers,    \* requests being processed at the same time
  CacheTtl,     \* CACHE_TTL, in blocks
  CodeBlocks,   \* the blocks eth_getCode is asked for, 0 for `latest'
  MaxHeight,    \* bound on the chain
  MaxResolves,  \* bound on the requests
  MaxStepTime   \* bound on the blocks made while a request is processed

Kinds == {"contract", "token", "account"}

ASSUME EntityConstants ==
  /\ {CacheTtl, MaxResolves, MaxStepTime} \subseteq Nat /\ MaxHeight \in Nat \ {0}
  /\ CodeBlocks \subseteq 0..MaxHeight

VARIABLES
  height,      \* the newest block
  kind,        \* what the entity is
  created,     \* the block it was created in; 0: not yet
  entityCache, \* the type cached under the address
  codeCache,   \* codeCache[b]: the cached answer of eth_getCode
  resolving,   \* the requests
  resolves,    \* how many there were
  failed       \* history: when a look-up failed last

entityVars == <<height, kind, created, entityCache, codeCache, resolving, resolves, failed>>

Never == -1
NoType == [type |-> "none", until |-> Never]
NoCode == [v |-> "none", since |-> 0, until |-> Never]
IdleResolve == [pc |-> "idle", op |-> "code", b |-> 0, start |-> 0, since |-> 0,
                type |-> "none", v |-> "none"]

Times == Never .. MaxHeight + CacheTtl
Types == Kinds \cup {"none"}
ResolveStates == {"idle", "entity", "contract", "others", "store", "block", "put", "done"}

EntityTypeOK ==
  /\ height \in 1..MaxHeight
  /\ kind \in Kinds
  /\ created \in 0..height
  /\ entityCache \in [type : Types, until : Times]
  /\ codeCache \in [1..MaxHeight -> [v : {"none", "code", "0x"}, since : 0..MaxHeight, until : Times]]
  /\ resolving \in [Resolvers -> [pc : ResolveStates, op : {"code", "address"},
                                  b : 0..MaxHeight, start : 0..MaxHeight, since : 0..MaxHeight,
                                  type : Types, v : {"none", "code", "0x", "error"}]]
  /\ resolves \in 0..MaxResolves
  /\ failed \in Never .. MaxHeight

EntityInit ==
  /\ height = 1
  /\ kind \in Kinds
  /\ created = 0
  /\ entityCache = NoType
  /\ codeCache = [b \in 1..MaxHeight |-> NoCode]
  /\ resolving = [q \in Resolvers |-> IdleResolve]
  /\ resolves = 0
  /\ failed = Never

Pending(q) == resolving[q].pc \notin {"idle", "done"}

\* a block is made, and may create the entity
BlockMade ==
  /\ height < MaxHeight
  /\ \A q \in Resolvers : Pending(q) => height - resolving[q].start < MaxStepTime
  /\ height' = height + 1
  /\ created' \in IF created = 0 THEN {0, height + 1} ELSE {created}
  /\ UNCHANGED <<kind, entityCache, codeCache, resolving, resolves, failed>>

-----------------------------------------------------------------------------
(* Moves of a request                                                      *)

Valid(entry) == height <= entry.until
Step(q, pc) == resolving' = [resolving EXCEPT ![q].pc = pc]
Answer(q, pc, v) == resolving' = [resolving EXCEPT ![q].pc = pc, ![q].type = "none", ![q].v = v]
Resolved(q, pc, type) == resolving' = [resolving EXCEPT ![q].pc = pc, ![q].type = type]
KeepEntity == UNCHANGED <<height, kind, created>>
KeepEntityCaches == UNCHANGED <<entityCache, codeCache>>

\* eth_getCode: the cache decorator, then the entity
getCode(q, b) ==
  LET asked == [IdleResolve EXCEPT !.b = b, !.start = height, !.since = height] IN
  /\ ~Pending(q)
  /\ resolves < MaxResolves
  /\ resolves' = resolves + 1
  /\ \/ /\ b # 0 /\ Valid(codeCache[b])
        /\ resolving' = [resolving EXCEPT ![q] = [asked EXCEPT !.pc = "done", !.v = codeCache[b].v,
                                                               !.since = codeCache[b].since]]
     \/ resolving' = [resolving EXCEPT ![q] = [asked EXCEPT !.pc = "entity"]]
  /\ KeepEntity /\ KeepEntityCaches /\ UNCHANGED failed

\* resolveEvmAddress, resolveAddress: an address in a result, a log or a trace
resolveEvmAddress(q) ==
  /\ ~Pending(q)
  /\ resolves < MaxResolves
  /\ resolves' = resolves + 1
  /\ resolving' = [resolving EXCEPT ![q] = [IdleResolve EXCEPT !.pc = "entity", !.op = "address",
                                                              !.start = height]]
  /\ KeepEntity /\ KeepEntityCaches /\ UNCHANGED failed

\* a request knows the entity's type, or that there is none
Known(q, type) ==
  resolving' = [resolving EXCEPT ![q] =
    CASE @.op = "address" -> IdleResolve
      [] @.op = "code" /\ type = "none" -> [@ EXCEPT !.pc = "put", !.v = "0x"]
      [] @.op = "code" /\ type # "none" -> [@ EXCEPT !.pc = "block", !.type = type]]

-----------------------------------------------------------------------------
(* resolveEntityType                                                       *)

EntityLookup(q) ==
  /\ resolving[q].pc = "entity"
  /\ \/ Valid(entityCache) /\ Known(q, entityCache.type)
     \/ Step(q, "contract")
  /\ KeepEntity /\ KeepEntityCaches /\ UNCHANGED <<resolves, failed>>

\* a failed look-up is taken for one that found nothing
getContract(q) ==
  /\ resolving[q].pc = "contract"
  /\ \/ /\ created # 0 /\ kind = "contract"
        /\ Resolved(q, "store", "contract")
        /\ UNCHANGED failed
     \/ /\ created = 0 \/ kind # "contract"
        /\ Step(q, "others")
        /\ UNCHANGED failed
     \/ /\ Step(q, "others")
        /\ failed' = height
  /\ KeepEntity /\ KeepEntityCaches /\ UNCHANGED resolves

\* the account and the token are looked up together, eth_getCode does not look for an
\* account; a contract is an account too
FoundAs(q) ==
  IF created = 0 THEN "none"
  ELSE IF kind = "token" THEN "token"
  ELSE IF resolving[q].op = "address" THEN "account" ELSE "none"

\* mutant: that nothing was found is cached as well
NothingIsStored(q, type) == Resolved(q, "store", type)

NothingFound(q, type) == Known(q, type)

getOthers(q) ==
  /\ resolving[q].pc = "others"
  /\ \/ /\ FoundAs(q) # "none"
        /\ Resolved(q, "store", FoundAs(q))
        /\ UNCHANGED failed
     \/ /\ FoundAs(q) = "none"
        /\ NothingFound(q, "none")
        /\ UNCHANGED failed
     \/ /\ NothingFound(q, "none")
        /\ failed' = height
  /\ KeepEntity /\ KeepEntityCaches /\ UNCHANGED resolves

\* mutant: kept for twice the time
StoredTwice == height + 2 * CacheTtl

StoredUntil == height + CacheTtl

StoreEntity(q) ==
  /\ resolving[q].pc = "store"
  /\ entityCache' = [type |-> resolving[q].type, until |-> StoredUntil]
  /\ Known(q, resolving[q].type)
  /\ KeepEntity /\ UNCHANGED <<codeCache, resolves, failed>>

-----------------------------------------------------------------------------
(* the rest of eth_getCode                                                 *)

\* getHistoricalBlockResponse: there is no block yet, or the entity was created later
NoEntityIn(b) == b > height \/ created > b

CodeAt(q, b) ==
  IF resolving[q].type \in {"contract", "token"} /\ (b = 0 \/ ~NoEntityIn(b)) THEN "code" ELSE "0x"

\* the newest block is needed even for a numbered one; without it there is an error
CodeOfBlock(q) ==
  /\ resolving[q].pc = "block"
  /\ \/ Answer(q, "put", CodeAt(q, resolving[q].b))
     \/ Answer(q, "done", "error")
  /\ KeepEntity /\ KeepEntityCaches /\ UNCHANGED <<resolves, failed>>

\* "0x" is an answer like any other: it is kept under the number of the block
PutCode(q) ==
  LET r == resolving[q] IN
  /\ r.pc = "put"
  /\ Step(q, "done")
  /\ codeCache' = IF r.b = 0 THEN codeCache
                  ELSE [codeCache EXCEPT ![r.b] =
                          [v |-> r.v, since |-> r.since, until |-> height + CacheTtl]]
  /\ KeepEntity /\ UNCHANGED <<entityCache, resolves, failed>>

EntityNext ==
  \/ BlockMade
  \/ \E q \in Resolvers :
       \/ \E b \in CodeBlocks : getCode(q, b)
       \/ resolveEvmAddress(q)
       \/ EntityLookup(q) \/ getContract(q) \/ getOthers(q) \/ StoreEntity(q)
       \/ CodeOfBlock(q) \/ PutCode(q)

EntitySpec == EntityInit /\ [][EntityNext]_entityVars

-----------------------------------------------------------------------------
(* Correctness                                                             *)

HasCode == created # 0 /\ kind \in {"contract", "token"}
AnswerIs(q, v) == resolving[q].pc = "done" /\ resolving[q].op = "code" /\ resolving[q].v = v

\* The two look-ups of resolveEntityType are not one: what they saw may be wrong if one of
\* them failed, and if a contract was created between them.
Misled(since) == failed >= since \/ (kind = "contract" /\ created >= since)

\* The type cached for an address is the entity's, unless resolveEntityType was misled within
\* the time to live of the cache and the time a request takes.
CachedTypeIsRight ==
  Valid(entityCache) /\ entityCache.type # kind => Misled(height - CacheTtl - MaxStepTime)

\* eth_getCode never answers with code for a block before the entity's; and it answers "0x"
\* for code that was there only if resolveEntityType was misled no longer ago than two
\* caches, one filled from the other, can hold what came of it.
CodeIsRight ==
  \A q \in Resolvers :
    LET r == resolving[q]
        was == IF r.b = 0 THEN r.start ELSE r.b IN
    /\ AnswerIs(q, "code") => HasCode /\ (r.b # 0 => created <= r.b)
    /\ AnswerIs(q, "0x") /\ r.b <= r.since /\ HasCode /\ created <= was =>
         Misled(r.start - 2 * (CacheTtl + MaxStepTime))

\* The cached type and the code of an address are its entity's, up to failed and overlapping
\* look-ups (resolveEntityType, getCode).
EntitiesRight == EntityTypeOK /\ CachedTypeIsRight /\ CodeIsRight
=============================================================================
