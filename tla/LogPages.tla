------------------------------ MODULE LogPages ------------------------------
(***************************************************************************)
(* Requests of the mirror node client (mirrorNodeClient.ts) and the logs   *)
(* of several addresses (CommonService.ts, getLogsByAddress): an address   *)
(* is read page by page, a page is asked for again by axios-retry, some    *)
(* errors count as an empty answer, and the addresses are read at once and *)
(* merged.  The mirror node itself is external: logs of a closed range do  *)
(* not change, a full page has a link to the next.                         *)
(***************************************************************************)
EXTENDS Integers, Sequences, FiniteSets, Functions

CONSTANTS
  LogQueries,    \* sequences of addresses that are asked for
  LogsOf,        \* the logs of an address in the range: records with of, at and index
  ZeroAddress,
  PageSize,      \* MIRROR_NODE_LIMIT_PARAM
  PageMax,       \* MIRROR_NODE_CONTRACT_RESULTS_LOGS_PG_MAX
  Retries,       \* MIRROR_NODE_RETRIES
  ErrorStatuses, \* statuses of responses that are errors
  MaxErrors      \* bound: requests that fail

ASSUME LogPagesAssumption ==
  /\ {PageSize, PageMax} \subseteq Nat \ {0} /\ {Retries, MaxErrors} \subseteq Nat
  /\ ErrorStatuses \subseteq 400..599
  /\ ZeroAddress \in DOMAIN LogsOf /\ LogsOf[ZeroAddress] = <<>>
  /\ \A address \in DOMAIN LogsOf :
       LogsOf[address] \in Seq([of : DOMAIN LogsOf, at : Nat, index : Nat])
  /\ LogQueries \subseteq Seq(DOMAIN LogsOf)

VARIABLES
  addressList,     \* the addresses of the query
  reading,   \* of each: "asking", "done" or "failed"
  page,      \* the page that is asked for
  attempts,  \* requests made for this page
  got,       \* the logs of the pages before it
  reply,     \* of getLogsByAddress
  requests,  \* made so far for the query
  errors,    \* that happened so far
  cut        \* a page of the query answered with an accepted error

logVars == <<addressList, reading, page, attempts, got, reply, requests, errors, cut>>

NoReply == [kind |-> "none"]
TheLogs(s) == [kind |-> "logs", logs |-> s]
TheError(status) == [kind |-> "error", status |-> status]
PaginationMax == [kind |-> "PAGINATION_MAX"]

(* A request that got no response: its status is 567, or 504 for a         *)
(* time-out (MirrorNodeClientError.ErrorCodes).                            *)
NoResponse == {504, 567}

(* acceptedErrorStatusesResponsePerRequestPathMap, of the logs' path.      *)
Accepted == {404}

LogPagesInit ==
  /\ addressList \in LogQueries
  /\ reading = [a \in DOMAIN addressList |-> IF addressList[a] = ZeroAddress THEN "done" ELSE "asking"]
  /\ page = [a \in DOMAIN addressList |-> 1]
  /\ attempts = [a \in DOMAIN addressList |-> 0]
  /\ got = [a \in DOMAIN addressList |-> <<>>]
  /\ reply = NoReply /\ requests = 0 /\ errors = 0 /\ cut = FALSE

(* The mirror node's pages of an address, in ascending order.              *)
Rows(a, n) ==
  LET rows == LogsOf[addressList[a]] IN
  SubSeq(rows, (n - 1) * PageSize + 1, IF n * PageSize < Len(rows) THEN n * PageSize ELSE Len(rows))

KeepLastPage(a, rows) == got' = [got EXCEPT ![a] = rows]

(* results.concat(result[resultProperty])                                  *)
Collect(a, rows) == got' = [got EXCEPT ![a] = @ \o rows]

(* Promise.all: the first that rejects is the reply.                       *)
Reject(a, why) ==
  /\ reading' = [reading EXCEPT ![a] = "failed"]
  /\ reply' = IF reply = NoReply THEN why ELSE reply
  /\ UNCHANGED <<page, attempts>>

TurnAnyPage(a, next) ==
  IF next
    THEN /\ page' = [page EXCEPT ![a] = @ + 1]
         /\ attempts' = [attempts EXCEPT ![a] = 0]
         /\ UNCHANGED <<reading, reply>>
    ELSE /\ reading' = [reading EXCEPT ![a] = "done"]
         /\ UNCHANGED <<page, attempts, reply>>

TurnPageEarly(a, next) ==
  IF page[a] = PageMax - 1 THEN Reject(a, PaginationMax) ELSE TurnAnyPage(a, next)

(* The rest of getPaginatedResults: the last page that is allowed is       *)
(* refused even if it has no next.                                         *)
TurnPage(a, next) == IF page[a] = PageMax THEN Reject(a, PaginationMax) ELSE TurnAnyPage(a, next)

Request(a) ==
  /\ reading[a] = "asking"
  /\ requests' = requests + 1
  /\ UNCHANGED addressList

AskPage(a) ==
  /\ Request(a)
  /\ LET rows == Rows(a, page[a]) IN Collect(a, rows) /\ TurnPage(a, Len(rows) = PageSize)
  /\ UNCHANGED <<errors, cut>>

RetryAnything(a, status) == attempts[a] <= Retries

(* axios-retry: only requests without a response are repeated, whatever    *)
(* MIRROR_NODE_RETRY_CODES lists: the configuration admits strings only,   *)
(* and includes compares them with a number.                               *)
Retryable(a, status) == status \in NoResponse /\ attempts[a] < Retries

AttemptFails(a, status) ==
  /\ Request(a) /\ errors < MaxErrors /\ errors' = errors + 1
  /\ \/ /\ Retryable(a, status)
        /\ attempts' = [attempts EXCEPT ![a] = @ + 1]
        /\ UNCHANGED <<reading, page, got, reply, cut>>
     \/ /\ ~Retryable(a, status) /\ status \in Accepted
        /\ Collect(a, <<>>) /\ TurnPage(a, FALSE) /\ cut' = TRUE
     \/ /\ ~Retryable(a, status) /\ status \notin Accepted
        /\ Reject(a, TheError(status)) /\ UNCHANGED <<got, cut>>

(* What was collected: the n-th log of the a-th address is <<a, n>>.  The  *)
(* addresses' logs are read one after the other (flatMap).                 *)
Collected == UNION {{a} \X DOMAIN got[a] : a \in DOMAIN addressList}
LogAt(p) == got[p[1]][p[2]]
ReadBefore(p, q) == \/ p[1] < q[1]
                    \/ p[1] = q[1] /\ p[2] < q[2]

(* The comparison by timestamp never calls two logs equal, so what becomes *)
(* of the logs of one transaction is up to the engine: their order is kept *)
(* or turned round, and follows the addresses asked for, not the indexes.  *)
Precedes(p, q, kept) ==
  \/ LogAt(p).at < LogAt(q).at
  \/ LogAt(p).at = LogAt(q).at /\ IF kept THEN ReadBefore(p, q) ELSE ReadBefore(q, p)

AsRead(kept) ==
  [n \in 1..Cardinality(Collected) |->
     LogAt(CHOOSE p \in Collected : Cardinality({q \in Collected : ReadBefore(q, p)}) = n - 1)]

(* logs.sort: the n-th is the one that n - 1 others precede.               *)
Sorted(kept) ==
  [n \in 1..Cardinality(Collected) |->
     LogAt(CHOOSE p \in Collected : Cardinality({q \in Collected : Precedes(q, p, kept)}) = n - 1)]

Merge ==
  /\ reply = NoReply /\ \A a \in DOMAIN addressList : reading[a] = "done"
  /\ \E kept \in BOOLEAN : reply' = TheLogs(Sorted(kept))
  /\ UNCHANGED <<addressList, reading, page, attempts, got, requests, errors, cut>>

LogPagesNext ==
  \/ \E a \in DOMAIN addressList :
       AskPage(a) \/ \E status \in ErrorStatuses \union NoResponse : AttemptFails(a, status)
  \/ Merge

LogPagesSpec == LogPagesInit /\ [][LogPagesNext]_logVars

(***************************************************************************)
(* Properties.                                                             *)
(***************************************************************************)

(* The variables stay in their sets.                                       *)
LogPagesTypeOK ==
  /\ addressList \in LogQueries
  /\ reading \in [DOMAIN addressList -> {"asking", "done", "failed"}]
  /\ page \in [DOMAIN addressList -> 1..PageMax]
  /\ attempts \in [DOMAIN addressList -> 0..Retries]
  /\ \A a \in DOMAIN addressList : Range(got[a]) \subseteq Range(LogsOf[addressList[a]])
  /\ reply.kind \in {"none", "PAGINATION_MAX", "error", "logs"}
  /\ requests \in Nat /\ errors \in 0..MaxErrors /\ cut \in BOOLEAN

(* An answer holds every log of the addresses and nothing else, however    *)
(* the pages and their repetitions interleave, unless an accepted error    *)
(* came in the place of a page: the pages read until then are answered as  *)
(* if they were all (mirrorNodeClient.ts, handleError and                  *)
(* getPaginatedResults).                                                   *)
AnswerIsWhole ==
  reply.kind = "logs" =>
    LET wanted == UNION {Range(LogsOf[address]) : address \in Range(addressList)} IN
    IF cut THEN Range(reply.logs) \subseteq wanted ELSE Range(reply.logs) = wanted

(* The logs of several addresses come back in the order of their blocks    *)
(* and transactions (CommonService.ts, getLogsByAddress).                  *)
AnswerInTimeOrder ==
  reply.kind = "logs" =>
    \A m, n \in DOMAIN reply.logs : m < n => reply.logs[m].at <= reply.logs[n].at

(* A query is refused for its length only if an address fills the pages    *)
(* that may be read before the last.                                       *)
RefusedOnlyIfLong ==
  reply = PaginationMax =>
    \E a \in DOMAIN addressList : Len(LogsOf[addressList[a]]) >= (PageMax - 1) * PageSize

(* The requests that one call makes of the mirror node are bounded by the  *)
(* addresses, the pages and the repetitions, and a repetition of one page  *)
(* takes nothing from the next (mirrorNodeClient.ts, createAxiosClient).   *)
RequestsBounded == requests <= Len(addressList) * PageMax * (Retries + 1)

(* The logs of several addresses are whole, in order and refused only if   *)
(* there are many, at a bounded number of requests (getLogsByAddress).     *)
LogsRight ==
  LogPagesTypeOK /\ AnswerIsWhole /\ AnswerInTimeOrder /\ RefusedOnlyIfLong /\ RequestsBounded
=============================================================================
