---------------------- MODULE SendRawTransactionProofs ----------------------
(***************************************************************************)
(* What SendRawTransaction guarantees for any number of transactions,      *)
(* accounts and retries.                                                   *)
(*                                                                         *)
(* The answer of a request depends on what happened several steps before   *)
(* it, so the invariants speak about answers and the proof about stages:   *)
(* before "execute" nothing was taken by a node, from "receipt" on it was, *)
(* in between (a time-out) either is possible.  Then what an error says of *)
(* the nonce, how many steps a request takes, and what comes before a      *)
(* transaction is sent: its prechecks, and the estimate of its gas.        *)
(***************************************************************************)
EXTENDS SendRawTransaction, GasEstimates, FiniteSetTheorems, TLAPS

-----------------------------------------------------------------------------
Before == {"idle", "precheck", "rate", "file_limit", "file_create", "file_append", "limit",
           "execute"}

\* the flags of a request r of t before it was executed, and the rounds it still has
Counters(t, r) ==
  /\ r.pc \in Before => ~r.submitted /\ t \notin accepted
  /\ r.pc \in Before \cup {"receipt"} => r.tries = Retries /\ r.err = "none"
  /\ r.pc \in {"poll", "nonce_poll"} => r.tries \in 1..Retries
  /\ r.pc # "done" => r.answer = "none"

\* what a later stage knows of the execution
Outcome(t, r) ==
  /\ r.pc = "receipt" => t \in accepted /\ ~r.submitted
  /\ r.submitted => t \in accepted
  /\ r.err = "limit" => r.pc \in {"handle", "done"} /\ t \notin accepted
  /\ r.answer \in {"hash", "computed_hash"} /\ ~r.early => t \in accepted
  /\ r.answer \in {"limit", "precheck"} => t \notin accepted

\* only large transactions have files, and those that were submitted are cleaned up
Files(t, r) ==
  /\ r.pc \in {"file_limit", "file_create", "file_append"} => t \in Large
  /\ file[t] # "none" => t \in Large
  /\ r.submitted /\ t \in Large => r.cleanup

Good(t, r) == Counters(t, r) /\ Outcome(t, r) /\ Files(t, r)

LogAccepted == \A i \in 1..Len(log) : log[i].tx \in accepted

SendInv ==
  /\ TypeOK
  /\ LogAccepted
  /\ \A t \in Txs : Good(t, req[t])

LEMMA SendInit == Init => SendInv
<1> SUFFICES ASSUME Init PROVE SendInv
  OBVIOUS
<1> USE SendConstants DEF Init
<1>1. TypeOK
  BY DEF TypeOK, Request, Stages, Errors, Answers
<1>2. LogAccepted
  BY DEF LogAccepted
<1>3. ASSUME NEW t \in Txs PROVE Good(t, req[t])
  BY DEF Good, Counters, Outcome, Files, Before
<1> QED
  BY <1>1, <1>2, <1>3 DEF SendInv

\* The nonce of an account is a natural number.
LEMMA NonceAfterNat ==
  ASSUME NEW a \in Accounts, NEW n \in Nat PROVE NonceAfter(a, n) \in Nat
<1> DEFINE S == {i \in 1..n : log[i].ok /\ Sender[log[i].tx] = a}
<1>1. IsFiniteSet(1..n)
  BY FS_Interval
<1>2. IsFiniteSet(S)
  <2>1. S \in SUBSET (1..n)
    OBVIOUS
  <2> QED
    BY <1>1, <2>1, FS_Subset
<1>3. Cardinality(S) \in Nat
  BY <1>2, FS_CardinalityType
<1> HIDE DEF S
<1>4. BaseNonce[a] + Cardinality(S) \in Nat
  BY <1>3, SendConstants
<1> QED
  BY <1>4 DEF NonceAfter, S

-----------------------------------------------------------------------------
(* Steps that change only the record of one request                        *)

ReqOnly == UNCHANGED <<file, accepted, log, seen>>

\* Such a step preserves the invariant when the new record fits the network.
LEMMA OwnStep ==
  ASSUME SendInv, NEW t \in Txs, NEW r \in Request, Set(t, r), ReqOnly, Good(t, r)
  PROVE  SendInv'
<1>1. req' = [req EXCEPT ![t] = r] /\ req \in [Txs -> Request]
  BY DEF Set, SendInv, TypeOK
<1>2. req'[t] = r /\ \A u \in Txs \ {t} : req'[u] = req[u]
  BY <1>1
<1>3. TypeOK'
  BY <1>1 DEF SendInv, TypeOK, ReqOnly
<1>4. LogAccepted'
  BY DEF SendInv, LogAccepted, ReqOnly
<1>5. ASSUME NEW u \in Txs PROVE Good(u, req[u])'
  <2>1. Good(u, req'[u])
    BY <1>2 DEF SendInv
  <2>2. accepted' = accepted /\ file' = file
    BY DEF ReqOnly
  <2> QED
    BY <2>1, <2>2 DEF Good, Counters, Outcome, Files
<1> QED
  BY <1>3, <1>4, <1>5 DEF SendInv

\* The record of a request fits the network.
LEMMA OwnRecord ==
  ASSUME SendInv, NEW t \in Txs PROVE req[t] \in Request /\ Good(t, req[t])
BY DEF SendInv, TypeOK

\* What is in the log was accepted.
LEMMA InLogAccepted ==
  ASSUME SendInv, NEW t \in Txs, InLog(t, seen) \/ InLog(t, Len(log)) PROVE t \in accepted
BY DEF SendInv, TypeOK, LogAccepted, InLog

\* Moving on to a stage of the same kind.
LEMMA GoStep ==
  ASSUME SendInv, NEW t \in Txs, NEW pc \in Before, req[t].pc \in Before,
         pc \in {"file_limit", "file_create", "file_append"} => t \in Large,
         Go(t, pc), ReqOnly
  PROVE  SendInv'
<1> DEFINE r == [req[t] EXCEPT !.pc = pc]
<1>1. req[t] \in Request /\ Good(t, req[t])
  BY OwnRecord
<1>2. r \in Request
  BY <1>1 DEF Request, Before, Stages
<1>3. Good(t, r)
  BY <1>1, <1>2 DEF Good, Counters, Outcome, Files, Request, Before
<1>4. Set(t, r)
  BY DEF Go
<1> QED
  BY <1>2, <1>3, <1>4, OwnStep

\* An error before anything was executed, or one that is not the limiter's.
LEMMA FailStep ==
  ASSUME SendInv, NEW t \in Txs, NEW e \in Errors, Fail(t, e), ReqOnly,
         req[t].pc # "done", e = "limit" => req[t].pc \in Before
  PROVE  SendInv'
<1> DEFINE r == [req[t] EXCEPT !.pc = "handle", !.err = e]
<1>1. req[t] \in Request /\ Good(t, req[t])
  BY OwnRecord
<1>2. r \in Request
  BY <1>1 DEF Request, Stages
<1>3. Good(t, r)
  BY <1>1, <1>2 DEF Good, Counters, Outcome, Files, Request, Before
<1>4. Set(t, r)
  BY DEF Fail
<1> QED
  BY <1>2, <1>3, <1>4, OwnStep

\* An answer that agrees with what became of the transaction.
LEMMA ReplyStep ==
  ASSUME SendInv, NEW t \in Txs, NEW a \in Answers, Reply(t, a), ReqOnly,
         a \in {"hash", "computed_hash"} => t \in accepted,
         a \in {"limit", "precheck"} => t \notin accepted
  PROVE  SendInv'
<1> DEFINE r == [req[t] EXCEPT !.pc = "done", !.answer = IF req[t].early THEN "hash" ELSE a]
<1>1. req[t] \in Request /\ Good(t, req[t])
  BY OwnRecord
<1>2. r \in Request
  BY <1>1 DEF Request, Stages, Answers
<1>3. Good(t, r)
  BY <1>1, <1>2 DEF Good, Counters, Outcome, Files, Request, Before
<1>4. Set(t, r)
  BY DEF Reply
<1> QED
  BY <1>2, <1>3, <1>4, OwnStep

-----------------------------------------------------------------------------
(* One lemma per action                                                    *)

LEMMA EarlyStages ==
  ASSUME SendInv, NEW t \in Txs,
         Receive(t) \/ ExchangeRate(t) \/ FileLimit(t) \/ FileAppend(t) \/ Limit(t)
  PROVE  SendInv'
<1> USE DEF At
<1>1. CASE Receive(t)
  <2>1. CASE Go(t, "precheck")
    BY <1>1, <2>1, GoStep DEF Receive, ReqOnly, Before
  <2>2. CASE Reply(t, "internal")
    BY <1>1, <2>2, ReplyStep DEF Receive, ReqOnly, Answers
  <2> QED
    BY <1>1, <2>1, <2>2 DEF Receive
<1>2. CASE ExchangeRate(t)
  <2>1. CASE t \in Large /\ Go(t, "file_limit")
    BY <1>2, <2>1, GoStep DEF ExchangeRate, ReqOnly, Before
  <2>2. CASE Go(t, "limit")
    BY <1>2, <2>2, GoStep DEF ExchangeRate, ReqOnly, Before
  <2>3. CASE Fail(t, "other")
    BY <1>2, <2>3, FailStep DEF ExchangeRate, ReqOnly, Errors
  <2> QED
    BY <1>2, <2>1, <2>2, <2>3 DEF ExchangeRate
<1>3. CASE FileLimit(t)
  <2>1. t \in Large
    BY <1>3, OwnRecord DEF FileLimit, Good, Files
  <2>2. CASE Go(t, "file_create")
    BY <1>3, <2>1, <2>2, GoStep DEF FileLimit, ReqOnly, Before
  <2>3. CASE Fail(t, "limit")
    BY <1>3, <2>3, FailStep DEF FileLimit, ReqOnly, Errors, Before
  <2> QED
    BY <1>3, <2>2, <2>3 DEF FileLimit
<1>4. CASE FileAppend(t)
  <2>1. CASE Go(t, "limit")
    BY <1>4, <2>1, GoStep DEF FileAppend, ReqOnly, Before
  <2>2. CASE Fail(t, "other")
    BY <1>4, <2>2, FailStep DEF FileAppend, ReqOnly, Errors
  <2> QED
    BY <1>4, <2>1, <2>2 DEF FileAppend
<1>5. CASE Limit(t)
  <2>1. CASE Go(t, "execute")
    BY <1>5, <2>1, GoStep DEF Limit, ReqOnly, Before
  <2>2. CASE Fail(t, "limit")
    BY <1>5, <2>2, FailStep DEF Limit, ReqOnly, Errors, Before
  <2> QED
    BY <1>5, <2>1, <2>2 DEF Limit
<1> QED
  BY <1>1, <1>2, <1>3, <1>4, <1>5

LEMMA PrecheckStep ==
  ASSUME SendInv, NEW t \in Txs, Precheck(t) PROVE SendInv'
<1> USE DEF At
<1>1. req[t] \in Request /\ Good(t, req[t]) /\ req[t].pc = "precheck" /\ ReqOnly
  BY OwnRecord DEF Precheck, ReqOnly
<1>2. t \notin accepted
  BY <1>1 DEF Good, Counters, Before
<1>3. CASE Reply(t, "nonce_low")
  BY <1>1, <1>3, ReplyStep DEF Answers
<1>4. CASE Reply(t, "precheck")
  BY <1>1, <1>2, <1>4, ReplyStep DEF Answers
<1>5. CASE Set(t, [req[t] EXCEPT !.pc = "rate", !.early = Async])
  <2> DEFINE r == [req[t] EXCEPT !.pc = "rate", !.early = Async]
  <2>1. r \in Request
    BY <1>1, SendConstants DEF Request, Stages
  <2>2. Good(t, r)
    BY <1>1, <2>1 DEF Good, Counters, Outcome, Files, Request, Before
  <2> QED
    BY <1>1, <1>5, <2>1, <2>2, OwnStep
<1> QED
  BY <1>3, <1>4, <1>5 DEF Precheck

LEMMA ReceiptStep ==
  ASSUME SendInv, NEW t \in Txs, Receipt(t) PROVE SendInv'
<1> USE DEF At
<1>1. req[t] \in Request /\ Good(t, req[t]) /\ req[t].pc = "receipt" /\ ReqOnly
  BY OwnRecord DEF Receipt, ReqOnly
<1>2. CASE Fail(t, "nonce")
  BY <1>1, <1>2, FailStep DEF Errors
<1> DEFINE c == t \in Large
           r == [req[t] EXCEPT !.pc = "poll", !.own = TRUE, !.submitted = TRUE, !.cleanup = c]
<1>3. CASE Set(t, r)
  <2>1. c \in BOOLEAN
    OBVIOUS
  <2>2. t \in Large => c
    OBVIOUS
  <2> HIDE DEF c
  <2>3. r \in Request
    BY <1>1, <2>1 DEF Request, Stages
  <2>4. Good(t, r)
    BY <1>1, <2>1, <2>2, <2>3, SendConstants DEF Good, Counters, Outcome, Files, Request, Before
  <2> QED
    BY <1>1, <1>3, <2>3, <2>4, OwnStep
<1> QED
  BY <1>2, <1>3 DEF Receipt

LEMMA PollSteps ==
  ASSUME SendInv, NEW t \in Txs, Found(t) \/ NotFound(t) PROVE SendInv'
<1> USE DEF At
<1>1. req[t] \in Request /\ Good(t, req[t]) /\ req[t].pc = "poll" /\ ReqOnly
  BY OwnRecord DEF Found, NotFound, ReqOnly
<1>2. CASE Found(t)
  <2>1. t \in accepted
    BY <1>2, InLogAccepted DEF Found
  <2>2. CASE Reply(t, "hash")
    BY <1>1, <2>1, <2>2, ReplyStep DEF Answers
  <2>3. CASE Fail(t, "jsonrpc")
    BY <1>1, <2>3, FailStep DEF Errors
  <2> QED
    BY <1>2, <2>2, <2>3 DEF Found
<1>3. CASE NotFound(t)
  <2>1. req[t].tries \in 1..Retries
    BY <1>1 DEF Good, Counters
  <2>2. CASE req[t].tries > 1
    <3> DEFINE r == [req[t] EXCEPT !.tries = @ - 1]
    <3>1. r \in Request
      BY <1>1, <2>1, <2>2, SendConstants DEF Request
    <3>2. Good(t, r)
      BY <1>1, <2>1, <2>2, <3>1, SendConstants
         DEF Good, Counters, Outcome, Files, Request, Before
    <3>3. Set(t, r)
      BY <1>3, <2>2 DEF NotFound, Tried
    <3> QED
      BY <1>1, <3>1, <3>2, <3>3, OwnStep
  <2>3. CASE ~(req[t].tries > 1)
    <3> DEFINE e == IF req[t].err = "timeout" THEN "timeout" ELSE "jsonrpc"
               n == req[t].tries - 1
               r == [req[t] EXCEPT !.tries = n, !.pc = "handle", !.err = e]
    <3>1. e \in Errors /\ e # "limit" /\ n \in 0..Retries
      BY <2>1, SendConstants DEF Errors
    <3>2. Set(t, r)
      BY <1>1, <1>3, <2>3 DEF NotFound, Tried, Request
    <3> HIDE DEF e, n
    <3>3. r \in Request
      BY <1>1, <3>1 DEF Request, Stages
    <3>4. Good(t, r)
      BY <1>1, <3>1, <3>3 DEF Good, Counters, Outcome, Files, Request, Before
    <3> QED
      BY <1>1, <3>2, <3>3, <3>4, OwnStep
  <2> QED
    BY <2>2, <2>3
<1> QED
  BY <1>2, <1>3

LEMMA HandleErrorStep ==
  ASSUME SendInv, NEW t \in Txs, HandleError(t) PROVE SendInv'
<1> USE DEF At
<1>1. req[t] \in Request /\ Good(t, req[t]) /\ req[t].pc = "handle" /\ ReqOnly
  BY OwnRecord DEF HandleError, ReqOnly
<1>2. CASE req[t].err = "nonce"
  <2> DEFINE r == [req[t] EXCEPT !.pc = "nonce_poll", !.tries = Retries]
  <2>1. Retries \in 1..Retries /\ Retries \in 0..Retries
    BY SendConstants
  <2>2. r \in Request
    BY <1>1, <2>1 DEF Request, Stages
  <2>3. Good(t, r)
    BY <1>1, <1>2, <2>1, <2>2 DEF Good, Counters, Outcome, Files, Request, Before
  <2>4. Set(t, r)
    BY <1>2 DEF HandleError
  <2> QED
    BY <1>1, <2>2, <2>3, <2>4, OwnStep
<1>3. CASE req[t].err = "limit"
  <2>1. Reply(t, "limit") /\ t \notin accepted
    BY <1>1, <1>3 DEF HandleError, Good, Outcome
  <2> QED
    BY <1>1, <2>1, ReplyStep DEF Answers
<1>4. CASE req[t].err \notin {"nonce", "limit"} /\ Reply(t, "internal")
  BY <1>1, <1>4, ReplyStep DEF Answers
<1>5. CASE req[t].submitted /\ Reply(t, "computed_hash")
  <2>1. t \in accepted
    BY <1>1, <1>5 DEF Good, Outcome
  <2> QED
    BY <1>1, <1>5, <2>1, ReplyStep DEF Answers
<1>6. CASE req[t].err \notin {"nonce", "limit"}
  <2>1. Reply(t, "internal") \/ (req[t].submitted /\ Reply(t, "computed_hash"))
    BY <1>6 DEF HandleError
  <2> QED
    BY <1>4, <1>5, <1>6, <2>1
<1> QED
  BY <1>2, <1>3, <1>6

LEMMA NoncePollStep ==
  ASSUME SendInv, NEW t \in Txs, NoncePoll(t) PROVE SendInv'
<1> USE DEF At
<1>1. req[t] \in Request /\ Good(t, req[t]) /\ req[t].pc = "nonce_poll" /\ ReqOnly
  BY OwnRecord DEF NoncePoll, ReqOnly
<1>2. req[t].tries \in 1..Retries
  BY <1>1 DEF Good, Counters
<1>3. ASSUME NEW a \in {"nonce_unknown", "nonce_high", "nonce_low", "internal"}, Reply(t, a)
      PROVE  SendInv'
  BY <1>1, <1>3, ReplyStep DEF Answers
<1>4. CASE req[t].tries > 1 /\ Set(t, Tried(t))
  <2>1. Tried(t) \in Request
    BY <1>1, <1>2, <1>4, SendConstants DEF Request, Tried
  <2>2. Good(t, Tried(t))
    BY <1>1, <1>2, <1>4, SendConstants
       DEF Good, Counters, Outcome, Files, Request, Before, Tried
  <2> QED
    BY <1>1, <1>4, <2>1, <2>2, OwnStep
<1> DEFINE a == IF req[t].early THEN "hash" ELSE "nonce_unknown"
           r == [Tried(t) EXCEPT !.pc = "done", !.answer = a]
<1>5. CASE Set(t, r)
  <2>1. a \in Answers /\ a \notin {"limit", "precheck"}
        /\ (a \in {"hash", "computed_hash"} => req[t].early)
    BY DEF Answers
  <2> HIDE DEF a
  <2>2. Tried(t) \in Request
    BY <1>1, <1>2, SendConstants DEF Request, Tried
  <2>3. r \in Request
    BY <2>1, <2>2 DEF Request, Stages
  <2>4. Good(t, r)
    BY <1>1, <2>1, <2>2, <2>3 DEF Good, Counters, Outcome, Files, Request, Before, Tried
  <2> QED
    BY <1>1, <1>5, <2>3, <2>4, OwnStep
<1> QED
  BY <1>3, <1>4, <1>5 DEF NoncePoll

-----------------------------------------------------------------------------
(* Steps that change the network                                           *)

\* A step of t that may also create its file or have it accepted.
LEMMA NetworkStep ==
  ASSUME SendInv, NEW t \in Txs, NEW r \in Request, Set(t, r),
         file' \in [Txs -> {"none", "created", "deleted"}],
         \A u \in Txs \ {t} : file'[u] = file[u],
         accepted \subseteq accepted', accepted' \subseteq accepted \cup {t},
         UNCHANGED <<log, seen>>, Good(t, req[t])'
  PROVE  SendInv'
<1>1. req' = [req EXCEPT ![t] = r] /\ req \in [Txs -> Request]
  BY DEF Set, SendInv, TypeOK
<1>2. TypeOK'
  BY <1>1 DEF SendInv, TypeOK
<1>3. LogAccepted'
  BY DEF SendInv, LogAccepted
<1>4. ASSUME NEW u \in Txs, u # t PROVE Good(u, req[u])'
  <2>1. req'[u] = req[u] /\ Good(u, req[u]) /\ file'[u] = file[u]
    BY <1>1, <1>4 DEF SendInv
  <2>2. u \in accepted' <=> u \in accepted
    BY <1>4
  <2> QED
    BY <2>1, <2>2 DEF Good, Counters, Outcome, Files
<1> QED
  BY <1>2, <1>3, <1>4 DEF SendInv

LEMMA FileCreateStep ==
  ASSUME SendInv, NEW t \in Txs, FileCreate(t) PROVE SendInv'
<1> USE DEF At
<1>1. req[t] \in Request /\ Good(t, req[t]) /\ req[t].pc = "file_create"
      /\ file \in [Txs -> {"none", "created", "deleted"}]
  BY OwnRecord DEF FileCreate, SendInv, TypeOK
<1>2. UNCHANGED <<accepted, log, seen>>
  BY DEF FileCreate
<1>3. /\ file' \in [Txs -> {"none", "created", "deleted"}]
      /\ \A u \in Txs \ {t} : file'[u] = file[u]
  BY <1>1 DEF FileCreate
<1> DEFINE Next4 == {[req[t] EXCEPT !.pc = "file_append"],
                     [req[t] EXCEPT !.pc = "poll", !.err = "timeout", !.own = FALSE],
                     [req[t] EXCEPT !.pc = "handle", !.err = "other"],
                     [req[t] EXCEPT !.pc = "handle", !.err = "jsonrpc"]}
<1>4. PICK r \in Next4 : Set(t, r)
  BY DEF FileCreate, Go, Fail
<1>5. r \in Request
  BY <1>1, <1>4, ZenonT(40) DEF Request, Stages, Errors
<1>6. req'[t] = r
  BY <1>1, <1>4 DEF Set, SendInv, TypeOK
<1>7. /\ ~req[t].submitted /\ req[t].answer = "none" /\ req[t].err = "none"
      /\ req[t].tries = Retries /\ t \notin accepted /\ t \in Large
  BY <1>1 DEF Good, Counters, Files, Before
<1>8. /\ r.pc \in {"file_append", "poll", "handle"} /\ ~r.submitted /\ r.answer = "none"
      /\ r.tries = Retries /\ r.err # "limit" /\ (r.pc = "file_append" => r.err = "none")
  BY <1>1, <1>4, <1>7 DEF Request
<1>9. Good(t, req[t])'
  <2>1. Retries \in 1..Retries
    BY SendConstants
  <2> QED
    BY <1>2, <1>6, <1>7, <1>8, <2>1 DEF Good, Counters, Outcome, Files, Before
<1> QED
  BY <1>2, <1>3, <1>4, <1>5, <1>9, NetworkStep

LEMMA ExecuteStep ==
  ASSUME SendInv, NEW t \in Txs, Execute(t) PROVE SendInv'
<1> USE DEF At
<1>1. req[t] \in Request /\ Good(t, req[t]) /\ req[t].pc = "execute"
      /\ file \in [Txs -> {"none", "created", "deleted"}]
  BY OwnRecord DEF Execute, SendInv, TypeOK
<1>2. UNCHANGED <<file, log, seen>>
  BY DEF Execute
<1>3. accepted \subseteq accepted' /\ accepted' \subseteq accepted \cup {t}
  BY DEF Execute
<1> DEFINE Next3 == {[req[t] EXCEPT !.pc = "receipt"],
                     [req[t] EXCEPT !.pc = "poll", !.err = "timeout", !.own = TRUE],
                     [req[t] EXCEPT !.pc = "handle", !.err = "jsonrpc"]}
<1>4. PICK r \in Next3 : Set(t, r) /\ (r.pc = "receipt" => t \in accepted')
  BY <1>1 DEF Execute, Go, Fail, Request
<1>5. r \in Request
  BY <1>1, <1>4, ZenonT(40) DEF Request, Stages, Errors
<1>6. req'[t] = r
  BY <1>1, <1>4 DEF Set, SendInv, TypeOK
<1>7. /\ ~req[t].submitted /\ req[t].answer = "none" /\ req[t].err = "none"
      /\ req[t].tries = Retries
  BY <1>1 DEF Good, Counters, Before
<1>8. /\ r.pc \in {"receipt", "poll", "handle"} /\ ~r.submitted /\ r.answer = "none"
      /\ r.tries = Retries /\ r.err # "limit" /\ (r.pc = "receipt" => r.err = "none")
  BY <1>1, <1>4, <1>7 DEF Request
<1>9. Good(t, req[t])'
  <2>1. Retries \in 1..Retries
    BY SendConstants
  <2> QED
    BY <1>1, <1>2, <1>4, <1>6, <1>8, <2>1 DEF Good, Counters, Outcome, Files, Before
<1> QED
  BY <1>1, <1>2, <1>3, <1>4, <1>5, <1>9, NetworkStep

LEMMA EnvironmentSteps ==
  ASSUME SendInv, (\E t \in Txs : DeleteFile(t) \/ Consensus(t)) \/ MirrorImport
  PROVE  SendInv'
<1> USE DEF SendInv
<1>1. ASSUME NEW t \in Txs, DeleteFile(t) PROVE SendInv'
  <2>1. TypeOK' /\ LogAccepted'
    BY <1>1 DEF DeleteFile, TypeOK, LogAccepted
  <2>2. ASSUME NEW u \in Txs PROVE Good(u, req[u])'
    <3>1. req' = req /\ accepted' = accepted /\ (file'[u] # "none" => file[u] # "none")
      BY <1>1 DEF DeleteFile, TypeOK
    <3> QED
      BY <3>1 DEF Good, Counters, Outcome, Files
  <2> QED
    BY <2>1, <2>2
<1>2. ASSUME NEW t \in Txs, Consensus(t) PROVE SendInv'
  <2> DEFINE n == NonceAfter(Sender[t], Len(log))
             ok == Nonce[t] = n
             e == [tx |-> t, ok |-> ok, nonce |-> n]
  <2>1. log \in Seq(LogEntry) /\ Len(log) \in Nat /\ seen \in 0..Len(log)
    BY DEF TypeOK
  <2>2. n \in Nat
    BY <2>1, NonceAfterNat, SendConstants
  <2>3. ok \in BOOLEAN
    OBVIOUS
  <2>4. t \in accepted /\ log' = Append(log, e) /\ UNCHANGED <<req, file, accepted, seen>>
    BY <1>2 DEF Consensus
  <2> HIDE DEF n, ok
  <2>5. e \in LogEntry /\ e.tx = t
    BY <2>2, <2>3 DEF LogEntry
  <2> HIDE DEF e
  <2>6. TypeOK'
    BY <2>1, <2>4, <2>5 DEF TypeOK
  <2>7. LogAccepted'
    BY <2>1, <2>4, <2>5 DEF LogAccepted
  <2>8. ASSUME NEW u \in Txs PROVE Good(u, req[u])'
    BY <2>4 DEF Good, Counters, Outcome, Files
  <2> QED
    BY <2>6, <2>7, <2>8
<1>3. CASE MirrorImport
  <2>1. TypeOK' /\ LogAccepted'
    BY <1>3 DEF MirrorImport, TypeOK, LogAccepted
  <2>2. ASSUME NEW u \in Txs PROVE Good(u, req[u])'
    BY <1>3 DEF MirrorImport, Good, Counters, Outcome, Files
  <2> QED
    BY <2>1, <2>2
<1> QED
  BY <1>1, <1>2, <1>3

LEMMA SendNext == SendInv /\ [Next]_vars => SendInv'
<1> SUFFICES ASSUME SendInv, [Next]_vars PROVE SendInv'
  OBVIOUS
<1>1. ASSUME NEW t \in Txs, Receive(t) \/ Process(t) PROVE SendInv'
  BY <1>1, EarlyStages, PrecheckStep, FileCreateStep, ExecuteStep, ReceiptStep, PollSteps,
     HandleErrorStep, NoncePollStep DEF Process
<1>2. CASE (\E t \in Txs : DeleteFile(t) \/ Consensus(t)) \/ MirrorImport
  BY <1>2, EnvironmentSteps
<1>3. CASE UNCHANGED vars
  BY <1>3 DEF vars, SendInv, TypeOK, LogAccepted, Good, Counters, Outcome, Files
<1> QED
  BY <1>1, <1>2, <1>3 DEF Next

-----------------------------------------------------------------------------
(* Theorems                                                                *)

LEMMA SendInvariant == Spec => []SendInv
BY SendInit, SendNext, PTL DEF Spec

\* Every variable keeps its type; in particular the polling loops never count
\* below zero.
THEOREM SendTypeCorrect == Spec => []TypeOK
<1>1. SendInv => TypeOK
  BY DEF SendInv
<1> QED
  BY <1>1, SendInvariant, PTL

\* A hash answered in synchronous mode belongs to a transaction that a consensus
\* node has taken, also after a time-out and with any number of other requests.
THEOREM HashesAreOfAccepted == Spec => []HashMeansAccepted
<1>1. SendInv => HashMeansAccepted
  BY DEF SendInv, HashMeansAccepted, Good, Outcome, WasEarly
<1> QED
  BY <1>1, SendInvariant, PTL

\* What the HBAR limiter or a precheck refused is never executed.
THEOREM RefusalsAreFinal == Spec => []RefusedIsNotExecuted
<1>1. SendInv => RefusedIsNotExecuted
  BY DEF SendInv, RefusedIsNotExecuted, Good, Outcome
<1> QED
  BY <1>1, SendInvariant, PTL

\* The file of every submitted transaction is given to deleteFile.
THEOREM SubmittedFilesAreRemoved == Spec => []FileRemovedAfterExecution
<1>1. SendInv => FileRemovedAfterExecution
  BY DEF SendInv, FileRemovedAfterExecution, Good, Files
<1> QED
  BY <1>1, SendInvariant, PTL

\* What the client is told agrees with what the network did (sendRawTransactionErrorHandler).
THEOREM AnswersAreTrue == Spec => []AnswersAgree
BY HashesAreOfAccepted, RefusalsAreFinal, PTL DEF AnswersAgree

-----------------------------------------------------------------------------
(***************************************************************************)
(* Every request makes progress.  Each awaited call of a request, whatever *)
(* its outcome, leaves it with less to do: the stages have an order, a     *)
(* round of a polling loop uses up a try, and the tries are given back     *)
(* once only, on the way to a later stage.  So no request goes round in    *)
(* circles; with the fairness of FairSpec this is why RequestsEnd holds.   *)
(***************************************************************************)
Order ==
  [idle |-> 12, precheck |-> 11, rate |-> 10, file_limit |-> 9, file_create |-> 8,
   file_append |-> 7, limit |-> 6, execute |-> 5, receipt |-> 4, poll |-> 3, handle |-> 2,
   nonce_poll |-> 1, done |-> 0]

\* how much a request with this record has left to do
RankOf(r) == Order[r.pc] * (Retries + 1) + r.tries
Rank(t) == RankOf(req[t])

\* a later stage, or another round of the same
Later(r, s) == Order[s.pc] < Order[r.pc] \/ (s.pc = r.pc /\ s.tries < r.tries)

LEMMA OrderOfStages == \A pc \in Stages : Order[pc] \in 0..12
BY DEF Order, Stages

LEMMA RankIsNat == ASSUME NEW r \in Request PROVE RankOf(r) \in Nat
<1>1. r.tries \in Nat /\ Retries \in Nat
  BY SendConstants DEF Request
<1>2. PICK k \in 0..12 : k = Order[r.pc]
  BY OrderOfStages DEF Request
<1>3. k * (Retries + 1) + r.tries \in Nat
  BY <1>1
<1> QED BY <1>2, <1>3 DEF RankOf

LEMMA LaterIsLess ==
  ASSUME NEW r \in Request, NEW s \in Request, Later(r, s) PROVE RankOf(s) < RankOf(r)
<1>1. r.tries \in 0..Retries /\ s.tries \in 0..Retries /\ Retries \in Nat
  BY SendConstants DEF Request
<1>2. PICK i \in 0..12, j \in 0..12 : i = Order[s.pc] /\ j = Order[r.pc]
  BY OrderOfStages DEF Request
<1>3. PICK m \in Nat, n \in Nat : m = i * (Retries + 1) /\ n = j * (Retries + 1)
  BY <1>1
<1>4. CASE i < j
  <2>1. m + (Retries + 1) <= n
    BY <1>1, <1>3, <1>4
  <2> QED BY <1>1, <1>2, <1>3, <2>1 DEF RankOf
<1>5. CASE s.pc = r.pc /\ s.tries < r.tries
  <2>1. m = n
    BY <1>2, <1>3, <1>5
  <2> QED BY <1>1, <1>2, <1>3, <1>5, <2>1 DEF RankOf
<1> QED BY <1>2, <1>4, <1>5 DEF Later

\* A step of a request replaces its record.
LEMMA RecordReplaced == ASSUME SendInv, NEW t \in Txs, NEW r, Set(t, r) PROVE req'[t] = r
BY DEF Set, SendInv, TypeOK

LEMMA StageReached ==
  ASSUME SendInv, NEW t \in Txs
  PROVE  /\ \A pc : Go(t, pc) => req'[t].pc = pc
         /\ \A e : Fail(t, e) => req'[t].pc = "handle"
         /\ \A a : Reply(t, a) => req'[t].pc = "done"
<1>1. req[t] \in Request
  BY OwnRecord
<1>2. ASSUME NEW pc, Go(t, pc) PROVE req'[t].pc = pc
  <2>1. req'[t] = [req[t] EXCEPT !.pc = pc]
    BY <1>2, RecordReplaced DEF Go
  <2> QED BY <1>1, <2>1 DEF Request
<1>3. ASSUME NEW e, Fail(t, e) PROVE req'[t].pc = "handle"
  <2>1. req'[t] = [req[t] EXCEPT !.pc = "handle", !.err = e]
    BY <1>3, RecordReplaced DEF Fail
  <2> QED BY <1>1, <2>1 DEF Request
<1>4. ASSUME NEW a, Reply(t, a) PROVE req'[t].pc = "done"
  <2>1. req'[t] = [req[t] EXCEPT !.pc = "done", !.answer = IF req[t].early THEN "hash" ELSE a]
    BY <1>4, RecordReplaced DEF Reply
  <2> QED BY <1>1, <2>1 DEF Request
<1> QED BY <1>2, <1>3, <1>4

\* The calls before the execution, and the execution.
LEMMA SubmissionMovesOn ==
  ASSUME SendInv, NEW t \in Txs,
         \/ Receive(t) \/ Precheck(t) \/ ExchangeRate(t) \/ FileLimit(t) \/ FileCreate(t)
         \/ FileAppend(t) \/ Limit(t) \/ Execute(t) \/ Receipt(t)
  PROVE  Later(req[t], req'[t])
<1>1. req[t] \in Request
  BY OwnRecord
<1>2. CASE Receive(t) \/ ExchangeRate(t) \/ FileLimit(t) \/ FileAppend(t) \/ Limit(t)
  BY <1>2, StageReached DEF Receive, ExchangeRate, FileLimit, FileAppend, Limit, At, Order, Later
<1>3. CASE Precheck(t)
  <2>1. Set(t, [req[t] EXCEPT !.pc = "rate", !.early = Async]) => req'[t].pc = "rate"
    BY <1>1, RecordReplaced DEF Request
  <2> QED BY <1>3, <2>1, StageReached DEF Precheck, At, Order, Later
<1>4. CASE FileCreate(t)
  <2>1. Set(t, [req[t] EXCEPT !.pc = "poll", !.err = "timeout", !.own = FALSE])
          => req'[t].pc = "poll"
    BY <1>1, RecordReplaced DEF Request
  <2> QED BY <1>4, <2>1, StageReached DEF FileCreate, At, Order, Later
<1>5. CASE Execute(t)
  <2>1. Set(t, [req[t] EXCEPT !.pc = "poll", !.err = "timeout", !.own = TRUE])
          => req'[t].pc = "poll"
    BY <1>1, RecordReplaced DEF Request
  <2> QED BY <1>5, <2>1, StageReached DEF Execute, At, Order, Later
<1>6. CASE Receipt(t)
  <2>1. Set(t, [req[t] EXCEPT !.pc = "poll", !.own = TRUE, !.submitted = TRUE,
                              !.cleanup = (t \in Large)]) => req'[t].pc = "poll"
    BY <1>1, RecordReplaced DEF Request
  <2> QED BY <1>6, <2>1, StageReached DEF Receipt, At, Order, Later
<1> QED BY <1>2, <1>3, <1>4, <1>5, <1>6

\* The two polling loops and the error handler between them.
LEMMA PollingMovesOn ==
  ASSUME SendInv, NEW t \in Txs, Found(t) \/ NotFound(t) \/ HandleError(t) \/ NoncePoll(t)
  PROVE  Later(req[t], req'[t])
<1>1. req[t] \in Request
  BY OwnRecord
<1>2. req[t].tries \in Nat
  BY <1>1, SendConstants DEF Request
<1>3. Set(t, Tried(t)) => Later(req[t], req'[t])
  <2>1. Tried(t).pc = req[t].pc /\ Tried(t).tries < req[t].tries
    BY <1>1, <1>2 DEF Tried, Request
  <2> QED BY <2>1, RecordReplaced DEF Later
<1>4. CASE Found(t)
  BY <1>4, StageReached DEF Found, At, Order, Later
<1>5. CASE NotFound(t)
  <2> DEFINE e == IF req[t].err = "timeout" THEN "timeout" ELSE "jsonrpc"
  <2>1. Set(t, [Tried(t) EXCEPT !.pc = "handle", !.err = e]) => req'[t].pc = "handle"
    <3> HIDE DEF e
    <3>1. [Tried(t) EXCEPT !.pc = "handle", !.err = e].pc = "handle"
      BY <1>1, ZenonT(40) DEF Tried, Request
    <3> QED BY <3>1, RecordReplaced, ZenonT(40)
  <2> QED BY <1>3, <1>5, <2>1 DEF NotFound, At, Order, Later
<1>6. CASE HandleError(t)
  <2>1. Set(t, [req[t] EXCEPT !.pc = "nonce_poll", !.tries = Retries])
          => req'[t].pc = "nonce_poll"
    BY <1>1, RecordReplaced DEF Request
  <2> QED BY <1>6, <2>1, StageReached DEF HandleError, At, Order, Later
<1>7. CASE NoncePoll(t)
  <2> DEFINE a == IF req[t].early THEN "hash" ELSE "nonce_unknown"
  <2>1. Set(t, [Tried(t) EXCEPT !.pc = "done", !.answer = a]) => req'[t].pc = "done"
    <3> HIDE DEF a
    <3>1. [Tried(t) EXCEPT !.pc = "done", !.answer = a].pc = "done"
      BY <1>1, ZenonT(40) DEF Tried, Request
    <3> QED BY <3>1, RecordReplaced, ZenonT(40)
  <2> QED BY <1>3, <1>7, <2>1, StageReached DEF NoncePoll, At, Order, Later
<1> QED BY <1>4, <1>5, <1>6, <1>7

\* The other requests, the network and the background leave a request alone.
LEMMA OthersLeaveIt ==
  ASSUME SendInv, NEW t \in Txs, [Next]_vars, ~Receive(t), ~Process(t)
  PROVE  req'[t] = req[t]
<1>1. ASSUME NEW u \in Txs, Receive(u) \/ Process(u) PROVE req'[t] = req[t]
  <2>1. u # t
    BY <1>1
  <2>2. \E r : Set(u, r)
    BY <1>1 DEF Process, Receive, Precheck, ExchangeRate, FileLimit, FileCreate, FileAppend,
                Limit, Execute, Receipt, Found, NotFound, HandleError, NoncePoll, Go, Fail, Reply
  <2> QED BY <2>1, <2>2 DEF Set, SendInv, TypeOK
<1> QED BY <1>1 DEF Next, vars, DeleteFile, Consensus, MirrorImport

(* Whatever the consensus nodes, the mirror node and the other requests    *)
(* do, each step of a request lowers its rank, which is a natural number,  *)
(* and nothing else changes it: no request takes more than                 *)
(* 13 * (Retries + 1) steps, and none is ever taken up again after its     *)
(* answer (sendRawTransactionProcessor, repeatedRequest and the loop of    *)
(* the error handler).                                                     *)
THEOREM RequestsMoveOn ==
  Spec => [][\A t \in Txs : /\ Rank(t) \in Nat /\ Rank(t)' \in Nat
                            /\ Receive(t) \/ Process(t) => Rank(t)' < Rank(t)
                            /\ ~Receive(t) /\ ~Process(t) => req'[t] = req[t]]_vars
<1>1. ASSUME SendInv, SendInv', [Next]_vars, NEW t \in Txs
      PROVE  /\ Rank(t) \in Nat /\ Rank(t)' \in Nat
             /\ Receive(t) \/ Process(t) => Rank(t)' < Rank(t)
             /\ ~Receive(t) /\ ~Process(t) => req'[t] = req[t]
  <2>1. req[t] \in Request /\ req'[t] \in Request
    BY <1>1 DEF SendInv, TypeOK
  <2>2. RankOf(req[t]) \in Nat /\ RankOf(req'[t]) \in Nat
    BY <2>1, RankIsNat
  <2>3. Receive(t) \/ Process(t) => Later(req[t], req'[t])
    BY <1>1, SubmissionMovesOn, PollingMovesOn DEF Process
  <2>4. Receive(t) \/ Process(t) => RankOf(req'[t]) < RankOf(req[t])
    BY <2>1, <2>3, LaterIsLess
  <2>5. ~Receive(t) /\ ~Process(t) => req'[t] = req[t]
    BY <1>1, OthersLeaveIt
  <2> QED BY <2>2, <2>4, <2>5 DEF Rank, RankOf
<1>2. SendInv /\ SendInv' /\ [Next]_vars =>
        [\A t \in Txs : /\ Rank(t) \in Nat /\ Rank(t)' \in Nat
                        /\ Receive(t) \/ Process(t) => Rank(t)' < Rank(t)
                        /\ ~Receive(t) /\ ~Process(t) => req'[t] = req[t]]_vars
  BY <1>1
<1> QED BY <1>2, SendInvariant, PTL DEF Spec

-----------------------------------------------------------------------------
(***************************************************************************)
(* Nonce errors: what the receipt said of the nonce, and what a mirror     *)
(* node says that may be behind.                                           *)
(***************************************************************************)

\* the transaction went through consensus with another nonce than the account's
WrongNonce(t) == \E i \in 1..Len(log) : log[i].tx = t /\ ~log[i].ok
TooHigh(t) == \E i \in 1..Len(log) : log[i].tx = t /\ Nonce[t] > log[i].nonce
TooLow(t) == Nonce[t] < NonceAfter(Sender[t], Len(log))

NonceGood(t, r) ==
  /\ r.pc = "nonce_poll" => r.err = "nonce"
  /\ r.err = "nonce" => WrongNonce(t)

\* a request takes on an answer that is right
Told(t, o, r) ==
  r.answer # o.answer =>
    /\ r.answer = "nonce_high" /\ AlmostCurrent(t) => TooHigh(t)
    /\ r.answer = "nonce_low" => TooLow(t)

NoncesTold == \A t \in Txs : req'[t].answer # req[t].answer => NonceErrorTells(t)

\* the consensus nodes compare with the account's nonce at that moment
LogTrue ==
  \A i \in 1..Len(log) :
    /\ log[i].nonce = NonceAfter(Sender[log[i].tx], i - 1)
    /\ log[i].ok <=> Nonce[log[i].tx] = log[i].nonce

NonceInv ==
  /\ TypeOK /\ LogTrue
  /\ \A t \in Txs : NonceGood(t, req[t])

SentOk(a, n) == {i \in 1..n : log[i].ok /\ Sender[log[i].tx] = a}

LEMMA SentOkFinite ==
  ASSUME NEW a, NEW n \in Nat
  PROVE  /\ IsFiniteSet(SentOk(a, n)) /\ Cardinality(SentOk(a, n)) \in Nat
         /\ NonceAfter(a, n) = BaseNonce[a] + Cardinality(SentOk(a, n))
<1>1. IsFiniteSet(1..n)
  BY FS_Interval
<1>2. SentOk(a, n) \subseteq 1..n
  BY DEF SentOk
<1>3. IsFiniteSet(SentOk(a, n))
  BY <1>1, <1>2, FS_Subset
<1>4. Cardinality(SentOk(a, n)) \in Nat
  BY <1>3, FS_CardinalityType
<1> QED BY <1>3, <1>4 DEF NonceAfter, SentOk

\* Each transaction raises the nonce of its sender by one at most.
LEMMA NonceGrowsByOne ==
  ASSUME NEW a \in Accounts, NEW m \in Nat, NEW n \in Nat, m <= n
  PROVE  NonceAfter(a, m) <= NonceAfter(a, n) /\ NonceAfter(a, n) <= NonceAfter(a, m) + (n - m)
<1>1. /\ IsFiniteSet(SentOk(a, m)) /\ Cardinality(SentOk(a, m)) \in Nat
      /\ IsFiniteSet(SentOk(a, n)) /\ Cardinality(SentOk(a, n)) \in Nat
      /\ NonceAfter(a, m) = BaseNonce[a] + Cardinality(SentOk(a, m))
      /\ NonceAfter(a, n) = BaseNonce[a] + Cardinality(SentOk(a, n))
  BY SentOkFinite
<1>2. SentOk(a, m) \subseteq SentOk(a, n)
  BY DEF SentOk
<1>3. Cardinality(SentOk(a, m)) <= Cardinality(SentOk(a, n))
  BY <1>1, <1>2, FS_Subset
<1>4. IsFiniteSet(m + 1 .. n) /\ Cardinality(m + 1 .. n) = n - m
  <2>1. m + 1 \in Int /\ n \in Int
    OBVIOUS
  <2>2. /\ IsFiniteSet(m + 1 .. n)
        /\ Cardinality(m + 1 .. n) = IF m + 1 > n THEN 0 ELSE n - (m + 1) + 1
    BY <2>1, FS_Interval
  <2> QED BY <2>2
<1>5. SentOk(a, n) \subseteq SentOk(a, m) \cup (m + 1 .. n)
  BY DEF SentOk
<1>6. PICK R : R = m + 1 .. n
  OBVIOUS
<1>7. /\ IsFiniteSet(SentOk(a, m) \cup R)
      /\ Cardinality(SentOk(a, m) \cup R)
           = Cardinality(SentOk(a, m)) + Cardinality(R) - Cardinality(SentOk(a, m) \cap R)
  BY <1>1, <1>4, <1>6, FS_Union
<1>8. Cardinality(SentOk(a, m) \cap R) \in Nat
  <2>1. SentOk(a, m) \cap R \subseteq SentOk(a, m)
    OBVIOUS
  <2>2. IsFiniteSet(SentOk(a, m) \cap R)
    BY <1>1, <2>1, FS_Subset
  <2> QED BY <2>2, FS_CardinalityType
<1>9. Cardinality(SentOk(a, n)) <= Cardinality(SentOk(a, m) \cup R)
  BY <1>5, <1>6, <1>7, FS_Subset
<1>10. Cardinality(R) = n - m
  BY <1>4, <1>6
<1>11. Cardinality(SentOk(a, n)) <= Cardinality(SentOk(a, m)) + (n - m)
  BY <1>1, <1>7, <1>8, <1>9, <1>10
<1>12. BaseNonce[a] \in Nat
  BY SendConstants
<1> QED BY <1>1, <1>3, <1>11, <1>12

\* The mirror node is on the right side of the nonce that failed, unless two transactions of
\* the sender went through after those it has.
LEMMA LagIsHarmless ==
  ASSUME NonceInv, NEW t \in Txs, AlmostCurrent(t), WrongNonce(t), Nonce[t] > MirrorNonce(t)
  PROVE  TooHigh(t)
<1>1. PICK i \in 1..Len(log) : log[i].tx = t /\ ~log[i].ok
  BY DEF WrongNonce
<1>2. /\ Sender[t] \in Accounts /\ Nonce[t] \in Nat
      /\ Len(log) \in Nat /\ seen \in 0..Len(log)
  BY SendConstants DEF NonceInv, TypeOK
<1>3. PICK m \in Nat : m = log[i].nonce /\ m = NonceAfter(Sender[t], i - 1) /\ m # Nonce[t]
  <2>1. log[i] \in LogEntry
    BY <1>1 DEF NonceInv, TypeOK
  <2>2. log[i].nonce = NonceAfter(Sender[t], i - 1)
    BY <1>1 DEF NonceInv, LogTrue
  <2>3. log[i].ok <=> Nonce[t] = log[i].nonce
    BY <1>1 DEF NonceInv, LogTrue
  <2>4. log[i].nonce \in Nat
    BY <2>1 DEF LogEntry
  <2> QED BY <1>1, <2>2, <2>3, <2>4
<1>4. PICK n \in Nat : n = MirrorNonce(t) /\ n < Nonce[t]
  BY <1>2, NonceAfterNat DEF MirrorNonce
<1>5. PICK k \in Nat : k = i - 1 /\ k <= Len(log)
  BY <1>2
<1>6. PICK z \in Nat : z = NonceAfter(Sender[t], Len(log)) /\ z <= n + 1
  BY <1>2, <1>4, NonceAfterNat DEF AlmostCurrent
<1>7. m <= z
  BY <1>2, <1>3, <1>5, <1>6, NonceGrowsByOne
<1>8. m < Nonce[t]
  BY <1>2, <1>3, <1>4, <1>6, <1>7
<1> QED BY <1>1, <1>2, <1>3, <1>8 DEF TooHigh

LEMMA LowIsLow ==
  ASSUME TypeOK, NEW t \in Txs, Nonce[t] < MirrorNonce(t)
  PROVE  TooLow(t)
<1>1. /\ Sender[t] \in Accounts /\ Nonce[t] \in Nat /\ Len(log) \in Nat /\ seen \in Nat
      /\ seen <= Len(log)
  BY SendConstants DEF TypeOK
<1>2. NonceAfter(Sender[t], seen) \in Nat /\ NonceAfter(Sender[t], Len(log)) \in Nat
  BY <1>1, NonceAfterNat
<1>3. NonceAfter(Sender[t], seen) <= NonceAfter(Sender[t], Len(log))
  BY <1>1, NonceGrowsByOne
<1> QED BY <1>1, <1>2, <1>3 DEF TooLow, MirrorNonce

LEMMA NonceStarts == Init => NonceInv
<1> SUFFICES ASSUME Init PROVE NonceInv
  OBVIOUS
<1>1. TypeOK
  BY SendInit DEF SendInv
<1>2. Len(log) = 0 /\ seen = 0
  BY DEF Init
<1>3. ASSUME NEW t \in Txs PROVE NonceGood(t, req[t])
  <2>1. req[t].pc = "idle" /\ req[t].err = "none" /\ req[t].answer = "none"
    BY DEF Init
  <2> QED BY <2>1 DEF NonceGood
<1> QED BY <1>1, <1>2, <1>3, SendConstants DEF NonceInv, LogTrue

\* A step of one request.
LEMMA RequestKeepsNonces ==
  ASSUME NonceInv, TypeOK', NEW t \in Txs, NEW r, Set(t, r), UNCHANGED <<log, seen>>,
         NonceGood(t, r), Told(t, req[t], r)
  PROVE  NonceInv' /\ NoncesTold
<1>1. req' = [req EXCEPT ![t] = r] /\ req \in [Txs -> Request]
  BY DEF Set, NonceInv, TypeOK
<1>2. ASSUME NEW u \in Txs PROVE NonceGood(u, req'[u])
  BY <1>1 DEF NonceInv
<1>3. ASSUME NEW u \in Txs, NonceGood(u, req'[u]) PROVE NonceGood(u, req[u])'
  BY <1>3 DEF NonceGood, WrongNonce
<1>4. NoncesTold
  <2> SUFFICES ASSUME NEW u \in Txs, req'[u].answer # req[u].answer PROVE NonceErrorTells(u)
    BY DEF NoncesTold
  <2>1. u = t /\ req'[u] = r
    BY <1>1
  <2> QED BY <2>1 DEF Told, TooHigh, TooLow, NonceErrorTells
<1> QED BY <1>2, <1>3, <1>4 DEF NonceInv, LogTrue, NonceAfter

\* The moves that say nothing of a nonce.
Silent(o, r) ==
  /\ r.pc # "nonce_poll" /\ (r.err = o.err \/ r.err # "nonce")
  /\ r.answer = o.answer \/ r.answer \notin {"nonce_high", "nonce_low"}

LEMMA SilentMoves ==
  ASSUME NonceInv, TypeOK', NEW t \in Txs, NEW r, Set(t, r), UNCHANGED <<log, seen>>,
         Silent(req[t], r)
  PROVE  NonceInv' /\ NoncesTold
<1>1. NonceGood(t, req[t])
  BY DEF NonceInv
<1>2. NonceGood(t, r)
  BY <1>1 DEF NonceGood, Silent
<1>3. Told(t, req[t], r)
  BY DEF Told, Silent
<1> QED BY <1>2, <1>3, RequestKeepsNonces

LEMMA SilentForms ==
  ASSUME NonceInv, TypeOK', NEW t \in Txs, UNCHANGED <<log, seen>>,
         \/ \E pc \in Stages \ {"nonce_poll"} : Go(t, pc)
         \/ \E e \in Errors \ {"nonce"} : Fail(t, e)
         \/ \E a \in Answers \ {"nonce_high", "nonce_low"} : Reply(t, a)
  PROVE  NonceInv' /\ NoncesTold
<1>1. PICK o \in Request : o = req[t]
  BY DEF NonceInv, TypeOK
<1>2. ASSUME NEW pc \in Stages \ {"nonce_poll"}, Go(t, pc) PROVE NonceInv' /\ NoncesTold
  <2>1. PICK r : r = [o EXCEPT !.pc = pc]
    OBVIOUS
  <2>2. Set(t, r) /\ Silent(o, r)
    BY <1>1, <1>2, <2>1 DEF Go, Silent, Request
  <2> QED BY <1>1, <2>2, SilentMoves
<1>3. ASSUME NEW e \in Errors \ {"nonce"}, Fail(t, e) PROVE NonceInv' /\ NoncesTold
  <2>1. PICK r : r = [o EXCEPT !.pc = "handle", !.err = e]
    OBVIOUS
  <2>2. Set(t, r) /\ Silent(o, r)
    BY <1>1, <1>3, <2>1 DEF Fail, Silent, Request
  <2> QED BY <1>1, <2>2, SilentMoves
<1>4. ASSUME NEW a \in Answers \ {"nonce_high", "nonce_low"}, Reply(t, a) PROVE NonceInv' /\ NoncesTold
  <2>1. PICK x : x = IF o.early THEN "hash" ELSE a
    OBVIOUS
  <2>2. PICK r : r = [o EXCEPT !.pc = "done", !.answer = x]
    OBVIOUS
  <2>3. Set(t, r)
    BY <1>1, <1>4, <2>1, <2>2 DEF Reply
  <2>4. r.pc = "done" /\ r.err = o.err /\ r.answer = x
    BY <1>1, <2>2 DEF Request
  <2>5. Silent(o, r)
    BY <1>4, <2>1, <2>4 DEF Silent
  <2> QED BY <1>1, <2>3, <2>5, SilentMoves
<1> QED BY <1>2, <1>3, <1>4

LEMMA QuietSteps ==
  ASSUME NonceInv, TypeOK', NEW t \in Txs,
         \/ Receive(t) \/ ExchangeRate(t) \/ FileLimit(t) \/ FileCreate(t) \/ FileAppend(t)
         \/ Limit(t) \/ Execute(t) \/ Found(t) \/ NotFound(t)
  PROVE  NonceInv' /\ NoncesTold
<1>1. PICK o \in Request : o = req[t]
  BY DEF NonceInv, TypeOK
<1>2. UNCHANGED <<log, seen>>
  BY DEF Receive, ExchangeRate, FileLimit, FileCreate, FileAppend, Limit, Execute, Found, NotFound
<1>3. ASSUME \/ \E pc \in Stages \ {"nonce_poll"} : Go(t, pc)
             \/ \E e \in Errors \ {"nonce"} : Fail(t, e)
             \/ \E a \in Answers \ {"nonce_high", "nonce_low"} : Reply(t, a)
      PROVE  NonceInv' /\ NoncesTold
  BY <1>2, <1>3, SilentForms
<1>4. CASE Receive(t) \/ ExchangeRate(t) \/ FileLimit(t) \/ FileAppend(t) \/ Limit(t) \/ Found(t)
  <2>1. /\ {"precheck", "file_limit", "limit", "file_create", "execute"} \subseteq Stages \ {"nonce_poll"}
        /\ {"other", "limit", "jsonrpc"} \subseteq Errors \ {"nonce"}
        /\ {"internal", "hash"} \subseteq Answers \ {"nonce_high", "nonce_low"}
    BY DEF Stages, Errors, Answers
  <2>2. \/ Go(t, "precheck") \/ Go(t, "file_limit") \/ Go(t, "limit") \/ Go(t, "file_create")
        \/ Go(t, "execute") \/ Fail(t, "other") \/ Fail(t, "limit") \/ Fail(t, "jsonrpc")
        \/ Reply(t, "internal") \/ Reply(t, "hash")
    BY <1>4 DEF Receive, ExchangeRate, FileLimit, FileAppend, Limit, Found
  <2> QED BY <1>3, <2>1, <2>2
<1>5. ASSUME NEW own \in BOOLEAN, Set(t, [o EXCEPT !.pc = "poll", !.err = "timeout", !.own = own])
      PROVE  NonceInv' /\ NoncesTold
  <2>1. PICK r : r = [o EXCEPT !.pc = "poll", !.err = "timeout", !.own = own]
    OBVIOUS
  <2>2. Set(t, r) /\ Silent(o, r)
    BY <1>5, <2>1 DEF Silent, Request
  <2> QED BY <1>1, <1>2, <2>2, SilentMoves
<1>6. CASE FileCreate(t) \/ Execute(t)
  <2>1. \/ Go(t, "file_append") \/ Go(t, "receipt") \/ Fail(t, "other") \/ Fail(t, "jsonrpc")
        \/ \E own \in BOOLEAN : Set(t, [o EXCEPT !.pc = "poll", !.err = "timeout", !.own = own])
    BY <1>1, <1>6 DEF FileCreate, Execute
  <2>2. /\ {"file_append", "receipt"} \subseteq Stages \ {"nonce_poll"}
        /\ {"other", "jsonrpc"} \subseteq Errors \ {"nonce"}
    BY DEF Stages, Errors
  <2> QED BY <1>3, <1>5, <2>1, <2>2
<1>7. CASE NotFound(t)
  <2>1. PICK x : x = IF o.err = "timeout" THEN "timeout" ELSE "jsonrpc"
    OBVIOUS
  <2>2. PICK n : n = o.tries - 1
    OBVIOUS
  <2>3. o.pc = "poll"
    BY <1>1, <1>7 DEF NotFound, At
  <2>4. PICK r \in {[o EXCEPT !.tries = n], [o EXCEPT !.tries = n, !.pc = "handle", !.err = x]} :
          Set(t, r)
    BY <1>1, <1>7, <2>1, <2>2 DEF NotFound, Tried, Request
  <2>5. r.pc \in {"poll", "handle"} /\ (r.err = o.err \/ r.err = x) /\ r.answer = o.answer
    BY <2>3, <2>4 DEF Request
  <2>6. Silent(o, r)
    BY <2>1, <2>5 DEF Silent
  <2> QED BY <1>1, <1>2, <2>4, <2>6, SilentMoves
<1> QED BY <1>4, <1>6, <1>7

\* What the receipt says of the nonce is what the consensus nodes found.
LEMMA ReceiptKeepsNonces ==
  ASSUME NonceInv, TypeOK', NEW t \in Txs, Receipt(t)
  PROVE  NonceInv' /\ NoncesTold
<1>1. PICK o \in Request : o = req[t] /\ NonceGood(t, o)
  BY DEF NonceInv, TypeOK
<1>2. UNCHANGED <<log, seen>>
  BY DEF Receipt
<1>3. CASE \E i \in 1..Len(log) : (log[i].tx = t /\ ~log[i].ok) /\ Fail(t, "nonce")
  <2>1. PICK r : r = [o EXCEPT !.pc = "handle", !.err = "nonce"]
    OBVIOUS
  <2>2. r.pc = "handle" /\ r.answer = o.answer
    BY <2>1 DEF Request
  <2>3. WrongNonce(t) /\ Set(t, r)
    BY <1>1, <1>3, <2>1 DEF WrongNonce, Fail
  <2>4. NonceGood(t, r) /\ Told(t, req[t], r)
    BY <1>1, <2>2, <2>3 DEF NonceGood, Told
  <2> QED BY <1>2, <2>3, <2>4, RequestKeepsNonces
<1>4. PICK c : c = (t \in Large)
  OBVIOUS
<1>5. CASE Set(t, [o EXCEPT !.pc = "poll", !.own = TRUE, !.submitted = TRUE, !.cleanup = c])
  <2>1. PICK r : r = [o EXCEPT !.pc = "poll", !.own = TRUE, !.submitted = TRUE, !.cleanup = c]
    OBVIOUS
  <2>2. Set(t, r) /\ r.pc = "poll" /\ r.err = o.err /\ r.answer = o.answer
    BY <1>5, <2>1 DEF Request
  <2>3. Silent(o, r)
    BY <2>2 DEF Silent
  <2> QED BY <1>1, <1>2, <2>2, <2>3, SilentMoves
<1> QED BY <1>1, <1>3, <1>4, <1>5 DEF Receipt

LEMMA HandleKeepsNonces ==
  ASSUME NonceInv, TypeOK', NEW t \in Txs, HandleError(t)
  PROVE  NonceInv' /\ NoncesTold
<1>1. PICK o \in Request : o = req[t] /\ NonceGood(t, o)
  BY DEF NonceInv, TypeOK
<1>2. UNCHANGED <<log, seen>>
  BY DEF HandleError
<1>3. CASE o.err = "nonce"
  <2>1. PICK r : r = [o EXCEPT !.pc = "nonce_poll", !.tries = Retries]
    OBVIOUS
  <2>2. Set(t, r)
    BY <1>1, <1>3, <2>1 DEF HandleError
  <2>3. r.err = o.err /\ r.answer = o.answer
    BY <2>1 DEF Request
  <2>4. NonceGood(t, r) /\ Told(t, req[t], r)
    BY <1>1, <1>3, <2>3 DEF NonceGood, Told
  <2> QED BY <1>2, <2>2, <2>4, RequestKeepsNonces
<1>4. CASE o.err # "nonce"
  <2>1. Reply(t, "limit") \/ Reply(t, "internal") \/ Reply(t, "computed_hash")
    BY <1>1, <1>4 DEF HandleError
  <2>2. {"limit", "internal", "computed_hash"} \subseteq Answers \ {"nonce_high", "nonce_low"}
    BY DEF Answers
  <2> QED BY <1>2, <2>1, <2>2, SilentForms
<1> QED BY <1>3, <1>4

\* An answer that is right if it is one of a nonce.
LEMMA ReplyKeepsNonces ==
  ASSUME NonceInv, TypeOK', NEW t \in Txs, NEW a, Reply(t, a), UNCHANGED <<log, seen>>,
         a = "nonce_high" /\ AlmostCurrent(t) => TooHigh(t), a = "nonce_low" => TooLow(t)
  PROVE  NonceInv' /\ NoncesTold
<1>1. PICK o \in Request : o = req[t] /\ NonceGood(t, o)
  BY DEF NonceInv, TypeOK
<1>2. PICK x : x = IF o.early THEN "hash" ELSE a
  OBVIOUS
<1>3. PICK r : r = [o EXCEPT !.pc = "done", !.answer = x]
  OBVIOUS
<1>4. Set(t, r)
  BY <1>1, <1>2, <1>3 DEF Reply
<1>5. r.pc = "done" /\ r.err = o.err /\ r.answer = x
  BY <1>3 DEF Request
<1>6. NonceGood(t, r) /\ Told(t, req[t], r)
  BY <1>1, <1>2, <1>5 DEF NonceGood, Told
<1> QED BY <1>4, <1>6, RequestKeepsNonces

LEMMA PrecheckKeepsNonces ==
  ASSUME NonceInv, TypeOK', NEW t \in Txs, Precheck(t)
  PROVE  NonceInv' /\ NoncesTold
<1>1. UNCHANGED <<log, seen>> /\ TypeOK
  BY DEF Precheck, NonceInv
<1>2. CASE Nonce[t] < MirrorNonce(t)
  <2>1. Reply(t, "nonce_low") /\ TooLow(t)
    BY <1>1, <1>2, LowIsLow DEF Precheck
  <2> QED BY <1>1, <2>1, ReplyKeepsNonces
<1>3. CASE Reply(t, "precheck")
  BY <1>1, <1>3, ReplyKeepsNonces
<1>4. CASE Set(t, [req[t] EXCEPT !.pc = "rate", !.early = Async])
  <2>1. PICK o \in Request : o = req[t]
    BY <1>1 DEF TypeOK
  <2>2. PICK r : r = [o EXCEPT !.pc = "rate", !.early = Async]
    OBVIOUS
  <2>3. Set(t, r) /\ r.pc = "rate" /\ r.err = o.err /\ r.answer = o.answer
    BY <1>4, <2>1, <2>2 DEF Request
  <2>4. Silent(o, r)
    BY <2>3 DEF Silent
  <2> QED BY <1>1, <2>1, <2>3, <2>4, SilentMoves
<1> QED BY <1>2, <1>3, <1>4 DEF Precheck

\* The nonce is looked up until it differs from that of the transaction.
LEMMA NoncePollKeepsNonces ==
  ASSUME NonceInv, TypeOK', NEW t \in Txs, NoncePoll(t)
  PROVE  NonceInv' /\ NoncesTold
<1>1. PICK o \in Request : o = req[t] /\ NonceGood(t, o)
  BY DEF NonceInv, TypeOK
<1>2. UNCHANGED <<log, seen>> /\ TypeOK /\ o.pc = "nonce_poll"
  BY <1>1 DEF NoncePoll, NonceInv, At
<1>3. WrongNonce(t) /\ o.err = "nonce"
  BY <1>1, <1>2 DEF NonceGood
<1>4. MirrorNonce(t) \in Nat /\ Nonce[t] \in Nat
  BY <1>2, NonceAfterNat, SendConstants DEF MirrorNonce, TypeOK
<1>5. CASE Reply(t, "nonce_unknown") \/ Reply(t, "internal")
  BY <1>2, <1>5, ReplyKeepsNonces
<1>6. CASE Nonce[t] > MirrorNonce(t) /\ Reply(t, "nonce_high")
  BY <1>2, <1>3, <1>6, LagIsHarmless, ReplyKeepsNonces
<1>7. CASE Nonce[t] < MirrorNonce(t) /\ Reply(t, "nonce_low")
  BY <1>2, <1>7, LowIsLow, ReplyKeepsNonces
<1>8. PICK n, x : n = o.tries - 1 /\ x = IF o.early THEN "hash" ELSE "nonce_unknown"
  OBVIOUS
<1>9. CASE Set(t, [o EXCEPT !.tries = n]) \/ Set(t, [o EXCEPT !.tries = n, !.pc = "done", !.answer = x])
  <2>1. PICK r \in {[o EXCEPT !.tries = n], [o EXCEPT !.tries = n, !.pc = "done", !.answer = x]} :
          Set(t, r)
    BY <1>9
  <2>2. r.err = o.err /\ (r.answer = o.answer \/ r.answer = x)
    BY <2>1 DEF Request
  <2>3. NonceGood(t, r) /\ Told(t, req[t], r)
    BY <1>1, <1>3, <1>8, <2>2 DEF NonceGood, Told
  <2> QED BY <1>2, <2>1, <2>3, RequestKeepsNonces
<1>10. PICK m \in Nat : m = MirrorNonce(t)
  BY <1>4
<1>11. CASE m # Nonce[t] /\ Reply(t, IF m = 0 THEN "nonce_unknown"
                                    ELSE IF Nonce[t] > m THEN "nonce_high" ELSE "nonce_low")
  BY <1>4, <1>5, <1>6, <1>7, <1>10, <1>11
<1>12. CASE \/ Set(t, Tried(t))
            \/ Set(t, [Tried(t) EXCEPT !.pc = "done",
                                       !.answer = IF req[t].early THEN "hash" ELSE "nonce_unknown"])
  <2>1. Tried(t) = [o EXCEPT !.tries = n]
    BY <1>1, <1>8 DEF Tried
  <2>2. [[o EXCEPT !.tries = n] EXCEPT !.pc = "done", !.answer = x]
          = [o EXCEPT !.tries = n, !.pc = "done", !.answer = x]
    OBVIOUS
  <2> QED BY <1>1, <1>8, <1>9, <1>12, <2>1, <2>2
<1> QED BY <1>5, <1>10, <1>11, <1>12 DEF NoncePoll

\* The log grows by a transaction that is compared with the nonce of its sender.
LEMMA ConsensusKeepsNonces ==
  ASSUME NonceInv, TypeOK', NEW t \in Txs, Consensus(t)
  PROVE  NonceInv' /\ NoncesTold
<1>1. /\ log \in Seq(LogEntry) /\ Len(log) \in Nat /\ seen \in 0..Len(log) /\ req \in [Txs -> Request]
  BY SendConstants DEF NonceInv, TypeOK
<1>2. PICK n \in Nat : n = NonceAfter(Sender[t], Len(log))
  BY <1>1, NonceAfterNat, SendConstants
<1>3. PICK e : e = [tx |-> t, ok |-> Nonce[t] = n, nonce |-> n]
  OBVIOUS
<1>4. /\ log' = Append(log, e) /\ UNCHANGED <<req, seen>>
      /\ e.tx = t /\ (e.ok <=> Nonce[t] = n) /\ e.nonce = n
  BY <1>2, <1>3 DEF Consensus
<1>5. PICK k \in Nat : k = Len(log)
  BY <1>1
<1>6. Len(log') = k + 1 /\ log'[k + 1] = e /\ \A i \in 1..k : log'[i] = log[i]
  BY <1>1, <1>4, <1>5
<1>7. ASSUME NEW a \in Accounts, NEW j \in Nat, j <= k PROVE NonceAfter(a, j)' = NonceAfter(a, j)
  <2>1. SentOk(a, j)' = SentOk(a, j)
    <3>1. \A i \in 1..j : log'[i] = log[i]
      BY <1>5, <1>6, <1>7
    <3> QED BY <3>1 DEF SentOk
  <2> QED BY <2>1 DEF NonceAfter, SentOk
<1>8. LogTrue'
  <2>1. PICK c : c = log'
    OBVIOUS
  <2> SUFFICES ASSUME NEW i \in 1..(k + 1)
               PROVE  /\ c[i].nonce = NonceAfter(Sender[c[i].tx], i - 1)'
                      /\ c[i].ok <=> Nonce[c[i].tx] = c[i].nonce
    BY <1>6, <2>1 DEF LogTrue
  <2>2. CASE i \in 1..k
    <3>1. /\ c[i] = log[i] /\ log[i].nonce = NonceAfter(Sender[log[i].tx], i - 1)
          /\ log[i].ok <=> Nonce[log[i].tx] = log[i].nonce
      BY <1>5, <1>6, <2>1, <2>2 DEF NonceInv, LogTrue
    <3>2. log[i].tx \in Txs
      <4>1. log[i] \in LogEntry
        BY <1>1, <1>5, <2>2
      <4> QED BY <4>1 DEF LogEntry
    <3>3. PICK a \in Accounts : a = Sender[log[i].tx]
      BY <3>2, SendConstants
    <3>4. PICK j \in Nat : j = i - 1 /\ j <= k
      BY <2>2
    <3>5. NonceAfter(a, j)' = NonceAfter(a, j)
      BY <1>7, <3>4
    <3> QED BY <3>1, <3>3, <3>4, <3>5
  <2>3. CASE i = k + 1
    <3>1. /\ c[i].tx = t /\ c[i].nonce = n /\ (c[i].ok <=> Nonce[t] = n)
      BY <1>4, <1>6, <2>1, <2>3
    <3>2. NonceAfter(Sender[t], k)' = NonceAfter(Sender[t], k)
      BY <1>7, SendConstants
    <3>3. NonceAfter(Sender[t], i - 1)' = n
      BY <1>2, <1>5, <2>3, <3>2
    <3> QED BY <3>1, <3>3
  <2> QED BY <2>2, <2>3
<1>9. NoncesTold
  BY <1>4 DEF NoncesTold
<1>10. ASSUME NEW u \in Txs PROVE NonceGood(u, req[u])'
  <2>1. NonceGood(u, req[u]) /\ req'[u] = req[u] /\ Nonce[u] \in Nat /\ Sender[u] \in Accounts
    BY <1>4, SendConstants DEF NonceInv
  <2>2. WrongNonce(u) => WrongNonce(u)'
    BY <1>5, <1>6 DEF WrongNonce
  <2> QED BY <2>1, <2>2 DEF NonceGood
<1> QED BY <1>8, <1>9, <1>10 DEF NonceInv

\* The mirror node imports, or nothing happens to requests and log.
LEMMA ElsewhereKeepsNonces ==
  ASSUME NonceInv, TypeOK', UNCHANGED <<req, log>>, seen' \in {seen, seen + 1}
  PROVE  NonceInv' /\ NoncesTold
<1>1. LogTrue'
  BY DEF NonceInv, LogTrue, NonceAfter
<1>2. ASSUME NEW t \in Txs PROVE NonceGood(t, req[t])'
  BY DEF NonceInv, NonceGood, WrongNonce
<1>3. NoncesTold
  BY DEF NoncesTold
<1> QED BY <1>1, <1>2, <1>3 DEF NonceInv

LEMMA NoncesKeep ==
  ASSUME NonceInv, TypeOK', [Next]_vars
  PROVE  NonceInv' /\ NoncesTold
<1>1. ASSUME NEW t \in Txs, Receive(t) \/ Process(t) PROVE NonceInv' /\ NoncesTold
  BY <1>1, QuietSteps, PrecheckKeepsNonces, ReceiptKeepsNonces, HandleKeepsNonces,
     NoncePollKeepsNonces DEF Process
<1>2. ASSUME NEW t \in Txs, DeleteFile(t) PROVE NonceInv' /\ NoncesTold
  BY <1>2, ElsewhereKeepsNonces DEF DeleteFile
<1>3. ASSUME NEW t \in Txs, Consensus(t) PROVE NonceInv' /\ NoncesTold
  BY <1>3, ConsensusKeepsNonces
<1>4. CASE MirrorImport
  BY <1>4, ElsewhereKeepsNonces DEF MirrorImport
<1>5. CASE UNCHANGED vars
  BY <1>5, ElsewhereKeepsNonces DEF vars
<1> QED BY <1>1, <1>2, <1>3, <1>4, <1>5 DEF Next

\* An error that blames the nonce is on the right side of it, however far the mirror node is
\* behind: "too low" always, "too high" unless the mirror node misses two transactions of the
\* sender (sendRawTransactionErrorHandler, Precheck.nonce).
THEOREM NonceErrorsTell == Spec => NonceErrorsAreRight
<1>1. Init => NonceInv
  BY NonceStarts
<1>2. NonceInv /\ TypeOK' /\ [Next]_vars => NonceInv'
  BY NoncesKeep
<1>3. NonceInv /\ TypeOK' /\ [Next]_vars =>
        [\A t \in Txs : req'[t].answer # req[t].answer => NonceErrorTells(t)]_vars
  BY NoncesKeep DEF NoncesTold
<1> QED BY <1>1, <1>2, <1>3, SendTypeCorrect, PTL DEF Spec, NonceErrorsAreRight

-----------------------------------------------------------------------------

(***************************************************************************)
(* The prechecks of a transaction, for any transactions, states of the     *)
(* sender, prices and limits.                                              *)
(***************************************************************************)

PrecheckWorks ==
  [pc : {"idle", "price", "sender", "receiver", "done"}, tx : RawTxs,
   price : {0} \cup {WithPercentage(p) : p \in NetworkPrices}, verdict : Verdicts,
   payable : BOOLEAN, priced : BOOLEAN, free : BOOLEAN, broken : SUBSET Rules]

(* A request under way has seen what the network is now, and it keeps what *)
(* the checks have established so far.                                     *)
UnderWay(c) == c.pc \in {"price", "sender", "receiver"}
Noticed(c, s, r, p) ==
  UnderWay(c) => /\ Payable(c.tx, s) => c.payable
                 /\ Priced(c.tx, p) => c.priced
                 /\ Free(c.tx, r) => c.free
                 /\ Breaks(c.tx, s, r, p) \subseteq c.broken

SizesPass(tx) == tx.gas >= Intrinsic(tx.zeros, tx.nonzeros)
KeepsValue(tx) == ~(tx.value > 0 /\ tx.value < Coef)

Established(c) ==
  /\ c.pc = "done" <=> c.verdict # "none"
  /\ c.pc \in {"sender", "receiver"} =>
       /\ SizesPass(c.tx)
       /\ EnoughPrice(c.tx, c.price) => c.priced
       /\ EnoughPrice(c.tx, c.price) \/ "price too low" \in c.broken
  /\ c.pc = "receiver" => c.payable /\ c.priced /\ KeepsValue(c.tx) /\ c.tx.to
  /\ c.verdict = "passed" =>
       c.payable /\ c.priced /\ c.free /\ KeepsValue(c.tx) /\ SizesPass(c.tx)
  /\ c.verdict \in Rules => c.verdict \in c.broken

PrecheckInv ==
  /\ PrecheckTypeOK
  /\ \A q \in Checkers : Noticed(check[q], sender, receiver, netPrice) /\ Established(check[q])

LEMMA PrecheckNumbers ==
  /\ RawTxs \subseteq RawTx /\ SomeTx \in RawTxs
  /\ Coef \in Nat /\ Coef > 0 /\ MaxChecked \in Nat
  /\ Percentage \in Nat /\ PriceBuffer \in Nat /\ BaseCost \in Nat /\ ZeroCost \in Nat
  /\ NonZeroCost \in Nat /\ NetworkPrices \subseteq Nat /\ MaxGas \in Nat
  /\ DataLimit \in Nat /\ SizeLimit \in Nat
BY PrecheckConstants DEF SomeTx

(* The verdict of a list of checks: that of one that fails, if one does.   *)
LEMMA LeastIn == ASSUME NEW S \in SUBSET (1..6), S # {} PROVE Min(S) \in S
<1>1. \A y \in S : y = 1 \/ y = 2 \/ y = 3 \/ y = 4 \/ y = 5 \/ y = 6
  OBVIOUS
<1>2. \E x \in S : \A y \in S : x =< y
  <2>1. CASE 1 \in S
    BY <1>1, <2>1
  <2>2. CASE 1 \notin S /\ 2 \in S
    BY <1>1, <2>2
  <2>3. CASE 1 \notin S /\ 2 \notin S /\ 3 \in S
    BY <1>1, <2>3
  <2>4. CASE 1 \notin S /\ 2 \notin S /\ 3 \notin S /\ 4 \in S
    BY <1>1, <2>4
  <2>5. CASE 1 \notin S /\ 2 \notin S /\ 3 \notin S /\ 4 \notin S /\ 5 \in S
    BY <1>1, <2>5
  <2>6. CASE 1 \notin S /\ 2 \notin S /\ 3 \notin S /\ 4 \notin S /\ 5 \notin S
    <3>1. \A y \in S : y = 6
      BY <1>1, <2>6
    <3>2. 6 \in S
      BY <3>1
    <3> QED BY <3>1, <3>2
  <2> QED BY <2>1, <2>2, <2>3, <2>4, <2>5, <2>6
<1> QED BY <1>2 DEF Min

LEMMA RefusalIs ==
  ASSUME NEW n \in 1..6, NEW checks, DOMAIN checks = 1..n
  PROVE  \/ FirstRefusal(checks) = "none" /\ \A i \in 1..n : checks[i].passes
         \/ \E i \in 1..n : ~checks[i].passes /\ FirstRefusal(checks) = checks[i].verdict
<1>1. PICK failing : failing = {i \in DOMAIN checks : ~checks[i].passes}
  OBVIOUS
<1>2. FirstRefusal(checks) = IF failing = {} THEN "none" ELSE checks[Min(failing)].verdict
  BY <1>1 DEF FirstRefusal
<1>3. failing # {} => Min(failing) \in 1..n /\ ~checks[Min(failing)].passes
  <2>1. failing \in SUBSET (1..6) /\ \A i \in failing : i \in 1..n /\ ~checks[i].passes
    BY <1>1
  <2> QED BY <2>1, LeastIn
<1> QED BY <1>1, <1>2, <1>3

LEMMA FiveIs ==
  ASSUME NEW a, NEW b, NEW c, NEW d, NEW e, NEW s, s = <<a, b, c, d, e>>
  PROVE  DOMAIN s = 1..5 /\ s[1] = a /\ s[2] = b /\ s[3] = c /\ s[4] = d /\ s[5] = e
<1>1. DOMAIN s = 1..5
  OBVIOUS
<1> QED BY <1>1

LEMMA SixIs ==
  ASSUME NEW a, NEW b, NEW c, NEW d, NEW e, NEW f, NEW s, s = <<a, b, c, d, e, f>>
  PROVE  /\ DOMAIN s = 1..6 /\ s[1] = a /\ s[2] = b /\ s[3] = c /\ s[4] = d /\ s[5] = e
         /\ s[6] = f
<1>1. DOMAIN s = 1..6
  OBVIOUS
<1> QED BY <1>1

LEMMA CheckIs ==
  ASSUME NEW p \in BOOLEAN, NEW v
  PROVE  Check(p, v).verdict = v /\ (Check(p, v).passes <=> p)
BY DEF Check

LEMMA IntrinsicIsNat ==
  ASSUME NEW m \in Nat, NEW n \in Nat
  PROVE  Intrinsic(m, n) \in Nat
BY PrecheckNumbers DEF Intrinsic

LEMMA SizeChecksPass ==
  ASSUME NEW tx \in RawTxs, NEW s, NEW r, NEW p
  PROVE  /\ FirstRefusal(StaticChecks(tx)) \in {"none"} \cup Breaks(tx, s, r, p)
         /\ FirstRefusal(StaticChecks(tx)) = "none" => SizesPass(tx)
<1>1. PICK checks : checks = StaticChecks(tx)
  OBVIOUS
<1>2. PICK data : data = tx.zeros + tx.nonzeros
  OBVIOUS
<1>3. PICK a : a = Check(data <= DataLimit, "call data size")
  OBVIOUS
<1>4. PICK b : b = Check(data + tx.rest <= SizeLimit, "transaction size")
  OBVIOUS
<1>5. PICK c : c = Check(tx.type # 3, "transaction type")
  OBVIOUS
<1>6. PICK d : d = Check(tx.gas <= MaxGas, "gas too high")
  OBVIOUS
<1>7. PICK e : e = Check(tx.gas >= Intrinsic(tx.zeros, tx.nonzeros), "gas too low")
  OBVIOUS
<1>8. checks = <<a, b, c, d, e>>
  BY <1>1, <1>2, <1>3, <1>4, <1>5, <1>6, <1>7 DEF StaticChecks
<1>9. /\ a.verdict = "call data size" /\ b.verdict = "transaction size"
      /\ c.verdict = "transaction type" /\ d.verdict = "gas too high"
      /\ e.verdict = "gas too low" /\ (e.passes <=> SizesPass(tx))
  BY <1>3, <1>4, <1>5, <1>6, <1>7 DEF Check, SizesPass
<1>10. /\ DOMAIN checks = 1..5 /\ checks[1] = a /\ checks[2] = b /\ checks[3] = c
       /\ checks[4] = d /\ checks[5] = e
  BY <1>8, FiveIs
<1>11. /\ a.passes \/ a.verdict \in Breaks(tx, s, r, p)
       /\ b.passes \/ b.verdict \in Breaks(tx, s, r, p)
       /\ c.passes \/ c.verdict \in Breaks(tx, s, r, p)
       /\ d.passes \/ d.verdict \in Breaks(tx, s, r, p)
       /\ e.passes \/ e.verdict \in Breaks(tx, s, r, p)
  <2>1. /\ a.passes <=> data <= DataLimit
        /\ b.passes <=> data + tx.rest <= SizeLimit
        /\ c.passes <=> tx.type # 3
        /\ d.passes <=> tx.gas <= MaxGas
        /\ e.passes <=> tx.gas >= Intrinsic(tx.zeros, tx.nonzeros)
    BY <1>3, <1>4, <1>5, <1>6, <1>7 DEF Check
  <2>2. PICK zeros \in Nat, nonzeros \in Nat, rest \in Nat, gas \in Nat :
          zeros = tx.zeros /\ nonzeros = tx.nonzeros /\ rest = tx.rest /\ gas = tx.gas
    BY PrecheckNumbers DEF RawTx
  <2>3. PICK intrinsic \in Nat : intrinsic = Intrinsic(tx.zeros, tx.nonzeros)
    BY <2>2, IntrinsicIsNat
  <2>4. PICK data2 \in Nat, whole \in Nat : data2 = zeros + nonzeros /\ whole = data2 + rest
    BY <2>2
  <2>5. /\ a.passes \/ tx.zeros + tx.nonzeros > DataLimit
        /\ b.passes \/ tx.zeros + tx.nonzeros + tx.rest > SizeLimit
        /\ c.passes \/ tx.type = 3
        /\ d.passes \/ tx.gas > MaxGas
        /\ e.passes \/ tx.gas < Intrinsic(tx.zeros, tx.nonzeros)
    BY <1>2, <2>1, <2>2, <2>3, <2>4, PrecheckNumbers
  <2> QED BY <1>9, <2>5 DEF Breaks, Rules, Verdicts
<1>12. \A i \in 1..5 : checks[i].passes \/ checks[i].verdict \in Breaks(tx, s, r, p)
  <2>1. \A i \in 1..5 : i = 1 \/ i = 2 \/ i = 3 \/ i = 4 \/ i = 5
    OBVIOUS
  <2> QED BY <1>10, <1>11, <2>1
<1>13. 5 \in 1..6 /\ 5 \in 1..5
  OBVIOUS
<1>14. \/ FirstRefusal(checks) = "none" /\ \A i \in 1..5 : checks[i].passes
       \/ \E i \in 1..5 : ~checks[i].passes /\ FirstRefusal(checks) = checks[i].verdict
  BY <1>10, <1>13, RefusalIs
<1>15. "none" \notin Breaks(tx, s, r, p)
  BY DEF Breaks, Rules
<1> QED BY <1>1, <1>9, <1>10, <1>12, <1>13, <1>14, <1>15

LEMMA AccountChecksPass ==
  ASSUME NEW tx \in RawTxs, NEW s \in SenderStates, NEW price, NEW r, NEW p
  PROVE  /\ \/ FirstRefusal(AccountChecks(tx, s, price)) \in {"none"} \cup Breaks(tx, s, r, p)
            \/ /\ ~EnoughPrice(tx, price)
               /\ FirstRefusal(AccountChecks(tx, s, price)) = "price too low"
         /\ FirstRefusal(AccountChecks(tx, s, price)) = "none" =>
              Payable(tx, s) /\ KeepsValue(tx) /\ EnoughPrice(tx, price)
<1>1. PICK checks : checks = AccountChecks(tx, s, price)
  OBVIOUS
<1>2. PICK a : a = Check(s.exists, "no sender")
  OBVIOUS
<1>3. PICK b : b = Check(s.nonce <= tx.nonce, "nonce too low")
  OBVIOUS
<1>4. PICK c : c = Check(tx.chain # "other", "chain id")
  OBVIOUS
<1>5. PICK d : d = Check(~(tx.value > 0 /\ tx.value < Coef), "value too low")
  OBVIOUS
<1>6. PICK e : e = Check(EnoughPrice(tx, price), "price too low")
  OBVIOUS
<1>7. PICK f : f = Check(s.balance * Coef >= Cost(tx), "balance")
  OBVIOUS
<1>8. checks = <<a, b, c, d, e, f>>
  BY <1>1, <1>2, <1>3, <1>4, <1>5, <1>6, <1>7 DEF AccountChecks
<1>9. /\ a.verdict = "no sender" /\ b.verdict = "nonce too low" /\ c.verdict = "chain id"
      /\ d.verdict = "value too low" /\ e.verdict = "price too low" /\ f.verdict = "balance"
      /\ a.passes <=> s.exists
      /\ b.passes <=> s.nonce <= tx.nonce
      /\ c.passes <=> tx.chain # "other"
      /\ d.passes <=> KeepsValue(tx)
      /\ e.passes <=> EnoughPrice(tx, price)
      /\ f.passes <=> s.balance * Coef >= Cost(tx)
  BY <1>2, <1>3, <1>4, <1>5, <1>6, <1>7 DEF Check, KeepsValue
<1>10. /\ DOMAIN checks = 1..6 /\ checks[1] = a /\ checks[2] = b /\ checks[3] = c
       /\ checks[4] = d /\ checks[5] = e /\ checks[6] = f
  BY <1>8, SixIs
<1>11. \A i \in 1..6 : \/ checks[i].passes
                       \/ checks[i].verdict \in Breaks(tx, s, r, p)
                       \/ checks[i].verdict = "price too low" /\ ~EnoughPrice(tx, price)
  <2>1. \A i \in 1..6 : i = 1 \/ i = 2 \/ i = 3 \/ i = 4 \/ i = 5 \/ i = 6
    OBVIOUS
  <2>2. PICK old \in Nat, new \in Nat, has \in Nat, costs \in Nat :
          /\ old = s.nonce /\ new = tx.nonce
          /\ has = s.balance * Coef /\ costs = tx.value + tx.price * tx.gas
    <3>1. tx.value \in Nat /\ tx.price \in Nat /\ tx.gas \in Nat /\ tx.nonce \in Nat
      BY PrecheckNumbers DEF RawTx
    <3>2. s.nonce \in Nat /\ s.balance \in Nat
      BY PrecheckConstants
    <3>3. s.balance * Coef \in Nat /\ tx.value + tx.price * tx.gas \in Nat
      BY <3>1, <3>2, PrecheckNumbers
    <3> QED BY <3>1, <3>2, <3>3
  <2>3. /\ a.passes \/ ~s.exists
        /\ b.passes \/ s.nonce > tx.nonce
        /\ f.passes \/ s.balance * Coef < tx.value + tx.price * tx.gas
    <3>1. Cost(tx) = costs
      BY <2>2 DEF Cost
    <3>2. b.passes <=> old <= new
      BY <1>9, <2>2
    <3>3. f.passes <=> has >= costs
      BY <1>9, <2>2, <3>1
    <3>4. b.passes \/ old > new
      BY ONLY <3>2, old \in Nat, new \in Nat
    <3>5. f.passes \/ has < costs
      BY ONLY <3>3, has \in Nat, costs \in Nat
    <3> QED BY ONLY <1>9, <2>2, <3>4, <3>5
  <2>4. /\ a.passes \/ a.verdict \in Breaks(tx, s, r, p)
        /\ b.passes \/ b.verdict \in Breaks(tx, s, r, p)
        /\ c.passes \/ c.verdict \in Breaks(tx, s, r, p)
        /\ d.passes \/ d.verdict \in Breaks(tx, s, r, p)
        /\ f.passes \/ f.verdict \in Breaks(tx, s, r, p)
    BY <1>9, <2>3 DEF KeepsValue, Breaks, Rules, Verdicts
  <2> QED BY <1>9, <1>10, <2>1, <2>4
<1>12. \A i \in {1, 2, 3, 4, 5, 6} : i \in 1..6
  OBVIOUS
<1>13. \/ FirstRefusal(checks) = "none" /\ \A i \in 1..6 : checks[i].passes
       \/ \E i \in 1..6 : ~checks[i].passes /\ FirstRefusal(checks) = checks[i].verdict
  BY <1>10, <1>12, RefusalIs
<1>14. (\A i \in 1..6 : checks[i].passes) =>
         /\ s.exists /\ s.nonce <= tx.nonce /\ KeepsValue(tx) /\ EnoughPrice(tx, price)
         /\ s.balance * Coef >= Cost(tx)
  BY <1>9, <1>10, <1>12
<1>15. Cost(tx) = tx.value + tx.price * tx.gas
  BY DEF Cost
<1>16. "none" \notin Breaks(tx, s, r, p)
  BY DEF Breaks, Rules
<1> QED BY <1>1, <1>11, <1>13, <1>14, <1>15, <1>16 DEF Payable

Receivers == [exists : BOOLEAN, sigRequired : BOOLEAN]

LEMMA PrecheckTypes ==
  ASSUME PrecheckInv
  PROVE  /\ check \in [Checkers -> PrecheckWorks] /\ sender \in SenderStates
         /\ receiver \in Receivers /\ netPrice \in NetworkPrices /\ checked \in 0..MaxChecked
BY DEF PrecheckInv, PrecheckTypeOK, PrecheckWorks, Receivers

(* What the network does is noticed and harms nothing.                     *)
LEMMA SeenIs ==
  ASSUME NEW c \in PrecheckWorks, NEW s \in SenderStates, NEW r \in Receivers,
         NEW p \in NetworkPrices
  PROVE  /\ Seen(c, s, r, p) \in PrecheckWorks /\ Noticed(Seen(c, s, r, p), s, r, p)
         /\ Established(c) => Established(Seen(c, s, r, p))
         /\ Seen(c, s, r, p).pc = c.pc /\ Seen(c, s, r, p).verdict = c.verdict
<1>1. CASE c.pc \in {"idle", "done"}
  BY <1>1 DEF Seen, Noticed, UnderWay
<1>2. CASE c.pc \notin {"idle", "done"}
  <2>1. PICK payable : payable = (c.payable \/ Payable(c.tx, s))
    OBVIOUS
  <2>2. PICK priced : priced = (c.priced \/ Priced(c.tx, p))
    OBVIOUS
  <2>3. PICK free : free = (c.free \/ Free(c.tx, r))
    OBVIOUS
  <2>a. PICK broken : broken = c.broken \cup Breaks(c.tx, s, r, p)
    OBVIOUS
  <2>4. /\ payable \in BOOLEAN /\ priced \in BOOLEAN /\ free \in BOOLEAN
        /\ broken \in SUBSET Rules
    BY <2>1, <2>2, <2>3, <2>a DEF PrecheckWorks, Breaks
  <2>5. PICK d : d = [c EXCEPT !.payable = payable, !.priced = priced, !.free = free,
                               !.broken = broken]
    OBVIOUS
  <2>6. Seen(c, s, r, p) = d
    BY <1>2, <2>1, <2>2, <2>3, <2>a, <2>5 DEF Seen
  <2>7. /\ d \in PrecheckWorks /\ d.pc = c.pc /\ d.tx = c.tx /\ d.price = c.price
        /\ d.verdict = c.verdict /\ d.payable = payable /\ d.priced = priced /\ d.free = free
        /\ d.broken = broken
    BY <2>4, <2>5 DEF PrecheckWorks
  <2>8. Noticed(d, s, r, p)
    BY <2>1, <2>2, <2>3, <2>a, <2>7 DEF Noticed
  <2>9. Established(c) => Established(d)
    BY <2>1, <2>2, <2>3, <2>a, <2>7 DEF Established
  <2> QED BY <2>6, <2>7, <2>8, <2>9
<1> QED BY <1>1, <1>2

LEMMA CheckKept ==
  ASSUME PrecheckInv, NEW q \in Checkers, NEW c \in PrecheckWorks, SetCheck(q, c),
         checked' \in 0..MaxChecked, Noticed(c, sender, receiver, netPrice), Established(c)
  PROVE  PrecheckInv'
<1>1. /\ check' = [check EXCEPT ![q] = c] /\ sender' = sender /\ receiver' = receiver
      /\ netPrice' = netPrice
  BY DEF SetCheck
<1>2. check' \in [Checkers -> PrecheckWorks] /\ \A s \in Checkers : check'[s] = IF s = q THEN c ELSE check[s]
  BY <1>1, PrecheckTypes
<1>3. \A s \in Checkers : Noticed(check'[s], sender, receiver, netPrice) /\ Established(check'[s])
  BY <1>2 DEF PrecheckInv
<1>4. PrecheckTypeOK'
  <2>1. \A s \in Checkers : check'[s].pc = "done" <=> check'[s].verdict # "none"
    BY <1>3 DEF Established
  <2> QED BY <1>1, <1>2, <2>1, PrecheckTypes DEF PrecheckTypeOK, PrecheckWorks, Receivers
<1> QED BY <1>1, <1>3, <1>4 DEF PrecheckInv

LEMMA IdleCheckIs ==
  IdleCheck \in PrecheckWorks /\ IdleCheck.pc = "idle" /\ IdleCheck.verdict = "none"
BY PrecheckNumbers DEF IdleCheck, PrecheckWorks, Verdicts, Rules

LEMMA PrecheckStarts == PrecheckInit => PrecheckInv
<1> SUFFICES ASSUME PrecheckInit PROVE PrecheckInv
  OBVIOUS
<1>1. \A q \in Checkers : check[q] = IdleCheck
  BY DEF PrecheckInit
<1>2. check \in [Checkers -> PrecheckWorks]
  BY IdleCheckIs DEF PrecheckInit
<1>3. Noticed(IdleCheck, sender, receiver, netPrice) /\ Established(IdleCheck)
  BY IdleCheckIs DEF Noticed, Established, UnderWay, Rules
<1>4. PrecheckTypeOK
  BY <1>1, <1>2, IdleCheckIs, PrecheckNumbers DEF PrecheckInit, PrecheckTypeOK, PrecheckWorks
<1> QED BY <1>1, <1>3, <1>4 DEF PrecheckInv

LEMMA NetworkMovesKeeps == ASSUME PrecheckInv, NetworkMoves PROVE PrecheckInv'
<1>1. /\ sender' \in SenderStates /\ receiver' \in Receivers /\ netPrice' \in NetworkPrices
      /\ checked' = checked
      /\ check' = [q \in Checkers |-> Seen(check[q], sender', receiver', netPrice')]
  <2>1. CASE \E s \in SenderStates : sender' = s /\ UNCHANGED <<receiver, netPrice>>
    BY <2>1, PrecheckTypes DEF NetworkMoves
  <2>2. CASE (\E sig \in BOOLEAN : receiver' = [exists |-> TRUE, sigRequired |-> sig])
               /\ UNCHANGED <<sender, netPrice>>
    <3>1. receiver' \in Receivers
      BY <2>2 DEF Receivers
    <3> QED BY <2>2, <3>1, PrecheckTypes DEF NetworkMoves
  <2>3. CASE netPrice' \in NetworkPrices \ {netPrice} /\ UNCHANGED <<sender, receiver>>
    BY <2>3, PrecheckTypes DEF NetworkMoves
  <2> QED BY <2>1, <2>2, <2>3 DEF NetworkMoves
<1>2. ASSUME NEW q \in Checkers
      PROVE  /\ check'[q] \in PrecheckWorks /\ Noticed(check'[q], sender', receiver', netPrice')
             /\ Established(check'[q])
  BY <1>1, SeenIs, PrecheckTypes DEF PrecheckInv
<1>3. check' \in [Checkers -> PrecheckWorks]
  BY <1>1, <1>2
<1>4. PrecheckTypeOK'
  <2>1. \A s \in Checkers : check'[s].pc = "done" <=> check'[s].verdict # "none"
    BY <1>2 DEF Established
  <2> QED BY <1>1, <1>3, <2>1, PrecheckTypes DEF PrecheckTypeOK, PrecheckWorks, Receivers
<1> QED BY <1>2, <1>4 DEF PrecheckInv

LEMMA SubmitKeeps ==
  ASSUME PrecheckInv, NEW q \in Checkers, NEW tx \in RawTxs, Submit(q, tx)
  PROVE  PrecheckInv'
<1>1. PICK c : c = [IdleCheck EXCEPT !.pc = "price", !.tx = tx]
  OBVIOUS
<1>2. c \in PrecheckWorks /\ c.pc = "price" /\ c.verdict = "none"
  BY <1>1, IdleCheckIs DEF PrecheckWorks
<1>3. Established(c)
  BY <1>2 DEF Established, Rules
<1>4. PICK d \in PrecheckWorks : d = Seen(c, sender, receiver, netPrice)
  BY <1>2, SeenIs, PrecheckTypes
<1>5. Noticed(d, sender, receiver, netPrice) /\ Established(d)
  BY <1>2, <1>3, <1>4, SeenIs, PrecheckTypes
<1>6. SetCheck(q, d) /\ checked' \in 0..MaxChecked
  BY <1>1, <1>4, PrecheckTypes, PrecheckNumbers DEF Submit
<1> QED BY <1>5, <1>6, CheckKept

(* A request is answered; only with everything established it is passed on. *)
LEMMA VerdictKeeps ==
  ASSUME PrecheckInv, NEW q \in Checkers, NEW v \in Verdicts \ {"none"},
         Verdict(q, v),
         v = "passed" => LET c == check[q] IN
           c.payable /\ c.priced /\ c.free /\ KeepsValue(c.tx) /\ SizesPass(c.tx),
         v \in Rules => v \in check[q].broken
  PROVE  PrecheckInv'
<1>1. PICK c \in PrecheckWorks : c = check[q]
  BY PrecheckTypes
<1>2. PICK d : d = [c EXCEPT !.pc = "done", !.verdict = v]
  OBVIOUS
<1>3. /\ d \in PrecheckWorks /\ d.pc = "done" /\ d.verdict = v /\ d.tx = c.tx
      /\ d.payable = c.payable /\ d.priced = c.priced /\ d.free = c.free /\ d.broken = c.broken
  BY <1>2 DEF PrecheckWorks
<1>4. SetCheck(q, d) /\ checked' \in 0..MaxChecked
  BY <1>1, <1>2, PrecheckTypes DEF Verdict
<1>5. Noticed(d, sender, receiver, netPrice) /\ Established(d)
  BY <1>1, <1>3 DEF Noticed, UnderWay, Established
<1> QED BY <1>3, <1>4, <1>5, CheckKept

LEMMA PriceReadKeeps ==
  ASSUME PrecheckInv, NEW q \in Checkers, PriceRead(q)
  PROVE  PrecheckInv'
<1>1. PICK c \in PrecheckWorks : c = check[q] /\ c.pc = "price"
  BY PrecheckTypes DEF PriceRead
<1>2. /\ Noticed(c, sender, receiver, netPrice) /\ Established(c) /\ c.tx \in RawTxs
  BY <1>1 DEF PrecheckInv, PrecheckWorks
<1>3. PICK refusal : refusal = FirstRefusal(StaticChecks(c.tx))
  OBVIOUS
<1>4. PICK price : price = WithPercentage(netPrice)
  OBVIOUS
<1>5. price \in {WithPercentage(p) : p \in NetworkPrices}
  BY <1>4, PrecheckTypes
<1>a. Breaks(c.tx, sender, receiver, netPrice) \subseteq c.broken
  BY <1>1, <1>2 DEF Noticed, UnderWay
<1>6. refusal \in {"none"} \cup c.broken /\ (refusal = "none" => SizesPass(c.tx))
  BY <1>2, <1>3, <1>a, SizeChecksPass
<1>b. refusal \in Verdicts \ {"passed"}
  BY <1>6 DEF PrecheckWorks, Rules, Verdicts
<1>7. /\ EnoughPrice(c.tx, price) => c.priced
      /\ EnoughPrice(c.tx, price) \/ "price too low" \in c.broken
  <2>1. EnoughPrice(c.tx, price) <=> Priced(c.tx, netPrice)
    BY <1>4 DEF EnoughPrice, Priced
  <2>2. Priced(c.tx, netPrice) \/ "price too low" \in Breaks(c.tx, sender, receiver, netPrice)
    BY DEF Breaks, Rules, Verdicts
  <2> QED BY <1>1, <1>2, <1>a, <2>1, <2>2 DEF Noticed, UnderWay
<1>8. CASE Verdict(q, "mirror error")
  BY <1>8, VerdictKeeps DEF Verdicts, Rules
<1>9. CASE refusal # "none" /\ SetCheck(q, [check[q] EXCEPT !.pc = "done", !.price = price, !.verdict = refusal])
           /\ UNCHANGED checked
  <2>1. PICK d : d = [c EXCEPT !.pc = "done", !.price = price, !.verdict = refusal]
    OBVIOUS
  <2>2. d \in PrecheckWorks /\ d.pc = "done" /\ d.verdict = refusal /\ d.broken = c.broken
    BY <1>5, <1>b, <2>1 DEF PrecheckWorks
  <2>3. Noticed(d, sender, receiver, netPrice) /\ Established(d)
    BY <1>6, <1>b, <1>9, <2>2 DEF Noticed, UnderWay, Established
  <2> QED BY <1>1, <1>9, <2>1, <2>2, <2>3, CheckKept, PrecheckTypes
<1>10. CASE refusal = "none" /\ SetCheck(q, [check[q] EXCEPT !.pc = "sender", !.price = price])
            /\ UNCHANGED checked
  <2>1. PICK d : d = [c EXCEPT !.pc = "sender", !.price = price]
    OBVIOUS
  <2>2. /\ d \in PrecheckWorks /\ d.pc = "sender" /\ d.verdict = c.verdict /\ d.tx = c.tx
        /\ d.payable = c.payable /\ d.priced = c.priced /\ d.free = c.free /\ d.price = price
        /\ d.broken = c.broken
    BY <1>5, <2>1 DEF PrecheckWorks
  <2>3. Noticed(d, sender, receiver, netPrice)
    BY <1>1, <1>2, <2>2 DEF Noticed, UnderWay
  <2>4. Established(d)
    BY <1>1, <1>2, <1>6, <1>7, <1>10, <2>2 DEF Established, Rules
  <2> QED BY <1>1, <1>10, <2>1, <2>2, <2>3, <2>4, CheckKept, PrecheckTypes
<1> QED BY <1>1, <1>3, <1>4, <1>8, <1>9, <1>10 DEF PriceRead

LEMMA SenderReadKeeps ==
  ASSUME PrecheckInv, NEW q \in Checkers, SenderRead(q)
  PROVE  PrecheckInv'
<1>1. PICK c \in PrecheckWorks : c = check[q] /\ c.pc = "sender"
  BY PrecheckTypes DEF SenderRead
<1>2. Noticed(c, sender, receiver, netPrice) /\ Established(c) /\ c.tx \in RawTxs
  BY <1>1 DEF PrecheckInv, PrecheckWorks
<1>3. PICK refusal : refusal = FirstRefusal(AccountChecks(c.tx, sender, c.price))
  OBVIOUS
<1>4. /\ refusal \in {"none"} \cup c.broken
      /\ refusal = "none" => /\ Payable(c.tx, sender) /\ KeepsValue(c.tx)
                             /\ EnoughPrice(c.tx, c.price)
  <2>1. Breaks(c.tx, sender, receiver, netPrice) \subseteq c.broken
    BY <1>1, <1>2 DEF Noticed, UnderWay
  <2>2. EnoughPrice(c.tx, c.price) \/ "price too low" \in c.broken
    BY <1>1, <1>2 DEF Established
  <2>3. /\ \/ refusal \in {"none"} \cup Breaks(c.tx, sender, receiver, netPrice)
           \/ ~EnoughPrice(c.tx, c.price) /\ refusal = "price too low"
        /\ refusal = "none" => /\ Payable(c.tx, sender) /\ KeepsValue(c.tx)
                               /\ EnoughPrice(c.tx, c.price)
    BY <1>2, <1>3, AccountChecksPass, PrecheckTypes
  <2> QED BY <2>1, <2>2, <2>3
<1>a. refusal \in Verdicts \ {"passed"}
  BY <1>4 DEF PrecheckWorks, Rules, Verdicts
<1>5. refusal = "none" => c.payable /\ c.priced /\ KeepsValue(c.tx) /\ SizesPass(c.tx)
  BY <1>1, <1>2, <1>4 DEF Noticed, UnderWay, Established
<1>6. CASE Verdict(q, "mirror error")
  BY <1>6, VerdictKeeps DEF Verdicts, Rules
<1>7. CASE refusal # "none" /\ Verdict(q, refusal)
  BY <1>1, <1>4, <1>a, <1>7, VerdictKeeps
<1>8. CASE refusal = "none" /\ ~c.tx.to /\ Verdict(q, "passed")
  <2>1. c.free
    BY <1>1, <1>2, <1>8 DEF Noticed, UnderWay, Free
  <2> QED BY <1>1, <1>5, <1>8, <2>1, VerdictKeeps DEF Verdicts, Rules
<1>9. CASE /\ refusal = "none" /\ c.tx.to
           /\ SetCheck(q, [check[q] EXCEPT !.pc = "receiver"]) /\ UNCHANGED checked
  <2>1. PICK d : d = [c EXCEPT !.pc = "receiver"]
    OBVIOUS
  <2>2. /\ d \in PrecheckWorks /\ d.pc = "receiver" /\ d.verdict = c.verdict /\ d.tx = c.tx
        /\ d.payable = c.payable /\ d.priced = c.priced /\ d.free = c.free /\ d.price = c.price
        /\ d.broken = c.broken
    BY <2>1 DEF PrecheckWorks
  <2>3. Noticed(d, sender, receiver, netPrice)
    BY <1>1, <1>2, <2>2 DEF Noticed, UnderWay
  <2>4. Established(d)
    BY <1>1, <1>2, <1>5, <1>9, <2>2 DEF Established, Rules
  <2> QED BY <1>1, <1>9, <2>1, <2>2, <2>3, <2>4, CheckKept, PrecheckTypes
<1> QED BY <1>1, <1>3, <1>6, <1>7, <1>8, <1>9 DEF SenderRead

LEMMA ReceiverReadKeeps ==
  ASSUME PrecheckInv, NEW q \in Checkers, ReceiverRead(q)
  PROVE  PrecheckInv'
<1>1. PICK c \in PrecheckWorks : c = check[q] /\ c.pc = "receiver"
  BY PrecheckTypes DEF ReceiverRead
<1>2. Noticed(c, sender, receiver, netPrice) /\ Established(c)
  BY <1>1 DEF PrecheckInv
<1>3. c.payable /\ c.priced /\ KeepsValue(c.tx) /\ SizesPass(c.tx)
  BY <1>1, <1>2 DEF Established
<1>4. ~(receiver.exists /\ receiver.sigRequired) => c.free
  BY <1>1, <1>2 DEF Noticed, UnderWay, Free
<1>5. PICK v : v = IF receiver.exists /\ receiver.sigRequired THEN "receiver signature" ELSE "passed"
  OBVIOUS
<1>6. Verdict(q, "mirror error") \/ Verdict(q, v)
  BY <1>5 DEF ReceiverRead
<1>7. v \in Verdicts \ {"none"} /\ "mirror error" \in Verdicts \ {"none"}
  BY <1>5 DEF Verdicts
<1>8. v = "passed" => c.free
  BY <1>4, <1>5
<1>9. "mirror error" \notin Rules /\ "passed" \notin Rules
  BY DEF Rules
<1>10. v \in Rules => v \in c.broken
  <2>1. v \in Rules => v = "receiver signature" /\ receiver.exists /\ receiver.sigRequired
    BY <1>5, <1>9
  <2>2. Free(c.tx, receiver) \/ "receiver signature" \in Breaks(c.tx, sender, receiver, netPrice)
    BY DEF Breaks, Rules, Verdicts
  <2>3. Breaks(c.tx, sender, receiver, netPrice) \subseteq c.broken
    BY <1>1, <1>2 DEF Noticed, UnderWay
  <2>4. c.tx.to
    BY <1>1, <1>2 DEF Established
  <2> QED BY <2>1, <2>2, <2>3, <2>4 DEF Free
<1> QED BY <1>1, <1>3, <1>6, <1>7, <1>8, <1>9, <1>10, VerdictKeeps

LEMMA PrechecksStep == PrecheckInv /\ [PrecheckNext]_precheckVars => PrecheckInv'
<1> SUFFICES ASSUME PrecheckInv, [PrecheckNext]_precheckVars PROVE PrecheckInv'
  OBVIOUS
<1>1. CASE UNCHANGED precheckVars
  BY <1>1 DEF precheckVars, PrecheckInv, PrecheckTypeOK
<1> QED
  BY <1>1, NetworkMovesKeeps, SubmitKeeps, PriceReadKeeps, SenderReadKeeps, ReceiverReadKeeps
  DEF PrecheckNext

LEMMA PrecheckFollows == PrecheckInv => PrechecksRight
<1> SUFFICES ASSUME PrecheckInv PROVE PrechecksRight
  OBVIOUS
<1>1. PassedWasRight
  BY DEF PrecheckInv, Established, PassedWasRight
<1>2. ASSUME NEW q \in Checkers, check[q].verdict = "passed", NEW tx \in RawTxs, tx = check[q].tx
      PROVE  /\ tx.value = 0 \/ tx.value \div Coef > 0
             /\ tx.gas - BaseCost >= ZeroCost * tx.zeros + NonZeroCost * tx.nonzeros
  <2>1. KeepsValue(tx) /\ SizesPass(tx)
    BY <1>2 DEF PrecheckInv, Established
  <2>2. PICK v \in Nat : v = tx.value
    BY PrecheckNumbers DEF RawTx
  <2>3. v = 0 \/ v >= Coef
    BY <2>1, <2>2, PrecheckNumbers DEF KeepsValue
  <2>4. v >= Coef => v \div Coef > 0
    BY PrecheckNumbers
  <2>5. PICK zeros \in Nat, nonzeros \in Nat, gas \in Nat :
          zeros = tx.zeros /\ nonzeros = tx.nonzeros /\ gas = tx.gas
    BY PrecheckNumbers DEF RawTx
  <2>6. PICK m \in Nat, n \in Nat : m = ZeroCost * zeros /\ n = NonZeroCost * nonzeros
    BY <2>5, PrecheckNumbers
  <2>7. gas >= BaseCost + m + n
    BY <2>1, <2>5, <2>6 DEF SizesPass, Intrinsic
  <2>8. gas - BaseCost >= m + n
    BY <2>7, PrecheckNumbers
  <2> QED BY <2>2, <2>3, <2>4, <2>5, <2>6, <2>8
<1>3. NothingIsLost
  BY <1>2, PrecheckTypes DEF NothingIsLost, PrecheckWorks
<1>4. RefusedWasWrong
  BY DEF PrecheckInv, Established, RefusedWasWrong
<1> QED BY <1>1, <1>3, <1>4 DEF PrechecksRight, PrecheckInv

(* A transaction that passed the prechecks could be paid by its sender     *)
(* with a nonce not used yet, at one and the same moment while it was      *)
(* checked, and its price and its receiver were right while it was; its    *)
(* amount is not lost in the conversion and its gas pays for its data.     *)
(* One that is refused broke the rule the refusal names while it was       *)
(* checked.  For any limits and prices, whatever the network does between  *)
(* the three look-ups (sendRawTransactionCheck).                           *)
THEOREM PassedTransactionsAreRight == PrecheckSpec => []PrechecksRight
BY PrecheckStarts, PrechecksStep, PrecheckFollows, PTL DEF PrecheckSpec

-----------------------------------------------------------------------------

(***************************************************************************)
(* Gas estimates, for any requests, prices and gas the relay assumes.      *)
(***************************************************************************)

EstimateWorks ==
  [pc : {"idle", "format", "mirror", "account", "done"}, ask : EstimateAsks, gas : Nat,
   answer : {"none", "gas", "contract revert", "invalid value", "mirror error", "type error"}]

(* What a gas limit must be, and data that the fallback did not see.       *)
DataOf(a) == a.zeros + a.nonzeros
NotSeen(a) == a.input /\ ~a.priced
Fits(a, gas, exists) ==
  /\ gas <= MaxGas
  /\ gas >= Intrinsic(a.zeros, a.nonzeros) \/ (a.to /\ Intrinsic(a.zeros, a.nonzeros) > AverageGas)
       \/ NotSeen(a)
  /\ a.to /\ DataOf(a) = 0 => exists \/ gas >= HollowGas

Estimating(w, exists) ==
  /\ w.gas > 0 <=> w.answer = "gas"
  /\ w.pc = "format" => ~w.ask.priced
  /\ w.pc = "account" => w.ask.to /\ (DataOf(w.ask) = 0 \/ NotSeen(w.ask))
  /\ w.answer = "gas" => Fits(w.ask, w.gas, exists)

EstimateInv ==
  /\ PrecheckInv
  /\ est \in [Estimators -> EstimateWorks] /\ estimates \in 0..MaxEstimates
  /\ accountKept \in BOOLEAN /\ (accountKept => receiver.exists)
  /\ \A e \in Estimators : Estimating(est[e], receiver.exists)

LEMMA EstimateNumbers ==
  /\ EstimateAsks \subseteq EstimateAsk /\ SomeAsk \in EstimateAsks
  /\ AverageGas \in Nat /\ HollowGas \in Nat /\ DefaultGas \in Nat /\ SelectorSize \in Nat
  /\ MaxEstimates \in Nat /\ BaseCost \in Nat /\ MaxGas \in Nat
BY EstimateConstants, PrecheckConstants DEF SomeAsk

LEMMA AskIs ==
  ASSUME NEW a \in EstimateAsks
  PROVE  /\ DataOf(a) \in Nat /\ Intrinsic(a.zeros, a.nonzeros) \in Nat
         /\ Intrinsic(a.zeros, a.nonzeros) >= BaseCost
         /\ DataOf(a) = 0 => Intrinsic(a.zeros, a.nonzeros) = BaseCost
         /\ DataOf(a) < SelectorSize => Intrinsic(a.zeros, a.nonzeros) <= DefaultGas
         /\ a.to \in BOOLEAN /\ a.input \in BOOLEAN /\ a.priced \in BOOLEAN
<1>1. /\ a.zeros \in Nat /\ a.nonzeros \in Nat
      /\ a.to \in BOOLEAN /\ a.input \in BOOLEAN /\ a.priced \in BOOLEAN
  BY EstimateConstants DEF EstimateAsk
<1>2. PICK z \in Nat, n \in Nat : z = a.zeros /\ n = a.nonzeros
  BY <1>1
<1>3. ZeroCost * z \in Nat /\ NonZeroCost * n \in Nat
  BY PrecheckNumbers
<1>4. Intrinsic(z, n) \in Nat /\ Intrinsic(z, n) >= BaseCost
  BY <1>3, PrecheckNumbers DEF Intrinsic
<1>5. ASSUME z + n = 0 PROVE Intrinsic(z, n) = BaseCost
  <2>1. z = 0 /\ n = 0
    BY <1>5
  <2> QED BY <2>1, PrecheckNumbers DEF Intrinsic
<1>6. ASSUME z + n < SelectorSize PROVE Intrinsic(z, n) <= DefaultGas
  <2>1. z \in 0..SelectorSize /\ n \in 0..SelectorSize
    BY <1>6, EstimateNumbers
  <2> QED BY <1>6, <2>1, GasFits
<1> QED BY <1>1, <1>2, <1>4, <1>5, <1>6 DEF DataOf

LEMMA EstimateTypes ==
  ASSUME EstimateInv
  PROVE  EstimateTypeOK
BY DEF EstimateInv, Estimating, EstimateTypeOK, EstimateWorks

LEMMA EstimateKept ==
  ASSUME EstimateInv, NEW e \in Estimators, NEW v \in EstimateWorks,
         est' \in [Estimators -> EstimateWorks], est'[e] = v,
         \A s \in Estimators \ {e} : est'[s] = est[s], UNCHANGED precheckVars,
         estimates' \in 0..MaxEstimates, accountKept' \in BOOLEAN,
         accountKept' => receiver.exists, Estimating(v, receiver.exists)
  PROVE  EstimateInv'
<1>1. PrecheckInv' /\ receiver' = receiver
  BY DEF precheckVars, EstimateInv, PrecheckInv, PrecheckTypeOK
<1>2. \A s \in Estimators : Estimating(est'[s], receiver.exists)
  BY DEF EstimateInv
<1> QED BY <1>1, <1>2 DEF EstimateInv

LEMMA GasIfAny ==
  ASSUME NEW g \in Nat, NEW answered \in BOOLEAN, IF answered THEN g > 0 ELSE g = 0
  PROVE  g > 0 <=> answered
OBVIOUS

(* A request is answered, with gas or an error.                            *)
LEMMA FinishKeeps ==
  ASSUME EstimateInv, NEW e \in Estimators, NEW g \in Nat,
         NEW answer,
         answer \in {"gas", "contract revert", "invalid value", "mirror error", "type error"},
         Finish(e, answer, g), UNCHANGED <<precheckVars, estimates>>,
         accountKept' \in BOOLEAN, accountKept' => receiver.exists,
         IF answer = "gas" THEN g > 0 /\ Fits(est[e].ask, g, receiver.exists) ELSE g = 0
  PROVE  EstimateInv'
<1>1. est \in [Estimators -> EstimateWorks] /\ est[e] \in EstimateWorks
  BY DEF EstimateInv
<1>2. PICK v : v = [est[e] EXCEPT !.pc = "done", !.answer = answer, !.gas = g]
  OBVIOUS
<1>3. /\ v \in EstimateWorks /\ v.pc = "done" /\ v.answer = answer /\ v.gas = g
      /\ v.ask = est[e].ask
  BY <1>1, <1>2 DEF EstimateWorks
<1>4. est' = [est EXCEPT ![e] = v]
  BY <1>1, <1>2 DEF Finish
<1>5. est'[e] = v /\ est' \in [Estimators -> EstimateWorks]
      /\ \A s \in Estimators \ {e} : est'[s] = est[s]
  BY <1>1, <1>3, <1>4
<1>6. Estimating(v, receiver.exists)
  <2>1. v.gas > 0 <=> v.answer = "gas"
    <3>1. PICK answered \in BOOLEAN : answered <=> answer = "gas"
      OBVIOUS
    <3>2. IF answered THEN g > 0 ELSE g = 0
      BY <3>1
    <3>3. g > 0 <=> answered
      BY <3>2, GasIfAny
    <3> QED BY <1>3, <3>1, <3>3
  <2>2. v.answer = "gas" => Fits(v.ask, v.gas, receiver.exists)
    BY <1>3
  <2>3. v.pc # "format" /\ v.pc # "account"
    BY <1>3
  <2> QED BY <2>1, <2>2, <2>3 DEF Estimating
<1> QED BY <1>3, <1>5, <1>6, EstimateKept DEF EstimateInv

LEMMA ErrorKeeps ==
  ASSUME EstimateInv, NEW e \in Estimators,
         NEW answer, answer \in {"contract revert", "invalid value", "mirror error", "type error"},
         Finish(e, answer, 0), UNCHANGED <<precheckVars, estimates>>, accountKept' = accountKept
  PROVE  EstimateInv'
<1>1. answer # "gas"
  OBVIOUS
<1>2. 0 \in Nat
  OBVIOUS
<1>3. accountKept' \in BOOLEAN /\ (accountKept' => receiver.exists)
  BY DEF EstimateInv
<1> QED BY <1>1, <1>2, <1>3, FinishKeeps

LEMMA SetEstimateKeeps ==
  ASSUME EstimateInv, NEW e \in Estimators, NEW pc \in {"mirror", "account"},
         SetEstimate(e, pc), UNCHANGED <<precheckVars, accountKept, estimates>>,
         pc = "account" => LET a == est[e].ask IN a.to /\ (DataOf(a) = 0 \/ NotSeen(a))
  PROVE  EstimateInv'
<1>1. est \in [Estimators -> EstimateWorks] /\ est[e] \in EstimateWorks
  BY DEF EstimateInv
<1>2. PICK v : v = [est[e] EXCEPT !.pc = pc]
  OBVIOUS
<1>3. v \in EstimateWorks /\ v.pc = pc /\ v.answer = est[e].answer /\ v.gas = est[e].gas
      /\ v.ask = est[e].ask
  BY <1>1, <1>2 DEF EstimateWorks
<1>4. est' = [est EXCEPT ![e] = v]
  BY <1>1, <1>2 DEF SetEstimate
<1>5. est'[e] = v /\ est' \in [Estimators -> EstimateWorks]
      /\ \A s \in Estimators \ {e} : est'[s] = est[s]
  BY <1>1, <1>3, <1>4
<1>6. Estimating(v, receiver.exists)
  BY <1>3 DEF EstimateInv, Estimating
<1> QED BY <1>3, <1>5, <1>6, EstimateKept DEF EstimateInv

(* The relay's own gas: the data it does not see are data it was not given *)
(* a price for.                                                            *)
LEMMA FallbackKeeps ==
  ASSUME EstimateInv, NEW e \in Estimators, NEW error, NEW formatted \in BOOLEAN,
         Fallback(e, error, formatted), UNCHANGED <<precheckVars, accountKept, estimates>>,
         ~formatted => ~est[e].ask.priced
  PROVE  EstimateInv'
<1>1. PICK a \in EstimateAsks : a = est[e].ask
  BY DEF EstimateInv, EstimateWorks
<1>2. PICK bytes \in Nat : bytes = Bytes(a, formatted)
  BY <1>1, AskIs DEF Bytes, DataOf
<1>3. (a.input /\ ~formatted => bytes = 0 /\ NotSeen(a)) /\ (~(a.input /\ ~formatted) => bytes = DataOf(a))
  BY <1>1, <1>2 DEF Bytes, DataOf, NotSeen
<1>4. accountKept' \in BOOLEAN /\ (accountKept' => receiver.exists)
  BY DEF EstimateInv
<1>5. CASE a.to /\ bytes = 0
  <2>1. Transfer(e)
    BY <1>1, <1>2, <1>5 DEF Fallback
  <2>2. CASE a.hasValue
    BY <1>1, <1>3, <1>5, <2>1, <2>2, SetEstimateKeeps DEF Transfer
  <2>3. CASE ~a.hasValue
    BY <2>1, <2>3, <1>1, ErrorKeeps DEF Transfer
  <2> QED BY <2>2, <2>3
<1>6. CASE ~a.to /\ bytes > 0
  <2>1. Creation(e, error, formatted)
    BY <1>1, <1>2, <1>5, <1>6 DEF Fallback
  <2>2. PICK gas \in Nat : gas = CostOf(a, formatted)
    BY <1>1, <1>2, AskIs, EstimateNumbers DEF CostOf
  <2>3. gas > 0 /\ Fits(a, gas, receiver.exists)
    BY <1>1, <1>3, <1>6, <2>2, AskIs, EstimateNumbers, GasFits DEF CostOf, Fits, NotSeen
  <2>4. Finish(e, "type error", 0) \/ Finish(e, "contract revert", 0) \/ Finish(e, "gas", gas)
    BY <1>1, <2>1, <2>2 DEF Creation
  <2>5. CASE Finish(e, "gas", gas)
    BY <1>1, <1>4, <2>3, <2>5, FinishKeeps
  <2> QED BY <2>4, <2>5, ErrorKeeps
<1>7. CASE a.to /\ bytes >= SelectorSize /\ bytes # 0
  <2>1. Finish(e, "gas", AverageGas)
    BY <1>1, <1>2, <1>7 DEF Fallback
  <2>2. AverageGas > 0 /\ Fits(a, AverageGas, receiver.exists)
    BY <1>3, <1>7, AskIs, EstimateNumbers, GasFits DEF Fits
  <2> QED BY <1>1, <1>4, <2>1, <2>2, FinishKeeps, EstimateNumbers
<1>8. CASE (~a.to /\ bytes = 0) \/ (a.to /\ bytes < SelectorSize /\ bytes # 0)
  <2>1. Finish(e, "gas", DefaultGas)
    BY <1>1, <1>2, <1>8, EstimateNumbers DEF Fallback
  <2>2. bytes < SelectorSize
    BY <1>8, EstimateNumbers, GasFits
  <2>3. PICK cost \in Nat : cost = Intrinsic(a.zeros, a.nonzeros) /\ cost >= BaseCost
    BY AskIs
  <2>4. DefaultGas >= BaseCost
    <3>1. 0 \in 0..SelectorSize /\ 0 + 0 < SelectorSize
      BY EstimateNumbers, GasFits
    <3>2. Intrinsic(0, 0) <= DefaultGas
      BY <3>1, GasFits
    <3> QED BY <3>2, PrecheckNumbers, EstimateNumbers DEF Intrinsic
  <2>5. DefaultGas > 0 /\ Fits(a, DefaultGas, receiver.exists)
    BY <1>3, <1>8, <2>2, <2>4, AskIs, EstimateNumbers, GasFits DEF Fits
  <2> QED BY <1>1, <1>4, <2>1, <2>5, FinishKeeps, EstimateNumbers
<1> QED BY <1>1, <1>5, <1>6, <1>7, <1>8, AskIs, EstimateNumbers

LEMMA IdleEstimateIs ==
  /\ IdleEstimate \in EstimateWorks /\ IdleEstimate.pc = "idle"
  /\ IdleEstimate.answer = "none" /\ IdleEstimate.gas = 0
BY EstimateNumbers DEF IdleEstimate, EstimateWorks

LEMMA EstimateStarts == PrecheckInit /\ EstimateInit => EstimateInv
<1> SUFFICES ASSUME PrecheckInit, EstimateInit PROVE EstimateInv
  OBVIOUS
<1>1. \A e \in Estimators : est[e] = IdleEstimate
  BY DEF EstimateInit
<1>2. est \in [Estimators -> EstimateWorks]
  BY IdleEstimateIs DEF EstimateInit
<1>3. \A e \in Estimators : Estimating(est[e], receiver.exists)
  BY <1>1, IdleEstimateIs DEF Estimating
<1>4. estimates \in 0..MaxEstimates /\ accountKept = FALSE
  BY EstimateNumbers DEF EstimateInit
<1> QED BY <1>2, <1>3, <1>4, PrecheckStarts DEF EstimateInv

LEMMA AskKeeps ==
  ASSUME EstimateInv, NEW e \in Estimators, NEW a \in EstimateAsks, estimateGas(e, a)
  PROVE  EstimateInv'
<1>1. PICK pc \in {"mirror", "format"} : pc = IF a.priced THEN "mirror" ELSE "format"
  OBVIOUS
<1>2. PICK v : v = [IdleEstimate EXCEPT !.ask = a, !.pc = pc]
  OBVIOUS
<1>3. v \in EstimateWorks /\ v.pc = pc /\ v.ask = a /\ v.answer = "none" /\ v.gas = 0
  BY <1>2, IdleEstimateIs DEF EstimateWorks
<1>4. est' = [est EXCEPT ![e] = v] /\ est \in [Estimators -> EstimateWorks]
  BY <1>1, <1>2 DEF estimateGas, EstimateInv
<1>5. est'[e] = v /\ est' \in [Estimators -> EstimateWorks]
      /\ \A s \in Estimators \ {e} : est'[s] = est[s]
  BY <1>3, <1>4
<1>6. Estimating(v, receiver.exists)
  BY <1>1, <1>3 DEF Estimating
<1>7. estimates' \in 0..MaxEstimates /\ accountKept' = accountKept /\ UNCHANGED precheckVars
  BY EstimateNumbers DEF estimateGas, EstimateInv
<1> QED BY <1>3, <1>5, <1>6, <1>7, EstimateKept DEF EstimateInv

LEMMA FormatKeeps ==
  ASSUME EstimateInv, NEW e \in Estimators, Format(e)
  PROVE  EstimateInv'
<1>1. ~est[e].ask.priced
  BY DEF EstimateInv, Estimating, Format
<1>2. UNCHANGED <<precheckVars, accountKept, estimates>>
  BY DEF Format
<1>3. CASE SetEstimate(e, "mirror")
  BY <1>2, <1>3, SetEstimateKeeps
<1>4. CASE Fallback(e, "json", FALSE)
  BY <1>1, <1>2, <1>4, FallbackKeeps
<1>5. CASE Fallback(e, "other", FALSE)
  BY <1>1, <1>2, <1>5, FallbackKeeps
<1> QED BY <1>3, <1>4, <1>5 DEF Format

LEMMA EstimatedKeeps ==
  ASSUME EstimateInv, NEW e \in Estimators, Estimated(e)
  PROVE  EstimateInv'
<1>1. PICK a \in EstimateAsks : a = est[e].ask
  BY DEF EstimateInv, EstimateWorks
<1>2. UNCHANGED <<precheckVars, accountKept, estimates>>
  BY DEF Estimated
<1>3. accountKept' \in BOOLEAN /\ (accountKept' => receiver.exists)
  BY <1>2 DEF EstimateInv
<1>4. CASE Finish(e, "gas", Needed(a))
  <2>1. PICK gas \in Nat : gas = Needed(a)
    BY AskIs, EstimateNumbers DEF Needed
  <2>2. gas > 0 /\ Fits(a, gas, receiver.exists)
    BY <2>1, AskIs, EstimateNumbers, GasFits DEF Needed, Fits, DataOf
  <2> QED BY <1>1, <1>2, <1>3, <1>4, <2>1, <2>2, FinishKeeps
<1>5. ASSUME NEW error, Finish(e, "contract revert", 0) PROVE EstimateInv'
  BY <1>2, <1>5, ErrorKeeps
<1>6. ASSUME NEW error, Fallback(e, error, TRUE) PROVE EstimateInv'
  BY <1>2, <1>6, FallbackKeeps
<1> QED BY <1>1, <1>4, <1>5, <1>6 DEF Estimated

LEMMA AccountFoundKeeps ==
  ASSUME EstimateInv, NEW e \in Estimators, AccountFound(e)
  PROVE  EstimateInv'
<1>1. PICK a \in EstimateAsks : a = est[e].ask
  BY DEF EstimateInv, EstimateWorks
<1>2. a.to /\ (DataOf(a) = 0 \/ NotSeen(a)) /\ UNCHANGED <<precheckVars, estimates>>
  BY <1>1 DEF EstimateInv, Estimating, AccountFound
<1>3. receiver.exists \in BOOLEAN /\ accountKept \in BOOLEAN /\ (accountKept => receiver.exists)
  BY PrecheckTypes DEF EstimateInv, Receivers
<1>4. CASE Finish(e, "gas", GasToTransfer(accountKept \/ receiver.exists))
            /\ accountKept' = (accountKept \/ receiver.exists)
  <2>1. PICK gas \in Nat : gas = GasToTransfer(accountKept \/ receiver.exists)
    BY EstimateNumbers DEF GasToTransfer
  <2>2. gas > 0 /\ Fits(a, gas, receiver.exists)
    BY <1>2, <1>3, <2>1, AskIs, EstimateNumbers, GasFits DEF GasToTransfer, Fits
  <2> QED BY <1>1, <1>2, <1>3, <1>4, <2>1, <2>2, FinishKeeps
<1>5. CASE ~accountKept /\ Finish(e, "mirror error", 0) /\ UNCHANGED accountKept
  BY <1>2, <1>5, ErrorKeeps
<1> QED BY <1>4, <1>5 DEF AccountFound

LEMMA NetworkMovesOn ==
  ASSUME EstimateInv, NetworkMoves, UNCHANGED estimateVars
  PROVE  EstimateInv'
<1>1. PrecheckInv' /\ est' = est /\ accountKept' = accountKept /\ estimates' = estimates
  BY NetworkMovesKeeps DEF EstimateInv, estimateVars
<1>2. receiver.exists => receiver'.exists
  BY DEF NetworkMoves
<1>3. \A e \in Estimators : Estimating(est[e], receiver'.exists)
  BY <1>2 DEF EstimateInv, Estimating, Fits
<1> QED BY <1>1, <1>2, <1>3 DEF EstimateInv

LEMMA EstimateStep == EstimateInv /\ [GasNext]_gasVars => EstimateInv'
<1> SUFFICES ASSUME EstimateInv, [GasNext]_gasVars PROVE EstimateInv'
  OBVIOUS
<1>1. CASE UNCHANGED gasVars
  BY <1>1 DEF gasVars, precheckVars, estimateVars, EstimateInv, PrecheckInv, PrecheckTypeOK
<1> QED
  BY <1>1, NetworkMovesOn, FormatKeeps, EstimatedKeeps, AccountFoundKeeps, AskKeeps DEF GasNext

LEMMA EstimateFollows == EstimateInv => EstimatesRight
<1> SUFFICES ASSUME EstimateInv PROVE EstimatesRight
  OBVIOUS
<1>1. ASSUME NEW e \in Estimators, est[e].answer = "gas"
      PROVE  LET a == est[e].ask IN
             /\ est[e].gas <= MaxGas
             /\ \/ est[e].gas >= Intrinsic(a.zeros, a.nonzeros)
                \/ a.to /\ Intrinsic(a.zeros, a.nonzeros) > AverageGas
                \/ a.input /\ ~a.priced
             /\ a.to /\ a.zeros + a.nonzeros = 0 => receiver.exists \/ est[e].gas >= HollowGas
  BY <1>1 DEF EstimateInv, Estimating, Fits, NotSeen, DataOf
<1>2. EstimateIsEnough
  BY <1>1 DEF EstimateIsEnough, Intrinsic
<1> QED BY <1>2, EstimateTypes DEF EstimatesRight

(* The gas limit that eth_estimateGas answers passes the gas limit check   *)
(* of eth_sendRawTransaction and pays for the account a transfer creates,  *)
(* for any requests and any gas the relay assumes that GasFits allows,     *)
(* whoever estimated it and whenever the receiver was created; the two     *)
(* cases that EstimateIsEnough leaves out are all there are                *)
(* (estimateGas, predefinedGasForTransaction).                             *)
THEOREM EstimatesAreEnough == GasSpec => []EstimatesRight
BY EstimateStarts, EstimateStep, EstimateFollows, PTL DEF GasSpec
=============================================================================
