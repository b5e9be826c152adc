------------------------- MODULE SendRawTransaction -------------------------
(***************************************************************************)
(* eth_sendRawTransaction: TransactionService on top of SDKClient.         *)
(*                                                                         *)
(* A transaction is prechecked against the mirror node, its call data is   *)
(* put into a file when it is too large for one Hedera transaction, it is  *)
(* executed by a consensus node and then looked up at the mirror node.     *)
(* Every call over the network is a step of its own and may fail, time out *)
(* before or after it took effect, or be overtaken by other requests.      *)
(*                                                                         *)
(* The consensus network is a log of executed transactions, the mirror     *)
(* node a prefix of that log.  Whether the HBAR limiter refuses a call is  *)
(* left open here; HbarLimiter says when it does.                          *)
(***************************************************************************)
EXTENDS Integers, Sequences, FiniteSets

CONSTANTS
  Txs,       \* transactions, one request each
  Accounts,
  Sender,    \* Sender[t]
  Nonce,     \* Nonce[t]
  Large,     \* transactions whose call data needs a file
  BaseNonce, \* nonce of an account before the first of Txs
  Async,     \* USE_ASYNC_TX_PROCESSING
  Retries    \* getMirrorNodeRequestRetryCount()

ASSUME SendConstants ==
  /\ Sender \in [Txs -> Accounts]
  /\ Nonce \in [Txs -> Nat]
  /\ Large \subseteq Txs
  /\ BaseNonce \in [Accounts -> Nat]
  /\ Async \in BOOLEAN
  /\ Retries \in Nat \ {0}

VARIABLES
  req,       \* the requests
  file,      \* the file of a transaction on the network
  accepted,  \* transactions a consensus node has taken
  log,       \* what went through consensus: [tx, ok, nonce (of the sender, before)]
  seen       \* how much of it the mirror node has

vars == <<req, file, accepted, log, seen>>

-----------------------------------------------------------------------------
Stages == {"idle", "precheck", "rate", "file_limit", "file_create", "file_append", "limit",
           "execute", "receipt", "poll", "handle", "nonce_poll", "done"}
Errors == {"none", "jsonrpc", "limit", "timeout", "nonce", "other"}
Answers == {"none", "hash", "computed_hash", "limit", "precheck", "nonce_low", "nonce_high",
            "internal", "nonce_unknown"}

\* own: submittedTransactionId is the id of the transaction itself;
\* submitted: txSubmitted; cleanup: deleteFile was called
Request == [pc : Stages, err : Errors, own : BOOLEAN, submitted : BOOLEAN, cleanup : BOOLEAN,
            tries : 0..Retries, early : BOOLEAN, answer : Answers]

LogEntry == [tx : Txs, ok : BOOLEAN, nonce : Nat]

TypeOK ==
  /\ req \in [Txs -> Request]
  /\ file \in [Txs -> {"none", "created", "deleted"}]
  /\ accepted \subseteq Txs
  /\ log \in Seq(LogEntry)
  /\ seen \in 0..Len(log)

Init ==
  /\ req = [t \in Txs |-> [pc |-> "idle", err |-> "none", own |-> FALSE, submitted |-> FALSE,
                           cleanup |-> FALSE, tries |-> Retries, early |-> FALSE,
                           answer |-> "none"]]
  /\ file = [t \in Txs |-> "none"]
  /\ accepted = {}
  /\ log = <<>>
  /\ seen = 0

\* the nonce of an account after the first n entries of the log
NonceAfter(a, n) ==
  BaseNonce[a] + Cardinality({i \in 1..n : log[i].ok /\ Sender[log[i].tx] = a})

MirrorNonce(t) == NonceAfter(Sender[t], seen)
InLog(t, n) == \E i \in 1..n : log[i].tx = t

Set(t, r) == req' = [req EXCEPT ![t] = r]
At(t, pc) == req[t].pc = pc
Go(t, pc) == Set(t, [req[t] EXCEPT !.pc = pc])
Fail(t, e) == Set(t, [req[t] EXCEPT !.pc = "handle", !.err = e])

\* in asynchronous mode the client already has its answer
Reply(t, a) ==
  Set(t, [req[t] EXCEPT !.pc = "done", !.answer = IF req[t].early THEN "hash" ELSE a])

-----------------------------------------------------------------------------
(* sendRawTransaction, up to the end of the prechecks                      *)

\* the gas price is fetched
Receive(t) ==
  /\ At(t, "idle")
  /\ Go(t, "precheck") \/ Reply(t, "internal")
  /\ UNCHANGED <<file, accepted, log, seen>>

Precheck(t) ==
  /\ At(t, "precheck")
  /\ IF Nonce[t] < MirrorNonce(t) THEN Reply(t, "nonce_low")
     ELSE \/ Reply(t, "precheck")
          \/ Set(t, [req[t] EXCEPT !.pc = "rate", !.early = Async])
  /\ UNCHANGED <<file, accepted, log, seen>>

-----------------------------------------------------------------------------
(* submitTransaction and submitEthereumTransaction                         *)

ExchangeRate(t) ==
  /\ At(t, "rate")
  /\ Go(t, IF t \in Large THEN "file_limit" ELSE "limit") \/ Fail(t, "other")
  /\ UNCHANGED <<file, accepted, log, seen>>

\* createFile asks the limiter for all its transactions at once ...
FileLimit(t) ==
  /\ At(t, "file_limit")
  /\ Go(t, "file_create") \/ Fail(t, "limit")
  /\ UNCHANGED <<file, accepted, log, seen>>

\* ... creates the file and gets its id from the receipt.  A time-out is followed
\* by a lookup of the id of the file transaction.
FileCreate(t) ==
  /\ At(t, "file_create")
  /\ \/ file' = [file EXCEPT ![t] = "created"] /\ Go(t, "file_append")
     \/ /\ file' \in {file, [file EXCEPT ![t] = "created"]}
        /\ \/ Set(t, [req[t] EXCEPT !.pc = "poll", !.err = "timeout", !.own = FALSE])
           \/ Fail(t, "other")
     \/ UNCHANGED file /\ Fail(t, "jsonrpc")
  /\ UNCHANGED <<accepted, log, seen>>

\* the rest of the data is appended, and the size of the file looked up
FileAppend(t) ==
  /\ At(t, "file_append")
  /\ Go(t, "limit") \/ Fail(t, "other")
  /\ UNCHANGED <<file, accepted, log, seen>>

\* mutant: the limiter is asked after the execution
LimitAfterExecution(t) ==
  /\ At(t, "limit")
  /\ \/ Go(t, "execute") /\ UNCHANGED accepted
     \/ Fail(t, "limit") /\ accepted' = accepted \cup {t}
  /\ UNCHANGED <<file, log, seen>>

\* executeTransaction asks the limiter
Limit(t) ==
  /\ At(t, "limit")
  /\ Go(t, "execute") \/ Fail(t, "limit")
  /\ UNCHANGED <<file, accepted, log, seen>>

\* a consensus node takes the transaction; or the SDK gives up after a time-out or
\* a dropped connection, when it may have been taken all the same; or it is refused
Execute(t) ==
  /\ At(t, "execute")
  /\ \/ accepted' = accepted \cup {t} /\ Go(t, "receipt")
     \/ /\ accepted' \in {accepted, accepted \cup {t}}
        /\ Set(t, [req[t] EXCEPT !.pc = "poll", !.err = "timeout", !.own = TRUE])
     \/ UNCHANGED accepted /\ Fail(t, "jsonrpc")
  /\ UNCHANGED <<file, log, seen>>

\* mutant: the file is deleted after a successful receipt only
CleanupOnSuccess(t) ==
  /\ At(t, "receipt")
  /\ \/ Set(t, [req[t] EXCEPT !.pc = "poll", !.own = TRUE, !.submitted = TRUE,
                              !.cleanup = (t \in Large /\ InLog(t, Len(log)))])
     \/ /\ \E i \in 1..Len(log) : log[i].tx = t /\ ~log[i].ok
        /\ Fail(t, "nonce")
  /\ UNCHANGED <<file, accepted, log, seen>>

\* executeTransaction returns the response, whatever the receipt says unless it says
\* WRONG_NONCE, also when there is no receipt in time; the file is deleted in the background
Receipt(t) ==
  /\ At(t, "receipt")
  /\ \/ Set(t, [req[t] EXCEPT !.pc = "poll", !.own = TRUE, !.submitted = TRUE,
                              !.cleanup = (t \in Large)])
     \/ /\ \E i \in 1..Len(log) : log[i].tx = t /\ ~log[i].ok
        /\ Fail(t, "nonce")
  /\ UNCHANGED <<file, accepted, log, seen>>

\* deleteFile, not awaited; its errors are only logged
DeleteFile(t) ==
  /\ req[t].cleanup /\ file[t] = "created"
  /\ file' = [file EXCEPT ![t] = "deleted"]
  /\ UNCHANGED <<req, accepted, log, seen>>

-----------------------------------------------------------------------------
(* sendRawTransactionProcessor: repeatedRequest, then the error handler    *)

Tried(t) == [req[t] EXCEPT !.tries = @ - 1]

\* the mirror node knows the transaction; without a hash the loop ends all the same
Found(t) ==
  /\ At(t, "poll")
  /\ req[t].own /\ InLog(t, seen)
  /\ Reply(t, "hash") \/ Fail(t, "jsonrpc")
  /\ UNCHANGED <<file, accepted, log, seen>>

\* mutant: the rounds are not counted
NotFoundForever(t) ==
  /\ At(t, "poll")
  /\ Go(t, "poll")
  /\ UNCHANGED <<file, accepted, log, seen>>

\* it does not, or does not answer
NotFound(t) ==
  /\ At(t, "poll")
  /\ IF req[t].tries > 1 THEN Set(t, Tried(t))
     ELSE Set(t, [Tried(t) EXCEPT !.pc = "handle",
                                  !.err = IF req[t].err = "timeout" THEN "timeout" ELSE "jsonrpc"])
  /\ UNCHANGED <<file, accepted, log, seen>>

\* mutant: the computed hash is returned without asking txSubmitted
HashWithoutSubmission(t) ==
  LET e == req[t].err IN
  /\ At(t, "handle")
  /\ IF e = "nonce" THEN Set(t, [req[t] EXCEPT !.pc = "nonce_poll", !.tries = Retries])
     ELSE Reply(t, CASE e = "limit" -> "limit"
                     [] e = "jsonrpc" -> "internal"
                     [] OTHER -> "computed_hash")
  /\ UNCHANGED <<file, accepted, log, seen>>

HandleError(t) ==
  LET e == req[t].err IN
  /\ At(t, "handle")
  /\ IF e = "nonce" THEN Set(t, [req[t] EXCEPT !.pc = "nonce_poll", !.tries = Retries])
     ELSE Reply(t, CASE e = "limit" -> "limit"
                     [] e = "jsonrpc" -> "internal"
                     [] OTHER -> IF req[t].submitted THEN "computed_hash" ELSE "internal")
  /\ UNCHANGED <<file, accepted, log, seen>>

\* mutant: the first nonce is taken
NonceOnce(t) ==
  LET n == MirrorNonce(t) IN
  /\ At(t, "nonce_poll")
  /\ Reply(t, IF Nonce[t] > n THEN "nonce_high" ELSE "nonce_low")
  /\ UNCHANGED <<file, accepted, log, seen>>

\* the account nonce is read until it differs from that of the transaction; a nonce of
\* zero is then taken for none
NoncePoll(t) ==
  LET n == MirrorNonce(t) IN
  /\ At(t, "nonce_poll")
  /\ \/ n # Nonce[t] /\ Reply(t, IF n = 0 THEN "nonce_unknown"
                                 ELSE IF Nonce[t] > n THEN "nonce_high" ELSE "nonce_low")
     \/ n = Nonce[t] /\ req[t].tries > 1 /\ Set(t, Tried(t))
     \/ n = Nonce[t] /\ req[t].tries = 1
          /\ Set(t, [Tried(t) EXCEPT !.pc = "done",
                                     !.answer = IF req[t].early THEN "hash" ELSE "nonce_unknown"])
     \/ Reply(t, "internal")
  /\ UNCHANGED <<file, accepted, log, seen>>

-----------------------------------------------------------------------------
(* The network and the mirror node                                         *)

Consensus(t) ==
  LET n == NonceAfter(Sender[t], Len(log)) IN
  /\ t \in accepted /\ ~InLog(t, Len(log))
  /\ log' = Append(log, [tx |-> t, ok |-> Nonce[t] = n, nonce |-> n])
  /\ UNCHANGED <<req, file, accepted, seen>>

MirrorImport ==
  /\ seen < Len(log)
  /\ seen' = seen + 1
  /\ UNCHANGED <<req, file, accepted, log>>

-----------------------------------------------------------------------------
Process(t) ==
  \/ Precheck(t) \/ ExchangeRate(t) \/ FileLimit(t) \/ FileCreate(t) \/ FileAppend(t)
  \/ Limit(t) \/ Execute(t) \/ Receipt(t) \/ Found(t) \/ NotFound(t) \/ HandleError(t)
  \/ NoncePoll(t)

Next ==
  \/ \E t \in Txs : Receive(t) \/ Process(t) \/ DeleteFile(t) \/ Consensus(t)
  \/ MirrorImport

Spec == Init /\ [][Next]_vars

\* every call returns or times out; nothing is assumed of the network and the mirror node
FairSpec == Spec /\ \A t \in Txs : WF_vars(Process(t))

-----------------------------------------------------------------------------
(* Properties                                                              *)

Done(t) == req[t].pc = "done"
WasEarly(t) == req[t].early

\* Unless the client asked for no more (asynchronous mode), a hash is answered
\* only for a transaction that a consensus node has really taken.
HashMeansAccepted ==
  \A t \in Txs : req[t].answer \in {"hash", "computed_hash"} /\ ~WasEarly(t) => t \in accepted

\* A transaction the HBAR limiter refused, or whose prechecks failed, is not
\* executed later.
RefusedIsNotExecuted ==
  \A t \in Txs : req[t].answer \in {"limit", "precheck"} => t \notin accepted

\* the mirror node is at most one transaction of the sender behind
AlmostCurrent(t) == NonceAfter(Sender[t], Len(log)) <= MirrorNonce(t) + 1

\* A nonce error tells on which side of the account's nonce the transaction was, although it is
\* read from a mirror node that is behind: "too low" however far that is; "too high" unless the
\* mirror node, when the error is given, misses two transactions of the sender or more: the
\* polling ends with any other nonce, an older one too (sendRawTransactionErrorHandler).
NonceErrorTells(t) ==
  /\ req'[t].answer = "nonce_high" /\ AlmostCurrent(t) =>
       \E i \in 1..Len(log) : log[i].tx = t /\ Nonce[t] > log[i].nonce
  /\ req'[t].answer = "nonce_low" => Nonce[t] < NonceAfter(Sender[t], Len(log))

NonceErrorsAreRight ==
  [][\A t \in Txs : req'[t].answer # req[t].answer => NonceErrorTells(t)]_vars

\* The file of a transaction whose execution returned is given to deleteFile.
FileRemovedAfterExecution ==
  \A t \in Txs : Done(t) /\ req[t].submitted /\ file[t] = "created" => req[t].cleanup

\* The file of a transaction is given to deleteFile, whether its execution was
\* successful or not.
FileAlwaysRemoved == \A t \in Txs : Done(t) /\ file[t] = "created" => req[t].cleanup

\* Every request is answered in the end, however the network and the mirror
\* node behave.  A transaction of Txs is received once and an answer is final, so
\* this is the same as: the time comes when nobody waits for an answer any more.
RequestsEnd == <>[](\A t \in Txs : req[t].pc = "idle" \/ Done(t))

\* What the client is told agrees with what the network did: a hash stands for a transaction
\* that was taken, a refusal for one that never will be (sendRawTransactionErrorHandler).
AnswersAgree == HashMeansAccepted /\ RefusedIsNotExecuted
=============================================================================
