------------------------------ MODULE Expenses ------------------------------
(***************************************************************************)
(* What the operator pays for and what the HBAR limiter is told of.  The   *)
(* SDK client (sdkClient.ts) executes a transaction, the append            *)
(* transactions of a file or a query and emits an event; the metric        *)
(* service (metricService.ts) fetches the record of a transaction, from    *)
(* the consensus node or, repeatedly, from the mirror node, and adds what  *)
(* it says to the limiter.  Nothing waits for it and nothing is persisted. *)
(***************************************************************************)
EXTENDS Integers, FiniteSets

CONSTANTS
  Jobs,         \* uses of the SDK client
  KindOf,       \* [Jobs -> Kinds]
  Chunks,       \* append transactions of one file
  RecordTries,  \* MIRROR_NODE_REQUEST_RETRY_COUNT
  MaxFaults     \* bound: failures of the network and of the limiter's store

ASSUME ExpensesAssumption ==
  /\ KindOf \in [Jobs -> {"transaction", "appends", "query"}]
  /\ {Chunks, RecordTries} \subseteq Nat \ {0} /\ MaxFaults \in Nat

VARIABLES
  fromConsensus,  \* GET_RECORD_DEFAULT_TO_CONSENSUS_NODE
  job,            \* what is left to do: "execute", "receipt" or "done"
  sent,           \* transactions of the job that consensus has answered
  capture,        \* of a transaction: "none", "fetch", "fee", "charge", "ended"
  tries,          \* requests for its record
  shown,          \* transactions the mirror node shows
  paid,           \* what the operator has paid
  queued,         \* queries whose event is being handled
  booked,         \* how often each item was added to the limiter
  owing,          \* queries that failed after their payment was set
  faults

expenseVars ==
  <<fromConsensus, job, sent, capture, tries, shown, paid, queued, booked, owing, faults>>

Transactions == Jobs \X (1..Chunks)

(* An item of the operator's bill, by its EXECUTION_MODE.                  *)
Item(t, mode) == [of |-> t, mode |-> mode]
Items == [of : Transactions, mode : {"TRANSACTION", "RECORD", "QUERY"}]
Fee(t) == Item(t, "TRANSACTION")
RecordCharge(t) == Item(t, "RECORD")
Payment(j) == Item(<<j, 1>>, "QUERY")

ExpensesInit ==
  /\ fromConsensus \in BOOLEAN
  /\ job = [j \in Jobs |-> "execute"]
  /\ sent = [j \in Jobs |-> 0]
  /\ capture = [t \in Transactions |-> "none"]
  /\ tries = [t \in Transactions |-> 0]
  /\ shown = {} /\ paid = {} /\ queued = {} /\ owing = {} /\ faults = 0
  /\ booked = [i \in Items |-> 0]

Fault == faults < MaxFaults /\ faults' = faults + 1

(* The network charges the items or not: the failure does not tell.        *)
MayHavePaid(items) == paid' \in {paid, paid \union items}

(* eventEmitter.emit(EXECUTE_TRANSACTION): the record is asked for.        *)
Emit(ts) == capture' = [t \in Transactions |-> IF t \in ts THEN "fetch" ELSE capture[t]]

(***************************************************************************)
(* The SDK client.                                                         *)
(***************************************************************************)

(* transaction.execute answers: the transaction has its id and its fee is  *)
(* taken, whatever its receipt will say.                                   *)
ExecuteAnswers(j) ==
  /\ KindOf[j] = "transaction" /\ job[j] = "execute"
  /\ job' = [job EXCEPT ![j] = "receipt"]
  /\ sent' = [sent EXCEPT ![j] = 1]
  /\ paid' = paid \union {Fee(<<j, 1>>)}
  /\ UNCHANGED <<fromConsensus, capture, tries, shown, queued, booked, owing, faults>>

(* A time-out or a dropped connection: no response, so no event, though    *)
(* the transaction may still reach consensus.                              *)
ExecuteUnanswered(j) ==
  /\ KindOf[j] = "transaction" /\ job[j] = "execute" /\ Fault
  /\ job' = [job EXCEPT ![j] = "done"]
  /\ MayHavePaid({Fee(<<j, 1>>)})
  /\ UNCHANGED <<fromConsensus, sent, capture, tries, shown, queued, booked, owing>>

EmitOnSuccess(j, ok) == IF ok THEN Emit({<<j, 1>>}) ELSE UNCHANGED capture

(* The finally block emits for a transaction that has an id, whether       *)
(* getReceipt returned or threw.                                           *)
EmitExecuted(j, ok) == Emit({<<j, 1>>})

ReceiptComes(j) ==
  /\ job[j] = "receipt"
  /\ job' = [job EXCEPT ![j] = "done"]
  /\ \E ok \in BOOLEAN : EmitExecuted(j, ok)
  /\ UNCHANGED <<fromConsensus, sent, tries, shown, paid, queued, booked, owing, faults>>

EmitEveryChunk(j, n) == Emit({<<j, c>> : c \in 1..n})

(* executeAll resolves with all responses after the last chunk; only then  *)
(* is an event emitted for each.                                           *)
EmitAppended(j, n) == IF n = Chunks THEN Emit({<<j, c>> : c \in 1..n}) ELSE UNCHANGED capture

AppendChunk(j) ==
  /\ KindOf[j] = "appends" /\ job[j] = "execute"
  /\ LET n == sent[j] + 1 IN
     /\ sent' = [sent EXCEPT ![j] = n]
     /\ paid' = paid \union {Fee(<<j, n>>)}
     /\ EmitAppended(j, n)
     /\ job' = IF n = Chunks THEN [job EXCEPT ![j] = "done"] ELSE job
  /\ UNCHANGED <<fromConsensus, tries, shown, queued, booked, owing, faults>>

(* A chunk fails: executeAll throws, and the responses of the chunks that  *)
(* were paid for before it are lost.                                       *)
AppendFails(j) ==
  /\ KindOf[j] = "appends" /\ job[j] = "execute" /\ Fault
  /\ job' = [job EXCEPT ![j] = "done"]
  /\ MayHavePaid({Fee(<<j, sent[j] + 1>>)})
  /\ UNCHANGED <<fromConsensus, sent, capture, tries, shown, queued, booked, owing>>

(* executeQuery: a query that costs something is paid and its event is     *)
(* emitted; a free one has no payment.                                     *)
QueryAnswers(j) ==
  /\ KindOf[j] = "query" /\ job[j] = "execute"
  /\ job' = [job EXCEPT ![j] = "done"]
  /\ \E cost \in {{}, {Payment(j)}} :
       paid' = paid \union cost /\ queued' = IF cost = {} THEN queued ELSE queued \union {j}
  /\ UNCHANGED <<fromConsensus, sent, capture, tries, shown, booked, owing, faults>>

(* A failed query is booked at the payment that was set for it, which the  *)
(* network may not have taken.                                             *)
QueryFails(j) ==
  /\ KindOf[j] = "query" /\ job[j] = "execute" /\ Fault
  /\ job' = [job EXCEPT ![j] = "done"]
  /\ \/ /\ MayHavePaid({Payment(j)})
        /\ queued' = queued \union {j} /\ owing' = owing \union {j}
     \/ UNCHANGED <<paid, queued, owing>>
  /\ UNCHANGED <<fromConsensus, sent, capture, tries, shown, booked>>

(***************************************************************************)
(* The metric service.                                                     *)
(***************************************************************************)

(* The mirror node imports a transaction that reached consensus.           *)
Import(t) ==
  /\ Fee(t) \in paid \ {Fee(u) : u \in shown}
  /\ shown' = shown \union {t}
  /\ UNCHANGED <<fromConsensus, job, sent, capture, tries, paid, queued, booked, owing, faults>>

(* captureTransactionMetrics ends without an expense.                      *)
GiveUp(t) == capture' = [capture EXCEPT ![t] = "ended"]

(* sdkClient.getTransactionRecordMetrics: the record is paid for as well.  *)
AskConsensus(t) ==
  /\ fromConsensus /\ capture[t] = "fetch"
  /\ \/ /\ capture' = [capture EXCEPT ![t] = "fee"]
        /\ paid' = paid \union {RecordCharge(t)}
        /\ UNCHANGED faults
     \/ Fault /\ GiveUp(t) /\ MayHavePaid({RecordCharge(t)})
  /\ UNCHANGED <<fromConsensus, job, sent, tries, shown, queued, booked, owing>>

(* repeatedRequest: not found, or any other error, is tried again.  When   *)
(* the tries are used up the error is logged and the expense is lost.      *)
NotYet(t) == tries[t] + 1 < RecordTries /\ tries' = [tries EXCEPT ![t] = @ + 1]

AskMirror(t) ==
  /\ ~fromConsensus /\ capture[t] = "fetch"
  /\ \/ t \in shown /\ capture' = [capture EXCEPT ![t] = "fee"] /\ UNCHANGED <<tries, faults>>
     \/ NotYet(t) /\ UNCHANGED <<capture, faults>>
     \/ tries[t] + 1 >= RecordTries /\ Fault /\ GiveUp(t) /\ UNCHANGED tries
  /\ UNCHANGED <<fromConsensus, job, sent, shown, paid, queued, booked, owing>>

Added(i) == booked' = [booked EXCEPT ![i] = @ + 1]

(* The transaction's fee is booked first, then the charge of its record,   *)
(* which only the consensus node makes.                                    *)
BookTransaction(t) ==
  /\ capture[t] \in {"fee", "charge"}
  /\ LET charge == capture[t] = "fee" /\ fromConsensus IN
     /\ Added(IF capture[t] = "fee" THEN Fee(t) ELSE RecordCharge(t))
     /\ capture' = [capture EXCEPT ![t] = IF charge THEN "charge" ELSE "ended"]
  /\ UNCHANGED <<fromConsensus, job, sent, tries, shown, paid, queued, owing, faults>>

(* addExpense throws: nobody catches, and what was still to be booked of   *)
(* the transaction is not.                                                 *)
BookingFails(t) ==
  /\ capture[t] \in {"fee", "charge"} /\ Fault /\ GiveUp(t)
  /\ UNCHANGED <<fromConsensus, job, sent, tries, shown, paid, queued, booked, owing>>

BookQuery(j) ==
  /\ j \in queued /\ queued' = queued \ {j}
  /\ \/ Added(Payment(j)) /\ UNCHANGED faults
     \/ Fault /\ UNCHANGED booked
  /\ UNCHANGED <<fromConsensus, job, sent, capture, tries, shown, paid, owing>>

JobStep(j) ==
  \/ ExecuteAnswers(j) \/ ExecuteUnanswered(j) \/ ReceiptComes(j)
  \/ AppendChunk(j) \/ AppendFails(j)
  \/ QueryAnswers(j) \/ QueryFails(j) \/ BookQuery(j)

RecordStep(t) ==
  Import(t) \/ AskConsensus(t) \/ AskMirror(t) \/ BookTransaction(t) \/ BookingFails(t)

ExpensesNext == (\E j \in Jobs : JobStep(j)) \/ (\E t \in Transactions : RecordStep(t))

ExpensesSpec == ExpensesInit /\ [][ExpensesNext]_expenseVars

(***************************************************************************)
(* Properties.                                                             *)
(***************************************************************************)

(* The variables stay in their sets.                                       *)
ExpensesTypeOK ==
  /\ fromConsensus \in BOOLEAN
  /\ job \in [Jobs -> {"execute", "receipt", "done"}]
  /\ sent \in [Jobs -> 0..Chunks]
  /\ capture \in [Transactions -> {"none", "fetch", "fee", "charge", "ended"}]
  /\ tries \in [Transactions -> 0..RecordTries]
  /\ shown \subseteq Transactions /\ paid \subseteq Items
  /\ queued \subseteq Jobs /\ owing \subseteq Jobs
  /\ booked \in [Items -> Nat] /\ faults \in 0..MaxFaults

(* Nothing is charged to a plan twice, whatever failed and was tried       *)
(* again, and nothing that was not paid, but for a query that failed after *)
(* its payment was set (sdkClient.ts, executeQuery).                       *)
BookedOnceIfPaid ==
  \A i \in Items :
    /\ booked[i] <= 1
    /\ booked[i] = 1 => i \in paid \/ i \in {Payment(j) : j \in owing}

(* Nobody will book the item any more.                                     *)
Settled(i) ==
  /\ job[i.of[1]] = "done"
  /\ capture[i.of] \in {"none", "ended"}
  /\ i.mode = "QUERY" => i.of[1] \notin queued

(* What is paid is booked, but for failures, and no failure hides more     *)
(* than the append transactions of one file or a fee with its record: the  *)
(* limiter's view of the spending is off by a bounded amount for each      *)
(* failure, and not at all without one (metricService.ts,                  *)
(* captureTransactionMetrics; sdkClient.ts, executeAllTransaction).        *)
LossBounded ==
  Cardinality({i \in paid : Settled(i) /\ booked[i] = 0})
    <= faults * (IF Chunks > 2 THEN Chunks ELSE 2)
=============================================================================
