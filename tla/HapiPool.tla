------------------------------ MODULE HapiPool ------------------------------
(***************************************************************************)
(* HAPIService: the SDK client the relay uses for the consensus nodes, and *)
(* when it makes a new one: after a number of uses, after some time, and   *)
(* after errors with certain status codes.  The client that is replaced is *)
(* not closed: who holds it goes on with it.                               *)
(***************************************************************************)
EXTENDS Integers

CONSTANTS
  TxReset,      \* HAPI_CLIENT_TRANSACTION_RESET; 0: never because of uses
  DurReset,     \* HAPI_CLIENT_DURATION_RESET; 0: never because of time
  Codes,        \* status codes
  ErrorReset,   \* HAPI_CLIENT_ERROR_RESET
  MaxPoolTime   \* bound on the clock

ASSUME PoolConstants ==
  /\ TxReset \in Nat
  /\ DurReset \in Nat
  /\ ErrorReset \subseteq Codes
  /\ MaxPoolTime \in Nat

VARIABLES
  clock,             \* Date.now()
  client,            \* the SDK client in use, counted from 1
  transactionCount,  \* uses left
  resetDuration,     \* when the client is too old
  shouldReset,
  uses,              \* history: how often the client was handed out
  lateUses,          \* history: how often after it was too old
  blamed             \* history: an error of the client was reported

poolClient == <<client, transactionCount, resetDuration, shouldReset>>
poolHistory == <<uses, lateUses, blamed>>
poolVars == <<clock, poolClient, poolHistory>>

PoolTypeOK ==
  /\ clock \in 0..MaxPoolTime
  /\ client \in Nat \ {0}
  /\ transactionCount \in 0..TxReset
  /\ resetDuration \in Nat
  /\ shouldReset \in BOOLEAN
  /\ uses \in Nat
  /\ lateUses \in Nat
  /\ blamed \in BOOLEAN

PoolInit ==
  /\ clock = 0
  /\ client = 1
  /\ transactionCount = TxReset
  /\ resetDuration = DurReset
  /\ shouldReset = FALSE
  /\ uses = 0
  /\ lateUses = 0
  /\ blamed = FALSE

isReinitEnabled == ~(TxReset = 0 /\ ErrorReset = {} /\ DurReset = 0)
isTimeResetDisabled == DurReset = 0

\* what getSDKClient returns: the client of the next state
Handed == client'

Late == ~isTimeResetDisabled /\ resetDuration' < clock

\* resetClient if it is due, then the uses and the age are checked for the NEXT call
HandOut(reset) ==
  LET left == IF reset THEN TxReset ELSE transactionCount IN
  /\ client' = IF reset THEN client + 1 ELSE client
  /\ resetDuration' = IF reset THEN clock + DurReset ELSE resetDuration
  /\ transactionCount' = IF left = 0 THEN 0 ELSE left - 1
  /\ shouldReset' = ((shouldReset /\ ~reset) \/ left = 1 \/ Late)
  /\ uses' = IF reset THEN 1 ELSE uses + 1
  /\ lateUses' = (IF reset THEN 0 ELSE lateUses) + (IF Late THEN 1 ELSE 0)

\* mutant: the age is looked at first, and a reset that is due waits for it
HandOutIfOld == shouldReset /\ resetDuration < clock

ResetDue == shouldReset

getSDKClient ==
  /\ IF isReinitEnabled
     THEN HandOut(ResetDue)
     ELSE UNCHANGED <<poolClient, uses, lateUses>>
  /\ blamed' = (blamed /\ client' = client)
  /\ UNCHANGED clock

\* decrementErrorCounter: it does not know which client saw the error
ReportError(code, of) ==
  /\ shouldReset' = (shouldReset \/ (isReinitEnabled /\ code \in ErrorReset))
  /\ blamed' = (blamed \/ (code \in ErrorReset /\ of = client))
  /\ UNCHANGED <<clock, client, transactionCount, resetDuration, uses, lateUses>>

ClockTicks == clock < MaxPoolTime /\ clock' = clock + 1 /\ UNCHANGED <<poolClient, poolHistory>>

\* A client serves at most HAPI_CLIENT_TRANSACTION_RESET calls, and at most one call finds
\* it older than HAPI_CLIENT_DURATION_RESET: getSDKClient looks at the age after its turn.
PoolBounds ==
  /\ TxReset # 0 => uses <= TxReset
  /\ lateUses <= 1

\* After an error with a code of HAPI_CLIENT_ERROR_RESET was reported (decrementErrorCounter),
\* the client that saw it is never handed out again.
FailedClientNotReused == [][uses' # uses /\ blamed => client' # client]_poolVars
=============================================================================
