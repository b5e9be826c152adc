---------------------------- MODULE GasEstimates ----------------------------
(***************************************************************************)
(* eth_estimateGas: the request is formatted for the mirror node, which    *)
(* may need the gas price, the mirror node estimates, and when it does not *)
(* the relay answers with gas of its own (predefinedGasForTransaction).    *)
(***************************************************************************)
EXTENDS Prechecks

CONSTANTS
  Estimators,   \* requests being processed at the same time
  EstimateAsks, \* what is asked for
  AverageGas,   \* TX_CONTRACT_CALL_AVERAGE_GAS
  HollowGas,    \* MIN_TX_HOLLOW_ACCOUNT_CREATION_GAS
  DefaultGas,   \* TX_DEFAULT_GAS
  SelectorSize, \* bytes of a function selector
  ThrowsRevert, \* ESTIMATE_GAS_THROWS
  MaxEstimates  \* bound on the requests

\* input: the data come in the field "input"; hasValue: there is a value; priced: a gas price
EstimateAsk == [to : BOOLEAN, input : BOOLEAN, zeros : Nat, nonzeros : Nat, hasValue : BOOLEAN,
                priced : BOOLEAN]

ASSUME EstimateConstants ==
  /\ EstimateAsks \subseteq EstimateAsk /\ EstimateAsks # {}
  /\ {AverageGas, HollowGas, DefaultGas, SelectorSize, MaxEstimates} \subseteq Nat
  /\ ThrowsRevert \in BOOLEAN

\* the gas the relay assumes is a gas limit it accepts, and so is that of any request; the
\* default covers data that are shorter than a selector (the defaults of the configuration do)
ASSUME GasFits ==
  /\ 0 < BaseCost /\ BaseCost <= HollowGas /\ BaseCost <= AverageGas
  /\ HollowGas <= MaxGas /\ AverageGas <= MaxGas /\ DefaultGas <= MaxGas
  /\ \A a \in EstimateAsks : Intrinsic(a.zeros, a.nonzeros) <= MaxGas
  /\ SelectorSize > 0
  /\ \A z, n \in 0..SelectorSize : z + n < SelectorSize => Intrinsic(z, n) <= DefaultGas

VARIABLES
  est,          \* the requests
  accountKept,  \* the receiver is in the cache of getAccount
  estimates     \* how many requests there were

estimateVars == <<est, accountKept, estimates>>
gasVars == <<precheckVars, estimateVars>>

SomeAsk == CHOOSE a \in EstimateAsks : TRUE
IdleEstimate == [pc |-> "idle", ask |-> SomeAsk, answer |-> "none", gas |-> 0]
\* "json" is a JsonRpcError, the others are errors of the mirror node
EstimateErrors == {"none", "json", "revert opcode", "reverted", "invalid hex", "other"}

EstimateTypeOK ==
  /\ est \in [Estimators -> [pc : {"idle", "format", "mirror", "account", "done"},
                             ask : EstimateAsks, gas : Nat,
                             answer : {"none", "gas", "contract revert", "invalid value",
                                       "mirror error", "type error"}]]
  /\ \A e \in Estimators : est[e].gas > 0 <=> est[e].answer = "gas"
  /\ accountKept => receiver.exists
  /\ estimates \in 0..MaxEstimates

EstimateInit ==
  /\ est = [e \in Estimators |-> IdleEstimate]
  /\ accountKept = FALSE
  /\ estimates = 0

-----------------------------------------------------------------------------
SetEstimate(e, pc) == est' = [est EXCEPT ![e].pc = pc]
\* mutant: gas and an error
FinishWithGas(e, answer, gas) ==
  est' = [est EXCEPT ![e].pc = "done", ![e].answer = answer, ![e].gas = gas + BaseCost]

Finish(e, answer, gas) ==
  est' = [est EXCEPT ![e].pc = "done", ![e].answer = answer, ![e].gas = gas]

\* the bytes predefinedGasForTransaction sees: formatting copies "input" to "data"
Bytes(a, formatted) == IF a.input /\ ~formatted THEN 0 ELSE a.zeros + a.nonzeros
CostOf(a, formatted) ==
  IF a.input /\ ~formatted THEN BaseCost ELSE Intrinsic(a.zeros, a.nonzeros)

\* predefinedGasForTransaction: a simple transfer needs the account of the receiver
Transfer(e) ==
  IF est[e].ask.hasValue THEN SetEstimate(e, "account") ELSE Finish(e, "invalid value", 0)

\* the creation of a contract: only errors of the mirror node have the method that is called
Creation(e, error, formatted) ==
  CASE ThrowsRevert /\ error = "json" -> Finish(e, "type error", 0)
    [] ThrowsRevert /\ error \in {"reverted", "revert opcode"} -> Finish(e, "contract revert", 0)
    [] OTHER -> Finish(e, "gas", CostOf(est[e].ask, formatted))

Fallback(e, error, formatted) ==
  LET a == est[e].ask
      bytes == Bytes(a, formatted) IN
  IF a.to /\ bytes = 0 THEN Transfer(e)
  ELSE IF ~a.to /\ bytes > 0 THEN Creation(e, error, formatted)
  ELSE IF a.to /\ bytes >= SelectorSize THEN Finish(e, "gas", AverageGas)
  ELSE Finish(e, "gas", DefaultGas)

estimateGas(e, a) ==
  /\ est[e].pc \in {"idle", "done"}
  /\ estimates < MaxEstimates
  /\ estimates' = estimates + 1
  /\ est' = [est EXCEPT ![e] = [IdleEstimate EXCEPT !.ask = a,
                                                    !.pc = IF a.priced THEN "mirror" ELSE "format"]]
  /\ UNCHANGED <<precheckVars, accountKept>>

\* contractCallFormat: the price is fetched before "input" is looked at
Format(e) ==
  /\ est[e].pc = "format"
  /\ \/ SetEstimate(e, "mirror")
     \/ Fallback(e, "json", FALSE)
     \/ Fallback(e, "other", FALSE)
  /\ UNCHANGED <<precheckVars, accountKept, estimates>>

\* what the mirror node estimates is enough
Needed(a) ==
  IF a.to /\ a.zeros + a.nonzeros = 0 /\ ~receiver.exists THEN HollowGas
  ELSE Intrinsic(a.zeros, a.nonzeros)

Estimated(e) ==
  /\ est[e].pc = "mirror"
  /\ \/ Finish(e, "gas", Needed(est[e].ask))
     \/ \E error \in EstimateErrors \ {"json"} :
          IF ThrowsRevert /\ error = "revert opcode" THEN Finish(e, "contract revert", 0)
          ELSE Fallback(e, error, TRUE)
  /\ UNCHANGED <<precheckVars, accountKept, estimates>>

\* mutant: the other way round
GasToCreate(exists) == IF exists THEN HollowGas ELSE BaseCost

GasToTransfer(exists) == IF exists THEN BaseCost ELSE HollowGas

\* getAccount: an account that was found is cached
AccountFound(e) ==
  /\ est[e].pc = "account"
  /\ \/ Finish(e, "gas", GasToTransfer(accountKept \/ receiver.exists))
        /\ accountKept' = (accountKept \/ receiver.exists)
     \/ ~accountKept /\ Finish(e, "mirror error", 0) /\ UNCHANGED accountKept
  /\ UNCHANGED <<precheckVars, estimates>>

GasNext ==
  \/ NetworkMoves /\ UNCHANGED estimateVars
  \/ \E e \in Estimators :
       Format(e) \/ Estimated(e) \/ AccountFound(e) \/ \E a \in EstimateAsks : estimateGas(e, a)

GasSpec == PrecheckInit /\ EstimateInit /\ [][GasNext]_gasVars

-----------------------------------------------------------------------------
(* Correctness                                                             *)

\* A gas limit that eth_estimateGas answered passes the gas limit check of
\* eth_sendRawTransaction and pays for the account a transfer creates, whether the mirror node
\* or the relay estimated it.  Two cases are left out: data that cost more than the average the
\* relay assumes for a call, and data in "input" when the gas price could not be fetched.
EstimateIsEnough ==
  \A e \in Estimators :
    LET a == est[e].ask
        intrinsic == BaseCost + ZeroCost * a.zeros + NonZeroCost * a.nonzeros IN
    est[e].answer = "gas" =>
      /\ est[e].gas <= MaxGas
      /\ \/ est[e].gas >= intrinsic
         \/ a.to /\ intrinsic > AverageGas
         \/ a.input /\ ~a.priced
      /\ a.to /\ a.zeros + a.nonzeros = 0 => receiver.exists \/ est[e].gas >= HollowGas

\* Estimates pass the prechecks of what is then sent (estimateGas).
EstimatesRight == EstimateTypeOK /\ EstimateIsEnough
=============================================================================
