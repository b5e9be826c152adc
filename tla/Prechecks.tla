----------------------------- MODULE Prechecks -----------------------------
(***************************************************************************)
(* The prechecks of eth_sendRawTransaction (precheck.ts) while the mirror  *)
(* node goes on importing.  The gas price, the sender and the receiver are *)
(* looked up one after the other; between two look-ups the network moves   *)
(* on.  The checks are made in the order of sendRawTransactionCheck and    *)
(* the first that fails is the answer.  Amounts are in weibars, Coef of    *)
(* them are one tinybar.                                                   *)
(***************************************************************************)
EXTENDS Integers, Sequences, FiniteSetsExt

CONSTANTS
  Checkers,     \* requests being processed at the same time
  RawTxs,       \* transactions, all of one sender
  SenderStates, \* what the sender can be: [exists, nonce, balance (in tinybars)]
  NetworkPrices,\* gas prices of the network, in tinybars
  Coef,         \* TINYBAR_TO_WEIBAR_COEF
  Percentage,   \* GAS_PRICE_PERCENTAGE_BUFFER
  PriceBuffer,  \* GAS_PRICE_TINY_BAR_BUFFER, in weibars
  BaseCost,     \* TX_BASE_COST
  ZeroCost,     \* TX_DATA_ZERO_COST
  NonZeroCost,  \* ISTANBUL_TX_DATA_NON_ZERO_COST
  MaxGas,       \* MAX_TRANSACTION_FEE_THRESHOLD
  DataLimit,    \* CALL_DATA_SIZE_LIMIT
  SizeLimit,    \* SEND_RAW_TRANSACTION_SIZE_LIMIT
  MaxChecked    \* bound on the requests

\* zeros, nonzeros: bytes of the data; rest: bytes of the other fields
RawTx == [nonce : Nat, value : Nat, price : Nat, gas : Nat, zeros : Nat, nonzeros : Nat, rest : Nat,
          type : 0..3, chain : {"own", "other", "unprotected"}, deployer : BOOLEAN, to : BOOLEAN]

ASSUME PrecheckConstants ==
  /\ RawTxs \subseteq RawTx /\ RawTxs # {}
  /\ SenderStates \subseteq [exists : BOOLEAN, nonce : Nat, balance : Nat]
  /\ NetworkPrices \subseteq Nat
  /\ Coef \in Nat \ {0}
  /\ {Percentage, PriceBuffer, BaseCost, ZeroCost, NonZeroCost, MaxGas, DataLimit, SizeLimit,
      MaxChecked} \subseteq Nat

VARIABLES
  sender,    \* the account of the sender
  receiver,  \* the account of the receiver: [exists, sigRequired]
  netPrice,  \* the gas price of the network
  check,     \* the requests
  checked    \* how many there were

precheckVars == <<sender, receiver, netPrice, check, checked>>

SomeTx == CHOOSE t \in RawTxs : TRUE
\* price: networkGasPriceInWeiBars; history: payable, priced, free hold if the transaction was
\* payable, its price high enough, its receiver without a required signature, at some moment;
\* broken: the rules it broke at some moment
IdleCheck == [pc |-> "idle", tx |-> SomeTx, price |-> 0, verdict |-> "none",
              payable |-> FALSE, priced |-> FALSE, free |-> FALSE, broken |-> {}]

Verdicts == {"none", "passed", "mirror error", "call data size", "transaction size",
             "transaction type", "gas too high", "gas too low", "no sender", "nonce too low",
             "chain id", "value too low", "price too low", "balance", "receiver signature"}
Rules == Verdicts \ {"none", "passed", "mirror error"}

\* addPercentageBufferToGasPrice: rounded to a tinybar
WithPercentage(p) == (p + (2 * p * Percentage + 100) \div 200) * Coef

\* transactionIntrinsicGasCost
Intrinsic(zeros, nonzeros) == BaseCost + ZeroCost * zeros + NonZeroCost * nonzeros

PrecheckTypeOK ==
  /\ sender \in SenderStates
  /\ receiver \in [exists : BOOLEAN, sigRequired : BOOLEAN]
  /\ netPrice \in NetworkPrices
  /\ check \in [Checkers -> [pc : {"idle", "price", "sender", "receiver", "done"}, tx : RawTxs,
                             price : {0} \cup {WithPercentage(p) : p \in NetworkPrices},
                             verdict : Verdicts,
                             payable : BOOLEAN, priced : BOOLEAN, free : BOOLEAN,
                             broken : SUBSET Rules]]
  /\ \A q \in Checkers : check[q].pc = "done" <=> check[q].verdict # "none"
  /\ checked \in 0..MaxChecked

PrecheckInit ==
  /\ sender \in SenderStates
  /\ receiver = [exists |-> FALSE, sigRequired |-> FALSE]
  /\ netPrice \in NetworkPrices
  /\ check = [q \in Checkers |-> IdleCheck]
  /\ checked = 0

-----------------------------------------------------------------------------
(* The network                                                             *)

\* what a transaction may cost
\* mutant: without the value
CostOfGas(tx) == tx.price * tx.gas

Cost(tx) == tx.value + tx.price * tx.gas

Payable(tx, s) ==
  s.exists /\ s.nonce <= tx.nonce /\ s.balance * Coef >= tx.value + tx.price * tx.gas
Priced(tx, p) == tx.deployer \/ tx.price + PriceBuffer >= WithPercentage(p)
Free(tx, r) == ~tx.to \/ ~(r.exists /\ r.sigRequired)

\* the rules a transaction breaks with such a sender, receiver and price
Breaks(tx, s, r, p) ==
  {rule \in Rules :
     \/ rule = "call data size" /\ tx.zeros + tx.nonzeros > DataLimit
     \/ rule = "transaction size" /\ tx.zeros + tx.nonzeros + tx.rest > SizeLimit
     \/ rule = "transaction type" /\ tx.type = 3
     \/ rule = "gas too high" /\ tx.gas > MaxGas
     \/ rule = "gas too low" /\ tx.gas < Intrinsic(tx.zeros, tx.nonzeros)
     \/ rule = "no sender" /\ ~s.exists
     \/ rule = "nonce too low" /\ s.nonce > tx.nonce
     \/ rule = "chain id" /\ tx.chain = "other"
     \/ rule = "value too low" /\ tx.value > 0 /\ tx.value < Coef
     \/ rule = "price too low" /\ ~Priced(tx, p)
     \/ rule = "balance" /\ s.balance * Coef < tx.value + tx.price * tx.gas
     \/ rule = "receiver signature" /\ ~Free(tx, r)}

\* the history of the requests under way
Seen(c, s, r, p) ==
  IF c.pc \in {"idle", "done"} THEN c
  ELSE [c EXCEPT !.payable = @ \/ Payable(c.tx, s), !.priced = @ \/ Priced(c.tx, p),
                 !.free = @ \/ Free(c.tx, r), !.broken = @ \cup Breaks(c.tx, s, r, p)]

\* no account is removed, no nonce goes back; a receiver may be created, and require signatures
NetworkMoves ==
  /\ \/ /\ \E s \in SenderStates :
             s # sender /\ s.nonce >= sender.nonce /\ (sender.exists => s.exists) /\ sender' = s
        /\ UNCHANGED <<receiver, netPrice>>
     \/ /\ \E sig \in BOOLEAN : receiver' = [exists |-> TRUE, sigRequired |-> sig]
        /\ UNCHANGED <<sender, netPrice>>
     \/ /\ netPrice' \in NetworkPrices \ {netPrice}
        /\ UNCHANGED <<sender, receiver>>
  /\ check' = [q \in Checkers |-> Seen(check[q], sender', receiver', netPrice')]
  /\ UNCHANGED checked

-----------------------------------------------------------------------------
(* sendRawTransaction up to sendRawTransactionCheck                        *)

SetCheck(q, c) == check' = [check EXCEPT ![q] = c] /\ UNCHANGED <<sender, receiver, netPrice>>
\* mutant: the checks go on
VerdictGoesOn(q, v) == SetCheck(q, [check[q] EXCEPT !.verdict = v]) /\ UNCHANGED checked

Verdict(q, v) == SetCheck(q, [check[q] EXCEPT !.pc = "done", !.verdict = v]) /\ UNCHANGED checked

\* the first of the checks that does not pass
FirstRefusal(checks) ==
  LET failing == {i \in DOMAIN checks : ~checks[i].passes} IN
  IF failing = {} THEN "none" ELSE checks[Min(failing)].verdict

Check(passes, verdict) == [passes |-> passes, verdict |-> verdict]

Submit(q, tx) ==
  /\ check[q].pc \in {"idle", "done"}
  /\ checked < MaxChecked
  /\ checked' = checked + 1
  /\ SetCheck(q, Seen([IdleCheck EXCEPT !.pc = "price", !.tx = tx], sender, receiver, netPrice))

\* mutant: without the gas
ChecksOfSize(tx) ==
  LET data == tx.zeros + tx.nonzeros IN
  <<Check(data <= DataLimit, "call data size"),
    Check(data + tx.rest <= SizeLimit, "transaction size"),
    Check(tx.type # 3, "transaction type"),
    Check(tx.gas <= MaxGas, "gas too high")>>

\* the checks before the first await of sendRawTransactionCheck
StaticChecks(tx) ==
  LET data == tx.zeros + tx.nonzeros
      intrinsic == Intrinsic(tx.zeros, tx.nonzeros) IN
  <<Check(data <= DataLimit, "call data size"),
    Check(data + tx.rest <= SizeLimit, "transaction size"),
    Check(tx.type # 3, "transaction type"),
    Check(tx.gas <= MaxGas, "gas too high"),
    Check(tx.gas >= intrinsic, "gas too low")>>

PriceRead(q) ==
  LET refusal == FirstRefusal(StaticChecks(check[q].tx)) IN
  /\ check[q].pc = "price"
  /\ \/ Verdict(q, "mirror error")
     \/ /\ refusal # "none"
        /\ SetCheck(q, [check[q] EXCEPT !.pc = "done", !.price = WithPercentage(netPrice),
                                        !.verdict = refusal])
        /\ UNCHANGED checked
     \/ /\ refusal = "none"
        /\ SetCheck(q, [check[q] EXCEPT !.pc = "sender", !.price = WithPercentage(netPrice)])
        /\ UNCHANGED checked

\* mutant: without the buffer
EnoughWithoutBuffer(tx, price) == tx.deployer \/ tx.price >= price

\* gasPrice: the buffer is there because the network's price moves a little
EnoughPrice(tx, price) == tx.deployer \/ tx.price + PriceBuffer >= price

\* the checks on the account that verifyAccount found
AccountChecks(tx, account, price) ==
  <<Check(account.exists, "no sender"),
    Check(account.nonce <= tx.nonce, "nonce too low"),
    Check(tx.chain # "other", "chain id"),
    Check(~(tx.value > 0 /\ tx.value < Coef), "value too low"),
    Check(EnoughPrice(tx, price), "price too low"),
    Check(account.balance * Coef >= Cost(tx), "balance")>>

SenderRead(q) ==
  LET tx == check[q].tx
      refusal == FirstRefusal(AccountChecks(tx, sender, check[q].price)) IN
  /\ check[q].pc = "sender"
  /\ \/ Verdict(q, "mirror error")
     \/ refusal # "none" /\ Verdict(q, refusal)
     \/ refusal = "none" /\ ~tx.to /\ Verdict(q, "passed")
     \/ /\ refusal = "none" /\ tx.to
        /\ SetCheck(q, [check[q] EXCEPT !.pc = "receiver"])
        /\ UNCHANGED checked

ReceiverRead(q) ==
  /\ check[q].pc = "receiver"
  /\ \/ Verdict(q, "mirror error")
     \/ Verdict(q, IF receiver.exists /\ receiver.sigRequired THEN "receiver signature"
                   ELSE "passed")

PrecheckNext ==
  \/ NetworkMoves
  \/ \E q \in Checkers :
       PriceRead(q) \/ SenderRead(q) \/ ReceiverRead(q) \/ \E tx \in RawTxs : Submit(q, tx)

PrecheckSpec == PrecheckInit /\ [][PrecheckNext]_precheckVars

-----------------------------------------------------------------------------
(* Correctness                                                             *)

\* What passed could be paid by the sender, with a nonce the network had not used, at one and
\* the same moment of the request, and its price and its receiver were right at some moment of
\* it, though the gas price, the sender and the receiver are looked up at three different ones
\* (sendRawTransactionCheck).
PassedWasRight ==
  \A q \in Checkers :
    check[q].verdict = "passed" => check[q].payable /\ check[q].priced /\ check[q].free

\* What passed moves no amount that is lost in the conversion to tinybars, and its gas limit
\* pays for its data (value, gasLimit).
NothingIsLost ==
  \A q \in Checkers : check[q].verdict = "passed" =>
    LET tx == check[q].tx IN
    /\ tx.value = 0 \/ tx.value \div Coef > 0
    /\ tx.gas - BaseCost >= ZeroCost * tx.zeros + NonZeroCost * tx.nonzeros

\* A refusal names a rule that the transaction broke at some moment of the request, though the
\* price it is judged by was read before the sender was (gasPrice, receiverAccount).
RefusedWasWrong ==
  \A q \in Checkers : check[q].verdict \in Rules => check[q].verdict \in check[q].broken

\* What passes the prechecks could be executed when they looked, and is worth what it says; what
\* is refused could not.
PrechecksRight == PrecheckTypeOK /\ PassedWasRight /\ NothingIsLost /\ RefusedWasWrong
=============================================================================
