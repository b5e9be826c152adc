----------------------------- MODULE MCConsensus -----------------------------
(***************************************************************************)
(* Instances of the two components that wait for a consensus node:         *)
(* eth_sendRawTransaction, and eth_call with the pool of SDK clients.      *)
(* They share no state; a behaviour runs one of them.                      *)
(***************************************************************************)
EXTENDS MCSendRawTransaction, ContractCalls

CONSTANT k1

VARIABLE part

\* the recipient, the sender, a block by its hash, a consensus node
SomeCalls ==
  {[to |-> c[1], from |-> c[2], byHash |-> c[3], consensus |-> c[4], key |-> k1] :
     c \in {<<"valid", "none", FALSE, TRUE>>, <<"valid", "invalid", TRUE, TRUE>>,
            <<"none", "valid", FALSE, TRUE>>, <<"invalid", "valid", FALSE, TRUE>>,
            <<"valid", "valid", FALSE, FALSE>>}}

ConsensusInit == part \in {"send", "calls"} /\ Init /\ CallInit

SendPart == part = "send" /\ Next /\ UNCHANGED <<part, ccVars>>
CallPart == part = "calls" /\ CallNext /\ UNCHANGED <<part, vars>>

\* the part that does not run stays in its initial state, where no fair action is enabled
ConsensusSpec ==
  /\ ConsensusInit /\ [][SendPart \/ CallPart]_<<part, vars, ccVars>>
  /\ \A t \in Txs : WF_vars(Process(t))
  /\ CallFairness
=============================================================================
