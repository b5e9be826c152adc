------------------------------ MODULE MCReads ------------------------------
(***************************************************************************)
(* Instances of the components that read from the mirror node: accounts,   *)
(* entities, blocks and transactions, fees, and traces.  They share no     *)
(* state, and interleaving them would multiply their states and show       *)
(* nothing, so every behaviour runs one of them, and balances or nonces of *)
(* one block: requests for different blocks share the newest block's       *)
(* number only.                                                            *)
(***************************************************************************)
EXTENDS AccountReads, Entities, BlockReads, FeeHistory, Tracing, TLC

CONSTANTS q1, q2, t1, t2, t3, u1, u2

VARIABLE part

Requests == Permutations({q1, q2})

SomeKinds == {<<"sent", "other">>, <<"received", "sent">>}
SomeReads == {<<"balance", 1>>, <<"balance", 3>>, <<"nonce", 0>>, <<"nonce", 2>>}

Three(a, b, c) == [t \in Txs |-> IF t = t1 THEN a ELSE IF t = t2 THEN b ELSE c]
\* in the second one more logs than fit in the pages
SomeBlockTxs == {Three("call", "synthetic", "refused"), Three("synthetic", "synthetic", "call")}
SomeLooks == (BlockOps \cup TxOps) \X {t1}

SomeHistories ==
  {[count |-> c[1], newest |-> c[2]] :
     c \in {<<4, 1>>, <<1, LatestTag>>, <<0, SafeTag>>, <<1, SafeTag>>}}

SomeTouches == [t \in TracedTxs |-> IF t = t1 THEN {u1, u2} ELSE {u1}]
SomeTopTouches == [t \in TracedTxs |-> {u1}]
SomeTraces ==
  {[op |-> p[1], tx |-> t1, tracer |-> p[2], top |-> p[3]] :
     p \in {<<"block", "call", FALSE>>, <<"block", "prestate", FALSE>>, <<"block", "prestate", TRUE>>,
            <<"block", "opcode", FALSE>>, <<"tx", "call", TRUE>>, <<"tx", "opcode", FALSE>>,
            <<"tx", "prestate", FALSE>>}}

readsVars == <<part, accountVars, entityVars, blockVars, feeVars, traceVars>>

\* The parts a behaviour does not run start in one of their states. The fees of blocks are
\* interchangeable; Redis makes a difference to errors only, a fixed fee to histories only.
OtherPartsFixed ==
  /\ part[1] \notin Ops => \A b \in DOMAIN chain : chain[b] = <<"sent", "other">>
  /\ part[1] # "entities" => kind = "token"
  /\ part[1] # "blocks" => kindOf[t1] = "call"
  /\ fees = <<1>> /\ redis = fixedFees
  /\ part[1] # "fees" => ~fixedFees
  /\ part[1] # "traces" => blockTxs = {} /\ debugApi /\ opcodeLogger

ReadsInit ==
  /\ part \in ReadParams \cup ({"entities", "blocks", "fees", "traces"} \X {0})
  /\ AccountInit /\ EntityInit /\ BlockInit /\ FeeInit /\ TracingInit
  /\ OtherPartsFixed

AccountPart ==
  /\ part[1] \in Ops /\ AccountNext
  /\ \A q \in Readers : Going(q)' => <<read'[q].op, read'[q].b>> = part
  /\ UNCHANGED <<part, entityVars, blockVars, feeVars, traceVars>>

EntityPart ==
  part[1] = "entities" /\ EntityNext /\ UNCHANGED <<part, accountVars, blockVars, feeVars, traceVars>>

BlockPart ==
  part[1] = "blocks" /\ BlockNext /\ UNCHANGED <<part, accountVars, entityVars, feeVars, traceVars>>

FeePart ==
  part[1] = "fees" /\ FeeNext /\ UNCHANGED <<part, accountVars, entityVars, blockVars, traceVars>>

TracePart ==
  part[1] = "traces" /\ TracingNext /\ UNCHANGED <<part, accountVars, entityVars, blockVars, feeVars>>

ReadsSpec ==
  ReadsInit /\ [][AccountPart \/ EntityPart \/ BlockPart \/ FeePart \/ TracePart]_readsVars
=============================================================================
