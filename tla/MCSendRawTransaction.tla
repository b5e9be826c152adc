----------------------- MODULE MCSendRawTransaction -----------------------
(* Instances of SendRawTransaction for TLC.                                *)
EXTENDS SendRawTransaction, TLC

CONSTANTS t1, t2, t3, a1

OneSender == [t \in Txs |-> a1]

\* three transactions of one account: consecutive, and one sent twice
SameNonceTwice == [t \in Txs |-> IF t = t1 THEN 1 ELSE 2]
Consecutive == [t \in Txs |-> IF t = t1 THEN 1 ELSE IF t = t2 THEN 2 ELSE 3]
FromOne == [a \in Accounts |-> 1]
=============================================================================
