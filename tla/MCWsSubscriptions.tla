------------------------- MODULE MCWsSubscriptions -------------------------
(* Instances of WsSubscriptions for TLC.                                   *)
EXTENDS WsSubscriptions, TLC

CONSTANTS c1, c2, c3, ip1

\* all connections from one address
OneIp == [c \in Conns |-> ip1]

SymmetricTags == Permutations(Requests) \cup Permutations(LogTags)
=============================================================================
