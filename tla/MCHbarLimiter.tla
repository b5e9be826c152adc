--------------------------- MODULE MCHbarLimiter ---------------------------
(***************************************************************************)
(* Instances of HbarLimiter for TLC.                                       *)
(***************************************************************************)
EXTENDS HbarLimiter

CONSTANTS p1, p2, r1, r2, u1, ip1

OneRelay == {r1}
TwoRelays == {r1, r2}
OneRequest == {p1}
TwoRequests == {p1, p2}
Alone == [p \in {p1} |-> r1]
OwnRelay == [p \in {p1, p2} |-> IF p = p1 THEN r1 ELSE r2]

\* the operator's budget allows two unit fees, a user's plan one
Limits == [t \in Tiers |-> IF t = "OPERATOR" THEN 2 ELSE IF t = "BASIC" THEN 1 ELSE 2]
\* the budget is the only limit that matters
BudgetOnly == [t \in Tiers |-> IF t = "OPERATOR" THEN 2 ELSE 9]

NoIps == {}
NoTiers == <<>>
NoLinks == [k \in {u1, Operator} |-> 0]

\* the operator's plan, preconfigured: it never expires
OpTiers == <<"OPERATOR">>
OpLinks == [k \in {u1, ip1, Operator} |-> IF k = Operator THEN 1 ELSE 0]
=============================================================================
