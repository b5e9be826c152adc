----------------------------- MODULE MCDelivery -----------------------------
(* The instance of Delivery for TLC.                                       *)
EXTENDS Delivery

CONSTANT s1

\* one hash may leave the sent cache
OneHash == {<<s1, 2>>}
=============================================================================
