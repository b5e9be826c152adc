----------------------------- MODULE MCFilters -----------------------------
(* Instances of Filters for TLC.                                           *)
EXTENDS Filters, TLC

\* fromBlock and toBlock are left out or name a block, mined or not
SomeToBlocks == {Latest, 2}
SomeFromBlocks == {Latest, 2}

SymmetricCalls == Permutations(Calls)
=============================================================================
