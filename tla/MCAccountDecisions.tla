------------------------- MODULE MCAccountDecisions -------------------------
(* A liquidation that pays the account off and a stray payment to be resolved. *)
EXTENDS AccountDecisions, TLC

CONSTANTS liquidation, resolution, t1, t2

MCAmount == liquidation :> 2 @@ resolution :> 1

\* Requests and decisions are told apart by what happens to them only.
Interchangeable == Permutations(Requests) \cup Permutations(Deciders)
=============================================================================
