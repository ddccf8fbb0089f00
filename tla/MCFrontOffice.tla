---------------------------- MODULE MCFrontOffice ----------------------------
(***************************************************************************)
(* One customer with two loans and a commodity, two servers, and a sheet   *)
(* of three rows.  The processes that work on them are the same two in     *)
(* every scene: a server's call is on an account, on an application or at  *)
(* the gate, and a worker's on an import.                                  *)
(***************************************************************************)
EXTENDS FrontOffice, TLC

\* Loans and processes are told apart by what happens to them only.
Interchangeable == Permutations(Loans) \cup Permutations(Callers)
=============================================================================
