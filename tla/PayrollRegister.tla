-------------------------- MODULE PayrollRegister --------------------------
(***************************************************************************)
(* What the variation schedules of one payroll month promise the payroll   *)
(* office: every calculation is kept as it was issued, at most one is the  *)
(* instruction in force and a later submission alone replaces it, and the  *)
(* file recorded for a calculation is that calculation's own.              *)
(***************************************************************************)
EXTENDS Sequences, Naturals

VARIABLES
    issued,    \* the rows of each calculation, in version order
    inForce,   \* versions payroll is to follow
    filed      \* for each version the rows of its recorded file, {} if none

register == <<issued, inForce, filed>>

RegisterInit == issued = <<>> /\ inForce = {} /\ filed = <<>>

Calculate ==
    /\ Len(issued') = Len(issued) + 1
    /\ SubSeq(issued', 1, Len(issued)) = issued
    /\ filed' = Append(filed, {})
    /\ inForce' \in {inForce, {Len(issued) + 1}}

File(v) ==
    /\ filed[v] = {}
    /\ filed' = [filed EXCEPT ![v] = issued[v]]
    /\ UNCHANGED <<issued, inForce>>

RegisterNext == Calculate \/ \E v \in DOMAIN issued : File(v)

RegisterSpec == RegisterInit /\ [][RegisterNext]_register
=============================================================================
