--------------------------- MODULE MCPayrollUpload ---------------------------
(* Since a liquidation both owe less than their rows expect: the correction settles    *)
(* ann's debt, both files of month 1 pay her row off.  ben defaults unless he is in a  *)
(* file; with the penalty of month 1 he owes month 2 in full, which is more than the   *)
(* counter started from.  Payroll does not know cat.                                   *)
EXTENDS PayrollUpload, TLC

CONSTANTS ann, ben, cat, results, correction, second

MCDue == <<ann, 1>> :> 4 @@ <<ben, 1>> :> 1 @@ <<ben, 2>> :> 5

MCDebt == ann :> 2 @@ ben :> 2

Line(staff, period, amount) == [staff |-> staff, period |-> period, amount |-> amount]

MCContent ==
    results :> <<Line(ann, 1, 1), Line(cat, 1, 1), Line(ben, 1, 1)>>
    @@ correction :> <<Line(cat, 0, 0), Line(ann, 1, 3)>>
    @@ second :> <<Line(ben, 2, 5)>>
=============================================================================
