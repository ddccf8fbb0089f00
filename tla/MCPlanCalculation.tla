------------------------- MODULE MCPlanCalculation -------------------------
(* Every balance up to 40 kobo with every term up to nine months.          *)
EXTENDS PlanCalculation

SmallBalances == 0 .. 40
=============================================================================
