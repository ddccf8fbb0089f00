------------------------- MODULE RepaymentPlanLogic -------------------------
(***************************************************************************)
(* The pure functions of src/obligations/repayment-plan.logic.ts and the   *)
(* month search of repayment-obligation.service.ts.  Money is an integer   *)
(* number of kobo (the code's Decimal(18,2) rounded by money()), a payroll *)
(* period is an integer month number, so canonicalPeriod() and             *)
(* nextPayrollPeriod() are the month number and its successor.             *)
(***************************************************************************)
EXTENDS Integers, FiniteSets

\* Decimal.max(value, 0), which floors every difference of balances.
Floor0(n) == IF n > 0 THEN n ELSE 0

Least(a, b) == IF a < b THEN a ELSE b

Greatest(a, b) == IF a > b THEN a ELSE b

\* Mutant: rounds every quotient up.
RoundUp(n, d) == (n + d - 1) \div d

\* money(n / d): the quotient rounded to the kobo, half up (n >= 0).
RoundHalfUp(n, d) == (2 * n + d) \div (2 * d)

(***************************************************************************)
(* calculateRepaymentPlan: equal installments of the rounded quotient, the *)
(* rounding remainder in the final one, the penalty in the first one only. *)
(* A plan of penalty alone has one installment whatever term was asked.    *)
(***************************************************************************)
EffectiveTerm(balance, term) == IF balance = 0 THEN 1 ELSE term

ScheduledMonthly(balance, term) == RoundHalfUp(balance, EffectiveTerm(balance, term))

\* Mutant: the final installment does not take up the rounding remainder.
ScheduledEqually(balance, term, sequence) == ScheduledMonthly(balance, term)

ScheduledAmount(balance, term, sequence) ==
    LET n == EffectiveTerm(balance, term) IN
    IF sequence = n
    THEN balance - (n - 1) * ScheduledMonthly(balance, term)
    ELSE ScheduledMonthly(balance, term)

PenaltyDue(penalty, sequence) == IF sequence = 1 THEN penalty ELSE 0

\* The inputs calculateRepaymentPlan accepts; it throws on any other.
PlanInputValid(balance, penalty, term) ==
    /\ balance >= 0
    /\ penalty >= 0
    /\ term >= 1
    /\ balance + penalty > 0

PlanPeriods(balance, term, from) == from .. from + EffectiveTerm(balance, term) - 1

(***************************************************************************)
(* calculateFuturePlanBalances: what a new plan may schedule is what is    *)
(* outstanding less what already published rows still claim.               *)
(***************************************************************************)
FuturePlanBalances(contractual, penalty, frozenContractual, frozenPenalty) ==
    [contractual |-> Floor0(contractual - frozenContractual),
     penalty     |-> Floor0(penalty - frozenPenalty)]

\* Mutant: the official months are not looked at.
CandidatePeriod(candidate, official) == candidate

(***************************************************************************)
(* nextUnpublishedPeriod / firstOpenPeriod: the first month from candidate *)
(* on that has no official schedule.                                       *)
(***************************************************************************)
FirstOpenPeriod(candidate, official) ==
    CHOOSE m \in candidate .. candidate + Cardinality(official) :
        /\ m \notin official
        /\ \A n \in candidate .. m - 1 : n \in official
=============================================================================
