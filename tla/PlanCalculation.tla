-------------------------- MODULE PlanCalculation --------------------------
(***************************************************************************)
(* calculateRepaymentPlan as the loop it is: it appends one installment a  *)
(* turn, keeps the running scheduledSoFar, and gives the final installment *)
(* what is left of the balance.  The rest of the project uses the closed   *)
(* form of RepaymentPlanLogic; this module is what ties it to the code.    *)
(***************************************************************************)
EXTENDS RepaymentPlanLogic, Sequences

CONSTANTS Balances,     \* scheduled balances tried, in kobo
          Penalties,    \* penalty balances tried, in kobo
          TermLimit     \* longest term tried (the DTO accepts 1..120)

ASSUME InputsAssumption ==
    /\ Balances \subseteq Nat
    /\ Penalties \subseteq Nat
    /\ TermLimit \in Nat \ {0}

VARIABLES balance, penalty, term, \* the inputs
          installments,           \* the rows pushed so far
          scheduledSoFar

vars == <<balance, penalty, term, installments, scheduledSoFar>>

\* termMonths after the penalty-only rule.
Months == EffectiveTerm(balance, term)

Init ==
    /\ balance \in Balances
    /\ penalty \in Penalties
    /\ term \in 1 .. TermLimit
    /\ PlanInputValid(balance, penalty, term)
    /\ installments = <<>>
    /\ scheduledSoFar = 0

\* Mutant: the final installment is like the others.
PushEqualInstallment ==
    LET sequence == Len(installments) + 1
        amount == ScheduledMonthly(balance, term)
    IN /\ sequence <= Months
       /\ installments' = Append(installments,
              [scheduled |-> amount, penaltyDue |-> PenaltyDue(penalty, sequence)])
       /\ scheduledSoFar' = scheduledSoFar + amount
       /\ UNCHANGED <<balance, penalty, term>>

\* Mutant: one installment too many.
PushBeyondTerm ==
    LET sequence == Len(installments) + 1
        amount == ScheduledMonthly(balance, term)
    IN /\ sequence <= Months + 1
       /\ installments' = Append(installments,
              [scheduled |-> amount, penaltyDue |-> PenaltyDue(penalty, sequence)])
       /\ scheduledSoFar' = scheduledSoFar + amount
       /\ UNCHANGED <<balance, penalty, term>>

\* One turn of the for loop.
PushInstallment ==
    LET sequence == Len(installments) + 1
        amount == IF sequence = Months
                  THEN balance - scheduledSoFar
                  ELSE ScheduledMonthly(balance, term)
    IN /\ sequence <= Months
       /\ installments' = Append(installments,
              [scheduled |-> amount, penaltyDue |-> PenaltyDue(penalty, sequence)])
       /\ scheduledSoFar' = scheduledSoFar + amount
       /\ UNCHANGED <<balance, penalty, term>>

Next == PushInstallment

Spec == Init /\ [][Next]_vars

-----------------------------------------------------------------------------
\* The rows keep their shape, and the loop stops at the term.
TypeOK ==
    /\ balance \in Nat
    /\ penalty \in Nat
    /\ term \in Nat \ {0}
    /\ installments \in Seq([scheduled : Int, penaltyDue : Nat])
    /\ Len(installments) <= Months
    /\ scheduledSoFar \in Int

(***************************************************************************)
(* The loop produces the closed form, so the guard that throws 'Plan       *)
(* installments do not reconcile to scheduled balance' never fires.        *)
(***************************************************************************)
LoopIsClosedForm ==
    \A i \in DOMAIN installments :
        /\ installments[i].scheduled = ScheduledAmount(balance, term, i)
        /\ installments[i].penaltyDue = PenaltyDue(penalty, i)

\* A finished plan schedules the balance exactly, whatever the rounding.
PlanReconciles == Len(installments) = Months => scheduledSoFar = balance

(***************************************************************************)
(* Half-up rounding of every month can take more than the balance before   *)
(* the final month; it cannot when the balance is at least                 *)
(* term * (term - 1) / 2 kobo, half a kobo a month for each month before.  *)
(***************************************************************************)
NoNegativeInstallment ==
    2 * balance >= term * (term - 1) =>
        \A i \in DOMAIN installments : installments[i].scheduled >= 0
=============================================================================
