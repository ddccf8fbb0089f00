----------------------- MODULE PlanCalculation_proofs -----------------------
(***************************************************************************)
(* For every balance, penalty and term: the loop of calculateRepaymentPlan *)
(* computes the closed form the project plans with, its rows add up to the *)
(* balance, and no row is negative once the balance reaches half a kobo a  *)
(* month for each month before the final one.                              *)
(***************************************************************************)
EXTENDS PlanCalculation, SequenceTheorems, TLAPS

-----------------------------------------------------------------------------
(* Arithmetic of the rounded quotient                                      *)

\* Integer division by a positive divisor does not exceed the quotient.
LEMMA DivisionBound ==
    ASSUME NEW a \in Nat, NEW d \in Nat \ {0}
    PROVE  /\ a \div d \in Nat
           /\ d * (a \div d) <= a
  BY SMT

\* The rounded monthly amount exceeds the exact one by at most half a kobo.
LEMMA RoundHalfUpBound ==
    ASSUME NEW n \in Nat, NEW d \in Nat \ {0}
    PROVE  /\ RoundHalfUp(n, d) \in Nat
           /\ 2 * (d * RoundHalfUp(n, d)) <= 2 * n + d
  <1>1. 2 * n + d \in Nat /\ 2 * d \in Nat \ {0}
    OBVIOUS
  <1>2. (2 * n + d) \div (2 * d) \in Nat
        /\ (2 * d) * ((2 * n + d) \div (2 * d)) <= 2 * n + d
    BY <1>1, DivisionBound
  <1> QED
    BY <1>2 DEF RoundHalfUp

\* The months before the final one take at most the balance, if it is large enough.
LEMMA MonthsBeforeFinal ==
    ASSUME NEW b \in Nat, NEW n \in Nat \ {0}, NEW q \in Nat,
           2 * (n * q) <= 2 * b + n, n * (n - 1) <= 2 * b
    PROVE  (n - 1) * q <= b
  BY SMTT(30)

\* The months of a plan are at least one.
LEMMA EffectiveTermType ==
    ASSUME NEW b \in Nat, NEW t \in Nat \ {0}
    PROVE  /\ EffectiveTerm(b, t) \in Nat \ {0}
           /\ ScheduledMonthly(b, t) \in Nat
           /\ 2 * (EffectiveTerm(b, t) * ScheduledMonthly(b, t)) <= 2 * b + EffectiveTerm(b, t)
  <1>1. EffectiveTerm(b, t) \in Nat \ {0}
    BY DEF EffectiveTerm
  <1> QED
    BY <1>1, RoundHalfUpBound DEF ScheduledMonthly

(***************************************************************************)
(* No installment of a plan is negative when the balance is at least half  *)
(* a kobo for each month before the last.                                  *)
(***************************************************************************)
THEOREM ScheduledAmountNonNegative ==
    ASSUME NEW b \in Nat, NEW t \in Nat \ {0}, t * (t - 1) <= 2 * b,
           NEW i \in Nat
    PROVE  ScheduledAmount(b, t, i) >= 0
  <1> DEFINE n == EffectiveTerm(b, t)
             q == ScheduledMonthly(b, t)
  <1>1. n \in Nat \ {0} /\ q \in Nat /\ 2 * (n * q) <= 2 * b + n
    BY EffectiveTermType
  <1>2. n * (n - 1) <= 2 * b
    BY DEF EffectiveTerm
  <1>3. (n - 1) * q <= b
    <2> HIDE DEF n, q
    <2> QED
      BY <1>1, <1>2, MonthsBeforeFinal
  <1>4. ScheduledAmount(b, t, i) = IF i = n THEN b - (n - 1) * q ELSE q
    BY DEF ScheduledAmount
  <1>5. (n - 1) * q \in Int
    <2> HIDE DEF n, q
    <2> QED
      BY <1>1
  <1> HIDE DEF n, q
  <1> QED
    BY <1>1, <1>3, <1>4, <1>5

-----------------------------------------------------------------------------
(* The loop                                                                *)

(***************************************************************************)
(* What every turn keeps: the inputs are valid, the rows are the closed    *)
(* form, and scheduledSoFar is their sum.                                  *)
(***************************************************************************)
LoopInv ==
    /\ TypeOK
    /\ PlanInputValid(balance, penalty, term)
    /\ LoopIsClosedForm
    /\ scheduledSoFar = IF Len(installments) = Months
                        THEN balance
                        ELSE Len(installments) * ScheduledMonthly(balance, term)

\* The loop invariant holds before the first installment.
LEMMA LoopInvInit == Init => LoopInv
  <1> SUFFICES ASSUME Init PROVE LoopInv
    OBVIOUS
  <1>1. balance \in Nat /\ penalty \in Nat /\ term \in Nat \ {0}
    BY InputsAssumption DEF Init
  <1>2. Months \in Nat \ {0} /\ ScheduledMonthly(balance, term) \in Nat
    BY <1>1, EffectiveTermType DEF Months
  <1>3. TypeOK
    BY <1>1, <1>2 DEF Init, TypeOK
  <1>4. LoopIsClosedForm
    BY DEF Init, LoopIsClosedForm
  <1> QED
    BY <1>2, <1>3, <1>4 DEF Init, LoopInv

\* Each installment the loop writes preserves the loop invariant.
LEMMA LoopInvStep == LoopInv /\ [Next]_vars => LoopInv'
  <1> SUFFICES ASSUME LoopInv, [Next]_vars PROVE LoopInv'
    OBVIOUS
  <1>1. CASE UNCHANGED vars
    BY <1>1 DEF vars, LoopInv, TypeOK, LoopIsClosedForm, Months
  <1>2. CASE PushInstallment
    <2> DEFINE n == Len(installments)
               q == ScheduledMonthly(balance, term)
               amount == IF n + 1 = Months THEN balance - scheduledSoFar ELSE q
               row == [scheduled |-> amount, penaltyDue |-> PenaltyDue(penalty, n + 1)]
    <2>1. /\ n + 1 <= Months
          /\ installments' = Append(installments, row)
          /\ scheduledSoFar' = scheduledSoFar + amount
          /\ UNCHANGED <<balance, penalty, term, Months, q>>
      BY <1>2 DEF PushInstallment, Months
    <2>2. /\ n \in Nat
          /\ Months \in Nat \ {0}
          /\ q \in Nat
          /\ scheduledSoFar = n * q
      <3>1. balance \in Nat /\ term \in Nat \ {0} /\ n \in Nat
        BY DEF LoopInv, TypeOK
      <3>2. Months \in Nat \ {0} /\ q \in Nat
        BY <3>1, EffectiveTermType DEF Months
      <3>3. n # Months
        BY <2>1, <3>1, <3>2
      <3> QED
        BY <3>1, <3>2, <3>3 DEF LoopInv
    <2>3. amount = ScheduledAmount(balance, term, n + 1) /\ amount \in Int
      <3>1. CASE n + 1 = Months
        BY <2>2, <3>1 DEF ScheduledAmount, Months, LoopInv, TypeOK
      <3>2. CASE n + 1 # Months
        BY <2>2, <3>2 DEF ScheduledAmount, Months
      <3> QED
        BY <3>1, <3>2
    <2>4. row \in [scheduled : Int, penaltyDue : Nat]
      BY <2>2, <2>3 DEF PenaltyDue, LoopInv, TypeOK
    <2>5. Len(installments') = n + 1
      BY <2>1, <2>4 DEF LoopInv, TypeOK
    <2>6. TypeOK'
      BY <2>1, <2>2, <2>3, <2>4, <2>5 DEF LoopInv, TypeOK
    <2>7. PlanInputValid(balance, penalty, term)'
      BY <2>1 DEF LoopInv, PlanInputValid
    <2>8. LoopIsClosedForm'
      <3> SUFFICES ASSUME NEW i \in 1 .. n + 1
                   PROVE  /\ installments'[i].scheduled = ScheduledAmount(balance, term, i)
                          /\ installments'[i].penaltyDue = PenaltyDue(penalty, i)
        <4>1. /\ DOMAIN installments' = 1 .. n + 1
              /\ balance' = balance
              /\ penalty' = penalty
              /\ term' = term
          BY <2>1, <2>5, <2>6 DEF TypeOK
        <4> HIDE DEF n, q, amount, row
        <4> QED
          BY <4>1 DEF LoopIsClosedForm
      <3>1. CASE i = n + 1
        BY <2>1, <2>2, <2>3, <3>1 DEF LoopInv, TypeOK
      <3>2. CASE i # n + 1
        <4>1. i \in 1 .. n /\ installments'[i] = installments[i]
          <5>1. installments \in Seq([scheduled : Int, penaltyDue : Nat])
            BY DEF LoopInv, TypeOK
          <5>2. i \in 1 .. n
            BY <2>2, <3>2
          <5>3. Append(installments, row)[i] = installments[i]
            BY <2>4, <5>1, <5>2, AppendProperties
          <5> QED
            BY <2>1, <5>2, <5>3
        <4> QED
          BY <4>1 DEF LoopInv, LoopIsClosedForm, TypeOK
      <3> QED
        BY <3>1, <3>2
    <2>9. scheduledSoFar' = IF n + 1 = Months THEN balance ELSE (n + 1) * q
      <3>1. CASE n + 1 = Months
        BY <2>1, <2>2, <3>1 DEF LoopInv, TypeOK
      <3>2. CASE n + 1 # Months
        <4> HIDE DEF q, n
        <4> QED
          BY <2>1, <2>2, <3>2
      <3> QED
        BY <3>1, <3>2
    <2> QED
      BY <2>1, <2>5, <2>6, <2>7, <2>8, <2>9 DEF LoopInv
  <1> QED
    BY <1>1, <1>2 DEF Next

\* The loop invariant holds throughout.
LEMMA LoopInvAlways == Spec => []LoopInv
  BY LoopInvInit, LoopInvStep, PTL DEF Spec

\* The rows keep their shape and the loop pushes no more rows than the term.
THEOREM TypeCorrect == Spec => []TypeOK
  <1>1. LoopInv => TypeOK
    BY DEF LoopInv
  <1> QED
    BY <1>1, LoopInvAlways, PTL

\* The loop of the code pushes the rows of the closed form, in order.
THEOREM LoopComputesClosedForm == Spec => []LoopIsClosedForm
  <1>1. LoopInv => LoopIsClosedForm
    BY DEF LoopInv
  <1> QED
    BY <1>1, LoopInvAlways, PTL

(***************************************************************************)
(* The rows of a finished plan add up to the balance, so the guard that    *)
(* throws 'Plan installments do not reconcile to scheduled balance' is     *)
(* dead code, for every balance and term.                                  *)
(***************************************************************************)
THEOREM PlansReconcile == Spec => []PlanReconciles
  <1>1. LoopInv => PlanReconciles
    BY DEF LoopInv, PlanReconciles
  <1> QED
    BY <1>1, LoopInvAlways, PTL

\* No row of a plan is negative when the balance is large enough for its term.
THEOREM InstallmentsNonNegative == Spec => []NoNegativeInstallment
  <1>1. LoopInv => NoNegativeInstallment
    <2> SUFFICES ASSUME LoopInv, term * (term - 1) <= 2 * balance,
                        NEW i \in DOMAIN installments
                 PROVE  installments[i].scheduled >= 0
      BY DEF NoNegativeInstallment, LoopInv, TypeOK
    <2>1. /\ balance \in Nat /\ term \in Nat \ {0} /\ i \in Nat
          /\ installments[i].scheduled = ScheduledAmount(balance, term, i)
      BY DEF LoopInv, TypeOK, LoopIsClosedForm
    <2> QED
      BY <2>1, ScheduledAmountNonNegative
  <1> QED
    BY <1>1, LoopInvAlways, PTL
=============================================================================
