----------------------------- MODULE LoanLedger -----------------------------
(***************************************************************************)
(* What a borrower's loan rows hold of the debt, and how a payment is      *)
(* spread over them.  `loans' is the sequence of the borrower's loans in   *)
(* disbursement order (the code's orderBy disbursementDate asc); a row     *)
(* keeps the two differences every use of it takes:                        *)
(*   owed    = Loan.repayable - Loan.repaid                                *)
(*   penalty = Loan.penalty - Loan.penaltyRepaid                           *)
(***************************************************************************)
EXTENDS RepaymentPlanLogic, Sequences

LoanRow == [status : {"DISBURSED", "REPAID"}, owed : Nat, penalty : Nat]

\* The amounts of the loans the code reads with status: 'DISBURSED'.
OwedAmounts(loans) ==
    [i \in DOMAIN loans |-> IF loans[i].status = "DISBURSED" THEN loans[i].owed ELSE 0]

PenaltyAmounts(loans) ==
    [i \in DOMAIN loans |-> IF loans[i].status = "DISBURSED" THEN loans[i].penalty ELSE 0]

\* The penalties of all the borrower's loans: adjustPenalty reads every status.
AllPenaltyAmounts(loans) == [i \in DOMAIN loans |-> loans[i].penalty]

\* RunningTotal(a)[n] is the sum of the first n amounts.
RunningTotal(a) ==
    LET total[n \in 0 .. Len(a)] == IF n = 0 THEN 0 ELSE total[n - 1] + a[n]
    IN  total

Total(a) == RunningTotal(a)[Len(a)]

\* Mutant: a loan takes all that is left, whatever it owes.
ShareUnbounded(a, amount, i) == Floor0(amount - RunningTotal(a)[i - 1])

(***************************************************************************)
(* The loops "for (const loan of loans)": each loan, oldest first, takes   *)
(* min(what is left of the amount, what it owes).  What is left when loan  *)
(* i is reached is the amount less everything the loans before it owe.     *)
(***************************************************************************)
Share(a, amount, i) == Least(Floor0(amount - RunningTotal(a)[i - 1]), a[i])

\* What the loans take of a contractual payment: its INTEREST and PRINCIPAL allocations.
Allocated(loans, contractualPaid) ==
    Total([i \in DOMAIN loans |-> Share(OwedAmounts(loans), contractualPaid, i)])

\* Loan rows after `penaltyPaid' and then `contractualPaid' were spread over them.
PayLoans(loans, penaltyPaid, contractualPaid) ==
    [i \in DOMAIN loans |->
        [loans[i] EXCEPT
            !.penalty = @ - Share(PenaltyAmounts(loans), penaltyPaid, i),
            !.owed    = @ - Share(OwedAmounts(loans), contractualPaid, i)]]

\* adjustPenalty's loop over the borrower's loans of every status.
WaiveOnLoans(loans, amount) ==
    [i \in DOMAIN loans |->
        [loans[i] EXCEPT !.penalty = @ - Share(AllPenaltyAmounts(loans), amount, i)]]

\* settleFullyPaidLoans
SettleFullyPaid(loans) ==
    [i \in DOMAIN loans |->
        [loans[i] EXCEPT !.status = IF loans[i].owed = 0 /\ loans[i].penalty = 0
                                    THEN "REPAID" ELSE @]]

Disbursed(loans) == {i \in DOMAIN loans : loans[i].status = "DISBURSED"}

\* Mutant: the oldest loan is charged even when it is REPAID.
ChargeFirstLoan(loans, penalty) ==
    [i \in DOMAIN loans |-> [loans[i] EXCEPT !.penalty = IF i = 1 THEN @ + penalty ELSE @]]

\* closeRepaymentPeriod charges a penalty to the oldest disbursed loan, if any.
ChargeOldest(loans, penalty) ==
    [i \in DOMAIN loans |->
        [loans[i] EXCEPT !.penalty =
            IF /\ i \in Disbursed(loans)
               /\ \A j \in Disbursed(loans) : i <= j
            THEN @ + penalty ELSE @]]
=============================================================================
