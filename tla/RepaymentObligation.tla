------------------------ MODULE RepaymentObligation ------------------------
(***************************************************************************)
(* The accounts of one borrower as RepaymentObligationService keeps them:  *)
(* the loan rows, the consolidated obligations, their repayment plans with *)
(* one installment per payroll month, and the months that have an official *)
(* payroll schedule.  An operation is one Serializable transaction on one  *)
(* borrower's rows, so it is one action here and one borrower is enough.   *)
(* Two operations read before their transactions begin and are split:      *)
(* closeRepaymentPeriod lists the installments and then runs a transaction *)
(* for each; backfillActiveObligations lists the borrowers, looks for an   *)
(* open obligation of each, and then opens one in a transaction that does  *)
(* not look again.  Other borrowers appear where they matter: they can     *)
(* make a month official.                                                  *)
(***************************************************************************)
EXTENDS LoanLedger, FiniteSetsExt

CONSTANTS
    Horizon,            \* last payroll month the clock reaches
    LoanTotals,         \* contractual repayable amounts of new loans
    Tenures,            \* their tenures, and the terms a tenure change asks for
    Receipts,           \* amounts a payroll row or a liquidation may carry
    Waivers,            \* amounts of a penalty adjustment
    RateNum, RateDen,   \* PENALTY_FEE_RATE as a fraction
    LegacyPortfolios,   \* loan rows that may predate the obligations
    Workers,            \* calls of backfillActiveObligations that may run at a time
    MaxLoans,           \* bound: loans ever disbursed to the borrower
    MaxPlans,           \* bound: plans ever published
    MaxCredit           \* bound: credit balance of an obligation

ASSUME ConstantsAssumption ==
    /\ Horizon \in Nat \ {0}
    /\ LoanTotals \subseteq Nat \ {0}
    /\ Tenures \subseteq Nat \ {0}
    /\ Receipts \subseteq Nat \ {0}
    /\ Waivers \subseteq Nat \ {0}
    /\ RateNum \in Nat
    /\ RateDen \in Nat \ {0}
    /\ LegacyPortfolios \subseteq Seq({row \in LoanRow : row.status = "DISBURSED"})
    /\ MaxLoans \in Nat /\ MaxPlans \in Nat /\ MaxCredit \in Nat

VARIABLES
    month,        \* canonicalPeriod(new Date())
    official,     \* periods that have an official payroll schedule
    loans,        \* the borrower's Loan rows, in disbursement order
    obligations,  \* RepaymentObligation rows, in the order of openedAt
    statement,    \* per obligation, the balances getLoanStatement replays from its events
    baselined,    \* the key migration-baseline:<borrowerId> has been used
    plans,        \* RepaymentPlan rows with their installments, in creation order
    closing,      \* the work list of a running closeRepaymentPeriod
    backfills,    \* how far each backfill has got with this borrower
    doubled       \* history: a backfill opened an obligation beside an open one

vars == <<month, official, loans, obligations, statement, baselined, plans, closing,
          backfills, doubled>>

Periods == 1 .. Horizon

NoPlan == 0

Obligation == [status : {"ACTIVE", "SETTLED"}, contractual : Nat, penalty : Nat,
               credit : Nat, currentPlan : Nat]

Installment ==
    [scheduled : Int, penaltyDue : Nat,
     paid : Nat,          \* paidAmount
     toContract : Nat,    \* INTEREST and PRINCIPAL allocations naming the row
     toPenalty : Nat,     \* PENALTY allocations naming the row
     status : {"PLANNED", "PUBLISHED", "PARTIAL", "PAID", "MISSED", "SUPERSEDED"},
     closed : BOOLEAN]    \* closedAt is set

Balance == [contractual : Nat, penalty : Nat]

NotClosing == [period |-> 0, todo |-> {}]

-----------------------------------------------------------------------------
(* Rows                                                                    *)

PlansOf(o) == {k \in DOMAIN plans : plans[k].obligation = o}

Payable(o, m) ==
    {k \in PlansOf(o) :
        /\ m \in DOMAIN plans[k].rows
        /\ LET row == plans[k].rows[m] IN
           /\ ~row.closed
           /\ \/ row.status = "PLANNED" /\ plans[k].status = "PUBLISHED"
              \/ row.status \in {"PUBLISHED", "PARTIAL"}}

TotalExpected(row) == row.scheduled + row.penaltyDue

RemainingDue(row) == Floor0(TotalExpected(row) - row.paid)

\* The periods of the current plan from `from' on whose rows are still ahead.
CurrentRows(o, from, statuses) ==
    IF obligations[o].currentPlan = NoPlan THEN {}
    ELSE LET rows == plans[obligations[o].currentPlan].rows
         IN  {m \in DOMAIN rows : m >= from /\ rows[m].status \in statuses}

RemainingTerm(o, from) == Greatest(1, Cardinality(CurrentRows(o, from, {"PLANNED", "PUBLISHED"})))

\* balancesAvailableForFuturePlan
Frozen(o, from) ==
    UNION {{<<k, m>> : m \in {n \in DOMAIN plans[k].rows :
                                 /\ n < from
                                 /\ ~plans[k].rows[n].closed
                                 /\ plans[k].rows[n].status \in {"PUBLISHED", "PARTIAL"}}}
           : k \in PlansOf(o)}

FrozenContractual(o, from) ==
    SumFunction([c \in Frozen(o, from) |->
        Floor0(plans[c[1]].rows[c[2]].scheduled - plans[c[1]].rows[c[2]].toContract)])

FrozenPenalty(o, from) ==
    SumFunction([c \in Frozen(o, from) |->
        Floor0(plans[c[1]].rows[c[2]].penaltyDue - plans[c[1]].rows[c[2]].toPenalty)])

Available(o, from, contractual, penalty) ==
    FuturePlanBalances(contractual, penalty,
                       FrozenContractual(o, from), FrozenPenalty(o, from))

-----------------------------------------------------------------------------
(* Publishing and withdrawing plans.  `ps' is the plans sequence the       *)
(* transaction has built so far.                                           *)

(***************************************************************************)
(* publishPlan numbers a plan one above the PUBLISHED plan of the          *)
(* obligation, or 1 when none is PUBLISHED.  A second plan numbered 1      *)
(* breaks unique(obligationId, version) and the transaction rolls back.    *)
(***************************************************************************)
PlanVersionFree(ps, o) ==
    LET mine == {k \in DOMAIN ps : ps[k].obligation = o}
    IN  mine = {} \/ \E k \in mine : ps[k].status = "PUBLISHED"

NewRows(contractual, penalty, term, from) ==
    [m \in PlanPeriods(contractual, term, from) |->
        [scheduled  |-> ScheduledAmount(contractual, term, m - from + 1),
         penaltyDue |-> PenaltyDue(penalty, m - from + 1),
         paid |-> 0, toContract |-> 0, toPenalty |-> 0,
         status |-> "PLANNED", closed |-> FALSE]]

\* Mutant: withdraws rows that are already on an official schedule.
SupersedePublishedRows(plan, from) ==
    [plan EXCEPT !.rows =
        [m \in DOMAIN plan.rows |->
            IF m >= from /\ plan.rows[m].status \in {"PLANNED", "PUBLISHED"}
            THEN [plan.rows[m] EXCEPT !.status = "SUPERSEDED"]
            ELSE plan.rows[m]]]

SupersedePlanned(plan, from) ==
    [plan EXCEPT !.rows =
        [m \in DOMAIN plan.rows |->
            IF m >= from /\ plan.rows[m].status = "PLANNED"
            THEN [plan.rows[m] EXCEPT !.status = "SUPERSEDED"]
            ELSE plan.rows[m]]]

\* Mutant: the previous plan's rows are superseded, the plan itself is not.
SupersedeRowsOnly(ps, o, from) ==
    [k \in DOMAIN ps |->
        IF ps[k].obligation = o THEN SupersedePlanned(ps[k], from) ELSE ps[k]]

\* The obligation's plans with the PUBLISHED one, if any, superseded from `from' on.
SupersedePublished(ps, o, from) ==
    IF \E k \in DOMAIN ps : ps[k].obligation = o /\ ps[k].status = "PUBLISHED"
    THEN [k \in DOMAIN ps |->
            IF ps[k].obligation = o
            THEN [SupersedePlanned(ps[k], from) EXCEPT !.status = "SUPERSEDED"]
            ELSE ps[k]]
    ELSE ps

PublishPlan(ps, o, contractual, penalty, term, from) ==
    Append(SupersedePublished(ps, o, from),
           [obligation |-> o, status |-> "PUBLISHED",
            rows |-> NewRows(contractual, penalty, term, from)])

\* What keeps publishPlan from throwing, and the bound on plans.
CanPublish(ps, o, contractual, penalty, term) ==
    /\ PlanInputValid(contractual, penalty, term)
    /\ PlanVersionFree(ps, o)
    /\ Len(ps) < MaxPlans

\* supersedeFuturePlanWithoutReplacement
WithdrawPlan(ps, o, current, from) ==
    [k \in DOMAIN ps |->
        IF ps[k].obligation # o THEN ps[k]
        ELSE [SupersedePlanned(ps[k], from) EXCEPT
                 !.status = IF k = current THEN "SUPERSEDED" ELSE @]]

\* A settled obligation is one that owes nothing after the operation.
StatusAfter(status, contractual, penalty) ==
    IF contractual = 0 /\ penalty = 0 THEN "SETTLED" ELSE status

-----------------------------------------------------------------------------
(* Opening obligations                                                     *)

Open(o) == obligations[o].status = "ACTIVE"

OpenObligations == {o \in DOMAIN obligations : Open(o)}

\* calculateBorrowerBalances
LoansOwe == Total(OwedAmounts(loans))
LoansOwePenalty == Total(PenaltyAmounts(loans))

NewObligation(contractual, penalty, plan) ==
    [status |-> "ACTIVE", contractual |-> contractual, penalty |-> penalty,
     credit |-> 0, currentPlan |-> plan]

\* The statement of a new obligation, from its first event.
Replayed(contractual, penalty) == [contractual |-> contractual, penalty |-> penalty]

\* Mutant: looks for the statuses that nothing sets.
NoneDraft == \A o \in DOMAIN obligations : obligations[o].status \notin {"DRAFT", "SUSPENDED"}

\* Both disburseAdvance and the backfill look for an obligation that is not settled.
NoneOpen == OpenObligations = {}

(***************************************************************************)
(* createBaselineObligation: an obligation over all the disbursed loans,   *)
(* and its plan from month `from' on, official or not.  It refuses a       *)
(* borrower without loans and a key that was used, and looks for no other  *)
(* obligation.  The term comes from tenures and dates of the loans: any    *)
(* tenure here.                                                            *)
(***************************************************************************)
BaselinePossible(o, term) ==
    /\ Disbursed(loans) # {}
    /\ ~baselined
    /\ CanPublish(plans, o, LoansOwe, LoansOwePenalty, term)

(***************************************************************************)
(* backfillActiveObligations.  The borrowers are listed, and an open       *)
(* obligation is looked for, before the transaction that opens one: others *)
(* settle and open obligations in between.                                 *)
(***************************************************************************)
BackfillStep(w, from, to) ==
    /\ backfills[w] = from
    /\ backfills' = [backfills EXCEPT ![w] = to]

ListBorrower(w) ==
    /\ Disbursed(loans) # {}
    /\ BackfillStep(w, "idle", "listed")
    /\ UNCHANGED <<month, official, loans, obligations, statement, baselined, plans, closing,
                   doubled>>

FindNoneOpen(w) ==
    /\ NoneOpen
    /\ BackfillStep(w, "listed", "clear")
    /\ UNCHANGED <<month, official, loans, obligations, statement, baselined, plans, closing,
                   doubled>>

CreateBaseline(w, term, from) ==
    LET o == Len(obligations) + 1 IN
    /\ BackfillStep(w, "clear", "idle")
    /\ BaselinePossible(o, term)
    /\ plans' = PublishPlan(plans, o, LoansOwe, LoansOwePenalty, term, from)
    /\ obligations' = Append(obligations,
                             NewObligation(LoansOwe, LoansOwePenalty, Len(plans) + 1))
    /\ statement' = Append(statement, Replayed(LoansOwe, LoansOwePenalty))
    /\ baselined' = TRUE
    /\ doubled' = (doubled \/ OpenObligations # {})
    /\ UNCHANGED <<month, official, loans, closing>>

\* An open obligation was found, the creation was refused, or the worker died.
BackfillEnds(w) ==
    /\ backfills[w] # "idle"
    /\ backfills' = [backfills EXCEPT ![w] = "idle"]
    /\ UNCHANGED <<month, official, loans, obligations, statement, baselined, plans, closing,
                   doubled>>

\* The loan row that disburseAdvance turns DISBURSED, last in disbursement order.
AddLoan(total) ==
    /\ Len(loans) < MaxLoans
    /\ loans' = Append(loans, [status |-> "DISBURSED", owed |-> total, penalty |-> 0])

(***************************************************************************)
(* isTopup: the obligation lists advances, or the loan is a Topup.  Only a *)
(* baseline beside or after another obligation can list none: a loan is    *)
(* listed once.                                                            *)
(***************************************************************************)
ListsNoAdvance(o, migrated) == o > 1 /\ migrated

ConsolidatedTerm(isTopup, oldTerm, tenure) ==
    IF isTopup THEN Greatest(oldTerm, tenure) ELSE tenure

(***************************************************************************)
(* disburseAdvance on an open obligation: old debt that no published row   *)
(* claims and the new loan are planned together from the first month still *)
(* open, over the ConsolidatedTerm.                                        *)
(***************************************************************************)
DisburseTopUp(o, total, tenure, isTopup) ==
    LET from   == FirstOpenPeriod(month, official)
        term   == ConsolidatedTerm(isTopup, RemainingTerm(o, from), tenure)
        future == Available(o, from, obligations[o].contractual, obligations[o].penalty)
    IN /\ Open(o)
       /\ isTopup \/ ListsNoAdvance(o, baselined)
       /\ AddLoan(total)
       /\ CanPublish(plans, o, future.contractual + total, future.penalty, term)
       /\ plans' = PublishPlan(plans, o, future.contractual + total, future.penalty, term, from)
       /\ obligations' = [obligations EXCEPT
              ![o].contractual = @ + total, ![o].currentPlan = Len(plans) + 1]
       /\ statement' = [statement EXCEPT ![o].contractual = @ + total]
       /\ UNCHANGED <<month, official, baselined, closing, backfills, doubled>>

\* disburseAdvance for a borrower with no disbursed loan: a new obligation.
DisburseFirst(total, tenure) ==
    LET o    == Len(obligations) + 1
        from == FirstOpenPeriod(month, official)
    IN /\ NoneOpen
       /\ Disbursed(loans) = {}
       /\ AddLoan(total)
       /\ CanPublish(plans, o, total, 0, tenure)
       /\ plans' = PublishPlan(plans, o, total, 0, tenure, from)
       /\ obligations' = Append(obligations, NewObligation(total, 0, Len(plans) + 1))
       /\ statement' = Append(statement, Replayed(total, 0))
       /\ UNCHANGED <<month, official, baselined, closing, backfills, doubled>>

(***************************************************************************)
(* disburseAdvance for a borrower whose disbursed loans have no open       *)
(* obligation: it looks for one, makes the baseline and the new plan in    *)
(* one transaction.  The baseline plan starts this month, so rows of       *)
(* months already official survive the second plan.                        *)
(***************************************************************************)
DisburseOnLegacy(total, tenure, legacyTerm, isTopup) ==
    LET o        == Len(obligations) + 1
        from     == FirstOpenPeriod(month, official)
        baseline == PublishPlan(plans, o, LoansOwe, LoansOwePenalty, legacyTerm, month)
        term     == ConsolidatedTerm(isTopup, EffectiveTerm(LoansOwe, legacyTerm), tenure)
    IN /\ NoneOpen
       /\ isTopup \/ ListsNoAdvance(o, TRUE)
       /\ BaselinePossible(o, legacyTerm)
       /\ AddLoan(total)
       /\ CanPublish(baseline, o, LoansOwe + total, LoansOwePenalty, term)
       /\ plans' = PublishPlan(baseline, o, LoansOwe + total, LoansOwePenalty, term, from)
       /\ obligations' = Append(obligations,
              NewObligation(LoansOwe + total, LoansOwePenalty, Len(plans) + 2))
       /\ statement' = Append(statement, Replayed(LoansOwe + total, LoansOwePenalty))
       /\ baselined' = TRUE
       /\ UNCHANGED <<month, official, closing, backfills, doubled>>

-----------------------------------------------------------------------------
(* Payments                                                                *)

\* Mutant: contractual debt before penalty.
PayContractFirst(o, amount, applied) ==
    LET ob          == obligations[o]
        contractual == ob.contractual - Least(applied, ob.contractual)
        penalty     == ob.penalty - (applied - Least(applied, ob.contractual))
    IN  [ob EXCEPT !.contractual = contractual, !.penalty = penalty,
                   !.credit = @ + amount - applied,
                   !.status = StatusAfter(@, contractual, penalty)]

\* The obligation's balances after `applied' of a receipt `amount', penalty first.
PayObligation(o, amount, applied) ==
    LET ob          == obligations[o]
        penaltyPaid == Least(applied, ob.penalty)
        contractual == Floor0(ob.contractual - (applied - penaltyPaid))
        penalty     == Floor0(ob.penalty - penaltyPaid)
    IN  [ob EXCEPT !.contractual = contractual, !.penalty = penalty,
                   !.credit = @ + amount - applied,
                   !.status = StatusAfter(@, contractual, penalty)]

\* Mutant: the loans' contractual debt is reduced by the penalty part as well.
PayLoansInFull(o, applied) ==
    SettleFullyPaid(PayLoans(loans, Least(applied, obligations[o].penalty), applied))

\* Both payment paths: penalty, then contractual debt, oldest loan first.
PayBorrowerLoans(o, applied) ==
    LET penaltyPaid == Least(applied, obligations[o].penalty)
    IN  SettleFullyPaid(PayLoans(loans, penaltyPaid, applied - penaltyPaid))

\* The loans' part of a payment, as the statement replays it from the allocations.
ContractualTaken(o, applied) == Allocated(loans, applied - Least(applied, obligations[o].penalty))

\* Mutant: PENALTY allocations are replayed against both balances.
ReplayPenaltyTwice(o, applied) ==
    [statement EXCEPT
        ![o].contractual = Floor0(@ - applied),
        ![o].penalty     = Floor0(@ - Least(applied, obligations[o].penalty))]

\* PAYMENT_RECEIVED and LIQUIDATION_APPLIED in getLoanStatement.
ReplayPayment(o, applied) ==
    [statement EXCEPT
        ![o].contractual = Floor0(@ - ContractualTaken(o, applied)),
        ![o].penalty     = Floor0(@ - Least(applied, obligations[o].penalty))]

\* The obligation applyPayrollPayment picks: the last opened that is open or has a
\* published row to collect in the period.
PayrollCandidates(m) ==
    {o \in DOMAIN obligations :
        Open(o) \/ \E k \in Payable(o, m) : plans[k].rows[m].status # "PLANNED"}

\* The penalty paid, and what the loans took of the rest, name the row.
ApplyPayrollPayment(m, amount) ==
    /\ PayrollCandidates(m) # {}
    /\ LET o == Max(PayrollCandidates(m)) IN
       \E k \in Payable(o, m) :
          LET row      == plans[k].rows[m]
              received == Least(amount, RemainingDue(row))
              applied  == Least(received, obligations[o].contractual + obligations[o].penalty)
              penaltyPaid == Least(applied, obligations[o].penalty)
              paid     == row.paid + received
          IN /\ obligations[o].credit + amount - applied <= MaxCredit
             /\ loans' = PayBorrowerLoans(o, applied)
             /\ obligations' = [obligations EXCEPT ![o] = PayObligation(o, amount, applied)]
             /\ statement' = ReplayPayment(o, applied)
             /\ plans' = [plans EXCEPT ![k].rows[m] =
                   [row EXCEPT !.paid = paid,
                               !.toPenalty = row.toPenalty + penaltyPaid,
                               !.toContract = row.toContract + ContractualTaken(o, applied),
                               !.status = IF paid >= TotalExpected(row)
                                          THEN "PAID" ELSE "PARTIAL"]]
    /\ UNCHANGED <<month, official, baselined, closing, backfills, doubled>>

(***************************************************************************)
(* applyUnscheduledPayment (liquidation, overflow, manual resolution).  A  *)
(* liquidation pays the obligation that was open when it was requested,    *)
(* whatever has become of it; the others pay the last opened.              *)
(***************************************************************************)
ApplyUnscheduledPayment(o, amount) ==
    LET from    == FirstOpenPeriod(month, official)
        applied == Least(amount, obligations[o].contractual + obligations[o].penalty)
        paid    == PayObligation(o, amount, applied)
        future  == Available(o, from, paid.contractual, paid.penalty)
        term    == RemainingTerm(o, from)
    IN /\ paid.credit <= MaxCredit
       /\ loans' = PayBorrowerLoans(o, applied)
       /\ statement' = ReplayPayment(o, applied)
       /\ IF future.contractual > 0 \/ future.penalty > 0
          THEN /\ CanPublish(plans, o, future.contractual, future.penalty, term)
               /\ plans' = PublishPlan(plans, o, future.contractual, future.penalty, term, from)
               /\ obligations' = [obligations EXCEPT
                      ![o] = [paid EXCEPT !.currentPlan = Len(plans) + 1]]
          ELSE /\ plans' = WithdrawPlan(plans, o, paid.currentPlan, from)
               /\ obligations' = [obligations EXCEPT
                      ![o] = [paid EXCEPT !.currentPlan = NoPlan]]
       /\ UNCHANGED <<month, official, baselined, closing, backfills, doubled>>

-----------------------------------------------------------------------------
(* Administration                                                          *)

(***************************************************************************)
(* adjustPenalty: refused when a published row already claims penalty.     *)
(* The version the admin saw is current, or the call is refused.           *)
(***************************************************************************)
AdjustPenalty(o, amount) ==
    LET from    == FirstOpenPeriod(month, official)
        ob      == obligations[o]
        penalty == ob.penalty - amount
        future  == Available(o, from, ob.contractual, penalty)
        term    == Greatest(1, Cardinality(
                       CurrentRows(o, from, {"PLANNED", "PUBLISHED", "PARTIAL"})))
        waived  == [ob EXCEPT !.penalty = penalty,
                              !.status = StatusAfter(@, ob.contractual, penalty)]
    IN /\ amount <= ob.penalty
       /\ FrozenPenalty(o, from) = 0
       /\ loans' = WaiveOnLoans(loans, amount)
       /\ statement' = [statement EXCEPT ![o].penalty = Floor0(@ - amount)]
       /\ IF future.contractual > 0 \/ future.penalty > 0
          THEN /\ CanPublish(plans, o, future.contractual, future.penalty, term)
               /\ plans' = PublishPlan(plans, o, future.contractual, future.penalty, term, from)
               /\ obligations' = [obligations EXCEPT
                      ![o] = [waived EXCEPT !.currentPlan = Len(plans) + 1]]
          ELSE /\ plans' = WithdrawPlan(plans, o, ob.currentPlan, from)
               /\ obligations' = [obligations EXCEPT
                      ![o] = [waived EXCEPT !.currentPlan = NoPlan]]
       /\ UNCHANGED <<month, official, baselined, closing, backfills, doubled>>

(***************************************************************************)
(* A tenure change requested and approved with nothing in between, the     *)
(* only case approveTenureChange accepts: it compares the obligation's     *)
(* version, the first open month and the schedulable balance with those    *)
(* of the request.                                                         *)
(***************************************************************************)
ChangeTenure(o, term) ==
    LET from   == FirstOpenPeriod(month, official)
        future == Available(o, from, obligations[o].contractual, obligations[o].penalty)
    IN /\ Open(o)
       /\ obligations[o].currentPlan # NoPlan
       /\ CanPublish(plans, o, future.contractual, future.penalty, term)
       /\ plans' = PublishPlan(plans, o, future.contractual, future.penalty, term, from)
       /\ obligations' = [obligations EXCEPT ![o].currentPlan = Len(plans) + 1]
       /\ UNCHANGED <<month, official, loans, statement, baselined, closing, backfills, doubled>>

\* The rows prepareVariationSchedule puts in the schedule of a month.
Eligible(m) ==
    {k \in DOMAIN plans :
        /\ m \in DOMAIN plans[k].rows
        /\ plans[k].rows[m].status \in {"PLANNED", "PUBLISHED", "PARTIAL"}
        /\ Open(plans[k].obligation)}

(***************************************************************************)
(* prepareVariationSchedule in SUBMIT mode.  A borrower without a staff id *)
(* or payroll record is left out.  With no row of this borrower the month  *)
(* may still become official because of another's; two rows of one         *)
(* borrower break unique(scheduleId, borrowerId) and roll it back.         *)
(***************************************************************************)
SubmitVariation(m, onPayroll) ==
    LET listed == IF onPayroll THEN Eligible(m) ELSE {} IN
    /\ Cardinality(listed) <= 1
    /\ official' = official \cup {m}
    /\ plans' = [k \in DOMAIN plans |->
                    IF k \in listed
                    THEN [plans[k] EXCEPT !.rows[m].status = "PUBLISHED"]
                    ELSE plans[k]]
    /\ UNCHANGED <<month, loans, obligations, statement, baselined, closing, backfills, doubled>>

-----------------------------------------------------------------------------
(* closeRepaymentPeriod                                                    *)

\* The installments are listed before any transaction begins.
StartClosing(m) ==
    /\ closing = NotClosing
    /\ closing' = [period |-> m, todo |-> UNION {Payable(o, m) : o \in DOMAIN obligations}]
    /\ UNCHANGED <<month, official, loans, obligations, statement, baselined, plans, backfills,
                   doubled>>

CloseWith(k, row) == [plans EXCEPT ![k].rows[closing.period] = row]

\* A listed installment that has been paid in full, or owes nothing.
CloseSettled(k) ==
    LET row == plans[k].rows[closing.period] IN
    /\ k \in closing.todo
    /\ RemainingDue(row) = 0
    /\ plans' = CloseWith(k, [row EXCEPT !.status = "PAID", !.closed = TRUE])
    /\ closing' = [closing EXCEPT !.todo = @ \ {k}]
    /\ UNCHANGED <<month, official, loans, obligations, statement, baselined, backfills, doubled>>

Penalty(shortfall) == RoundHalfUp(shortfall * RateNum, RateDen)

\* Installments after month m that the published plan still counts on.
RowsAhead(ps, o, m) ==
    UNION {{<<k, n>> : n \in {i \in DOMAIN ps[k].rows :
                                 i > m /\ ps[k].rows[i].status \in {"PLANNED", "PUBLISHED"}}}
           : k \in {j \in DOMAIN ps : ps[j].obligation = o /\ ps[j].status = "PUBLISHED"}}

(***************************************************************************)
(* A listed installment with a shortfall: the penalty is assessed on the   *)
(* obligation and on its oldest disbursed loan, and the WHOLE contractual  *)
(* balance is planned again from the first open month from this one on,    *)
(* one month longer than what was left.                                    *)
(***************************************************************************)
DefaultedRow(row) ==
    [row EXCEPT !.status = IF row.paid > 0 THEN "PARTIAL" ELSE "MISSED", !.closed = TRUE]

DefaultTerm(ps, o) == 1 + Cardinality(RowsAhead(ps, o, closing.period))

CanDefault(k) ==
    LET m  == closing.period
        o  == plans[k].obligation
        ps == CloseWith(k, DefaultedRow(plans[k].rows[m]))
        penalty == obligations[o].penalty + Penalty(RemainingDue(plans[k].rows[m]))
    IN  obligations[o].contractual + penalty > 0 =>
            /\ PlanInputValid(obligations[o].contractual, penalty, DefaultTerm(ps, o))
            /\ PlanVersionFree(ps, o)

CloseDefaulted(k) ==
    LET m       == closing.period
        row     == plans[k].rows[m]
        o       == plans[k].obligation
        charge  == Penalty(RemainingDue(row))
        ob      == obligations[o]
        penalty == ob.penalty + charge
        ps      == CloseWith(k, DefaultedRow(row))
        from    == FirstOpenPeriod(m, official)
        replan  == ob.contractual > 0 \/ penalty > 0
    IN /\ k \in closing.todo
       /\ RemainingDue(row) > 0
       /\ CanDefault(k)
       /\ Len(plans) < MaxPlans
       /\ loans' = ChargeOldest(loans, charge)
       /\ statement' = [statement EXCEPT ![o].penalty = @ + charge]
       /\ plans' = IF replan
                   THEN PublishPlan(ps, o, ob.contractual, penalty, DefaultTerm(ps, o), from)
                   ELSE ps
       /\ obligations' = [obligations EXCEPT
              ![o].penalty = penalty,
              ![o].currentPlan = IF replan THEN Len(plans) + 1 ELSE @]
       /\ closing' = [closing EXCEPT !.todo = @ \ {k}]
       /\ UNCHANGED <<month, official, baselined, backfills, doubled>>

\* A transaction that cannot commit fails the job: what is left stays open.
ClosingFails(k) ==
    /\ k \in closing.todo
    /\ RemainingDue(plans[k].rows[closing.period]) > 0
    /\ ~CanDefault(k)
    /\ closing' = NotClosing
    /\ UNCHANGED <<month, official, loans, obligations, statement, baselined, plans, backfills,
                   doubled>>

FinishClosing ==
    /\ closing # NotClosing
    /\ closing.todo = {}
    /\ closing' = NotClosing
    /\ UNCHANGED <<month, official, loans, obligations, statement, baselined, plans, backfills,
                   doubled>>

-----------------------------------------------------------------------------
Init ==
    /\ month = 1
    /\ official = {}
    /\ loans \in LegacyPortfolios
    /\ obligations = <<>>
    /\ statement = <<>>
    /\ baselined = FALSE
    /\ plans = <<>>
    /\ closing = NotClosing
    /\ backfills = [w \in Workers |-> "idle"]
    /\ doubled = FALSE

NextMonth ==
    /\ month < Horizon
    /\ month' = month + 1
    /\ UNCHANGED <<official, loans, obligations, statement, baselined, plans, closing, backfills,
                   doubled>>

Next ==
    \/ NextMonth
    \/ \E w \in Workers :
          \/ ListBorrower(w) \/ FindNoneOpen(w) \/ BackfillEnds(w)
          \/ \E term \in Tenures, from \in Periods : CreateBaseline(w, term, from)
    \/ \E total \in LoanTotals, tenure \in Tenures :
          \/ DisburseFirst(total, tenure)
          \/ \E isTopup \in BOOLEAN :
                \/ \E o \in DOMAIN obligations : DisburseTopUp(o, total, tenure, isTopup)
                \/ \E legacyTerm \in Tenures :
                      DisburseOnLegacy(total, tenure, legacyTerm, isTopup)
    \/ \E m \in Periods, amount \in Receipts : ApplyPayrollPayment(m, amount)
    \/ \E o \in DOMAIN obligations :
          \/ \E amount \in Receipts : ApplyUnscheduledPayment(o, amount)
          \/ \E amount \in Waivers : AdjustPenalty(o, amount)
          \/ \E term \in Tenures : ChangeTenure(o, term)
    \/ \E m \in Periods, onPayroll \in BOOLEAN : SubmitVariation(m, onPayroll)
    \/ \E m \in Periods : StartClosing(m)
    \/ \E k \in closing.todo : CloseSettled(k) \/ CloseDefaulted(k) \/ ClosingFails(k)
    \/ FinishClosing

Spec == Init /\ [][Next]_vars
-----------------------------------------------------------------------------
(* Properties                                                              *)

\* Every row and balance keeps its shape; installments, plans, obligations, statements
\* and the work list of a close name rows that exist.
TypeOK ==
    /\ month \in Periods
    /\ official \subseteq Periods
    /\ loans \in Seq(LoanRow)
    /\ obligations \in Seq(Obligation)
    /\ statement \in Seq(Balance) /\ DOMAIN statement = DOMAIN obligations
    /\ baselined \in BOOLEAN /\ doubled \in BOOLEAN
    /\ backfills \in [Workers -> {"idle", "listed", "clear"}]
    /\ \A k \in DOMAIN plans :
          /\ plans[k].obligation \in DOMAIN obligations
          /\ plans[k].status \in {"PUBLISHED", "SUPERSEDED"}
          /\ \A m \in DOMAIN plans[k].rows : plans[k].rows[m] \in Installment
    /\ \A o \in DOMAIN obligations : obligations[o].currentPlan \in DOMAIN plans \cup {NoPlan}
    /\ closing.period \in Periods \cup {0}
    /\ closing.todo \subseteq {k \in DOMAIN plans : closing.period \in DOMAIN plans[k].rows}

(***************************************************************************)
(* The two books of the contractual debt: what the disbursed loans owe is  *)
(* never more than the obligations ask for, and a settled obligation asks  *)
(* for nothing.  Until a backfill opens an obligation beside an open one,  *)
(* the open one's contractualOutstanding is exactly what the loans owe.    *)
(* Payments, top-ups, baselines and settlement each write both books.      *)
(***************************************************************************)
ContractualLedgerAgrees ==
    /\ \A o \in DOMAIN obligations : Open(o) \/ obligations[o].contractual = 0
    /\ obligations # <<>> =>
          LoansOwe <= Total([o \in DOMAIN obligations |-> obligations[o].contractual])
    /\ ~doubled => \A o \in OpenObligations : obligations[o].contractual = LoansOwe

(***************************************************************************)
(* What may come of the backfill's early look: at most one obligation      *)
(* beside the open one, ever, as the unique key is used up; and no other   *)
(* operation, in any order, opens a second one.                            *)
(***************************************************************************)
SecondOpenIsABackfill == Cardinality(OpenObligations) <= IF doubled THEN 2 ELSE 1

(***************************************************************************)
(* The statement replays the penalties and the per-loan allocations of the *)
(* events, the account subtracts what was applied: the loan statement an   *)
(* admin reads shows the penalty of the account, never less contractual    *)
(* debt, and the same until a second obligation claims the same loans.     *)
(***************************************************************************)
StatementCoversAccount ==
    \A o \in DOMAIN obligations :
        /\ statement[o].penalty = obligations[o].penalty
        /\ statement[o].contractual >= obligations[o].contractual
        /\ ~doubled => statement[o].contractual = obligations[o].contractual

(***************************************************************************)
(* currentPlanId and the PUBLISHED plan name each other: no operation      *)
(* leaves two published plans, or a current plan that was superseded.      *)
(***************************************************************************)
CurrentPlanIsThePublishedOne ==
    \A o \in DOMAIN obligations :
        {k \in PlansOf(o) : plans[k].status = "PUBLISHED"}
            = IF obligations[o].currentPlan = NoPlan THEN {}
              ELSE {obligations[o].currentPlan}

(***************************************************************************)
(* A REPAID loan owes nothing, then and later: the default penalty of a    *)
(* period closed afterwards is not charged to it.                          *)
(***************************************************************************)
RepaidLoansOweNothing ==
    \A i \in DOMAIN loans :
        loans[i].status = "REPAID" => loans[i].owed = 0 /\ loans[i].penalty = 0

(***************************************************************************)
(* Paying off the contractual debt settles the obligation: penalty is paid *)
(* first on both payment paths, so no payment leaves the obligation open   *)
(* for penalty alone, and no other operation takes contractual debt away.  *)
(***************************************************************************)
ContractualPayoffSettles ==
    [][\A o \in OpenObligations :
          obligations[o].contractual > 0 /\ obligations'[o].contractual = 0 =>
              obligations'[o].status = "SETTLED" /\ obligations'[o].penalty = 0]_vars

(***************************************************************************)
(* A row on an official schedule is an instruction payroll has received:   *)
(* until it is closed no re-planning withdraws it or forgets what was      *)
(* collected on it.                                                        *)
(***************************************************************************)
PublishedRowsStand ==
    [][\A k \in DOMAIN plans : \A m \in DOMAIN plans[k].rows :
          LET row == plans[k].rows[m] IN
          (~row.closed /\ row.status \in {"PUBLISHED", "PARTIAL"}) =>
              /\ plans'[k].rows[m].status \in {"PUBLISHED", "PARTIAL", "PAID", "MISSED"}
              /\ plans'[k].rows[m].paid >= row.paid]_vars

-----------------------------------------------------------------------------
(* What the code does not keep: checked by a run that exhibits it.         *)

(***************************************************************************)
(* Backfills that start together converge on one obligation: a borrower    *)
(* has at most one open.  The unique key turns away a second baseline, but *)
(* not a baseline beside the obligation that a disbursement opened after   *)
(* the backfill had looked; both then ask for the same loans' debt.        *)
(***************************************************************************)
OneOpenObligation == Cardinality(OpenObligations) <= 1
=============================================================================
