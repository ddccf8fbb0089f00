-------------------------- MODULE LoanApplications --------------------------
(***************************************************************************)
(* One customer's applications for cash and for commodities, from the      *)
(* request to the payout, beside the customer's account.  Each call reads  *)
(* and checks, and writes in a later step whatever has become of the row:  *)
(* only the payout checks again, in its transaction, and the ids of the    *)
(* obligation's event and advance are unique.  Other calls run in between. *)
(*                                                                         *)
(* The disbursement's plan and the payments are RepaymentObligation and    *)
(* LoanLedger; here a paid loan may be repaid, and that is all.  Rates are *)
(* set, the commodity is in the list, paging is left out, and the customer *)
(* keeps its id while applications are made.  PERSONAL is any category of  *)
(* cash, so that a change from one to another does not show: the code      *)
(* would take ASSET_PURCHASE too, from a request or an update of the       *)
(* customer's, which no list of staff shows.                               *)
(***************************************************************************)
EXTENDS CustomerAccount, FiniteSetsExt

CONSTANTS
    Loans,      \* loan ids
    Assets,     \* ids of commodity requests
    Desks,      \* calls in progress on applications
    NoLoan

ASSUME ApplicationConstants ==
    /\ IsFiniteSet(Loans) /\ IsFiniteSet(Assets) /\ IsFiniteSet(Desks)
    /\ Loans \cap Assets = {} /\ NoLoan \notin Loans \cup Assets

VARIABLES
    loans,      \* Loan
    assets,     \* CommodityLoan
    advances,   \* ObligationAdvance.loanId, and the keys of their events
    obligation, \* RepaymentObligation: whether one is open, contractualOutstanding
    desks,
    borrowed,   \* Config TOTAL_BORROWED, which stands for the four counters of a payout
    payouts,    \* history: what has been paid out on each loan
    lost,       \* history: what a failed top-up of the counter left out
    crossed     \* history: two requests, or two decisions on a commodity, were in progress at once

loanVars == <<loans, assets, advances, obligation, desks, borrowed, payouts, lost, crossed>>

Requested == 1   \* the amount asked for; an update makes it one more

Interest == 1

Loan ==
    [status : {"NONE", "PENDING", "APPROVED", "REJECTED", "DISBURSED", "REPAID", "DELETED"},
     amount : {0, Requested, Requested + 1}, type : {"New", "Topup"},
     category : {"PERSONAL", "ASSET_PURCHASE"},
     repayable : 0..(Requested + 1 + Interest),   \* set with disbursementDate
     repaid : BOOLEAN]                            \* repaid is all of repayable

NewLoan(status, type, category) ==
    [status |-> status, amount |-> Requested, type |-> type, category |-> category,
     repayable |-> 0, repaid |-> FALSE]

Unused == [NewLoan("NONE", "New", "PERSONAL") EXCEPT !.amount = 0]

Asset == [there : BOOLEAN, inReview : BOOLEAN, rejected : BOOLEAN, type : {"New", "Topup"},
          loan : Loans \cup {NoLoan},
          made : Nat]    \* history: loans made from the request

NoAsset == [there |-> FALSE, inReview |-> FALSE, rejected |-> FALSE, type |-> "New",
            loan |-> NoLoan, made |-> 0]

Desk ==
    [at : {"idle", "ask", "create", "update", "delete", "approving", "approve", "reject",
           "pay", "count", "grant", "refuse"},
     what : {"cash", "asset"}, own : BOOLEAN, type : {"New", "Topup"},
     loan : Loans \cup {NoLoan}, asset : Assets \cup {NoLoan},
     blind : BOOLEAN,   \* history: a payout was checked with details nobody had looked at
     paid : BOOLEAN]    \* history: the loan was paid out already when the call looked at it

Free == [at |-> "idle", what |-> "cash", own |-> TRUE, type |-> "New", loan |-> NoLoan,
         asset |-> NoLoan, blind |-> FALSE, paid |-> FALSE]

\* One loan that has come to some status already, or none.
LoanInit(status) ==
    /\ \E first \in Loans :
          loans = [l \in Loans |-> IF status = "NONE" \/ l # first THEN Unused
                                   ELSE NewLoan(status, "New", "PERSONAL")]
    /\ assets = [a \in Assets |-> NoAsset]
    /\ advances = {}
    /\ obligation = [open |-> FALSE, balance |-> 0]
    /\ desks = [d \in Desks |-> Free]
    /\ borrowed = 0
    /\ payouts = [l \in Loans |-> [times |-> 0, amount |-> 0, blind |-> FALSE]]
    /\ lost = 0
    /\ crossed = FALSE

With(statuses) == {l \in Loans : loans[l].status \in statuses}

InReview == {a \in Assets : assets[a].inReview}

Exists(l) == loans[l].status \notin {"NONE", "DELETED"}

Leaves(d) == desks' = [desks EXCEPT ![d] = Free]

ledgerOf == <<advances, obligation, borrowed, payouts, lost>>

-----------------------------------------------------------------------------
(* Requests                                                                *)

Asks(d, what, own, type) ==
    /\ desks[d] = Free
    /\ desks' = [desks EXCEPT ![d] = [Free EXCEPT !.at = "ask", !.what = what, !.own = own,
                                                  !.type = type]]

\* The customer's own request.
CustomerRequests(d, what) ==
    /\ SignedIn /\ Asks(d, what, TRUE, "New")
    /\ UNCHANGED <<accountVars, loans, assets, ledgerOf, crossed>>

\* CustomerService.loanTopup: staff ask for a customer who is not flagged; a commodity
\* needs an obligation to join.
LoanTopup(d, what) ==
    /\ account.exists /\ account.status # "FLAGGED" /\ (what = "asset" => obligation.open)
    /\ Asks(d, what, FALSE, IF what = "asset" THEN "Topup" ELSE "New")
    /\ UNCHANGED <<accountVars, loans, assets, ledgerOf, crossed>>

\* onboardCustomer: the loan that was asked for with the account.
OnboardingRequests(c, d, what) ==
    /\ calls[c].at = "loan" /\ Ends(c)
    /\ Asks(d, what, FALSE, "New")
    /\ UNCHANGED <<account, code, review, faults, loans, assets, ledgerOf, crossed>>

\* Mutant: only a request for a commodity looks for one that is there.
OnlyCommodities(what) == what = "asset" /\ InReview # {}

\* A cash request looks for a pending loan, a commodity request for either.
HasPending(what) == With({"PENDING"}) # {} \/ (what = "asset" /\ InReview # {})

\* requestCashLoan and requestAssetLoan: what they read, in parallel, lets them go on.
CheckRequest(d) ==
    /\ desks[d].at = "ask"
    /\ IF \/ desks[d].own /\ account.status = "FLAGGED"
          \/ HasPending(desks[d].what)
       THEN Leaves(d) /\ UNCHANGED crossed
       ELSE /\ desks' = [desks EXCEPT ![d].at = "create",
                  ![d].type = IF desks[d].what = "cash" /\ With({"DISBURSED"}) # {}
                              THEN "Topup" ELSE @]
            /\ crossed' = (crossed \/ \E e \in Desks \ {d} : desks[e].at = "create")
    /\ UNCHANGED <<accountVars, loans, assets, ledgerOf>>

\* The row.  What staff ask for in cash they approve in the same call (loanTopup, cashLoan).
CreateCashLoan(d) ==
    /\ desks[d].at = "create" /\ desks[d].what = "cash"
    /\ \E l \in Loans :
          /\ loans[l] = Unused
          /\ loans' = [loans EXCEPT ![l] = NewLoan("PENDING", desks[d].type, "PERSONAL")]
          /\ IF desks[d].own THEN Leaves(d)
             ELSE desks' = [desks EXCEPT ![d].at = "approving", ![d].loan = l]
    /\ UNCHANGED <<accountVars, assets, ledgerOf, crossed>>

CreateAssetRequest(d) ==
    /\ desks[d].at = "create" /\ desks[d].what = "asset" /\ Leaves(d)
    /\ \E a \in Assets :
          /\ ~assets[a].there
          /\ assets' = [assets EXCEPT ![a].there = TRUE, ![a].inReview = TRUE,
                                      ![a].type = desks[d].type]
    /\ UNCHANGED <<accountVars, loans, ledgerOf, crossed>>

-----------------------------------------------------------------------------
(* The customer's changes                                                  *)

Takes(d, at, l) ==
    desks' = [desks EXCEPT ![d] = [Free EXCEPT !.at = at, !.loan = l,
                                               !.paid = l \in With({"DISBURSED", "REPAID"})]]

\* updateLoan and deleteLoan: a pending loan, and an event for the change.
CheckChange(d, l, change) ==
    /\ desks[d] = Free /\ SignedIn
    /\ loans[l].status = "PENDING"
    /\ Takes(d, change, l)
    /\ UNCHANGED <<accountVars, loans, assets, ledgerOf, crossed>>

\* Mutant: an update is added to what was asked for.
AddedUp(l) == loans[l].amount + 1

UpdatedAmount(l) == Requested + 1

\* userLoanUpdate: the row, whatever its status is by now.  An update of the category alone
\* leaves the amount, and one of a row that is gone is logged.
ApplyUpdate(d) ==
    LET l == desks[d].loan IN
    /\ desks[d].at = "update" /\ Leaves(d)
    /\ \/ Exists(l) /\ loans' = [loans EXCEPT ![l].amount = UpdatedAmount(l)]
       \/ UNCHANGED loans
    /\ UNCHANGED <<accountVars, assets, ledgerOf, crossed>>

\* Mutant: an advance does not hold its loan.
AnyRow(l) == Exists(l)

\* A loan with an advance cannot be deleted.
Deletable(l) == Exists(l) /\ l \notin advances

\* userLoanDelete.  A loan made for a commodity was never pending.
ApplyDelete(d) ==
    LET l == desks[d].loan IN
    /\ desks[d].at = "delete" /\ Leaves(d)
    /\ loans' = IF Deletable(l) THEN [loans EXCEPT ![l].status = "DELETED"] ELSE loans
    /\ UNCHANGED <<accountVars, assets, ledgerOf, crossed>>

-----------------------------------------------------------------------------
(* Decisions                                                               *)

\* approveLoan: the check,
CheckApproval(d, l) ==
    /\ desks[d] = Free
    /\ loans[l].status = "PENDING"
    /\ Takes(d, "approve", l)
    /\ UNCHANGED <<accountVars, loans, assets, ledgerOf, crossed>>

\* the same one inside a request of staff,
CheckOwnApproval(d) ==
    /\ desks[d].at = "approving"
    /\ IF loans[desks[d].loan].status = "PENDING"
       THEN desks' = [desks EXCEPT ![d].at = "approve"] ELSE Leaves(d)
    /\ UNCHANGED <<accountVars, loans, assets, ledgerOf, crossed>>

\* and the write, which does not look at the status again.
Approve(d) ==
    /\ desks[d].at = "approve" /\ Leaves(d)
    /\ loans' = IF Exists(desks[d].loan)
                THEN [loans EXCEPT ![desks[d].loan].status = "APPROVED"] ELSE loans
    /\ UNCHANGED <<accountVars, assets, ledgerOf, crossed>>

\* Mutant: a loan that is paid out can be rejected.
AnyLoan(l) == Exists(l)

Rejectable(l) == Exists(l) /\ loans[l].status \notin {"DISBURSED", "REPAID"}

\* rejectLoan: the check,
CheckRejection(d, l) ==
    /\ desks[d] = Free
    /\ Rejectable(l)
    /\ Takes(d, "reject", l)
    /\ UNCHANGED <<accountVars, loans, assets, ledgerOf, crossed>>

\* and the write.
Reject(d) ==
    /\ desks[d].at = "reject" /\ Leaves(d)
    /\ loans' = IF Exists(desks[d].loan)
                THEN [loans EXCEPT ![desks[d].loan].status = "REJECTED"] ELSE loans
    /\ UNCHANGED <<accountVars, assets, ledgerOf, crossed>>

\* loanChecks of a commodity request, before either decision.
CheckAsset(d, a, decision) ==
    /\ desks[d] = Free
    /\ assets[a].inReview
    /\ desks' = [desks EXCEPT ![d] = [Free EXCEPT !.at = decision, !.asset = a]]
    /\ crossed' = (crossed \/ \E e \in Desks \ {d} : desks[e].asset = a)
    /\ UNCHANGED <<accountVars, loans, assets, ledgerOf>>

\* approveCommodityLoan: in one transaction the request is closed and a loan, approved
\* already, is made and linked; an earlier link is given up.
ApproveCommodityLoan(d) ==
    LET a == desks[d].asset IN
    /\ desks[d].at = "grant" /\ Leaves(d)
    /\ \E l \in Loans :
          /\ loans[l] = Unused
          /\ loans' = [loans EXCEPT ![l] = NewLoan("APPROVED", assets[a].type, "ASSET_PURCHASE")]
          /\ assets' = [assets EXCEPT ![a].inReview = FALSE, ![a].loan = l, ![a].made = @ + 1]
    /\ UNCHANGED <<accountVars, ledgerOf, crossed>>

RejectCommodityLoan(d) ==
    /\ desks[d].at = "refuse" /\ Leaves(d)
    /\ assets' = [assets EXCEPT ![desks[d].asset].inReview = FALSE,
                                ![desks[d].asset].rejected = TRUE]
    /\ UNCHANGED <<accountVars, loans, ledgerOf, crossed>>

-----------------------------------------------------------------------------
(* Payouts                                                                 *)

\* Mutant: the borrower's status is not asked for.
PayAnyone == account.exists

\* A flagged borrower is paid nothing.
MayBePaid == account.status # "FLAGGED"

\* disburseLoan: the status of the loan and of its borrower.
CheckPayout(d, l) ==
    /\ desks[d] = Free
    /\ MayBePaid /\ loans[l].status = "APPROVED"
    /\ desks' = [desks EXCEPT ![d] = [Free EXCEPT !.at = "pay", !.loan = l,
                    !.blind = Unreviewed # {}]]
    /\ UNCHANGED <<accountVars, loans, assets, ledgerOf, crossed>>

\* Mutant: nothing keeps a loan from a second advance.
PayableAgain(l) == loans[l].status = "APPROVED"

\* The status is read again in the transaction, and a second advance of the loan fails.
Payable(l) == loans[l].status = "APPROVED" /\ l \notin advances

TotalPayment(l) == loans[l].amount + Interest

\* disburseAdvance, one serializable transaction: the loan joins the open obligation or opens
\* one.
PayOut(d) ==
    LET l == desks[d].loan IN
    /\ desks[d].at = "pay"
    /\ IF Payable(l)
       THEN /\ loans' = [loans EXCEPT ![l].status = "DISBURSED", ![l].repayable = TotalPayment(l)]
            /\ advances' = advances \cup {l}
            /\ obligation' = [open |-> TRUE, balance |-> obligation.balance + TotalPayment(l)]
            /\ payouts' = [payouts EXCEPT ![l] =
                  [times |-> @.times + 1, amount |-> loans[l].amount,
                   blind |-> @.blind \/ desks[d].blind]]
            /\ desks' = [desks EXCEPT ![d].at = "count"]
       ELSE Leaves(d) /\ UNCHANGED <<loans, advances, obligation, payouts>>
    /\ UNCHANGED <<accountVars, assets, borrowed, lost, crossed>>

\* The counters after it; one that fails is logged and not tried again.
CountPayout(d) ==
    LET paid == payouts[desks[d].loan].amount IN
    /\ desks[d].at = "count" /\ Leaves(d)
    /\ \/ /\ borrowed' = borrowed + paid
          /\ UNCHANGED <<lost, faults>>
       \/ /\ faults < MaxFaults /\ faults' = faults + 1
          /\ lost' = lost + paid
          /\ UNCHANGED borrowed
    /\ UNCHANGED <<account, code, review, calls, loans, assets, advances, obligation, payouts, crossed>>

\* A payment of all that is owed on a disbursed loan; others are not paid into.  The
\* obligation is settled with its balance.
Repay(l) ==
    LET left == obligation.balance - loans[l].repayable IN
    /\ loans[l].status = "DISBURSED"
    /\ loans' = [loans EXCEPT ![l].status = "REPAID", ![l].repaid = TRUE]
    /\ obligation' = [open |-> left > 0, balance |-> left]
    /\ UNCHANGED <<accountVars, assets, advances, borrowed, payouts, lost, desks, crossed>>

\* A call that dies between two steps; a payout's counters are lost with it.
DeskDies(d) ==
    /\ desks[d] # Free /\ faults < MaxFaults /\ faults' = faults + 1
    /\ Leaves(d)
    /\ lost' = IF desks[d].at = "count" THEN lost + payouts[desks[d].loan].amount ELSE lost
    /\ UNCHANGED <<account, code, review, calls, loans, assets, advances, obligation, borrowed, payouts, crossed>>

-----------------------------------------------------------------------------
(* What customers and staff are shown                                      *)

Borrowed(ls) == SumFunction([l \in ls |-> loans[l].amount])

Owed(ls) == SumFunction([l \in ls |-> IF loans[l].repaid THEN 0 ELSE loans[l].repayable])

\* Loans with a disbursement date.
Dated == {l \in Loans : loans[l].repayable > 0}

\* LoanService.getUserLoansOverview and getPendingLoansAndLoanCount.
UserLoansOverview ==
    [active |-> With({"DISBURSED"}), pending |-> Cardinality(With({"PENDING"})),
     counts |-> [s \in {"REJECTED", "APPROVED", "DISBURSED"} |-> Cardinality(With({s}))]]

\* LoanService.getAllUserLoans: loans and commodity requests in one list.
AllUserLoans ==
    {[id |-> l, status |-> loans[l].status] : l \in {m \in Loans : Exists(m)}}
      \cup {[id |-> a, status |-> IF assets[a].inReview THEN "PENDING" ELSE "APPROVED"] :
               a \in {b \in Assets : assets[b].there}}

\* LoanService.getUserActiveLoan: the open obligation when it has a plan, the disbursed loans
\* otherwise.  Plans are not here, and one may be withdrawn: what the customer may be told.
UserActiveLoan ==
    {Owed(With({"DISBURSED"}))} \cup (IF obligation.open THEN {obligation.balance} ELSE {})

\* CustomerService.getUserActiveAndPendingLoans: a commodity request counts while in review.
ActiveAndPendingLoans ==
    [active |-> With({"DISBURSED"}),
     pending |-> With({"PENDING"}) \cup InReview,
     approved |-> With({"APPROVED"})]

\* CustomerService.getUserLoanSummary.
UserLoanSummary ==
    LET had == With({"DISBURSED", "REPAID"}) IN
    [totalBorrowed |-> Borrowed(had), outstanding |-> Owed(had),
     currentOverdue |-> Owed(With({"DISBURSED"})),
     activeLoansCount |-> Cardinality(With({"DISBURSED"}))]

\* CustomerService.getTopupHistory: top-up loans, under the request they were made from,
\* and top-up requests without a loan.
TopupHistory ==
    LET NameOf(l) == IF \E a \in Assets : assets[a].loan = l
                     THEN CHOOSE a \in Assets : assets[a].loan = l ELSE l
    IN  {[id |-> NameOf(l), loan |-> l] : l \in {m \in Loans : Exists(m) /\ loans[m].type = "Topup"}}
        \cup {[id |-> a, loan |-> NoLoan] :
                 a \in {b \in Assets : assets[b].there /\ assets[b].type = "Topup"
                                         /\ assets[b].loan = NoLoan}}

\* CustomersService.getAccountOfficerStats, for this customer's officer.
Portfolio ==
    LET active == With({"DISBURSED"}) IN
    [totalLoans |-> Cardinality(active), totalDisbursed |-> Borrowed(active),
     outstandingBalance |-> Owed(active)]

\* buildCashLoanWhere, without the filters that staff may add.
CashLoanWhere(l) == loans[l].category # "ASSET_PURCHASE"

\* CashLoanService.getAllLoans.
CashLoans == {l \in Loans : Exists(l) /\ CashLoanWhere(l)}

\* LoanService.getLoanById: the loan with the commodity it was made for.
LoanById(l) ==
    [status |-> loans[l].status, amount |-> loans[l].amount,
     asset |-> {a \in Assets : assets[a].loan = l}]

\* CommodityLoanService.getAllLoans.
CommodityLoans ==
    {[id |-> a, status |-> IF assets[a].loan = NoLoan THEN "PENDING"
                           ELSE loans[assets[a].loan].status] :
       a \in {b \in Assets : assets[b].there}}

\* DashboardService.getOpenLoanRequests.
OpenLoanRequests == [cashLoans |-> With({"PENDING"}), commodityLoans |-> InReview]

\* DashboardService.loanFinancials: every loan with a disbursement date, whatever its status.
LoanFinancials == [principal |-> Borrowed(Dated), outstanding |-> Owed(Dated)]

\* DashboardService.loanReportOverview, without a range.
LoanReportOverview ==
    [outstanding |-> LoanFinancials.outstanding,
     activeLoansCount |-> Cardinality(With({"DISBURSED"})),
     pendingLoansCount |-> Cardinality(With({"PENDING"}))]

\* The customer's report: getConsumerLoans and generateCustomerLoanSummary.
CustomerReport ==
    [totalBorrowed |-> Borrowed(Dated), balance |-> Owed(Dated),
     status |-> IF Owed(Dated) = 0 THEN "completed" ELSE "active"]

\* CashLoanService.getLoan.
AmountOwed(l) == Owed({l})
=============================================================================
