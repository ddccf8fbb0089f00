----------------------------- MODULE FrontOffice -----------------------------
(***************************************************************************)
(* The front office in one specification: a customer's account with the    *)
(* applications made from it, the gate that maintenance mode closes, and   *)
(* the import of customers from sheets.                                    *)
(*                                                                         *)
(* The gate and the import share nothing with the rest but the database,   *)
(* and the parts of an account's life meet applications in few places.  So *)
(* a behaviour plays one of seven scenes and leaves the rest alone:        *)
(*   account     the account, from before it exists                        *)
(*   onboarding  one account that staff make and the application made with *)
(*               it, one call on that at a time                            *)
(*   review      details, status and the payout of an approved loan        *)
(*   cash        applications for cash on an admitted account              *)
(*   goods       applications for a commodity, after one for cash          *)
(*   gate        maintenance mode                                          *)
(*   import      the import                                                *)
(* The scene is a bound: it keeps the state space a sum.                   *)
(***************************************************************************)
EXTENDS LoanApplications, MaintenanceMode, CustomerImport

VARIABLE scene

Scenes == {"account", "onboarding", "review", "cash", "goods", "gate", "import"}

vars == <<accountVars, loanVars, gateVars, importVars, scene>>

\* An account that has been onboarded and admitted.
Established ==
    [NoAccount EXCEPT !.exists = TRUE, !.external = TRUE, !.status = "ACTIVE",
                      !.details = Kinds]

Init ==
    /\ scene \in Scenes
    /\ AccountInit(IF scene \in {"review", "cash", "goods"} THEN Established ELSE NoAccount)
    /\ LoanInit(CASE scene = "review" -> "APPROVED" [] scene = "goods" -> "PENDING" [] OTHER -> "NONE")
    /\ GateInit /\ ImportInit

-----------------------------------------------------------------------------
AccountScene ==
    /\ \/ StatusStep \/ ExpireCode
       \/ \E c \in Callers : CustomerStep(c) \/ DetailsStep(c) \/ OnboardingStep(c) \/ RolesStep(c)
    /\ UNCHANGED loanVars

RequestStep(d, what) ==
    \/ CustomerRequests(d, what) \/ LoanTopup(d, what)
    \/ \E c \in Callers : OnboardingRequests(c, d, what)

PayoutStep(d) == PayOut(d) \/ CountPayout(d) \/ \E l \in Loans : CheckPayout(d, l)

LoanStep(d) ==
    \/ CheckRequest(d) \/ CreateCashLoan(d) \/ CreateAssetRequest(d)
    \/ CheckOwnApproval(d) \/ ApplyUpdate(d) \/ ApplyDelete(d) \/ Approve(d) \/ Reject(d)
    \/ ApproveCommodityLoan(d) \/ RejectCommodityLoan(d)
    \/ PayoutStep(d) \/ DeskDies(d)
    \/ \E l \in Loans :
          CheckChange(d, l, "update") \/ CheckChange(d, l, "delete")
            \/ CheckApproval(d, l) \/ CheckRejection(d, l)
    \/ \E a \in Assets : CheckAsset(d, a, "grant") \/ CheckAsset(d, a, "refuse")

Applications(kinds) ==
    \/ \E l \in Loans : Repay(l)
    \/ \E d \in Desks : LoanStep(d) \/ \E what \in kinds : RequestStep(d, what)

OnboardingScene ==
    \/ /\ \/ \E by \in Staff, s \in {"ACTIVE", "FLAGGED"} : UpdateStatus(by, s)
          \/ \E c \in Callers : OnboardingStep(c) /\ \A b \in Callers \ {c} : calls[b] = Idle
       /\ UNCHANGED loanVars
    \/ /\ \E d \in Desks :
             /\ \A e \in Desks \ {d} : desks[e] = Free
             /\ LoanStep(d) \/ \E what \in {"cash", "asset"} : RequestStep(d, what)

ReviewScene ==
    \/ /\ StatusStep \/ \E c \in Callers : DetailsStep(c)
       /\ UNCHANGED loanVars
    \/ \E d \in Desks : PayoutStep(d)

OfficeScene ==
    /\ \/ scene = "account" /\ AccountScene
       \/ scene = "onboarding" /\ OnboardingScene
       \/ scene = "review" /\ ReviewScene
       \/ scene = "cash" /\ Applications({"cash"})
       \/ scene = "goods" /\ Applications({"asset"})
    /\ UNCHANGED <<gateVars, importVars>>

Next ==
    /\ \/ OfficeScene
       \/ scene = "gate" /\ GateNext /\ UNCHANGED <<accountVars, loanVars, importVars>>
       \/ scene = "import" /\ ImportNext /\ UNCHANGED <<accountVars, loanVars, gateVars>>
    /\ UNCHANGED scene

Spec == Init /\ [][Next]_vars

-----------------------------------------------------------------------------
(* Properties                                                              *)

\* The account, the applications and their calls, the gate and the import have their types.
TypeOK ==
    /\ AccountTypeOK /\ GateTypeOK /\ ImportTypeOK
    /\ loans \in [Loans -> Loan] /\ assets \in [Assets -> Asset]
    /\ advances \subseteq Loans /\ desks \in [Desks -> Desk]
    /\ obligation \in [open : BOOLEAN, balance : Nat]
    /\ borrowed \in Nat /\ lost \in Nat /\ crossed \in BOOLEAN
    /\ payouts \in [Loans -> [times : Nat, amount : Nat, blind : BOOLEAN]]

\* Details that a customer changed, or that came with an onboarding, are looked at by an
\* admin before money goes out: when a payout was checked there were none that no decision
\* on the account had before it, but for those a listener was about to flag or failed to.
\* It takes the order in which the listeners write the details and the flag, and the check
\* of the borrower's status (events.service.ts, disburseLoan).
PaidToReviewedDetails == \A l \in Loans : ~payouts[l].blind

\* Unless two of its requests, or two decisions on a commodity, were in progress at once, a
\* customer has one cash application and one commodity that wait at most, no commodity has two
\* loans, every top-up is in the history once, and every loan is in staff's list of cash loans
\* or belongs to a commodity in the other.  A commodity the customer is told to wait for is
\* pending for staff too; the other way round only a rejected one is told apart
\* (requestCashLoan, requestAssetLoan, approveCommodityLoan, getTopupHistory, buildCashLoanWhere,
\* getLoanById, getAllUserLoans).
OneApplicationAtATime ==
    LET shown  == {r.id : r \in {x \in AllUserLoans : x.status = "PENDING"}} \cap Assets
        listed == {r.id : r \in {x \in CommodityLoans : x.status = "PENDING"}}
    IN  /\ shown \subseteq listed
        /\ \A a \in listed \ shown : assets[a].rejected
        /\ ~crossed =>
              /\ {UserLoansOverview.pending, LoanReportOverview.pendingLoansCount,
                  Cardinality(OpenLoanRequests.commodityLoans)} \subseteq 0..1
              /\ \A a \in Assets : assets[a].made <= 1
              /\ \A r, s \in TopupHistory : r.id = s.id => r = s
              /\ \A l \in Loans : Exists(l) => (l \in CashLoans <=> LoanById(l).asset = {})

\* A loan is paid out once whatever decisions reach it late, and then cannot be deleted; the
\* counter has what was paid, but for calls about to count it and failures.  The dashboard and
\* the customer's report show the principal that was paid out, unless a late call changed it;
\* unless one changed the status of a paid loan, what the obligation, the dashboard, the
\* report, the customer's summary and the officer's portfolio say is owed is one sum, and the
\* obligation is open as long as there is any (disburseLoan, loanFinancials, getUserLoanSummary,
\* getUserActiveLoan, getAccountOfficerStats, generateCustomerLoanSummary).
PayoutsMatchBooks ==
    LET paid     == {l \in Loans : payouts[l].times > 0}
        out      == SumFunction([l \in paid |-> payouts[l].amount])
        counting == SumFunction([d \in Desks |-> IF desks[d].at = "count"
                                             THEN payouts[desks[d].loan].amount ELSE 0])
    IN  /\ paid = Dated /\ \A l \in paid : payouts[l].times = 1 /\ Exists(l)
        /\ borrowed + lost + counting = out
        /\ (\A l \in paid : loans[l].amount = payouts[l].amount) =>
              LoanFinancials.principal = out /\ CustomerReport.totalBorrowed = out
        /\ paid = With({"DISBURSED", "REPAID"}) =>
              /\ obligation.open <=> CustomerReport.status = "active"
              /\ {LoanReportOverview.outstanding, CustomerReport.balance, UserLoanSummary.outstanding,
                  UserLoanSummary.currentOverdue, Portfolio.outstandingBalance} = UserActiveLoan
              /\ \A l \in Loans : AmountOwed(l) > 0 <=> l \in ActiveAndPendingLoans.active

\* Only a call that checked a loan before its payout can take it out of DISBURSED or REPAID,
\* or change its amount (approveLoan, rejectLoan, userLoanUpdate).
OnlyLateCallsTouchPaidLoans ==
    [][\A l \in With({"DISBURSED", "REPAID"}) :
          loans'[l] = loans[l] \/ Repay(l)
            \/ \E d \in Desks : desks[d].loan = l /\ ~desks[d].paid /\ desks'[d] = Free]_vars

\* A request is let through only if maintenance mode was off at some moment less than
\* CACHE_TTL before the request came, or since (inMaintenanceMode, MaintenanceGuard).
MaintenanceIsFelt ==
    \A v \in Visitors : visits[v].at = "inside" => lastOff + CacheTtl > visits[v].since

\* Every imported customer's figures are in the counters once, but for those a job has in
\* hand and those that a death, a lost answer or a failure kept from them: a job that is run
\* again counts nothing twice, and two jobs of one sheet neither (handleImport).
ImportedOnce ==
    \A f \in Figures :
        counters[f] + forgotten[f] + SumFunction([j \in ImportJobs |-> InHand(j, f)])
            = Worth(f, Cardinality(imported))
=============================================================================
