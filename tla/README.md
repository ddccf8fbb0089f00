# Verification of the MicroBuilt payroll-loan back end

TLA+ models of this repository: the consolidated repayment obligations that keep
borrowers' debts, their plans, the payroll months and the loan rows that shadow
them; the payroll schedules that go out and the results that come back; what
staff decide on an obligation; and the front office, from a customer's account
to the payout of a loan. TLC checks the models on small instances; TLAPS proves
theorems about them for every value of their constants.

All money is an integer number of kobo (the code's `Decimal(18,2)` passed
through `money()`), and a payroll period is an integer month number, so
`canonicalPeriod` and `nextPayrollPeriod` are the month and its successor.

## 1. The system

A NestJS back end over PostgreSQL (Prisma) with Bull queues, Redis and Supabase
storage. Admins import customers, approve and disburse loans, submit the
monthly payroll variation, upload the payroll's deductions, close the month,
and take liquidations; borrowers ask for loans, tenures and liquidations.

| Component | State | Operations | Meets the others through |
|---|---|---|---|
| Repayment plan calculation (`obligations/repayment-plan.logic.ts`) | none | `calculateRepaymentPlan`, `calculateFuturePlanBalances`, `money`, period arithmetic | called by every operation that publishes a plan |
| Loan ledger (`prisma/schema.prisma` `Loan`, helpers of the obligation service) | status, repayable, repaid, penalty, penaltyRepaid of each loan | oldest-first payment and waiver loops, `settleFullyPaidLoans`, the default charge | written inside the obligation service's transactions |
| Obligations and plans (`obligations/repayment-obligation.service.ts`) | obligation, plans, installments, receipts and their keys | `disburseAdvance`, `backfillActiveObligations`, `applyPayrollPayment`, `applyUnscheduledPayment`, `adjustPenalty`, tenure changes, `prepareVariationSchedule`, `closeRepaymentPeriod` | called by controllers and by the queue workers; Serializable transactions |
| Tenure change requests (same service and its controller) | PENDING/APPROVED/REJECTED rows with the version, month and balance they were made for | preview, request, approve, reject | publish a plan |
| Payroll variation schedules (`queue.reports.ts`, `queue.maintenance.ts`) | schedule versions per period, one official, artifact hash | prepare, preview, submit, record artifact, cleanup | mark rows PUBLISHED; decide the first open month |
| Upload and close jobs (`queue.repayments.ts`, `queue.producer.ts`, `admin/repayments`) | jobs and their progress, receipts, `LAST_REPAYMENT_DATE`, dashboard counters | upload a sheet, close a period, overflow | payments and closes of the obligation service |
| Liquidations and manual resolutions | requests, repayments awaiting resolution | request, accept, reject, job; resolve | unscheduled payments |
| Loan applications (`user/loan`, `admin/loan`, `queue/events`) | loan and commodity status | request, update, delete, approve, reject, disburse | disbursement opens or tops up an obligation; handlers run asynchronously |
| Configuration and maintenance (`config`, `auth/maintenance.guard.ts`) | keyed values, a five second cache per process | read, write, toggle | gates requests; holds rates and counters |
| Customers, identity and accounts (`admin/customers`, `auth`, `user`) | accounts, payroll identity, verification codes | onboarding, sign-in, codes, statements | own the loans |
| Import of existing customers (`queue.service.ts`) | — | one transaction per row | creates disbursed loans that have no obligation yet |
| Notifications, mail, exports, dashboards | none of their own | render, send | read only |

### What is hard here

* **Out-of-order months.** Nothing orders the submission, payment and close of
  months. A month in the future may become official before the current one,
  and every payment, top-up, waiver, tenure change and default re-plans the
  debt around rows payroll already holds.
* **Two books.** A debt is kept twice, on the obligation and on loan rows; a
  payment is spread over both by different rules.
* **One obligation per borrower** is kept by no constraint of the schema.
  Disbursement looks and creates in one Serializable transaction; the lazy
  backfill of the report job and the payment path looks before its transaction.
* **Work lists read outside the transaction.** `closeRepaymentPeriod` lists
  installments and then runs one transaction for each; the backfill lists
  borrowers and looks for their obligations; other operations run in between.
* **Rounding.** Every month but the last takes the half-up rounded quotient,
  the last the remainder, whatever sign it has.
* **Retries and crashes.** A queue job whose worker dies is run again from the
  start. Its payments are keyed, its statistics are in memory, its files can be
  stored once; a database call that failed may have committed.
* **Read, then write.** Requests, decisions and listeners check in one call and
  write in a later one that does not check again: decisions on tenures,
  liquidations, loans and accounts, toggles, two uploads of one month.
* **Answers before deeds.** Event listeners write after the request has been
  answered, in several calls, and nobody repeats what they fail to do.
* **A cache per server process** of the maintenance flag.

`PROJECT.json` lists all of these under `hazards` with the line at which each bites.

### What makes each component correct

* Plan calculation: a plan schedules the balance exactly and no row is negative.
* Ledger and obligations: both books agree, and the statement with them; only a
  late backfill opens a second obligation, and never a third; a repaid loan owes nothing and stays so; the contract paid off settles the
  obligation; one plan is current; what payroll was told to deduct is not
  withdrawn; what is owed can still be collected; nothing is collected twice.
* Tenure changes and adjustments: optimistic locking holds, that is, what was
  proposed is what is published, whatever moved in between.
* Schedules: one instruction in force per period, kept as issued, its file its own.
* Upload and close: books and counters follow the stored receipts however jobs
  are rerun; a closed month stays closed; every queued job ends.
* Liquidations and resolutions: the money of a case is taken once.
* Accounts: money goes to details an admin has looked at.
* Loan applications: one at a time; a loan is paid out once; all views say the
  same is owed.
* Maintenance: felt everywhere within the life of a cache.
* Import: what is imported is counted once.

## 2. Modules

| Module | Models |
|---|---|
| `RepaymentPlanLogic` | the pure functions of `repayment-plan.logic.ts` in closed form, and the month search |
| `PlanCalculation` | `calculateRepaymentPlan` as the loop it is, one turn a step |
| `PlanCalculation_proofs` | theorems: the loop is the closed form, it reconciles, no negative rows |
| `LoanLedger` | loan rows, the oldest-first loops, settlement, the default charge |
| `FiniteSums_proofs` | lemmas: `SumFunction` over a finite set, by set induction: its value, and how it changes |
| `RepaymentObligation` | one borrower's loans, obligations, plans, installments and the official months |
| `RepaymentObligation_proofs` | lemmas on what the loops over loans take and on the shape of rows and plans; theorems: both books agree, two open obligations at most, repaid loans stay clear, a payoff settles, the current plan is the published one, published rows stand, the statement covers the account |
| `OrderlyMonths` | the same under an orderly payroll calendar, with the properties that need it |
| `OrderlyMonths_proofs` | theorems: one row a month, new plans avoid official months, the rows to collect cover the debt |
| `PayrollRegister` | abstract: what the schedules of one payroll month promise the payroll office |
| `VariationSchedule` | the schedules of a month and the report jobs; implements `PayrollRegister` |
| `VariationSchedule_proofs` | theorems: its invariants, and that it implements `PayrollRegister` |
| `PayrollUpload` | upload and close jobs, receipts, counters, `LAST_REPAYMENT_DATE` |
| `PayrollUpload_proofs` | theorems: its invariants |
| `AccountDecisions` | tenure requests, adjustments, liquidations and resolutions on one obligation |
| `AccountDecisions_proofs` | theorems: its invariants |
| `CustomerAccount` | one customer's account, its status and its details |
| `LoanApplications` | applications, decisions and payouts beside that account (extends `CustomerAccount`) |
| `MaintenanceMode` | the flag, the caches of the servers, the guard |
| `CustomerImport` | import jobs and their counters |
| `FrontOffice` | the four above in one specification, with their properties |
| `FrontOffice_proofs` | theorems: its invariants and its action property, from one invariant for each part |
| `MC*` | values of the constants for TLC |

### How RepaymentObligation corresponds to the service

* **One borrower, one action per transaction.** An operation of the service is
  a `Serializable` transaction over one borrower's rows; serialised transactions
  are atomic actions. Two operations read before their transactions and are
  split the way the code is. `closeRepaymentPeriod`: `StartClosing` reads the
  work list, `CloseSettled` and `CloseDefaulted` are the transaction of one
  installment, `ClosingFails` the transaction that cannot commit and fails the
  job, `FinishClosing` the end. `backfillActiveObligations`: `ListBorrower` reads
  the borrowers, `FindNoneOpen` looks for an open obligation, `CreateBaseline` is
  the transaction, which does not look again, and `BackfillEnds` every way out
  without one; `Workers` calls run at a time. `prepareVariationSchedule` covers
  all borrowers in the code; here the others show only in that a month may become
  official without a row of this one, who may have no staff id or payroll record.
* **State.** `loans`, `obligations`, `plans` (with their installments in `rows`,
  a function on months) are the tables in creation order, restricted to the
  columns that decide something. `baselined` is the unique key
  `migration-baseline:<borrower>`. `official` holds the periods with an
  official schedule. `closing` is the local list of a running close, `backfills`
  how far each backfill has come. Two variables are history: `doubled` records
  that a baseline was created beside an open obligation, and `statement` holds,
  per obligation, the balances that `getLoanStatement` replays from the events so
  far: what the loans took of each payment (`Allocated`, the sum of the INTEREST
  and PRINCIPAL allocations), where the obligation subtracts what was applied less
  the penalty paid.
* **Loan rows** keep `owed = repayable - repaid` and
  `penalty = penalty - penaltyRepaid`, the differences every use takes. The
  loops over loans are written in closed form: loan *i* takes what is left of
  the amount after everything the loans before it owe.
* **`publishPlan`** is the whole sequence: reading the PUBLISHED plan,
  superseding its PLANNED rows from the first month on, the version number and
  its unique key, the insertion. `CanPublish` is what keeps it from throwing;
  an operation whose `publishPlan` throws rolls back and is not a step.
* **Legacy loans** that predate the obligations are initial states
  (`LegacyPortfolios`). The term of a baseline plan is computed in the code
  from dates of those loans and is any tenure here.
* **The term of a top-up** is the longer of the old and the new one when the
  obligation lists advances or the loan is a Topup. Which advances it lists is not
  kept; a baseline lists the loans of its time that no obligation lists, so only one
  beside or after another obligation can list none, and `ListsNoAdvance` lets it
  take either term.
* **A tenure change** is one step: `approveTenureChange` refuses unless the
  obligation's version, the first open month and the schedulable balance are
  those of the request, so a request with anything in between is not approved.
* **Abstracted:** the split of a contractual payment into interest and
  principal; events and receipts but for what the statement makes of them; the
  compatibility `Repayment` rows, which no decision modelled here reads; idempotency keys of payments (each payment here
  is a new receipt). The statuses DRAFT, SUSPENDED and CLOSED of an obligation
  and ACKNOWLEDGED of a schedule are never assigned by the code, and
  `correctFuturePlanEffectivePeriod` has no caller.

### OrderlyMonths

Three properties one would like of every state do not hold in every state:
payroll pays penalty first whatever row it collects, new plans look only for
their *first* open month, and a default re-plans the whole balance. They do
hold when months are worked through in order, which is how the process is
described in `docs/LOAN_SYSTEM_FLOW.md`: `OrderlyStep` says that only the
current month is newly submitted, and only once every row of an earlier month
is paid or closed (no month is skipped); that payroll pays rows of submitted
months; that only submitted months are closed; that a close runs to its end
before anything else happens; and that a migration baseline, whose first month
the code computes from the dates of old loans, starts after the last official
month. Top-ups, liquidations, waivers, tenure changes
and backfills that looked early stay free. Dropping any one of these breaks at least one of `NoStrandedDebt`,
`OneRowPerMonth` and `NewPlansAvoidOfficialMonths`: skipping a month strands
debt, paying an unsubmitted month leaves its partly paid row beside the next
plan's, a later month submitted first puts a new plan into it.

The code enforces none of them, so these properties, and the theorems about
them, say what the order of work buys and nothing of an office that departs from
it; months out of order are the business of the violated properties. Nor do they
promise more of two open obligations than the code does: `OneRowPerMonth` speaks
of each obligation, and `NoStrandedDebt` of a debt that no backfill has claimed a
second time.

### VariationSchedule

`prepareVariationSchedule` is two steps, as in the code: `LookForOfficial` and
the transaction `CommitSchedule`. The report job goes on with `Render`,
`Upload` (refused when the file is there), `CheckArtifact`, `RecordArtifact`
(read and write in two calls) and `Mail`. `Retry` and `AnswerLost` are
`retryTransientDatabase`: a call that could not reach the database is tried
again whether or not it had committed. `WorkerDies` puts the job back to its
start. Meanwhile payments, closes, recasts and settlements change the rows.
`PayrollRegister` is the promise: `Calculate` adds a calculation and may make it
the instruction in force, `File` records a calculation's own file once. The
refinement maps schedule rows to `issued`, the official version to `inForce`,
recorded hashes to `filed`.

### PayrollUpload

A request checks `LAST_REPAYMENT_DATE` and queues a job; jobs of both kinds run
at once. A row is one step, since a payment is one transaction keyed by file and
row; the counters are posted one by one at the end. Rows belong to official
months, so what they expect is constant, and debt and penalty are one balance.
A worker's death reruns the job or fails it for good. `PostOutstanding` stops at zero
as `depleteValue` does (`GREATEST(0, ...)`). The lists and totals that
borrowers and administrators are shown (`RepaymentHistory`, `RepaymentOverview`,
`YearlySummary`, `AllRepayments`, `RepaidInPeriod`, `Overview`) are operators over
the mirrored `Repayment` rows, which a close does not give a new repaid amount.

### AccountDecisions

A tenure request is the preview's two reads, the pending check, the creation,
and then approval (one transaction that compares version, month and balances)
or rejection (a read, then a write). Decisions on the liquidation request and on
a stray payment are a read and a write each, then a job. The
statement of the account is `RepaymentObligation`'s, where the loans are.

### FrontOffice

One customer. `CustomerAccount` has sign-up, verification, the details with
their listeners, status changes, invitation and removal of staff, and
onboarding. `LoanApplications` has each request and decision as a check and a
later write, the payout as `CheckPayout`, `PayOut` (`disburseAdvance`) and
`CountPayout`, and the views that customers and staff get. The plan a payout
publishes is `RepaymentObligation`'s business; here a paid loan may be repaid in
full. `MaintenanceMode` and `CustomerImport` share only the database with the
rest. `scene` selects which part of this moves in a behaviour: *account*,
*onboarding*, *review*, *cash*, *goods*, *gate*, *import*. It is a bound, no part
of the code.

A *review* of details is any decision on the account that leaves it not FLAGGED,
an invitation to the staff included. Roles do not change beside applications, so
the customer keeps its id there. A cash request has
the category PERSONAL, which stands for any category of a cash loan; an update
that changes only the category leaves the loan as it is.
Requests that read (`GET`) and those that bypass the guard are not at the gate.
Rows of an import come in any order; one may be committed and its answer lost
(`AnswerLost`), which the job takes for a row that failed.

## 3. Runs

| Run | Specification | Checks | Bounds |
|---|---|---|---|
| `plan_calculation` | the loop | `TypeOK`, `LoopIsClosedForm`, `PlanReconciles`, `NoNegativeInstallment` | balances 0..40, terms to 9: every remainder and both sides of the rounding |
| `obligation_accounts` | any order | `TypeOK`, `ContractualLedgerAgrees`, `SecondOpenIsABackfill`, `StatementCoversAccount`, `RepaidLoansOweNothing`, `CurrentPlanIsThePublishedOne`, `ContractualPayoffSettles`, `PublishedRowsStand` | two months of clock (rows of three), two loans, with and without a legacy loan, one backfill at a time, three plans; receipts below, at and above what is due; `WithinOneMonthOrOneLoan` |
| `orderly_months` | orderly | `NoStrandedDebt`, `OneRowPerMonth`, `NewPlansAvoidOfficialMonths` | three months, two loans, with and without a legacy loan, four plans (with a baseline or a backfill under way three, over two months) |
| `variation_schedule` | fair jobs | `TypeOK`, `InstructedRowsArePayable`, `SubmissionsFormOneChain`, `OfficialMonthsAreReproduced`, `MailedFilesAreOnRecord`, refinement `KeepsRegister`, liveness `ReportsEnd` | one installment, two jobs, two versions, two attempts, one death |
| `payroll_upload` | fair jobs | `TypeOK`, `BooksFollowReceipts`, `CountersFollowReceipts`, `ClosedMonthsAreClosed`, `UploadsLeaveNoRowBehind`, `RecordsClaimNoMoreThanRows`, liveness `JobsEnd` | two borrowers, two months, three files (one a correction, one with an unknown staff id), a penalty rate at which a month's default lets a borrower pay more than the counter started from, two requests, one death |
| `account_decisions` | any order | `TypeOK`, `VersionsNameBalances`, `PublishedAsProposed`, `CasesTakeMoneyOnce` | two tenure requests, two decisions, a liquidation and a stray payment, versions 4 to 6 of the account, one failing call |
| `front_office` | a scene each | `TypeOK`, `PaidToReviewedDetails`, `OneApplicationAtATime`, `PayoutsMatchBooks`, `OnlyLateCallsTouchPaidLoans`, `MaintenanceIsFelt`, `ImportedOnce` | two processes in each scene, two loans, one commodity, two servers, three rows, one failure, two deaths of workers or lost answers |
| `official_file_lost` | fair jobs | `OfficialFileCanBeProduced` is violated | as `variation_schedule` |
| `two_open_obligations` | any order | `OneOpenObligation` is violated | one month, two loans, two backfills |
| `scheduled_twice` | any order | `NothingScheduledTwice` is violated | two months, two loans |
| `close_never_ends` | orderly | `EveryListedRowCloses` is violated | two months |
| `penalty_on_no_loan` | orderly | `PenaltyIsOnLoans` is violated | two months |

Bounds that are not in the code: `Horizon` (last month of the clock), `MaxLoans`,
`MaxPlans`, `MaxCredit`; each appears in a guard and only stops behaviours.
`WithinOneMonthOrOneLoan` keeps `obligation_accounts` to behaviours that stay in
the first month, with every operation, or that have one loan and neither baseline
nor credit, over two months, in which no month is closed before it has begun: the
interplay of top-ups and baselines with the books shows in one month, that of
months with plans in one loan. `BaselinePlans` gives `orderly_months` one plan and
one month fewer once there is a baseline or a backfill is under way.
Amounts are a few kobo, so that a receipt may be less than, equal to and more
than what a row, a loan and the obligation owe; a rate of 1/2 makes the
penalty of a shortfall of one round up. Two loans are the least that make the
oldest-first loops matter; three plans the least in which a superseded plan has
a published row that a newer one was built around, and is superseded itself;
two months the least that can be taken out of order. The runs set
`CHECK_DEADLOCK FALSE`: the clock, the bounds and finished jobs end every behaviour.

In the other runs: `Attempts` is the code's number of tries of a database call,
made two, the least in which a lost answer can be followed by a second commit;
`MaxVersions`, `MaxFigures`, `Slots`, `MaxDeaths`, `MaxVersion`, `MaxMonth`,
`MaxFaults`, `MaxIds` and `MaxTime` are bounds. Two jobs, two calls or two
decisions at once are the least that can race, and each pair meets a third party
(payments, closes, payouts) at every step. One death is enough for a job to meet
its own traces; the import has two, so that the second run can die as well.
`CacheTtl` is two ticks of a clock of four, so that a cache lives over a toggle,
expires, and is refilled late. `payroll_upload` was also run once with three
requests and no deaths, and `account_decisions` with seven versions, without
error and outside the listed runs for their length.

**Fairness.** `VariationSchedule` and `PayrollUpload` assume weak fairness of each
job's work, `WF_vars(Work(j))`: a Bull worker that holds a job goes on with it, or
dies, and a stalled job is taken up again. Deaths and lost answers are not fair
and are bounded; nothing is assumed of requests, payments and closes. The other
modules state safety only: a listener or a call that dies is not taken up again
by anyone, so nothing can be promised of it.

### What the violated properties show

* **`OneOpenObligation`.** The comment in `backfillActiveObligations` says that
  workers which start together converge on the winner's baseline. The unique key
  turns away a second *baseline*. An obligation that `disburseAdvance` opens after the
  backfill has looked is no baseline: the backfill opens its own beside it, over
  the same loans. From then on both ask for one debt: a payment of either
  lowers the loans', and the other asks for what is no longer owed. This is
  why `ContractualLedgerAgrees` has loans and the open obligation *equal* only
  until then, and loans that owe *no more* than is asked for afterwards.
* **`NothingScheduledTwice`.** `repayment-plan.logic.spec.ts:108` promises that a
  published-but-unsettled deduction is not scheduled twice. The service deducts
  published rows *before* the new plan's first month. When a later month is
  official first, a top-up in the current month starts there and runs over the
  later one: the published row keeps its claim and the new plan schedules the
  same debt.
* **`EveryListedRowCloses`.** A liquidation that leaves nothing to plan withdraws
  the PUBLISHED plan; a default of the official row it left alone then numbers
  its plan 1 again and breaks `unique(obligationId, version)`. The close of the
  period fails on every attempt.
* **`PenaltyIsOnLoans`.** A debt settled outside payroll leaves a PARTIAL official
  row whose close assesses a penalty on the settled obligation, and no loan is
  DISBURSED to carry it, though the loan views are meant to stay reconciled.

* **`OfficialFileCanBeProduced`.** The official file is stored before its hash is
  recorded and may not be overwritten. A worker that dies in between leaves a
  month whose file no later job can store, record or mail, though the comment on
  the lookup says that an official month is reproduced.

### What the passing properties leave open

The models show these as well; no property is stated because the code promises
nothing there.

* *Payroll.* An upload that is run again stops at a row that had settled its
  debt: the obligation is looked for before the receipt. Manual rows are created
  again by a rerun. Statistics of a job that dies are lost. A close charges a row in
  its transaction and adds the penalties to `BALANCE_OUTSTANDING` at its end: an upload
  that collects such a penalty first can find the counter short, `depleteValue` stops
  at zero, and the counter stays too high for good. A Repayment record
  may say AWAITING of a row that was paid or closed; two queued closes can move
  `LAST_REPAYMENT_DATE` back. `getUsersRepaymentStatusSummary` keeps a customer's
  first status of the month as the row has it (FAILED, PARTIAL, FULFILLED) and
  counts only DEFAULTED, FLAGGED and ONTIME: a customer with one row in the month
  is in none of its three counts.
* *Decisions.* A rejection may overwrite APPROVED of a tenure request or a
  liquidation; a notification that fails rejects a liquidation that was applied.
* *Loans.* A late `approveLoan`, `rejectLoan` or update overwrites a paid loan;
  payments then pass it by while its obligation keeps the balance, and the
  customer's summary and the dashboard disagree. `OnlyLateCallsTouchPaidLoans`
  says that there is no other way. Two overlapping approvals of a commodity make
  two loans, both payable, one of them in no list of staff. Two overlapping
  requests both pass the pending check, and a cash request does not look at
  commodities in review. A rejected commodity is APPROVED to the customer and
  PENDING to staff. An INACTIVE borrower can be paid out. A cash request with the
  category ASSET_PURCHASE would be in no list of staff.
* *Accounts.* A listener that fails between details and flag leaves new details
  unflagged; a marketer's payroll record may come after the account was
  admitted. A customer's own payroll record can never be created: it refers to
  the external id, which is set after it. Onboarding answers before it is done.
* *Maintenance.* A slow reader may refill the cache a toggle has just emptied,
  with the old value; two overlapping toggles come to one.
* *Import.* What a dead or failed job had imported is never counted.

## 4. What is proved

The proofs assume what the modules assume of their constants and nothing else,
and TLC evaluates every assumption on the runs: `ConstantsAssumption` (months,
tenures and amounts are positive, `LegacyPortfolios` are sequences of disbursed
loan rows), `InputsAssumption` of `PlanCalculation`, and those of the other
components, which say that sets of staff, files, processes and ids are finite where
sums are taken over them, that a file is a list of lines with a month and an amount, that ids of one kind are none of another, that there is a server,
and that bounds are numbers. The theorems hold for any number of loans, plans,
months, requests, calls, servers, rows and jobs, any amounts and any penalty rate,
in any order of operations.

| Theorem | Module | Says |
|---|---|---|
| `TypeCorrect`, `LoopComputesClosedForm`, `PlansReconcile`, `InstallmentsNonNegative` | `PlanCalculation_proofs` | the loop of `calculateRepaymentPlan` computes the closed form the other modules use; the plan adds up to the balance; no row is negative from `term*(term-1)/2` kobo on |
| `FiniteSumNat` | `FiniteSums_proofs` | a sum of natural amounts over a finite set is natural, in whatever order it is taken |
| `WaterfallTakesAll` | `RepaymentObligation_proofs` | the oldest-first loops take the payment or all that is owed, whichever is less |
| `FirstOpenPeriodFound` | `RepaymentObligation_proofs` | the search for an open month ends, with only official months before the one it finds |
| `Inductive` | each of the five below | `Spec => []IInv` |
| `TypeCorrect`, `BooksAgree`, `TwoOpenAtMost`, `RepaidStaysClear`, `StatementAlwaysCovers` | `RepaymentObligation_proofs` | invariants of the run `obligation_accounts` |
| `PayoffAlwaysSettles` | `RepaymentObligation_proofs` | the payoff property of that run |
| `CurrentPlanAlwaysPublished`, `PublishedRowsAlwaysStand` | `RepaymentObligation_proofs` | its properties of plans, from `CurrentPlanInductive` |
| `OrderInductive` | `OrderlyMonths_proofs` | the invariant of the orderly calendar |
| `AlwaysOneRowPerMonth`, `NewPlansAlwaysAvoidOfficialMonths` | `OrderlyMonths_proofs` | two properties of the run `orderly_months` |
| `DebtInductive` | `OrderlyMonths_proofs` | the cover of every open debt by its rows |
| `NoDebtIsEverStranded` | `OrderlyMonths_proofs` | the third property of the run `orderly_months` |
| `TypeCorrect`, `VersionsTellBalances`, `PublishesWhatWasPriced`, `MoneyIsTakenOnce` | `AccountDecisions_proofs` | all invariants of its run |
| `TypeCorrect`, `InstructionsArePayable`, `SubmissionsAreLinked`, `OfficialMonthsStand`, `MailsAreRecorded` | `VariationSchedule_proofs` | all invariants of its run |
| `ImplementsRegister` | `VariationSchedule_proofs` | the refinement `KeepsRegister` |
| `TypeCorrect`, `BooksAgree`, `CountersAgree`, `ClosedStaysClosed`, `NoRowLeftBehind`, `RecordsClaimNoMore` | `PayrollUpload_proofs` | all invariants of its run |
| `TypeCorrect`, `MaintenanceShowsInTime`, `ImportsCountOnce`, `PaymentsAreReviewed`, `ApplicationsWaitAlone`, `BooksMatchPayouts` | `FrontOffice_proofs` | all invariants of its run |
| `PaidLoansAreLeftAlone` | `FrontOffice_proofs` | its action property |

**Plan calculation.** `LoopInv` says that after *n* turns the rows are the first
*n* of the closed form and that `scheduledSoFar` is *n* times the rounded
quotient, or the whole balance once the last row has taken the remainder. A
plan reconciles because it then has all its rows.

**The ledger.** A payment is one number on the obligation and a loop over loans
in the ledger. `RunningTotal` is a recursive function; that it has a value at
all, and that the totals grow by each amount, is proved by induction over the
index stated as induction over a set (`SetInduction`), since the library's
induction theorems take an operator as parameter. Loan *i* takes what is left
after the first *i - 1*; its share is the growth of `min(payment, running
total)`, so the shares add up to `min(payment, total)`. From this follow the
lemmas on what a payment, a settlement, a waiver, a charge and a new loan do
to what the loans owe.

**The obligation.** None of the invariants is inductive alone. What the books
keep whatever backfills do is an inequality: loans owe no more than all
obligations ask for. What they keep until a second obligation is open (`AskedOnce`)
is that one at most is open and asks for exactly what the loans owe. `Books` has
both, and that of three open obligations two are the same; `IInv` adds that a
second comes with a used key: `disburseAdvance` creates only when it finds none
open, in its own transaction, and the key is used once, so there is never a third. That a payment keeps the
inequality needs that loans take all of it or owe nothing more (`WaterfallTakesAll`); that payroll, which finds the obligation through an installment,
finds one that exists needs `PlanRefs`; that `closeRepaymentPeriod`, working from a
list read earlier, touches rows that still exist needs `TodoRefs`; and that
balances stay natural numbers needs the shapes. A waiver or payment never takes
contractual debt from a loan the obligation does not know, because a REPAID
loan owes nothing. `IInv` is the conjunction of these. The proof has one lemma
per operation; each reduces to `StepSame`, `StepUpdate` or `StepAppend` (no
obligation, one, or a new one changes), a lemma on the plans and a lemma on the
loans.
`TypeOK` as checked by TLC is the part of the shapes it can evaluate together
with the references; the books are checked as `ContractualLedgerAgrees`,
`SecondOpenIsABackfill` and `RepaidLoansOweNothing`.

**The statement.** `StatementInv` adds to `IInv` that each statement covers its
account (`Covers`). A payment takes from the account what was applied less the
penalty, and from the statement what the loans took. The loans take no more than
that, so the statement never falls below the account; while one obligation is
open they owe what it asks for and take exactly that. After a second is open the
statement of one may show debt that payments of the other have taken from the
loans.

`PayoffAlwaysSettles` goes action by action: only the two payment paths lower
the contractual balance, and both take penalty first, so when the last
contractual kobo goes the penalty is already gone.

**The plans.** `PlanInv` adds to `IInv` that an obligation's current plan is its own
published one and that no other plan of it is published (`OneCurrent`).
`CurrentPlanIsThePublishedOne` is inductive only in this form: a withdrawal
supersedes the plan `currentPlanId` names, so another published plan would
survive it, and `publishPlan` retires the others only if one of them is
published. What each operation does to the sequence of plans is stated once:
`PublishedAs` (the others are retired, the new one is last), `WithdrawnAs` and
`RowWritten`, with one lemma per operation that names the case it is
(`DisburseTopUpEffect`, `ApplyUnscheduledPaymentEffect`, `CloseDefaultedEffect`,
...). `PublishedRowsAlwaysStand` needs no more than these: neither publishing nor
withdrawing touches a row that is no longer planned (`ReplanningUntouched`), and
a payment and a default keep what was collected.

**The orderly calendar.** `OrderInv` joins `PlanInv` with the order of the months
(`Calendar`): published rows are of official months; planned rows of an open debt
are not; what a superseded plan still holds as planned is of a month that is
over; and nothing that may still be collected is of a month before the last
official one. The last needs `OrderlyStep`: a new official month is the current
one, and nothing collectable is earlier. From it follows that the first open month
lies after *every* official month and that every month before it is over or
official (`StartNow`), which a search for the *first* open month does not give by
itself; so a new plan's rows meet no row that is still listed (`OneListed`). For a
close, `StartNow` starts from the month closed, which is the last official one
because its list holds a row that may still be collected.

**The rows cover the debt.** That the rows to collect ask for at least the debt is
not inductive. Payroll takes penalty first, whatever row it collects, and a row
lets go of what it collected up to its *own* penalty and installment. `Debt`
therefore says three things of every open obligation: on each row, what was
collected is what went to contractual debt and what went to penalty; the rows to
collect ask for no less than the debt; and the *first* of them still asks for all
the penalty, and has taken no more than its scheduled part while penalty remains
(`Carries`). A payment then lowers the debt and the row by the same amount,
because the row it is taken from is the first: `OrderlyStep` leaves payroll only
submitted months, `OrderInv` puts every row still collected at or after the last
of them, and `OneListed` leaves one such row. Every new plan is priced from the
balances less what that row claims, so the row and the new rows together ask for
the whole again; a default closes the row and plans the whole debt anew. That a
sum over rows changes by one row's share, or splits between the published row and
a plan's, is again `FiniteSums_proofs`.

**Decisions on the account.** `IInv` of `AccountDecisions` has a part for the account
and one for the cases. What a version names is inductive only together with the
order of versions (`LooksAreNotLater`: nobody has seen a version the account has
not reached), and a published plan is the one priced only because what is priced
stands while the version does (`PricesStand`) and what was published lies at an
earlier version (`PublishedAreOlder`). A case takes money once because money and
receipt are written together (`ReceiptsTakeMoney`), because a job runs only for a
case that was decided (`JobsAreDecided`), and because a case stays of its kind.

**The register.** `BookInv` has the chain: one schedule is in force, every other
submission was replaced by a later one, files belong to one schedule, and what is
instructed is payable. A job works on what it read some steps before; what it read
stays true because the books only grow (`Grown`: a schedule keeps its rows, its hash and
its file, a submission stays one, and none earlier comes into force). Each step is shown to keep
the books and to be `Grown`, and `Grown` carries every other job's part
(`JobsFit`) along. `ImplementsRegister` maps each step of a job to a
calculation (which may take force), to the filing of one, or to a stutter of
`PayrollRegister`.

**Uploads and closes.** `IInv` of `PayrollUpload` has the shapes and seven parts over
them. A payment writes row, balance and receipt in one step, so `RowsFit`,
`AccountsFit` and `MonthsFit` (each an equation between sums) change by one term on
either side; that the receipt belongs to the row it was paid against, and to the month,
needs that a queued file names one month (`JobFits`). `RecordsFit` says per status
what a mirrored row may claim. `JobsDone` says what a job has dealt with when it is
where it is: the rows of the file before the one it has come to, and, for a close, that
every payable row of its month is still on its list; both survive what other jobs do
because a row never becomes payable again and what was handled stays so
(`NothingReopens`). `LastIsClosed` then holds of every date a close sets, in
whatever order closes end. `CountersFit` adds to each counter what jobs still hold for
it (`Held`): a step moves a term from one side to the other, or loses it with a job
that failed or died. Planning this proof showed that an earlier form of
`CountersFollowReceipts`, which the run then satisfied, was false for other
constants: it said that `BALANCE_OUTSTANDING` is what is owed while no job is lost, and a
penalty that is paid before it is posted meets the counter's floor at zero. The
property now says how far the counter can be trusted, the run's constants reach the
floor, and `CountersFit` carries the inequality from which it follows that the floor
is met only when more than the first debt was applied.

**The front office.** Its parts share no variable but the bound on faults, so `IInv`
is one invariant of each, and a step of one leaves the others alone. At the gate a
cache that says the mode is off got it from a read less than `CACHE_TTL` before its
end; that needs what a request between its read and its write of the cache may
know. The import's figures are in the counters, with a job, or forgotten: sums
over jobs, of which a step changes one (`SumChange`). An account that is not flagged
has only details whose flag is on its way (`Looked`). For applications: a loan has
an advance exactly when it has been paid, with what it owes and nothing counted
twice (`LoanFits`); the obligation is the sum of what loans owe (`BookFits`); what
was paid is counted, lost or at a call that will count it (`MoneyFits`); and until two
calls cross, at most one is between check and write of a request, with nothing it
would cross (`Uncrossed`). Deletions and late decisions do not look at the status
again, so `LoanFits` says what survives them: the advance, and that the loan is
neither pending nor deleted. That every view adds up to one sum then follows from
the lemmas on `SumFunction` in `FiniteSums_proofs`: the recursion has one value
whatever element it takes first (`AnyOrder`), a term can be split off, changed or
added, zeros left out, a sum split in two (`SumDisjoint`) or bounded term by term
(`SumAtMost`).

Each `IInv` was checked by TLC, on the constants of the component's run, before it
was proved.

**Only model-checked:** the liveness properties `ReportsEnd` and `JobsEnd`. Every
other property of a passing run is a theorem.

**Out of the prover's reach:** liveness under fairness, `ENABLED`, and what a
`RECURSIVE` operator computes for all inputs; no module here declares one.

## 5. Not modelled

Not modelled, each small or without state to go wrong:

* the resolution of a repayment row that names its payer
  (`events.admin.ts adminResolveRepayment`), for rows from before the obligations;
* rates and the commodity list (a read-modify-write that can lose an entry, and
  an entry whose first letter is small cannot be removed);
* the division of a payment into interest and principal and its revenue
  counters, the interest on compatibility `Repayment` rows, a customer's
  `repaymentRate` (a percentage of those rows, written after each payment), avatars,
  passwords and reset tokens;
* `correctFuturePlanEffectivePeriod` and the listeners of events that nobody
  emits (`userLoanRequest`, `userCommodityLoanRequest`, and the admin events for
  approving commodities, disbursing and top-ups);
* the match of a sheet's columns (the code looks for the header in ten rows; its
  message says twenty), rendering of mails, sheets and PDFs, charts, exports,
  storage and mail providers, request validation.
