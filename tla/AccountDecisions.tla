-------------------------- MODULE AccountDecisions --------------------------
(***************************************************************************)
(* What staff decide about one borrower's obligation: tenure changes,      *)
(* penalty adjustments, liquidations, and payments whose payer has to be   *)
(* named by hand.  A decision reads, and writes in a later call, while     *)
(* payroll, disbursements and other decisions move the obligation; the     *)
(* obligation's version is what is to keep a decision from being carried   *)
(* out on an account that has moved.  Liquidations and resolved payments   *)
(* are applied by jobs, which fail and are run again.                      *)
(*                                                                         *)
(* Loans, plans' rows, interest and the account statement are in           *)
(* RepaymentObligation; one official month is open at a time.              *)
(***************************************************************************)
EXTENDS Naturals, FiniteSets

CONSTANTS
    Requests,      \* tenure change requests
    Cases,         \* a liquidation request and repayments in manual resolution
    Liquidation,   \* the liquidation request among them
    Amount,        \* what each case brings
    Deciders,      \* decisions staff take on cases
    Debt, Penalty, \* contractual and penalty balance at first
    PenaltyRate,
    MaxVersion,    \* bound: version after which the account is left alone
    MaxMonth,      \* bound: months that turn or are submitted
    MaxFaults      \* bound: calls that fail

ASSUME DecisionConstants ==
    /\ Liquidation \in Cases /\ Amount \in [Cases -> Nat \ {0}]
    /\ Debt \in Nat \ {0} /\ {Penalty, PenaltyRate} \subseteq Nat
    /\ MaxVersion \in Nat /\ MaxMonth \in Nat /\ MaxFaults \in Nat

VARIABLES
    account,     \* RepaymentObligation
    row,         \* the open row of the official month
    month,       \* the first month without an official schedule
    tenures,     \* TenureChangeRequest, and the call that makes it
    seen,        \* the account as the admin about to adjust the penalty saw it
    cases,       \* LiquidationRequest and Repayment status
    receipts,    \* PaymentReceipt keys
    taken,       \* history: what each case took off the account
    decisions,   \* calls that decide a case, and the jobs they queue
    faults

vars == <<account, row, month, tenures, seen, cases, receipts, taken, decisions, faults>>
ledger == <<account, row, month>>
work == <<cases, receipts, taken, decisions, faults>>

Balances == [contract : Nat, penalty : Nat]
NoRow == [due |-> 0, contract |-> 0, penalty |-> 0]

Tenure ==
    [step : {"none", "previewed", "priced", "clear", "PENDING", "APPROVED", "REJECTED"},
     rejecting : BOOLEAN,                  \* a rejection has read PENDING
     version : Nat, month : Nat, balances : Balances,
     proposed : Balances, published : Balances]

NoTenure == [step |-> "none", rejecting |-> FALSE, version |-> 0, month |-> 0,
             balances |-> [contract |-> 0, penalty |-> 0],
             proposed |-> [contract |-> 0, penalty |-> 0],
             published |-> [contract |-> 0, penalty |-> 0]]

CaseStatus == {"NONE", "PENDING", "REVIEWING", "APPROVED", "REJECTED",
               "MANUAL_RESOLUTION", "FULFILLED"}

Decision ==
    [case : Cases \cup {"none"}, accept : BOOLEAN,
     step : {"none", "read", "queued", "applied", "marked", "done"}]

Over == [case |-> "none", accept |-> FALSE, step |-> "done"]

Least(m, n) == IF m <= n THEN m ELSE n

\* Prisma.Decimal.max(0, m - n).
Minus(m, n) == m - Least(m, n)

Current == [contract |-> account.contract, penalty |-> account.penalty]

\* balancesAvailableForFuturePlan.
Future(balances) ==
    [contract |-> Minus(balances.contract, row.contract),
     penalty  |-> Minus(balances.penalty, row.penalty)]

Owing(balances) == balances.contract + balances.penalty > 0

-----------------------------------------------------------------------------
(* What a transaction leaves of the account                                *)

\* Mutant: only a published plan is an event.
VersionOfPlans(plan) == account.version + (IF plan = "published" THEN 2 ELSE 0)

\* appendEvent, and once more when a plan is published.
NewVersion(plan) == account.version + (IF plan = "published" THEN 2 ELSE 1)

\* A transaction on the obligation: its event, its balances, and what became of the
\* future plan.
Record(type, balances, plan) ==
    account' =
        [contract |-> balances.contract, penalty |-> balances.penalty,
         settled |-> type # "DISBURSED" /\ (account.settled \/ ~Owing(balances)),
         version |-> NewVersion(plan),
         planned |-> IF plan = "kept" THEN account.planned ELSE plan = "published"]

\* A payment takes the penalty first; sum is what it took of each.
Taken(applied) ==
    [penalty |-> Least(applied, account.penalty),
     contract |-> applied - Least(applied, account.penalty)]

\* Mutant: all of a payment comes off the contract, what the penalty took of it included.
AfterWhole(sum) == [contract |-> account.contract - (sum.contract + sum.penalty),
                    penalty |-> Minus(account.penalty, sum.penalty)]

\* The balances a payment or an adjustment leaves.
After(sum) == [contract |-> Minus(account.contract, sum.contract),
               penalty |-> Minus(account.penalty, sum.penalty)]

\* A plan is published for what is left to plan, or the future plan is withdrawn.
Replanned(balances) == IF Owing(Future(balances)) THEN "published" ELSE "withdrawn"

Room == account.version < MaxVersion

-----------------------------------------------------------------------------
(* What else moves the account                                             *)

\* disburseAdvance on an open obligation.
DisburseTopUp ==
    /\ Room /\ ~account.settled
    /\ Record("DISBURSED", [Current EXCEPT !.contract = @ + 1], "published")
    /\ UNCHANGED <<row, month, tenures, seen, work>>

\* The month's row of the current plan becomes official; the version stays.
SubmitMonth ==
    /\ month < MaxMonth /\ row = NoRow /\ ~account.settled /\ account.planned
    /\ LET contract == Least(1, account.contract)
       IN row' = [due |-> contract + account.penalty,
                  contract |-> contract, penalty |-> account.penalty]
    /\ month' = month + 1
    /\ UNCHANGED <<account, tenures, seen, work>>

\* A month passes without a schedule.
MonthTurns ==
    /\ month < MaxMonth
    /\ month' = month + 1
    /\ UNCHANGED <<account, row, tenures, seen, work>>

\* applyPayrollPayment on the official row, in part or in full; no plan is published.
PayrollPayment(amount) ==
    /\ Room /\ amount <= row.due
    /\ LET sum == Taken(Least(amount, account.contract + account.penalty))
       IN /\ Record("RECEIVED", After(sum), "kept")
          /\ row' = IF amount = row.due THEN NoRow
                    ELSE [due |-> row.due - amount,
                          contract |-> Minus(row.contract, sum.contract),
                          penalty |-> Minus(row.penalty, sum.penalty)]
    /\ UNCHANGED <<month, tenures, seen, work>>

\* closeRepaymentPeriod on the row left short.
DefaultRow ==
    /\ Room /\ row # NoRow
    /\ LET balances == [Current EXCEPT !.penalty = @ + row.due * PenaltyRate]
       IN Record("DEFAULTED", balances, IF Owing(balances) THEN "published" ELSE "kept")
    /\ row' = NoRow
    /\ UNCHANGED <<month, tenures, seen, work>>

-----------------------------------------------------------------------------
(* Penalty adjustments                                                     *)

\* getByBorrower: the admin reads the account, its penalty and its version.
View ==
    /\ account.penalty > 0
    /\ seen' = [version |-> account.version, balances |-> Current]
    /\ seen # seen'
    /\ UNCHANGED <<ledger, tenures, work>>

\* adjustPenalty, waiver or reversal: refused when the version has moved, when it
\* exceeds the penalty, and when the penalty is in an official row.
AdjustPenalty(amount) ==
    /\ Room /\ amount > 0
    /\ seen.version = account.version
    /\ amount <= account.penalty /\ row.penalty = 0
    /\ LET balances == After([contract |-> 0, penalty |-> amount])
       IN Record("ADJUSTED", balances, Replanned(balances))
    /\ UNCHANGED <<row, month, tenures, seen, work>>

-----------------------------------------------------------------------------
(* Tenure changes                                                          *)

Pending == {t \in Requests : tenures[t].step = "PENDING"}

\* previewTenureChange: the obligation and the first open month.  The version the
\* marketer viewed has to be this one.
Preview(t) ==
    /\ tenures[t].step = "none"
    /\ ~account.settled /\ account.planned
    /\ tenures' = [tenures EXCEPT ![t] =
          [NoTenure EXCEPT !.step = "previewed", !.version = account.version,
                           !.month = month, !.balances = Current]]
    /\ UNCHANGED <<ledger, seen, work>>

\* ... the official rows before that month, and the price.
Price(t) ==
    /\ tenures[t].step = "previewed"
    /\ Owing(Future(tenures[t].balances))
    /\ tenures' = [tenures EXCEPT ![t].step = "priced",
                                  ![t].proposed = Future(tenures[t].balances)]
    /\ UNCHANGED <<ledger, seen, work>>

Withdraw(t) == tenures' = [tenures EXCEPT ![t] = NoTenure]

NothingToPlan(t) ==
    /\ tenures[t].step = "previewed" /\ ~Owing(Future(tenures[t].balances))
    /\ Withdraw(t)
    /\ UNCHANGED <<ledger, seen, work>>

\* requestTenureChange looks for a pending request, and creates its own later.
CheckPending(t) ==
    /\ tenures[t].step = "priced"
    /\ IF Pending = {} THEN tenures' = [tenures EXCEPT ![t].step = "clear"] ELSE Withdraw(t)
    /\ UNCHANGED <<ledger, seen, work>>

CreateRequest(t) ==
    /\ tenures[t].step = "clear"
    /\ tenures' = [tenures EXCEPT ![t].step = "PENDING"]
    /\ UNCHANGED <<ledger, seen, work>>

Publish(t) ==
    /\ Record("TENURE", Current, "published")
    /\ tenures' = [tenures EXCEPT ![t].step = "APPROVED", ![t].published = Future(Current)]
    /\ UNCHANGED <<row, month, seen, work>>

\* Mutant: the contract that is left to plan is compared, not the version.
ApproveByBalance(t) ==
    /\ tenures[t].step = "PENDING"
    /\ tenures[t].month = month
    /\ Future(Current).contract = tenures[t].proposed.contract
    /\ Publish(t)

\* approveTenureChange, in one transaction.
ApproveTenureChange(t) ==
    /\ tenures[t].step = "PENDING"
    /\ tenures[t].version = account.version
    /\ tenures[t].month = month
    /\ Future(Current).contract = tenures[t].proposed.contract
    /\ Publish(t)

\* Of a request whose plan never was published no more is looked at.
Rejected(request) ==
    IF Owing(request.published) THEN [request EXCEPT !.step = "REJECTED", !.rejecting = FALSE]
    ELSE [NoTenure EXCEPT !.step = "REJECTED"]

\* rejectTenureChange reads the status and writes without it.
ReadForRejection(t) ==
    /\ tenures[t].step = "PENDING" /\ ~tenures[t].rejecting
    /\ tenures' = [tenures EXCEPT ![t].rejecting = TRUE]
    /\ UNCHANGED <<ledger, seen, work>>

RejectTenureChange(t) ==
    /\ tenures[t].rejecting
    /\ tenures' = [tenures EXCEPT ![t] = Rejected(@)]
    /\ UNCHANGED <<ledger, seen, work>>

-----------------------------------------------------------------------------
(* Liquidations and manual resolutions                                     *)

Others == <<account, row, month, tenures, seen>>

RequestLiquidation ==
    /\ cases[Liquidation] = "NONE"
    /\ cases' = [cases EXCEPT ![Liquidation] = "PENDING"]
    /\ UNCHANGED <<Others, receipts, taken, decisions, faults>>

To(d, step) == decisions' = [decisions EXCEPT ![d] =
                                IF step = "done" THEN Over ELSE [@ EXCEPT !.step = step]]

\* acceptLiquidationRequest and rejectLiqudationRequest look at the status first ...
ReadRequest(d, accept) ==
    /\ decisions[d].step = "none" /\ cases[Liquidation] = "PENDING"
    /\ decisions' = [decisions EXCEPT ![d] =
                        [case |-> Liquidation, accept |-> accept, step |-> "read"]]
    /\ UNCHANGED <<Others, cases, receipts, taken, faults>>

\* ... and write without it; a job is queued, and the queue may hold it for any time.
WriteRequest(d) ==
    /\ decisions[d].step = "read"
    /\ cases' = [cases EXCEPT ![Liquidation] =
                    IF decisions[d].accept THEN "REVIEWING" ELSE "REJECTED"]
    /\ To(d, IF decisions[d].accept THEN "queued" ELSE "done")
    /\ UNCHANGED <<Others, receipts, taken, faults>>

\* manuallyResolveRepayment looks at the status and queues a job; the status stays.
Resolve(d, c) ==
    /\ decisions[d].step = "none" /\ cases[c] = "MANUAL_RESOLUTION"
    /\ decisions' = [decisions EXCEPT ![d] = [case |-> c, accept |-> TRUE, step |-> "queued"]]
    /\ UNCHANGED <<Others, cases, receipts, taken, faults>>

Applied(d) == To(d, IF decisions[d].case = Liquidation THEN "applied" ELSE "done")

\* handleRepaymentOverflow passes over a repayment resolved already.
SkipResolved(d) ==
    /\ decisions[d].step = "queued"
    /\ cases[decisions[d].case] = "FULFILLED"
    /\ To(d, "done")
    /\ UNCHANGED <<Others, cases, receipts, taken, faults>>

\* The repayment the payment is for.
Fulfil(c) == cases' = IF c = Liquidation THEN cases ELSE [cases EXCEPT ![c] = "FULFILLED"]

\* applyUnscheduledPayment with the case's own key, and the repayment it fulfils.
Apply(d) ==
    LET c == decisions[d].case
        applied == Least(Amount[c], account.contract + account.penalty)
        sum == Taken(applied)
    IN /\ decisions[d].step = "queued" /\ cases[c] # "FULFILLED"
       /\ c \notin receipts
       /\ Record("RECEIVED", After(sum), Replanned(After(sum)))
       /\ receipts' = receipts \cup {c}
       /\ taken' = [taken EXCEPT ![c] = @ + applied]
       /\ Fulfil(c)
       /\ Applied(d)
       /\ UNCHANGED <<row, month, tenures, seen, faults>>

\* Mutant: a receipt that is there already is applied once more.
ApplyAgain(d) ==
    LET c == decisions[d].case
        applied == Least(Amount[c], account.contract + account.penalty)
        sum == Taken(applied)
    IN /\ decisions[d].step = "queued" /\ cases[c] # "FULFILLED" /\ c \in receipts
       /\ Record("RECEIVED", After(sum), Replanned(After(sum)))
       /\ taken' = [taken EXCEPT ![c] = @ + applied]
       /\ Applied(d)
       /\ UNCHANGED <<row, month, tenures, seen, cases, receipts, faults>>

SkipDuplicate(d) ==
    /\ decisions[d].step = "queued" /\ cases[decisions[d].case] # "FULFILLED"
    /\ decisions[d].case \in receipts
    /\ Applied(d)
    /\ UNCHANGED <<Others, cases, receipts, taken, faults>>

Decide(d, status) == cases' = [cases EXCEPT ![decisions[d].case] = status]

\* The counters, which are left out here, are topped up for a duplicate too.
MarkApproved(d) ==
    /\ decisions[d].step = "applied" /\ decisions[d].case = Liquidation
    /\ Decide(d, "APPROVED") /\ To(d, "marked")
    /\ UNCHANGED <<Others, receipts, taken, faults>>

Notify(d) ==
    /\ decisions[d].step = "marked"
    /\ To(d, "done")
    /\ UNCHANGED <<Others, cases, receipts, taken, faults>>

AtWork(d) == decisions[d].step \in {"queued", "applied", "marked"}

\* A call of the job fails, after the payment too: handleLiquidationRequest catches
\* what is thrown and rejects the request.
CallFails(d) ==
    /\ AtWork(d) /\ faults < MaxFaults
    /\ faults' = faults + 1
    /\ cases' = IF decisions[d].case = Liquidation
                THEN [cases EXCEPT ![Liquidation] = "REJECTED"] ELSE cases
    /\ To(d, "done")
    /\ UNCHANGED <<Others, receipts, taken>>

\* The worker dies, and the job is run from its start.
RunAgain(d) ==
    /\ decisions[d].step \in {"applied", "marked"} /\ faults < MaxFaults
    /\ faults' = faults + 1
    /\ To(d, "queued")
    /\ UNCHANGED <<Others, cases, receipts, taken>>

\* The job is lost: the queue does not take it, or its worker dies for good.
Lose(d) ==
    /\ AtWork(d) /\ faults < MaxFaults
    /\ faults' = faults + 1
    /\ To(d, "done")
    /\ UNCHANGED <<Others, cases, receipts, taken>>

-----------------------------------------------------------------------------
Init ==
    /\ account = [contract |-> Debt, penalty |-> Penalty, settled |-> FALSE,
                  version |-> 4, planned |-> TRUE]
    /\ row = NoRow /\ month = 0
    /\ tenures = [t \in Requests |-> NoTenure]
    /\ seen = [version |-> 0, balances |-> [contract |-> 0, penalty |-> 0]]
    /\ cases = [c \in Cases |-> IF c = Liquidation THEN "NONE" ELSE "MANUAL_RESOLUTION"]
    /\ receipts = {} /\ taken = [c \in Cases |-> 0]
    /\ decisions = [d \in Deciders |-> [case |-> "none", accept |-> FALSE, step |-> "none"]]
    /\ faults = 0

Next ==
    \/ DisburseTopUp \/ SubmitMonth \/ MonthTurns \/ DefaultRow
    \/ \E amount \in 1 .. row.due : PayrollPayment(amount)
    \/ View \/ \E amount \in 1 .. account.penalty : AdjustPenalty(amount)
    \/ \E t \in Requests :
          \/ Preview(t) \/ Price(t) \/ NothingToPlan(t) \/ CheckPending(t) \/ CreateRequest(t)
          \/ ApproveTenureChange(t) \/ ReadForRejection(t) \/ RejectTenureChange(t)
    \/ RequestLiquidation
    \/ \E d \in Deciders :
          \/ \E accept \in BOOLEAN : ReadRequest(d, accept)
          \/ \E c \in Cases : Resolve(d, c)
          \/ WriteRequest(d) \/ SkipResolved(d) \/ Apply(d) \/ SkipDuplicate(d)
          \/ MarkApproved(d) \/ Notify(d) \/ CallFails(d) \/ RunAgain(d) \/ Lose(d)

Spec == Init /\ [][Next]_vars
-----------------------------------------------------------------------------
(* Properties                                                              *)

\* Every variable keeps its shape: months and faults stay in their bounds.
TypeOK ==
    /\ account \in [contract : Nat, penalty : Nat, settled : BOOLEAN,
                    version : Nat, planned : BOOLEAN]
    /\ row \in [due : Nat, contract : Nat, penalty : Nat]
    /\ month \in 0 .. MaxMonth
    /\ tenures \in [Requests -> Tenure]
    /\ seen \in [version : Nat, balances : Balances]
    /\ cases \in [Cases -> CaseStatus] /\ receipts \subseteq Cases /\ taken \in [Cases -> Nat]
    /\ decisions \in [Deciders -> Decision] /\ faults \in 0 .. MaxFaults

(***************************************************************************)
(* What optimistic locking rests on: two looks at the account with the     *)
(* same version saw the same balances.  An admin who adjusts the penalty   *)
(* and a marketer who prices a tenure change see the account as it is, or  *)
(* are refused.                                                            *)
(***************************************************************************)
VersionsNameBalances ==
    /\ seen.version = account.version => seen.balances = Current
    /\ \A t \in Requests :
          /\ tenures[t].version > 0 /\ tenures[t].version = account.version =>
                tenures[t].balances = Current
          /\ tenures[t].version > 0 /\ tenures[t].version = seen.version =>
                tenures[t].balances = seen.balances

(***************************************************************************)
(* A tenure change is published over the very balances it was priced on,   *)
(* though the price is put together from two reads, the request is stored  *)
(* later, and the months, the account and competing requests move in       *)
(* between; of the requests made at one version at most one is published.  *)
(***************************************************************************)
PublishedAsProposed ==
    \A t \in Requests :
        Owing(tenures[t].published) =>
            /\ tenures[t].published = tenures[t].proposed
            /\ \A u \in Requests \ {t} :
                  Owing(tenures[u].published) => tenures[u].version # tenures[t].version

(***************************************************************************)
(* A case takes money off the account once, and no more than it brought,   *)
(* however many staff decide it and however often its jobs run; it says    *)
(* APPROVED or FULFILLED only when it did, PENDING only while it did not.  *)
(* (REJECTED promises nothing: a call that fails after the payment rejects *)
(* a liquidation that has been applied.)                                   *)
(***************************************************************************)
CasesTakeMoneyOnce ==
    \A c \in Cases :
        /\ taken[c] <= Amount[c]
        /\ cases[c] \in {"APPROVED", "FULFILLED"} => c \in receipts
        /\ cases[c] \in {"NONE", "PENDING", "MANUAL_RESOLUTION"} => c \notin receipts
=============================================================================
