---------------------------- MODULE PayrollUpload ----------------------------
(***************************************************************************)
(* Payroll results: the files payroll sends back, the upload jobs that     *)
(* apply them row by row, and the jobs that close a month.  Requests check *)
(* LAST_REPAYMENT_DATE when they are made, jobs run later, several at      *)
(* once, and each row is a transaction of its own.  A job keeps its        *)
(* statistics in memory until its end; a job whose worker dies is run      *)
(* again from the start with empty statistics, or given up.                *)
(*                                                                         *)
(* The months in play are official: a revised plan leaves their rows alone *)
(* and affects later months (RepaymentObligation.PublishedRowsStand), so a *)
(* row's expected amount is a constant.  Debt and penalty of a borrower    *)
(* are one balance; RepaymentObligation tells them apart.                  *)
(***************************************************************************)
EXTENDS Naturals, Sequences, FiniteSets, FiniteSetsExt

CONSTANTS
    Staff,        \* borrowers, by the externalId of their payroll record
    Files,        \* the files payroll may send, told apart by their hash
    Content,      \* for each file its rows: [staff, period, amount]
    Due,          \* for each borrower and month the row's totalExpected, 0 if none
    Debt,         \* what each borrower owes at first
    PenaltyRate,
    Slots,        \* bound: requests, numbered in the order they are made
    MaxDeaths     \* bound: deaths of a worker

Rows == {r \in DOMAIN Due : Due[r] > 0}
Periods == {r[2] : r \in DOMAIN Due}

ASSUME UploadConstants ==
    /\ IsFiniteSet(Staff) /\ IsFiniteSet(Files) /\ IsFiniteSet(DOMAIN Due)
    /\ DOMAIN Due \subseteq Staff \X (Nat \ {0}) /\ \A r \in DOMAIN Due : Due[r] \in Nat
    /\ Debt \in [Staff -> Nat] /\ DOMAIN Content = Files
    /\ \A f \in Files :
          /\ Len(Content[f]) \in Nat /\ DOMAIN Content[f] = 1 .. Len(Content[f])
          /\ \A i \in DOMAIN Content[f] :
                Content[f][i].period \in Nat /\ Content[f][i].amount \in Nat
    /\ PenaltyRate \in Nat /\ Slots \in Nat /\ MaxDeaths \in Nat

VARIABLES
    last,        \* LAST_REPAYMENT_DATE, 0 before the first close
    rows,        \* RepaymentInstallment rows of the official months
    accounts,    \* RepaymentObligation of each borrower
    receipts,    \* PaymentReceipt by idempotencyKey, a row of a file
    records,     \* Repayment rows that mirror the installments: status, repaidAmount
    manual,      \* MANUAL_RESOLUTION repayments made for a row of a file
    uploads,     \* hashes in RepaymentUpload
    jobs,        \* a request and the job it queues
    counters,    \* TOTAL_REPAID and BALANCE_OUTSTANDING
    deaths

vars == <<last, rows, accounts, receipts, records, manual, uploads, jobs, counters, deaths>>
books == <<rows, accounts, receipts, records, manual>>

Keys == UNION {{f} \X DOMAIN Content[f] : f \in Files}

RecordStatus == {"NONE", "AWAITING", "PARTIAL", "FULFILLED", "FAILED"}

Job ==
    [kind : {"none", "upload", "close"},
     file : Files \cup {"none"}, period : Nat,
     step : {"queued", "started", "creating", "applying", "closing", "posting", "marking",
             "done", "skipped", "failed"},
     row : Nat,                              \* next row of the file
     todo : SUBSET Rows,                     \* expectations to create, rows to close
     gain : Nat,                             \* batchStats.totalRepaid, totalPenalty
     posting : SUBSET {"repaid", "outstanding"},
     unrecorded : BOOLEAN]                   \* its upload is not in RepaymentUpload yet

NoJob == [kind |-> "none", file |-> "none", period |-> 0, step |-> "done", row |-> 0,
          todo |-> {}, gain |-> 0, posting |-> {}, unrecorded |-> FALSE]

Running == {j \in 1 .. Slots : jobs[j].step \notin {"done", "skipped", "failed"}}

-----------------------------------------------------------------------------
(* Requests                                                                *)

\* extractRepaymentPeriod: rows without a period are passed over.
PeriodsNamed(f) == {Content[f][i].period : i \in DOMAIN Content[f]} \ {0}

\* The next free slot.
Free(j) == jobs[j].kind = "none" /\ \A k \in 1 .. j - 1 : jobs[k].kind # "none"

\* uploadRepaymentDocument up to the queue; the upload is recorded after that.
RequestUpload(j, f) ==
    /\ Free(j)
    /\ f \notin uploads
    /\ Cardinality(PeriodsNamed(f)) = 1
    /\ \E p \in PeriodsNamed(f) :
          /\ p > last
          /\ jobs' = [jobs EXCEPT ![j] = [NoJob EXCEPT
                !.kind = "upload", !.file = f, !.period = p, !.step = "queued",
                !.unrecorded = TRUE]]
    /\ UNCHANGED <<last, books, uploads, counters, deaths>>

\* fileHash is unique: of two requests for one file the second to get here is refused,
\* with its job in the queue.
RecordUpload(j) ==
    /\ jobs[j].unrecorded
    /\ jobs' = [jobs EXCEPT ![j].unrecorded = FALSE]
    /\ uploads' = uploads \cup {jobs[j].file}
    /\ UNCHANGED <<last, books, counters, deaths>>

\* AdminService.closeRepaymentPeriod.
RequestClose(j, p) ==
    /\ Free(j)
    /\ p > last
    /\ jobs' = [jobs EXCEPT ![j] = [NoJob EXCEPT
          !.kind = "close", !.period = p, !.step = "queued"]]
    /\ UNCHANGED <<last, books, uploads, counters, deaths>>

-----------------------------------------------------------------------------
(* handleIPPISrepayment                                                    *)

\* A job that has ended keeps what was asked of it.
Ended(job, step) ==
    [job EXCEPT !.step = step, !.row = 0, !.todo = {}, !.gain = 0, !.posting = {}]

End(j, step) == jobs' = [jobs EXCEPT ![j] = Ended(@, step)]

\* A worker that died: the job is run from its start.
Restart(job) == Ended(job, "queued")

Fail(j) == End(j, "failed") /\ UNCHANGED <<last, books, uploads, counters, deaths>>

Unpaid(r) == rows[r].paid < Due[r]
Payable(r) == ~rows[r].closed /\ Unpaid(r)

StartUpload(j) ==
    /\ jobs[j].kind = "upload" /\ jobs[j].step = "queued"
    /\ IF last = jobs[j].period THEN End(j, "skipped")
       ELSE jobs' = [jobs EXCEPT ![j].step = "started"]
    /\ UNCHANGED <<last, books, uploads, counters, deaths>>

\* createCompatibilityExpectations looks for rows without a Repayment, closed PARTIAL
\* rows among them, and creates what was missing in a second call.
ListExpectations(j) ==
    /\ jobs[j].step = "started"
    /\ jobs' = [jobs EXCEPT ![j].step = "creating",
          ![j].todo = {r \in Rows :
              /\ r[2] = jobs[j].period /\ Unpaid(r) /\ ~accounts[r[1]].settled
              /\ rows[r].closed => rows[r].paid > 0
              /\ records[r].status = "NONE"}]
    /\ UNCHANGED <<last, books, uploads, counters, deaths>>

CreateExpectations(j) ==
    /\ jobs[j].step = "creating"
    /\ records' = [r \in Rows |->
          IF r \in jobs[j].todo /\ records[r].status = "NONE"
          THEN [status |-> "AWAITING", repaid |-> 0] ELSE records[r]]
    /\ jobs' = [jobs EXCEPT ![j].step = "applying", ![j].row = 1, ![j].todo = {}]
    /\ UNCHANGED <<last, rows, accounts, receipts, manual, uploads, counters, deaths>>

Least(m, n) == IF m <= n THEN m ELSE n

\* The row job j has come to, and its key.
Entry(j) == Content[jobs[j].file][jobs[j].row]
Key(j) == <<jobs[j].file, jobs[j].row>>
Target(j) == <<Entry(j).staff, jobs[j].period>>

AtRow(j) == jobs[j].step = "applying" /\ jobs[j].row \in DOMAIN Content[jobs[j].file]

NextRow(j, gain) == jobs' = [jobs EXCEPT ![j].row = @ + 1, ![j].gain = @ + gain]

SkipEmptyRow(j) ==
    /\ AtRow(j) /\ Entry(j).amount = 0
    /\ NextRow(j, 0)
    /\ UNCHANGED <<last, books, uploads, counters, deaths>>

UnknownStaff(j) ==
    /\ AtRow(j) /\ Entry(j).amount > 0 /\ Entry(j).staff \notin Staff
    /\ manual' = [manual EXCEPT ![Key(j)] = @ + 1]
    /\ NextRow(j, 0)
    /\ UNCHANGED <<last, rows, accounts, receipts, records, uploads, counters, deaths>>

OfStaff(j) == AtRow(j) /\ Entry(j).amount > 0 /\ Entry(j).staff \in Staff

\* The obligation is looked for before the receipt: an open one, or one with a row to pay.
ObligationFound(j) ==
    \/ ~accounts[Entry(j).staff].settled
    \/ Target(j) \in Rows /\ Payable(Target(j))

\* Mutant: what a receipt applied is counted again.
CountDuplicate(j) ==
    /\ OfStaff(j) /\ ObligationFound(j) /\ Key(j) \in DOMAIN receipts
    /\ NextRow(j, receipts[Key(j)].applied)
    /\ UNCHANGED <<last, books, uploads, counters, deaths>>

SkipDuplicate(j) ==
    /\ OfStaff(j) /\ ObligationFound(j) /\ Key(j) \in DOMAIN receipts
    /\ NextRow(j, 0)
    /\ UNCHANGED <<last, books, uploads, counters, deaths>>

\* Mutant: the job is queued again for a row that throws.
RowRequeues(j) ==
    /\ OfStaff(j)
    /\ \/ ~ObligationFound(j)
       \/ Key(j) \notin DOMAIN receipts /\ (Target(j) \notin Rows \/ ~Payable(Target(j)))
    /\ jobs' = [jobs EXCEPT ![j] = Restart(@)]
    /\ UNCHANGED <<last, books, uploads, counters, deaths>>

\* Mutant: a row that throws is logged and left.
RowSkipped(j) ==
    /\ OfStaff(j)
    /\ \/ ~ObligationFound(j)
       \/ Key(j) \notin DOMAIN receipts /\ (Target(j) \notin Rows \/ ~Payable(Target(j)))
    /\ NextRow(j, 0)
    /\ UNCHANGED <<last, books, uploads, counters, deaths>>

\* NotFoundException leaves the loop, and the statistics are lost.
RowThrows(j) ==
    /\ OfStaff(j)
    /\ \/ ~ObligationFound(j)
       \/ Key(j) \notin DOMAIN receipts /\ (Target(j) \notin Rows \/ ~Payable(Target(j)))
    /\ Fail(j)

\* Mutant: what the row expects is applied, more than is owed perhaps.
ReceivedUncapped(j) ==
    LET r == Target(j)
        against == Least(Entry(j).amount, Due[r] - rows[r].paid)
    IN [against |-> against, applied |-> against]

Received(j) ==
    LET r == Target(j)
        against == Least(Entry(j).amount, Due[r] - rows[r].paid)
    IN [against |-> against, applied |-> Least(against, accounts[Entry(j).staff].owed)]

\* Mutant: the mirror is FULFILLED by any payment.
ApplyAndFulfil(j) ==
    LET r == Target(j)
        receipt == Received(j)
        owed == accounts[r[1]].owed - receipt.applied
    IN /\ OfStaff(j) /\ r \in Rows /\ Payable(r) /\ Key(j) \notin DOMAIN receipts
       /\ rows' = [rows EXCEPT ![r].paid = @ + receipt.against]
       /\ accounts' = [accounts EXCEPT ![r[1]].owed = owed,
                                       ![r[1]].settled = @ \/ owed = 0]
       /\ receipts' = [k \in DOMAIN receipts \cup {Key(j)} |->
                          IF k = Key(j) THEN receipt ELSE receipts[k]]
       /\ records' = [records EXCEPT ![r] = IF @.status = "NONE" THEN @ ELSE
                          [status |-> "FULFILLED", repaid |-> rows[r].paid + receipt.against]]
       /\ NextRow(j, receipt.applied)
       /\ UNCHANGED <<last, manual, uploads, counters, deaths>>

\* The transaction of applyPayrollPayment.
ApplyPayrollPayment(j) ==
    LET r == Target(j)
        receipt == Received(j)
        paid == rows[r].paid + receipt.against
        owed == accounts[r[1]].owed - receipt.applied
    IN /\ OfStaff(j) /\ r \in Rows /\ Payable(r) /\ Key(j) \notin DOMAIN receipts
       /\ rows' = [rows EXCEPT ![r].paid = paid]
       /\ accounts' = [accounts EXCEPT ![r[1]].owed = owed,
                                       ![r[1]].settled = @ \/ owed = 0]
       /\ receipts' = [k \in DOMAIN receipts \cup {Key(j)} |->
                          IF k = Key(j) THEN receipt ELSE receipts[k]]
       /\ records' = [records EXCEPT ![r] = IF @.status = "NONE" THEN @ ELSE
                          [status |-> IF paid = Due[r] THEN "FULFILLED" ELSE "PARTIAL",
                           repaid |-> paid]]
       /\ NextRow(j, receipt.applied)
       /\ UNCHANGED <<last, manual, uploads, counters, deaths>>

EndOfFile(j) ==
    /\ jobs[j].step = "applying" /\ jobs[j].row \notin DOMAIN Content[jobs[j].file]
    /\ IF jobs[j].gain = 0 THEN End(j, "done")
       ELSE jobs' = [jobs EXCEPT ![j].step = "posting", ![j].row = 0,
                                 ![j].posting = {"repaid", "outstanding"}]
    /\ UNCHANGED <<last, books, uploads, counters, deaths>>

-----------------------------------------------------------------------------
(* handleCloseRepaymentPeriod                                              *)

\* Mutant: a row with a payment on it is left out.
ListUnpaidRows(j) ==
    /\ jobs[j].kind = "close" /\ jobs[j].step = "queued"
    /\ jobs' = [jobs EXCEPT ![j].step = "closing",
          ![j].todo = {r \in Rows : r[2] = jobs[j].period /\ Payable(r) /\ rows[r].paid = 0}]
    /\ UNCHANGED <<last, books, uploads, counters, deaths>>

ListOpenRows(j) ==
    /\ jobs[j].kind = "close" /\ jobs[j].step = "queued"
    /\ jobs' = [jobs EXCEPT ![j].step = "closing",
          ![j].todo = {r \in Rows : r[2] = jobs[j].period /\ Payable(r)}]
    /\ UNCHANGED <<last, books, uploads, counters, deaths>>

Shortfall(r) == Due[r] - rows[r].paid

\* A row paid off since it was listed is closed as PAID.
ClosePaidRow(j, r) ==
    /\ jobs[j].step = "closing" /\ r \in jobs[j].todo /\ Shortfall(r) = 0
    /\ rows' = [rows EXCEPT ![r].closed = TRUE]
    /\ jobs' = [jobs EXCEPT ![j].todo = @ \ {r}]
    /\ UNCHANGED <<last, accounts, receipts, records, manual, uploads, counters, deaths>>

\* The default's event is unique: another job that closed the row since makes this one throw.
CloseThrows(j, r) ==
    /\ jobs[j].step = "closing" /\ r \in jobs[j].todo
    /\ Shortfall(r) > 0 /\ rows[r].closed
    /\ Fail(j)

Default(j, r) ==
    LET penalty == Shortfall(r) * PenaltyRate IN
    /\ rows' = [rows EXCEPT ![r].closed = TRUE]
    /\ accounts' = [accounts EXCEPT ![r[1]].owed = @ + penalty]
    /\ records' = [records EXCEPT ![r].status =
                      IF @ = "NONE" THEN @ ELSE IF rows[r].paid > 0 THEN "PARTIAL" ELSE "FAILED"]
    /\ jobs' = [jobs EXCEPT ![j].todo = @ \ {r}, ![j].gain = @ + penalty]
    /\ UNCHANGED <<last, receipts, manual, uploads, counters, deaths>>

\* Mutant: the default's event has no key of its own, a listed row is charged.
DefaultListedRow(j, r) ==
    /\ jobs[j].step = "closing" /\ r \in jobs[j].todo /\ Shortfall(r) > 0
    /\ Default(j, r)

DefaultRow(j, r) ==
    /\ jobs[j].step = "closing" /\ r \in jobs[j].todo
    /\ Shortfall(r) > 0 /\ ~rows[r].closed
    /\ Default(j, r)

EndOfList(j) ==
    /\ jobs[j].step = "closing" /\ jobs[j].todo = {}
    /\ IF jobs[j].gain = 0 THEN jobs' = [jobs EXCEPT ![j].step = "marking"]
       ELSE jobs' = [jobs EXCEPT ![j].step = "posting", ![j].posting = {"outstanding"}]
    /\ UNCHANGED <<last, books, uploads, counters, deaths>>

\* setRecentProcessedRepayment, whatever was closed meanwhile.
Mark(j) ==
    /\ jobs[j].step = "marking"
    /\ last' = jobs[j].period
    /\ End(j, "done")
    /\ UNCHANGED <<books, uploads, counters, deaths>>

-----------------------------------------------------------------------------
(* The counters, one statement each                                        *)

Posted(j, name) ==
    LET rest == jobs[j].posting \ {name} IN
    jobs' = [jobs EXCEPT ![j] =
        IF rest # {} THEN [@ EXCEPT !.posting = rest]
        ELSE IF @.kind = "close" THEN [Ended(@, "marking") EXCEPT !.step = "marking"]
        ELSE Ended(@, "done")]

\* topupValue.
PostRepaid(j) ==
    /\ "repaid" \in jobs[j].posting
    /\ counters' = [counters EXCEPT !.repaid = @ + jobs[j].gain]
    /\ Posted(j, "repaid")
    /\ UNCHANGED <<last, books, uploads, deaths>>

\* depleteValue stops at zero.
PostOutstanding(j) ==
    /\ "outstanding" \in jobs[j].posting
    /\ counters' = [counters EXCEPT !.outstanding =
          IF jobs[j].kind = "close" THEN @ + jobs[j].gain ELSE @ - Least(@, jobs[j].gain)]
    /\ Posted(j, "outstanding")
    /\ UNCHANGED <<last, books, uploads, deaths>>

-----------------------------------------------------------------------------
(* What borrowers and administrators are shown of the mirrored rows        *)

Recorded(status) == {r \in Rows : records[r].status \in status}
Flagged == {"FAILED", "PARTIAL"}

\* buildRepaymentWhere: a status or none, the months from first to last, paid at least atLeast.
RepaymentWhere(status, first, until, atLeast) ==
    {r \in Recorded(IF status = "any" THEN RecordStatus \ {"NONE"} ELSE {status}) :
        first <= r[2] /\ r[2] <= until /\ records[r].repaid >= atLeast}

RepaymentLine(r) == [row |-> r, expected |-> Due[r], repaid |-> records[r].repaid,
            status |-> records[r].status]

\* getAllRepayments, which lists rows to resolve too: nothing is repaid on those.
AllRepayments(status, first, until, atLeast) ==
    {RepaymentLine(r) : r \in RepaymentWhere(status, first, until, atLeast)}

OfBorrower(s) == {r \in Recorded(RecordStatus \ {"NONE"}) : r[1] = s}

\* getRepaymentHistory; a status it does not know is no filter.
RepaymentHistory(s, status) ==
    {RepaymentLine(r) : r \in {q \in OfBorrower(s) :
        status \in RecordStatus \ {"NONE"} => records[q].status = status}}

RepaymentOverview(s) ==
    LET own == OfBorrower(s) IN
    [count |-> Cardinality(own),
     flagged |-> Cardinality(own \cap Recorded(Flagged)),
     lastRepayment |-> {RepaymentLine(r) : r \in {q \in own : \A o \in own : o[2] <= q[2]}}]

YearlySummary(s) ==
    [p \in {r[2] : r \in OfBorrower(s)} |->
        SumFunction([r \in {q \in OfBorrower(s) : q[2] = p} |-> records[r].repaid])]

RepaidInPeriod(first, until) ==
    SumFunction([r \in RepaymentWhere("any", first, until, 0) |-> records[r].repaid])

\* RepaymentsService.overview.
Overview ==
    [overdue |-> SumFunction([r \in Recorded(Flagged) |-> Due[r] - records[r].repaid]),
     underpaid |-> SumFunction([r \in Recorded({"PARTIAL"}) |-> Due[r]]),
     failed |-> SumFunction([r \in Recorded({"FAILED"}) |-> Due[r]]),
     totalRepaid |-> counters.repaid]

-----------------------------------------------------------------------------
\* The worker dies, or a call of the job (the database, the bucket, a notification) fails.
Interrupted(j) ==
    /\ j \in Running /\ jobs[j].step # "queued"
    /\ deaths < MaxDeaths
    /\ deaths' = deaths + 1
    /\ jobs' \in {[jobs EXCEPT ![j] = Restart(@)], [jobs EXCEPT ![j] = Ended(@, "failed")]}
    /\ UNCHANGED <<last, books, uploads, counters>>

Init ==
    /\ last = 0
    /\ rows = [r \in Rows |-> [paid |-> 0, closed |-> FALSE]]
    /\ accounts = [s \in Staff |-> [owed |-> Debt[s], settled |-> FALSE]]
    /\ receipts = <<>>
    /\ records = [r \in Rows |-> [status |-> "NONE", repaid |-> 0]]
    /\ manual = [k \in Keys |-> 0]
    /\ uploads = {}
    /\ jobs = [j \in 1 .. Slots |-> NoJob]
    /\ counters = [repaid |-> 0,
                   outstanding |-> SumFunction(Debt)]
    /\ deaths = 0

Work(j) ==
    \/ StartUpload(j) \/ ListExpectations(j) \/ CreateExpectations(j)
    \/ SkipEmptyRow(j) \/ UnknownStaff(j) \/ SkipDuplicate(j) \/ RowThrows(j)
    \/ ApplyPayrollPayment(j) \/ EndOfFile(j)
    \/ ListOpenRows(j)
    \/ \E r \in Rows : ClosePaidRow(j, r) \/ CloseThrows(j, r) \/ DefaultRow(j, r)
    \/ EndOfList(j) \/ Mark(j)
    \/ PostRepaid(j) \/ PostOutstanding(j)

Next ==
    \E j \in 1 .. Slots :
        \/ \E f \in Files : RequestUpload(j, f)
        \/ \E p \in Periods : RequestClose(j, p)
        \/ RecordUpload(j) \/ Work(j) \/ Interrupted(j)

\* The queue's workers run what is queued.
Spec == Init /\ [][Next]_vars /\ \A j \in 1 .. Slots : WF_vars(Work(j))
-----------------------------------------------------------------------------
(* Properties                                                              *)

\* Every variable keeps its shape, and balances and counters are never negative.
TypeOK ==
    /\ last \in Nat
    /\ rows \in [Rows -> [paid : Nat, closed : BOOLEAN]]
    /\ accounts \in [Staff -> [owed : Nat, settled : BOOLEAN]]
    /\ DOMAIN receipts \subseteq Keys
    /\ \A k \in DOMAIN receipts : receipts[k] \in [against : Nat, applied : Nat]
    /\ records \in [Rows -> [status : RecordStatus, repaid : Nat]]
    /\ manual \in [Keys -> Nat] /\ uploads \subseteq Files
    /\ jobs \in [1 .. Slots -> Job]
    /\ counters \in [repaid : Nat, outstanding : Nat] /\ deaths \in 0 .. MaxDeaths

\* The receipts of a row, and what its default charged.
ReceiptsOf(r) == {k \in DOMAIN receipts :
    Content[k[1]][k[2]].staff = r[1] /\ r[2] \in PeriodsNamed(k[1])}

Charged(r) == IF rows[r].closed THEN Shortfall(r) * PenaltyRate ELSE 0

(***************************************************************************)
(* Whatever uploads of one month, repeated files, closes and reruns        *)
(* interleave, the books follow the stored receipts: a row holds what its  *)
(* receipts brought and no more than it expected, and a borrower owes the  *)
(* debt, less what was applied, plus one penalty for each row that was     *)
(* closed short - short for good, so no payment reached it afterwards.     *)
(***************************************************************************)
BooksFollowReceipts ==
    /\ \A r \in Rows :
          /\ rows[r].paid = SumFunction([k \in ReceiptsOf(r) |-> receipts[k].against])
          /\ rows[r].paid <= Due[r]
    /\ \A s \in Staff :
          LET own == {r \in Rows : r[1] = s}
              applied == [k \in UNION {ReceiptsOf(r) : r \in own} |-> receipts[k].applied]
          IN accounts[s].owed + SumFunction(applied)
                = Debt[s] + SumFunction([r \in own |-> Charged(r)])

\* Jobs whose statistics a counter does not have yet.
Unposted(name, kind) ==
    {j \in Running : jobs[j].kind = kind /\ (jobs[j].step = "posting" => name \in jobs[j].posting)}

Statistics(set) == SumFunction([j \in set |-> jobs[j].gain])

(***************************************************************************)
(* TOTAL_REPAID never counts a payment twice, however often a job is run   *)
(* again; and when no job failed or was run again it counts every payment, *)
(* and BALANCE_OUTSTANDING is at least what the borrowers owe, and just    *)
(* that while payments are within the debt it started from.  Beyond that a *)
(* penalty may be paid before its close has posted it, and a counter that  *)
(* stops at zero stays too high.  Statistics are lost with their job, and  *)
(* only with it.                                                           *)
(***************************************************************************)
CountersFollowReceipts ==
    LET applied == SumFunction([k \in DOMAIN receipts |-> receipts[k].applied])
        counted == counters.repaid + Statistics(Unposted("repaid", "upload"))
        lossless == deaths = 0 /\ \A j \in 1 .. Slots : jobs[j].step # "failed"
        shown == counters.outstanding + Statistics(Unposted("outstanding", "close"))
        owed == SumFunction([s \in Staff |-> accounts[s].owed])
                    + Statistics(Unposted("outstanding", "upload"))
    IN /\ counted <= applied
       /\ lossless =>
            /\ counted = applied
            /\ shown >= owed
            /\ applied <= SumFunction(Debt) => shown = owed

(***************************************************************************)
(* A month whose close has finished, and the month the system calls        *)
(* closed, have no row left that takes a payment or could be charged,      *)
(* though the rows were listed before and uploads went on.                 *)
(***************************************************************************)
ClosedMonthsAreClosed ==
    \A r \in Rows :
        \/ r[2] = last
        \/ \E j \in 1 .. Slots :
              jobs[j].kind = "close" /\ jobs[j].period = r[2] /\ jobs[j].step \in {"marking", "done"}
        => ~Payable(r)

(***************************************************************************)
(* An upload that ends without an error has dealt with every row of the    *)
(* file that carries money: there is a receipt, or a repayment for someone *)
(* to resolve.  One that fails part way never looks finished.              *)
(***************************************************************************)
UploadsLeaveNoRowBehind ==
    \A j \in 1 .. Slots :
        jobs[j].kind = "upload" /\ jobs[j].step \in {"posting", "done"} =>
            \A i \in DOMAIN Content[jobs[j].file] :
                \/ Content[jobs[j].file][i].amount = 0
                \/ <<jobs[j].file, i>> \in DOMAIN receipts
                \/ manual[<<jobs[j].file, i>>] > 0

(***************************************************************************)
(* The Repayment rows people see claim no more than the books, though each *)
(* is created from a list read earlier and not updated by every step.  A   *)
(* borrower's history calls a row FULFILLED only when it is paid off,      *)
(* PARTIAL only between, FAILED only when it was closed without a payment, *)
(* and never shows more than was received; a month's total stays within    *)
(* the month's receipts; and the platform's overdue amount covers what is  *)
(* missing on every flagged row.  (They may claim less: a row created      *)
(* after its installment was paid off stays AWAITING at 0.)                *)
(***************************************************************************)
RecordsClaimNoMoreThanRows ==
    /\ \A s \in Staff :
          /\ \A shown \in RepaymentHistory(s, "any") :
                LET r == shown.row IN
                /\ shown.repaid <= rows[r].paid
                /\ shown.status = "FULFILLED" => ~Unpaid(r) /\ shown.repaid = Due[r]
                /\ shown.status = "PARTIAL" => rows[r].paid > 0 /\ Unpaid(r)
                /\ shown.status = "FAILED" => rows[r].closed /\ rows[r].paid = 0
          /\ RepaymentOverview(s).flagged
                <= Cardinality({r \in Rows : r[1] = s /\ Unpaid(r)})
          /\ \A shown \in RepaymentOverview(s).lastRepayment :
                shown.repaid = YearlySummary(s)[shown.row[2]]
    /\ \A p \in Periods :
          /\ RepaidInPeriod(p, p)
                <= SumFunction([k \in {q \in DOMAIN receipts : p \in PeriodsNamed(q[1])} |->
                                   receipts[k].against])
          /\ \A shown \in AllRepayments("FULFILLED", p, p, 0) : ~Unpaid(shown.row)
    /\ LET flagged == Recorded(Flagged) IN
       /\ Overview.overdue >= SumFunction([r \in flagged |-> Shortfall(r)])
       /\ Overview.overdue <= Overview.underpaid + Overview.failed

(***************************************************************************)
(* Every queued job ends: each run passes over its rows once, and a job is *)
(* not run again for ever.                                                 *)
(***************************************************************************)
JobsEnd == \A j \in 1 .. Slots : j \in Running ~> j \notin Running
=============================================================================
