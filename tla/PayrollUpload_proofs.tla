------------------------ MODULE PayrollUpload_proofs ------------------------
(***************************************************************************)
(* Proofs about PayrollUpload: its type invariant, that rows and balances  *)
(* are what the receipts make them, that counters lose statistics only     *)
(* with their job, that what was closed stays closed, that uploads deal    *)
(* with every row, and that the mirrored Repayment rows and the totals     *)
(* made of them claim no more than the books.  Each part of the inductive  *)
(* invariant is kept by the steps that touch it, and by the others         *)
(* because they leave its variables alone.                                 *)
(***************************************************************************)
EXTENDS PayrollUpload, FiniteSums_proofs

-----------------------------------------------------------------------------
(* The inductive invariant                                                 *)

\* What a job may be, by its kind and step.
JobFits(job) ==
    /\ job.kind = "none" => job.step = "done"
    /\ job.kind = "upload" => job.file \in Files /\ PeriodsNamed(job.file) = {job.period}
    /\ job.unrecorded => job.kind = "upload"
    /\ job.step \in {"started", "creating", "applying"} => job.kind = "upload"
    /\ job.step \in {"closing", "marking"} => job.kind = "close"
    /\ job.step = "applying" => job.row # 0
    /\ job.step \notin {"applying", "closing", "posting"} => job.gain = 0
    /\ job.posting # {} => job.step = "posting"
    /\ job.kind = "close" => "repaid" \notin job.posting

JobsFit == \A j \in 1 .. Slots : JobFits(jobs[j])

\* The Repayment row of an installment, by its status.
RecordFits(r) ==
    /\ records[r].status \in {"NONE", "AWAITING"} => records[r].repaid = 0
    /\ records[r].repaid <= rows[r].paid
    /\ records[r].status = "FULFILLED" => rows[r].paid = Due[r] /\ records[r].repaid = Due[r]
    /\ records[r].status = "PARTIAL" => rows[r].paid > 0 /\ Unpaid(r)
    /\ records[r].status = "FAILED" => rows[r].closed /\ rows[r].paid = 0

RecordsFit == \A r \in Rows : RecordFits(r)

\* A row of a file is dealt with.
Handled(f, i) ==
    \/ Content[f][i].amount = 0
    \/ <<f, i>> \in DOMAIN receipts
    \/ manual[<<f, i>>] > 0

\* What a job has done when it is where it is.
UploadDone(job) ==
    /\ job.step = "applying" =>
          \A i \in DOMAIN Content[job.file] : i < job.row => Handled(job.file, i)
    /\ job.kind = "upload" /\ job.step \in {"posting", "done"} =>
          \A i \in DOMAIN Content[job.file] : Handled(job.file, i)

CloseDone(job) ==
    /\ job.step = "closing" =>
          \A r \in Rows : r[2] = job.period /\ Payable(r) => r \in job.todo
    /\ job.kind = "close" /\ job.step \in {"posting", "marking", "done"} =>
          \A r \in Rows : r[2] = job.period => ~Payable(r)

JobsDone == \A j \in 1 .. Slots : UploadDone(jobs[j]) /\ CloseDone(jobs[j])

LastIsClosed == \A r \in Rows : r[2] = last => ~Payable(r)

\* What the books hold, and the receipts it comes from.
Brought(r) == [k \in ReceiptsOf(r) |-> receipts[k].against]
RowsOf(s) == {r \in Rows : r[1] = s}
TakenFrom(s) == [k \in UNION {ReceiptsOf(r) : r \in RowsOf(s)} |-> receipts[k].applied]
Charges(s) == [r \in RowsOf(s) |-> Charged(r)]
PaidIn(p) == [r \in {q \in Rows : q[2] = p} |-> rows[r].paid]
BroughtIn(p) ==
    [k \in {q \in DOMAIN receipts : p \in PeriodsNamed(q[1])} |-> receipts[k].against]
Applied == [k \in DOMAIN receipts |-> receipts[k].applied]
Owed == [s \in Staff |-> accounts[s].owed]

RowsFit ==
    \A r \in Rows : rows[r].paid = SumFunction(Brought(r)) /\ rows[r].paid <= Due[r]

AccountsFit ==
    \A s \in Staff :
        accounts[s].owed + SumFunction(TakenFrom(s)) = Debt[s] + SumFunction(Charges(s))

MonthsFit == \A p \in Periods : SumFunction(PaidIn(p)) = SumFunction(BroughtIn(p))

\* What a job holds that a counter does not have yet.
Held(job, name, kind) ==
    IF job.kind = kind /\ (job.step = "posting" => name \in job.posting) THEN job.gain ELSE 0

HeldBy(name, kind) == [j \in 1 .. Slots |-> Held(jobs[j], name, kind)]

Lossless == deaths = 0 /\ \A j \in 1 .. Slots : jobs[j].step # "failed"

CountersFit ==
    LET counted == counters.repaid + SumFunction(HeldBy("repaid", "upload"))
        coming == SumFunction(HeldBy("outstanding", "upload"))
        shown == counters.outstanding + SumFunction(HeldBy("outstanding", "close"))
    IN /\ counted <= SumFunction(Applied)
       /\ counters.outstanding + SumFunction(Applied) >= SumFunction(Debt) + coming
       /\ Lossless =>
            /\ counted = SumFunction(Applied)
            /\ shown >= SumFunction(Owed) + coming
            /\ SumFunction(Applied) <= SumFunction(Debt) => shown = SumFunction(Owed) + coming

Shapes == TypeOK /\ JobsFit
Books == RowsFit /\ AccountsFit /\ MonthsFit
IInv == Shapes /\ Books /\ RecordsFit /\ JobsDone /\ LastIsClosed /\ CountersFit

-----------------------------------------------------------------------------
(* Constants, rows and receipts                                            *)

LEMMA RowsAre ==
    /\ IsFiniteSet(Rows)
    /\ \A r \in Rows : /\ r = <<r[1], r[2]>> /\ r[1] \in Staff /\ r[2] \in Nat /\ r[2] # 0
                       /\ Due[r] \in Nat /\ Due[r] > 0
<1>1. Rows \subseteq DOMAIN Due
    BY DEF Rows
<1>2. IsFiniteSet(Rows)
    BY <1>1, FS_Subset, UploadConstants
<1>3. DOMAIN Due \subseteq Staff \X (Nat \ {0}) /\ \A r \in DOMAIN Due : Due[r] \in Nat
    BY UploadConstants
<1>4. \A r \in Rows : Due[r] > 0
    BY DEF Rows
<1> QED BY <1>1, <1>2, <1>3, <1>4

LEMMA ContentIs ==
    ASSUME NEW f \in Files
    PROVE  /\ DOMAIN Content[f] = 1 .. Len(Content[f]) /\ Len(Content[f]) \in Nat
           /\ \A i \in DOMAIN Content[f] :
                 Content[f][i].period \in Nat /\ Content[f][i].amount \in Nat
BY UploadConstants

\* What a function makes of a finite set is finite.
LEMMA ImageFinite ==
    ASSUME NEW g, IsFiniteSet(DOMAIN g)
    PROVE  IsFiniteSet({g[x] : x \in DOMAIN g})
<1> DEFINE T == {g[x] : x \in DOMAIN g}
           h == [x \in DOMAIN g |-> g[x]]
<1>1. h \in Surjection(DOMAIN g, T)
    BY DEF Surjection
<1> QED BY <1>1, FS_Surjection

LEMMA KeysAre ==
    /\ IsFiniteSet(Keys)
    /\ \A k \in Keys : k[1] \in Files /\ k[2] \in DOMAIN Content[k[1]] /\ k = <<k[1], k[2]>>
    /\ \A f \in Files : \A i \in DOMAIN Content[f] : <<f, i>> \in Keys
<1> DEFINE Of(f) == {f} \X DOMAIN Content[f]
           Parts == {Of(f) : f \in Files}
           of == [f \in Files |-> Of(f)]
<1>1. IsFiniteSet(Parts)
    <2>1. Parts = {of[f] : f \in DOMAIN of} /\ DOMAIN of = Files
        OBVIOUS
    <2> HIDE DEF of, Parts
    <2> QED BY <2>1, ImageFinite, UploadConstants
<1>2. ASSUME NEW P \in Parts PROVE IsFiniteSet(P)
    <2>1. PICK f \in Files : P = Of(f)
        OBVIOUS
    <2>2. IsFiniteSet(DOMAIN Content[f])
        BY ContentIs, FS_Interval
    <2> QED BY <2>1, <2>2, FS_Singleton, FS_Product
<1>3. Keys = UNION Parts
    BY DEF Keys
<1>4. IsFiniteSet(Keys)
    <2> HIDE DEF Parts
    <2> QED BY <1>1, <1>2, <1>3, FS_UNION
<1>5. \A f \in Files : \A i \in DOMAIN Content[f] : <<f, i>> \in Keys
    BY DEF Keys
<1>6. \A k \in Keys : k[1] \in Files /\ k[2] \in DOMAIN Content[k[1]] /\ k = <<k[1], k[2]>>
    BY DEF Keys
<1> QED BY <1>4, <1>5, <1>6

\* The months a file names are numbers, finitely many.
LEMMA PeriodsNamedAre ==
    ASSUME NEW f \in Files
    PROVE  PeriodsNamed(f) \in SUBSET Nat /\ IsFiniteSet(PeriodsNamed(f))
<1> DEFINE All == {Content[f][i].period : i \in DOMAIN Content[f]}
<1>1. IsFiniteSet(All)
    <2> DEFINE period == [i \in DOMAIN Content[f] |-> Content[f][i].period]
    <2>1. DOMAIN period = 1 .. Len(Content[f]) /\ Len(Content[f]) \in Nat
        BY ContentIs
    <2>2. All = {period[i] : i \in DOMAIN period}
        OBVIOUS
    <2>3. IsFiniteSet(DOMAIN period)
        BY <2>1, FS_Interval
    <2> HIDE DEF period, All
    <2> QED BY <2>2, <2>3, ImageFinite
<1>2. PeriodsNamed(f) \subseteq All /\ All \subseteq Nat
    BY ContentIs DEF PeriodsNamed
<1> HIDE DEF All
<1> QED BY <1>1, <1>2, FS_Subset

\* The month a file is queued for is the only one it names.
LEMMA OneMonth ==
    ASSUME NEW f \in Files, Cardinality(PeriodsNamed(f)) = 1, NEW p \in PeriodsNamed(f)
    PROVE  PeriodsNamed(f) = {p} /\ p \in Nat
<1>1. \E x : PeriodsNamed(f) = {x}
    BY PeriodsNamedAre, FS_Singleton
<1> QED BY <1>1, PeriodsNamedAre

\* Receipts are finitely many, and what they say are numbers.
LEMMA ReceiptsAre ==
    ASSUME TypeOK
    PROVE  /\ IsFiniteSet(DOMAIN receipts) /\ DOMAIN receipts \subseteq Keys
           /\ \A k \in DOMAIN receipts : receipts[k].against \in Nat /\ receipts[k].applied \in Nat
           /\ \A r : ReceiptsOf(r) \subseteq DOMAIN receipts /\ IsFiniteSet(ReceiptsOf(r))
<1>1. DOMAIN receipts \subseteq Keys /\ \A k \in DOMAIN receipts : receipts[k] \in [against : Nat, applied : Nat]
    BY DEF TypeOK
<1>2. IsFiniteSet(DOMAIN receipts)
    BY <1>1, KeysAre, FS_Subset
<1>3. \A r : ReceiptsOf(r) \subseteq DOMAIN receipts
    BY DEF ReceiptsOf
<1> QED BY <1>1, <1>2, <1>3, FS_Subset

\* What the types say of one row, one borrower and one job.
LEMMA RowIs ==
    ASSUME TypeOK, NEW r \in Rows
    PROVE  /\ rows[r].paid \in Nat /\ rows[r].closed \in BOOLEAN
           /\ records[r].status \in RecordStatus /\ records[r].repaid \in Nat
           /\ accounts[r[1]].owed \in Nat
           /\ rows[r] = [paid |-> rows[r].paid, closed |-> rows[r].closed]
BY RowsAre DEF TypeOK

LEMMA AccountIs ==
    ASSUME TypeOK, NEW s \in Staff
    PROVE  accounts[s].owed \in Nat /\ accounts[s].settled \in BOOLEAN
BY DEF TypeOK

LEMMA JobIs ==
    ASSUME TypeOK, NEW j \in 1 .. Slots
    PROVE  /\ jobs[j] \in Job /\ jobs[j].gain \in Nat /\ jobs[j].row \in Nat
           /\ jobs[j].period \in Nat /\ jobs[j].todo \subseteq Rows
BY DEF TypeOK, Job

-----------------------------------------------------------------------------
(* Shapes                                                                  *)

\* TypeOK but for the jobs.
OthersTypeOK ==
    /\ last \in Nat
    /\ rows \in [Rows -> [paid : Nat, closed : BOOLEAN]]
    /\ accounts \in [Staff -> [owed : Nat, settled : BOOLEAN]]
    /\ DOMAIN receipts \subseteq Keys
    /\ \A k \in DOMAIN receipts : receipts[k] \in [against : Nat, applied : Nat]
    /\ records \in [Rows -> [status : RecordStatus, repaid : Nat]]
    /\ manual \in [Keys -> Nat] /\ uploads \subseteq Files
    /\ counters \in [repaid : Nat, outstanding : Nat] /\ deaths \in 0 .. MaxDeaths

LEMMA TypeSplits == TypeOK <=> OthersTypeOK /\ jobs \in [1 .. Slots -> Job]
BY DEF TypeOK, OthersTypeOK

LEMMA InitShapes == Init => Shapes
<1> SUFFICES ASSUME Init PROVE Shapes
    OBVIOUS
<1>1. NoJob \in Job /\ JobFits(NoJob)
    BY DEF NoJob, Job, JobFits
<1>2. jobs \in [1 .. Slots -> Job] /\ JobsFit
    BY <1>1 DEF Init, JobsFit
<1>3. counters \in [repaid : Nat, outstanding : Nat]
    <2>1. SumFunction(Debt) \in Nat
        BY UploadConstants, FiniteSumNat
    <2> QED BY <2>1 DEF Init
<1>4. /\ rows \in [Rows -> [paid : Nat, closed : BOOLEAN]]
      /\ accounts \in [Staff -> [owed : Nat, settled : BOOLEAN]]
      /\ records \in [Rows -> [status : RecordStatus, repaid : Nat]]
    BY UploadConstants DEF Init, RecordStatus
<1>5. DOMAIN receipts = {}
    BY DEF Init
<1>6. OthersTypeOK
    BY <1>3, <1>4, <1>5, UploadConstants DEF Init, OthersTypeOK
<1> QED BY <1>2, <1>6, TypeSplits DEF Shapes

\* One job moves.
LEMMA JobStep ==
    ASSUME Shapes, OthersTypeOK', NEW j \in 1 .. Slots, NEW job \in Job, JobFits(job),
           jobs' = [jobs EXCEPT ![j] = job]
    PROVE  Shapes'
<1>1. jobs \in [1 .. Slots -> Job]
    BY DEF Shapes, TypeOK
<1>2. jobs' \in [1 .. Slots -> Job]
    BY <1>1
<1>3. \A k \in 1 .. Slots : jobs'[k] = IF k = j THEN job ELSE jobs[k]
    BY <1>1
<1>4. JobsFit'
    BY <1>3 DEF Shapes, JobsFit
<1>5. TypeOK'
    BY <1>2 DEF TypeOK, OthersTypeOK
<1> QED BY <1>4, <1>5 DEF Shapes

\* A job that ends, is queued again, or has posted its statistics.
LEMMA EndedIs ==
    ASSUME NEW job \in Job, JobFits(job), job.kind # "none",
           NEW step, \/ step \in {"queued", "failed", "skipped", "done"}
                     \/ step = "marking" /\ job.kind = "close"
    PROVE  Ended(job, step) \in Job /\ JobFits(Ended(job, step))
<1>1. step \in {"queued", "marking", "done", "skipped", "failed"}
    OBVIOUS
<1>2. Ended(job, step) \in Job
    BY <1>1 DEF Ended, Job
<1>3. /\ Ended(job, step).kind = job.kind /\ Ended(job, step).file = job.file
      /\ Ended(job, step).period = job.period /\ Ended(job, step).unrecorded = job.unrecorded
      /\ Ended(job, step).step = step /\ Ended(job, step).gain = 0
      /\ Ended(job, step).posting = {}
    BY DEF Ended, Job
<1> QED BY <1>2, <1>3 DEF JobFits

\* A job that is running was asked for.
LEMMA RunningIsAsked ==
    ASSUME Shapes, NEW j \in 1 .. Slots, jobs[j].step # "done"
    PROVE  jobs[j].kind # "none" /\ jobs[j] \in Job /\ JobFits(jobs[j])
BY DEF Shapes, TypeOK, JobsFit, JobFits

\* It ends, or is queued again.
LEMMA EndStep ==
    ASSUME Shapes, OthersTypeOK', NEW j \in 1 .. Slots, jobs[j].step # "done",
           NEW step, \/ step \in {"queued", "failed", "skipped", "done"}
                     \/ step = "marking" /\ jobs[j].kind = "close",
           jobs' = [jobs EXCEPT ![j] = Ended(jobs[j], step)]
    PROVE  Shapes'
<1> DEFINE job == Ended(jobs[j], step)
<1>1. job \in Job /\ JobFits(job)
    BY RunningIsAsked, EndedIs
<1> HIDE DEF job
<1> QED BY <1>1, JobStep DEF job

LEMMA OthersSame ==
    ASSUME Shapes, UNCHANGED <<last, books, uploads, counters, deaths>>
    PROVE  OthersTypeOK'
BY DEF Shapes, TypeOK, OthersTypeOK, books

\* The row an upload has come to is a row of its file.
LEMMA EntryIs ==
    ASSUME Shapes, NEW j \in 1 .. Slots, AtRow(j)
    PROVE  /\ jobs[j] \in Job /\ JobFits(jobs[j]) /\ jobs[j].kind = "upload"
           /\ jobs[j].file \in Files /\ jobs[j].row \in DOMAIN Content[jobs[j].file]
           /\ PeriodsNamed(jobs[j].file) = {jobs[j].period}
           /\ Entry(j) = Content[jobs[j].file][jobs[j].row]
           /\ Entry(j).amount \in Nat
           /\ Key(j) = <<jobs[j].file, jobs[j].row>> /\ Key(j) \in Keys
<1>1. jobs[j].step = "applying" /\ jobs[j].row \in DOMAIN Content[jobs[j].file]
    BY DEF AtRow
<1>2. jobs[j] \in Job /\ JobFits(jobs[j])
    BY <1>1, RunningIsAsked
<1>3. jobs[j].kind = "upload" /\ jobs[j].file \in Files /\ PeriodsNamed(jobs[j].file) = {jobs[j].period}
    BY <1>1, <1>2 DEF JobFits
<1>4. Content[jobs[j].file][jobs[j].row].amount \in Nat
    BY <1>1, <1>3, ContentIs
<1>5. <<jobs[j].file, jobs[j].row>> \in Keys
    BY <1>1, <1>3, KeysAre
<1> QED BY <1>1, <1>2, <1>3, <1>4, <1>5 DEF Entry, Key

\* What a payment brings is between nothing and what its row lacks.
LEMMA ReceivedIs ==
    ASSUME Shapes, NEW j \in 1 .. Slots, OfStaff(j), Target(j) \in Rows, Payable(Target(j))
    PROVE  /\ Received(j) \in [against : Nat, applied : Nat]
           /\ Received(j).against > 0
           /\ rows[Target(j)].paid + Received(j).against <= Due[Target(j)]
           /\ Received(j).applied <= accounts[Target(j)[1]].owed
           /\ Target(j)[1] = Entry(j).staff /\ Target(j)[2] = jobs[j].period
           /\ Target(j)[1] \in Staff
<1> DEFINE r == Target(j)
           against == Least(Entry(j).amount, Due[r] - rows[r].paid)
           owed == accounts[Entry(j).staff].owed
<1>1. AtRow(j) /\ Entry(j).amount > 0 /\ Entry(j).staff \in Staff
    BY DEF OfStaff
<1>2. Entry(j).amount \in Nat
    BY <1>1, EntryIs
<1>3. rows[r].paid \in Nat /\ rows[r].paid < Due[r] /\ Due[r] \in Nat
    BY RowIs, RowsAre DEF Shapes, Payable, Unpaid
<1>4. owed \in Nat
    BY <1>1, AccountIs DEF Shapes
<1>5. r[1] = Entry(j).staff /\ r[2] = jobs[j].period
    BY DEF Target
<1>6. Received(j) = [against |-> against, applied |-> Least(against, owed)]
    BY DEF Received
<1> HIDE DEF r, owed
<1>7. against \in Nat /\ against > 0 /\ rows[r].paid + against <= Due[r]
    BY <1>1, <1>2, <1>3 DEF Least
<1> HIDE DEF against
<1>8. Least(against, owed) \in Nat /\ Least(against, owed) <= owed
    BY <1>4, <1>7 DEF Least
<1> QED BY <1>1, <1>5, <1>6, <1>7, <1>8 DEF r, owed

\* The statistics only move on.
LEMMA NextRowShapes ==
    ASSUME Shapes, OthersTypeOK', NEW j \in 1 .. Slots, AtRow(j), NEW gain \in Nat,
           NextRow(j, gain)
    PROVE  Shapes'
<1> DEFINE job == [jobs[j] EXCEPT !.row = @ + 1, !.gain = @ + gain]
<1>1. jobs' = [jobs EXCEPT ![j] = job]
    BY DEF NextRow
<1>2. jobs[j] \in Job /\ JobFits(jobs[j]) /\ jobs[j].step = "applying"
    BY EntryIs DEF AtRow
<1>3. jobs[j].row + 1 \in Nat /\ jobs[j].row + 1 # 0 /\ jobs[j].gain + gain \in Nat
    BY <1>2 DEF Job
<1>4. job \in Job
    BY <1>2, <1>3 DEF Job
<1>5. JobFits(job)
    BY <1>2, <1>3 DEF JobFits, Job
<1> HIDE DEF job
<1> QED BY <1>1, <1>4, <1>5, JobStep

LEMMA RequestShapes ==
    ASSUME Shapes, NEW j \in 1 .. Slots,
           \/ \E f \in Files : RequestUpload(j, f)
           \/ \E p \in Periods : RequestClose(j, p)
    PROVE  Shapes'
<1>1. OthersTypeOK'
    BY OthersSame DEF RequestUpload, RequestClose
<1>2. ASSUME NEW f \in Files, RequestUpload(j, f) PROVE Shapes'
    <2>1. PICK p \in PeriodsNamed(f) :
             jobs' = [jobs EXCEPT ![j] = [NoJob EXCEPT
                !.kind = "upload", !.file = f, !.period = p, !.step = "queued",
                !.unrecorded = TRUE]]
        BY <1>2 DEF RequestUpload
    <2> DEFINE job == [NoJob EXCEPT !.kind = "upload", !.file = f, !.period = p,
                          !.step = "queued", !.unrecorded = TRUE]
    <2>2. PeriodsNamed(f) = {p} /\ p \in Nat
        BY <1>2, OneMonth DEF RequestUpload
    <2>3. job \in Job
        BY <2>2 DEF Job, NoJob
    <2>4. JobFits(job)
        BY <2>2 DEF JobFits, NoJob
    <2> HIDE DEF job
    <2> QED BY <1>1, <2>1, <2>3, <2>4, JobStep DEF job
<1>3. ASSUME NEW p \in Periods, RequestClose(j, p) PROVE Shapes'
    <2> DEFINE job == [NoJob EXCEPT !.kind = "close", !.period = p, !.step = "queued"]
    <2>1. jobs' = [jobs EXCEPT ![j] = job]
        BY <1>3 DEF RequestClose
    <2>2. p \in Nat
        BY UploadConstants DEF Periods
    <2>3. job \in Job
        BY <2>2 DEF Job, NoJob
    <2>4. JobFits(job)
        BY <2>2 DEF JobFits, NoJob
    <2> HIDE DEF job
    <2> QED BY <1>1, <2>1, <2>3, <2>4, JobStep
<1> QED BY <1>2, <1>3

LEMMA RecordUploadShapes ==
    ASSUME Shapes, NEW j \in 1 .. Slots, RecordUpload(j)
    PROVE  Shapes'
<1> DEFINE job == [jobs[j] EXCEPT !.unrecorded = FALSE]
<1>1. jobs[j] \in Job /\ JobFits(jobs[j]) /\ jobs[j].unrecorded
    BY DEF Shapes, TypeOK, JobsFit, RecordUpload
<1>2. jobs[j].file \in Files
    BY <1>1 DEF JobFits
<1>3. OthersTypeOK'
    BY <1>2 DEF RecordUpload, Shapes, TypeOK, OthersTypeOK, books
<1>4. jobs' = [jobs EXCEPT ![j] = job]
    BY DEF RecordUpload
<1>5. job \in Job
    BY <1>1 DEF Job
<1>6. JobFits(job)
    BY <1>1 DEF JobFits, Job
<1> HIDE DEF job
<1> QED BY <1>3, <1>4, <1>5, <1>6, JobStep

\* A job takes a step that moves no statistics.
LEMMA StepShapes ==
    ASSUME Shapes, NEW j \in 1 .. Slots,
           StartUpload(j) \/ ListExpectations(j) \/ ListOpenRows(j) \/ EndOfFile(j) \/ EndOfList(j)
    PROVE  Shapes'
<1>1. OthersTypeOK'
    BY OthersSame DEF StartUpload, ListExpectations, ListOpenRows, EndOfFile, EndOfList
<1>2. jobs[j].step # "done"
    BY DEF StartUpload, ListExpectations, ListOpenRows, EndOfFile, EndOfList
<1>3. jobs[j] \in Job /\ JobFits(jobs[j])
    BY <1>2, RunningIsAsked
<1>4. CASE StartUpload(j)
    <2> DEFINE job == [jobs[j] EXCEPT !.step = "started"]
    <2>1. jobs' = [jobs EXCEPT ![j] = Ended(jobs[j], "skipped")] \/ jobs' = [jobs EXCEPT ![j] = job]
        BY <1>4 DEF StartUpload, End
    <2>2. job \in Job
        BY <1>3 DEF Job
    <2>3. JobFits(job)
        BY <1>3, <1>4 DEF JobFits, Job, StartUpload
    <2> HIDE DEF job
    <2> QED BY <1>1, <1>2, <2>1, <2>2, <2>3, JobStep, EndStep
<1>5. CASE ListExpectations(j)
    <2>1. PICK todo \in SUBSET Rows :
             jobs' = [jobs EXCEPT ![j] = [jobs[j] EXCEPT !.step = "creating", !.todo = todo]]
        BY <1>5 DEF ListExpectations
    <2> DEFINE job == [jobs[j] EXCEPT !.step = "creating", !.todo = todo]
    <2>2. job \in Job
        BY <1>3 DEF Job
    <2>3. JobFits(job)
        BY <1>3, <1>5 DEF JobFits, Job, ListExpectations
    <2> HIDE DEF job
    <2> QED BY <1>1, <2>1, <2>2, <2>3, JobStep DEF job
<1>6. CASE ListOpenRows(j)
    <2>1. PICK todo \in SUBSET Rows :
             jobs' = [jobs EXCEPT ![j] = [jobs[j] EXCEPT !.step = "closing", !.todo = todo]]
        BY <1>6 DEF ListOpenRows
    <2> DEFINE job == [jobs[j] EXCEPT !.step = "closing", !.todo = todo]
    <2>2. job \in Job
        BY <1>3 DEF Job
    <2>3. JobFits(job)
        BY <1>3, <1>6 DEF JobFits, Job, ListOpenRows
    <2> HIDE DEF job
    <2> QED BY <1>1, <2>1, <2>2, <2>3, JobStep DEF job
<1>7. CASE EndOfFile(j)
    <2> DEFINE job == [jobs[j] EXCEPT !.step = "posting", !.row = 0,
                          !.posting = {"repaid", "outstanding"}]
    <2>1. jobs' = [jobs EXCEPT ![j] = Ended(jobs[j], "done")] \/ jobs' = [jobs EXCEPT ![j] = job]
        BY <1>7 DEF EndOfFile, End
    <2>2. job \in Job
        BY <1>3 DEF Job
    <2>3. JobFits(job)
        BY <1>3, <1>7 DEF JobFits, Job, EndOfFile
    <2> HIDE DEF job
    <2> QED BY <1>1, <1>2, <2>1, <2>2, <2>3, JobStep, EndStep
<1>8. CASE EndOfList(j)
    <2> DEFINE marking == [jobs[j] EXCEPT !.step = "marking"]
               job == [jobs[j] EXCEPT !.step = "posting", !.posting = {"outstanding"}]
    <2>1. \/ jobs[j].gain = 0 /\ jobs' = [jobs EXCEPT ![j] = marking]
          \/ jobs' = [jobs EXCEPT ![j] = job]
        BY <1>8 DEF EndOfList
    <2>2. job \in Job /\ marking \in Job
        BY <1>3 DEF Job
    <2>3. JobFits(job)
        BY <1>3, <1>8 DEF JobFits, Job, EndOfList
    <2>4. jobs[j].gain = 0 => JobFits(marking)
        BY <1>3, <1>8 DEF JobFits, Job, EndOfList
    <2> HIDE DEF job, marking
    <2> QED BY <1>1, <2>1, <2>2, <2>3, <2>4, JobStep
<1> QED BY <1>4, <1>5, <1>6, <1>7, <1>8

\* A job that fails, dies, or marks its month.
LEMMA EndShapes ==
    ASSUME Shapes, NEW j \in 1 .. Slots,
           \/ RowThrows(j) \/ (\E r \in Rows : CloseThrows(j, r))
           \/ Mark(j) \/ Interrupted(j)
    PROVE  Shapes'
<1>1. CASE RowThrows(j) \/ \E r \in Rows : CloseThrows(j, r)
    <2>1. OthersTypeOK'
        BY <1>1, OthersSame DEF RowThrows, CloseThrows, Fail
    <2>2. jobs[j].step # "done" /\ jobs' = [jobs EXCEPT ![j] = Ended(jobs[j], "failed")]
        BY <1>1 DEF RowThrows, CloseThrows, Fail, End, OfStaff, AtRow
    <2> QED BY <2>1, <2>2, EndStep
<1>2. CASE Mark(j)
    <2>1. jobs[j].step = "marking" /\ jobs' = [jobs EXCEPT ![j] = Ended(jobs[j], "done")]
        BY <1>2 DEF Mark, End
    <2>2. OthersTypeOK'
        BY <1>2, JobIs DEF Mark, Shapes, TypeOK, OthersTypeOK, books
    <2> QED BY <2>1, <2>2, EndStep
<1>3. CASE Interrupted(j)
    <2>1. jobs[j].step # "done"
        BY <1>3 DEF Interrupted, Running
    <2>2. \/ jobs' = [jobs EXCEPT ![j] = Ended(jobs[j], "queued")]
          \/ jobs' = [jobs EXCEPT ![j] = Ended(jobs[j], "failed")]
        BY <1>3 DEF Interrupted, Restart
    <2>3. deaths' \in 0 .. MaxDeaths
        BY <1>3, UploadConstants DEF Interrupted, Shapes, TypeOK
    <2>4. OthersTypeOK'
        BY <1>3, <2>3 DEF Interrupted, Shapes, TypeOK, OthersTypeOK, books
    <2> QED BY <2>1, <2>2, <2>4, EndStep
<1> QED BY <1>1, <1>2, <1>3

\* What a payment does to the books.
LEMMA ApplyEffect ==
    ASSUME Shapes, NEW j \in 1 .. Slots, ApplyPayrollPayment(j)
    PROVE  /\ OfStaff(j) /\ Target(j) \in Rows /\ Payable(Target(j)) /\ Key(j) \in Keys
           /\ Received(j) \in [against : Nat, applied : Nat]
           /\ Received(j).against \in Nat /\ Received(j).applied \in Nat
           /\ Key(j) \notin DOMAIN receipts
           /\ DOMAIN receipts' = DOMAIN receipts \cup {Key(j)}
           /\ \A k \in DOMAIN receipts : receipts'[k] = receipts[k]
           /\ receipts'[Key(j)] = Received(j)
           /\ rows' = [rows EXCEPT ![Target(j)].paid = rows[Target(j)].paid + Received(j).against]
           /\ \A r \in Rows :
                 /\ rows'[r].closed = rows[r].closed
                 /\ rows'[r].paid = rows[r].paid + IF r = Target(j) THEN Received(j).against ELSE 0
           /\ \A s \in Staff :
                 accounts'[s].owed =
                    accounts[s].owed - IF s = Target(j)[1] THEN Received(j).applied ELSE 0
           /\ NextRow(j, Received(j).applied)
           /\ UNCHANGED <<last, manual, uploads, counters, deaths>>
<1> DEFINE t == Target(j)
           receipt == Received(j)
           key == Key(j)
<1>1. /\ OfStaff(j) /\ t \in Rows /\ Payable(t) /\ key \notin DOMAIN receipts
      /\ NextRow(j, receipt.applied) /\ UNCHANGED <<last, manual, uploads, counters, deaths>>
    BY DEF ApplyPayrollPayment
<1>2. receipt \in [against : Nat, applied : Nat] /\ t[1] \in Staff
    BY <1>1, ReceivedIs
<1>3. key \in Keys
    BY <1>1, EntryIs DEF OfStaff
<1>4. receipts' = [k \in DOMAIN receipts \cup {key} |-> IF k = key THEN receipt ELSE receipts[k]]
    BY DEF ApplyPayrollPayment
<1>5. rows' = [rows EXCEPT ![t].paid = rows[t].paid + receipt.against]
    BY DEF ApplyPayrollPayment
<1>6. accounts' = [accounts EXCEPT ![t[1]].owed = accounts[t[1]].owed - receipt.applied,
                      ![t[1]].settled = @ \/ accounts[t[1]].owed - receipt.applied = 0]
    BY DEF ApplyPayrollPayment
<1> HIDE DEF t, receipt, key
<1>7. receipt.against \in Nat /\ receipt.applied \in Nat
    BY <1>2
<1>8. rows \in [Rows -> [paid : Nat, closed : BOOLEAN]]
    BY DEF Shapes, TypeOK
<1>9. \A r \in Rows : /\ rows'[r].closed = rows[r].closed
                      /\ rows'[r].paid = IF r = t THEN rows[r].paid + receipt.against ELSE rows[r].paid
    BY <1>1, <1>5, <1>8
<1>10. ASSUME NEW r \in Rows
       PROVE  rows'[r].paid = rows[r].paid + IF r = t THEN receipt.against ELSE 0
    <2>1. rows[r].paid \in Nat
        BY <1>8
    <2> QED BY <1>7, <1>9, <2>1
<1>11. accounts \in [Staff -> [owed : Nat, settled : BOOLEAN]]
    BY DEF Shapes, TypeOK
<1>12. \A s \in Staff : accounts'[s].owed =
          IF s = t[1] THEN accounts[s].owed - receipt.applied ELSE accounts[s].owed
    BY <1>2, <1>6, <1>11
<1>13. ASSUME NEW s \in Staff
       PROVE  accounts'[s].owed = accounts[s].owed - IF s = t[1] THEN receipt.applied ELSE 0
    <2>1. accounts[s].owed \in Nat
        BY <1>11
    <2> QED BY <1>7, <1>12, <2>1
<1>14. /\ DOMAIN receipts' = DOMAIN receipts \cup {key}
       /\ \A k \in DOMAIN receipts : receipts'[k] = receipts[k]
       /\ receipts'[key] = receipt
    BY <1>1, <1>4
<1> QED BY <1>1, <1>2, <1>3, <1>5, <1>7, <1>9, <1>10, <1>13, <1>14 DEF t, receipt, key

LEMMA ApplyShapes ==
    ASSUME Shapes, NEW j \in 1 .. Slots, ApplyPayrollPayment(j)
    PROVE  Shapes'
<1> DEFINE t == Target(j)
           receipt == Received(j)
           paid == rows[t].paid + receipt.against
           owed == accounts[t[1]].owed - receipt.applied
<1>1. t \in Rows /\ t[1] \in Staff /\ receipt.applied <= accounts[t[1]].owed
    BY ApplyEffect, ReceivedIs
<1>2. receipt.against \in Nat /\ receipt.applied \in Nat
    BY ApplyEffect
<1>3. paid \in Nat
    <2>1. rows[t].paid \in Nat
        BY <1>1, RowIs DEF Shapes
    <2> QED BY <1>2, <2>1
<1>4. owed \in Nat
    <2>1. accounts[t[1]].owed \in Nat
        BY <1>1, AccountIs DEF Shapes
    <2> QED BY <1>1, <1>2, <2>1
<1>5. /\ rows' = [rows EXCEPT ![t].paid = paid]
      /\ accounts' = [accounts EXCEPT ![t[1]].owed = owed, ![t[1]].settled = @ \/ owed = 0]
      /\ records' = [records EXCEPT ![t] = IF @.status = "NONE" THEN @ ELSE
                        [status |-> IF paid = Due[t] THEN "FULFILLED" ELSE "PARTIAL",
                         repaid |-> paid]]
    BY DEF ApplyPayrollPayment
<1> HIDE DEF t, paid, owed
<1>6. rows' \in [Rows -> [paid : Nat, closed : BOOLEAN]]
    BY <1>1, <1>3, <1>5 DEF Shapes, TypeOK
<1>7. accounts' \in [Staff -> [owed : Nat, settled : BOOLEAN]]
    BY <1>1, <1>4, <1>5 DEF Shapes, TypeOK
<1>8. records' \in [Rows -> [status : RecordStatus, repaid : Nat]]
    BY <1>1, <1>3, <1>5 DEF Shapes, TypeOK, RecordStatus
<1>9. DOMAIN receipts' \subseteq Keys /\ \A k \in DOMAIN receipts' : receipts'[k] \in [against : Nat, applied : Nat]
    <2>1. /\ DOMAIN receipts \subseteq Keys
          /\ \A k \in DOMAIN receipts : receipts[k] \in [against : Nat, applied : Nat]
        BY DEF Shapes, TypeOK
    <2>2. /\ DOMAIN receipts' = DOMAIN receipts \cup {Key(j)} /\ Key(j) \in Keys
          /\ \A k \in DOMAIN receipts : receipts'[k] = receipts[k]
          /\ receipts'[Key(j)] = receipt /\ receipt \in [against : Nat, applied : Nat]
        BY ApplyEffect
    <2> QED BY <2>1, <2>2
<1>10. OthersTypeOK'
    <2>1. UNCHANGED <<last, manual, uploads, counters, deaths>>
        BY ApplyEffect
    <2> QED BY <1>6, <1>7, <1>8, <1>9, <2>1 DEF Shapes, TypeOK, OthersTypeOK
<1>11. NextRow(j, receipt.applied) /\ AtRow(j)
    BY ApplyEffect DEF OfStaff
<1> QED BY <1>2, <1>10, <1>11, NextRowShapes

LEMMA PassShapes ==
    ASSUME Shapes, NEW j \in 1 .. Slots, SkipEmptyRow(j) \/ UnknownStaff(j) \/ SkipDuplicate(j)
    PROVE  Shapes'
<1>1. AtRow(j) /\ NextRow(j, 0)
    BY DEF SkipEmptyRow, UnknownStaff, SkipDuplicate, OfStaff
<1>2. CASE SkipEmptyRow(j) \/ SkipDuplicate(j)
    <2>1. OthersTypeOK'
        BY <1>2, OthersSame DEF SkipEmptyRow, SkipDuplicate
    <2> QED BY <1>1, <2>1, NextRowShapes
<1>3. CASE UnknownStaff(j)
    <2>1. Key(j) \in Keys /\ manual \in [Keys -> Nat]
        BY <1>1, EntryIs DEF Shapes, TypeOK
    <2>2. manual' \in [Keys -> Nat]
        BY <1>3, <2>1 DEF UnknownStaff
    <2>3. OthersTypeOK'
        BY <1>3, <2>2 DEF UnknownStaff, Shapes, TypeOK, OthersTypeOK
    <2> QED BY <1>1, <2>3, NextRowShapes
<1> QED BY <1>2, <1>3

LEMMA CreateShapes ==
    ASSUME Shapes, NEW j \in 1 .. Slots, CreateExpectations(j)
    PROVE  Shapes'
<1> DEFINE job == [jobs[j] EXCEPT !.step = "applying", !.row = 1, !.todo = {}]
<1>1. jobs[j] \in Job /\ JobFits(jobs[j]) /\ jobs[j].step = "creating"
    BY RunningIsAsked DEF CreateExpectations
<1>2. jobs' = [jobs EXCEPT ![j] = job]
    BY DEF CreateExpectations
<1>3. records' \in [Rows -> [status : RecordStatus, repaid : Nat]]
    BY DEF CreateExpectations, Shapes, TypeOK, RecordStatus
<1>4. OthersTypeOK'
    BY <1>3 DEF CreateExpectations, Shapes, TypeOK, OthersTypeOK
<1>5. job \in Job
    BY <1>1 DEF Job
<1>6. JobFits(job)
    BY <1>1 DEF JobFits, Job
<1> HIDE DEF job
<1> QED BY <1>2, <1>4, <1>5, <1>6, JobStep

\* What a default charges.
LEMMA DefaultEffect ==
    ASSUME Shapes, NEW j \in 1 .. Slots, NEW r \in Rows, DefaultRow(j, r)
    PROVE  LET penalty == Shortfall(r) * PenaltyRate IN
           /\ jobs[j].step = "closing" /\ r \in jobs[j].todo
           /\ Shortfall(r) \in Nat /\ Shortfall(r) > 0 /\ ~rows[r].closed
           /\ penalty \in Nat
           /\ rows' = [rows EXCEPT ![r].closed = TRUE]
           /\ \A q \in Rows : /\ rows'[q].paid = rows[q].paid
                              /\ rows'[q].closed <=> (q = r \/ rows[q].closed)
           /\ \A s \in Staff :
                 accounts'[s].owed = accounts[s].owed + IF s = r[1] THEN penalty ELSE 0
           /\ jobs' = [jobs EXCEPT ![j] = [jobs[j] EXCEPT !.todo = @ \ {r}, !.gain = @ + penalty]]
           /\ UNCHANGED <<last, receipts, manual, uploads, counters, deaths>>
<1> DEFINE penalty == Shortfall(r) * PenaltyRate
<1>1. /\ jobs[j].step = "closing" /\ r \in jobs[j].todo /\ Shortfall(r) > 0 /\ ~rows[r].closed
      /\ rows' = [rows EXCEPT ![r].closed = TRUE]
      /\ accounts' = [accounts EXCEPT ![r[1]].owed = @ + penalty]
      /\ UNCHANGED <<last, receipts, manual, uploads, counters, deaths>>
    BY DEF DefaultRow, Default
<1>2. Shortfall(r) \in Nat
    <2>1. rows[r].paid \in Nat /\ Due[r] \in Nat
        BY RowIs, RowsAre DEF Shapes
    <2> QED BY <1>1, <2>1 DEF Shortfall
<1>3. penalty \in Nat
    <2>1. PenaltyRate \in Nat
        BY UploadConstants
    <2> HIDE DEF penalty
    <2>2. \A a, b \in Nat : a * b \in Nat
        OBVIOUS
    <2> QED BY <1>2, <2>1, <2>2 DEF penalty
<1>4. jobs' = [jobs EXCEPT ![j] = [jobs[j] EXCEPT !.todo = @ \ {r}, !.gain = @ + penalty]]
    BY DEF DefaultRow, Default
<1> HIDE DEF penalty
<1>5. rows \in [Rows -> [paid : Nat, closed : BOOLEAN]]
    BY DEF Shapes, TypeOK
<1>6. \A q \in Rows : rows'[q].paid = rows[q].paid /\ rows'[q].closed = IF q = r THEN TRUE ELSE rows[q].closed
    BY <1>1, <1>5
<1>7. \A q \in Rows : rows'[q].closed <=> (q = r \/ rows[q].closed)
    BY <1>1, <1>5, <1>6
<1>8. ASSUME NEW s \in Staff
      PROVE  accounts'[s].owed = accounts[s].owed + IF s = r[1] THEN penalty ELSE 0
    <2>1. accounts \in [Staff -> [owed : Nat, settled : BOOLEAN]]
        BY DEF Shapes, TypeOK
    <2>2. accounts'[s].owed = IF s = r[1] THEN accounts[s].owed + penalty ELSE accounts[s].owed
        BY <1>1, <2>1
    <2>3. accounts[s].owed \in Nat
        BY <2>1
    <2> QED BY <2>2, <2>3
<1> QED BY <1>1, <1>2, <1>3, <1>4, <1>6, <1>7, <1>8 DEF penalty

LEMMA CloseShapes ==
    ASSUME Shapes, NEW j \in 1 .. Slots, NEW r \in Rows, ClosePaidRow(j, r) \/ DefaultRow(j, r)
    PROVE  Shapes'
<1>1. jobs[j].step = "closing"
    BY DEF ClosePaidRow, DefaultRow
<1>2. jobs[j] \in Job /\ JobFits(jobs[j])
    BY <1>1, RunningIsAsked
<1>3. rows' = [rows EXCEPT ![r].closed = TRUE]
    BY DEF ClosePaidRow, DefaultRow, Default
<1>4. rows' \in [Rows -> [paid : Nat, closed : BOOLEAN]]
    BY <1>3 DEF Shapes, TypeOK
<1>5. CASE ClosePaidRow(j, r)
    <2> DEFINE job == [jobs[j] EXCEPT !.todo = @ \ {r}]
    <2>1. jobs' = [jobs EXCEPT ![j] = job]
        BY <1>5 DEF ClosePaidRow
    <2>2. OthersTypeOK'
        BY <1>4, <1>5 DEF ClosePaidRow, Shapes, TypeOK, OthersTypeOK
    <2>3. job \in Job
        BY <1>2 DEF Job
    <2>4. JobFits(job)
        BY <1>1, <1>2 DEF JobFits, Job
    <2> HIDE DEF job
    <2> QED BY <2>1, <2>2, <2>3, <2>4, JobStep
<1>6. CASE DefaultRow(j, r)
    <2> DEFINE penalty == Shortfall(r) * PenaltyRate
    <2>1. penalty \in Nat /\ UNCHANGED <<last, receipts, manual, uploads, counters, deaths>>
        BY <1>6, DefaultEffect
    <2>2. /\ jobs' = [jobs EXCEPT ![j] = [jobs[j] EXCEPT !.todo = @ \ {r}, !.gain = @ + penalty]]
          /\ accounts' = [accounts EXCEPT ![r[1]].owed = @ + penalty]
        BY <1>6 DEF DefaultRow, Default
    <2> HIDE DEF penalty
    <2>3. r[1] \in Staff /\ accounts \in [Staff -> [owed : Nat, settled : BOOLEAN]]
        BY RowsAre DEF Shapes, TypeOK
    <2>4. accounts[r[1]].owed + penalty \in Nat
        BY <2>1, <2>3
    <2>5. accounts' \in [Staff -> [owed : Nat, settled : BOOLEAN]]
        BY <2>2, <2>3, <2>4
    <2>6. records' \in [Rows -> [status : RecordStatus, repaid : Nat]]
        <3> DEFINE status == IF records[r].status = "NONE" THEN records[r].status
                             ELSE IF rows[r].paid > 0 THEN "PARTIAL" ELSE "FAILED"
        <3>1. records' = [records EXCEPT ![r].status = status]
            BY <1>6, Zenon DEF DefaultRow, Default
        <3>2. status \in RecordStatus
            BY RowIs DEF Shapes, RecordStatus
        <3> HIDE DEF status
        <3> QED BY <3>1, <3>2 DEF Shapes, TypeOK
    <2>7. OthersTypeOK'
        BY <1>4, <2>1, <2>5, <2>6 DEF Shapes, TypeOK, OthersTypeOK
    <2> DEFINE job == [jobs[j] EXCEPT !.todo = @ \ {r}, !.gain = @ + penalty]
    <2>8. jobs[j].gain + penalty \in Nat
        BY <1>2, <2>1 DEF Job
    <2>9. job \in Job
        BY <1>2, <2>8 DEF Job
    <2>10. JobFits(job)
        BY <1>1, <1>2 DEF JobFits, Job
    <2> HIDE DEF job
    <2> QED BY <2>2, <2>7, <2>9, <2>10, JobStep DEF job
<1> QED BY <1>5, <1>6

\* Statistics are posted: one name less, and with the last the job goes on or ends.
LEMMA PostedEffect ==
    ASSUME Shapes, NEW j \in 1 .. Slots, NEW name, name \in jobs[j].posting, Posted(j, name)
    PROVE  /\ jobs[j].step = "posting" /\ jobs[j].kind \in {"upload", "close"}
           /\ \/ /\ jobs[j].posting \ {name} # {}
                 /\ jobs' = [jobs EXCEPT ![j] = [jobs[j] EXCEPT !.posting = @ \ {name}]]
              \/ /\ jobs[j].posting = {name} /\ jobs[j].kind = "close"
                 /\ jobs' = [jobs EXCEPT ![j] = Ended(jobs[j], "marking")]
              \/ /\ jobs[j].posting = {name} /\ jobs[j].kind = "upload"
                 /\ jobs' = [jobs EXCEPT ![j] = Ended(jobs[j], "done")]
<1>1. JobFits(jobs[j]) /\ jobs[j] \in Job
    BY DEF Shapes, TypeOK, JobsFit
<1>2. jobs[j].step = "posting" /\ jobs[j].kind \in {"upload", "close"}
    BY <1>1 DEF JobFits, Job
<1>3. [Ended(jobs[j], "marking") EXCEPT !.step = "marking"] = Ended(jobs[j], "marking")
    BY <1>1 DEF Ended, Job
<1> QED BY <1>2, <1>3 DEF Posted

LEMMA PostShapes ==
    ASSUME Shapes, NEW j \in 1 .. Slots, PostRepaid(j) \/ PostOutstanding(j)
    PROVE  Shapes'
<1>1. PICK name \in {"repaid", "outstanding"} : name \in jobs[j].posting /\ Posted(j, name)
    BY DEF PostRepaid, PostOutstanding
<1>2. jobs[j].step = "posting"
    BY <1>1, PostedEffect
<1>3. jobs[j] \in Job /\ JobFits(jobs[j])
    BY <1>2, RunningIsAsked
<1>4. counters' \in [repaid : Nat, outstanding : Nat]
    <2>1. counters \in [repaid : Nat, outstanding : Nat] /\ jobs[j].gain \in Nat
        BY JobIs DEF Shapes, TypeOK
    <2>2. counters.repaid + jobs[j].gain \in Nat /\ counters.outstanding + jobs[j].gain \in Nat
          /\ counters.outstanding - Least(counters.outstanding, jobs[j].gain) \in Nat
        BY <2>1 DEF Least
    <2> QED BY <2>1, <2>2 DEF PostRepaid, PostOutstanding
<1>5. OthersTypeOK'
    BY <1>4 DEF PostRepaid, PostOutstanding, Shapes, TypeOK, OthersTypeOK, books
<1> DEFINE job == [jobs[j] EXCEPT !.posting = @ \ {name}]
<1>6. job \in Job
    BY <1>3 DEF Job
<1>7. JobFits(job)
    BY <1>2, <1>3 DEF JobFits, Job
<1>8. \/ jobs' = [jobs EXCEPT ![j] = job]
      \/ jobs[j].kind = "close" /\ jobs' = [jobs EXCEPT ![j] = Ended(jobs[j], "marking")]
      \/ jobs' = [jobs EXCEPT ![j] = Ended(jobs[j], "done")]
    BY <1>1, PostedEffect
<1> HIDE DEF job
<1> QED BY <1>2, <1>5, <1>6, <1>7, <1>8, JobStep, EndStep

LEMMA StutterShapes ==
    ASSUME Shapes, UNCHANGED vars
    PROVE  Shapes'
BY DEF Shapes, TypeOK, JobsFit, vars, books

LEMMA NextShapes ==
    ASSUME Shapes, Next
    PROVE  Shapes'
<1>1. PICK j \in 1 .. Slots :
        \/ \E f \in Files : RequestUpload(j, f)
        \/ \E p \in Periods : RequestClose(j, p)
        \/ RecordUpload(j) \/ Work(j) \/ Interrupted(j)
    BY DEF Next
<1>2. CASE Work(j)
    <2>1. \/ StartUpload(j) \/ ListExpectations(j) \/ ListOpenRows(j) \/ EndOfFile(j) \/ EndOfList(j)
          \/ RowThrows(j) \/ (\E r \in Rows : CloseThrows(j, r)) \/ Mark(j)
          \/ SkipEmptyRow(j) \/ UnknownStaff(j) \/ SkipDuplicate(j)
          \/ ApplyPayrollPayment(j) \/ CreateExpectations(j)
          \/ (\E r \in Rows : ClosePaidRow(j, r) \/ DefaultRow(j, r))
          \/ PostRepaid(j) \/ PostOutstanding(j)
        BY <1>2 DEF Work
    <2> QED BY <2>1, StepShapes, EndShapes, PassShapes, ApplyShapes, CreateShapes, CloseShapes,
               PostShapes
<1> QED BY <1>1, <1>2, RequestShapes, RecordUploadShapes, EndShapes

-----------------------------------------------------------------------------
(* The books follow the receipts                                           *)

LEMMA SumsAre ==
    ASSUME Shapes
    PROVE  /\ \A r \in Rows :
                 /\ IsFiniteSet(DOMAIN Brought(r)) /\ SumFunction(Brought(r)) \in Nat
                 /\ \A k \in DOMAIN Brought(r) : Brought(r)[k] \in Nat
           /\ \A s \in Staff :
                 /\ IsFiniteSet(DOMAIN TakenFrom(s)) /\ SumFunction(TakenFrom(s)) \in Nat
                 /\ \A k \in DOMAIN TakenFrom(s) : TakenFrom(s)[k] \in Nat
           /\ \A p \in Periods :
                 /\ IsFiniteSet(DOMAIN PaidIn(p)) /\ SumFunction(PaidIn(p)) \in Nat
                 /\ \A r \in DOMAIN PaidIn(p) : PaidIn(p)[r] \in Nat
                 /\ IsFiniteSet(DOMAIN BroughtIn(p)) /\ SumFunction(BroughtIn(p)) \in Nat
                 /\ \A k \in DOMAIN BroughtIn(p) : BroughtIn(p)[k] \in Nat
           /\ IsFiniteSet(DOMAIN Applied) /\ SumFunction(Applied) \in Nat
           /\ \A k \in DOMAIN Applied : Applied[k] \in Nat
           /\ IsFiniteSet(DOMAIN Owed) /\ SumFunction(Owed) \in Nat
           /\ \A s \in DOMAIN Owed : Owed[s] \in Nat
<1>1. /\ IsFiniteSet(DOMAIN receipts)
      /\ \A k \in DOMAIN receipts : receipts[k].against \in Nat /\ receipts[k].applied \in Nat
      /\ \A r : ReceiptsOf(r) \subseteq DOMAIN receipts
    BY ReceiptsAre DEF Shapes
<1>2. \A S \in SUBSET DOMAIN receipts : IsFiniteSet(S)
    BY <1>1, FS_Subset
<1>3. \A S \in SUBSET Rows : IsFiniteSet(S)
    BY RowsAre, FS_Subset
<1>4. ASSUME NEW r \in Rows
      PROVE  /\ IsFiniteSet(DOMAIN Brought(r)) /\ SumFunction(Brought(r)) \in Nat
             /\ \A k \in DOMAIN Brought(r) : Brought(r)[k] \in Nat
    <2>1. IsFiniteSet(DOMAIN Brought(r)) /\ \A k \in DOMAIN Brought(r) : Brought(r)[k] \in Nat
        BY <1>1, <1>2 DEF Brought
    <2> QED BY <2>1, FiniteSumNat
<1>5. ASSUME NEW s \in Staff
      PROVE  /\ IsFiniteSet(DOMAIN TakenFrom(s)) /\ SumFunction(TakenFrom(s)) \in Nat
             /\ \A k \in DOMAIN TakenFrom(s) : TakenFrom(s)[k] \in Nat
    <2>1. DOMAIN TakenFrom(s) \subseteq DOMAIN receipts
        BY <1>1 DEF TakenFrom
    <2>2. \A k \in DOMAIN TakenFrom(s) : TakenFrom(s)[k] \in Nat
        BY <1>1, <2>1 DEF TakenFrom
    <2> QED BY <1>2, <2>1, <2>2, FiniteSumNat
<1>6. ASSUME NEW p \in Periods
      PROVE  /\ IsFiniteSet(DOMAIN PaidIn(p)) /\ SumFunction(PaidIn(p)) \in Nat
             /\ \A r \in DOMAIN PaidIn(p) : PaidIn(p)[r] \in Nat
             /\ IsFiniteSet(DOMAIN BroughtIn(p)) /\ SumFunction(BroughtIn(p)) \in Nat
             /\ \A k \in DOMAIN BroughtIn(p) : BroughtIn(p)[k] \in Nat
    <2>1. IsFiniteSet(DOMAIN PaidIn(p)) /\ \A r \in DOMAIN PaidIn(p) : PaidIn(p)[r] \in Nat
        BY <1>3, RowIs DEF PaidIn, Shapes
    <2>2. IsFiniteSet(DOMAIN BroughtIn(p)) /\ \A k \in DOMAIN BroughtIn(p) : BroughtIn(p)[k] \in Nat
        BY <1>1, <1>2 DEF BroughtIn
    <2> QED BY <2>1, <2>2, FiniteSumNat
<1>7. IsFiniteSet(DOMAIN Applied) /\ \A k \in DOMAIN Applied : Applied[k] \in Nat
    BY <1>1 DEF Applied
<1>8. IsFiniteSet(DOMAIN Owed) /\ \A s \in DOMAIN Owed : Owed[s] \in Nat
    BY UploadConstants, AccountIs DEF Owed, Shapes
<1>9. SumFunction(Applied) \in Nat /\ SumFunction(Owed) \in Nat
    BY <1>7, <1>8, FiniteSumNat
<1> QED BY <1>4, <1>5, <1>6, <1>7, <1>8, <1>9

\* What a row is charged is a number.
LEMMA ChargesAre ==
    ASSUME Shapes, RowsFit
    PROVE  /\ \A r \in Rows : Shortfall(r) \in Nat /\ Charged(r) \in Nat
           /\ \A s \in Staff :
                 /\ IsFiniteSet(DOMAIN Charges(s)) /\ SumFunction(Charges(s)) \in Nat
                 /\ \A r \in DOMAIN Charges(s) : Charges(s)[r] \in Nat
<1>1. \A a, b \in Nat : a * b \in Nat
    OBVIOUS
<1>2. ASSUME NEW r \in Rows PROVE Shortfall(r) \in Nat /\ Charged(r) \in Nat
    <2>1. rows[r].paid \in Nat /\ Due[r] \in Nat /\ rows[r].paid <= Due[r]
        BY RowIs, RowsAre DEF Shapes, RowsFit
    <2>2. Shortfall(r) \in Nat
        BY <2>1 DEF Shortfall
    <2>3. PenaltyRate \in Nat
        BY UploadConstants
    <2> QED BY <1>1, <2>2, <2>3 DEF Charged
<1>3. ASSUME NEW s \in Staff
      PROVE  /\ IsFiniteSet(DOMAIN Charges(s)) /\ SumFunction(Charges(s)) \in Nat
             /\ \A r \in DOMAIN Charges(s) : Charges(s)[r] \in Nat
    <2>1. DOMAIN Charges(s) \subseteq Rows /\ \A r \in DOMAIN Charges(s) : Charges(s)[r] \in Nat
        BY <1>2 DEF Charges, RowsOf
    <2>2. IsFiniteSet(DOMAIN Charges(s))
        BY <2>1, RowsAre, FS_Subset
    <2> QED BY <2>1, <2>2, FiniteSumNat
<1> QED BY <1>2, <1>3

LEMMA InitBooks == Init => Books
<1> SUFFICES ASSUME Init PROVE Books
    OBVIOUS
<1>1. Shapes
    BY InitShapes
<1>2. DOMAIN receipts = {}
    BY DEF Init
<1>3. \A r : ReceiptsOf(r) = {}
    BY <1>2 DEF ReceiptsOf
<1>4. \A r \in Rows : rows[r].paid = 0 /\ rows[r].closed = FALSE
    BY DEF Init
<1>5. RowsFit
    <2> SUFFICES ASSUME NEW r \in Rows
                 PROVE  rows[r].paid = SumFunction(Brought(r)) /\ rows[r].paid <= Due[r]
        BY DEF RowsFit
    <2>1. SumFunction(Brought(r)) = 0
        BY <1>3, SumNone DEF Brought
    <2> QED BY <1>4, <2>1, RowsAre
<1>6. AccountsFit
    <2> SUFFICES ASSUME NEW s \in Staff
                 PROVE  accounts[s].owed + SumFunction(TakenFrom(s)) = Debt[s] + SumFunction(Charges(s))
        BY DEF AccountsFit
    <2>1. DOMAIN TakenFrom(s) = {}
        BY <1>3 DEF TakenFrom
    <2>2. SumFunction(TakenFrom(s)) = 0
        BY <2>1, SumNone
    <2>3. /\ IsFiniteSet(DOMAIN Charges(s)) /\ Charges(s) = [r \in DOMAIN Charges(s) |-> Charges(s)[r]]
          /\ \A r \in DOMAIN Charges(s) : Charges(s)[r] = 0
        BY <1>1, <1>4, <1>5, ChargesAre DEF Charges, RowsOf, Charged
    <2>4. SumFunction(Charges(s)) = 0
        BY <2>3, SumOfZeros
    <2>5. accounts[s].owed = Debt[s]
        BY DEF Init
    <2> QED BY <2>2, <2>4, <2>5
<1>7. MonthsFit
    <2> SUFFICES ASSUME NEW p \in Periods
                 PROVE  SumFunction(PaidIn(p)) = SumFunction(BroughtIn(p))
        BY DEF MonthsFit
    <2>1. SumFunction(BroughtIn(p)) = 0
        BY <1>2, SumNone DEF BroughtIn
    <2>2. /\ IsFiniteSet(DOMAIN PaidIn(p)) /\ PaidIn(p) = [r \in DOMAIN PaidIn(p) |-> PaidIn(p)[r]]
          /\ \A r \in DOMAIN PaidIn(p) : PaidIn(p)[r] = 0
        BY <1>1, <1>4, SumsAre DEF PaidIn
    <2>3. SumFunction(PaidIn(p)) = 0
        BY <2>2, SumOfZeros
    <2> QED BY <2>1, <2>3
<1> QED BY <1>5, <1>6, <1>7 DEF Books

LEMMA SameBooks ==
    ASSUME Books, UNCHANGED <<rows, accounts, receipts>>
    PROVE  Books'
<1>1. \A r : ReceiptsOf(r)' = ReceiptsOf(r) /\ Charged(r)' = Charged(r)
    BY DEF ReceiptsOf, Charged, Shortfall
<1>2. \A r \in Rows : Brought(r)' = Brought(r)
    BY <1>1 DEF Brought
<1>3. \A s \in Staff : TakenFrom(s)' = TakenFrom(s) /\ Charges(s)' = Charges(s)
    BY <1>1 DEF TakenFrom, Charges, RowsOf
<1>4. \A p \in Periods : PaidIn(p)' = PaidIn(p) /\ BroughtIn(p)' = BroughtIn(p)
    BY DEF PaidIn, BroughtIn
<1>5. RowsFit'
    BY <1>2 DEF Books, RowsFit
<1>6. AccountsFit'
    BY <1>3 DEF Books, AccountsFit
<1>7. MonthsFit'
    BY <1>4 DEF Books, MonthsFit
<1> QED BY <1>5, <1>6, <1>7 DEF Books

\* A receipt belongs to the row it was paid against, and to the month of its file.
LEMMA ReceiptAdded ==
    ASSUME Shapes, NEW j \in 1 .. Slots, ApplyPayrollPayment(j)
    PROVE  /\ \A r \in Rows :
                 ReceiptsOf(r)' = ReceiptsOf(r) \cup IF r = Target(j) THEN {Key(j)} ELSE {}
           /\ \A p \in Periods :
                 DOMAIN BroughtIn(p)' =
                    DOMAIN BroughtIn(p) \cup IF p = Target(j)[2] THEN {Key(j)} ELSE {}
<1> DEFINE key == Key(j)
           t == Target(j)
<1>1. AtRow(j) /\ t \in Rows
    BY ApplyEffect DEF OfStaff
<1>2. /\ PeriodsNamed(key[1]) = {jobs[j].period}
      /\ Content[key[1]][key[2]].staff = Entry(j).staff
    BY <1>1, EntryIs
<1>3. t = <<Entry(j).staff, jobs[j].period>>
    BY DEF Target
<1>4. DOMAIN receipts' = DOMAIN receipts \cup {key}
    BY ApplyEffect
<1> HIDE DEF key, t
<1>5. ASSUME NEW r \in Rows
      PROVE  ReceiptsOf(r)' = ReceiptsOf(r) \cup IF r = t THEN {key} ELSE {}
    <2>1. r = <<r[1], r[2]>>
        BY RowsAre
    <2>2. Content[key[1]][key[2]].staff = r[1] /\ r[2] \in PeriodsNamed(key[1]) <=> r = t
        BY <1>2, <1>3, <2>1
    <2> QED BY <1>4, <2>2 DEF ReceiptsOf
<1>6. ASSUME NEW p \in Periods
      PROVE  DOMAIN BroughtIn(p)' = DOMAIN BroughtIn(p) \cup IF p = t[2] THEN {key} ELSE {}
    <2>1. p \in PeriodsNamed(key[1]) <=> p = t[2]
        BY <1>2, <1>3
    <2> QED BY <1>4, <2>1 DEF BroughtIn
<1> QED BY <1>5, <1>6 DEF key, t

LEMMA ApplyBooks ==
    ASSUME Shapes, Books, NEW j \in 1 .. Slots, ApplyPayrollPayment(j)
    PROVE  Books'
<1> DEFINE key == Key(j)
           t == Target(j)
           against == Received(j).against
           applied == Received(j).applied
<1>1. /\ t \in Rows /\ t[1] \in Staff /\ ~rows[t].closed
      /\ against \in Nat /\ applied \in Nat /\ rows[t].paid + against <= Due[t]
    BY ApplyEffect, ReceivedIs DEF Payable
<1>2. /\ key \notin DOMAIN receipts
      /\ \A k \in DOMAIN receipts : receipts'[k] = receipts[k]
      /\ receipts'[key].against = against /\ receipts'[key].applied = applied
    BY ApplyEffect
<1>3. \A r \in Rows : /\ rows'[r].closed = rows[r].closed
                      /\ rows'[r].paid = rows[r].paid + IF r = t THEN against ELSE 0
    BY ApplyEffect
<1>4. \A s \in Staff : accounts'[s].owed = accounts[s].owed - IF s = t[1] THEN applied ELSE 0
    BY ApplyEffect
<1>5. /\ \A r \in Rows : ReceiptsOf(r)' = ReceiptsOf(r) \cup IF r = t THEN {key} ELSE {}
      /\ \A p \in Periods :
            DOMAIN BroughtIn(p)' = DOMAIN BroughtIn(p) \cup IF p = t[2] THEN {key} ELSE {}
    BY ReceiptAdded
<1>6. \A r : ReceiptsOf(r) \subseteq DOMAIN receipts
    BY DEF ReceiptsOf
<1>7. \A r \in Rows : rows[r].paid \in Nat
    BY RowIs DEF Shapes
<1> HIDE DEF key, t, against, applied
<1>8. RowsFit'
    <2> SUFFICES ASSUME NEW r \in Rows
                 PROVE  rows'[r].paid = SumFunction(Brought(r)') /\ rows'[r].paid <= Due[r]
        BY DEF RowsFit
    <2>1. rows[r].paid = SumFunction(Brought(r)) /\ rows[r].paid <= Due[r]
        BY DEF Books, RowsFit
    <2>2. CASE r # t
        <3>1. Brought(r)' = Brought(r)
            BY <1>2, <1>5, <1>6, <2>2 DEF Brought
        <3>2. rows'[r].paid = rows[r].paid
            BY <1>3, <1>7, <2>2
        <3> QED BY <2>1, <3>1, <3>2
    <2>3. CASE r = t
        <3> DEFINE f == Brought(r)
                   g == Brought(r)'
        <3>1. /\ IsFiniteSet(DOMAIN f) /\ f = [k \in DOMAIN f |-> f[k]]
              /\ \A k \in DOMAIN f : f[k] \in Nat
            BY SumsAre DEF Brought
        <3>2. DOMAIN f = ReceiptsOf(r) /\ DOMAIN g = ReceiptsOf(r)'
            BY DEF Brought
        <3>3. key \notin DOMAIN f /\ DOMAIN g = DOMAIN f \cup {key}
            BY <1>2, <1>5, <1>6, <2>3, <3>2
        <3>4. \A k \in DOMAIN f : g[k] = f[k]
            BY <1>2, <1>6, <3>3 DEF Brought
        <3>5. g[key] = against
            BY <1>2, <3>3 DEF Brought
        <3> HIDE DEF f, g
        <3>6. SumFunction(g) = SumFunction(f) + against
            <4>1. \A k \in DOMAIN g : g[k] \in Nat
                BY <1>1, <3>1, <3>3, <3>4, <3>5
            <4> QED BY <3>1, <3>3, <3>4, <3>5, <4>1, SumMore
        <3>7. rows'[r].paid = rows[r].paid + against
            BY <1>3, <2>3
        <3> QED BY <1>1, <2>1, <2>3, <3>6, <3>7 DEF f, g
    <2> QED BY <2>2, <2>3
<1>9. AccountsFit'
    <2> SUFFICES ASSUME NEW s \in Staff
                 PROVE  accounts'[s].owed + SumFunction(TakenFrom(s)') = Debt[s] + SumFunction(Charges(s)')
        BY DEF AccountsFit
    <2>1. accounts[s].owed + SumFunction(TakenFrom(s)) = Debt[s] + SumFunction(Charges(s))
        BY DEF Books, AccountsFit
    <2>2. \A r \in Rows : Charged(r)' = Charged(r)
        <3> SUFFICES ASSUME NEW r \in Rows PROVE Charged(r)' = Charged(r)
            OBVIOUS
        <3>1. CASE r = t
            BY <1>1, <1>3, <3>1 DEF Charged
        <3>2. CASE r # t
            <4>1. rows'[r].paid = rows[r].paid
                BY <1>3, <1>7, <3>2
            <4> QED BY <1>3, <4>1 DEF Charged, Shortfall
        <3> QED BY <3>1, <3>2
    <2>3. Charges(s)' = Charges(s)
        BY <2>2 DEF Charges, RowsOf
    <2>4. CASE s # t[1]
        <3>1. \A r \in RowsOf(s) : ReceiptsOf(r)' = ReceiptsOf(r)
            BY <1>5, <2>4 DEF RowsOf
        <3>2. TakenFrom(s)' = TakenFrom(s)
            <4>1. RowsOf(s)' = RowsOf(s)
                BY DEF RowsOf
            <4> QED BY <1>2, <1>6, <3>1, <4>1 DEF TakenFrom
        <3>3. accounts'[s].owed = accounts[s].owed
            <4>1. accounts[s].owed \in Nat
                BY AccountIs DEF Shapes
            <4> QED BY <1>4, <2>4, <4>1
        <3> QED BY <2>1, <2>3, <3>2, <3>3
    <2>5. CASE s = t[1]
        <3> DEFINE f == TakenFrom(s)
                   g == TakenFrom(s)'
        <3>1. /\ IsFiniteSet(DOMAIN f) /\ f = [k \in DOMAIN f |-> f[k]]
              /\ \A k \in DOMAIN f : f[k] \in Nat
              /\ SumFunction(f) \in Nat
            BY SumsAre DEF TakenFrom
        <3>2. /\ DOMAIN f = UNION {ReceiptsOf(r) : r \in RowsOf(s)}
              /\ DOMAIN g = UNION {ReceiptsOf(r)' : r \in RowsOf(s)}
            BY DEF TakenFrom, RowsOf
        <3>3. t \in RowsOf(s) /\ RowsOf(s) \subseteq Rows
            BY <1>1, <2>5 DEF RowsOf
        <3>4. key \notin DOMAIN f /\ DOMAIN g = DOMAIN f \cup {key}
            BY <1>2, <1>5, <1>6, <3>2, <3>3
        <3>5. \A k \in DOMAIN f : g[k] = f[k]
            BY <1>2, <1>6, <3>2, <3>4 DEF TakenFrom
        <3>6. g[key] = applied
            BY <1>2, <3>4 DEF TakenFrom
        <3> HIDE DEF f, g
        <3>7. SumFunction(g) = SumFunction(f) + applied
            <4>1. \A k \in DOMAIN g : g[k] \in Nat
                BY <1>1, <3>1, <3>4, <3>5, <3>6
            <4> QED BY <3>1, <3>4, <3>5, <3>6, <4>1, SumMore
        <3>8. accounts'[s].owed = accounts[s].owed - applied
            BY <1>4, <2>5
        <3>9. accounts[s].owed \in Nat
            BY AccountIs DEF Shapes
        <3>10. accounts'[s].owed + SumFunction(g) = accounts[s].owed + SumFunction(f)
            BY <1>1, <3>1, <3>7, <3>8, <3>9
        <3> QED BY <2>1, <2>3, <3>10 DEF f, g
    <2> QED BY <2>4, <2>5
<1>10. MonthsFit'
    <2> SUFFICES ASSUME NEW p \in Periods
                 PROVE  SumFunction(PaidIn(p)') = SumFunction(BroughtIn(p)')
        BY DEF MonthsFit
    <2> DEFINE f == BroughtIn(p)
               g == BroughtIn(p)'
               a == PaidIn(p)
               b == PaidIn(p)'
    <2>1. SumFunction(a) = SumFunction(f)
        BY DEF Books, MonthsFit
    <2>2. DOMAIN a = {r \in Rows : r[2] = p} /\ DOMAIN b = DOMAIN a
        BY DEF PaidIn
    <2>3. DOMAIN f \subseteq DOMAIN receipts
        BY DEF BroughtIn
    <2>4. CASE p # t[2]
        <3>1. a = b
            BY <1>3, <1>7, <2>4 DEF PaidIn
        <3>2. f = g
            BY <1>2, <1>5, <2>3, <2>4 DEF BroughtIn
        <3> QED BY <2>1, <3>1, <3>2
    <2>5. CASE p = t[2]
        <3>1. key \notin DOMAIN f /\ DOMAIN g = DOMAIN f \cup {key}
            BY <1>2, <1>5, <2>3, <2>5
        <3>2. /\ IsFiniteSet(DOMAIN f) /\ f = [k \in DOMAIN f |-> f[k]]
              /\ \A k \in DOMAIN f : f[k] \in Nat
              /\ IsFiniteSet(DOMAIN a) /\ SumFunction(a) \in Nat
              /\ \A r \in DOMAIN a : a[r] \in Nat
            BY SumsAre DEF BroughtIn
        <3>3. (\A k \in DOMAIN f : g[k] = f[k]) /\ g[key] = against
            BY <1>2, <2>3, <3>1 DEF BroughtIn
        <3>4. t \in DOMAIN a
            BY <1>1, <2>2, <2>5
        <3>5. (\A r \in DOMAIN a \ {t} : b[r] = a[r]) /\ b[t] = a[t] + against
            BY <1>3, <1>7, <2>2, <3>4 DEF PaidIn
        <3> HIDE DEF a, b, f, g
        <3>6. SumFunction(g) = SumFunction(f) + against
            <4>1. \A k \in DOMAIN g : g[k] \in Nat
                BY <1>1, <3>1, <3>2, <3>3
            <4> QED BY <3>1, <3>2, <3>3, <4>1, SumMore
        <3>7. \A r \in DOMAIN a : a[r] \in Nat /\ b[r] \in Nat
            BY <1>1, <3>2, <3>4, <3>5
        <3>8. SumFunction(b) + a[t] = SumFunction(a) + b[t]
            BY <2>2, <3>2, <3>4, <3>5, <3>7, SumChange
        <3>9. a[t] \in Nat /\ SumFunction(b) \in Nat
            BY <2>2, <3>2, <3>4, <3>7, FiniteSumNat
        <3>10. SumFunction(b) = SumFunction(a) + against
            BY <1>1, <3>2, <3>5, <3>8, <3>9
        <3> QED BY <2>1, <3>6, <3>10 DEF b, g
    <2> QED BY <2>4, <2>5
<1> QED BY <1>8, <1>9, <1>10 DEF Books

\* A close leaves what was paid and received alone.
LEMMA CloseBooks ==
    ASSUME Shapes, Books, NEW j \in 1 .. Slots, NEW r \in Rows, ClosePaidRow(j, r) \/ DefaultRow(j, r)
    PROVE  Books'
<1> DEFINE charge == IF ClosePaidRow(j, r) THEN 0 ELSE Shortfall(r) * PenaltyRate
<1>1. /\ receipts' = receipts
      /\ \A q \in Rows : rows'[q].paid = rows[q].paid /\ (rows'[q].closed <=> (q = r \/ rows[q].closed))
    <2>1. CASE ClosePaidRow(j, r)
        <3>1. receipts' = receipts /\ rows' = [rows EXCEPT ![r].closed = TRUE]
            BY <2>1 DEF ClosePaidRow
        <3>2. rows \in [Rows -> [paid : Nat, closed : BOOLEAN]]
            BY DEF Shapes, TypeOK
        <3>3. \A q \in Rows : rows'[q].paid = rows[q].paid /\ rows'[q].closed = IF q = r THEN TRUE ELSE rows[q].closed
            BY <3>1, <3>2
        <3> QED BY <3>1, <3>2, <3>3
    <2>2. CASE DefaultRow(j, r)
        BY <2>2, DefaultEffect
    <2> QED BY <2>1, <2>2
<1>2. /\ Charged(r) = 0 /\ Charged(r)' = charge /\ charge \in Nat
      /\ \A s \in Staff : accounts'[s].owed = accounts[s].owed + IF s = r[1] THEN charge ELSE 0
    <2>1. Shortfall(r)' = Shortfall(r)
        BY <1>1 DEF Shortfall
    <2>2. Charged(r)' = Shortfall(r) * PenaltyRate
        BY <1>1, <2>1 DEF Charged
    <2>3. CASE ClosePaidRow(j, r)
        <3>1. Shortfall(r) = 0 /\ accounts' = accounts
            BY <2>3 DEF ClosePaidRow
        <3>2. Shortfall(r) * PenaltyRate = 0
            BY <3>1, UploadConstants
        <3>3. \A s \in Staff : accounts[s].owed = accounts[s].owed + 0
            BY AccountIs DEF Shapes
        <3> QED BY <2>2, <2>3, <3>1, <3>2, <3>3 DEF Charged
    <2>4. CASE ~ ClosePaidRow(j, r)
        <3>1. DefaultRow(j, r)
            BY <2>4
        <3> QED BY <2>2, <2>4, <3>1, DefaultEffect DEF Charged
    <2> QED BY <2>3, <2>4
<1> HIDE DEF charge
<1>3. \A q \in Rows \ {r} : Charged(q)' = Charged(q)
    BY <1>1 DEF Charged, Shortfall
<1>4. \A q : ReceiptsOf(q)' = ReceiptsOf(q)
    BY <1>1 DEF ReceiptsOf
<1>5. RowsFit'
    <2>1. \A q \in Rows : Brought(q)' = Brought(q)
        BY <1>1, <1>4 DEF Brought
    <2> QED BY <1>1, <2>1 DEF Books, RowsFit
<1>6. MonthsFit'
    <2>1. \A p \in Periods : PaidIn(p)' = PaidIn(p) /\ BroughtIn(p)' = BroughtIn(p)
        BY <1>1 DEF PaidIn, BroughtIn
    <2> QED BY <2>1 DEF Books, MonthsFit
<1>7. AccountsFit'
    <2> SUFFICES ASSUME NEW s \in Staff
                 PROVE  accounts'[s].owed + SumFunction(TakenFrom(s)') = Debt[s] + SumFunction(Charges(s)')
        BY DEF AccountsFit
    <2>1. accounts[s].owed + SumFunction(TakenFrom(s)) = Debt[s] + SumFunction(Charges(s))
        BY DEF Books, AccountsFit
    <2>2. TakenFrom(s)' = TakenFrom(s)
        <3>1. RowsOf(s)' = RowsOf(s)
            BY DEF RowsOf
        <3> QED BY <1>1, <1>4, <3>1 DEF TakenFrom
    <2> DEFINE f == Charges(s)
               g == Charges(s)'
    <2>3. DOMAIN f = RowsOf(s) /\ DOMAIN g = RowsOf(s)
        BY DEF Charges, RowsOf
    <2>4. \A q \in RowsOf(s) : f[q] = Charged(q) /\ g[q] = Charged(q)'
        BY DEF Charges, RowsOf
    <2>5. accounts[s].owed \in Nat
        BY AccountIs DEF Shapes
    <2>6. CASE r \notin RowsOf(s)
        <3>1. s # r[1]
            BY <2>6 DEF RowsOf
        <3>2. Charges(s)' = Charges(s)
            BY <1>3, <2>6 DEF Charges, RowsOf
        <3>3. accounts'[s].owed = accounts[s].owed
            BY <1>2, <2>5, <3>1
        <3> QED BY <2>1, <2>2, <3>2, <3>3
    <2>7. CASE r \in RowsOf(s)
        <3>1. s = r[1] /\ RowsOf(s) \subseteq Rows
            BY <2>7 DEF RowsOf
        <3>2. /\ IsFiniteSet(DOMAIN f) /\ SumFunction(f) \in Nat
              /\ \A q \in DOMAIN f : f[q] \in Nat
            BY ChargesAre DEF Books
        <3>3. f[r] = 0 /\ g[r] = charge /\ \A q \in DOMAIN f \ {r} : g[q] = f[q]
            BY <1>2, <1>3, <2>3, <2>4, <2>7, <3>1
        <3> HIDE DEF f, g
        <3>4. \A q \in DOMAIN f : f[q] \in Nat /\ g[q] \in Nat
            BY <1>2, <3>2, <3>3
        <3>5. SumFunction(g) + f[r] = SumFunction(f) + g[r]
            BY <2>3, <2>7, <3>2, <3>3, <3>4, SumChange
        <3>6. SumFunction(g) \in Nat /\ SumFunction(TakenFrom(s)) \in Nat
            BY <2>3, <3>2, <3>4, SumsAre, FiniteSumNat
        <3>7. SumFunction(g) = SumFunction(f) + charge
            BY <1>2, <3>2, <3>3, <3>5, <3>6
        <3>8. accounts'[s].owed = accounts[s].owed + charge
            BY <1>2, <3>1
        <3>9. Debt[s] \in Nat /\ accounts[s].owed + SumFunction(TakenFrom(s)) = Debt[s] + SumFunction(f)
            BY <2>1, UploadConstants DEF f
        <3>10. accounts'[s].owed + SumFunction(TakenFrom(s)) = Debt[s] + SumFunction(g)
            BY <1>2, <2>5, <3>2, <3>6, <3>7, <3>8, <3>9
        <3> QED BY <2>2, <3>10 DEF g
    <2> QED BY <2>6, <2>7
<1> QED BY <1>5, <1>6, <1>7 DEF Books

\* The steps that write the books, and the others.
Writes(j) ==
    \/ CreateExpectations(j) \/ UnknownStaff(j) \/ ApplyPayrollPayment(j)
    \/ \E r \in Rows : ClosePaidRow(j, r) \/ DefaultRow(j, r)

LEMMA NextCases ==
    ASSUME Next
    PROVE  \E j \in 1 .. Slots : Writes(j) \/ UNCHANGED books
<1>1. PICK j \in 1 .. Slots :
        \/ \E f \in Files : RequestUpload(j, f)
        \/ \E p \in Periods : RequestClose(j, p)
        \/ RecordUpload(j) \/ Work(j) \/ Interrupted(j)
    BY DEF Next
<1>2. CASE Work(j)
    <2>1. CASE StartUpload(j) \/ ListExpectations(j) \/ ListOpenRows(j) \/ EndOfFile(j) \/ EndOfList(j)
        BY <2>1 DEF StartUpload, ListExpectations, ListOpenRows, EndOfFile, EndOfList
    <2>2. CASE \/ RowThrows(j) \/ (\E r \in Rows : CloseThrows(j, r)) \/ Mark(j)
               \/ SkipEmptyRow(j) \/ SkipDuplicate(j)
        BY <2>2 DEF RowThrows, CloseThrows, Fail, Mark, SkipEmptyRow, SkipDuplicate
    <2>3. CASE PostRepaid(j) \/ PostOutstanding(j)
        BY <2>3 DEF PostRepaid, PostOutstanding
    <2> QED BY <1>2, <2>1, <2>2, <2>3 DEF Work, Writes
<1>3. CASE (\E f \in Files : RequestUpload(j, f)) \/ (\E p \in Periods : RequestClose(j, p))
    BY <1>3 DEF RequestUpload, RequestClose
<1>4. CASE RecordUpload(j) \/ Interrupted(j)
    BY <1>4 DEF RecordUpload, Interrupted
<1> QED BY <1>1, <1>2, <1>3, <1>4

LEMMA NextBooks ==
    ASSUME Shapes, Books, Next
    PROVE  Books'
<1>1. PICK j \in 1 .. Slots : Writes(j) \/ UNCHANGED books
    BY NextCases
<1>2. CASE CreateExpectations(j) \/ UnknownStaff(j) \/ UNCHANGED books
    <2>1. UNCHANGED <<rows, accounts, receipts>>
        BY <1>2 DEF CreateExpectations, UnknownStaff, books
    <2> QED BY <2>1, SameBooks
<1> QED BY <1>1, <1>2, ApplyBooks, CloseBooks DEF Writes

-----------------------------------------------------------------------------
(* The Repayment rows                                                      *)

LEMMA InitRecords == Init => RecordsFit
BY DEF Init, RecordsFit, RecordFits

\* No record changes that a step does not write, and closing a row falsifies none.
LEMMA SameRecord ==
    ASSUME Shapes, NEW r \in Rows, RecordFits(r), records'[r] = records[r],
           rows'[r].paid = rows[r].paid, rows[r].closed => rows'[r].closed
    PROVE  RecordFits(r)'
BY DEF RecordFits, Unpaid

LEMMA ApplyRecords ==
    ASSUME Shapes, RowsFit, RecordsFit, NEW j \in 1 .. Slots, ApplyPayrollPayment(j)
    PROVE  RecordsFit'
<1> SUFFICES ASSUME NEW r \in Rows PROVE RecordFits(r)'
    BY DEF RecordsFit
<1> DEFINE t == Target(j)
           against == Received(j).against
           paid == rows[t].paid + against
<1>1. /\ t \in Rows /\ ~rows[t].closed /\ rows[t].paid < Due[t]
      /\ against \in Nat /\ against > 0 /\ paid <= Due[t]
    BY ApplyEffect, ReceivedIs DEF Payable, Unpaid
<1>2. rows'[r].closed = rows[r].closed /\ rows'[r].paid = rows[r].paid + IF r = t THEN against ELSE 0
    BY ApplyEffect
<1>3. records' = [records EXCEPT ![t] = IF @.status = "NONE" THEN @ ELSE
                        [status |-> IF paid = Due[t] THEN "FULFILLED" ELSE "PARTIAL",
                         repaid |-> paid]]
    BY DEF ApplyPayrollPayment
<1>4. /\ rows[r].paid \in Nat /\ Due[r] \in Nat /\ records[r].repaid \in Nat
      /\ records \in [Rows -> [status : RecordStatus, repaid : Nat]]
    BY RowIs, RowsAre DEF Shapes, TypeOK
<1>5. RecordFits(r)
    BY DEF RecordsFit
<1>6. CASE r # t
    <2>1. records'[r] = records[r] /\ rows'[r].paid = rows[r].paid
        BY <1>2, <1>3, <1>4, <1>6
    <2> QED BY <1>2, <1>5, <2>1, SameRecord
<1>7. CASE r = t
    <2> HIDE DEF t, against
    <2>1. rows'[r].paid = paid /\ paid > 0 /\ paid \in Nat
        BY <1>1, <1>2, <1>4, <1>7
    <2>2. CASE records[r].status = "NONE"
        <3>1. records'[r] = records[r]
            BY <1>3, <1>4, <1>7, <2>2
        <3>2. records[r].repaid = 0
            BY <1>5, <2>2 DEF RecordFits
        <3> QED BY <2>1, <2>2, <3>1, <3>2 DEF RecordFits
    <2>3. CASE records[r].status # "NONE"
        <3>1. /\ records'[r].status = IF paid = Due[r] THEN "FULFILLED" ELSE "PARTIAL"
              /\ records'[r].repaid = paid
            BY <1>3, <1>4, <1>7, <2>3
        <3> HIDE DEF paid
        <3>2. CASE paid = Due[r]
            BY <2>1, <3>1, <3>2 DEF RecordFits
        <3>3. CASE paid # Due[r]
            <4>1. paid < Due[r]
                BY <1>1, <1>4, <1>7, <2>1, <3>3
            <4> QED BY <2>1, <3>1, <3>3, <4>1 DEF RecordFits, Unpaid
        <3> QED BY <3>2, <3>3
    <2> QED BY <2>2, <2>3
<1> QED BY <1>6, <1>7

LEMMA DefaultRecords ==
    ASSUME Shapes, RowsFit, RecordsFit, NEW j \in 1 .. Slots, NEW q \in Rows, DefaultRow(j, q)
    PROVE  RecordsFit'
<1> SUFFICES ASSUME NEW r \in Rows PROVE RecordFits(r)'
    BY DEF RecordsFit
<1> DEFINE status == IF records[q].status = "NONE" THEN records[q].status
                     ELSE IF rows[q].paid > 0 THEN "PARTIAL" ELSE "FAILED"
<1>1. records' = [records EXCEPT ![q].status = status]
    BY Zenon DEF DefaultRow, Default
<1>2. records \in [Rows -> [status : RecordStatus, repaid : Nat]]
    BY DEF Shapes, TypeOK
<1>3. rows'[r].paid = rows[r].paid /\ (rows'[r].closed <=> (r = q \/ rows[r].closed))
    BY DefaultEffect
<1>4. RecordFits(r)
    BY DEF RecordsFit
<1>5. CASE r # q
    <2>1. records'[r] = records[r]
        BY <1>1, <1>2, <1>5
    <2> QED BY <1>3, <1>4, <2>1, SameRecord
<1>6. CASE r = q
    <2>1. records'[r].status = status /\ records'[r].repaid = records[r].repaid
        BY <1>1, <1>2, <1>6
    <2>2. /\ rows[r].paid \in Nat /\ Due[r] \in Nat /\ records[r].repaid \in Nat
          /\ rows[r].paid < Due[r]
        <3>1. rows[r].paid \in Nat /\ Due[r] \in Nat /\ records[r].repaid \in Nat
            BY RowIs, RowsAre DEF Shapes
        <3>2. Shortfall(r) > 0
            BY <1>6, DefaultEffect
        <3> QED BY <3>1, <3>2 DEF Shortfall
    <2>3. records[r].repaid <= rows[r].paid
        BY <1>4 DEF RecordFits
    <2>4. CASE records[r].status = "NONE"
        <3>1. status = "NONE" /\ records[r].repaid = 0
            BY <1>4, <1>6, <2>4 DEF RecordFits
        <3> HIDE DEF status
        <3> QED BY <1>3, <2>1, <2>2, <3>1 DEF RecordFits
    <2>5. CASE records[r].status # "NONE" /\ rows[r].paid > 0
        <3>1. status = "PARTIAL"
            BY <1>6, <2>5
        <3> HIDE DEF status
        <3> QED BY <1>3, <2>1, <2>2, <2>3, <2>5, <3>1 DEF RecordFits, Unpaid
    <2>6. CASE records[r].status # "NONE" /\ ~(rows[r].paid > 0)
        <3>1. status = "FAILED" /\ rows[r].paid = 0
            BY <1>6, <2>2, <2>6
        <3> HIDE DEF status
        <3> QED BY <1>3, <1>6, <2>1, <2>2, <2>3, <3>1 DEF RecordFits
    <2> QED BY <2>4, <2>5, <2>6
<1> QED BY <1>5, <1>6

LEMMA NextRecords ==
    ASSUME Shapes, RowsFit, RecordsFit, Next
    PROVE  RecordsFit'
<1>1. PICK j \in 1 .. Slots : Writes(j) \/ UNCHANGED books
    BY NextCases
<1>2. \A r \in Rows : RecordFits(r)
    BY DEF RecordsFit
<1>3. CASE UNCHANGED books \/ UnknownStaff(j)
    <2>1. UNCHANGED <<rows, records>>
        BY <1>3 DEF books, UnknownStaff
    <2> QED BY <1>2, <2>1, SameRecord DEF RecordsFit
<1>4. CASE CreateExpectations(j)
    <2> SUFFICES ASSUME NEW r \in Rows PROVE RecordFits(r)'
        BY DEF RecordsFit
    <2>1. rows' = rows
        BY <1>4 DEF CreateExpectations
    <2>2. \/ records'[r] = records[r]
          \/ records'[r].status = "AWAITING" /\ records'[r].repaid = 0
        BY <1>4 DEF CreateExpectations
    <2>3. CASE records'[r] = records[r]
        BY <1>2, <2>1, <2>3, SameRecord
    <2>4. CASE records'[r].status = "AWAITING" /\ records'[r].repaid = 0
        <3>1. rows[r].paid \in Nat
            BY RowIs DEF Shapes
        <3> QED BY <2>1, <2>4, <3>1 DEF RecordFits
    <2> QED BY <2>2, <2>3, <2>4
<1>5. ASSUME NEW q \in Rows, ClosePaidRow(j, q) PROVE RecordsFit'
    <2>1. records' = records /\ rows' = [rows EXCEPT ![q].closed = TRUE]
        BY <1>5 DEF ClosePaidRow
    <2>2. rows \in [Rows -> [paid : Nat, closed : BOOLEAN]]
        BY DEF Shapes, TypeOK
    <2>3. \A r \in Rows : rows'[r].paid = rows[r].paid /\ (rows[r].closed => rows'[r].closed)
        BY <2>1, <2>2
    <2> QED BY <1>2, <2>1, <2>3, SameRecord DEF RecordsFit
<1> QED BY <1>1, <1>3, <1>4, <1>5, ApplyRecords, DefaultRecords DEF Writes

-----------------------------------------------------------------------------
(* What jobs have done stays done                                          *)

\* Rows never become payable again, and what was dealt with stays so.
LEMMA NothingReopens ==
    ASSUME Shapes, Next
    PROVE  /\ \A r \in Rows : Payable(r)' => Payable(r)
           /\ \A k \in Keys : Handled(k[1], k[2]) => Handled(k[1], k[2])'
<1>1. PICK j \in 1 .. Slots : Writes(j) \/ UNCHANGED books
    BY NextCases
<1>2. \A k \in Keys : k = <<k[1], k[2]>>
    BY KeysAre
<1>3. \A r \in Rows : rows[r].paid \in Nat /\ Due[r] \in Nat
    BY RowIs, RowsAre DEF Shapes
<1>4. CASE UNCHANGED books \/ CreateExpectations(j)
    <2>1. UNCHANGED <<rows, receipts, manual>>
        BY <1>4 DEF books, CreateExpectations
    <2> QED BY <2>1 DEF Payable, Unpaid, Handled
<1>5. CASE UnknownStaff(j)
    <2>1. UNCHANGED <<rows, receipts>> /\ manual' = [manual EXCEPT ![Key(j)] = @ + 1]
        BY <1>5 DEF UnknownStaff
    <2>2. manual \in [Keys -> Nat]
        BY DEF Shapes, TypeOK
    <2>3. \A k \in Keys : manual[k] \in Nat /\ (manual[k] > 0 => manual'[k] > 0)
        BY <2>1, <2>2
    <2>4. \A r \in Rows : Payable(r)' => Payable(r)
        BY <2>1 DEF Payable, Unpaid
    <2>5. \A k \in Keys : Handled(k[1], k[2]) => Handled(k[1], k[2])'
        BY <1>2, <2>1, <2>3 DEF Handled
    <2> QED BY <2>4, <2>5
<1>6. CASE ApplyPayrollPayment(j)
    <2>1. /\ manual' = manual /\ DOMAIN receipts \subseteq DOMAIN receipts'
          /\ Received(j).against \in Nat
          /\ \A r \in Rows : /\ rows'[r].closed = rows[r].closed
                             /\ rows'[r].paid = rows[r].paid
                                  + IF r = Target(j) THEN Received(j).against ELSE 0
        BY <1>6, ApplyEffect
    <2>2. \A r \in Rows : rows[r].paid <= rows'[r].paid /\ rows'[r].paid \in Nat
        BY <1>3, <2>1
    <2>3. \A r \in Rows : Payable(r)' => Payable(r)
        BY <1>3, <2>1, <2>2 DEF Payable, Unpaid
    <2>4. \A k \in Keys : Handled(k[1], k[2]) => Handled(k[1], k[2])'
        BY <2>1 DEF Handled
    <2> QED BY <2>3, <2>4
<1>7. ASSUME NEW q \in Rows, ClosePaidRow(j, q) \/ DefaultRow(j, q)
      PROVE  /\ \A r \in Rows : Payable(r)' => Payable(r)
             /\ \A k \in Keys : Handled(k[1], k[2]) => Handled(k[1], k[2])'
    <2>1. UNCHANGED <<receipts, manual>> /\ rows' = [rows EXCEPT ![q].closed = TRUE]
        BY <1>7 DEF ClosePaidRow, DefaultRow, Default
    <2>2. rows \in [Rows -> [paid : Nat, closed : BOOLEAN]]
        BY DEF Shapes, TypeOK
    <2>3. \A r \in Rows : rows'[r].paid = rows[r].paid /\ (rows[r].closed => rows'[r].closed)
        BY <2>1, <2>2
    <2>4. \A r \in Rows : Payable(r)' => Payable(r)
        BY <2>3 DEF Payable, Unpaid
    <2>5. \A k \in Keys : Handled(k[1], k[2]) => Handled(k[1], k[2])'
        BY <2>1 DEF Handled
    <2> QED BY <2>4, <2>5
<1> QED BY <1>1, <1>4, <1>5, <1>6, <1>7 DEF Writes

\* What a job had done, it has done.
LEMMA DoneStays ==
    ASSUME Shapes, Next, NEW job, JobFits(job), UploadDone(job), CloseDone(job)
    PROVE  UploadDone(job)' /\ CloseDone(job)'
<1>1. /\ \A r \in Rows : Payable(r)' => Payable(r)
      /\ \A k \in Keys : Handled(k[1], k[2]) => Handled(k[1], k[2])'
    BY NothingReopens
<1>2. CloseDone(job)'
    BY <1>1 DEF CloseDone
<1>3. job.step = "applying" \/ job.kind = "upload" =>
         \A i \in DOMAIN Content[job.file] : Handled(job.file, i) => Handled(job.file, i)'
    <2> SUFFICES ASSUME job.step = "applying" \/ job.kind = "upload",
                        NEW i \in DOMAIN Content[job.file]
                 PROVE  Handled(job.file, i) => Handled(job.file, i)'
        OBVIOUS
    <2>1. job.file \in Files
        BY DEF JobFits
    <2>2. <<job.file, i>> \in Keys
        BY <2>1, KeysAre
    <2>3. <<job.file, i>>[1] = job.file /\ <<job.file, i>>[2] = i
        OBVIOUS
    <2> QED BY <1>1, <2>2, <2>3
<1>4. UploadDone(job)'
    BY <1>3 DEF UploadDone
<1> QED BY <1>2, <1>4

\* One job moves, to where it has done its part.
LEMMA DoneStep ==
    ASSUME Shapes, JobsDone, Next, NEW j \in 1 .. Slots, NEW job,
           jobs' = [jobs EXCEPT ![j] = job], UploadDone(job)', CloseDone(job)'
    PROVE  JobsDone'
<1> SUFFICES ASSUME NEW k \in 1 .. Slots PROVE (UploadDone(jobs[k]) /\ CloseDone(jobs[k]))'
    BY DEF JobsDone
<1>1. jobs \in [1 .. Slots -> Job]
    BY DEF Shapes, TypeOK
<1>2. CASE k = j
    <2>1. jobs'[k] = job
        BY <1>1, <1>2
    <2> QED BY <2>1 DEF UploadDone, CloseDone
<1>3. CASE k # j
    <2>1. PICK other : other = jobs[k]
        OBVIOUS
    <2>2. jobs'[k] = other
        BY <1>1, <1>3, <2>1
    <2>3. JobFits(other) /\ UploadDone(other) /\ CloseDone(other)
        BY <2>1 DEF Shapes, JobsFit, JobsDone
    <2>4. UploadDone(other)' /\ CloseDone(other)'
        BY <2>3, DoneStays
    <2> QED BY <2>2, <2>4 DEF UploadDone, CloseDone
<1> QED BY <1>2, <1>3

\* A job that is queued, failed or skipped has nothing to show.
LEMMA IdleDone ==
    ASSUME NEW job, job.kind \in {"upload", "close"},
           job.step \in {"queued", "failed", "skipped", "started", "creating"}
    PROVE  UploadDone(job)' /\ CloseDone(job)'
BY DEF UploadDone, CloseDone

LEMMA IdleSteps ==
    ASSUME Shapes, JobsDone, Next, NEW j \in 1 .. Slots,
           \/ \E f \in Files : RequestUpload(j, f)
           \/ \E p \in Periods : RequestClose(j, p)
           \/ StartUpload(j) \/ ListExpectations(j)
           \/ RowThrows(j) \/ (\E r \in Rows : CloseThrows(j, r)) \/ Interrupted(j)
    PROVE  JobsDone'
<1>1. ASSUME NEW f \in Files, RequestUpload(j, f) PROVE JobsDone'
    <2>1. PICK p : jobs' = [jobs EXCEPT ![j] = [NoJob EXCEPT
                !.kind = "upload", !.file = f, !.period = p, !.step = "queued",
                !.unrecorded = TRUE]]
        BY <1>1 DEF RequestUpload
    <2>2. PICK job : job = [NoJob EXCEPT !.kind = "upload", !.file = f, !.period = p,
                                !.step = "queued", !.unrecorded = TRUE]
        OBVIOUS
    <2>3. /\ job.kind \in {"upload", "close"}
          /\ job.step \in {"queued", "failed", "skipped", "started", "creating"}
        BY <2>2 DEF NoJob
    <2>4. jobs' = [jobs EXCEPT ![j] = job]
        BY <2>1, <2>2
    <2>5. UploadDone(job)' /\ CloseDone(job)'
        BY <2>3, IdleDone
    <2> QED BY <2>4, <2>5, DoneStep
<1>2. ASSUME NEW p \in Periods, RequestClose(j, p) PROVE JobsDone'
    <2>1. PICK job : job = [NoJob EXCEPT !.kind = "close", !.period = p, !.step = "queued"]
        OBVIOUS
    <2>2. /\ job.kind \in {"upload", "close"}
          /\ job.step \in {"queued", "failed", "skipped", "started", "creating"}
        BY <2>1 DEF NoJob
    <2>3. jobs' = [jobs EXCEPT ![j] = job]
        BY <1>2, <2>1 DEF RequestClose
    <2>4. UploadDone(job)' /\ CloseDone(job)'
        BY <2>2, IdleDone
    <2> QED BY <2>3, <2>4, DoneStep
<1>3. CASE StartUpload(j)
    <2>1. jobs[j].kind = "upload" /\ jobs[j] \in Job
        BY <1>3 DEF StartUpload, Shapes, TypeOK
    <2>2. PICK started, skipped : /\ started = [jobs[j] EXCEPT !.step = "started"]
                                  /\ skipped = Ended(jobs[j], "skipped")
        OBVIOUS
    <2>3. /\ started.kind = "upload" /\ started.step = "started"
          /\ skipped.kind = "upload" /\ skipped.step = "skipped"
        BY <2>1, <2>2 DEF Ended, Job
    <2>4. jobs' = [jobs EXCEPT ![j] = started] \/ jobs' = [jobs EXCEPT ![j] = skipped]
        BY <1>3, <2>2 DEF StartUpload, End
    <2> QED BY <2>3, <2>4, IdleDone, DoneStep
<1>4. CASE ListExpectations(j)
    <2>1. jobs[j].step = "started"
        BY <1>4 DEF ListExpectations
    <2>2. jobs[j].kind = "upload" /\ jobs[j] \in Job
        BY <2>1, RunningIsAsked DEF JobFits
    <2>3. PICK todo : jobs' = [jobs EXCEPT ![j] = [jobs[j] EXCEPT !.step = "creating", !.todo = todo]]
        BY <1>4 DEF ListExpectations
    <2>4. PICK job : job = [jobs[j] EXCEPT !.step = "creating", !.todo = todo]
        OBVIOUS
    <2>5. /\ job.kind \in {"upload", "close"}
          /\ job.step \in {"queued", "failed", "skipped", "started", "creating"}
        BY <2>2, <2>4 DEF Job
    <2>6. jobs' = [jobs EXCEPT ![j] = job]
        BY <2>3, <2>4
    <2>7. UploadDone(job)' /\ CloseDone(job)'
        BY <2>5, IdleDone
    <2> QED BY <2>6, <2>7, DoneStep
<1>5. CASE RowThrows(j) \/ (\E r \in Rows : CloseThrows(j, r)) \/ Interrupted(j)
    <2>1. jobs[j].step # "done"
        BY <1>5 DEF RowThrows, OfStaff, AtRow, CloseThrows, Interrupted, Running
    <2>2. jobs[j].kind \in {"upload", "close"} /\ jobs[j] \in Job
        BY <2>1, RunningIsAsked DEF Job
    <2>3. PICK failed, queued : /\ failed = Ended(jobs[j], "failed")
                                /\ queued = Ended(jobs[j], "queued")
        OBVIOUS
    <2>4. /\ failed.kind = jobs[j].kind /\ failed.step = "failed"
          /\ queued.kind = jobs[j].kind /\ queued.step = "queued"
        BY <2>2, <2>3 DEF Ended, Job
    <2>5. jobs' = [jobs EXCEPT ![j] = failed] \/ jobs' = [jobs EXCEPT ![j] = queued]
        BY <1>5, <2>3 DEF RowThrows, CloseThrows, Fail, End, Interrupted, Restart
    <2> QED BY <2>2, <2>4, <2>5, IdleDone, DoneStep
<1> QED BY <1>1, <1>2, <1>3, <1>4, <1>5

\* A row is passed when it is dealt with.
LEMMA RowDone ==
    ASSUME Shapes, JobsDone, Next, NEW j \in 1 .. Slots, AtRow(j), NEW gain \in Nat, NextRow(j, gain),
           NEW file, NEW row, file = jobs[j].file, row = jobs[j].row, Handled(file, row)'
    PROVE  JobsDone'
<1>1. PICK old : old = jobs[j]
    OBVIOUS
<1>2. old \in Job /\ JobFits(old) /\ old.step = "applying" /\ old.kind = "upload"
    BY <1>1, EntryIs DEF AtRow
<1>3. PICK job : job = [old EXCEPT !.row = @ + 1, !.gain = @ + gain]
    OBVIOUS
<1>4. jobs' = [jobs EXCEPT ![j] = job]
    BY <1>1, <1>3 DEF NextRow
<1>5. job.step = "applying" /\ job.kind = "upload" /\ job.file = file /\ job.row = row + 1 /\ row \in Nat
    BY <1>1, <1>2, <1>3 DEF Job
<1>6. CloseDone(job)'
    BY <1>5 DEF CloseDone
<1>7. UploadDone(job)'
    <2>1. UploadDone(old)'
        BY <1>1, <1>2, DoneStays DEF JobsDone
    <2>2. old.file = file /\ old.row = row /\ DOMAIN Content[file] \subseteq Nat
        BY <1>1, <1>2, ContentIs DEF JobFits
    <2>3. \A i \in DOMAIN Content[file] : i < row => Handled(file, i)'
        BY <1>2, <2>1, <2>2 DEF UploadDone
    <2>4. \A i \in DOMAIN Content[file] : i < row + 1 => i < row \/ i = row
        BY <1>5, <2>2
    <2> QED BY <1>5, <2>3, <2>4 DEF UploadDone
<1> QED BY <1>4, <1>6, <1>7, DoneStep

LEMMA RowSteps ==
    ASSUME Shapes, JobsDone, Next, NEW j \in 1 .. Slots,
           SkipEmptyRow(j) \/ UnknownStaff(j) \/ SkipDuplicate(j) \/ ApplyPayrollPayment(j)
    PROVE  JobsDone'
<1>1. AtRow(j)
    BY DEF SkipEmptyRow, UnknownStaff, SkipDuplicate, ApplyPayrollPayment, OfStaff
<1>2. PICK file, row : file = jobs[j].file /\ row = jobs[j].row
    OBVIOUS
<1>3. Key(j) = <<file, row>> /\ Entry(j) = Content[file][row] /\ <<file, row>> \in Keys
    BY <1>1, <1>2, EntryIs
<1>4. PICK gain \in Nat : NextRow(j, gain)
    <2>1. ApplyPayrollPayment(j) => Received(j).applied \in Nat /\ NextRow(j, Received(j).applied)
        BY ApplyEffect
    <2> QED BY <2>1 DEF SkipEmptyRow, UnknownStaff, SkipDuplicate
<1>5. Handled(file, row)'
    <2>1. CASE SkipEmptyRow(j)
        BY <1>3, <2>1 DEF SkipEmptyRow, Handled
    <2>2. CASE UnknownStaff(j)
        <3>1. manual' = [manual EXCEPT ![<<file, row>>] = @ + 1] /\ manual \in [Keys -> Nat]
            BY <1>3, <2>2 DEF UnknownStaff, Shapes, TypeOK
        <3>2. manual'[<<file, row>>] > 0
            BY <1>3, <3>1
        <3> QED BY <3>2 DEF Handled
    <2>3. CASE SkipDuplicate(j)
        BY <1>3, <2>3 DEF SkipDuplicate, Handled, books
    <2>4. CASE ApplyPayrollPayment(j)
        <3>1. <<file, row>> \in DOMAIN receipts'
            BY <1>3, <2>4, ApplyEffect
        <3> QED BY <3>1 DEF Handled
    <2> QED BY <2>1, <2>2, <2>3, <2>4
<1> QED BY <1>1, <1>2, <1>4, <1>5, RowDone

\* A job that listed its rows, came to the end of its rows, or posts its statistics.
LEMMA EndSteps ==
    ASSUME Shapes, JobsDone, Next, NEW j \in 1 .. Slots,
           \/ RecordUpload(j) \/ CreateExpectations(j) \/ EndOfFile(j) \/ ListOpenRows(j)
           \/ EndOfList(j) \/ Mark(j)
    PROVE  JobsDone'
<1>1. PICK old : old = jobs[j]
    OBVIOUS
<1>2. old \in Job /\ JobFits(old) /\ UploadDone(old) /\ CloseDone(old)
    BY <1>1 DEF Shapes, TypeOK, JobsFit, JobsDone
<1>3. UploadDone(old)' /\ CloseDone(old)'
    BY <1>2, DoneStays
<1>4. CASE RecordUpload(j)
    <2>1. PICK job : job = [old EXCEPT !.unrecorded = FALSE]
        OBVIOUS
    <2>2. jobs' = [jobs EXCEPT ![j] = job]
        BY <1>1, <1>4, <2>1 DEF RecordUpload
    <2>3. /\ job.kind = old.kind /\ job.step = old.step /\ job.file = old.file /\ job.row = old.row
          /\ job.period = old.period /\ job.todo = old.todo
        BY <1>2, <2>1 DEF Job
    <2>4. UploadDone(job)' /\ CloseDone(job)'
        BY <1>3, <2>3 DEF UploadDone, CloseDone
    <2> QED BY <2>2, <2>4, DoneStep
<1>5. CASE CreateExpectations(j)
    <2>1. PICK job : job = [old EXCEPT !.step = "applying", !.row = 1, !.todo = {}]
        OBVIOUS
    <2>2. jobs' = [jobs EXCEPT ![j] = job] /\ old.step = "creating"
        BY <1>1, <1>5, <2>1 DEF CreateExpectations
    <2>3. job.kind = "upload" /\ job.step = "applying" /\ job.file = old.file /\ job.row = 1
        BY <1>2, <2>1, <2>2 DEF Job, JobFits
    <2>4. DOMAIN Content[old.file] = 1 .. Len(Content[old.file])
        BY <1>2, <2>2, ContentIs DEF JobFits
    <2>5. \A i \in DOMAIN Content[old.file] : ~(i < 1)
        BY <2>4
    <2>6. UploadDone(job)' /\ CloseDone(job)'
        BY <2>3, <2>5 DEF UploadDone, CloseDone
    <2> QED BY <2>2, <2>6, DoneStep
<1>6. CASE EndOfFile(j)
    <2>1. old.step = "applying" /\ old.row \notin DOMAIN Content[old.file]
        BY <1>1, <1>6 DEF EndOfFile
    <2>2. /\ old.kind = "upload" /\ old.row \in Nat /\ old.row # 0 /\ old.file \in Files
        BY <1>2, <2>1 DEF JobFits, Job
    <2>3. DOMAIN Content[old.file] = 1 .. Len(Content[old.file]) /\ Len(Content[old.file]) \in Nat
        BY <2>2, ContentIs
    <2>4. \A i \in DOMAIN Content[old.file] : i < old.row
        BY <2>1, <2>2, <2>3
    <2>5. \A i \in DOMAIN Content[old.file] : Handled(old.file, i)'
        BY <1>3, <2>1, <2>4 DEF UploadDone
    <2>6. PICK done, posting :
             /\ done = Ended(old, "done")
             /\ posting = [old EXCEPT !.step = "posting", !.row = 0, !.posting = {"repaid", "outstanding"}]
        OBVIOUS
    <2>7. jobs' = [jobs EXCEPT ![j] = done] \/ jobs' = [jobs EXCEPT ![j] = posting]
        BY <1>1, <1>6, <2>6 DEF EndOfFile, End
    <2>8. /\ done.kind = "upload" /\ done.step = "done" /\ done.file = old.file
          /\ posting.kind = "upload" /\ posting.step = "posting" /\ posting.file = old.file
        BY <1>2, <2>2, <2>6 DEF Ended, Job
    <2>9. UploadDone(done)' /\ CloseDone(done)' /\ UploadDone(posting)' /\ CloseDone(posting)'
        BY <2>5, <2>8 DEF UploadDone, CloseDone
    <2> QED BY <2>7, <2>9, DoneStep
<1>7. CASE ListOpenRows(j)
    <2>1. PICK todo : todo = {r \in Rows : r[2] = old.period /\ Payable(r)}
        OBVIOUS
    <2>2. PICK job : job = [old EXCEPT !.step = "closing", !.todo = todo]
        OBVIOUS
    <2>3. jobs' = [jobs EXCEPT ![j] = job] /\ old.kind = "close"
        BY <1>1, <1>7, <2>1, <2>2 DEF ListOpenRows
    <2>4. job.kind = "close" /\ job.step = "closing" /\ job.period = old.period /\ job.todo = todo
        BY <1>2, <2>2, <2>3 DEF Job
    <2>5. \A r \in Rows : Payable(r)' => Payable(r)
        BY NothingReopens
    <2>6. UploadDone(job)' /\ CloseDone(job)'
        BY <2>1, <2>4, <2>5 DEF UploadDone, CloseDone
    <2> QED BY <2>3, <2>6, DoneStep
<1>8. CASE EndOfList(j)
    <2>1. old.step = "closing" /\ old.todo = {} /\ old.kind = "close"
        BY <1>1, <1>2, <1>8 DEF EndOfList, JobFits
    <2>2. \A r \in Rows : r[2] = old.period => ~Payable(r)'
        BY <1>3, <2>1 DEF CloseDone
    <2>3. PICK marking, posting :
             /\ marking = [old EXCEPT !.step = "marking"]
             /\ posting = [old EXCEPT !.step = "posting", !.posting = {"outstanding"}]
        OBVIOUS
    <2>4. jobs' = [jobs EXCEPT ![j] = marking] \/ jobs' = [jobs EXCEPT ![j] = posting]
        BY <1>1, <1>8, <2>3 DEF EndOfList
    <2>5. /\ marking.kind = "close" /\ marking.step = "marking" /\ marking.period = old.period
          /\ posting.kind = "close" /\ posting.step = "posting" /\ posting.period = old.period
        BY <1>2, <2>1, <2>3 DEF Job
    <2>6. UploadDone(marking)' /\ CloseDone(marking)' /\ UploadDone(posting)' /\ CloseDone(posting)'
        BY <2>2, <2>5 DEF UploadDone, CloseDone
    <2> QED BY <2>4, <2>6, DoneStep
<1>9. CASE Mark(j)
    <2>1. PICK job : job = Ended(old, "done")
        OBVIOUS
    <2>2. jobs' = [jobs EXCEPT ![j] = job] /\ old.step = "marking" /\ old.kind = "close"
        BY <1>1, <1>2, <1>9, <2>1 DEF Mark, End, JobFits
    <2>3. job.kind = "close" /\ job.step = "done" /\ job.period = old.period
        BY <1>2, <2>1, <2>2 DEF Ended, Job
    <2>4. UploadDone(job)' /\ CloseDone(job)'
        BY <1>3, <2>2, <2>3 DEF UploadDone, CloseDone
    <2> QED BY <2>2, <2>4, DoneStep
<1> QED BY <1>4, <1>5, <1>6, <1>7, <1>8, <1>9

LEMMA CloseSteps ==
    ASSUME Shapes, JobsDone, Next, NEW j \in 1 .. Slots, NEW r \in Rows,
           ClosePaidRow(j, r) \/ DefaultRow(j, r)
    PROVE  JobsDone'
<1>1. PICK old : old = jobs[j]
    OBVIOUS
<1>2. old \in Job /\ JobFits(old) /\ UploadDone(old) /\ CloseDone(old) /\ old.step = "closing"
    BY <1>1 DEF Shapes, TypeOK, JobsFit, JobsDone, ClosePaidRow, DefaultRow
<1>3. CloseDone(old)'
    BY <1>2, DoneStays
<1>4. ~Payable(r)'
    <2>1. rows' = [rows EXCEPT ![r].closed = TRUE] /\ rows \in [Rows -> [paid : Nat, closed : BOOLEAN]]
        BY DEF ClosePaidRow, DefaultRow, Default, Shapes, TypeOK
    <2>2. rows'[r].closed
        BY <2>1
    <2> QED BY <2>2 DEF Payable
<1>5. PICK penalty : penalty = Shortfall(r) * PenaltyRate
    OBVIOUS
<1>6. PICK paid, charged :
         /\ paid = [old EXCEPT !.todo = @ \ {r}]
         /\ charged = [old EXCEPT !.todo = @ \ {r}, !.gain = @ + penalty]
    OBVIOUS
<1>7. jobs' = [jobs EXCEPT ![j] = paid] \/ jobs' = [jobs EXCEPT ![j] = charged]
    <2>1. ClosePaidRow(j, r) => jobs' = [jobs EXCEPT ![j] = paid]
        BY <1>1, <1>6 DEF ClosePaidRow
    <2>2. DefaultRow(j, r) => jobs' = [jobs EXCEPT ![j] = charged]
        BY <1>1, <1>5, <1>6, DefaultEffect
    <2> QED BY <2>1, <2>2
<1>8. \A job \in {paid, charged} :
         /\ job.kind = "close" /\ job.step = "closing" /\ job.period = old.period
         /\ job.todo = old.todo \ {r}
    BY <1>2, <1>6 DEF Job, JobFits
<1>9. \A job \in {paid, charged} : UploadDone(job)' /\ CloseDone(job)'
    BY <1>2, <1>3, <1>4, <1>8 DEF UploadDone, CloseDone
<1> QED BY <1>7, <1>9, DoneStep

LEMMA PostSteps ==
    ASSUME Shapes, JobsDone, Next, NEW j \in 1 .. Slots, PostRepaid(j) \/ PostOutstanding(j)
    PROVE  JobsDone'
<1>1. PICK old : old = jobs[j]
    OBVIOUS
<1>2. old \in Job /\ JobFits(old) /\ UploadDone(old) /\ CloseDone(old)
    BY <1>1 DEF Shapes, TypeOK, JobsFit, JobsDone
<1>3. UploadDone(old)' /\ CloseDone(old)'
    BY <1>2, DoneStays
<1>4. PICK name \in {"repaid", "outstanding"} : name \in jobs[j].posting /\ Posted(j, name)
    BY DEF PostRepaid, PostOutstanding
<1>5. PICK posting, marking, done :
         /\ posting = [old EXCEPT !.posting = @ \ {name}]
         /\ marking = Ended(old, "marking") /\ done = Ended(old, "done")
    OBVIOUS
<1>6. /\ old.step = "posting"
      /\ \/ jobs' = [jobs EXCEPT ![j] = posting]
         \/ old.kind = "close" /\ jobs' = [jobs EXCEPT ![j] = marking]
         \/ old.kind = "upload" /\ jobs' = [jobs EXCEPT ![j] = done]
    BY <1>1, <1>4, <1>5, PostedEffect
<1>7. /\ posting.kind = old.kind /\ posting.step = "posting" /\ posting.file = old.file
      /\ posting.period = old.period
      /\ marking.kind = old.kind /\ marking.step = "marking" /\ marking.period = old.period
      /\ done.kind = old.kind /\ done.step = "done" /\ done.file = old.file
    BY <1>2, <1>5, <1>6 DEF Ended, Job
<1>8. UploadDone(posting)' /\ CloseDone(posting)'
    BY <1>3, <1>6, <1>7 DEF UploadDone, CloseDone
<1>9. old.kind = "close" => UploadDone(marking)' /\ CloseDone(marking)'
    BY <1>3, <1>6, <1>7 DEF UploadDone, CloseDone
<1>10. old.kind = "upload" => UploadDone(done)' /\ CloseDone(done)'
    BY <1>3, <1>6, <1>7 DEF UploadDone, CloseDone
<1> QED BY <1>6, <1>8, <1>9, <1>10, DoneStep

LEMMA NextJobs ==
    ASSUME Shapes, JobsDone, Next
    PROVE  JobsDone'
<1>1. PICK j \in 1 .. Slots :
        \/ \E f \in Files : RequestUpload(j, f)
        \/ \E p \in Periods : RequestClose(j, p)
        \/ RecordUpload(j) \/ Work(j) \/ Interrupted(j)
    BY DEF Next
<1>2. CASE Work(j)
    <2>1. \/ StartUpload(j) \/ ListExpectations(j) \/ RowThrows(j) \/ (\E r \in Rows : CloseThrows(j, r))
          \/ SkipEmptyRow(j) \/ UnknownStaff(j) \/ SkipDuplicate(j) \/ ApplyPayrollPayment(j)
          \/ CreateExpectations(j) \/ EndOfFile(j) \/ ListOpenRows(j) \/ EndOfList(j) \/ Mark(j)
          \/ (\E r \in Rows : ClosePaidRow(j, r) \/ DefaultRow(j, r))
          \/ PostRepaid(j) \/ PostOutstanding(j)
        BY <1>2 DEF Work
    <2> QED BY <2>1, IdleSteps, RowSteps, EndSteps, CloseSteps, PostSteps
<1> QED BY <1>1, <1>2, IdleSteps, EndSteps

\* Only a close that has come to its end moves LAST_REPAYMENT_DATE.
LEMMA LastMoves ==
    ASSUME Next, last' # last
    PROVE  \E j \in 1 .. Slots : Mark(j)
<1>1. PICK j \in 1 .. Slots :
        \/ \E f \in Files : RequestUpload(j, f)
        \/ \E p \in Periods : RequestClose(j, p)
        \/ RecordUpload(j) \/ Work(j) \/ Interrupted(j)
    BY DEF Next
<1>2. Work(j)
    BY <1>1 DEF RequestUpload, RequestClose, RecordUpload, Interrupted
<1> QED BY <1>2 DEF Work, StartUpload, ListExpectations, CreateExpectations, SkipEmptyRow,
           UnknownStaff, SkipDuplicate, RowThrows, Fail, ApplyPayrollPayment, EndOfFile,
           ListOpenRows, ClosePaidRow, CloseThrows, DefaultRow, Default, EndOfList,
           PostRepaid, PostOutstanding

LEMMA NextLast ==
    ASSUME Shapes, JobsDone, LastIsClosed, Next
    PROVE  LastIsClosed'
<1>1. \A r \in Rows : Payable(r)' => Payable(r)
    BY NothingReopens
<1>2. CASE last' = last
    BY <1>1, <1>2 DEF LastIsClosed
<1>3. CASE last' # last
    <2>1. PICK j \in 1 .. Slots : Mark(j)
        BY <1>3, LastMoves
    <2>2. last' = jobs[j].period /\ jobs[j].step = "marking"
        BY <2>1 DEF Mark
    <2>3. jobs[j].kind = "close"
        BY <2>2 DEF Shapes, JobsFit, JobFits
    <2>4. \A r \in Rows : r[2] = jobs[j].period => ~Payable(r)
        BY <2>2, <2>3 DEF JobsDone, CloseDone
    <2> QED BY <1>1, <2>2, <2>4 DEF LastIsClosed
<1> QED BY <1>2, <1>3

LEMMA InitDone == Init => JobsDone /\ LastIsClosed
<1> SUFFICES ASSUME Init PROVE JobsDone /\ LastIsClosed
    OBVIOUS
<1>1. \A j \in 1 .. Slots : jobs[j].kind = "none" /\ jobs[j].step = "done"
    BY DEF Init, NoJob
<1>2. JobsDone
    BY <1>1 DEF JobsDone, UploadDone, CloseDone
<1>3. last = 0
    BY DEF Init
<1> QED BY <1>2, <1>3, RowsAre DEF LastIsClosed

-----------------------------------------------------------------------------
(* The counters                                                            *)

LEMMA HeldIs ==
    ASSUME NEW job \in Job, NEW name, NEW kind
    PROVE  /\ Held(job, name, kind) \in Nat
           /\ job.gain = 0 => Held(job, name, kind) = 0
           /\ job.kind # kind => Held(job, name, kind) = 0
BY DEF Held, Job

LEMMA HeldByIs ==
    ASSUME Shapes, NEW name, NEW kind
    PROVE  /\ IsFiniteSet(1 .. Slots) /\ DOMAIN HeldBy(name, kind) = 1 .. Slots
           /\ \A j \in 1 .. Slots : HeldBy(name, kind)[j] = Held(jobs[j], name, kind)
           /\ \A j \in 1 .. Slots : HeldBy(name, kind)[j] \in Nat
           /\ SumFunction(HeldBy(name, kind)) \in Nat
<1>1. IsFiniteSet(1 .. Slots)
    <2>1. Slots \in Nat
        BY UploadConstants
    <2>2. 0 \in Int /\ 1 \in Int /\ Slots \in Int
        BY <2>1
    <2> QED BY <2>2, FS_Interval
<1>2. /\ DOMAIN HeldBy(name, kind) = 1 .. Slots
      /\ \A j \in 1 .. Slots : HeldBy(name, kind)[j] = Held(jobs[j], name, kind)
    BY DEF HeldBy
<1>3. \A j \in 1 .. Slots : HeldBy(name, kind)[j] \in Nat
    BY <1>2, JobIs, HeldIs DEF Shapes
<1>4. SumFunction(HeldBy(name, kind)) \in Nat
    BY <1>1, <1>2, <1>3, FiniteSumNat
<1> QED BY <1>1, <1>2, <1>3, <1>4

\* When one job moves, what the jobs hold changes by what it holds.
LEMMA HeldChange ==
    ASSUME Shapes, NEW j \in 1 .. Slots, NEW job \in Job, jobs' = [jobs EXCEPT ![j] = job],
           NEW name, NEW kind
    PROVE  /\ SumFunction(HeldBy(name, kind)') + Held(jobs[j], name, kind)
                 = SumFunction(HeldBy(name, kind)) + Held(job, name, kind)
           /\ SumFunction(HeldBy(name, kind)') \in Nat
<1> DEFINE f == HeldBy(name, kind)
           g == HeldBy(name, kind)'
<1>1. jobs \in [1 .. Slots -> Job]
    BY DEF Shapes, TypeOK
<1>2. /\ IsFiniteSet(DOMAIN f) /\ DOMAIN f = 1 .. Slots /\ f[j] = Held(jobs[j], name, kind)
      /\ \A k \in DOMAIN f : f[k] \in Nat
    BY HeldByIs
<1>3. DOMAIN g = 1 .. Slots
    BY DEF HeldBy
<1>4. g[j] = Held(job, name, kind)
    BY <1>1 DEF HeldBy, Held
<1>5. \A k \in DOMAIN f \ {j} : g[k] = f[k]
    BY <1>1 DEF HeldBy, Held
<1>6. g[j] \in Nat
    BY <1>4, HeldIs
<1> HIDE DEF f, g
<1>7. \A k \in DOMAIN f : f[k] \in Nat /\ g[k] \in Nat
    BY <1>2, <1>5, <1>6
<1>8. SumFunction(g) + f[j] = SumFunction(f) + g[j]
    BY <1>2, <1>3, <1>5, <1>7, SumChange
<1>9. SumFunction(g) \in Nat
    BY <1>2, <1>3, <1>7, FiniteSumNat
<1> QED BY <1>2, <1>4, <1>8, <1>9 DEF f, g

LEMMA InitCounters == Init => CountersFit
<1> SUFFICES ASSUME Init PROVE CountersFit
    OBVIOUS
<1>1. Shapes
    BY InitShapes
<1>2. \A j \in 1 .. Slots : jobs[j] = NoJob
    BY DEF Init
<1>3. ASSUME NEW name, NEW kind PROVE SumFunction(HeldBy(name, kind)) = 0
    <2>1. \A j \in 1 .. Slots : Held(jobs[j], name, kind) = 0
        BY <1>2 DEF Held, NoJob
    <2>2. HeldBy(name, kind) = [j \in DOMAIN HeldBy(name, kind) |-> HeldBy(name, kind)[j]]
        BY DEF HeldBy
    <2>3. /\ IsFiniteSet(DOMAIN HeldBy(name, kind))
          /\ \A j \in DOMAIN HeldBy(name, kind) : HeldBy(name, kind)[j] = 0
        BY <1>1, <2>1, HeldByIs
    <2> QED BY <2>2, <2>3, SumOfZeros
<1>4. SumFunction(Applied) = 0
    <2>1. DOMAIN receipts = {}
        BY DEF Init
    <2> QED BY <2>1, SumNone DEF Applied
<1>5. Owed = Debt
    <2>1. \A s \in Staff : accounts[s].owed = Debt[s]
        BY DEF Init
    <2> QED BY <2>1, UploadConstants DEF Owed
<1>6. counters.repaid = 0 /\ counters.outstanding = SumFunction(Debt)
    BY DEF Init
<1>7. SumFunction(Debt) \in Nat
    BY UploadConstants, FiniteSumNat
<1> QED BY <1>3, <1>4, <1>5, <1>6, <1>7 DEF CountersFit

(***************************************************************************)
(* A step of one job that leaves the counters alone.  What it applies to   *)
(* debts or charges is in the job's statistics, and lost only with them.   *)
(***************************************************************************)
LEMMA StatisticsMove ==
    ASSUME Shapes, Shapes', CountersFit, counters' = counters, deaths' = 0 => deaths = 0,
           NEW j \in 1 .. Slots, NEW job \in Job, jobs' = [jobs EXCEPT ![j] = job],
           jobs[j].step = "failed" => job.step = "failed",
           NEW applied \in Nat, NEW charged \in Nat,
           SumFunction(Applied') = SumFunction(Applied) + applied,
           SumFunction(Owed') + applied = SumFunction(Owed) + charged,
           Held(job, "repaid", "upload") <= Held(jobs[j], "repaid", "upload") + applied,
           Held(job, "outstanding", "upload") <= Held(jobs[j], "outstanding", "upload") + applied,
           job.step # "failed" /\ deaths' = 0 =>
              /\ Held(job, "repaid", "upload") = Held(jobs[j], "repaid", "upload") + applied
              /\ Held(job, "outstanding", "upload") = Held(jobs[j], "outstanding", "upload") + applied
              /\ Held(job, "outstanding", "close") = Held(jobs[j], "outstanding", "close") + charged
    PROVE  CountersFit'
<1> DEFINE U == SumFunction(HeldBy("repaid", "upload"))
           V == SumFunction(HeldBy("outstanding", "upload"))
           C == SumFunction(HeldBy("outstanding", "close"))
           Un == SumFunction(HeldBy("repaid", "upload")')
           Vn == SumFunction(HeldBy("outstanding", "upload")')
           Cn == SumFunction(HeldBy("outstanding", "close")')
           A == SumFunction(Applied)
           W == SumFunction(Owed)
           An == SumFunction(Applied')
           Wn == SumFunction(Owed')
           D == SumFunction(Debt)
           R == counters.repaid
           O == counters.outstanding
           u == Held(jobs[j], "repaid", "upload")
           v == Held(jobs[j], "outstanding", "upload")
           c == Held(jobs[j], "outstanding", "close")
           un == Held(job, "repaid", "upload")
           vn == Held(job, "outstanding", "upload")
           cn == Held(job, "outstanding", "close")
<1>1. /\ R + U <= A /\ O + A >= D + V
      /\ Lossless => R + U = A /\ O + C >= W + V /\ (A <= D => O + C = W + V)
    BY DEF CountersFit
<1>2. /\ Un + u = U + un /\ Vn + v = V + vn /\ Cn + c = C + cn
      /\ Un \in Nat /\ Vn \in Nat /\ Cn \in Nat
    BY HeldChange
<1>3. U \in Nat /\ V \in Nat /\ C \in Nat
    BY HeldByIs
<1>4. u \in Nat /\ v \in Nat /\ c \in Nat /\ un \in Nat /\ vn \in Nat /\ cn \in Nat
    BY JobIs, HeldIs DEF Shapes
<1>5. A \in Nat /\ W \in Nat /\ D \in Nat /\ R \in Nat /\ O \in Nat
    BY SumsAre, UploadConstants, FiniteSumNat DEF Shapes, TypeOK
<1>6. Wn \in Nat
    <2>1. IsFiniteSet(DOMAIN Owed') /\ \A s \in DOMAIN Owed' : Owed'[s] \in Nat
        BY UploadConstants DEF Owed, Shapes, TypeOK
    <2> QED BY <2>1, FiniteSumNat
<1>7. Lossless' => Lossless /\ job.step # "failed" /\ deaths' = 0
    <2>1. jobs \in [1 .. Slots -> Job]
        BY DEF Shapes, TypeOK
    <2>2. \A k \in 1 .. Slots : jobs'[k] = IF k = j THEN job ELSE jobs[k]
        BY <2>1
    <2> QED BY <2>2 DEF Lossless
<1>8. An = A + applied /\ Wn + applied = W + charged /\ un <= u + applied /\ vn <= v + applied
    OBVIOUS
<1>9. Lossless' => un = u + applied /\ vn = v + applied /\ cn = c + charged
    BY <1>7
<1>10. CountersFit' <=>
          /\ R + Un <= An /\ O + An >= D + Vn
          /\ Lossless' => R + Un = An /\ O + Cn >= Wn + Vn /\ (An <= D => O + Cn = Wn + Vn)
    BY DEF CountersFit
<1> HIDE DEF U, V, C, Un, Vn, Cn, A, W, An, Wn, D, R, O, u, v, c, un, vn, cn
<1>11. R + Un <= An /\ O + An >= D + Vn
    BY <1>1, <1>2, <1>3, <1>4, <1>5, <1>8
<1>12. ASSUME Lossless' PROVE R + Un = An /\ O + Cn >= Wn + Vn /\ (An <= D => O + Cn = Wn + Vn)
    <2>1. R + U = A /\ O + C >= W + V /\ (A <= D => O + C = W + V)
        BY <1>1, <1>7, <1>12
    <2>2. un = u + applied /\ vn = v + applied /\ cn = c + charged
        BY <1>9, <1>12
    <2>3. Un = U + applied /\ Vn = V + applied /\ Cn = C + charged
        BY <1>2, <1>3, <1>4, <2>2
    <2> QED BY <1>3, <1>5, <1>6, <1>8, <2>1, <2>3
<1> QED BY <1>10, <1>11, <1>12

SameHeld(job, old) ==
    /\ Held(job, "repaid", "upload") = Held(old, "repaid", "upload")
    /\ Held(job, "outstanding", "upload") = Held(old, "outstanding", "upload")
    /\ Held(job, "outstanding", "close") = Held(old, "outstanding", "close")

\* A step that applies and charges nothing, or loses the statistics of a job.
LEMMA QuietMove ==
    ASSUME Shapes, Shapes', CountersFit, UNCHANGED <<receipts, accounts, counters>>,
           deaths' = 0 => deaths = 0,
           NEW j \in 1 .. Slots, NEW job \in Job, jobs' = [jobs EXCEPT ![j] = job],
           jobs[j].step = "failed" => job.step = "failed",
           \/ SameHeld(job, jobs[j])
           \/ job.gain = 0 /\ (job.step = "failed" \/ deaths' # 0)
    PROVE  CountersFit'
<1>1. SumFunction(Applied') = SumFunction(Applied) + 0
    <2>1. Applied' = Applied /\ SumFunction(Applied) \in Nat
        BY SumsAre DEF Applied
    <2> QED BY <2>1
<1>2. SumFunction(Owed') + 0 = SumFunction(Owed) + 0
    <2>1. Owed' = Owed
        BY DEF Owed
    <2> QED BY <2>1
<1>3. \A name, kind : Held(jobs[j], name, kind) \in Nat
    BY JobIs, HeldIs DEF Shapes
<1>4. \A name, kind : Held(jobs[j], name, kind) + 0 = Held(jobs[j], name, kind)
    BY <1>3
<1>5. CASE SameHeld(job, jobs[j])
    <2>1. /\ Held(job, "repaid", "upload") <= Held(jobs[j], "repaid", "upload") + 0
          /\ Held(job, "outstanding", "upload") <= Held(jobs[j], "outstanding", "upload") + 0
          /\ Held(job, "repaid", "upload") = Held(jobs[j], "repaid", "upload") + 0
          /\ Held(job, "outstanding", "upload") = Held(jobs[j], "outstanding", "upload") + 0
          /\ Held(job, "outstanding", "close") = Held(jobs[j], "outstanding", "close") + 0
        BY <1>3, <1>4, <1>5 DEF SameHeld
    <2> QED BY <1>1, <1>2, <2>1, StatisticsMove
<1>6. CASE job.gain = 0 /\ (job.step = "failed" \/ deaths' # 0)
    <2>1. \A name, kind : Held(job, name, kind) = 0
        BY <1>6, HeldIs
    <2>2. /\ Held(job, "repaid", "upload") <= Held(jobs[j], "repaid", "upload") + 0
          /\ Held(job, "outstanding", "upload") <= Held(jobs[j], "outstanding", "upload") + 0
        BY <1>3, <1>4, <2>1
    <2>3. ~(job.step # "failed" /\ deaths' = 0)
        BY <1>6
    <2>4. 0 \in Nat
        OBVIOUS
    <2> QED BY <1>1, <1>2, <2>2, <2>3, <2>4, StatisticsMove
<1> QED BY <1>5, <1>6

\* Two jobs without statistics, and two that differ in nothing a counter waits for.
LEMMA HeldSame ==
    ASSUME NEW job \in Job, NEW old \in Job,
           \/ job.gain = 0 /\ old.gain = 0
           \/ /\ job.kind = old.kind /\ job.gain = old.gain
              /\ job.step = old.step /\ job.posting = old.posting
    PROVE  SameHeld(job, old)
<1>1. CASE job.gain = 0 /\ old.gain = 0
    BY <1>1, HeldIs DEF SameHeld
<1>2. CASE /\ job.kind = old.kind /\ job.gain = old.gain
           /\ job.step = old.step /\ job.posting = old.posting
    BY <1>2 DEF SameHeld, Held
<1> QED BY <1>1, <1>2

LEMMA RequestCounters ==
    ASSUME Shapes, CountersFit, Next, NEW j \in 1 .. Slots,
           \/ \E f \in Files : RequestUpload(j, f)
           \/ \E p \in Periods : RequestClose(j, p)
    PROVE  CountersFit'
<1>1. Shapes'
    BY NextShapes
<1>2. UNCHANGED <<receipts, accounts, counters>> /\ deaths' = deaths
    BY DEF RequestUpload, RequestClose, books
<1>3. jobs[j] \in Job /\ jobs[j].gain = 0 /\ jobs[j].step = "done"
    BY DEF RequestUpload, RequestClose, Free, Shapes, TypeOK, JobsFit, JobFits
<1> SUFFICES \E job : jobs' = [jobs EXCEPT ![j] = job] /\ job.gain = 0
    <2>1. PICK job : jobs' = [jobs EXCEPT ![j] = job] /\ job.gain = 0
        OBVIOUS
    <2>2. jobs \in [1 .. Slots -> Job] /\ jobs' \in [1 .. Slots -> Job]
        BY <1>1 DEF Shapes, TypeOK
    <2>3. job \in Job
        BY <2>1, <2>2
    <2>4. SameHeld(job, jobs[j])
        BY <1>3, <2>1, <2>3, HeldSame
    <2> QED BY <1>1, <1>2, <1>3, <2>1, <2>3, <2>4, QuietMove
<1>4. ASSUME NEW f \in Files, RequestUpload(j, f)
      PROVE  \E job : jobs' = [jobs EXCEPT ![j] = job] /\ job.gain = 0
    <2>1. PICK p : jobs' = [jobs EXCEPT ![j] = [NoJob EXCEPT
                !.kind = "upload", !.file = f, !.period = p, !.step = "queued",
                !.unrecorded = TRUE]]
        BY <1>4 DEF RequestUpload
    <2>2. PICK job : job = [NoJob EXCEPT !.kind = "upload", !.file = f, !.period = p,
                                !.step = "queued", !.unrecorded = TRUE]
        OBVIOUS
    <2>3. job.gain = 0
        BY <2>2 DEF NoJob
    <2> QED BY <2>1, <2>2, <2>3
<1>5. ASSUME NEW p \in Periods, RequestClose(j, p)
      PROVE  \E job : jobs' = [jobs EXCEPT ![j] = job] /\ job.gain = 0
    <2>1. PICK job : job = [NoJob EXCEPT !.kind = "close", !.period = p, !.step = "queued"]
        OBVIOUS
    <2>2. job.gain = 0
        BY <2>1 DEF NoJob
    <2>3. jobs' = [jobs EXCEPT ![j] = job]
        BY <1>5, <2>1 DEF RequestClose
    <2> QED BY <2>2, <2>3
<1> QED BY <1>4, <1>5

\* A job without statistics goes on, or one that lists, records or passes over something.
LEMMA QuietCounters ==
    ASSUME Shapes, CountersFit, Next, NEW j \in 1 .. Slots,
           \/ RecordUpload(j) \/ StartUpload(j) \/ ListExpectations(j) \/ CreateExpectations(j)
           \/ ListOpenRows(j) \/ Mark(j)
           \/ SkipEmptyRow(j) \/ UnknownStaff(j) \/ SkipDuplicate(j)
           \/ \E r \in Rows : ClosePaidRow(j, r)
    PROVE  CountersFit'
<1>1. Shapes'
    BY NextShapes
<1>2. UNCHANGED <<receipts, accounts, counters>> /\ deaths' = deaths
    BY DEF RecordUpload, StartUpload, ListExpectations, CreateExpectations, ListOpenRows, Mark,
           SkipEmptyRow, UnknownStaff, SkipDuplicate, ClosePaidRow, books
<1>3. PICK old : old = jobs[j]
    OBVIOUS
<1>4. old \in Job /\ JobFits(old)
    BY <1>3 DEF Shapes, TypeOK, JobsFit
<1> SUFFICES \E job : /\ job \in Job /\ jobs' = [jobs EXCEPT ![j] = job]
                      /\ old.step = "failed" => job.step = "failed"
                      /\ SameHeld(job, old)
    BY <1>1, <1>2, <1>3, QuietMove
<1>5. ASSUME NEW job, jobs' = [jobs EXCEPT ![j] = job] PROVE job \in Job
    <2>1. jobs \in [1 .. Slots -> Job] /\ jobs' \in [1 .. Slots -> Job]
        BY <1>1 DEF Shapes, TypeOK
    <2>2. jobs'[j] = job
        BY <1>5, <2>1
    <2> QED BY <2>1, <2>2
<1>6. CASE RecordUpload(j)
    <2>1. PICK job : job = [old EXCEPT !.unrecorded = FALSE]
        OBVIOUS
    <2>2. jobs' = [jobs EXCEPT ![j] = job]
        BY <1>3, <1>6, <2>1 DEF RecordUpload
    <2>3. job \in Job
        BY <1>5, <2>2
    <2>4. /\ job.kind = old.kind /\ job.gain = old.gain
          /\ job.step = old.step /\ job.posting = old.posting
        BY <1>4, <2>1 DEF Job
    <2> QED BY <1>4, <2>2, <2>3, <2>4, HeldSame
<1>7. CASE SkipEmptyRow(j) \/ UnknownStaff(j) \/ SkipDuplicate(j)
    <2>1. PICK job : job = [old EXCEPT !.row = @ + 1, !.gain = @ + 0]
        OBVIOUS
    <2>2. jobs' = [jobs EXCEPT ![j] = job]
        BY <1>3, <1>7, <2>1 DEF SkipEmptyRow, UnknownStaff, SkipDuplicate, NextRow
    <2>3. job \in Job
        BY <1>5, <2>2
    <2>4. /\ job.kind = old.kind /\ job.gain = old.gain
          /\ job.step = old.step /\ job.posting = old.posting
        BY <1>4, <2>1 DEF Job
    <2> QED BY <1>4, <2>2, <2>3, <2>4, HeldSame
<1>8. CASE \E r \in Rows : ClosePaidRow(j, r)
    <2>1. PICK r \in Rows : ClosePaidRow(j, r)
        BY <1>8
    <2>2. PICK job : job = [old EXCEPT !.todo = @ \ {r}]
        OBVIOUS
    <2>3. jobs' = [jobs EXCEPT ![j] = job]
        BY <1>3, <2>1, <2>2 DEF ClosePaidRow
    <2>4. job \in Job
        BY <1>5, <2>3
    <2>5. /\ job.kind = old.kind /\ job.gain = old.gain
          /\ job.step = old.step /\ job.posting = old.posting
        BY <1>4, <2>2 DEF Job
    <2> QED BY <1>4, <2>3, <2>4, <2>5, HeldSame
<1>9. CASE StartUpload(j) \/ ListExpectations(j) \/ CreateExpectations(j) \/ ListOpenRows(j) \/ Mark(j)
    <2>1. old.gain = 0 /\ old.step # "failed"
        BY <1>3, <1>4, <1>9 DEF JobFits, StartUpload, ListExpectations, CreateExpectations,
           ListOpenRows, Mark
    <2>2. PICK job : jobs' = [jobs EXCEPT ![j] = job] /\ job.gain = 0
        <3>1. PICK skipped, done : skipped = Ended(old, "skipped") /\ done = Ended(old, "done")
            OBVIOUS
        <3>2. skipped.gain = 0 /\ done.gain = 0
            BY <1>4, <3>1 DEF Ended, Job
        <3>3. CASE Mark(j)
            BY <1>3, <3>1, <3>2, <3>3 DEF Mark, End
        <3>4. CASE StartUpload(j)
            <4>1. PICK job : job = [old EXCEPT !.step = "started"]
                OBVIOUS
            <4>2. job.gain = 0
                BY <1>4, <2>1, <4>1 DEF Job
            <4>3. jobs' = [jobs EXCEPT ![j] = skipped] \/ jobs' = [jobs EXCEPT ![j] = job]
                BY <1>3, <3>1, <3>4, <4>1 DEF StartUpload, End
            <4> QED BY <3>2, <4>2, <4>3
        <3>5. CASE CreateExpectations(j)
            <4>1. PICK job : job = [old EXCEPT !.step = "applying", !.row = 1, !.todo = {}]
                OBVIOUS
            <4>2. job.gain = 0
                BY <1>4, <2>1, <4>1 DEF Job
            <4> QED BY <1>3, <3>5, <4>1, <4>2 DEF CreateExpectations
        <3>6. CASE ListExpectations(j) \/ ListOpenRows(j)
            <4>1. PICK todo : \/ jobs' = [jobs EXCEPT ![j] = [old EXCEPT !.step = "creating", !.todo = todo]]
                              \/ jobs' = [jobs EXCEPT ![j] = [old EXCEPT !.step = "closing", !.todo = todo]]
                <5>1. CASE ListExpectations(j)
                    BY <1>3, <5>1 DEF ListExpectations
                <5>2. CASE ListOpenRows(j)
                    BY <1>3, <5>2 DEF ListOpenRows
                <5> QED BY <3>6, <5>1, <5>2
            <4>2. PICK creating, closing : /\ creating = [old EXCEPT !.step = "creating", !.todo = todo]
                                           /\ closing = [old EXCEPT !.step = "closing", !.todo = todo]
                OBVIOUS
            <4>3. creating.gain = 0 /\ closing.gain = 0
                BY <1>4, <2>1, <4>2 DEF Job
            <4> QED BY <4>1, <4>2, <4>3
        <3> QED BY <1>9, <3>3, <3>4, <3>5, <3>6
    <2>3. job \in Job
        BY <1>5, <2>2
    <2>4. SameHeld(job, old)
        BY <1>4, <2>1, <2>2, <2>3, HeldSame
    <2> QED BY <2>1, <2>2, <2>3, <2>4
<1> QED BY <1>6, <1>7, <1>8, <1>9

\* At the end of its rows a job keeps its statistics, for the counters its kind posts to.
LEMMA EndCounters ==
    ASSUME Shapes, CountersFit, Next, NEW j \in 1 .. Slots, EndOfFile(j) \/ EndOfList(j)
    PROVE  CountersFit'
<1>1. Shapes'
    BY NextShapes
<1>2. UNCHANGED <<receipts, accounts, counters>> /\ deaths' = deaths
    BY DEF EndOfFile, EndOfList, books
<1>3. PICK old : old = jobs[j]
    OBVIOUS
<1>4. old \in Job /\ JobFits(old) /\ old.step \in {"applying", "closing"}
    BY <1>3 DEF Shapes, TypeOK, JobsFit, EndOfFile, EndOfList
<1>5. PICK job : job \in Job /\ jobs' = [jobs EXCEPT ![j] = job] /\ SameHeld(job, old)
    <2>1. ASSUME NEW job, jobs' = [jobs EXCEPT ![j] = job] PROVE job \in Job
        <3>1. jobs \in [1 .. Slots -> Job] /\ jobs' \in [1 .. Slots -> Job]
            BY <1>1 DEF Shapes, TypeOK
        <3>2. jobs'[j] = job
            BY <2>1, <3>1
        <3> QED BY <3>1, <3>2
    <2>2. CASE EndOfFile(j) /\ old.gain = 0
        <3>1. PICK job : job = Ended(old, "done")
            OBVIOUS
        <3>2. jobs' = [jobs EXCEPT ![j] = job] /\ job.gain = 0
            BY <1>3, <1>4, <2>2, <3>1 DEF EndOfFile, End, Ended, Job
        <3>3. job \in Job
            BY <2>1, <3>2
        <3> QED BY <1>4, <2>2, <3>2, <3>3, HeldSame
    <2>3. CASE EndOfFile(j) /\ old.gain # 0
        <3>1. PICK job : job = [old EXCEPT !.step = "posting", !.row = 0,
                                    !.posting = {"repaid", "outstanding"}]
            OBVIOUS
        <3>2. jobs' = [jobs EXCEPT ![j] = job]
            BY <1>3, <2>3, <3>1 DEF EndOfFile
        <3>3. job \in Job
            BY <2>1, <3>2
        <3>4. /\ job.kind = old.kind /\ job.gain = old.gain /\ job.step = "posting"
              /\ job.posting = {"repaid", "outstanding"}
            BY <1>4, <3>1 DEF Job
        <3>5. SameHeld(job, old)
            BY <1>4, <3>4 DEF SameHeld, Held
        <3> QED BY <3>2, <3>3, <3>5
    <2>4. CASE EndOfList(j) /\ old.gain = 0
        <3>1. PICK job : job = [old EXCEPT !.step = "marking"]
            OBVIOUS
        <3>2. jobs' = [jobs EXCEPT ![j] = job] /\ job.gain = 0
            BY <1>3, <1>4, <2>4, <3>1 DEF EndOfList, Job
        <3>3. job \in Job
            BY <2>1, <3>2
        <3> QED BY <1>4, <2>4, <3>2, <3>3, HeldSame
    <2>5. CASE EndOfList(j) /\ old.gain # 0
        <3>1. PICK job : job = [old EXCEPT !.step = "posting", !.posting = {"outstanding"}]
            OBVIOUS
        <3>2. jobs' = [jobs EXCEPT ![j] = job] /\ old.step = "closing"
            BY <1>3, <2>5, <3>1 DEF EndOfList
        <3>3. job \in Job
            BY <2>1, <3>2
        <3>4. /\ job.kind = old.kind /\ job.gain = old.gain /\ job.step = "posting"
              /\ job.posting = {"outstanding"} /\ old.kind = "close"
            BY <1>4, <3>1, <3>2 DEF Job, JobFits
        <3>5. SameHeld(job, old)
            BY <3>2, <3>4 DEF SameHeld, Held
        <3> QED BY <3>2, <3>3, <3>5
    <2> QED BY <2>2, <2>3, <2>4, <2>5
<1>6. jobs[j].step = "failed" => job.step = "failed"
    BY <1>3, <1>4
<1> QED BY <1>1, <1>2, <1>3, <1>5, <1>6, QuietMove

\* A job that fails, or whose worker dies, loses its statistics.
LEMMA LossCounters ==
    ASSUME Shapes, CountersFit, Next, NEW j \in 1 .. Slots,
           RowThrows(j) \/ (\E r \in Rows : CloseThrows(j, r)) \/ Interrupted(j)
    PROVE  CountersFit'
<1>1. Shapes'
    BY NextShapes
<1>2. /\ UNCHANGED <<receipts, accounts, counters>>
      /\ deaths' = 0 => deaths = 0
      /\ Interrupted(j) => deaths' # 0
    <2>1. deaths \in Nat
        BY UploadConstants DEF Shapes, TypeOK
    <2> QED BY <2>1 DEF RowThrows, CloseThrows, Fail, Interrupted, books
<1>3. PICK old : old = jobs[j]
    OBVIOUS
<1>4. old \in Job /\ old.kind # "none" /\ JobFits(old) /\ old.step # "failed"
    <2>1. jobs[j].step # "done" /\ jobs[j].step # "failed"
        BY DEF RowThrows, OfStaff, AtRow, CloseThrows, Interrupted, Running
    <2> QED BY <1>3, <2>1, RunningIsAsked
<1>5. PICK failed, queued : failed = Ended(old, "failed") /\ queued = Ended(old, "queued")
    OBVIOUS
<1>6. failed \in Job /\ queued \in Job
    BY <1>4, <1>5, EndedIs
<1>7. failed.gain = 0 /\ failed.step = "failed" /\ queued.gain = 0
    BY <1>4, <1>5 DEF Ended, Job
<1>8. CASE RowThrows(j) \/ \E r \in Rows : CloseThrows(j, r)
    <2>1. jobs' = [jobs EXCEPT ![j] = failed]
        BY <1>3, <1>5, <1>8 DEF RowThrows, CloseThrows, Fail, End
    <2> QED BY <1>1, <1>2, <1>6, <1>7, <2>1, QuietMove
<1>9. CASE Interrupted(j)
    <2>1. jobs' = [jobs EXCEPT ![j] = failed] \/ jobs' = [jobs EXCEPT ![j] = queued]
        BY <1>3, <1>5, <1>9 DEF Interrupted, Restart
    <2> QED BY <1>1, <1>2, <1>3, <1>4, <1>6, <1>7, <1>9, <2>1, QuietMove
<1> QED BY <1>8, <1>9

LEMMA ApplyCounters ==
    ASSUME Shapes, CountersFit, Next, NEW j \in 1 .. Slots, ApplyPayrollPayment(j)
    PROVE  CountersFit'
<1>1. Shapes'
    BY NextShapes
<1>2. PICK applied, staff : applied = Received(j).applied /\ staff = Target(j)[1]
    OBVIOUS
<1>3. applied \in Nat /\ staff \in Staff /\ applied <= accounts[staff].owed
    BY <1>2, ApplyEffect, ReceivedIs
<1>4. UNCHANGED <<counters, deaths>>
    BY ApplyEffect
<1>5. PICK old : old = jobs[j]
    OBVIOUS
<1>6. old \in Job /\ old.kind = "upload" /\ old.step = "applying"
    BY <1>5, ApplyEffect, EntryIs DEF OfStaff, AtRow
<1>7. PICK job : job = [old EXCEPT !.row = @ + 1, !.gain = @ + applied]
    OBVIOUS
<1>8. jobs' = [jobs EXCEPT ![j] = job]
    <2>1. NextRow(j, applied)
        BY <1>2, ApplyEffect
    <2> QED BY <1>5, <1>7, <2>1 DEF NextRow
<1>9. /\ job.kind = "upload" /\ job.step = "applying" /\ job.gain = old.gain + applied
      /\ old.gain \in Nat
    BY <1>6, <1>7 DEF Job
<1>10. job \in Job
    <2>1. jobs \in [1 .. Slots -> Job] /\ jobs' \in [1 .. Slots -> Job]
        BY <1>1 DEF Shapes, TypeOK
    <2>2. jobs'[j] = job
        BY <1>8, <2>1
    <2> QED BY <2>1, <2>2
<1>11. /\ Held(job, "repaid", "upload") = Held(old, "repaid", "upload") + applied
       /\ Held(job, "outstanding", "upload") = Held(old, "outstanding", "upload") + applied
       /\ Held(job, "outstanding", "close") = Held(old, "outstanding", "close") + 0
       /\ Held(job, "repaid", "upload") \in Nat /\ Held(job, "outstanding", "upload") \in Nat
    BY <1>3, <1>6, <1>9 DEF Held
<1>12. SumFunction(Applied') = SumFunction(Applied) + applied
    <2> DEFINE f == Applied
               g == Applied'
               key == Key(j)
    <2>1. DOMAIN f = DOMAIN receipts /\ DOMAIN g = DOMAIN receipts' /\ f = [k \in DOMAIN f |-> f[k]]
        BY DEF Applied
    <2>2. /\ key \notin DOMAIN receipts /\ DOMAIN receipts' = DOMAIN receipts \cup {key}
          /\ \A k \in DOMAIN receipts : receipts'[k] = receipts[k]
          /\ receipts'[key].applied = applied
        BY <1>2, ApplyEffect
    <2>3. (\A k \in DOMAIN f : g[k] = f[k]) /\ g[key] = applied
        BY <2>2 DEF Applied
    <2>4. IsFiniteSet(DOMAIN f) /\ \A k \in DOMAIN f : f[k] \in Nat
        BY SumsAre
    <2> HIDE DEF f, g, key
    <2>5. key \notin DOMAIN f /\ DOMAIN g = DOMAIN f \cup {key}
        BY <2>1, <2>2
    <2>6. \A k \in DOMAIN g : g[k] \in Nat
        BY <1>3, <2>3, <2>4, <2>5
    <2>7. SumFunction(g) = SumFunction(f) + g[key]
        BY <2>1, <2>3, <2>4, <2>5, <2>6, SumMore
    <2> QED BY <2>3, <2>7 DEF f, g
<1>13. SumFunction(Owed') + applied = SumFunction(Owed) + 0
    <2> DEFINE f == Owed
               g == Owed'
    <2>1. DOMAIN f = Staff /\ DOMAIN g = Staff
        BY DEF Owed
    <2>2. \A s \in Staff : f[s] = accounts[s].owed /\ g[s] = accounts'[s].owed /\ f[s] \in Nat
        BY AccountIs DEF Owed, Shapes
    <2>3. \A s \in Staff : accounts'[s].owed = accounts[s].owed - IF s = staff THEN applied ELSE 0
        BY <1>2, ApplyEffect
    <2> HIDE DEF f, g
    <2>4. (\A s \in DOMAIN f \ {staff} : g[s] = f[s]) /\ g[staff] = f[staff] - applied
        BY <1>3, <2>1, <2>2, <2>3
    <2>5. \A s \in DOMAIN f : f[s] \in Nat /\ g[s] \in Nat
        BY <1>3, <2>1, <2>2, <2>4
    <2>6. IsFiniteSet(DOMAIN f)
        BY <2>1, UploadConstants
    <2>7. SumFunction(g) + f[staff] = SumFunction(f) + g[staff]
        BY <1>3, <2>1, <2>4, <2>5, <2>6, SumChange
    <2>8. SumFunction(f) \in Nat /\ SumFunction(g) \in Nat
        BY <2>1, <2>5, <2>6, FiniteSumNat
    <2>9. SumFunction(g) + applied = SumFunction(f) + 0
        BY <1>3, <2>1, <2>4, <2>5, <2>7, <2>8
    <2> QED BY <2>9 DEF f, g
<1>14. /\ Held(job, "repaid", "upload") <= Held(jobs[j], "repaid", "upload") + applied
       /\ Held(job, "outstanding", "upload") <= Held(jobs[j], "outstanding", "upload") + applied
       /\ Held(job, "repaid", "upload") = Held(jobs[j], "repaid", "upload") + applied
       /\ Held(job, "outstanding", "upload") = Held(jobs[j], "outstanding", "upload") + applied
       /\ Held(job, "outstanding", "close") = Held(jobs[j], "outstanding", "close") + 0
    BY <1>5, <1>11
<1>15. jobs[j].step = "failed" => job.step = "failed"
    BY <1>5, <1>6
<1> QED BY <1>1, <1>3, <1>4, <1>8, <1>10, <1>12, <1>13, <1>14, <1>15, StatisticsMove

LEMMA DefaultCounters ==
    ASSUME Shapes, CountersFit, Next, NEW j \in 1 .. Slots, NEW r \in Rows, DefaultRow(j, r)
    PROVE  CountersFit'
<1>1. Shapes'
    BY NextShapes
<1>2. PICK penalty : penalty = Shortfall(r) * PenaltyRate
    OBVIOUS
<1>3. /\ penalty \in Nat /\ UNCHANGED <<counters, deaths, receipts>>
      /\ \A s \in Staff : accounts'[s].owed = accounts[s].owed + IF s = r[1] THEN penalty ELSE 0
    BY <1>2, DefaultEffect
<1>4. PICK old : old = jobs[j]
    OBVIOUS
<1>5. old \in Job /\ JobFits(old) /\ old.step = "closing"
    BY <1>4, DefaultEffect DEF Shapes, TypeOK, JobsFit
<1>6. PICK job : job = [old EXCEPT !.todo = @ \ {r}, !.gain = @ + penalty]
    OBVIOUS
<1>7. jobs' = [jobs EXCEPT ![j] = job]
    BY <1>2, <1>4, <1>6, DefaultEffect
<1>8. /\ job.kind = "close" /\ old.kind = "close" /\ job.step = "closing"
      /\ job.gain = old.gain + penalty /\ old.gain \in Nat
    BY <1>5, <1>6 DEF Job, JobFits
<1>9. job \in Job
    <2>1. jobs \in [1 .. Slots -> Job] /\ jobs' \in [1 .. Slots -> Job]
        BY <1>1 DEF Shapes, TypeOK
    <2>2. jobs'[j] = job
        BY <1>7, <2>1
    <2> QED BY <2>1, <2>2
<1>10. SumFunction(Applied') = SumFunction(Applied) + 0
    <2>1. Applied' = Applied /\ SumFunction(Applied) \in Nat
        BY <1>3, SumsAre DEF Applied
    <2> QED BY <2>1
<1>11. SumFunction(Owed') + 0 = SumFunction(Owed) + penalty
    <2> DEFINE f == Owed
               g == Owed'
    <2>1. DOMAIN f = Staff /\ DOMAIN g = Staff /\ r[1] \in Staff
        BY RowsAre DEF Owed
    <2>2. \A s \in Staff : f[s] = accounts[s].owed /\ g[s] = accounts'[s].owed /\ f[s] \in Nat
        BY AccountIs DEF Owed, Shapes
    <2> HIDE DEF f, g
    <2>3. (\A s \in DOMAIN f \ {r[1]} : g[s] = f[s]) /\ g[r[1]] = f[r[1]] + penalty
        BY <1>3, <2>1, <2>2
    <2>4. \A s \in DOMAIN f : f[s] \in Nat /\ g[s] \in Nat
        BY <1>3, <2>1, <2>2, <2>3
    <2>5. IsFiniteSet(DOMAIN f)
        BY <2>1, UploadConstants
    <2>6. SumFunction(g) + f[r[1]] = SumFunction(f) + g[r[1]]
        BY <2>1, <2>3, <2>4, <2>5, SumChange
    <2>7. SumFunction(f) \in Nat /\ SumFunction(g) \in Nat
        BY <2>1, <2>4, <2>5, FiniteSumNat
    <2>8. SumFunction(g) + 0 = SumFunction(f) + penalty
        BY <1>3, <2>1, <2>3, <2>4, <2>6, <2>7
    <2> QED BY <2>8 DEF f, g
<1>12. /\ Held(job, "repaid", "upload") = 0 /\ Held(old, "repaid", "upload") = 0
       /\ Held(job, "outstanding", "upload") = 0 /\ Held(old, "outstanding", "upload") = 0
       /\ Held(job, "outstanding", "close") = Held(old, "outstanding", "close") + penalty
    BY <1>5, <1>8 DEF Held
<1>13. /\ Held(job, "repaid", "upload") <= Held(jobs[j], "repaid", "upload") + 0
       /\ Held(job, "outstanding", "upload") <= Held(jobs[j], "outstanding", "upload") + 0
       /\ Held(job, "repaid", "upload") = Held(jobs[j], "repaid", "upload") + 0
       /\ Held(job, "outstanding", "upload") = Held(jobs[j], "outstanding", "upload") + 0
       /\ Held(job, "outstanding", "close") = Held(jobs[j], "outstanding", "close") + penalty
    BY <1>4, <1>12
<1>14. jobs[j].step = "failed" => job.step = "failed"
    BY <1>4, <1>5
<1> QED BY <1>1, <1>3, <1>7, <1>9, <1>10, <1>11, <1>13, <1>14, StatisticsMove

(***************************************************************************)
(* Statistics are posted.  TOTAL_REPAID takes an upload's gain; what       *)
(* BALANCE_OUTSTANDING takes of one stops at zero, which it does only when *)
(* more than the first debt was applied.                                   *)
(***************************************************************************)
LEMMA PostCounters ==
    ASSUME Shapes, CountersFit, NEW j \in 1 .. Slots, PostRepaid(j) \/ PostOutstanding(j)
    PROVE  CountersFit'
<1>1. PICK name \in {"repaid", "outstanding"} :
         /\ name \in jobs[j].posting /\ Posted(j, name)
         /\ name = "repaid" <=> PostRepaid(j)
         /\ name = "outstanding" => PostOutstanding(j)
    <2>1. CASE PostRepaid(j)
        BY <2>1 DEF PostRepaid
    <2>2. CASE ~PostRepaid(j)
        BY <2>2 DEF PostOutstanding
    <2> QED BY <2>1, <2>2
<1>2. PICK old : old = jobs[j]
    OBVIOUS
<1>3. /\ old \in Job /\ old.step = "posting" /\ old.kind \in {"upload", "close"} /\ old.gain \in Nat
      /\ old.posting \subseteq {"repaid", "outstanding"}
      /\ name = "repaid" => old.kind = "upload"
    <2>1. old \in Job /\ JobFits(old)
        BY <1>2 DEF Shapes, TypeOK, JobsFit
    <2>2. old.step = "posting" /\ old.kind \in {"upload", "close"}
        BY <1>1, <1>2, PostedEffect
    <2> QED BY <1>1, <1>2, <2>1, <2>2 DEF Job, JobFits
<1>4. PICK job \in Job :
         /\ jobs' = [jobs EXCEPT ![j] = job] /\ job.step # "failed"
         /\ \A other, kind : Held(job, other, kind) =
               IF other = name THEN 0 ELSE Held(old, other, kind)
    <2>1. PICK posting, marking, done :
             /\ posting = [old EXCEPT !.posting = @ \ {name}]
             /\ marking = Ended(old, "marking") /\ done = Ended(old, "done")
        OBVIOUS
    <2>2. /\ posting.step = "posting" /\ posting.posting = old.posting \ {name}
          /\ posting.kind = old.kind /\ posting.gain = old.gain
          /\ marking.gain = 0 /\ marking.step = "marking" /\ done.gain = 0 /\ done.step = "done"
        BY <1>3, <2>1 DEF Ended, Job
    <2>3. posting \in Job /\ marking \in Job /\ done \in Job
        BY <1>3, <2>1 DEF Ended, Job
    <2>4. \A other, kind : Held(posting, other, kind) =
               IF other = name THEN 0 ELSE Held(old, other, kind)
        BY <1>3, <2>2 DEF Held
    <2>5. ASSUME old.posting = {name}, NEW other, NEW kind
          PROVE  IF other = name THEN TRUE ELSE Held(old, other, kind) = 0
        BY <1>3, <2>5 DEF Held
    <2>6. \A other, kind : Held(marking, other, kind) = 0 /\ Held(done, other, kind) = 0
        BY <2>2, <2>3, HeldIs
    <2>7. \/ jobs' = [jobs EXCEPT ![j] = posting]
          \/ old.posting = {name} /\ jobs' = [jobs EXCEPT ![j] = marking]
          \/ old.posting = {name} /\ jobs' = [jobs EXCEPT ![j] = done]
        BY <1>1, <1>2, <2>1, PostedEffect
    <2>8. CASE jobs' = [jobs EXCEPT ![j] = posting]
        BY <2>2, <2>3, <2>4, <2>8
    <2>9. CASE old.posting = {name} /\ jobs' = [jobs EXCEPT ![j] = marking]
        BY <2>2, <2>3, <2>5, <2>6, <2>9
    <2>10. CASE old.posting = {name} /\ jobs' = [jobs EXCEPT ![j] = done]
        BY <2>2, <2>3, <2>5, <2>6, <2>10
    <2> QED BY <2>7, <2>8, <2>9, <2>10
<1> DEFINE U == SumFunction(HeldBy("repaid", "upload"))
           V == SumFunction(HeldBy("outstanding", "upload"))
           C == SumFunction(HeldBy("outstanding", "close"))
           Un == SumFunction(HeldBy("repaid", "upload")')
           Vn == SumFunction(HeldBy("outstanding", "upload")')
           Cn == SumFunction(HeldBy("outstanding", "close")')
           A == SumFunction(Applied)
           W == SumFunction(Owed)
           D == SumFunction(Debt)
           R == counters.repaid
           O == counters.outstanding
           Rn == counters'.repaid
           On == counters'.outstanding
           u == Held(old, "repaid", "upload")
           v == Held(old, "outstanding", "upload")
           c == Held(old, "outstanding", "close")
           un == Held(job, "repaid", "upload")
           vn == Held(job, "outstanding", "upload")
           cn == Held(job, "outstanding", "close")
           g == old.gain
<1>5. /\ R + U <= A /\ O + A >= D + V
      /\ Lossless => R + U = A /\ O + C >= W + V /\ (A <= D => O + C = W + V)
    BY DEF CountersFit
<1>6. /\ Un + u = U + un /\ Vn + v = V + vn /\ Cn + c = C + cn
      /\ Un \in Nat /\ Vn \in Nat /\ Cn \in Nat
    <2>1. jobs' = [jobs EXCEPT ![j] = job]
        BY <1>4
    <2>2. \A other, kind :
             /\ SumFunction(HeldBy(other, kind)') + Held(jobs[j], other, kind)
                   = SumFunction(HeldBy(other, kind)) + Held(job, other, kind)
             /\ SumFunction(HeldBy(other, kind)') \in Nat
        BY <2>1, HeldChange
    <2> QED BY <1>2, <2>2
<1>7. U \in Nat /\ V \in Nat /\ C \in Nat
    BY HeldByIs
<1>8. u \in Nat /\ v \in Nat /\ c \in Nat /\ un \in Nat /\ vn \in Nat /\ cn \in Nat /\ g \in Nat
    BY <1>3, <1>4, HeldIs
<1>9. A \in Nat /\ W \in Nat /\ D \in Nat /\ R \in Nat /\ O \in Nat
    BY SumsAre, UploadConstants, FiniteSumNat DEF Shapes, TypeOK
<1>10. UNCHANGED <<books, deaths>>
    BY DEF PostRepaid, PostOutstanding
<1>11. Lossless' => Lossless
    <2>1. jobs \in [1 .. Slots -> Job]
        BY DEF Shapes, TypeOK
    <2>2. \A k \in 1 .. Slots : jobs'[k] = IF k = j THEN job ELSE jobs[k]
        BY <1>4, <2>1
    <2>3. jobs[j].step # "failed"
        BY <1>2, <1>3
    <2> QED BY <1>10, <2>2, <2>3 DEF Lossless
<1>12. CountersFit' <=>
          /\ Rn + Un <= A /\ On + A >= D + Vn
          /\ Lossless' => Rn + Un = A /\ On + Cn >= W + Vn /\ (A <= D => On + Cn = W + Vn)
    <2>1. Applied' = Applied /\ Owed' = Owed
        BY <1>10 DEF Applied, Owed, books
    <2> QED BY <2>1 DEF CountersFit
<1>13. counters \in [repaid : Nat, outstanding : Nat]
    BY DEF Shapes, TypeOK
<1>14. CASE name = "repaid"
    <2>1. Rn = R + g /\ On = O
        BY <1>1, <1>2, <1>13, <1>14 DEF PostRepaid
    <2>2. u = g /\ un = 0 /\ vn = v /\ cn = c
        BY <1>1, <1>2, <1>3, <1>4, <1>14 DEF Held
    <2> HIDE DEF U, V, C, Un, Vn, Cn, A, W, D, R, O, Rn, On, u, v, c, un, vn, cn, g
    <2>3. Un + g = U /\ Vn = V /\ Cn = C
        BY <1>6, <1>7, <1>8, <2>2
    <2>4. Rn + Un = R + U
        BY <1>6, <1>7, <1>8, <1>9, <2>1, <2>3
    <2> QED BY <1>5, <1>11, <1>12, <2>1, <2>3, <2>4
<1>15. CASE name = "outstanding" /\ old.kind = "close"
    <2>1. Rn = R /\ On = O + g
        BY <1>1, <1>2, <1>13, <1>15 DEF PostOutstanding
    <2>2. c = g /\ cn = 0 /\ v = 0 /\ vn = 0 /\ u = 0 /\ un = 0
        BY <1>1, <1>2, <1>3, <1>4, <1>15 DEF Held
    <2> HIDE DEF U, V, C, Un, Vn, Cn, A, W, D, R, O, Rn, On, u, v, c, un, vn, cn, g
    <2>3. Cn + g = C /\ Vn = V /\ Un = U
        BY <1>6, <1>7, <1>8, <2>2
    <2>4. On + Cn = O + C
        BY <1>6, <1>7, <1>8, <1>9, <2>1, <2>3
    <2>5. On + A >= D + Vn
        BY <1>5, <1>7, <1>8, <1>9, <2>1, <2>3
    <2> QED BY <1>5, <1>11, <1>12, <2>1, <2>3, <2>4, <2>5
<1>16. CASE name = "outstanding" /\ old.kind = "upload"
    <2>1. Rn = R /\ On = O - Least(O, g)
        BY <1>1, <1>2, <1>13, <1>16 DEF PostOutstanding
    <2>2. c = 0 /\ cn = 0 /\ v = g /\ vn = 0 /\ u = un
        BY <1>1, <1>2, <1>3, <1>4, <1>16 DEF Held
    <2> HIDE DEF U, V, C, Un, Vn, Cn, A, W, D, R, O, Rn, On, u, v, c, un, vn, cn, g
    <2>3. Vn + g = V /\ Un = U /\ Cn = C
        BY <1>6, <1>7, <1>8, <2>2
    <2>4. CASE g <= O
        <3>1. On = O - g
            BY <1>8, <1>9, <2>1, <2>4 DEF Least
        <3>2. On + A >= D + Vn
            BY <1>5, <1>6, <1>7, <1>8, <1>9, <2>3, <2>4, <3>1
        <3>3. ASSUME Lossless' PROVE On + Cn >= W + Vn /\ (A <= D => On + Cn = W + Vn)
            <4>1. O + C >= W + V /\ (A <= D => O + C = W + V)
                BY <1>5, <1>11, <3>3
            <4> QED BY <1>6, <1>7, <1>8, <1>9, <2>3, <2>4, <3>1, <4>1
        <3> QED BY <1>5, <1>11, <1>12, <2>1, <2>3, <3>2, <3>3
    <2>5. CASE ~(g <= O)
        <3>1. On = 0 /\ O < g
            BY <1>8, <1>9, <2>1, <2>5 DEF Least
        <3>2. On + A >= D + Vn /\ A > D
            BY <1>5, <1>6, <1>7, <1>8, <1>9, <2>3, <3>1
        <3>3. ASSUME Lossless' PROVE On + Cn >= W + Vn
            <4>1. O + C >= W + V
                BY <1>5, <1>11, <3>3
            <4> QED BY <1>6, <1>7, <1>8, <1>9, <2>3, <3>1, <4>1
        <3>4. ~(A <= D)
            BY <1>9, <3>2
        <3> QED BY <1>5, <1>11, <1>12, <2>1, <2>3, <3>2, <3>3, <3>4
    <2> QED BY <2>4, <2>5
<1> QED BY <1>3, <1>14, <1>15, <1>16

LEMMA NextCounters ==
    ASSUME Shapes, CountersFit, Next
    PROVE  CountersFit'
<1>1. PICK j \in 1 .. Slots :
        \/ \E f \in Files : RequestUpload(j, f)
        \/ \E p \in Periods : RequestClose(j, p)
        \/ RecordUpload(j) \/ Work(j) \/ Interrupted(j)
    BY DEF Next
<1>2. CASE Work(j)
    <2>1. \/ StartUpload(j) \/ ListExpectations(j) \/ CreateExpectations(j) \/ ListOpenRows(j)
          \/ Mark(j) \/ SkipEmptyRow(j) \/ UnknownStaff(j) \/ SkipDuplicate(j)
          \/ (\E r \in Rows : ClosePaidRow(j, r)) \/ EndOfFile(j) \/ EndOfList(j)
          \/ RowThrows(j) \/ (\E r \in Rows : CloseThrows(j, r))
          \/ ApplyPayrollPayment(j) \/ (\E r \in Rows : DefaultRow(j, r))
          \/ PostRepaid(j) \/ PostOutstanding(j)
        BY <1>2 DEF Work
    <2> QED BY <2>1, QuietCounters, EndCounters, LossCounters, ApplyCounters, DefaultCounters,
               PostCounters
<1> QED BY <1>1, <1>2, RequestCounters, QuietCounters, LossCounters

-----------------------------------------------------------------------------
(* The theorems                                                            *)

LEMMA StutterKeeps ==
    ASSUME IInv, UNCHANGED vars
    PROVE  IInv'
<1>1. /\ UNCHANGED <<last, rows, accounts, receipts, records, manual, uploads, jobs, counters, deaths>>
    BY DEF vars
<1>2. Shapes'
    BY StutterShapes DEF IInv
<1>3. Books'
    BY <1>1, SameBooks DEF IInv
<1>4. RecordsFit'
    BY <1>1, SameRecord DEF IInv, RecordsFit
<1>5. JobsDone' /\ LastIsClosed'
    BY <1>1 DEF IInv, JobsDone, UploadDone, CloseDone, Handled, LastIsClosed, Payable, Unpaid
<1>6. CountersFit'
    <2>1. Applied' = Applied /\ Owed' = Owed
        BY <1>1 DEF Applied, Owed
    <2>2. \A name, kind : HeldBy(name, kind)' = HeldBy(name, kind)
        BY <1>1 DEF HeldBy, Held
    <2>3. Lossless' <=> Lossless
        BY <1>1 DEF Lossless
    <2> QED BY <1>1, <2>1, <2>2, <2>3 DEF IInv, CountersFit
<1> QED BY <1>2, <1>3, <1>4, <1>5, <1>6 DEF IInv

LEMMA InitHolds == Init => IInv
BY InitShapes, InitBooks, InitRecords, InitDone, InitCounters DEF IInv

LEMMA NextKeeps ==
    ASSUME IInv, Next
    PROVE  IInv'
<1>1. Shapes /\ Books /\ RowsFit /\ RecordsFit /\ JobsDone /\ LastIsClosed /\ CountersFit
    BY DEF IInv, Books
<1>2. Shapes' /\ Books'
    BY <1>1, NextShapes, NextBooks
<1>3. RecordsFit' /\ JobsDone'
    BY <1>1, NextRecords, NextJobs
<1>4. LastIsClosed' /\ CountersFit'
    BY <1>1, NextLast, NextCounters
<1> QED BY <1>2, <1>3, <1>4 DEF IInv

(***************************************************************************)
(* The invariant the properties below are read off: every step of a        *)
(* request, of a job and of a dying worker keeps it.                       *)
(***************************************************************************)
THEOREM Inductive == Spec => []IInv
<1>1. Init => IInv
    BY InitHolds
<1>2. IInv /\ [Next]_vars => IInv'
    BY NextKeeps, StutterKeeps
<1> QED BY <1>1, <1>2, PTL DEF Spec

\* Rows, balances, receipts, jobs and counters keep their shapes, none ever negative.
THEOREM TypeCorrect == Spec => []TypeOK
<1>1. IInv => TypeOK
    BY DEF IInv, Shapes
<1> QED BY <1>1, Inductive, PTL

(***************************************************************************)
(* A month that was closed takes no payment and no charge any more: the    *)
(* close left none of its rows payable, and no step makes a row payable.   *)
(***************************************************************************)
THEOREM ClosedStaysClosed == Spec => []ClosedMonthsAreClosed
<1>1. IInv => ClosedMonthsAreClosed
    <2> SUFFICES ASSUME IInv, NEW r \in Rows,
                        \/ r[2] = last
                        \/ \E j \in 1 .. Slots : /\ jobs[j].kind = "close" /\ jobs[j].period = r[2]
                                                 /\ jobs[j].step \in {"marking", "done"}
                 PROVE  ~Payable(r)
        BY DEF ClosedMonthsAreClosed
    <2> QED BY DEF IInv, LastIsClosed, JobsDone, CloseDone
<1> QED BY <1>1, Inductive, PTL

(***************************************************************************)
(* Statistics reach their counters or are lost with their job: no row of a *)
(* file is counted by two runs, and while no job failed or died the        *)
(* counters are what receipts and balances make them, as far as a counter  *)
(* that stops at zero can.                                                 *)
(***************************************************************************)
THEOREM CountersAgree == Spec => []CountersFollowReceipts
<1>1. ASSUME IInv PROVE CountersFollowReceipts
    <2>1. Shapes /\ CountersFit
        BY <1>1 DEF IInv
    <2>2. ASSUME NEW name, NEW kind, kind # "none"
          PROVE  Statistics(Unposted(name, kind)) = SumFunction(HeldBy(name, kind))
        <3> DEFINE f == HeldBy(name, kind)
                   g == [j \in Unposted(name, kind) |-> jobs[j].gain]
        <3>1. /\ IsFiniteSet(DOMAIN f) /\ DOMAIN f = 1 .. Slots
              /\ \A j \in DOMAIN f : f[j] \in Nat
              /\ f = [j \in DOMAIN f |-> f[j]]
            BY <2>1, HeldByIs DEF HeldBy
        <3>2. DOMAIN g = Unposted(name, kind) /\ g = [j \in DOMAIN g |-> g[j]]
            OBVIOUS
        <3>3. Unposted(name, kind) \subseteq 1 .. Slots
            BY DEF Unposted, Running
        <3>4. \A j \in Unposted(name, kind) : g[j] = f[j]
            BY <3>3 DEF Unposted, HeldBy, Held
        <3>5. ASSUME NEW j \in (1 .. Slots) \ Unposted(name, kind) PROVE f[j] = 0
            <4>1. JobFits(jobs[j])
                BY <2>1 DEF Shapes, JobsFit
            <4>2. f[j] = Held(jobs[j], name, kind)
                BY DEF HeldBy
            <4>3. jobs[j].step \in {"done", "skipped", "failed"} => jobs[j].gain = 0
                BY <4>1 DEF JobFits
            <4> QED BY <4>2, <4>3 DEF Held, Unposted, Running
        <3> HIDE DEF f, g
        <3>6. SumFunction(f) = SumFunction(g)
            BY <3>1, <3>2, <3>3, <3>4, <3>5, SumWithoutZeros
        <3> QED BY <3>6 DEF f, g, Statistics
    <2> QED BY <2>1, <2>2 DEF CountersFit, CountersFollowReceipts, Applied, Owed, Lossless
<1> QED BY <1>1, Inductive, PTL

(***************************************************************************)
(* Rows and balances are what the stored receipts make them, and a row     *)
(* never takes more than it expects: for any interleaving of uploads of    *)
(* one month, repeated files, closes and reruns.                           *)
(***************************************************************************)
THEOREM BooksAgree == Spec => []BooksFollowReceipts
<1>1. IInv => BooksFollowReceipts
    BY DEF IInv, Books, RowsFit, AccountsFit, Brought, TakenFrom, Charges, RowsOf, BooksFollowReceipts
<1> QED BY <1>1, Inductive, PTL

(***************************************************************************)
(* An upload passes a row of its file only when the row carries no money,  *)
(* has a receipt, or was left for somebody to resolve; so one that ends    *)
(* without an error has dealt with them all.                               *)
(***************************************************************************)
THEOREM NoRowLeftBehind == Spec => []UploadsLeaveNoRowBehind
<1>1. IInv => UploadsLeaveNoRowBehind
    BY DEF IInv, JobsDone, UploadDone, Handled, UploadsLeaveNoRowBehind
<1> QED BY <1>1, Inductive, PTL

-----------------------------------------------------------------------------
(* What is shown of the Repayment rows                                     *)

\* What the records of rows say, given that they fit.
LEMMA RecordIs ==
    ASSUME IInv, NEW r \in Rows
    PROVE  /\ records[r].repaid \in Nat /\ rows[r].paid \in Nat /\ Due[r] \in Nat
           /\ records[r].repaid <= rows[r].paid /\ rows[r].paid <= Due[r]
           /\ records[r].status = "FULFILLED" => ~Unpaid(r) /\ records[r].repaid = Due[r]
           /\ records[r].status = "PARTIAL" => rows[r].paid > 0 /\ Unpaid(r)
           /\ records[r].status = "FAILED" => rows[r].closed /\ rows[r].paid = 0 /\ Unpaid(r)
<1>1. Shapes /\ RowsFit /\ RecordFits(r)
    BY DEF IInv, Books, RecordsFit
<1>2. records[r].repaid \in Nat /\ rows[r].paid \in Nat /\ Due[r] \in Nat /\ Due[r] > 0
    BY <1>1, RowIs, RowsAre DEF Shapes
<1>3. rows[r].paid <= Due[r]
    BY <1>1 DEF RowsFit
<1> QED BY <1>1, <1>2, <1>3 DEF RecordFits, Unpaid

\* One borrower's history, overview and yearly summary.
LEMMA BorrowerViews ==
    ASSUME IInv, NEW s \in Staff
    PROVE  /\ \A shown \in RepaymentHistory(s, "any") :
                LET r == shown.row IN
                /\ shown.repaid <= rows[r].paid
                /\ shown.status = "FULFILLED" => ~Unpaid(r) /\ shown.repaid = Due[r]
                /\ shown.status = "PARTIAL" => rows[r].paid > 0 /\ Unpaid(r)
                /\ shown.status = "FAILED" => rows[r].closed /\ rows[r].paid = 0
           /\ RepaymentOverview(s).flagged <= Cardinality({r \in Rows : r[1] = s /\ Unpaid(r)})
           /\ \A shown \in RepaymentOverview(s).lastRepayment :
                shown.repaid = YearlySummary(s)[shown.row[2]]
<1>1. OfBorrower(s) \subseteq Rows
    BY DEF OfBorrower, Recorded
<1>2. ASSUME NEW shown \in RepaymentHistory(s, "any")
      PROVE  LET r == shown.row IN
             /\ shown.repaid <= rows[r].paid
             /\ shown.status = "FULFILLED" => ~Unpaid(r) /\ shown.repaid = Due[r]
             /\ shown.status = "PARTIAL" => rows[r].paid > 0 /\ Unpaid(r)
             /\ shown.status = "FAILED" => rows[r].closed /\ rows[r].paid = 0
    <2>1. PICK r \in Rows : shown = RepaymentLine(r)
        BY <1>1 DEF RepaymentHistory
    <2>2. shown.row = r /\ shown.repaid = records[r].repaid /\ shown.status = records[r].status
        BY <2>1 DEF RepaymentLine
    <2> QED BY <2>2, RecordIs
<1>3. RepaymentOverview(s).flagged <= Cardinality({r \in Rows : r[1] = s /\ Unpaid(r)})
    <2> DEFINE flagged == OfBorrower(s) \cap Recorded(Flagged)
               unpaid == {r \in Rows : r[1] = s /\ Unpaid(r)}
    <2>1. ASSUME NEW r \in flagged PROVE r \in unpaid
        <3>1. r \in Rows /\ r[1] = s /\ records[r].status \in {"FAILED", "PARTIAL"}
            BY DEF OfBorrower, Recorded, Flagged
        <3> QED BY <3>1, RecordIs
    <2>2. IsFiniteSet(unpaid)
        BY RowsAre, FS_Subset
    <2>3. Cardinality(flagged) <= Cardinality(unpaid)
        <3> HIDE DEF flagged, unpaid
        <3> QED BY <2>1, <2>2, FS_Subset
    <2>4. RepaymentOverview(s).flagged = Cardinality(flagged)
        BY DEF RepaymentOverview
    <2> QED BY <2>3, <2>4
<1>4. ASSUME NEW shown \in RepaymentOverview(s).lastRepayment
      PROVE  shown.repaid = YearlySummary(s)[shown.row[2]]
    <2>1. PICK q \in OfBorrower(s) : shown = RepaymentLine(q)
        BY DEF RepaymentOverview
    <2>2. shown.row = q /\ shown.repaid = records[q].repaid
        BY <2>1 DEF RepaymentLine
    <2> DEFINE same == {o \in OfBorrower(s) : o[2] = q[2]}
               repaid == [r \in same |-> records[r].repaid]
    <2>3. same = {q}
        <3>1. \A r \in OfBorrower(s) : r = <<r[1], r[2]>> /\ r[1] = s
            BY <1>1, RowsAre DEF OfBorrower
        <3> QED BY <3>1
    <2>4. YearlySummary(s)[q[2]] = SumFunction(repaid)
        BY DEF YearlySummary
    <2>5. records[q].repaid \in Nat
        BY <1>1, RecordIs
    <2>6. DOMAIN repaid = {q} /\ repaid[q] = records[q].repaid
        BY <2>3
    <2> HIDE DEF repaid
    <2>7. SumFunction(repaid) = records[q].repaid
        BY <2>5, <2>6, SumOfOne
    <2> QED BY <2>2, <2>4, <2>7
<1> QED BY <1>2, <1>3, <1>4

\* One month: what its rows say was repaid, and those that are listed as paid off.
LEMMA MonthViews ==
    ASSUME IInv, NEW p \in Periods
    PROVE  /\ RepaidInPeriod(p, p) <= SumFunction(BroughtIn(p))
           /\ \A shown \in AllRepayments("FULFILLED", p, p, 0) : ~Unpaid(shown.row)
<1>1. RepaidInPeriod(p, p) <= SumFunction(BroughtIn(p))
    <2> DEFINE where == RepaymentWhere("any", p, p, 0)
               f == [r \in where |-> records[r].repaid]
               g == PaidIn(p)
    <2>1. Shapes /\ SumFunction(g) = SumFunction(BroughtIn(p))
        BY DEF IInv, Books, MonthsFit
    <2>2. p \in Nat
        BY UploadConstants DEF Periods
    <2>3. where \subseteq {r \in Rows : r[2] = p}
        <3> SUFFICES ASSUME NEW r \in where PROVE r \in Rows /\ r[2] = p
            OBVIOUS
        <3>1. r \in Rows /\ p <= r[2] /\ r[2] <= p
            BY DEF RepaymentWhere, Recorded
        <3>2. r[2] \in Nat
            BY <3>1, RowsAre
        <3> QED BY <2>2, <3>1, <3>2
    <2>4. IsFiniteSet(DOMAIN g) /\ \A r \in DOMAIN g : g[r] \in Nat
        BY <2>1, SumsAre
    <2>5. DOMAIN g = {r \in Rows : r[2] = p} /\ \A r \in DOMAIN g : g[r] = rows[r].paid
        BY DEF PaidIn
    <2>6. DOMAIN f = where /\ f = [r \in DOMAIN f |-> f[r]] /\ \A r \in where : f[r] = records[r].repaid
        OBVIOUS
    <2>7. RepaidInPeriod(p, p) = SumFunction(f)
        BY DEF RepaidInPeriod
    <2> HIDE DEF where, f, g
    <2>8. \A r \in DOMAIN f : f[r] \in Nat /\ f[r] <= g[r]
        BY <2>3, <2>5, <2>6, RecordIs
    <2>9. SumFunction(f) <= SumFunction(g)
        BY <2>3, <2>4, <2>5, <2>6, <2>8, SumAtMost
    <2> QED BY <2>1, <2>7, <2>9
<1>2. ASSUME NEW shown \in AllRepayments("FULFILLED", p, p, 0) PROVE ~Unpaid(shown.row)
    <2>1. PICK r \in RepaymentWhere("FULFILLED", p, p, 0) : shown = RepaymentLine(r)
        BY DEF AllRepayments
    <2>2. r \in Rows /\ records[r].status = "FULFILLED"
        BY DEF RepaymentWhere, Recorded
    <2>3. shown.row = r
        BY <2>1 DEF RepaymentLine
    <2> QED BY <2>2, <2>3, RecordIs
<1> QED BY <1>1, <1>2

\* The platform's overview: what is overdue covers what the flagged rows lack.
LEMMA PlatformViews ==
    ASSUME IInv
    PROVE  /\ Overview.overdue >= SumFunction([r \in Recorded(Flagged) |-> Shortfall(r)])
           /\ Overview.overdue <= Overview.underpaid + Overview.failed
<1> DEFINE partial == Recorded({"PARTIAL"})
           failed == Recorded({"FAILED"})
           flagged == Recorded(Flagged)
           overdue == [r \in flagged |-> Due[r] - records[r].repaid]
           lacking == [r \in flagged |-> Shortfall(r)]
           due == [r \in flagged |-> Due[r]]
<1>1. flagged = partial \cup failed /\ partial \cap failed = {} /\ flagged \subseteq Rows
    BY DEF Recorded, Flagged
<1>2. IsFiniteSet(flagged)
    BY <1>1, RowsAre, FS_Subset
<1>3. /\ Overview.overdue = SumFunction(overdue)
      /\ Overview.underpaid = SumFunction(Part(due, partial))
      /\ Overview.failed = SumFunction(Part(due, failed))
    <2>1. /\ Part(due, partial) = [r \in partial |-> Due[r]]
          /\ Part(due, failed) = [r \in failed |-> Due[r]]
        BY <1>1 DEF Part
    <2> QED BY <2>1 DEF Overview
<1>4. /\ DOMAIN overdue = flagged /\ DOMAIN lacking = flagged /\ DOMAIN due = flagged
      /\ lacking = [r \in DOMAIN lacking |-> lacking[r]]
      /\ overdue = [r \in DOMAIN overdue |-> overdue[r]]
      /\ Part(due, flagged) = due
    BY DEF Part
<1>5. ASSUME NEW r \in flagged
      PROVE  /\ overdue[r] \in Nat /\ lacking[r] \in Nat /\ due[r] \in Nat
             /\ lacking[r] <= overdue[r] /\ overdue[r] <= due[r]
    <2>1. /\ records[r].repaid \in Nat /\ rows[r].paid \in Nat /\ Due[r] \in Nat
          /\ records[r].repaid <= rows[r].paid /\ rows[r].paid <= Due[r]
        BY <1>1, RecordIs
    <2>2. overdue[r] = Due[r] - records[r].repaid /\ due[r] = Due[r] /\ lacking[r] = Due[r] - rows[r].paid
        BY DEF Shortfall
    <2> QED BY <2>1, <2>2
<1> HIDE DEF partial, failed, overdue, lacking, due
<1>6. SumFunction(lacking) <= SumFunction(overdue) /\ SumFunction(overdue) <= SumFunction(due)
    BY <1>2, <1>4, <1>5, SumAtMost
<1>7. SumFunction(due) = SumFunction(Part(due, partial)) + SumFunction(Part(due, failed))
    <2>1. SumFunction(Part(due, partial \cup failed))
             = SumFunction(Part(due, partial)) + SumFunction(Part(due, failed))
        BY <1>1, <1>2, <1>4, <1>5, SumDisjoint
    <2> QED BY <1>1, <1>4, <2>1
<1>8. SumFunction(lacking) \in Nat /\ SumFunction(overdue) \in Nat
    BY <1>2, <1>4, <1>5, FiniteSumNat
<1> QED BY <1>3, <1>6, <1>7, <1>8 DEF lacking

(***************************************************************************)
(* What borrowers and administrators read off the mirrored rows never      *)
(* claims more than the books hold, whichever order rows are listed,       *)
(* created, paid and closed in.                                            *)
(***************************************************************************)
THEOREM RecordsClaimNoMore == Spec => []RecordsClaimNoMoreThanRows
<1>1. IInv => RecordsClaimNoMoreThanRows
    BY BorrowerViews, MonthViews, PlatformViews DEF RecordsClaimNoMoreThanRows, BroughtIn
<1> QED BY <1>1, Inductive, PTL
=============================================================================
