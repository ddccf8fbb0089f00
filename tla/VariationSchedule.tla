------------------------- MODULE VariationSchedule -------------------------
(***************************************************************************)
(* The variation schedules of one payroll month and the report jobs that   *)
(* make them.  A job calculates (or looks up) a schedule, renders it, puts *)
(* the file in the bucket, records the file's hash and mails it; each of   *)
(* those is a step of its own, several jobs run at once, a job whose       *)
(* worker dies is run again from the start, and a database call that fails *)
(* as unreachable is tried again, whether or not it had committed.         *)
(*                                                                         *)
(* The installments of the month change under the jobs.  Each is another   *)
(* borrower's (OrderlyMonths.OneRowPerMonth), one with an externalId and a *)
(* payroll record; the others' are on no schedule.  What a schedule row    *)
(* copies from it - balances, amount, name, command - is one number,       *)
(* `figures', that moves when any of them does.  closedAt is left out: no  *)
(* schedule looks at it.                                                   *)
(***************************************************************************)
EXTENDS Naturals, Sequences, FiniteSets

CONSTANTS
    Installments,
    Jobs,
    Attempts,      \* attempts in retryTransientDatabase
    MaxDeaths,     \* bound: deaths of a worker
    MaxVersions,   \* bound: schedules of the month
    MaxFigures     \* bound: changes of an installment's figures

ASSUME ScheduleConstants ==
    /\ Attempts \in Nat \ {0} /\ MaxDeaths \in Nat
    /\ MaxVersions \in Nat /\ MaxFigures \in Nat

VARIABLES
    rows,        \* the month's installments
    schedules,   \* PayrollSchedule rows of the month; a version is its position
    bucket,      \* for each version the file stored under its path, {} if none
    jobs,        \* schedule_variation jobs
    deaths       \* workers that have died

vars == <<rows, schedules, bucket, jobs, deaths>>

Mode == {"DRAFT", "SUBMIT"}
Versions == 1 .. MaxVersions
Entry == Installments \X (0 .. MaxFigures)

Installment ==
    [status : {"PLANNED", "PUBLISHED", "PARTIAL", "PAID", "MISSED", "SUPERSEDED"},
     active : BOOLEAN,      \* its obligation is ACTIVE
     figures : 0 .. MaxFigures]

Schedule ==
    [status : {"DRAFT", "PUBLISHED", "SUPERSEDED"}, official : BOOLEAN,
     rows : SUBSET Entry, hash : SUBSET Entry, supersedes : {0} \cup Versions]

Job ==
    [step : {"none", "backfilling", "looking", "preparing", "rendering", "uploading",
             "checking", "recording", "mailing", "done", "failed"},
     mode : Mode, attempt : 1 .. Attempts,
     schedule : {0} \cup Versions,     \* what prepareVariationSchedule returned
     hash : SUBSET Entry,              \* its artifactHash then
     official : {0} \cup Versions]     \* history: in force when it was requested

\* A report requested before any schedule exists, by the endpoint or by the month's end.
NewJob(mode, official) ==
    [step |-> "backfilling", mode |-> mode, attempt |-> 1,
     schedule |-> 0, hash |-> {}, official |-> official]

NoJob == [NewJob("DRAFT", 0) EXCEPT !.step = "none"]

\* existingOfficial
Official == {v \in DOMAIN schedules : schedules[v].official \/ schedules[v].status = "PUBLISHED"}

Latest(versions) == CHOOSE v \in versions : \A w \in versions : w <= v

InForce == IF Official = {} THEN 0 ELSE Latest(Official)

-----------------------------------------------------------------------------
(* Requests                                                                *)

\* getVariationSchedule: only a super admin submits, and something must be owed.
RequestVariation(j, mode, role) ==
    /\ jobs[j] = NoJob
    /\ mode = "SUBMIT" => role = "SUPER_ADMIN"
    /\ \E i \in Installments : rows[i].active
    /\ jobs' = [jobs EXCEPT ![j] = NewJob(mode, InForce)]
    /\ UNCHANGED <<rows, schedules, bucket, deaths>>

\* handleAutoReport queues a report without a mode, which the processor takes as DRAFT.
AutoReport(j) ==
    /\ jobs[j] = NoJob
    /\ jobs' = [jobs EXCEPT ![j] = NewJob("DRAFT", InForce)]
    /\ UNCHANGED <<rows, schedules, bucket, deaths>>

-----------------------------------------------------------------------------
(* generateScheduleVariation                                               *)

\* An ended job keeps what was asked of it and the schedule it made or found.
Stepped(job, step) ==
    IF step \in {"done", "failed"}
    THEN [job EXCEPT !.step = step, !.attempt = 1, !.hash = {}]
    ELSE [job EXCEPT !.step = step]

Go(j, step) == jobs' = [jobs EXCEPT ![j] = Stepped(@, step)]

\* Mutant: a draft is calculated anew, official month or not.
BackfillThenPrepare(j) ==
    /\ jobs[j].step = "backfilling"
    /\ jobs' = [jobs EXCEPT ![j].attempt = 1, ![j].step = "preparing"]
    /\ UNCHANGED <<rows, schedules, bucket, deaths>>

\* backfillActiveObligations; what it opens is in `rows' already.
Backfill(j) ==
    /\ jobs[j].step = "backfilling"
    /\ jobs' = [jobs EXCEPT ![j].attempt = 1,
                            ![j].step = IF jobs[j].mode = "DRAFT" THEN "looking" ELSE "preparing"]
    /\ UNCHANGED <<rows, schedules, bucket, deaths>>

Prepared(j, v, hash) ==
    jobs' = [jobs EXCEPT ![j].step = "rendering", ![j].attempt = 1,
                         ![j].schedule = v, ![j].hash = hash]

\* A DRAFT first looks, outside any transaction, for an official schedule to reproduce.
LookForOfficial(j) ==
    /\ jobs[j].step = "looking"
    /\ IF Official = {} THEN Go(j, "preparing")
       ELSE Prepared(j, Latest(Official), schedules[Latest(Official)].hash)
    /\ UNCHANGED <<rows, schedules, bucket, deaths>>

Eligible ==
    {i \in Installments :
        /\ rows[i].status \in {"PLANNED", "PUBLISHED", "PARTIAL"}
        /\ rows[i].active}

\* Mutant: the schedule it replaces keeps its place.
KeepSuperseded(previous) == schedules

\* The schedule that was official gives its place up.
Supersede(previous) ==
    [v \in DOMAIN schedules |->
        IF v = previous
        THEN [schedules[v] EXCEPT !.status = "SUPERSEDED", !.official = FALSE]
        ELSE schedules[v]]

\* Mutant: a submission names the latest schedule, a draft perhaps.
NewScheduleAfterLatest(publish, previous) ==
    [status |-> IF publish THEN "PUBLISHED" ELSE "DRAFT", official |-> publish,
     rows |-> {<<i, rows[i].figures>> : i \in Eligible}, hash |-> {},
     supersedes |-> IF publish THEN Len(schedules) ELSE 0]

NewSchedule(publish, previous) ==
    [status |-> IF publish THEN "PUBLISHED" ELSE "DRAFT", official |-> publish,
     rows |-> {<<i, rows[i].figures>> : i \in Eligible}, hash |-> {},
     supersedes |-> IF publish THEN previous ELSE 0]

\* Mutant: the rows of a submitted schedule stay PLANNED.
LeaveInstallments(publish) == rows

PublishInstallments(publish) ==
    IF publish
    THEN [i \in Installments |->
            IF i \in Eligible THEN [rows[i] EXCEPT !.status = "PUBLISHED"] ELSE rows[i]]
    ELSE rows

\* The transaction of prepareVariationSchedule.
CommitSchedule(publish) ==
    /\ Eligible # {}
    /\ Len(schedules) < MaxVersions
    /\ schedules' = Append(IF publish THEN Supersede(InForce) ELSE schedules,
                           NewSchedule(publish, InForce))
    /\ bucket' = Append(bucket, {})
    /\ rows' = PublishInstallments(publish)

Prepare(j) ==
    /\ jobs[j].step = "preparing"
    /\ CommitSchedule(jobs[j].mode = "SUBMIT")
    /\ Prepared(j, Len(schedules) + 1, {})
    /\ UNCHANGED deaths

NothingDue(j) ==
    /\ jobs[j].step = "preparing" /\ Eligible = {}
    /\ Go(j, "failed")
    /\ UNCHANGED <<rows, schedules, bucket, deaths>>

\* Mutant: an attempt that failed is not counted.
RetryUncounted(job) ==
    [job EXCEPT !.step = IF job.step = "backfilling" THEN "backfilling"
                         ELSE IF job.mode = "DRAFT" THEN "looking" ELSE "preparing"]

\* Mutant: gives up one attempt late.
RetryOnceMore(job) ==
    IF job.attempt > Attempts THEN Stepped(job, "failed")
    ELSE [job EXCEPT !.attempt = @ + 1,
                     !.step = IF @ = "backfilling" THEN @
                              ELSE IF job.mode = "DRAFT" THEN "looking" ELSE "preparing"]

\* retryTransientDatabase calls the whole operation again, or gives up.
Retry(job) ==
    IF job.attempt = Attempts THEN Stepped(job, "failed")
    ELSE [job EXCEPT !.attempt = @ + 1,
                     !.step = IF @ = "backfilling" THEN @
                              ELSE IF job.mode = "DRAFT" THEN "looking" ELSE "preparing"]

\* The database cannot be reached.
Unreachable(j) ==
    /\ jobs[j].step \in {"backfilling", "looking", "preparing"}
    /\ jobs' = [jobs EXCEPT ![j] = Retry(jobs[j])]
    /\ UNCHANGED <<rows, schedules, bucket, deaths>>

\* The transaction commits and its answer is lost.
AnswerLost(j) ==
    /\ jobs[j].step = "preparing"
    /\ CommitSchedule(jobs[j].mode = "SUBMIT")
    /\ jobs' = [jobs EXCEPT ![j] = Retry(jobs[j])]
    /\ UNCHANGED deaths

\* Mutant: the worksheet takes today's figures for the rows of the schedule.
RecomputedFile(v) ==
    {<<i, rows[i].figures>> : i \in {e[1] : e \in schedules[v].rows}}

\* mapSchedule and the worksheet: the file is a function of the stored rows.
File(v) == schedules[v].rows

Render(j) ==
    LET job == jobs[j]
        file == File(job.schedule)
    IN /\ job.step = "rendering"
       /\ Go(j, IF job.hash = {} THEN "uploading"
                ELSE IF job.hash = file THEN "mailing" ELSE "failed")
       /\ UNCHANGED <<rows, schedules, bucket, deaths>>

\* Mutant: a failed upload is taken for a stored file, and the report is mailed.
UploadIgnoringErrors(j) ==
    LET v == jobs[j].schedule IN
    /\ jobs[j].step = "uploading"
    /\ IF bucket[v] = {}
       THEN bucket' = [bucket EXCEPT ![v] = File(v)] /\ Go(j, "checking")
       ELSE Go(j, "mailing") /\ UNCHANGED bucket
    /\ UNCHANGED <<rows, schedules, deaths>>

\* uploadVariationScheduleDoc never replaces a file (upsert: false).
Upload(j) ==
    LET v == jobs[j].schedule IN
    /\ jobs[j].step = "uploading"
    /\ IF bucket[v] = {}
       THEN bucket' = [bucket EXCEPT ![v] = File(v)] /\ Go(j, "checking")
       ELSE Go(j, "failed") /\ UNCHANGED bucket
    /\ UNCHANGED <<rows, schedules, deaths>>

\* setScheduleArtifact reads the recorded hash, and writes in a second call.
CheckArtifact(j) ==
    LET v == jobs[j].schedule IN
    /\ jobs[j].step = "checking"
    /\ Go(j, IF schedules[v].hash \in {{}, File(v)} THEN "recording" ELSE "failed")
    /\ UNCHANGED <<rows, schedules, bucket, deaths>>

RecordArtifact(j) ==
    LET v == jobs[j].schedule IN
    /\ jobs[j].step = "recording"
    /\ schedules' = [schedules EXCEPT ![v].hash = File(v)]
    /\ Go(j, "mailing")
    /\ UNCHANGED <<rows, bucket, deaths>>

Mail(j) ==
    /\ jobs[j].step = "mailing"
    /\ Go(j, "done")
    /\ UNCHANGED <<rows, schedules, bucket, deaths>>

Running == {j \in Jobs : jobs[j].step \notin {"none", "done", "failed"}}

\* The worker dies; the queue runs the job again from the start, or gives it up when
\* it has stalled too often.
WorkerDies(j) ==
    /\ j \in Running
    /\ deaths < MaxDeaths
    /\ deaths' = deaths + 1
    /\ \E job \in {NewJob(jobs[j].mode, jobs[j].official), Stepped(jobs[j], "failed")} :
          jobs' = [jobs EXCEPT ![j] = job]
    /\ UNCHANGED <<rows, schedules, bucket>>

-----------------------------------------------------------------------------
(* The accounts behind the installments, and the customers' records        *)

Changed(i) == IF rows[i].figures < MaxFigures THEN rows[i].figures + 1 ELSE MaxFigures

\* Both payment paths pay an open row in part or in full.
PaymentArrives(i) ==
    /\ rows[i].status \in {"PLANNED", "PUBLISHED", "PARTIAL"}
    /\ \E status \in {"PARTIAL", "PAID"} :
          rows' = [rows EXCEPT ![i].status = status, ![i].figures = Changed(i)]
    /\ UNCHANGED <<schedules, bucket, jobs, deaths>>

\* A row with a payment on it stays PARTIAL when its month is closed.
ClosePeriod(i) ==
    /\ rows[i].status \in {"PLANNED", "PUBLISHED"}
    /\ rows' = [rows EXCEPT ![i].status = "MISSED"]
    /\ UNCHANGED <<schedules, bucket, jobs, deaths>>

\* A new plan withdraws the rows that are still PLANNED.
RecastPlan(i) ==
    /\ rows[i].status = "PLANNED"
    /\ rows' = [rows EXCEPT ![i].status = "SUPERSEDED"]
    /\ UNCHANGED <<schedules, bucket, jobs, deaths>>

SettleObligation(i) ==
    /\ rows[i].active
    /\ rows' = [rows EXCEPT ![i].active = FALSE,
                            ![i].status = IF @ = "PLANNED" THEN "SUPERSEDED" ELSE @]
    /\ UNCHANGED <<schedules, bucket, jobs, deaths>>

\* The borrower's name or command changes.
EditCustomer(i) ==
    /\ rows[i].figures < MaxFigures
    /\ rows' = [rows EXCEPT ![i].figures = @ + 1]
    /\ UNCHANGED <<schedules, bucket, jobs, deaths>>

-----------------------------------------------------------------------------
Init ==
    /\ rows = [i \in Installments |-> [status |-> "PLANNED", active |-> TRUE, figures |-> 0]]
    /\ schedules = <<>> /\ bucket = <<>>
    /\ jobs = [j \in Jobs |-> NoJob] /\ deaths = 0

Work(j) ==
    \/ Backfill(j) \/ LookForOfficial(j) \/ Prepare(j) \/ NothingDue(j)
    \/ Render(j) \/ Upload(j) \/ CheckArtifact(j) \/ RecordArtifact(j) \/ Mail(j)

Fault(j) == Unreachable(j) \/ AnswerLost(j) \/ WorkerDies(j)

Next ==
    \/ \E j \in Jobs :
          \/ \E mode \in Mode, role \in {"ADMIN", "SUPER_ADMIN"} : RequestVariation(j, mode, role)
          \/ AutoReport(j) \/ Work(j) \/ Fault(j)
    \/ \E i \in Installments :
          \/ PaymentArrives(i) \/ ClosePeriod(i) \/ RecastPlan(i)
          \/ SettleObligation(i) \/ EditCustomer(i)

\* The queue's workers run every job they hold; faults and accounts are not obliged.
Spec == Init /\ [][Next]_vars /\ \A j \in Jobs : WF_vars(Work(j))
-----------------------------------------------------------------------------
(* Properties                                                              *)

\* Every row keeps its shape, and what names a schedule names one that exists.
TypeOK ==
    /\ rows \in [Installments -> Installment]
    /\ schedules \in Seq(Schedule)
    /\ bucket \in [DOMAIN schedules -> SUBSET Entry]
    /\ jobs \in [Jobs -> Job]
    /\ \A j \in Jobs : jobs[j].schedule \in {0} \cup DOMAIN schedules
    /\ deaths \in 0 .. MaxDeaths

(***************************************************************************)
(* The jobs keep the promise of the register: one instruction in force,    *)
(* replaced by later ones only, every calculation kept as issued whatever  *)
(* payments, closes and retries do meanwhile, every recorded file its own. *)
(***************************************************************************)
Register == INSTANCE PayrollRegister WITH
    issued  <- [v \in DOMAIN schedules |-> schedules[v].rows],
    inForce <- {v \in DOMAIN schedules : schedules[v].official},
    filed   <- [v \in DOMAIN schedules |-> schedules[v].hash]

KeepsRegister == Register!RegisterSpec

(***************************************************************************)
(* What payroll was told to deduct can be received: each row of the        *)
(* schedule in force that is open on an active obligation is payable, so   *)
(* no submission leaves a row PLANNED for a new plan to withdraw, and no   *)
(* plan published meanwhile withdraws one.                                 *)
(***************************************************************************)
InstructedRowsArePayable ==
    InForce # 0 =>
        \A e \in schedules[InForce].rows :
            rows[e[1]].status \notin {"PLANNED", "SUPERSEDED"}

(***************************************************************************)
(* Submissions form one chain: each names the one it replaced, and only    *)
(* the schedule in force has not been replaced.  A submission repeated     *)
(* after its answer was lost replaces its own first commit.                *)
(***************************************************************************)
SubmissionsFormOneChain ==
    LET submitted == {v \in DOMAIN schedules : schedules[v].status # "DRAFT"} IN
    \A v \in submitted :
        /\ Cardinality({w \in submitted : schedules[w].supersedes = v}) = IF v = InForce THEN 0 ELSE 1
        /\ schedules[v].supersedes \in {0} \cup submitted

(***************************************************************************)
(* A report asked for while a schedule is in force is that schedule's or a *)
(* later submission's, never a fresh calculation over balances that moved. *)
(***************************************************************************)
OfficialMonthsAreReproduced ==
    \A j \in Jobs :
        jobs[j].official # 0 /\ jobs[j].step = "done" =>
            /\ schedules[jobs[j].schedule].status # "DRAFT"
            /\ jobs[j].schedule >= jobs[j].official

(***************************************************************************)
(* A report is mailed only when its schedule has the file on record, and   *)
(* the recorded hash is of the file in the bucket, whichever of two jobs   *)
(* of one schedule stored it, recorded it, or died in between.             *)
(***************************************************************************)
MailedFilesAreOnRecord ==
    /\ \A v \in DOMAIN schedules : schedules[v].hash # {} => schedules[v].hash = bucket[v]
    /\ \A j \in Jobs : jobs[j].step \in {"mailing", "done"} => schedules[jobs[j].schedule].hash # {}

(***************************************************************************)
(* Every requested report is mailed or fails: the retries of an            *)
(* unreachable database and of a dead worker come to an end.               *)
(***************************************************************************)
ReportsEnd ==
    \A j \in Jobs :
        j \in Running ~> (j \notin Running \/ Len(schedules) = MaxVersions)

-----------------------------------------------------------------------------
(* What the repository says and the code does not keep.                    *)

(***************************************************************************)
(* An official month is reproduced for whoever asks.  A worker that dies   *)
(* after storing the file and before recording its hash leaves a file that *)
(* no later job may overwrite and no job looks up: each of them fails.     *)
(***************************************************************************)
OfficialFileCanBeProduced ==
    InForce # 0 /\ bucket[InForce] # {} =>
        \/ schedules[InForce].hash # {}
        \/ \E j \in Running : jobs[j].schedule = InForce /\ jobs[j].step \in {"checking", "recording"}
=============================================================================
