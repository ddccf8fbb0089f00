--------------------------- MODULE CustomerImport ---------------------------
(***************************************************************************)
(* The import of existing customers: sheets of rows that jobs work off,    *)
(* each row in a transaction of its own that makes the customer and a      *)
(* disbursed loan, while the sums of what was imported are kept in the     *)
(* worker's memory and added to the counters once, at the end.  A job that *)
(* dies is run again from its first row; a row whose customer is there     *)
(* already fails, and so does one that breaks a constraint.                *)
(*                                                                         *)
(* The sheet's header was found and its columns matched when the job was   *)
(* added; a row is the figures it brings.  The commodity list is left out. *)
(***************************************************************************)
EXTENDS Naturals, FiniteSetsExt

CONSTANTS
    ImportJobs,
    Rows,          \* customers, by their external id
    Broken,        \* rows that no transaction accepts
    MaxDeaths      \* bound: deaths of workers, lost answers and top-ups that fail

ASSUME ImportConstants ==
    /\ IsFiniteSet(ImportJobs) /\ IsFiniteSet(Rows)
    /\ Broken \subseteq Rows /\ MaxDeaths \in Nat

Figures == {"disbursed", "repaid", "outstanding"}

VARIABLES
    imported,    \* customers and their loans
    counters,    \* Config TOTAL_DISBURSED, TOTAL_REPAID, BALANCE_OUTSTANDING
    jobs,        \* each job's rows to come, rows done and counters to come
    deaths,
    forgotten    \* history: what deaths, lost answers and failures kept from each counter

importVars == <<imported, counters, jobs, deaths, forgotten>>

\* importSingleCustomer: what a row brings; a commodity's amount is its total.
Brings(f) == CASE f = "disbursed" -> 3 [] f = "repaid" -> 1 [] OTHER -> 2

Job == [at : {"waiting", "rows", "counting", "ended"},
        left : SUBSET Rows,          \* rows not reached yet
        stats : SUBSET Rows,         \* batchStats, by the rows that made them
        topups : SUBSET Figures]     \* counters still to be topped up

NewJob == [at |-> "waiting", left |-> {}, stats |-> {}, topups |-> {}]

ImportInit ==
    /\ imported = {}
    /\ counters = [f \in Figures |-> 0]
    /\ jobs = [j \in ImportJobs |-> NewJob]
    /\ deaths = 0
    /\ forgotten = [f \in Figures |-> 0]

Worth(f, n) == Brings(f) * n

\* handleImport: from the first row, with empty statistics.
StartImport(j) ==
    /\ jobs[j].at = "waiting"
    /\ jobs' = [jobs EXCEPT ![j] = [NewJob EXCEPT !.at = "rows", !.left = Rows]]
    /\ UNCHANGED <<imported, counters, deaths, forgotten>>

\* Mutant: a row counts whether or not its transaction did anything.
CountsAll(r) == TRUE

\* The statistics are of rows that were imported: a row that fails counts for nothing.
Counts(r) == r \notin imported /\ r \notin Broken

\* importSingleCustomer: user, payroll, payment method, loan and repayment, or nothing.
ImportRow(j, r) ==
    /\ jobs[j].at = "rows" /\ r \in jobs[j].left
    /\ imported' = IF r \in Broken THEN imported ELSE imported \cup {r}
    /\ jobs' = [jobs EXCEPT ![j].left = @ \ {r},
                            ![j].stats = IF Counts(r) THEN @ \cup {r} ELSE @]
    /\ UNCHANGED <<counters, deaths, forgotten>>

\* The row is imported and the answer to its commit lost: handleImport takes it for one
\* that failed, and counts nothing for it.
AnswerLost(j, r) ==
    /\ jobs[j].at = "rows" /\ r \in jobs[j].left /\ Counts(r)
    /\ deaths < MaxDeaths /\ deaths' = deaths + 1
    /\ imported' = imported \cup {r}
    /\ jobs' = [jobs EXCEPT ![j].left = @ \ {r}]
    /\ forgotten' = [f \in Figures |-> forgotten[f] + Worth(f, 1)]
    /\ UNCHANGED counters

\* After the last row: three top-ups at once, or none when nothing was imported.
EndRows(j) ==
    /\ jobs[j].at = "rows" /\ jobs[j].left = {}
    /\ jobs' = [jobs EXCEPT ![j].at = IF jobs[j].stats = {} THEN "ended" ELSE "counting",
                            ![j].topups = IF jobs[j].stats = {} THEN {} ELSE Figures]
    /\ UNCHANGED <<imported, counters, deaths, forgotten>>

TopUp(j, f) ==
    /\ jobs[j].at = "counting" /\ f \in jobs[j].topups
    /\ counters' = [counters EXCEPT ![f] = @ + Worth(f, Cardinality(jobs[j].stats))]
    /\ jobs' = [jobs EXCEPT ![j].topups = @ \ {f}]
    /\ UNCHANGED <<imported, deaths, forgotten>>

\* One of them fails: the others were sent, the job ends with an error.
TopUpFails(j, f) ==
    /\ jobs[j].at = "counting" /\ f \in jobs[j].topups
    /\ deaths < MaxDeaths /\ deaths' = deaths + 1
    /\ forgotten' = [forgotten EXCEPT ![f] = @ + Worth(f, Cardinality(jobs[j].stats))]
    /\ jobs' = [jobs EXCEPT ![j].topups = @ \ {f}]
    /\ UNCHANGED <<imported, counters>>

EndImport(j) ==
    /\ jobs[j].at = "counting" /\ jobs[j].topups = {}
    /\ jobs' = [jobs EXCEPT ![j] = [NewJob EXCEPT !.at = "ended"]]
    /\ UNCHANGED <<imported, counters, deaths, forgotten>>

\* What a job in progress has imported and not counted.
InHand(j, f) ==
    IF jobs[j].at = "rows" \/ f \in jobs[j].topups THEN Worth(f, Cardinality(jobs[j].stats)) ELSE 0

\* A job that stalls is run again from the start.
ImportDies(j) ==
    /\ jobs[j].at \in {"rows", "counting"} /\ deaths < MaxDeaths /\ deaths' = deaths + 1
    /\ jobs' = [jobs EXCEPT ![j] = NewJob]
    /\ forgotten' = [f \in Figures |-> forgotten[f] + InHand(j, f)]
    /\ UNCHANGED <<imported, counters>>

ImportNext ==
    \E j \in ImportJobs :
        \/ StartImport(j) \/ EndRows(j) \/ EndImport(j) \/ ImportDies(j)
        \/ \E r \in Rows : ImportRow(j, r) \/ AnswerLost(j, r)
        \/ \E f \in Figures : TopUp(j, f) \/ TopUpFails(j, f)

ImportTypeOK ==
    /\ imported \subseteq Rows
    /\ counters \in [Figures -> Nat] /\ forgotten \in [Figures -> Nat]
    /\ jobs \in [ImportJobs -> Job]
    /\ deaths \in 0..MaxDeaths
=============================================================================
