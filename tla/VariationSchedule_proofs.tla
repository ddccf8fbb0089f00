---------------------- MODULE VariationSchedule_proofs ----------------------
(***************************************************************************)
(* For any number of installments and report jobs, any interleaving of     *)
(* their steps and any deaths and lost answers: the schedules of a month   *)
(* are a payroll register with one instruction in force, and every file    *)
(* that is mailed is on record.                                            *)
(***************************************************************************)
EXTENDS VariationSchedule, FiniteSetTheorems, SequenceTheorems, TLAPS

-----------------------------------------------------------------------------
(* The inductive invariant                                                 *)

BookShape ==
    /\ rows \in [Installments -> Installment]
    /\ schedules \in Seq(Schedule) /\ Len(schedules) <= MaxVersions
    /\ bucket \in [DOMAIN schedules -> SUBSET Entry]
    /\ deaths \in 0 .. MaxDeaths

\* What `official' and `status' say of a schedule is the same, and of one at most.
OneInForce ==
    /\ \A v \in DOMAIN schedules : schedules[v].official <=> schedules[v].status = "PUBLISHED"
    /\ \A v, w \in DOMAIN schedules : schedules[v].official /\ schedules[w].official => v = w

\* No schedule is empty; its file is made of its own rows, and its hash is its file's.
FilesAreTheirOwn ==
    \A v \in DOMAIN schedules :
        /\ schedules[v].rows # {}
        /\ bucket[v] \in {{}, schedules[v].rows}
        /\ schedules[v].hash \in {{}, bucket[v]}

Submitted == {v \in DOMAIN schedules : schedules[v].status # "DRAFT"}
Replacing(v) == {w \in Submitted : schedules[w].supersedes = v}

\* The chain, with the one that replaced a schedule named.
Chain ==
    \A v \in Submitted :
        /\ schedules[v].supersedes \in {0} \cup Submitted
        /\ v = InForce => Replacing(v) = {}
        /\ v # InForce => \E w \in Submitted : Replacing(v) = {w}

BookInv ==
    /\ BookShape
    /\ OneInForce
    /\ FilesAreTheirOwn
    /\ Chain
    /\ InstructedRowsArePayable

\* What a job knows of its schedule is so, and of an official month it does not make a
\* draft: where one was in force when the report was requested, one still is.
JobFits(job) ==
    /\ job \in Job /\ job.schedule \in {0} \cup DOMAIN schedules
    /\ job.step \in {"rendering", "uploading", "checking", "recording", "mailing", "done"} =>
          job.schedule # 0
    /\ job.step \in {"checking", "recording"} => bucket[job.schedule] # {}
    /\ job.step \in {"mailing", "done"} => schedules[job.schedule].hash # {}
    /\ job.hash # {} => job.schedule # 0 /\ job.hash = schedules[job.schedule].hash
    /\ job.official # 0 =>
          /\ InForce >= job.official
          /\ ~(job.mode = "DRAFT" /\ job.step = "preparing")
          /\ job.schedule # 0 =>
                schedules[job.schedule].status # "DRAFT" /\ job.schedule >= job.official

JobsFit ==
    /\ jobs \in [Jobs -> Job]
    /\ \A j \in Jobs : JobFits(jobs[j])

IInv == BookInv /\ JobsFit

-----------------------------------------------------------------------------
(* The schedule in force                                                   *)

LEMMA Versioned ==
    ASSUME BookShape
    PROVE  /\ Len(schedules) \in Nat /\ DOMAIN schedules = 1 .. Len(schedules)
           /\ \A v \in DOMAIN schedules : schedules[v] \in Schedule
           /\ DOMAIN bucket = DOMAIN schedules
BY LenProperties, ElementOfSeq DEF BookShape

\* There is none, or it is the only one that is official.
LEMMA InForceIs ==
    ASSUME BookShape, OneInForce
    PROVE  /\ Official = {v \in DOMAIN schedules : schedules[v].official}
           /\ InForce \in 0 .. Len(schedules)
           /\ InForce = 0 => Official = {}
           /\ InForce # 0 => InForce \in DOMAIN schedules /\ Official = {InForce}
           /\ Official # {} => InForce # 0 /\ InForce = Latest(Official)
<1>1. Official = {v \in DOMAIN schedules : schedules[v].official}
    BY DEF OneInForce, Official
<1>2. Len(schedules) \in Nat /\ DOMAIN schedules = 1 .. Len(schedules)
    BY Versioned
<1>3. CASE Official = {}
    BY <1>1, <1>2, <1>3 DEF InForce
<1>4. CASE Official # {}
    <2>1. PICK v \in DOMAIN schedules : Official = {v}
        BY <1>1, <1>4 DEF OneInForce
    <2>2. Latest(Official) = v
        BY <1>2, <2>1 DEF Latest
    <2>3. InForce = v
        BY <1>4, <2>2 DEF InForce
    <2> QED BY <1>1, <1>2, <1>4, <2>1, <2>2, <2>3
<1> QED BY <1>3, <1>4

\* It is the one that is official, whichever that is.
LEMMA InForceOf ==
    ASSUME BookShape, OneInForce, NEW v \in DOMAIN schedules, schedules[v].official
    PROVE  InForce = v
BY InForceIs

-----------------------------------------------------------------------------
(* Books that grow                                                         *)

\* What holds of a schedule that is there already after any step: it is still there, with
\* its rows, its file and its hash if it had them, submitted if it was, and the schedule
\* in force is not an earlier one.
Grown ==
    /\ DOMAIN schedules \subseteq DOMAIN schedules'
    /\ \A v \in DOMAIN schedules :
          /\ schedules'[v].rows = schedules[v].rows
          /\ schedules[v].hash # {} => schedules'[v].hash = schedules[v].hash
          /\ schedules[v].status # "DRAFT" => schedules'[v].status # "DRAFT"
          /\ bucket[v] # {} => bucket'[v] = bucket[v]
    /\ InForce \in Nat /\ InForce' \in Nat /\ InForce' >= InForce

\* A job's knowledge does not go stale while the books grow.
LEMMA JobStillFits ==
    ASSUME BookInv, BookInv', Grown, NEW job, JobFits(job)
    PROVE  JobFits(job)'
<1>1. /\ Len(schedules) \in Nat /\ DOMAIN schedules = 1 .. Len(schedules)
      /\ job.official \in Nat
    BY Versioned DEF BookInv, JobFits, Job, Versions
<1>2. CASE job.schedule = 0
    BY <1>1, <1>2 DEF JobFits, Grown
<1>3. CASE job.schedule # 0
    <2>1. job.schedule \in DOMAIN schedules
        BY <1>3 DEF JobFits
    <2> QED BY <1>1, <1>3, <2>1 DEF JobFits, Grown
<1> QED BY <1>2, <1>3

\* One job takes a step while the others stay as they are.
LEMMA JobMoves ==
    ASSUME IInv, BookInv', Grown, NEW j \in Jobs, NEW job, JobFits(job)',
           jobs' = [jobs EXCEPT ![j] = job]
    PROVE  IInv'
<1>1. job \in Job
    BY DEF JobFits
<1>2. /\ jobs' \in [Jobs -> Job] /\ jobs'[j] = job
      /\ \A k \in Jobs \ {j} : jobs'[k] = jobs[k]
    BY <1>1 DEF IInv, JobsFit
<1>3. \A k \in Jobs : JobFits(jobs[k])'
    <2> TAKE k \in Jobs
    <2>1. CASE k = j
        BY <1>2, <2>1
    <2>2. CASE k # j
        <3>1. JobFits(jobs[k])
            BY DEF IInv, JobsFit
        <3> DEFINE other == jobs[k]
        <3>2. JobFits(other)'
            BY <3>1, JobStillFits DEF IInv
        <3> QED BY <1>2, <2>2, <3>2
    <2> QED BY <2>1, <2>2
<1> QED BY <1>2, <1>3 DEF IInv, JobsFit

LEMMA JobsStand ==
    ASSUME IInv, BookInv', Grown, UNCHANGED jobs
    PROVE  IInv'
<1>1. \A k \in Jobs : JobFits(jobs[k])'
    BY JobStillFits DEF IInv, JobsFit
<1> QED BY <1>1 DEF IInv, JobsFit

\* Nothing of the books moves.
LEMMA BooksStand ==
    ASSUME BookInv, UNCHANGED <<rows, schedules, bucket>>, deaths' \in 0 .. MaxDeaths
    PROVE  BookInv' /\ Grown
<1>1. InForce' = InForce /\ Submitted' = Submitted /\ \A v : Replacing(v)' = Replacing(v)
    BY DEF InForce, Official, Submitted, Replacing
<1>2. BookInv'
    BY <1>1 DEF BookInv, BookShape, OneInForce, FilesAreTheirOwn, Chain, InstructedRowsArePayable
<1>3. InForce \in Nat
    BY InForceIs, Versioned DEF BookInv
<1> QED BY <1>1, <1>2, <1>3 DEF Grown

-----------------------------------------------------------------------------
(* The transaction that makes a schedule                                   *)

LEMMA LatestOfOne == ASSUME NEW v \in Nat PROVE Latest({v}) = v
BY DEF Latest

\* The schedules a commit leaves: those of before, the one it replaces superseded, and a
\* new last one.
LEMMA CommittedBooks ==
    ASSUME BookInv, NEW publish \in BOOLEAN, CommitSchedule(publish)
    PROVE  LET n == Len(schedules) + 1
           IN  /\ n \in Versions /\ n \in Nat \ {0}
               /\ DOMAIN schedules = 1 .. Len(schedules) /\ DOMAIN schedules' = 1 .. n
               /\ Len(schedules') = n /\ schedules' \in Seq(Schedule)
               /\ NewSchedule(publish, InForce) \in Schedule
               /\ schedules'[n] = NewSchedule(publish, InForce)
               /\ \A v \in DOMAIN schedules :
                     schedules'[v] = IF publish /\ v = InForce
                                     THEN [schedules[v] EXCEPT !.status = "SUPERSEDED",
                                                               !.official = FALSE]
                                     ELSE schedules[v]
               /\ DOMAIN bucket' = 1 .. n /\ bucket'[n] = {}
               /\ \A v \in DOMAIN schedules : bucket'[v] = bucket[v]
<1> DEFINE n == Len(schedules) + 1
           old == IF publish THEN Supersede(InForce) ELSE schedules
           new == NewSchedule(publish, InForce)
<1>1. /\ Len(schedules) \in Nat /\ DOMAIN schedules = 1 .. Len(schedules)
      /\ \A v \in DOMAIN schedules : schedules[v] \in Schedule
      /\ bucket \in [1 .. Len(schedules) -> SUBSET Entry]
    BY Versioned DEF BookInv, BookShape
<1>2. n \in Versions /\ n \in Nat \ {0} /\ MaxVersions \in Nat
    BY <1>1, ScheduleConstants DEF CommitSchedule, Versions
<1>3. InForce \in 0 .. Len(schedules)
    BY InForceIs DEF BookInv
<1>4. \A i \in Eligible : i \in Installments /\ <<i, rows[i].figures>> \in Entry
    BY DEF Eligible, BookInv, BookShape, Installment, Entry
<1>5. new \in Schedule
    <2> DEFINE taken == {<<i, rows[i].figures>> : i \in Eligible}
    <2>1. taken \in SUBSET Entry
        BY <1>4
    <2>2. (IF publish THEN InForce ELSE 0) \in {0} \cup Versions
        BY <1>1, <1>2, <1>3 DEF Versions
    <2> HIDE DEF taken
    <2>3. new = [status |-> IF publish THEN "PUBLISHED" ELSE "DRAFT", official |-> publish,
                 rows |-> taken, hash |-> {}, supersedes |-> IF publish THEN InForce ELSE 0]
        BY DEF NewSchedule, taken
    <2> QED BY <2>1, <2>2, <2>3 DEF Schedule
<1>6. /\ DOMAIN old = 1 .. Len(schedules)
      /\ \A v \in DOMAIN schedules :
            /\ old[v] = IF publish /\ v = InForce
                        THEN [schedules[v] EXCEPT !.status = "SUPERSEDED", !.official = FALSE]
                        ELSE schedules[v]
            /\ old[v] \in Schedule
    BY <1>1 DEF Supersede, Schedule
<1>7. old \in [1 .. Len(schedules) -> Schedule]
    <2>1. CASE publish
        BY <2>1, <1>1, <1>6 DEF Supersede
    <2>2. CASE ~publish
        BY <2>2, <1>1, LenProperties DEF BookInv, BookShape
    <2> QED BY <2>1, <2>2
<1>8. old \in Seq(Schedule) /\ Len(old) = Len(schedules)
    BY <1>1, <1>7, LenProperties
<1>9. schedules' = Append(old, new) /\ bucket' = Append(bucket, {})
    BY DEF CommitSchedule
<1>10. bucket \in Seq(SUBSET Entry) /\ Len(bucket) = Len(schedules)
    BY <1>1, LenProperties
<1> HIDE DEF old, new
<1>11. /\ schedules' \in Seq(Schedule) /\ Len(schedules') = n /\ DOMAIN schedules' = 1 .. n
       /\ schedules'[n] = new /\ \A v \in 1 .. Len(schedules) : schedules'[v] = old[v]
    BY <1>5, <1>8, <1>9, AppendProperties, LenProperties
<1>12. /\ DOMAIN bucket' = 1 .. n /\ bucket'[n] = {}
       /\ \A v \in 1 .. Len(schedules) : bucket'[v] = bucket[v]
    BY <1>9, <1>10, AppendProperties, LenProperties
<1> QED BY <1>1, <1>2, <1>5, <1>6, <1>11, <1>12 DEF new

\* A submission is in force from then on; a draft changes nothing of what is.
LEMMA CommittedInForce ==
    ASSUME BookInv, NEW publish \in BOOLEAN, CommitSchedule(publish)
    PROVE  /\ InForce' = IF publish THEN Len(schedules) + 1 ELSE InForce
           /\ OneInForce'
           /\ InForce \in 0 .. Len(schedules)
<1> DEFINE n == Len(schedules) + 1
<1>0. /\ n \in Nat \ {0} /\ Len(schedules) \in Nat
      /\ DOMAIN schedules = 1 .. Len(schedules) /\ DOMAIN schedules' = 1 .. n
    BY CommittedBooks, Versioned DEF BookInv
<1>1. \A v \in DOMAIN schedules :
          /\ schedules[v] \in Schedule
          /\ schedules'[v] = IF publish /\ v = InForce
                             THEN [schedules[v] EXCEPT !.status = "SUPERSEDED",
                                                       !.official = FALSE]
                             ELSE schedules[v]
    BY CommittedBooks, Versioned DEF BookInv
<1>12. schedules'[n] = NewSchedule(publish, InForce)
    BY CommittedBooks
<1>2. /\ InForce \in 0 .. Len(schedules)
      /\ InForce = 0 => Official = {}
      /\ InForce # 0 => Official = {InForce}
      /\ Official # {} => InForce = Latest(Official)
      /\ \A v \in DOMAIN schedules : schedules[v].official => v = InForce
    BY InForceIs DEF BookInv
<1>3. \A v \in DOMAIN schedules : schedules[v].official <=> schedules[v].status = "PUBLISHED"
    BY DEF BookInv, OneInForce
<1>4. /\ schedules'[n].official = publish
      /\ schedules'[n].status = IF publish THEN "PUBLISHED" ELSE "DRAFT"
    <2> HIDE DEF n
    <2> QED BY <1>12 DEF NewSchedule
<1>5. \A v \in DOMAIN schedules :
          /\ schedules'[v].official <=> schedules[v].official /\ ~publish
          /\ schedules'[v].official <=> schedules'[v].status = "PUBLISHED"
    <2> TAKE v \in DOMAIN schedules
    <2>1. CASE publish /\ v = InForce
        BY <1>1, <2>1 DEF Schedule
    <2>2. CASE ~publish
        BY <1>1, <1>3, <2>2
    <2>3. CASE publish /\ v # InForce
        BY <1>1, <1>2, <1>3, <2>3
    <2> QED BY <2>1, <2>2, <2>3
<1>6. \A v \in DOMAIN schedules' : v = n \/ v \in DOMAIN schedules
    BY <1>0
<1>7. /\ n \notin DOMAIN schedules /\ n \in DOMAIN schedules'
      /\ DOMAIN schedules \subseteq DOMAIN schedules'
    BY <1>0
<1> HIDE DEF n
<1>8. \A v \in DOMAIN schedules' : schedules'[v].official <=> schedules'[v].status = "PUBLISHED"
    BY <1>4, <1>5, <1>6
<1>9. Official' = {v \in DOMAIN schedules' : schedules'[v].official}
    BY <1>8 DEF Official
<1>10. CASE publish
    <2>1. \A v \in DOMAIN schedules' : schedules'[v].official <=> v = n
        BY <1>4, <1>5, <1>6, <1>7, <1>10
    <2>2. Official' = {n}
        BY <1>7, <1>9, <2>1
    <2>3. InForce' = n
        BY <1>0, <2>2, LatestOfOne DEF InForce
    <2> QED BY <1>2, <1>8, <1>10, <2>1, <2>3 DEF OneInForce, n
<1>11. CASE ~publish
    <2>1. \A v \in DOMAIN schedules' : schedules'[v].official <=>
              v \in DOMAIN schedules /\ schedules[v].official
        BY <1>4, <1>5, <1>6, <1>7, <1>11
    <2>2. Official' = Official
        <3>1. Official = {v \in DOMAIN schedules : schedules[v].official}
            BY <1>3 DEF Official
        <3> QED BY <1>7, <1>9, <2>1, <3>1
    <2>3. InForce' = InForce
        BY <2>2 DEF InForce
    <2>4. OneInForce'
        BY <1>2, <1>8, <2>1 DEF OneInForce
    <2> QED BY <1>2, <1>11, <2>3, <2>4
<1> QED BY <1>10, <1>11

\* The chain after a submission: it replaces what was in force, and nothing replaces it.
LEMMA CommittedChain ==
    ASSUME BookInv, NEW publish \in BOOLEAN, CommitSchedule(publish)
    PROVE  Chain'
<1> DEFINE n == Len(schedules) + 1
<1>0. /\ n \in Nat \ {0} /\ Len(schedules) \in Nat
      /\ DOMAIN schedules = 1 .. Len(schedules) /\ DOMAIN schedules' = 1 .. n
    BY CommittedBooks, Versioned DEF BookInv
<1>1. \A v \in DOMAIN schedules :
          /\ schedules[v] \in Schedule
          /\ schedules'[v] = IF publish /\ v = InForce
                             THEN [schedules[v] EXCEPT !.status = "SUPERSEDED",
                                                       !.official = FALSE]
                             ELSE schedules[v]
    BY CommittedBooks, Versioned DEF BookInv
<1>12. schedules'[n] = NewSchedule(publish, InForce)
    BY CommittedBooks
<1>2. /\ InForce' = IF publish THEN n ELSE InForce
      /\ InForce # 0 => InForce \in Submitted
    BY CommittedInForce, InForceIs DEF BookInv, OneInForce, Submitted
<1>3. \A v \in DOMAIN schedules :
          /\ schedules'[v].supersedes = schedules[v].supersedes
          /\ schedules'[v].status # "DRAFT" <=> schedules[v].status # "DRAFT"
    <2> TAKE v \in DOMAIN schedules
    <2>1. CASE publish /\ v = InForce
        <3>1. schedules[v].status # "DRAFT"
            BY <1>0, <1>2, <2>1 DEF Submitted
        <3> QED BY <1>1, <2>1, <3>1 DEF Schedule
    <2>2. CASE ~(publish /\ v = InForce)
        BY <1>1, <2>2
    <2> QED BY <2>1, <2>2
<1>4. /\ schedules'[n].status # "DRAFT" <=> publish
      /\ schedules'[n].supersedes = IF publish THEN InForce ELSE 0
    <2> HIDE DEF n
    <2> QED BY <1>12 DEF NewSchedule
<1>5. /\ \A v \in DOMAIN schedules' : v = n \/ v \in DOMAIN schedules
      /\ n \notin DOMAIN schedules /\ n \in DOMAIN schedules'
      /\ DOMAIN schedules \subseteq DOMAIN schedules' /\ n # 0 /\ 0 \notin DOMAIN schedules
    BY <1>0
<1>6. Submitted \subseteq DOMAIN schedules
    BY DEF Submitted
<1> HIDE DEF n
<1>7. CASE ~publish
    <2>1. Submitted' = Submitted
        BY <1>3, <1>4, <1>5, <1>7 DEF Submitted
    <2>2. \A v : Replacing(v)' = Replacing(v)
        BY <1>3, <1>6, <2>1 DEF Replacing
    <2> QED BY <1>2, <1>3, <1>6, <1>7, <2>1, <2>2 DEF BookInv, Chain
<1>8. CASE publish
    <2>1. Submitted' = Submitted \cup {n}
        BY <1>3, <1>4, <1>5, <1>8 DEF Submitted
    <2>2. \A v \in Submitted : schedules[v].supersedes \in {0} \cup Submitted
        BY DEF BookInv, Chain
    <2>3. \A v : Replacing(v)' = IF v = InForce THEN Replacing(v) \cup {n} ELSE Replacing(v)
        BY <1>3, <1>4, <1>6, <1>8, <2>1 DEF Replacing
    <2>4. Replacing(n) = {}
        BY <1>5, <1>6, <2>2 DEF Replacing
    <2>5. n # InForce
        BY <1>2, <1>5, <1>6
    <2>6. \A v \in Submitted' : schedules'[v].supersedes \in {0} \cup Submitted'
        BY <1>2, <1>3, <1>4, <1>6, <1>8, <2>1, <2>2
    <2>7. ASSUME NEW v \in Submitted'
          PROVE  /\ v = InForce' => Replacing(v)' = {}
                 /\ v # InForce' => \E w \in Submitted' : Replacing(v)' = {w}
        <3>1. CASE v = n
            BY <1>2, <1>8, <2>3, <2>4, <2>5, <3>1
        <3>2. CASE v # n /\ v = InForce
            <4>1. v \in Submitted /\ Replacing(v) = {}
                BY <2>1, <3>2 DEF BookInv, Chain
            <4>2. Replacing(v)' = {n} /\ n \in Submitted' /\ InForce' = n
                BY <1>2, <1>8, <2>1, <2>3, <3>2, <4>1
            <4> QED BY <3>2, <4>2
        <3>3. CASE v # n /\ v # InForce
            <4>1. v \in Submitted /\ \E w \in Submitted : Replacing(v) = {w}
                BY <2>1, <3>3 DEF BookInv, Chain
            <4>2. Replacing(v)' = Replacing(v) /\ InForce' = n
                BY <1>2, <1>8, <2>3, <3>3
            <4> QED BY <2>1, <3>3, <4>1, <4>2
        <3> QED BY <3>1, <3>2, <3>3
    <2> QED BY <2>6, <2>7 DEF Chain
<1> QED BY <1>7, <1>8

\* What is submitted is open: publishing sets every eligible row, and no row that was
\* instructed before is withdrawn by it.
LEMMA CommittedRows ==
    ASSUME BookInv, NEW publish \in BOOLEAN, CommitSchedule(publish)
    PROVE  /\ rows' \in [Installments -> Installment]
           /\ InstructedRowsArePayable'
<1>1. /\ rows \in [Installments -> Installment] /\ rows' = PublishInstallments(publish)
      /\ \A i \in Eligible : i \in Installments
    BY DEF BookInv, BookShape, CommitSchedule, Eligible
<1>2. /\ rows' \in [Installments -> Installment]
      /\ \A i \in Installments : rows'[i].status = IF publish /\ i \in Eligible THEN "PUBLISHED"
                                                   ELSE rows[i].status
    BY <1>1 DEF PublishInstallments, Installment
<1>3. /\ InForce' = IF publish THEN Len(schedules) + 1 ELSE InForce
      /\ InForce \in 0 .. Len(schedules) /\ Len(schedules) \in Nat
      /\ DOMAIN schedules = 1 .. Len(schedules)
    BY CommittedInForce, Versioned DEF BookInv
<1>4. CASE publish
    <2> DEFINE n == Len(schedules) + 1
    <2>1. schedules'[n].rows = {<<i, rows[i].figures>> : i \in Eligible}
        <3>1. schedules'[n] = NewSchedule(publish, InForce)
            BY CommittedBooks
        <3> HIDE DEF n
        <3> QED BY <3>1 DEF NewSchedule
    <2>2. InForce' = n
        BY <1>3, <1>4
    <2> HIDE DEF n
    <2>3. \A e \in schedules'[n].rows : e[1] \in Eligible
        BY <2>1
    <2> QED BY <1>1, <1>2, <1>4, <2>2, <2>3 DEF InstructedRowsArePayable
<1>5. CASE ~publish
    <2>1. rows' = rows /\ InForce' = InForce
        BY <1>1, <1>3, <1>5 DEF PublishInstallments
    <2>2. \A v \in DOMAIN schedules : schedules'[v] = schedules[v]
        BY <1>5, CommittedBooks
    <2>3. InForce # 0 => schedules'[InForce] = schedules[InForce]
        BY <1>3, <2>2
    <2> QED BY <1>2, <2>1, <2>3 DEF BookInv, InstructedRowsArePayable
<1> QED BY <1>4, <1>5

LEMMA CommitKeepsBooks ==
    ASSUME BookInv, NEW publish \in BOOLEAN, CommitSchedule(publish), deaths' = deaths
    PROVE  BookInv' /\ Grown
<1> DEFINE n == Len(schedules) + 1
<1>1. /\ n \in Versions /\ n \in Nat \ {0} /\ Len(schedules) \in Nat
      /\ DOMAIN schedules = 1 .. Len(schedules) /\ DOMAIN schedules' = 1 .. n
      /\ Len(schedules') = n /\ schedules' \in Seq(Schedule)
    BY CommittedBooks, Versioned DEF BookInv
<1>2. \A v \in DOMAIN schedules :
          /\ schedules'[v].rows = schedules[v].rows /\ schedules'[v].hash = schedules[v].hash
          /\ schedules[v].status # "DRAFT" => schedules'[v].status # "DRAFT"
          /\ bucket'[v] = bucket[v]
    <2> TAKE v \in DOMAIN schedules
    <2>1. /\ schedules[v] \in Schedule /\ bucket'[v] = bucket[v]
          /\ schedules'[v] = IF publish /\ v = InForce
                             THEN [schedules[v] EXCEPT !.status = "SUPERSEDED",
                                                       !.official = FALSE]
                             ELSE schedules[v]
        BY CommittedBooks, Versioned DEF BookInv
    <2> QED BY <2>1 DEF Schedule
<1>3. schedules'[n] = NewSchedule(publish, InForce) /\ bucket'[n] = {} /\ DOMAIN bucket' = 1 .. n
    BY CommittedBooks
<1>4. Eligible # {}
    BY DEF CommitSchedule
<1>5. \A v \in DOMAIN schedules' : v = n \/ v \in DOMAIN schedules
    BY <1>1
<1>6. DOMAIN schedules \subseteq DOMAIN schedules' /\ n <= MaxVersions
    BY <1>1, ScheduleConstants DEF Versions
<1>7. /\ InForce \in Nat /\ InForce' \in Nat /\ InForce' >= InForce
    BY <1>1, CommittedInForce
<1> HIDE DEF n
<1>8. schedules'[n].rows # {} /\ schedules'[n].hash = {}
    <2> DEFINE entries == {<<i, rows[i].figures>> : i \in Eligible}
    <2>1. entries # {}
        BY <1>4
    <2> HIDE DEF entries
    <2>2. schedules'[n].rows = entries /\ schedules'[n].hash = {}
        BY <1>3 DEF NewSchedule, entries
    <2> QED BY <2>1, <2>2
<1>9. FilesAreTheirOwn'
    BY <1>2, <1>3, <1>5, <1>8 DEF BookInv, FilesAreTheirOwn
<1>10. \A v \in DOMAIN schedules' : bucket'[v] \in SUBSET Entry
    BY <1>2, <1>3, <1>5 DEF BookInv, BookShape
<1>11. bucket' \in [DOMAIN schedules' -> SUBSET Entry]
    <2>1. bucket' = [v \in 1 .. n |-> bucket'[v]]
        <3>1. bucket' = Append(bucket, {}) /\ bucket \in Seq(SUBSET Entry)
            BY <1>1, LenProperties DEF CommitSchedule, BookInv, BookShape
        <3>2. bucket' \in Seq(SUBSET Entry)
            BY <3>1, AppendProperties
        <3> QED BY <1>3, <3>2, LenProperties
    <2> QED BY <1>1, <1>10, <2>1
<1>12. BookShape'
    BY <1>1, <1>6, <1>11, CommittedRows DEF BookInv, BookShape
<1>13. BookInv'
    BY <1>9, <1>12, CommittedInForce, CommittedChain, CommittedRows DEF BookInv
<1> QED BY <1>2, <1>6, <1>7, <1>13 DEF Grown

\* Any other step leaves the schedules what they are but for a hash, which it may record.
LEMMA OldBooks ==
    ASSUME BookInv, DOMAIN schedules' = DOMAIN schedules,
           \A v \in DOMAIN schedules :
              /\ schedules'[v].rows = schedules[v].rows
              /\ schedules'[v].status = schedules[v].status
              /\ schedules'[v].official = schedules[v].official
              /\ schedules'[v].supersedes = schedules[v].supersedes
    PROVE  InForce' = InForce /\ OneInForce' /\ Chain' /\ InForce \in Nat
<1>1. Official' = Official
    BY DEF Official
<1>2. InForce' = InForce
    BY <1>1 DEF InForce
<1>3. OneInForce'
    BY DEF BookInv, OneInForce
<1>4. Submitted' = Submitted
    BY DEF Submitted
<1>5. \A v : Replacing(v)' = Replacing(v)
    BY <1>4 DEF Replacing, Submitted
<1>6. Chain'
    BY <1>2, <1>4, <1>5 DEF BookInv, Chain, Submitted
<1> QED BY <1>2, <1>3, <1>6, InForceIs, Versioned DEF BookInv

LEMMA UploadKeepsBooks ==
    ASSUME IInv, NEW j \in Jobs, jobs[j].step = "uploading",
           bucket' = [bucket EXCEPT ![jobs[j].schedule] = File(jobs[j].schedule)],
           bucket[jobs[j].schedule] = {},
           UNCHANGED <<rows, schedules, deaths>>
    PROVE  /\ BookInv' /\ Grown
           /\ jobs[j].schedule \in DOMAIN schedules /\ bucket'[jobs[j].schedule] # {}
<1> DEFINE v == jobs[j].schedule
<1>1. v \in DOMAIN schedules /\ schedules[v] \in Schedule
    BY Versioned DEF IInv, BookInv, JobsFit, JobFits
<1>2. bucket \in [DOMAIN schedules -> SUBSET Entry] /\ schedules[v].rows \in SUBSET Entry
    BY <1>1 DEF IInv, BookInv, BookShape, Schedule
<1> HIDE DEF v
<1>3. /\ bucket' \in [DOMAIN schedules -> SUBSET Entry]
      /\ bucket'[v] = schedules[v].rows
      /\ \A w \in DOMAIN schedules \ {v} : bucket'[w] = bucket[w]
    BY <1>1, <1>2 DEF File, v
<1>4. InForce' = InForce /\ OneInForce' /\ Chain' /\ InForce \in Nat
    BY OldBooks DEF IInv
<1>5. BookShape' /\ InstructedRowsArePayable'
    BY <1>3, <1>4 DEF IInv, BookInv, BookShape, InstructedRowsArePayable
<1>6. FilesAreTheirOwn'
    BY <1>1, <1>3 DEF IInv, BookInv, FilesAreTheirOwn, v
<1>7. Grown
    BY <1>3, <1>4 DEF Grown, v
<1>8. bucket'[v] # {}
    BY <1>1, <1>3 DEF IInv, BookInv, FilesAreTheirOwn
<1> QED BY <1>1, <1>4, <1>5, <1>6, <1>7, <1>8 DEF BookInv, v

LEMMA RecordKeepsBooks ==
    ASSUME IInv, NEW j \in Jobs, RecordArtifact(j)
    PROVE  /\ BookInv' /\ Grown
           /\ jobs[j].schedule \in DOMAIN schedules /\ schedules'[jobs[j].schedule].hash # {}
           /\ schedules' = [schedules EXCEPT ![jobs[j].schedule].hash =
                                schedules[jobs[j].schedule].rows]
           /\ schedules[jobs[j].schedule].hash \in {{}, schedules[jobs[j].schedule].rows}
<1> DEFINE v == jobs[j].schedule
<1>1. v \in DOMAIN schedules /\ schedules[v] \in Schedule /\ bucket[v] # {}
    BY Versioned DEF RecordArtifact, IInv, BookInv, JobsFit, JobFits
<1>2. bucket[v] = schedules[v].rows /\ schedules[v].rows # {}
      /\ schedules[v].hash \in {{}, schedules[v].rows}
    BY <1>1 DEF IInv, BookInv, FilesAreTheirOwn
<1>3. /\ schedules \in Seq(Schedule) /\ DOMAIN schedules = 1 .. Len(schedules)
      /\ Len(schedules) \in Nat
    BY Versioned DEF IInv, BookInv, BookShape
<1>4. schedules' = [schedules EXCEPT ![v].hash = schedules[v].rows]
      /\ UNCHANGED <<rows, bucket, deaths>>
    BY DEF RecordArtifact, File
<1> DEFINE new == [schedules[v] EXCEPT !.hash = schedules[v].rows]
<1>5. new \in Schedule
    BY <1>1 DEF Schedule
<1>6. schedules' = [schedules EXCEPT ![v] = new]
    BY <1>4
<1>7. /\ new.hash = schedules[v].rows /\ new.rows = schedules[v].rows
      /\ new.status = schedules[v].status /\ new.official = schedules[v].official
      /\ new.supersedes = schedules[v].supersedes
    BY <1>1 DEF Schedule
<1> HIDE DEF v, new
<1>8. /\ schedules' \in Seq(Schedule) /\ Len(schedules') = Len(schedules)
      /\ DOMAIN schedules' = DOMAIN schedules
      /\ schedules'[v] = new
      /\ \A w \in DOMAIN schedules \ {v} : schedules'[w] = schedules[w]
    BY <1>1, <1>3, <1>5, <1>6, ExceptSeq
<1>9. \A w \in DOMAIN schedules :
          /\ schedules'[w].rows = schedules[w].rows
          /\ schedules'[w].status = schedules[w].status
          /\ schedules'[w].official = schedules[w].official
          /\ schedules'[w].supersedes = schedules[w].supersedes
          /\ schedules'[w].hash = IF w = v THEN schedules[v].rows ELSE schedules[w].hash
    BY <1>7, <1>8
<1>10. InForce' = InForce /\ OneInForce' /\ Chain' /\ InForce \in Nat
    BY <1>8, <1>9, OldBooks DEF IInv
<1>11. InForce # 0 => InForce \in DOMAIN schedules
    BY InForceIs DEF IInv, BookInv
<1>12. BookShape' /\ InstructedRowsArePayable'
    BY <1>4, <1>8, <1>9, <1>10, <1>11 DEF IInv, BookInv, BookShape, InstructedRowsArePayable
<1>13. FilesAreTheirOwn'
    BY <1>2, <1>4, <1>8, <1>9 DEF IInv, BookInv, FilesAreTheirOwn
<1>14. Grown
    BY <1>2, <1>4, <1>8, <1>9, <1>10 DEF Grown
<1> QED BY <1>1, <1>2, <1>4, <1>9, <1>10, <1>12, <1>13, <1>14 DEF BookInv, v

\* An installment that is paid, closed, withdrawn, settled or renamed.  One that was
\* instructed is no longer PLANNED, so no plan withdraws it.
LEMMA RowsKeepBooks ==
    ASSUME IInv, rows' \in [Installments -> Installment],
           \A i \in Installments : rows[i].status \notin {"PLANNED", "SUPERSEDED"} =>
              rows'[i].status \notin {"PLANNED", "SUPERSEDED"},
           UNCHANGED <<schedules, bucket, jobs, deaths>>
    PROVE  IInv'
<1>1. InForce' = InForce /\ OneInForce' /\ Chain' /\ InForce \in Nat
    BY OldBooks DEF IInv
<1>2. InForce # 0 => InForce \in DOMAIN schedules /\ schedules[InForce].rows \subseteq Entry
    BY InForceIs, Versioned DEF IInv, BookInv, Schedule
<1>3. \A e \in Entry : e[1] \in Installments
    BY DEF Entry
<1>4. InstructedRowsArePayable'
    BY <1>1, <1>2, <1>3 DEF IInv, BookInv, InstructedRowsArePayable
<1>5. BookShape' /\ FilesAreTheirOwn'
    BY DEF IInv, BookInv, BookShape, FilesAreTheirOwn
<1>6. BookInv' /\ Grown
    BY <1>1, <1>4, <1>5 DEF BookInv, Grown
<1> QED BY <1>6, JobsStand

-----------------------------------------------------------------------------
(* Jobs                                                                    *)

Step == {"none", "backfilling", "looking", "preparing", "rendering", "uploading",
         "checking", "recording", "mailing", "done", "failed"}

\* What books have to say for a job to be at a step.
Allows(job, step) ==
    /\ step \in {"rendering", "uploading", "checking", "recording", "mailing", "done"} =>
          job.schedule # 0
    /\ step \in {"checking", "recording"} => bucket[job.schedule] # {}
    /\ step \in {"mailing", "done"} => schedules[job.schedule].hash # {}
    /\ job.official # 0 /\ job.mode = "DRAFT" => step # "preparing"

\* Moving on to a step the books allow, at whatever attempt.
LEMMA MovedFits ==
    ASSUME BookInv, BookInv', Grown, NEW job, JobFits(job),
           NEW step \in Step, NEW attempt \in 1 .. Attempts, NEW new,
           new = [job EXCEPT !.attempt = attempt, !.step = step], Allows(job, step)'
    PROVE  JobFits(new)'
<1>1. JobFits(job)' /\ job \in Job
    BY JobStillFits DEF JobFits
<1>2. /\ new \in Job /\ new.step = step /\ new.mode = job.mode
      /\ new.schedule = job.schedule /\ new.hash = job.hash /\ new.official = job.official
    BY <1>1 DEF Job, Step
<1> QED BY <1>1, <1>2 DEF JobFits, Allows

LEMMA SteppedFits ==
    ASSUME BookInv, BookInv', Grown, NEW job, JobFits(job),
           NEW step \in Step, NEW new, new = Stepped(job, step), Allows(job, step)'
    PROVE  JobFits(new)'
<1>1. job \in Job /\ JobFits(job)'
    BY JobStillFits DEF JobFits
<1>2. CASE step \in {"done", "failed"}
    <2>1. new = [job EXCEPT !.step = step, !.attempt = 1, !.hash = {}]
        BY <1>2 DEF Stepped
    <2>2. 1 \in 1 .. Attempts /\ {} \in SUBSET Entry
        BY ScheduleConstants
    <2>3. /\ new \in Job /\ new.step = step /\ new.mode = job.mode
          /\ new.schedule = job.schedule /\ new.hash = {} /\ new.official = job.official
        BY <1>1, <2>1, <2>2 DEF Job, Step
    <2> QED BY <1>1, <1>2, <2>3 DEF JobFits, Allows
<1>3. CASE step \notin {"done", "failed"}
    <2>1. new = [job EXCEPT !.step = step]
        BY <1>3 DEF Stepped
    <2>2. /\ new \in Job /\ new.step = step /\ new.mode = job.mode
          /\ new.schedule = job.schedule /\ new.hash = job.hash /\ new.official = job.official
        BY <1>1, <2>1 DEF Job, Step
    <2> QED BY <1>1, <2>2 DEF JobFits, Allows
<1> QED BY <1>2, <1>3

LEMMA GoKeeps ==
    ASSUME IInv, BookInv', Grown, NEW j \in Jobs, NEW step \in Step, Go(j, step),
           NEW job, job = jobs[j], Allows(job, step)'
    PROVE  IInv'
<1>1. PICK new : new = Stepped(job, step)
    OBVIOUS
<1>2. jobs' = [jobs EXCEPT ![j] = new]
    BY <1>1 DEF Go, IInv, JobsFit
<1>3. JobFits(job)
    BY DEF IInv, JobsFit
<1>4. JobFits(new)'
    BY <1>1, <1>3, SteppedFits DEF IInv
<1> QED BY <1>2, <1>4, JobMoves

\* An operation that is tried again starts over; a draft looks again.
LEMMA RetryKeeps ==
    ASSUME IInv, BookInv', Grown, NEW j \in Jobs,
           jobs[j].step \in {"backfilling", "looking", "preparing"},
           jobs' = [jobs EXCEPT ![j] = Retry(jobs[j])]
    PROVE  IInv'
<1>1. PICK job : job = jobs[j]
    OBVIOUS
<1>2. PICK new : new = Retry(job)
    OBVIOUS
<1>3. JobFits(job) /\ job \in Job /\ job.attempt \in 1 .. Attempts /\ Attempts \in Nat
    BY <1>1, ScheduleConstants DEF IInv, JobsFit, JobFits, Job
<1>4. jobs' = [jobs EXCEPT ![j] = new]
    BY <1>1, <1>2
<1>5. CASE job.attempt = Attempts
    <2>1. new = Stepped(job, "failed")
        BY <1>2, <1>5 DEF Retry
    <2>2. Allows(job, "failed")'
        BY DEF Allows
    <2>3. JobFits(new)'
        BY <1>3, <2>1, <2>2, SteppedFits DEF IInv, Step
    <2> QED BY <1>4, <2>3, JobMoves
<1>6. CASE job.attempt # Attempts
    <2> DEFINE step == IF job.step = "backfilling" THEN job.step
                       ELSE IF job.mode = "DRAFT" THEN "looking" ELSE "preparing"
    <2>1. job.attempt + 1 \in 1 .. Attempts
        BY <1>3, <1>6
    <2>2. step \in Step
        BY DEF Step
    <2>3. new = [job EXCEPT !.attempt = job.attempt + 1, !.step = step]
        BY <1>2, <1>3, <1>6 DEF Retry, Job
    <2>4. Allows(job, step)'
        BY DEF Allows
    <2> HIDE DEF step
    <2>5. JobFits(new)'
        BY <1>3, <2>1, <2>2, <2>3, <2>4, MovedFits DEF IInv
    <2> QED BY <1>4, <2>5, JobMoves
<1> QED BY <1>5, <1>6

\* The schedule a job has made or found, as prepareVariationSchedule returns it.
LEMMA PreparedKeeps ==
    ASSUME IInv, BookInv', Grown, NEW j \in Jobs, NEW v \in DOMAIN schedules', NEW hash,
           Prepared(j, v, hash), hash \in {{}, schedules'[v].hash},
           jobs[j].official # 0 =>
              schedules'[v].status # "DRAFT" /\ v >= jobs[j].official
    PROVE  IInv'
<1>1. PICK job : job = jobs[j]
    OBVIOUS
<1>2. PICK new : new = [job EXCEPT !.step = "rendering", !.attempt = 1, !.schedule = v,
                                   !.hash = hash]
    OBVIOUS
<1>3. JobFits(job) /\ job \in Job /\ 1 \in 1 .. Attempts
    BY <1>1, ScheduleConstants DEF IInv, JobsFit, JobFits
<1>4. JobFits(job)'
    BY <1>3, JobStillFits DEF IInv
<1>5. v \in Versions /\ hash \in SUBSET Entry
    <2>1. /\ Len(schedules') \in Nat /\ DOMAIN schedules' = 1 .. Len(schedules')
          /\ Len(schedules') <= MaxVersions /\ schedules'[v] \in Schedule
        BY LenProperties, ElementOfSeq DEF BookInv, BookShape
    <2> QED BY <2>1, ScheduleConstants DEF Versions, Schedule
<1>6. v # 0 /\ v \in {0} \cup Versions
    BY <1>5 DEF Versions
<1>9. /\ new \in Job /\ new.step = "rendering" /\ new.schedule = v
      /\ new.hash = hash /\ new.official = job.official
    BY <1>2, <1>3, <1>5, <1>6 DEF Job
<1>7. JobFits(new)'
    BY <1>1, <1>4, <1>6, <1>9 DEF JobFits
<1>8. jobs' = [jobs EXCEPT ![j] = new]
    BY <1>1, <1>2 DEF Prepared, IInv, JobsFit
<1> QED BY <1>7, <1>8, JobMoves

\* A report that is asked for, or run again from its start, knows of no schedule yet.
LEMMA NewJobKeeps ==
    ASSUME IInv, UNCHANGED <<rows, schedules, bucket>>, deaths' \in 0 .. MaxDeaths,
           NEW j \in Jobs, NEW mode \in Mode, NEW official \in {0} \cup Versions,
           official # 0 => InForce >= official,
           jobs' = [jobs EXCEPT ![j] = NewJob(mode, official)]
    PROVE  IInv'
<1>1. BookInv' /\ Grown /\ InForce' = InForce
    BY BooksStand DEF IInv, InForce, Official
<1>2. PICK new : new = NewJob(mode, official)
    OBVIOUS
<1>3. /\ new \in Job /\ new.step = "backfilling" /\ new.schedule = 0
      /\ new.hash = {} /\ new.official = official
    BY <1>2, ScheduleConstants DEF NewJob, Job
<1>4. JobFits(new)'
    BY <1>1, <1>3 DEF JobFits
<1> QED BY <1>1, <1>2, <1>4, JobMoves

LEMMA RequestKeeps ==
    ASSUME IInv, NEW j \in Jobs,
           \/ \E mode \in Mode, role \in {"ADMIN", "SUPER_ADMIN"} : RequestVariation(j, mode, role)
           \/ AutoReport(j)
    PROVE  IInv'
<1>1. UNCHANGED <<rows, schedules, bucket>> /\ deaths' \in 0 .. MaxDeaths
    BY DEF RequestVariation, AutoReport, IInv, BookInv, BookShape
<1>2. PICK mode \in Mode : jobs' = [jobs EXCEPT ![j] = NewJob(mode, InForce)]
    BY DEF RequestVariation, AutoReport, Mode
<1>3. InForce \in {0} \cup Versions /\ InForce \in Nat
    <2>1. InForce \in 0 .. Len(schedules) /\ Len(schedules) \in Nat /\ Len(schedules) <= MaxVersions
        BY InForceIs, Versioned DEF IInv, BookInv, BookShape
    <2> QED BY <2>1, ScheduleConstants DEF Versions
<1>4. PICK official : official = InForce
    OBVIOUS
<1>5. official \in {0} \cup Versions /\ InForce >= official
      /\ jobs' = [jobs EXCEPT ![j] = NewJob(mode, official)]
    BY <1>2, <1>3, <1>4
<1> QED BY <1>1, <1>5, NewJobKeeps

LEMMA WorkerDiesKeeps ==
    ASSUME IInv, NEW j \in Jobs, WorkerDies(j)
    PROVE  IInv'
<1>1. UNCHANGED <<rows, schedules, bucket>> /\ deaths' \in 0 .. MaxDeaths
    BY ScheduleConstants DEF WorkerDies, IInv, BookInv, BookShape
<1>6. \/ jobs' = [jobs EXCEPT ![j] = NewJob(jobs[j].mode, jobs[j].official)]
      \/ jobs' = [jobs EXCEPT ![j] = Stepped(jobs[j], "failed")]
    BY DEF WorkerDies
<1>2. PICK job : job = jobs[j]
    OBVIOUS
<1>3. JobFits(job) /\ job.mode \in Mode /\ job.official \in {0} \cup Versions
    BY <1>2 DEF IInv, JobsFit, Job
<1>4. CASE jobs' = [jobs EXCEPT ![j] = NewJob(jobs[j].mode, jobs[j].official)]
    BY <1>1, <1>2, <1>3, <1>4, NewJobKeeps DEF JobFits
<1>5. CASE jobs' = [jobs EXCEPT ![j] = Stepped(jobs[j], "failed")]
    <2>1. BookInv' /\ Grown
        BY <1>1, BooksStand DEF IInv
    <2>2. Go(j, "failed")
        BY <1>5 DEF Go, IInv, JobsFit
    <2>3. Allows(job, "failed")' /\ "failed" \in Step
        BY DEF Allows, Step
    <2> QED BY <1>2, <2>1, <2>2, <2>3, GoKeeps
<1> QED BY <1>4, <1>5, <1>6

LEMMA BackfillKeeps ==
    ASSUME IInv, NEW j \in Jobs, Backfill(j)
    PROVE  IInv'
<1>1. BookInv' /\ Grown
    BY BooksStand DEF Backfill, IInv, BookInv, BookShape
<1>2. PICK job : job = jobs[j]
    OBVIOUS
<1> DEFINE step == IF job.mode = "DRAFT" THEN "looking" ELSE "preparing"
<1>3. PICK new : new = [job EXCEPT !.attempt = 1, !.step = step]
    OBVIOUS
<1>4. JobFits(job) /\ step \in Step /\ 1 \in 1 .. Attempts /\ Allows(job, step)'
    BY <1>2, ScheduleConstants DEF IInv, JobsFit, Step, Allows
<1>5. jobs' = [jobs EXCEPT ![j] = new]
    BY <1>2, <1>3 DEF Backfill, IInv, JobsFit
<1> HIDE DEF step
<1>6. JobFits(new)'
    BY <1>1, <1>3, <1>4, MovedFits DEF IInv
<1> QED BY <1>1, <1>5, <1>6, JobMoves

\* A draft that was asked for while a schedule was in force finds one: it never prepares.
LEMMA LookForOfficialKeeps ==
    ASSUME IInv, NEW j \in Jobs, LookForOfficial(j)
    PROVE  IInv'
<1>1. BookInv' /\ Grown
    BY BooksStand DEF LookForOfficial, IInv, BookInv, BookShape
<1>2. PICK job : job = jobs[j]
    OBVIOUS
<1>3. JobFits(job) /\ job.official \in Nat
    BY <1>2 DEF IInv, JobsFit, Job, Versions
<1>4. CASE Official = {}
    <2>1. InForce = 0
        BY <1>4 DEF InForce
    <2>2. job.official = 0
        BY <1>3, <2>1 DEF JobFits
    <2>3. Go(j, "preparing") /\ Allows(job, "preparing")' /\ "preparing" \in Step
        BY <1>4, <2>2 DEF LookForOfficial, Allows, Step
    <2> QED BY <1>1, <1>2, <2>3, GoKeeps
<1>5. CASE Official # {}
    <2>1. /\ InForce \in DOMAIN schedules /\ InForce = Latest(Official)
          /\ schedules[InForce].official
        BY <1>5, InForceIs DEF IInv, BookInv
    <2>2. schedules[InForce].status # "DRAFT"
        BY <2>1 DEF IInv, BookInv, OneInForce
    <2>3. Prepared(j, InForce, schedules[InForce].hash) /\ schedules' = schedules
        BY <1>5, <2>1 DEF LookForOfficial
    <2>4. PICK v, hash : v = InForce /\ hash = schedules[v].hash
        OBVIOUS
    <2>5. Prepared(j, v, hash)
        BY <2>3, <2>4
    <2>6. jobs[j].official # 0 => v >= jobs[j].official
        BY <1>2, <1>3, <2>4 DEF JobFits
    <2> QED BY <1>1, <2>1, <2>2, <2>3, <2>4, <2>5, <2>6, PreparedKeeps
<1> QED BY <1>4, <1>5

LEMMA PrepareKeeps ==
    ASSUME IInv, NEW j \in Jobs, Prepare(j)
    PROVE  IInv'
<1> DEFINE n == Len(schedules) + 1
<1>1. PICK publish \in BOOLEAN : (publish <=> jobs[j].mode = "SUBMIT") /\ CommitSchedule(publish)
    BY DEF Prepare
<1>2. BookInv' /\ Grown
    BY <1>1, CommitKeepsBooks DEF Prepare, IInv
<1>3. /\ n \in DOMAIN schedules' /\ schedules'[n] = NewSchedule(publish, InForce)
      /\ n \in Nat /\ Len(schedules) \in Nat /\ InForce \in 0 .. Len(schedules)
    <2>1. n \in Nat \ {0} /\ DOMAIN schedules' = 1 .. n
        BY <1>1, CommittedBooks DEF IInv
    <2>2. schedules'[n] = NewSchedule(publish, InForce)
        BY <1>1, CommittedBooks DEF IInv
    <2> QED BY <2>1, <2>2, InForceIs, Versioned DEF IInv, BookInv
<1>4. /\ jobs[j].mode \in Mode /\ jobs[j].official \in Nat
      /\ jobs[j].official # 0 => InForce >= jobs[j].official /\ publish
    <2>1. JobFits(jobs[j]) /\ jobs[j].step = "preparing"
        BY DEF Prepare, IInv, JobsFit
    <2>2. jobs[j].mode \in {"DRAFT", "SUBMIT"} /\ jobs[j].official \in {0} \cup Versions
        BY DEF IInv, JobsFit, Job, Mode
    <2>3. jobs[j].official # 0 => InForce >= jobs[j].official /\ jobs[j].mode # "DRAFT"
        BY <2>1 DEF JobFits
    <2> QED BY <1>1, <2>2, <2>3 DEF Mode, Versions
<1>5. PICK v : v = n
    OBVIOUS
<1>6. Prepared(j, v, {})
    BY <1>5 DEF Prepare
<1>7. jobs[j].official # 0 => v >= jobs[j].official
    BY <1>3, <1>4, <1>5
<1> HIDE DEF n
<1>8. publish => schedules'[v].status # "DRAFT"
    BY <1>3, <1>5 DEF NewSchedule
<1> QED BY <1>2, <1>3, <1>4, <1>5, <1>6, <1>7, <1>8, PreparedKeeps

LEMMA AnswerLostKeeps ==
    ASSUME IInv, NEW j \in Jobs, AnswerLost(j)
    PROVE  IInv'
<1>1. PICK publish \in BOOLEAN : CommitSchedule(publish)
    BY DEF AnswerLost
<1>2. BookInv' /\ Grown
    BY <1>1, CommitKeepsBooks DEF AnswerLost, IInv
<1> QED BY <1>2, RetryKeeps DEF AnswerLost

LEMMA UnreachableKeeps ==
    ASSUME IInv, NEW j \in Jobs, Unreachable(j)
    PROVE  IInv'
<1>1. BookInv' /\ Grown
    BY BooksStand DEF Unreachable, IInv, BookInv, BookShape
<1> QED BY <1>1, RetryKeeps DEF Unreachable

LEMMA NothingDueKeeps ==
    ASSUME IInv, NEW j \in Jobs, NothingDue(j)
    PROVE  IInv'
<1>1. BookInv' /\ Grown
    BY BooksStand DEF NothingDue, IInv, BookInv, BookShape
<1>2. PICK job : job = jobs[j]
    OBVIOUS
<1>3. Go(j, "failed") /\ Allows(job, "failed")' /\ "failed" \in Step
    BY DEF NothingDue, Allows, Step
<1> QED BY <1>1, <1>2, <1>3, GoKeeps

\* What is rendered for mailing straight away has its hash on record.
LEMMA RenderKeeps ==
    ASSUME IInv, NEW j \in Jobs, Render(j)
    PROVE  IInv'
<1>1. BookInv' /\ Grown /\ schedules' = schedules
    BY BooksStand DEF Render, IInv, BookInv, BookShape
<1>2. PICK job : job = jobs[j]
    OBVIOUS
<1>3. JobFits(job) /\ job.step = "rendering"
    BY <1>2 DEF IInv, JobsFit, Render
<1>4. PICK step : step = IF job.hash = {} THEN "uploading"
                         ELSE IF job.hash = File(job.schedule) THEN "mailing" ELSE "failed"
    OBVIOUS
<1>5. step \in Step /\ Go(j, step)
    BY <1>2, <1>4 DEF Render, Step
<1>6. Allows(job, step)'
    BY <1>1, <1>3, <1>4 DEF Allows, JobFits
<1> QED BY <1>1, <1>2, <1>5, <1>6, GoKeeps

LEMMA UploadKeeps ==
    ASSUME IInv, NEW j \in Jobs, Upload(j)
    PROVE  IInv'
<1>1. PICK job : job = jobs[j]
    OBVIOUS
<1>2. jobs[j].step = "uploading" /\ UNCHANGED <<rows, schedules, deaths>>
    BY DEF Upload
<1>3. CASE bucket[jobs[j].schedule] = {}
    <2>1. bucket' = [bucket EXCEPT ![jobs[j].schedule] = File(jobs[j].schedule)]
          /\ Go(j, "checking")
        BY <1>3 DEF Upload
    <2>2. /\ BookInv' /\ Grown
          /\ jobs[j].schedule \in DOMAIN schedules /\ bucket'[jobs[j].schedule] # {}
        BY <1>2, <1>3, <2>1, UploadKeepsBooks
    <2>3. JobFits(job)
        BY <1>1 DEF IInv, JobsFit
    <2>4. job.schedule # 0
        BY <1>1, <1>2, <2>3 DEF JobFits
    <2>5. Allows(job, "checking")' /\ "checking" \in Step
        BY <1>1, <2>2, <2>4 DEF Allows, Step
    <2> QED BY <1>1, <2>1, <2>2, <2>5, GoKeeps
<1>4. CASE bucket[jobs[j].schedule] # {}
    <2>1. Go(j, "failed") /\ UNCHANGED bucket
        BY <1>4 DEF Upload
    <2>2. BookInv' /\ Grown
        BY <1>2, <2>1, BooksStand DEF IInv, BookInv, BookShape
    <2>3. Allows(job, "failed")' /\ "failed" \in Step
        BY DEF Allows, Step
    <2> QED BY <1>1, <2>1, <2>2, <2>3, GoKeeps
<1> QED BY <1>3, <1>4

LEMMA CheckArtifactKeeps ==
    ASSUME IInv, NEW j \in Jobs, CheckArtifact(j)
    PROVE  IInv'
<1>1. BookInv' /\ Grown /\ schedules' = schedules /\ bucket' = bucket
    BY BooksStand DEF CheckArtifact, IInv, BookInv, BookShape
<1>2. PICK job : job = jobs[j]
    OBVIOUS
<1>3. JobFits(job) /\ job.step = "checking"
    BY <1>2 DEF IInv, JobsFit, CheckArtifact
<1>4. PICK step : step = IF schedules[job.schedule].hash \in {{}, File(job.schedule)}
                         THEN "recording" ELSE "failed"
    OBVIOUS
<1>5. step \in Step /\ Go(j, step)
    BY <1>2, <1>4 DEF CheckArtifact, Step
<1>6. Allows(job, step)'
    BY <1>1, <1>3, <1>4 DEF Allows, JobFits
<1> QED BY <1>1, <1>2, <1>5, <1>6, GoKeeps

LEMMA RecordArtifactKeeps ==
    ASSUME IInv, NEW j \in Jobs, RecordArtifact(j)
    PROVE  IInv'
<1>1. PICK job : job = jobs[j]
    OBVIOUS
<1>2. /\ BookInv' /\ Grown
      /\ jobs[j].schedule \in DOMAIN schedules /\ schedules'[jobs[j].schedule].hash # {}
    BY RecordKeepsBooks
<1>3. JobFits(job) /\ job.step = "recording"
    BY <1>1 DEF IInv, JobsFit, RecordArtifact
<1>4. Go(j, "mailing") /\ Allows(job, "mailing")' /\ "mailing" \in Step
    BY <1>1, <1>2, <1>3 DEF RecordArtifact, Allows, JobFits, Step
<1> QED BY <1>1, <1>2, <1>4, GoKeeps

LEMMA MailKeeps ==
    ASSUME IInv, NEW j \in Jobs, Mail(j)
    PROVE  IInv'
<1>1. BookInv' /\ Grown /\ schedules' = schedules
    BY BooksStand DEF Mail, IInv, BookInv, BookShape
<1>2. PICK job : job = jobs[j]
    OBVIOUS
<1>3. JobFits(job) /\ job.step = "mailing"
    BY <1>2 DEF IInv, JobsFit, Mail
<1>4. Go(j, "done") /\ Allows(job, "done")' /\ "done" \in Step
    BY <1>1, <1>3 DEF Mail, Allows, JobFits, Step
<1> QED BY <1>1, <1>2, <1>4, GoKeeps

\* Payments, closes, plans, settlements and edits, whenever they come.
LEMMA InstallmentKeeps ==
    ASSUME IInv, NEW i \in Installments,
           \/ PaymentArrives(i) \/ ClosePeriod(i) \/ RecastPlan(i)
           \/ SettleObligation(i) \/ EditCustomer(i)
    PROVE  IInv'
<1>1. rows \in [Installments -> Installment] /\ UNCHANGED <<schedules, bucket, jobs, deaths>>
    BY DEF PaymentArrives, ClosePeriod, RecastPlan, SettleObligation, EditCustomer,
           IInv, BookInv, BookShape
<1>2. /\ Changed(i) \in 0 .. MaxFigures
      /\ rows[i].figures < MaxFigures => rows[i].figures + 1 \in 0 .. MaxFigures
    BY <1>1, ScheduleConstants DEF Changed, Installment
<1>3. \E new \in Installment :
          /\ rows' = [rows EXCEPT ![i] = new]
          /\ rows[i].status \notin {"PLANNED", "SUPERSEDED"} =>
                new.status \notin {"PLANNED", "SUPERSEDED"}
    <2>1. CASE PaymentArrives(i)
        <3>1. PICK status \in {"PARTIAL", "PAID"} :
                  rows' = [rows EXCEPT ![i].status = status, ![i].figures = Changed(i)]
            BY <2>1 DEF PaymentArrives
        <3> DEFINE new == [rows[i] EXCEPT !.status = status, !.figures = Changed(i)]
        <3>2. new \in Installment /\ new.status = status /\ rows' = [rows EXCEPT ![i] = new]
            BY <1>1, <1>2, <3>1 DEF Installment
        <3> QED BY <3>2
    <2>2. CASE ClosePeriod(i)
        <3> DEFINE new == [rows[i] EXCEPT !.status = "MISSED"]
        <3>1. new \in Installment /\ new.status = "MISSED" /\ rows' = [rows EXCEPT ![i] = new]
            BY <1>1, <2>2 DEF ClosePeriod, Installment
        <3> QED BY <3>1
    <2>3. CASE RecastPlan(i)
        <3> DEFINE new == [rows[i] EXCEPT !.status = "SUPERSEDED"]
        <3>1. new \in Installment /\ rows' = [rows EXCEPT ![i] = new]
            BY <1>1, <2>3 DEF RecastPlan, Installment
        <3>2. rows[i].status = "PLANNED"
            BY <2>3 DEF RecastPlan
        <3> QED BY <3>1, <3>2
    <2>4. CASE SettleObligation(i)
        <3> DEFINE status == IF rows[i].status = "PLANNED" THEN "SUPERSEDED" ELSE rows[i].status
                   new == [rows[i] EXCEPT !.active = FALSE, !.status = status]
        <3>1. status \in {"PUBLISHED", "PARTIAL", "PAID", "MISSED", "SUPERSEDED"}
            BY <1>1 DEF Installment
        <3>2. rows' = [rows EXCEPT ![i] = new]
            BY <1>1, <2>4 DEF SettleObligation, Installment
        <3>3. rows[i].status \notin {"PLANNED", "SUPERSEDED"} =>
                  status \notin {"PLANNED", "SUPERSEDED"}
            OBVIOUS
        <3> HIDE DEF status
        <3>4. new \in Installment /\ new.status = status
            BY <1>1, <3>1 DEF Installment
        <3> QED BY <3>2, <3>3, <3>4
    <2>5. CASE EditCustomer(i)
        <3> DEFINE new == [rows[i] EXCEPT !.figures = rows[i].figures + 1]
        <3>1. rows[i].figures + 1 \in 0 .. MaxFigures
            BY <1>2, <2>5 DEF EditCustomer
        <3>2. new \in Installment /\ new.status = rows[i].status /\ rows' = [rows EXCEPT ![i] = new]
            BY <1>1, <2>5, <3>1 DEF EditCustomer, Installment
        <3> QED BY <3>2
    <2> QED BY <2>1, <2>2, <2>3, <2>4, <2>5
<1> QED BY <1>1, <1>3, RowsKeepBooks

-----------------------------------------------------------------------------
(* Every step                                                              *)

LEMMA InitIInv == Init => IInv
<1> SUFFICES ASSUME Init PROVE IInv
    OBVIOUS
<1>1. /\ schedules = <<>> /\ bucket = <<>> /\ DOMAIN schedules = {} /\ Len(schedules) = 0
      /\ schedules \in Seq(Schedule) /\ bucket \in [DOMAIN schedules -> SUBSET Entry]
    BY EmptySeq DEF Init
<1>2. BookShape
    BY <1>1, ScheduleConstants DEF Init, BookShape, Installment
<1>3. OneInForce /\ FilesAreTheirOwn
    BY <1>1 DEF OneInForce, FilesAreTheirOwn
<1>4. Chain
    BY <1>1 DEF Chain, Submitted
<1>5. InstructedRowsArePayable
    BY <1>1 DEF InstructedRowsArePayable, InForce, Official
<1>6. PICK job : job = NoJob
    OBVIOUS
<1>7. job \in Job /\ job.step = "none" /\ job.schedule = 0 /\ job.hash = {} /\ job.official = 0
    BY <1>6, ScheduleConstants DEF NoJob, NewJob, Job, Mode
<1>8. JobFits(job)
    BY <1>7 DEF JobFits
<1>9. JobsFit
    BY <1>6, <1>7, <1>8 DEF Init, JobsFit
<1> QED BY <1>2, <1>3, <1>4, <1>5, <1>9 DEF IInv, BookInv

LEMMA NextPreserves ==
    ASSUME IInv, [Next]_vars
    PROVE  IInv'
<1>1. CASE UNCHANGED vars
    <2>1. BookInv' /\ Grown /\ UNCHANGED jobs
        BY <1>1, BooksStand DEF vars, IInv, BookInv, BookShape
    <2> QED BY <2>1, JobsStand
<1>2. ASSUME NEW j \in Jobs,
             \/ \E mode \in Mode, role \in {"ADMIN", "SUPER_ADMIN"} :
                   RequestVariation(j, mode, role)
             \/ AutoReport(j)
      PROVE  IInv'
    BY <1>2, RequestKeeps
<1>3. ASSUME NEW j \in Jobs, Work(j)
      PROVE  IInv'
    BY <1>3, BackfillKeeps, LookForOfficialKeeps, PrepareKeeps, NothingDueKeeps, RenderKeeps,
       UploadKeeps, CheckArtifactKeeps, RecordArtifactKeeps, MailKeeps DEF Work
<1>4. ASSUME NEW j \in Jobs, Fault(j)
      PROVE  IInv'
    BY <1>4, UnreachableKeeps, AnswerLostKeeps, WorkerDiesKeeps DEF Fault
<1>5. ASSUME NEW i \in Installments,
             \/ PaymentArrives(i) \/ ClosePeriod(i) \/ RecastPlan(i)
             \/ SettleObligation(i) \/ EditCustomer(i)
      PROVE  IInv'
    BY <1>5, InstallmentKeeps
<1> QED BY <1>1, <1>2, <1>3, <1>4, <1>5 DEF Next

\* The invariant the theorems below rest on.
THEOREM Inductive == Spec => []IInv
<1>1. IInv /\ [Next]_vars => IInv'
    BY NextPreserves
<1> QED BY <1>1, InitIInv, PTL DEF Spec

(***************************************************************************)
(* Every row keeps its shape, and what names a schedule names one that     *)
(* exists.                                                                 *)
(***************************************************************************)
THEOREM TypeCorrect == Spec => []TypeOK
<1>1. IInv => TypeOK
    BY DEF IInv, BookInv, BookShape, JobsFit, JobFits, TypeOK
<1> QED BY <1>1, Inductive, PTL

(***************************************************************************)
(* Whatever the accounts do between two steps of prepareVariationSchedule, *)
(* what payroll was told to deduct is payable.                             *)
(***************************************************************************)
THEOREM InstructionsArePayable == Spec => []InstructedRowsArePayable
<1>1. IInv => InstructedRowsArePayable
    BY DEF IInv, BookInv
<1> QED BY <1>1, Inductive, PTL

(***************************************************************************)
(* supersedesScheduleId links the submissions of a month in one chain that *)
(* ends at the schedule in force, repeated submissions included.           *)
(***************************************************************************)
THEOREM SubmissionsAreLinked == Spec => []SubmissionsFormOneChain
<1>1. ASSUME IInv PROVE SubmissionsFormOneChain
    <2>1. \A v \in Submitted :
              /\ schedules[v].supersedes \in {0} \cup Submitted
              /\ Cardinality(Replacing(v)) = IF v = InForce THEN 0 ELSE 1
        <3> TAKE v \in Submitted
        <3>1. CASE v = InForce
            BY <1>1, <3>1, FS_EmptySet DEF IInv, BookInv, Chain
        <3>2. CASE v # InForce
            BY <1>1, <3>2, FS_Singleton DEF IInv, BookInv, Chain
        <3> QED BY <1>1, <3>1, <3>2 DEF IInv, BookInv, Chain
    <2> QED BY <2>1, Zenon DEF SubmissionsFormOneChain, Submitted, Replacing
<1>2. IInv => SubmissionsFormOneChain
    BY <1>1
<1> QED BY <1>2, Inductive, PTL

(***************************************************************************)
(* A draft that is asked for while a month is official looks before it     *)
(* calculates, in every attempt, and what it finds has not been replaced   *)
(* by a draft since.                                                       *)
(***************************************************************************)
THEOREM OfficialMonthsStand == Spec => []OfficialMonthsAreReproduced
<1>1. IInv => OfficialMonthsAreReproduced
    BY DEF IInv, JobsFit, JobFits, OfficialMonthsAreReproduced
<1> QED BY <1>1, Inductive, PTL

(***************************************************************************)
(* What sendReport mails has its file in the bucket and its hash on record *)
(* whichever jobs ran or died between the two writes.                      *)
(***************************************************************************)
THEOREM MailsAreRecorded == Spec => []MailedFilesAreOnRecord
<1>1. IInv => MailedFilesAreOnRecord
    BY DEF IInv, BookInv, FilesAreTheirOwn, JobsFit, JobFits, MailedFilesAreOnRecord
<1> QED BY <1>1, Inductive, PTL

-----------------------------------------------------------------------------
(* The register                                                            *)

Issued == [v \in DOMAIN schedules |-> schedules[v].rows]
Instruction == {v \in DOMAIN schedules : schedules[v].official}
Filed == [v \in DOMAIN schedules |-> schedules[v].hash]

LEMMA RegisterOf ==
    ASSUME BookShape
    PROVE  /\ Issued \in Seq(SUBSET Entry) /\ Len(Issued) = Len(schedules)
           /\ Filed \in Seq(SUBSET Entry) /\ Len(Filed) = Len(schedules)
<1>1. /\ Len(schedules) \in Nat /\ DOMAIN schedules = 1 .. Len(schedules)
      /\ \A v \in DOMAIN schedules : schedules[v].rows \in SUBSET Entry
                                     /\ schedules[v].hash \in SUBSET Entry
    BY Versioned DEF Schedule
<1>2. /\ Issued \in [1 .. Len(schedules) -> SUBSET Entry]
      /\ Filed \in [1 .. Len(schedules) -> SUBSET Entry]
    BY <1>1 DEF Issued, Filed
<1> QED BY <1>1, <1>2, LenProperties

\* A step that leaves the rows, the instruction and the hashes of the schedules stutters.
LEMMA RegisterStands ==
    ASSUME UNCHANGED schedules
    PROVE  UNCHANGED Register!register
BY DEF Register!register

\* A commit adds a calculation to the end, and puts it in force or leaves what is.
LEMMA CommitCalculates ==
    ASSUME BookInv, NEW publish \in BOOLEAN, CommitSchedule(publish)
    PROVE  Register!Calculate
<1> DEFINE n == Len(schedules) + 1
<1>1. /\ n \in Nat \ {0} /\ Len(schedules) \in Nat
      /\ DOMAIN schedules = 1 .. Len(schedules) /\ DOMAIN schedules' = 1 .. n
      /\ Len(schedules') = n /\ schedules' \in Seq(Schedule)
    BY CommittedBooks, Versioned DEF BookInv
<1>2. \A v \in DOMAIN schedules :
          /\ schedules'[v].rows = schedules[v].rows /\ schedules'[v].hash = schedules[v].hash
          /\ schedules'[v].official <=> schedules[v].official /\ ~(publish /\ v = InForce)
    <2> TAKE v \in DOMAIN schedules
    <2>1. /\ schedules[v] \in Schedule
          /\ schedules'[v] = IF publish /\ v = InForce
                             THEN [schedules[v] EXCEPT !.status = "SUPERSEDED",
                                                       !.official = FALSE]
                             ELSE schedules[v]
        BY CommittedBooks, Versioned DEF BookInv
    <2>2. CASE publish /\ v = InForce
        BY <2>1, <2>2 DEF Schedule
    <2>3. CASE ~(publish /\ v = InForce)
        BY <2>1, <2>3
    <2> QED BY <2>2, <2>3
<1>3. schedules'[n] = NewSchedule(publish, InForce)
    BY CommittedBooks
<1>4. /\ Issued \in Seq(SUBSET Entry) /\ Len(Issued) = Len(schedules)
      /\ Filed \in Seq(SUBSET Entry) /\ Len(Filed) = Len(schedules)
    BY RegisterOf DEF BookInv
<1>5. \A v \in DOMAIN schedules : schedules[v].official => v = InForce
    BY InForceIs DEF BookInv
<1>6. \A v \in DOMAIN schedules' : v = n \/ v \in DOMAIN schedules
    BY <1>1
<1>7. n \in DOMAIN schedules' /\ n \notin DOMAIN schedules
      /\ DOMAIN schedules \subseteq DOMAIN schedules'
    BY <1>1
<1>8. /\ DOMAIN Issued' = 1 .. n /\ DOMAIN Filed' = 1 .. n
      /\ \A v \in 1 .. n : Issued'[v] = schedules'[v].rows /\ Filed'[v] = schedules'[v].hash
    BY <1>1 DEF Issued, Filed
<1>9. Issued' \in Seq({schedules'[v].rows : v \in 1 .. n}) /\ Len(Issued') = n
    <2>1. Issued' \in [1 .. n -> {schedules'[v].rows : v \in 1 .. n}]
        BY <1>1 DEF Issued
    <2> QED BY <1>1, <2>1, LenProperties
<1>10. SubSeq(Issued', 1, Len(Issued)) = Issued
    <2>1. \A v \in 1 .. Len(schedules) : Issued'[v] = Issued[v]
        BY <1>1, <1>2, <1>8 DEF Issued
    <2>2. /\ SubSeq(Issued', 1, Len(schedules)) \in Seq(SUBSET Entry)
          /\ Len(SubSeq(Issued', 1, Len(schedules))) = Len(schedules)
          /\ \A v \in 1 .. Len(schedules) :
                SubSeq(Issued', 1, Len(schedules))[v] = Issued'[v]
        <3>1. \A v \in 1 .. Len(schedules) : Issued'[v] \in SUBSET Entry
            BY <1>4, <2>1, ElementOfSeq
        <3> QED BY <1>1, <3>1, SubSeqProperties
    <2> QED BY <1>1, <1>4, <2>1, <2>2, SeqEqual
<1>11. Filed' = Append(Filed, {})
    <2>1. \A v \in 1 .. Len(schedules) : Filed'[v] = Filed[v]
        BY <1>1, <1>2, <1>8 DEF Filed
    <2>2. Filed'[n] = {}
        <3> HIDE DEF n
        <3> QED BY <1>1, <1>3, <1>8 DEF NewSchedule
    <2>3. /\ Append(Filed, {}) \in Seq(SUBSET Entry) /\ Len(Append(Filed, {})) = n
          /\ \A v \in 1 .. Len(schedules) : Append(Filed, {})[v] = Filed[v]
          /\ Append(Filed, {})[n] = {}
        BY <1>4, AppendProperties
    <2>4. \A v \in 1 .. n : Filed'[v] = Append(Filed, {})[v]
        <3>1. \A v \in 1 .. n : v = n \/ v \in 1 .. Len(schedules)
            BY <1>1
        <3> HIDE DEF n
        <3> QED BY <2>1, <2>2, <2>3, <3>1
    <2>5. Filed' \in Seq(SUBSET Entry) /\ Len(Filed') = n
        <3>1. \A v \in 1 .. n : Filed'[v] \in SUBSET Entry
            BY <2>3, <2>4, ElementOfSeq
        <3>2. Filed' \in [1 .. n -> SUBSET Entry]
            BY <1>1, <1>8, <3>1 DEF Filed
        <3> QED BY <1>1, <3>2, LenProperties
    <2> QED BY <2>3, <2>4, <2>5, SeqEqual
<1> HIDE DEF n
<1>12. schedules'[n].official = publish
    BY <1>3 DEF NewSchedule
<1>13. Instruction' \in {Instruction, {n}}
    <2>1. CASE publish
        BY <1>2, <1>5, <1>6, <1>7, <1>12, <2>1 DEF Instruction
    <2>2. CASE ~publish
        BY <1>2, <1>6, <1>7, <1>12, <2>2 DEF Instruction
    <2> QED BY <2>1, <2>2
<1> QED BY <1>4, <1>9, <1>10, <1>11, <1>13 DEF Register!Calculate, Issued, Filed, Instruction, n

\* Recording a hash files the calculation, or repeats what is filed.
LEMMA RecordFiles ==
    ASSUME IInv, NEW j \in Jobs, RecordArtifact(j)
    PROVE  [Register!RegisterNext]_Register!register
<1> DEFINE v == jobs[j].schedule
<1>1. /\ v \in DOMAIN schedules
      /\ schedules' = [schedules EXCEPT ![v].hash = schedules[v].rows]
      /\ schedules[v].hash \in {{}, schedules[v].rows}
    BY RecordKeepsBooks
<1>2. \A w \in DOMAIN schedules : schedules[w] \in Schedule
    BY Versioned DEF IInv, BookInv
<1> HIDE DEF v
<1>3. /\ DOMAIN schedules' = DOMAIN schedules
      /\ \A w \in DOMAIN schedules :
            /\ schedules'[w].rows = schedules[w].rows
            /\ schedules'[w].official = schedules[w].official
            /\ schedules'[w].hash = IF w = v THEN schedules[v].rows ELSE schedules[w].hash
    BY <1>1, <1>2 DEF Schedule
<1>4. Issued' = Issued /\ Instruction' = Instruction
    BY <1>3 DEF Issued, Instruction
<1>5. Filed' = [Filed EXCEPT ![v] = Issued[v]]
    BY <1>1, <1>3 DEF Filed, Issued
<1>6. CASE schedules[v].hash = {}
    <2>1. PICK w : w = v
        OBVIOUS
    <2>2. Filed[w] = {} /\ w \in DOMAIN Issued
        BY <1>1, <1>6, <2>1 DEF Filed, Issued
    <2>3. Register!File(w)
        BY <1>4, <1>5, <2>1, <2>2 DEF Register!File, Issued, Filed, Instruction
    <2>4. \E u \in DOMAIN Issued : Register!File(u)
        BY <2>2, <2>3
    <2>5. Register!RegisterNext
        BY <2>4, Zenon DEF Register!RegisterNext, Issued
    <2> QED BY <2>5
<1>7. CASE schedules[v].hash = schedules[v].rows
    <2>1. Filed' = Filed
        BY <1>1, <1>3, <1>7 DEF Filed
    <2> QED BY <1>4, <2>1 DEF Register!register, Issued, Filed, Instruction
<1> QED BY <1>1, <1>6, <1>7

\* Every step of the report jobs and of the accounts is a step of the register or none.
LEMMA StepKeepsRegister ==
    ASSUME IInv, [Next]_vars
    PROVE  [Register!RegisterNext]_Register!register
<1>1. CASE UNCHANGED schedules
    BY <1>1, RegisterStands
<1>2. ASSUME NEW j \in Jobs, Prepare(j) \/ AnswerLost(j)
      PROVE  [Register!RegisterNext]_Register!register
    <2>1. PICK publish \in BOOLEAN : CommitSchedule(publish)
        BY <1>2 DEF Prepare, AnswerLost
    <2> QED BY <2>1, CommitCalculates DEF IInv, Register!RegisterNext
<1>3. ASSUME NEW j \in Jobs, RecordArtifact(j)
      PROVE  [Register!RegisterNext]_Register!register
    BY <1>3, RecordFiles
<1>4. \/ UNCHANGED schedules
      \/ \E j \in Jobs : Prepare(j) \/ AnswerLost(j) \/ RecordArtifact(j)
    BY DEF vars, Next, Work, Fault, RequestVariation, AutoReport, Backfill, LookForOfficial,
           NothingDue, Render, Upload, CheckArtifact, Mail, Unreachable, WorkerDies,
           PaymentArrives, ClosePeriod, RecastPlan, SettleObligation, EditCustomer
<1> QED BY <1>1, <1>2, <1>3, <1>4

(***************************************************************************)
(* The jobs implement the payroll register: prepareVariationSchedule and   *)
(* setScheduleArtifact are its two operations, every other step of a job,  *)
(* a fault or an account leaves it alone.                                  *)
(***************************************************************************)
THEOREM ImplementsRegister == Spec => KeepsRegister
<1>1. Init => Register!RegisterInit
    BY DEF Init, Register!RegisterInit
<1>2. IInv /\ [Next]_vars => [Register!RegisterNext]_Register!register
    BY StepKeepsRegister
<1> QED BY <1>1, <1>2, Inductive, PTL DEF Spec, KeepsRegister, Register!RegisterSpec
=============================================================================
