-------------------------- MODULE FrontOffice_proofs --------------------------
(***************************************************************************)
(* Proofs about the front office.  Its four parts share no variable but    *)
(* faults, so the inductive invariant is one of each part, and a step of   *)
(* one part leaves the others alone:                                       *)
(*   GateInv      what the caches and the requests at the gate may know    *)
(*   ImportInv    where the figures of what was imported are               *)
(*   ReviewInv    an account that is not flagged has nothing to look at    *)
(*   OfficeInv    applications, commodities, payouts and the books         *)
(***************************************************************************)
EXTENDS FrontOffice, FiniteSums_proofs

-----------------------------------------------------------------------------
(* The gate                                                                *)

\* A request never came later than now, and one that read the mode off read it off no
\* earlier than it came; a cache that says off has it from a moment CacheTtl before its end.
GateInv ==
    /\ GateTypeOK
    /\ ~maintenance => lastOff = now
    /\ \A s \in Servers : ~caches[s].value => caches[s].until <= lastOff + CacheTtl
    /\ \A v \in Visitors :
          /\ visits[v].since <= now
          /\ visits[v].at = "filling" /\ ~visits[v].saw => visits[v].since <= lastOff
    /\ MaintenanceIsFelt

LEMMA AwayIsAVisit == Away \in Visit
<1>1. (CHOOSE s \in Servers : TRUE) \in Servers
    BY ClockConstants
<1> QED BY <1>1, ClockConstants DEF Away, Visit

LEMMA GateStarts == GateInit => GateInv
<1> SUFFICES ASSUME GateInit PROVE GateInv
    OBVIOUS
<1>1. GateTypeOK
    <2>1. now \in 1..MaxTime /\ lastOff \in 0..now
        BY ClockConstants DEF GateInit
    <2>2. caches \in [Servers -> [value : BOOLEAN, until : 0..(MaxTime + CacheTtl)]]
        BY ClockConstants DEF GateInit, Empty
    <2>3. visits \in [Visitors -> Visit] /\ maintenance \in BOOLEAN
        BY AwayIsAVisit DEF GateInit
    <2> QED BY <2>1, <2>2, <2>3 DEF GateTypeOK
<1>2. \A v \in Visitors : visits[v].at = "idle" /\ visits[v].since = 0
    BY DEF GateInit, Away
<1>3. \A s \in Servers : caches[s].until = 0
    BY DEF GateInit, Empty
<1>4. now = 1 /\ lastOff = 1
    BY DEF GateInit
<1> QED BY <1>1, <1>2, <1>3, <1>4, ClockConstants DEF GateInv, MaintenanceIsFelt

\* Time passes, or a toggle moves the mode: nothing at the gate changes but what is asked of it.
LEMMA ModeMoves ==
    ASSUME GateInv, now' \in 1..MaxTime, now <= now', maintenance' \in BOOLEAN,
           lastOff' \in {lastOff, now'}, ~maintenance' => lastOff' = now', UNCHANGED caches,
           visits' \in [Visitors -> Visit],
           \A v \in Visitors :
              \/ visits'[v] = visits[v]
              \/ visits'[v].at \notin {"filling", "inside"} /\ visits'[v].since = visits[v].since
    PROVE  GateInv'
<1>1. /\ now \in Nat /\ lastOff \in 0..now /\ now' \in Nat /\ lastOff' \in 0..now'
      /\ lastOff <= lastOff' /\ CacheTtl \in Nat
    BY ClockConstants DEF GateInv, GateTypeOK
<1>2. GateTypeOK'
    BY <1>1 DEF GateInv, GateTypeOK
<1>3. \A v \in Visitors : visits[v].since \in Nat
    BY ClockConstants DEF GateInv, GateTypeOK, Visit
<1>4. \A s \in Servers : caches[s].until \in Nat
    BY ClockConstants DEF GateInv, GateTypeOK
<1>5. \A s \in Servers : ~caches'[s].value => caches'[s].until <= lastOff' + CacheTtl
    BY <1>1, <1>4 DEF GateInv
<1>6. ASSUME NEW v \in Visitors
      PROVE  /\ visits'[v].since <= now'
             /\ visits'[v].at = "filling" /\ ~visits'[v].saw => visits'[v].since <= lastOff'
             /\ visits'[v].at = "inside" => lastOff' + CacheTtl > visits'[v].since
    <2>1. visits[v].since \in Nat
        BY <1>3
    <2>2. CASE visits'[v] = visits[v]
        BY <1>1, <2>1, <2>2 DEF GateInv, MaintenanceIsFelt
    <2>3. CASE visits'[v].at \notin {"filling", "inside"} /\ visits'[v].since = visits[v].since
        BY <1>1, <2>1, <2>3 DEF GateInv
    <2> QED BY <2>2, <2>3
<1> QED BY <1>2, <1>5, <1>6 DEF GateInv, MaintenanceIsFelt

LEMMA GateSteps ==
    ASSUME GateInv, GateNext
    PROVE  GateInv'
<1> DEFINE Fits(visit) ==
              /\ visit \in Visit /\ visit.since <= now
              /\ visit.at = "filling" /\ ~visit.saw => visit.since <= lastOff
              /\ visit.at = "inside" => lastOff + CacheTtl > visit.since
<1>0. /\ CacheTtl \in Nat /\ CacheTtl >= 1 /\ MaxTime \in Nat /\ now \in Nat /\ now >= 1
      /\ now <= MaxTime /\ lastOff \in Nat /\ lastOff <= now /\ maintenance \in BOOLEAN
    BY ClockConstants DEF GateInv, GateTypeOK
<1>1. \A v \in Visitors : Fits(visits[v])
    BY DEF GateInv, GateTypeOK, MaintenanceIsFelt
<1>2. Fits(Away)
    BY <1>0, AwayIsAVisit DEF Away
\* A visit changes: the clock and the mode do not, and a cache is filled or emptied at most.
<1>3. ASSUME NEW v \in Visitors, NEW visit, visits' = [visits EXCEPT ![v] = visit], Fits(visit),
             UNCHANGED <<maintenance, now, lastOff>>,
             NEW s \in Servers, NEW cache \in [value : BOOLEAN, until : 0..(MaxTime + CacheTtl)],
             caches' = [caches EXCEPT ![s] = cache],
             ~cache.value => cache.until <= lastOff + CacheTtl
      PROVE  GateInv'
    <2>1. GateTypeOK'
        BY <1>3 DEF GateInv, GateTypeOK
    <2>2. \A w \in Visitors : Fits(visits'[w])
        BY <1>1, <1>3 DEF GateInv, GateTypeOK
    <2>3. \A t \in Servers : caches'[t] = IF t = s THEN cache ELSE caches[t]
        BY <1>3 DEF GateInv, GateTypeOK
    <2>4. \A t \in Servers : ~caches'[t].value => caches'[t].until <= lastOff + CacheTtl
        BY <1>3, <2>3 DEF GateInv
    <2>5. ~maintenance' => lastOff' = now'
        BY <1>3 DEF GateInv
    <2> QED BY <1>3, <2>1, <2>2, <2>4, <2>5 DEF GateInv, MaintenanceIsFelt
\* and a visit alone changes.
<1>4. ASSUME NEW v \in Visitors, NEW visit, visits' = [visits EXCEPT ![v] = visit], Fits(visit),
             UNCHANGED <<maintenance, now, lastOff, caches>>
      PROVE  GateInv'
    <2>1. PICK s \in Servers : TRUE
        BY ClockConstants
    <2>2. /\ caches' = [caches EXCEPT ![s] = caches[s]]
          /\ caches[s] \in [value : BOOLEAN, until : 0..(MaxTime + CacheTtl)]
          /\ ~caches[s].value => caches[s].until <= lastOff + CacheTtl
        BY <1>4 DEF GateInv, GateTypeOK
    <2> HIDE DEF Fits
    <2> QED BY <1>3, <1>4, <2>2
<1>5. CASE Tick
    BY <1>0, <1>5, ModeMoves DEF Tick, GateInv, GateTypeOK
<1>6. ASSUME NEW v \in Visitors, ReadMode(v) PROVE GateInv'
    <2> DEFINE visit == [visits[v] EXCEPT !.at = "filling", !.saw = maintenance]
    <2>1. visits' = [visits EXCEPT ![v] = visit]
        BY <1>6 DEF ReadMode, GateInv, GateTypeOK
    <2>2. visit \in Visit
        BY <1>0, <1>1 DEF Visit
    <2>3. visit.since = visits[v].since /\ visit.at = "filling" /\ visit.saw = maintenance
        BY <1>1 DEF Visit
    <2>4. Fits(visit)
        BY <1>1, <2>2, <2>3 DEF GateInv
    <2> HIDE DEF Fits, visit
    <2> QED BY <1>4, <1>6, <2>1, <2>4 DEF ReadMode
<1>7. ASSUME NEW v \in Visitors, FillCache(v) PROVE GateInv'
    <2> DEFINE visit == [visits[v] EXCEPT !.at = Answer(visits[v].saw), !.saw = FALSE]
               cache == [value |-> visits[v].saw, until |-> Until(v)]
    <2>1. /\ visits' = [visits EXCEPT ![v] = visit]
          /\ caches' = [caches EXCEPT ![visits[v].server] = cache]
        BY <1>7 DEF FillCache, GateInv, GateTypeOK
    <2>2. /\ visits[v].since \in Nat /\ visits[v].since <= MaxTime /\ visits[v].saw \in BOOLEAN
          /\ visits[v].server \in Servers
        BY <1>1 DEF Visit
    <2>3. visit.since = visits[v].since /\ visit.at = Answer(visits[v].saw)
        BY <1>1 DEF Visit
    <2>4. visit \in Visit
        BY <1>1 DEF Visit, Answer
    <2>5. ~visits[v].saw => visits[v].since <= lastOff
        BY <1>7 DEF FillCache, GateInv
    <2>6. Fits(visit)
        BY <1>0, <1>1, <2>2, <2>3, <2>4, <2>5 DEF Answer
    <2>7. /\ cache \in [value : BOOLEAN, until : 0..(MaxTime + CacheTtl)]
          /\ ~cache.value => cache.until <= lastOff + CacheTtl
        BY <1>0, <2>2, <2>5 DEF Until
    <2> HIDE DEF Fits, visit, cache
    <2> QED BY <1>3, <1>7, <2>1, <2>2, <2>6, <2>7 DEF FillCache
<1>8. ASSUME NEW v \in Visitors, LeaveGate(v) PROVE GateInv'
    <2> HIDE DEF Fits
    <2> QED BY <1>2, <1>4, <1>8 DEF LeaveGate
<1>9. ASSUME NEW v \in Visitors, WriteToggle(v) PROVE GateInv'
    <2>1. visits[v] \in Visit /\ visits \in [Visitors -> Visit]
        BY DEF GateInv, GateTypeOK
    <2>2. /\ visits'[v].at = "clearing" /\ visits'[v].since = visits[v].since
          /\ \A w \in Visitors \ {v} : visits'[w] = visits[w]
          /\ visits' \in [Visitors -> Visit]
        BY <1>9, <2>1 DEF WriteToggle, Visit
    <2>3. maintenance' \in BOOLEAN /\ lastOff' \in {lastOff, now'} /\ now' = now
        BY <1>9 DEF WriteToggle
    <2>4. ~maintenance' => lastOff' = now'
        BY <1>9 DEF WriteToggle
    <2>5. UNCHANGED caches
        BY <1>9 DEF WriteToggle
    <2> QED BY <1>0, <2>2, <2>3, <2>4, <2>5, ModeMoves
<1>10. ASSUME NEW v \in Visitors, ClearCache(v) PROVE GateInv'
    <2>1. visits[v].server \in Servers
        BY <1>1 DEF Visit
    <2>2. /\ Empty \in [value : BOOLEAN, until : 0..(MaxTime + CacheTtl)]
          /\ ~Empty.value => Empty.until <= lastOff + CacheTtl
        BY <1>0 DEF Empty
    <2> HIDE DEF Fits
    <2> QED BY <1>2, <1>3, <1>10, <2>1, <2>2 DEF ClearCache
<1>11. ASSUME NEW v \in Visitors, NEW s \in Servers, Arrive(v, s) PROVE GateInv'
    <2> DEFINE at == IF caches[s].until > now THEN Answer(caches[s].value) ELSE "reading"
               visit == [Away EXCEPT !.server = s, !.since = now, !.at = at]
    <2>1. visits' = [visits EXCEPT ![v] = visit]
        BY <1>11 DEF Arrive
    <2>2. caches[s].until \in Nat /\ caches[s].value \in BOOLEAN
        BY <1>0 DEF GateInv, GateTypeOK
    <2>3. at \in {"inside", "refused", "reading"}
        BY DEF Answer
    <2>4. at = "inside" => lastOff + CacheTtl > now
        BY <1>0, <2>2 DEF Answer, GateInv
    <2> HIDE DEF at
    <2>5. visit.since = now /\ visit.at = at /\ visit \in Visit
        <3>1. now \in 0..MaxTime
            BY <1>0
        <3> QED BY <2>3, <3>1, AwayIsAVisit DEF Visit
    <2> HIDE DEF visit
    <2>6. Fits(visit)
        BY <1>0, <2>3, <2>4, <2>5
    <2> HIDE DEF Fits
    <2> QED BY <1>4, <1>11, <2>1, <2>6 DEF Arrive
<1>12. ASSUME NEW v \in Visitors, NEW s \in Servers, ReadForToggle(v, s) PROVE GateInv'
    <2> DEFINE visit == [Away EXCEPT !.at = "toggling", !.server = s, !.saw = maintenance]
    <2>1. visits' = [visits EXCEPT ![v] = visit]
        BY <1>12 DEF ReadForToggle
    <2>2. visit.since = 0 /\ visit.at = "toggling" /\ visit \in Visit
        BY <1>0, AwayIsAVisit DEF Away, Visit
    <2> HIDE DEF visit
    <2>3. Fits(visit)
        BY <1>0, <2>2
    <2> HIDE DEF Fits
    <2> QED BY <1>4, <1>12, <2>1, <2>3 DEF ReadForToggle
<1> HIDE DEF Fits
<1> QED BY <1>5, <1>6, <1>7, <1>8, <1>9, <1>10, <1>11, <1>12 DEF GateNext

-----------------------------------------------------------------------------
(* The import                                                              *)

\* A job's statistics are of customers that are there, and only a job that counts has
\* counters to come.
ImportInv ==
    /\ ImportTypeOK
    /\ \A j \in ImportJobs :
          jobs[j].stats \subseteq imported /\ (jobs[j].topups # {} => jobs[j].at = "counting")
    /\ ImportedOnce

\* InHand, of a job record.
Hand(job, f) ==
    IF job.at = "rows" \/ f \in job.topups THEN Worth(f, Cardinality(job.stats)) ELSE 0

LEMMA WorthAdds ==
    ASSUME NEW f
    PROVE  /\ Worth(f, 0) = 0 /\ Brings(f) \in Nat
           /\ \A n \in Nat : Worth(f, n) \in Nat /\ Worth(f, n + 1) = Worth(f, n) + Brings(f)
<1>1. CASE f = "disbursed"
    BY <1>1 DEF Worth, Brings
<1>2. CASE f = "repaid"
    BY <1>2 DEF Worth, Brings
<1>3. CASE f \notin {"disbursed", "repaid"}
    BY <1>3 DEF Worth, Brings
<1> QED BY <1>1, <1>2, <1>3

LEMMA SubsetsOfRows ==
    \A s \in SUBSET Rows : IsFiniteSet(s) /\ Cardinality(s) \in Nat
BY ImportConstants, FS_Subset, FS_CardinalityType

LEMMA HandIsNat ==
    ASSUME NEW job \in Job, NEW f
    PROVE  Hand(job, f) \in Nat
<1>1. Cardinality(job.stats) \in Nat
    BY SubsetsOfRows DEF Job
<1>2. Worth(f, Cardinality(job.stats)) \in Nat
    BY <1>1, WorthAdds
<1> QED BY <1>2 DEF Hand

LEMMA ImportStarts == ImportInit => ImportInv
<1> SUFFICES ASSUME ImportInit PROVE ImportInv
    OBVIOUS
<1>1. \A j \in ImportJobs : jobs[j] = NewJob
    BY DEF ImportInit
<1>2. ImportTypeOK
    BY ImportConstants DEF ImportInit, ImportTypeOK, NewJob, Job
<1>3. ASSUME NEW f \in Figures
      PROVE  counters[f] + forgotten[f] + SumFunction([j \in ImportJobs |-> InHand(j, f)])
                = Worth(f, Cardinality(imported))
    <2> DEFINE hands == [j \in ImportJobs |-> InHand(j, f)]
    <2>1. \A j \in ImportJobs : InHand(j, f) = 0
        BY <1>1 DEF InHand, NewJob
    <2>2. DOMAIN hands = ImportJobs /\ hands = [j \in DOMAIN hands |-> hands[j]]
          /\ \A j \in DOMAIN hands : hands[j] = 0
        BY <2>1
    <2> HIDE DEF hands
    <2>3. SumFunction(hands) = 0
        BY <2>2, ImportConstants, SumOfZeros
    <2>4. Cardinality(imported) = 0 /\ counters[f] = 0 /\ forgotten[f] = 0
        BY FS_EmptySet DEF ImportInit
    <2>5. Worth(f, 0) = 0
        BY WorthAdds
    <2> QED BY <2>3, <2>4, <2>5 DEF hands
<1> QED BY <1>1, <1>2, <1>3 DEF ImportInv, ImportedOnce, NewJob

\* One job moves: the figures are right if what it moves is.
LEMMA JobMoves ==
    ASSUME ImportInv, NEW j \in ImportJobs, NEW job \in Job, jobs' = [jobs EXCEPT ![j] = job],
           job.stats \subseteq imported', job.topups # {} => job.at = "counting",
           imported \subseteq imported', imported' \subseteq Rows,
           counters' \in [Figures -> Nat], forgotten' \in [Figures -> Nat],
           deaths' \in 0..MaxDeaths,
           \A f \in Figures :
              counters'[f] + forgotten'[f] + Hand(job, f) + Worth(f, Cardinality(imported))
                = counters[f] + forgotten[f] + Hand(jobs[j], f) + Worth(f, Cardinality(imported'))
    PROVE  ImportInv'
<1>1. ImportTypeOK'
    BY DEF ImportInv, ImportTypeOK
<1>2. \A k \in ImportJobs : jobs'[k] = IF k = j THEN job ELSE jobs[k]
    BY DEF ImportInv, ImportTypeOK
<1>3. \A k \in ImportJobs :
          jobs'[k].stats \subseteq imported' /\ (jobs'[k].topups # {} => jobs'[k].at = "counting")
    BY <1>2 DEF ImportInv
<1>4. ASSUME NEW f \in Figures
      PROVE  counters'[f] + forgotten'[f] + SumFunction([k \in ImportJobs |-> InHand(k, f)'])
                = Worth(f, Cardinality(imported'))
    <2> DEFINE before == [k \in ImportJobs |-> InHand(k, f)]
               after  == [k \in ImportJobs |-> InHand(k, f)']
    <2>1. \A k \in ImportJobs : before[k] = Hand(jobs[k], f) /\ after[k] = Hand(jobs'[k], f)
        BY DEF InHand, Hand
    <2>2. DOMAIN before = ImportJobs /\ DOMAIN after = ImportJobs
        OBVIOUS
    <2>3. counters[f] + forgotten[f] + SumFunction(before) = Worth(f, Cardinality(imported))
        BY DEF ImportInv, ImportedOnce
    <2> HIDE DEF before, after
    <2>4. after[j] = Hand(job, f) /\ \A k \in DOMAIN before \ {j} : after[k] = before[k]
        BY <1>2, <2>1, <2>2
    <2>5. \A k \in DOMAIN before : before[k] \in Nat /\ after[k] \in Nat
        <3>1. \A k \in ImportJobs : jobs[k] \in Job /\ jobs'[k] \in Job
            BY <1>1 DEF ImportInv, ImportTypeOK
        <3> QED BY <2>1, <2>2, <3>1, HandIsNat
    <2>6. SumFunction(after) + before[j] = SumFunction(before) + after[j]
        BY <2>2, <2>4, <2>5, ImportConstants, SumChange
    <2>7. SumFunction(after) \in Nat /\ SumFunction(before) \in Nat
        BY <2>2, <2>5, ImportConstants, FiniteSumNat
    <2>8. /\ counters[f] \in Nat /\ forgotten[f] \in Nat
          /\ counters'[f] \in Nat /\ forgotten'[f] \in Nat
        BY DEF ImportInv, ImportTypeOK
    <2>9. /\ Worth(f, Cardinality(imported)) \in Nat
          /\ Worth(f, Cardinality(imported')) \in Nat
        BY WorthAdds, SubsetsOfRows DEF ImportInv, ImportTypeOK
    <2>10. counters'[f] + forgotten'[f] + after[j] + Worth(f, Cardinality(imported))
              = counters[f] + forgotten[f] + before[j] + Worth(f, Cardinality(imported'))
        BY <2>1, <2>4
    <2>11. before[j] \in Nat /\ after[j] \in Nat
        BY <2>2, <2>5
    <2>12. counters'[f] + forgotten'[f] + SumFunction(after) = Worth(f, Cardinality(imported'))
        <3> DEFINE is == counters'[f] + forgotten'[f]
                   was == counters[f] + forgotten[f]
                   sum == SumFunction(after)
                   old == SumFunction(before)
                   worth == Worth(f, Cardinality(imported))
                   due == Worth(f, Cardinality(imported'))
                   hand == after[j]
                   had == before[j]
        <3>1. is \in Nat /\ was \in Nat /\ sum \in Nat /\ old \in Nat
            BY <2>7, <2>8
        <3>2. worth \in Nat /\ due \in Nat /\ hand \in Nat /\ had \in Nat
            BY <2>9, <2>11
        <3>3. was + old = worth /\ sum + had = old + hand /\ is + hand + worth = was + had + due
            BY <2>3, <2>6, <2>10
        <3> HIDE DEF is, was, sum, old, worth, due, hand, had
        <3>4. is + sum = due
            BY <3>1, <3>2, <3>3
        <3> QED BY <3>4 DEF is, sum, due
    <2> QED BY <2>12 DEF after
<1> QED BY <1>1, <1>3, <1>4 DEF ImportInv, ImportedOnce

LEMMA ImportSteps ==
    ASSUME ImportInv, ImportNext
    PROVE  ImportInv'
<1>0. PICK j \in ImportJobs :
          \/ StartImport(j) \/ EndRows(j) \/ EndImport(j) \/ ImportDies(j)
          \/ \E r \in Rows : ImportRow(j, r) \/ AnswerLost(j, r)
          \/ \E f \in Figures : TopUp(j, f) \/ TopUpFails(j, f)
    BY DEF ImportNext
<1>1. /\ jobs[j] \in Job /\ jobs \in [ImportJobs -> Job] /\ imported \subseteq Rows
      /\ counters \in [Figures -> Nat] /\ forgotten \in [Figures -> Nat]
      /\ deaths \in 0..MaxDeaths /\ jobs[j].stats \subseteq imported
      /\ jobs[j].topups # {} => jobs[j].at = "counting"
    BY DEF ImportInv, ImportTypeOK
<1>2. Cardinality(jobs[j].stats) \in Nat /\ Cardinality(imported) \in Nat
    BY <1>1, SubsetsOfRows DEF Job
<1>3. \A f : Worth(f, Cardinality(jobs[j].stats)) \in Nat /\ Worth(f, Cardinality(imported)) \in Nat
    BY <1>2, WorthAdds
<1>4. /\ jobs[j].at \in {"waiting", "rows", "counting", "ended"} /\ jobs[j].left \in SUBSET Rows
      /\ jobs[j].stats \in SUBSET Rows /\ jobs[j].topups \in SUBSET Figures
    BY <1>1 DEF Job
\* A step that imports nothing and counts nothing.
<1>5. ASSUME NEW job \in Job, jobs' = [jobs EXCEPT ![j] = job], job.stats \subseteq imported,
             job.topups # {} => job.at = "counting",
             \A f \in Figures : Hand(job, f) = Hand(jobs[j], f),
             UNCHANGED <<imported, counters, deaths, forgotten>>
      PROVE  ImportInv'
    <2> QED BY <1>1, <1>5, JobMoves
<1>6. CASE StartImport(j)
    <2> DEFINE job == [NewJob EXCEPT !.at = "rows", !.left = Rows]
    <2>1. /\ job \in Job /\ job.at = "rows" /\ job.stats = {} /\ job.topups = {}
        BY DEF NewJob, Job
    <2>2. \A f \in Figures : Hand(job, f) = 0
        BY <2>1, FS_EmptySet, WorthAdds DEF Hand
    <2>3. \A f \in Figures : Hand(jobs[j], f) = 0
        BY <1>1, <1>6 DEF StartImport, Hand
    <2> HIDE DEF job
    <2>4. jobs' = [jobs EXCEPT ![j] = job]
        BY <1>6 DEF StartImport, job
    <2> QED BY <1>5, <1>6, <2>1, <2>2, <2>3, <2>4 DEF StartImport
<1>7. CASE EndRows(j)
    <2> DEFINE none == jobs[j].stats = {}
               job == [jobs[j] EXCEPT !.at = IF none THEN "ended" ELSE "counting",
                                      !.topups = IF none THEN {} ELSE Figures]
    <2>1. /\ job \in Job /\ job.at = (IF none THEN "ended" ELSE "counting")
          /\ job.stats = jobs[j].stats /\ job.topups = (IF none THEN {} ELSE Figures)
        BY <1>1 DEF Job
    <2>2. jobs' = [jobs EXCEPT ![j] = job]
        BY <1>1, <1>7 DEF EndRows
    <2> HIDE DEF job
    <2>3. ASSUME NEW f \in Figures PROVE Hand(job, f) = Hand(jobs[j], f)
        <3>1. CASE none
            BY <1>7, <2>1, <3>1, FS_EmptySet, WorthAdds DEF Hand, EndRows
        <3>2. CASE ~none
            BY <1>7, <2>1, <3>2 DEF Hand, EndRows
        <3> QED BY <3>1, <3>2
    <2> QED BY <1>1, <1>5, <1>7, <2>1, <2>2, <2>3 DEF EndRows
<1>8. CASE EndImport(j)
    <2> DEFINE job == [NewJob EXCEPT !.at = "ended"]
    <2>1. job \in Job /\ job.at = "ended" /\ job.stats = {} /\ job.topups = {}
        BY DEF NewJob, Job
    <2>2. \A f \in Figures : Hand(job, f) = 0 /\ Hand(jobs[j], f) = 0
        BY <1>8, <2>1 DEF EndImport, Hand
    <2> HIDE DEF job
    <2>3. jobs' = [jobs EXCEPT ![j] = job]
        BY <1>8 DEF EndImport, job
    <2> QED BY <1>5, <1>8, <2>1, <2>2, <2>3 DEF EndImport
<1>9. CASE ImportDies(j)
    <2>1. NewJob \in Job /\ NewJob.at = "waiting" /\ NewJob.stats = {} /\ NewJob.topups = {}
        BY DEF NewJob, Job
    <2>2. \A f \in Figures : Hand(NewJob, f) = 0
        BY <2>1 DEF Hand
    <2>3. \A f \in Figures : InHand(j, f) = Hand(jobs[j], f) /\ Hand(jobs[j], f) \in Nat
        BY <1>1, HandIsNat DEF InHand, Hand
    <2>4. \A f \in Figures : forgotten'[f] = forgotten[f] + Hand(jobs[j], f)
        BY <1>9, <2>3 DEF ImportDies
    <2>5. forgotten' \in [Figures -> Nat]
        BY <1>1, <1>9, <2>3 DEF ImportDies
    <2>6. \A f \in Figures :
              counters'[f] + forgotten'[f] + Hand(NewJob, f) + Worth(f, Cardinality(imported))
                = counters[f] + forgotten[f] + Hand(jobs[j], f) + Worth(f, Cardinality(imported'))
        <3> TAKE f \in Figures
        <3>1. counters'[f] = counters[f] /\ imported' = imported
            BY <1>9 DEF ImportDies
        <3>2. counters[f] \in Nat /\ forgotten[f] \in Nat
            BY <1>1
        <3> QED BY <1>3, <2>2, <2>3, <2>4, <3>1, <3>2
    <2>7. deaths' \in 0..MaxDeaths
        BY <1>1, <1>9, ImportConstants DEF ImportDies
    <2> QED BY <1>1, <1>9, <2>1, <2>5, <2>6, <2>7, JobMoves DEF ImportDies
<1>10. ASSUME NEW r \in Rows, ImportRow(j, r) PROVE ImportInv'
    <2> DEFINE stats == IF Counts(r) THEN jobs[j].stats \cup {r} ELSE jobs[j].stats
               job == [jobs[j] EXCEPT !.left = @ \ {r}, !.stats = stats]
    <2>1. job \in Job /\ job.at = "rows" /\ job.stats = stats /\ job.topups = jobs[j].topups
        BY <1>1, <1>10 DEF ImportRow, Job
    <2>2. jobs' = [jobs EXCEPT ![j] = job]
        BY <1>1, <1>10 DEF ImportRow
    <2>3. imported' = imported \cup (IF r \in Broken THEN {} ELSE {r}) /\ imported' \subseteq Rows
        BY <1>1, <1>10 DEF ImportRow
    <2>4. stats \subseteq imported'
        BY <1>1, <2>3 DEF Counts
    <2>5. CASE Counts(r)
        <3>1. /\ Cardinality(stats) = Cardinality(jobs[j].stats) + 1
              /\ Cardinality(imported') = Cardinality(imported) + 1
            <4>1. IsFiniteSet(jobs[j].stats) /\ IsFiniteSet(imported)
                BY <1>1, <1>4, SubsetsOfRows
            <4>2. stats = jobs[j].stats \cup {r} /\ imported' = imported \cup {r}
                BY <2>3, <2>5 DEF Counts
            <4>3. r \notin jobs[j].stats /\ r \notin imported
                BY <1>1, <2>5 DEF Counts
            <4> QED BY <4>1, <4>2, <4>3, FS_AddElement
        <3>2. ASSUME NEW f \in Figures
              PROVE  counters'[f] + forgotten'[f] + Hand(job, f) + Worth(f, Cardinality(imported))
                        = counters[f] + forgotten[f] + Hand(jobs[j], f)
                            + Worth(f, Cardinality(imported'))
            <4>1. Hand(job, f) = Hand(jobs[j], f) + Brings(f)
                BY <1>2, <1>10, <2>1, <3>1, WorthAdds DEF Hand, ImportRow
            <4>2. Worth(f, Cardinality(imported')) = Worth(f, Cardinality(imported)) + Brings(f)
                BY <1>2, <3>1, WorthAdds
            <4>3. counters'[f] = counters[f] /\ forgotten'[f] = forgotten[f]
                BY <1>10 DEF ImportRow
            <4>4. /\ counters[f] \in Nat /\ forgotten[f] \in Nat /\ Brings(f) \in Nat
                  /\ Hand(jobs[j], f) \in Nat
                BY <1>1, WorthAdds, HandIsNat
            <4> QED BY <1>3, <4>1, <4>2, <4>3, <4>4
        <3>3. /\ job.stats \subseteq imported' /\ (job.topups # {} => job.at = "counting")
              /\ imported \subseteq imported'
            BY <1>1, <1>10, <2>1, <2>3, <2>4 DEF ImportRow
        <3>4. UNCHANGED <<counters, deaths, forgotten>>
            BY <1>10 DEF ImportRow
        <3> HIDE DEF job, stats
        <3> QED BY <1>1, <2>1, <2>2, <2>3, <3>2, <3>3, <3>4, JobMoves
    <2>6. CASE ~Counts(r)
        <3>1. stats = jobs[j].stats /\ imported' = imported
            BY <2>3, <2>6 DEF Counts
        <3>2. \A f \in Figures : Hand(job, f) = Hand(jobs[j], f)
            BY <1>10, <2>1, <3>1 DEF Hand, ImportRow
        <3> HIDE DEF job, stats
        <3> QED BY <1>1, <1>5, <1>10, <2>1, <2>2, <3>1, <3>2 DEF ImportRow
    <2> QED BY <2>5, <2>6
<1>11. ASSUME NEW f \in Figures, TopUp(j, f) \/ TopUpFails(j, f) PROVE ImportInv'
    <2> DEFINE job == [jobs[j] EXCEPT !.topups = @ \ {f}]
               worth == Worth(f, Cardinality(jobs[j].stats))
    <2>1. /\ job \in Job /\ job.at = "counting" /\ job.stats = jobs[j].stats
          /\ job.topups = jobs[j].topups \ {f}
        BY <1>1, <1>11 DEF TopUp, TopUpFails, Job
    <2>2. jobs' = [jobs EXCEPT ![j] = job] /\ imported' = imported
        BY <1>1, <1>11 DEF TopUp, TopUpFails
    <2>3. /\ Hand(jobs[j], f) = worth /\ Hand(job, f) = 0
          /\ \A g \in Figures \ {f} : Hand(job, g) = Hand(jobs[j], g)
        BY <1>11, <2>1 DEF Hand, TopUp, TopUpFails
    <2>4. /\ counters'[f] + forgotten'[f] = counters[f] + forgotten[f] + worth
          /\ \A g \in Figures \ {f} : counters'[g] = counters[g] /\ forgotten'[g] = forgotten[g]
          /\ counters' \in [Figures -> Nat] /\ forgotten' \in [Figures -> Nat]
        <3>1. counters[f] \in Nat /\ forgotten[f] \in Nat /\ worth \in Nat
            BY <1>1, <1>3
        <3> HIDE DEF worth
        <3>2. CASE TopUp(j, f)
            <4>1. counters' = [counters EXCEPT ![f] = @ + worth] /\ forgotten' = forgotten
                BY <3>2 DEF TopUp, worth
            <4> QED BY <1>1, <3>1, <4>1
        <3>3. CASE TopUpFails(j, f)
            <4>1. forgotten' = [forgotten EXCEPT ![f] = @ + worth] /\ counters' = counters
                BY <3>3 DEF TopUpFails, worth
            <4> QED BY <1>1, <3>1, <4>1
        <3> QED BY <1>11, <3>2, <3>3
    <2>5. deaths' \in 0..MaxDeaths
        BY <1>1, <1>11, ImportConstants DEF TopUp, TopUpFails
    <2> HIDE DEF job
    <2>6. ASSUME NEW g \in Figures
          PROVE  counters'[g] + forgotten'[g] + Hand(job, g) + Worth(g, Cardinality(imported))
                    = counters[g] + forgotten[g] + Hand(jobs[j], g)
                        + Worth(g, Cardinality(imported'))
        <3>1. /\ counters[g] \in Nat /\ forgotten[g] \in Nat
              /\ counters'[g] \in Nat /\ forgotten'[g] \in Nat /\ worth \in Nat
            BY <1>1, <1>3, <2>4
        <3>2. CASE g = f
            BY <1>3, <2>2, <2>3, <2>4, <3>1, <3>2
        <3>3. CASE g # f
            BY <2>2, <2>3, <2>4, <3>3
        <3> QED BY <3>2, <3>3
    <2>7. job.stats \subseteq imported' /\ (job.topups # {} => job.at = "counting")
        BY <1>1, <2>1, <2>2
    <2> QED BY <1>1, <2>1, <2>2, <2>4, <2>5, <2>6, <2>7, JobMoves
<1>12. ASSUME NEW r \in Rows, AnswerLost(j, r) PROVE ImportInv'
    <2> DEFINE job == [jobs[j] EXCEPT !.left = @ \ {r}]
    <2>1. /\ job \in Job /\ job.at = jobs[j].at /\ job.stats = jobs[j].stats
          /\ job.topups = jobs[j].topups
        BY <1>1 DEF Job
    <2>2. jobs' = [jobs EXCEPT ![j] = job] /\ imported' = imported \cup {r} /\ counters' = counters
        BY <1>1, <1>12 DEF AnswerLost
    <2>3. Cardinality(imported') = Cardinality(imported) + 1
        <3>1. IsFiniteSet(imported) /\ r \notin imported
            BY <1>1, <1>12, SubsetsOfRows DEF AnswerLost, Counts
        <3> QED BY <2>2, <3>1, FS_AddElement
    <2>4. \A f \in Figures : forgotten'[f] = forgotten[f] + Worth(f, 1)
        BY <1>12 DEF AnswerLost
    <2>5. \A f : Worth(f, 1) \in Nat /\ Brings(f) \in Nat /\ Worth(f, 1) = Brings(f)
        BY WorthAdds DEF Worth, Brings
    <2>6. forgotten' \in [Figures -> Nat]
        BY <1>1, <1>12, <2>5 DEF AnswerLost
    <2> HIDE DEF job
    <2>7. ASSUME NEW f \in Figures
          PROVE  counters'[f] + forgotten'[f] + Hand(job, f) + Worth(f, Cardinality(imported))
                    = counters[f] + forgotten[f] + Hand(jobs[j], f)
                        + Worth(f, Cardinality(imported'))
        <3>1. Hand(job, f) = Hand(jobs[j], f) /\ Hand(jobs[j], f) \in Nat
            BY <1>1, <2>1, HandIsNat DEF Hand
        <3>2. Worth(f, Cardinality(imported')) = Worth(f, Cardinality(imported)) + Brings(f)
            BY <1>2, <2>3, WorthAdds
        <3>3. counters[f] \in Nat /\ forgotten[f] \in Nat
            BY <1>1
        <3> QED BY <1>3, <2>2, <2>4, <2>5, <3>1, <3>2, <3>3
    <2>8. job.stats \subseteq imported' /\ (job.topups # {} => job.at = "counting")
        BY <1>1, <2>1, <2>2
    <2>9. deaths' \in 0..MaxDeaths /\ imported' \subseteq Rows
        BY <1>1, <1>12, <2>2, ImportConstants DEF AnswerLost
    <2> QED BY <1>1, <2>1, <2>2, <2>6, <2>7, <2>8, <2>9, JobMoves
<1> QED BY <1>0, <1>6, <1>7, <1>8, <1>9, <1>10, <1>11, <1>12

-----------------------------------------------------------------------------
(* The account                                                             *)

ReviewTypeOK == review \in [fresh : SUBSET Kinds, lapsed : SUBSET Kinds]

\* The call writes details or flags the account after it has.
WritesDetails(call) == call.at \in {"write", "flag"} => call.what \in Kinds

IsFlagging(call, k) == call.at = "flag" /\ call.what = k

\* Unless the account is flagged, what was written since the last decision is being flagged.
Looked ==
    account.status # "FLAGGED" =>
        \A k \in review.fresh \ review.lapsed : \E c \in Callers : IsFlagging(calls[c], k)

ReviewInv ==
    /\ AccountTypeOK
    /\ \A c \in Callers : WritesDetails(calls[c])
    /\ Looked

LEMMA NothingUnreviewed ==
    ASSUME ReviewInv, MayBePaid
    PROVE  Unreviewed = {}
BY DEF ReviewInv, Looked, MayBePaid, Unreviewed, IsFlagging

LEMMA AccountStarts ==
    ASSUME NEW first \in {NoAccount, Established}, AccountInit(first)
    PROVE  ReviewInv
<1>0. 0 \in 0..MaxIds /\ 0 \in 0..MaxFaults
    BY AccountConstants
<1>1. first \in Account
    <2>1. NoAccount \in Account
        BY <1>0 DEF NoAccount, Account
    <2>2. Established \in Account
        BY <1>0, <2>1 DEF Established, Account
    <2> QED BY <2>1, <2>2
<1>2. Idle \in Call /\ Idle.at = "idle"
    BY AccountConstants DEF Idle, Call
<1>3. \A c \in Callers : calls[c] = Idle
    BY DEF AccountInit
<1>4. AccountTypeOK
    BY <1>0, <1>1, <1>2 DEF AccountInit, AccountTypeOK, Decided
<1>5. review.fresh = {}
    BY DEF AccountInit, Decided
<1> QED BY <1>2, <1>3, <1>4, <1>5 DEF ReviewInv, Looked, WritesDetails

\* One call moves, and what it leaves to look at was so before or is being flagged now.
LEMMA CallMoves ==
    ASSUME ReviewInv, account' \in Account, code' \in BOOLEAN, ReviewTypeOK',
           faults' \in 0..MaxFaults,
           NEW c \in Callers, NEW call \in Call, calls' = [calls EXCEPT ![c] = call],
           WritesDetails(call),
           \/ account'.status = "FLAGGED"
           \/ review'.fresh = {}
           \/ /\ account'.status = account.status
              /\ \A k \in review'.fresh \ review'.lapsed :
                    \/ k \in review.fresh \ review.lapsed /\ ~IsFlagging(calls[c], k)
                    \/ IsFlagging(call, k)
    PROVE  ReviewInv'
<1>1. calls \in [Callers -> Call]
    BY DEF ReviewInv, AccountTypeOK
<1>2. \A b \in Callers : calls'[b] = IF b = c THEN call ELSE calls[b]
    BY <1>1
<1>3. AccountTypeOK'
    BY <1>1 DEF AccountTypeOK, ReviewTypeOK
<1>4. \A b \in Callers : WritesDetails(calls'[b])
    BY <1>2 DEF ReviewInv
<1>5. Looked'
    <2>1. SUFFICES ASSUME account'.status = account.status, account.status # "FLAGGED",
                          NEW k \in review'.fresh \ review'.lapsed,
                          \/ k \in review.fresh \ review.lapsed /\ ~IsFlagging(calls[c], k)
                          \/ IsFlagging(call, k)
                   PROVE  \E b \in Callers : IsFlagging(calls'[b], k)
        BY DEF Looked
    <2>2. CASE IsFlagging(call, k)
        BY <1>2, <2>2
    <2>3. CASE k \in review.fresh \ review.lapsed /\ ~IsFlagging(calls[c], k)
        <3>1. PICK b \in Callers : IsFlagging(calls[b], k)
            BY <2>1, <2>3 DEF ReviewInv, Looked
        <3>2. b # c
            BY <2>3, <3>1
        <3> QED BY <1>2, <3>1, <3>2
    <2> QED BY <2>1, <2>2, <2>3
<1> QED BY <1>3, <1>4, <1>5 DEF ReviewInv

LEMMA AccountFacts ==
    ASSUME ReviewInv
    PROVE  /\ account \in Account /\ code \in BOOLEAN /\ ReviewTypeOK /\ faults \in 0..MaxFaults
           /\ calls \in [Callers -> Call] /\ \A c \in Callers : WritesDetails(calls[c])
BY DEF ReviewInv, AccountTypeOK, ReviewTypeOK

LEMMA IdleCall == Idle \in Call /\ WritesDetails(Idle) /\ Idle.at = "idle"
BY AccountConstants DEF Idle, Call, WritesDetails

\* A call begins: nothing else happens.
LEMMA CallBegins ==
    ASSUME ReviewInv, UNCHANGED <<account, code, review, faults>>, NEW c \in Callers,
           NEW at, NEW what, NEW new, Begin(c, at, what, new),
           [at |-> at, id |-> account.id, what |-> what, new |-> new] \in Call, at # "flag",
           at = "write" => what \in Kinds
    PROVE  ReviewInv'
<1> DEFINE call == [at |-> at, id |-> account.id, what |-> what, new |-> new]
<1>1. calls' = [calls EXCEPT ![c] = call] /\ calls[c].at = "idle"
    BY IdleCall DEF Begin
<1>2. WritesDetails(call)
    BY DEF WritesDetails
<1>3. call \in Call
    OBVIOUS
<1>4. /\ account' \in Account /\ code' \in BOOLEAN /\ ReviewTypeOK' /\ faults' \in 0..MaxFaults
      /\ account'.status = account.status
      /\ \A k \in review'.fresh \ review'.lapsed :
            k \in review.fresh \ review.lapsed /\ ~IsFlagging(calls[c], k)
    BY <1>1, AccountFacts DEF ReviewTypeOK, IsFlagging
<1> HIDE DEF call
<1> QED BY <1>1, <1>2, <1>3, <1>4, CallMoves

\* A call that does not flag ends, or goes on to a step that does not either, and may have
\* changed the account: its status is what it was, or it is flagged, or decided on.
LEMMA CallGoesOn ==
    ASSUME ReviewInv, NEW c \in Callers, calls[c].at # "flag",
           Ends(c) \/ \E at \in {"mail", "store", "forget", "payroll", "loan"} : Goes(c, at),
           account' \in Account, code' \in BOOLEAN, faults' \in 0..MaxFaults,
           \/ UNCHANGED review /\ account'.status \in {account.status, "FLAGGED"}
           \/ ReviewTypeOK' /\ account'.status = "FLAGGED"
           \/ review' = Decided
    PROVE  ReviewInv'
<1>1. PICK call \in Call : calls' = [calls EXCEPT ![c] = call] /\ WritesDetails(call)
    <2>1. CASE Ends(c)
        BY <2>1, IdleCall DEF Ends
    <2>2. ASSUME NEW at \in {"mail", "store", "forget", "payroll", "loan"}, Goes(c, at)
          PROVE  \E call \in Call : calls' = [calls EXCEPT ![c] = call] /\ WritesDetails(call)
        <3> DEFINE call == [calls[c] EXCEPT !.at = at]
        <3>1. calls' = [calls EXCEPT ![c] = call] /\ calls[c] \in Call
            BY <2>2, AccountFacts DEF Goes
        <3>2. call \in Call /\ call.at = at
            BY <3>1 DEF Call
        <3> HIDE DEF call
        <3> QED BY <3>1, <3>2 DEF WritesDetails
    <2> QED BY <2>1, <2>2
<1>2. ReviewTypeOK' /\ (review' = Decided => review'.fresh = {})
    BY AccountFacts DEF ReviewTypeOK, Decided
<1>3. \A k : ~IsFlagging(calls[c], k)
    BY DEF IsFlagging
<1> QED BY <1>1, <1>2, <1>3, CallMoves

LEMMA AccountBits ==
    ASSUME ReviewInv
    PROVE  /\ account.exists \in BOOLEAN /\ account.id \in 0..MaxIds /\ account.external \in BOOLEAN
           /\ account.status \in {"ACTIVE", "FLAGGED", "INACTIVE"}
           /\ account.details \in SUBSET Kinds
           /\ MaxIds \in Nat /\ MaxFaults \in Nat
BY AccountFacts, AccountConstants DEF Account

\* The customer's own calls.
LEMMA CustomerSteps ==
    ASSUME ReviewInv, NEW c \in Callers, CustomerStep(c)
    PROVE  ReviewInv'
<1>0. account.id \in 0..MaxIds
    BY AccountBits
<1>1. ASSUME NEW via \in Channels, SignUp(c, via) PROVE ReviewInv'
    <2>1. [at |-> "create", id |-> account.id, what |-> via, new |-> TRUE] \in Call
        BY <1>0 DEF Call
    <2> QED BY <1>1, <2>1, CallBegins DEF SignUp
<1>2. CASE CreateAccount(c)
    <2>1. CASE account.exists
        BY <1>2, <2>1, AccountFacts, CallGoesOn DEF CreateAccount
    <2>2. CASE ~account.exists
        <3>1. account' \in Account
            BY <1>0, <1>2, <2>2 DEF CreateAccount, NoAccount, Account
        <3>2. review' = Decided /\ calls[c].at = "create" /\ UNCHANGED <<code, faults>>
            BY <1>2, <2>2 DEF CreateAccount
        <3>3. Ends(c) \/ Goes(c, "mail")
            BY <1>2, <2>2 DEF CreateAccount
        <3> QED BY <3>1, <3>2, <3>3, AccountFacts, CallGoesOn
    <2> QED BY <2>1, <2>2
<1>3. CASE ResendCode(c)
    <2>1. [at |-> "mail", id |-> account.id, what |-> "none", new |-> FALSE] \in Call
        BY <1>0 DEF Call
    <2> QED BY <1>3, <2>1, CallBegins DEF ResendCode
<1>4. CASE MailCode(c)
    BY <1>4, AccountFacts, CallGoesOn DEF MailCode
<1>5. CASE StoreCode(c)
    BY <1>5, AccountFacts, CallGoesOn DEF StoreCode
<1>6. CASE Verify(c)
    <2>1. [at |-> "mark", id |-> account.id, what |-> "none", new |-> FALSE] \in Call
        BY <1>0 DEF Call
    <2> QED BY <1>6, <2>1, CallBegins DEF Verify
<1>7. CASE MarkVerified(c)
    <2>1. account' \in Account /\ account'.status = "FLAGGED"
        BY <1>7, AccountFacts DEF MarkVerified, Account
    <2> QED BY <1>7, <2>1, AccountFacts, CallGoesOn DEF MarkVerified
<1>8. CASE ForgetCode(c)
    BY <1>8, AccountFacts, CallGoesOn DEF ForgetCode
<1> QED BY <1>1, <1>2, <1>3, <1>4, <1>5, <1>6, <1>7, <1>8 DEF CustomerStep

\* Changes of details, and calls that die.
LEMMA DetailsSteps ==
    ASSUME ReviewInv, NEW c \in Callers, DetailsStep(c)
    PROVE  ReviewInv'
<1>0. /\ account.id \in 0..MaxIds /\ calls \in [Callers -> Call] /\ calls[c] \in Call
      /\ WritesDetails(calls[c]) /\ review \in [fresh : SUBSET Kinds, lapsed : SUBSET Kinds]
    BY AccountBits, AccountFacts DEF ReviewTypeOK
<1>1. ASSUME NEW k \in Kinds, ChangeDetails(c, k) PROVE ReviewInv'
    <2>1. [at |-> "write", id |-> account.id, what |-> k, new |-> ~IsThere(k)] \in Call
        <3>1. (~IsThere(k)) \in BOOLEAN
            OBVIOUS
        <3> QED BY <1>0, <3>1 DEF Call
    <2> QED BY <1>1, <2>1, CallBegins DEF ChangeDetails
<1>2. CASE WriteDetails(c)
    <2>1. CASE ~Writable(c)
        BY <1>2, <2>1, AccountFacts, CallGoesOn DEF WriteDetails
    <2>2. CASE Writable(c)
        <3> DEFINE call == [calls[c] EXCEPT !.at = "flag"]
                   what == calls[c].what
        <3>1. what \in Kinds
            BY <1>0, <1>2 DEF WritesDetails, WriteDetails
        <3>2. call \in Call /\ call.at = "flag" /\ call.what = what
            BY <1>0 DEF Call
        <3>3. calls' = [calls EXCEPT ![c] = call]
            BY <1>0, <1>2, <2>2 DEF WriteDetails, Goes
        <3>4. account' = [account EXCEPT !.details = @ \cup {what}]
            BY <1>2, <2>2 DEF WriteDetails
        <3>5. review' = [review EXCEPT !.fresh = @ \cup {what}]
            BY <1>2, <2>2 DEF WriteDetails
        <3>6. calls[c].at = "write" /\ UNCHANGED <<code, faults>>
            BY <1>2 DEF WriteDetails
        <3> HIDE DEF call, what
        <3>7. account' \in Account /\ account'.status = account.status
            BY <3>1, <3>4, AccountFacts DEF Account
        <3>8. ReviewTypeOK' /\ \A k \in review'.fresh \ review'.lapsed :
                                  k \in review.fresh \ review.lapsed \/ k = what
            BY <1>0, <3>1, <3>5 DEF ReviewTypeOK
        <3>9. WritesDetails(call)
            BY <3>1, <3>2 DEF WritesDetails
        <3>10. \A k \in review'.fresh \ review'.lapsed :
                  \/ k \in review.fresh \ review.lapsed /\ ~IsFlagging(calls[c], k)
                  \/ IsFlagging(call, k)
            BY <3>2, <3>6, <3>8 DEF IsFlagging
        <3> QED BY <3>2, <3>3, <3>6, <3>7, <3>8, <3>9, <3>10, AccountFacts, CallMoves
    <2> QED BY <2>1, <2>2
\* A flag that a failure took is on record as lapsed.
<1>3. ASSUME calls[c].at = "flag", Ends(c), UNCHANGED <<account, code>>, faults' \in 0..MaxFaults,
             review' = [review EXCEPT !.lapsed = @ \cup {calls[c].what}]
      PROVE  ReviewInv'
    <2>1. calls[c].what \in Kinds
        BY <1>0, <1>3 DEF WritesDetails
    <2>2. ReviewTypeOK' /\ \A k \in review'.fresh \ review'.lapsed :
                              k \in review.fresh \ review.lapsed /\ k # calls[c].what
        BY <1>0, <1>3, <2>1 DEF ReviewTypeOK
    <2>3. \A k \in review'.fresh \ review'.lapsed :
              k \in review.fresh \ review.lapsed /\ ~IsFlagging(calls[c], k)
        BY <2>2 DEF IsFlagging
    <2>4. calls' = [calls EXCEPT ![c] = Idle]
        BY <1>3 DEF Ends
    <2> QED BY <1>3, <2>2, <2>3, <2>4, IdleCall, AccountFacts, CallMoves
<1>4. CASE FlagForReview(c)
    <2>1. CASE Holds(c)
        <3>1. account' \in Account /\ account'.status = "FLAGGED"
            BY <1>4, <2>1, AccountFacts DEF FlagForReview, Flagged, Account
        <3>2. calls' = [calls EXCEPT ![c] = Idle] /\ UNCHANGED <<review, code, faults>>
            BY <1>4, <2>1 DEF FlagForReview, Ends
        <3>3. ReviewTypeOK' /\ code' \in BOOLEAN /\ faults' \in 0..MaxFaults
            BY <3>2, AccountFacts DEF ReviewTypeOK
        <3> QED BY <3>1, <3>2, <3>3, IdleCall, CallMoves
    <2>2. CASE ~Holds(c)
        BY <1>3, <1>4, <2>2, AccountFacts DEF FlagForReview
    <2> QED BY <2>1, <2>2
<1>5. CASE CallDies(c)
    <2>1. faults' \in 0..MaxFaults
        BY <1>5, AccountFacts, AccountConstants DEF CallDies
    <2>2. CASE calls[c].at = "flag"
        BY <1>3, <1>5, <2>1, <2>2 DEF CallDies
    <2>3. CASE calls[c].at # "flag"
        BY <1>5, <2>1, <2>3, AccountFacts, CallGoesOn DEF CallDies
    <2> QED BY <2>2, <2>3
<1> QED BY <1>1, <1>2, <1>4, <1>5 DEF DetailsStep

\* Onboarding by staff.
LEMMA OnboardingSteps ==
    ASSUME ReviewInv, NEW c \in Callers, OnboardingStep(c)
    PROVE  ReviewInv'
<1>0. /\ account.id \in 0..MaxIds /\ calls \in [Callers -> Call] /\ calls[c] \in Call
      /\ review \in [fresh : SUBSET Kinds, lapsed : SUBSET Kinds]
    BY AccountBits, AccountFacts DEF ReviewTypeOK
<1>1. ASSUME NEW by \in Staff, AddCustomer(c, by) PROVE ReviewInv'
    <2> DEFINE what == IF by = "MARKETER" THEN by ELSE "ADMIN"
    <2>1. what \in Staff
        BY DEF Staff
    <2>2. Begin(c, "onboard", what, TRUE) /\ UNCHANGED <<account, code, review, faults>>
        BY <1>1 DEF AddCustomer
    <2> HIDE DEF what
    <2>3. [at |-> "onboard", id |-> account.id, what |-> what, new |-> TRUE] \in Call
        BY <1>0, <2>1 DEF Call
    <2> QED BY <2>2, <2>3, CallBegins
<1>2. CASE OnboardCustomer(c)
    <2>1. CASE account.exists
        BY <1>2, <2>1, AccountFacts, CallGoesOn DEF OnboardCustomer
    <2>2. CASE ~account.exists
        <3>1. account' \in Account
            <4> DEFINE status == IF calls[c].what = "MARKETER" THEN "FLAGGED" ELSE "ACTIVE"
            <4>1. account' = [NoAccount EXCEPT !.exists = TRUE, !.id = account.id,
                                !.external = TRUE, !.status = status,
                                !.details = {"identity", "payment"}]
                BY <1>2, <2>2 DEF OnboardCustomer
            <4>2. status \in {"ACTIVE", "FLAGGED"} /\ {"identity", "payment"} \subseteq Kinds
                BY DEF Kinds
            <4> HIDE DEF status
            <4> QED BY <1>0, <4>1, <4>2 DEF NoAccount, Account
        <3>2. calls[c].at = "onboard" /\ Goes(c, "payroll") /\ UNCHANGED <<code, faults>>
            BY <1>2, <2>2 DEF OnboardCustomer
        <3>3. CASE calls[c].what = "MARKETER"
            <4>1. account'.status = "FLAGGED"
                BY <1>2, <2>2, <3>3 DEF OnboardCustomer, NoAccount
            <4>2. ReviewTypeOK'
                BY <1>2, <2>2, <3>3 DEF OnboardCustomer, Decided, ReviewTypeOK, Kinds
            <4> QED BY <3>1, <3>2, <4>1, <4>2, AccountFacts, CallGoesOn
        <3>4. CASE calls[c].what # "MARKETER"
            <4>1. review' = Decided
                BY <1>2, <2>2, <3>4 DEF OnboardCustomer, Decided
            <4> QED BY <3>1, <3>2, <4>1, AccountFacts, CallGoesOn
        <3> QED BY <3>3, <3>4
    <2> QED BY <2>1, <2>2
<1>3. CASE AddPayroll(c)
    <2>1. account' \in Account /\ account'.status = account.status
        BY <1>3, AccountFacts DEF AddPayroll, Account, Kinds
    <2>2. calls[c].at = "payroll" /\ (Ends(c) \/ Goes(c, "loan")) /\ UNCHANGED <<code, faults>>
        BY <1>3 DEF AddPayroll
    <2>3. CASE calls[c].what # "MARKETER"
        <3>1. UNCHANGED review
            BY <1>3, <2>3 DEF AddPayroll
        <3> QED BY <2>1, <2>2, <3>1, AccountFacts, CallGoesOn
    <2>4. CASE calls[c].what = "MARKETER"
        <3>1. ReviewTypeOK'
            BY <1>0, <1>3, <2>4 DEF AddPayroll, ReviewTypeOK, Kinds
        <3>2. CASE account.status = "FLAGGED"
            BY <2>1, <2>2, <3>1, <3>2, AccountFacts, CallGoesOn
        <3>3. CASE account.status # "FLAGGED"
            <4>1. \A k \in review'.fresh \ review'.lapsed : k \in review.fresh \ review.lapsed
                BY <1>0, <1>3, <2>4, <3>3 DEF AddPayroll
            <4>2. PICK call \in Call : calls' = [calls EXCEPT ![c] = call] /\ WritesDetails(call)
                <5>1. CASE Ends(c)
                    BY <5>1, IdleCall DEF Ends
                <5>2. CASE Goes(c, "loan")
                    <6> DEFINE call == [calls[c] EXCEPT !.at = "loan"]
                    <6>1. call \in Call /\ call.at = "loan"
                        BY <1>0 DEF Call
                    <6>2. calls' = [calls EXCEPT ![c] = call]
                        BY <1>0, <5>2 DEF Goes
                    <6> HIDE DEF call
                    <6> QED BY <6>1, <6>2 DEF WritesDetails
                <5> QED BY <2>2, <5>1, <5>2
            <4>3. \A k : ~IsFlagging(calls[c], k)
                BY <2>2 DEF IsFlagging
            <4> QED BY <2>1, <2>2, <3>1, <4>1, <4>2, <4>3, AccountFacts, CallMoves
        <3> QED BY <3>2, <3>3
    <2> QED BY <2>3, <2>4
<1> QED BY <1>1, <1>2, <1>3 DEF OnboardingStep

\* Invitations and removals.
LEMMA RolesSteps ==
    ASSUME ReviewInv, NEW c \in Callers, RolesStep(c)
    PROVE  ReviewInv'
<1>0. account.id \in 0..MaxIds /\ account.exists \in BOOLEAN /\ MaxIds \in Nat
    BY AccountBits
<1>1. CASE InviteAdmin(c)
    <2>1. [at |-> "invite", id |-> account.id, what |-> "none", new |-> ~account.exists] \in Call
        BY <1>0 DEF Call
    <2> QED BY <1>1, <2>1, CallBegins DEF InviteAdmin
<1>2. CASE WriteInvite(c)
    <2>1. \/ UNCHANGED <<account, review>>
          \/ /\ account' = [account EXCEPT !.exists = TRUE, !.id = @ + 1, !.status = "ACTIVE"]
             /\ account.id < MaxIds /\ review' = Decided
        BY <1>2 DEF WriteInvite
    <2>2. account' \in Account /\ (UNCHANGED <<account, review>> \/ review' = Decided)
        <3>1. account.id < MaxIds => account.id + 1 \in 0..MaxIds
            BY <1>0
        <3> QED BY <2>1, <3>1, AccountFacts DEF Account
    <2> QED BY <1>2, <2>2, AccountFacts, CallGoesOn DEF WriteInvite
<1>3. CASE RemoveAdmin(c)
    <2>1. [at |-> "remove", id |-> account.id, what |-> "none", new |-> FALSE] \in Call
        BY <1>0 DEF Call
    <2> QED BY <1>3, <2>1, CallBegins DEF RemoveAdmin
<1>4. CASE WriteRemoval(c)
    <2>1. \/ account' = account
          \/ account' = [account EXCEPT !.id = @ + 1, !.status = "FLAGGED"] /\ account.id < MaxIds
        BY <1>4 DEF WriteRemoval
    <2>2. account' \in Account /\ account'.status \in {account.status, "FLAGGED"}
        <3>1. account.id < MaxIds => account.id + 1 \in 0..MaxIds
            BY <1>0
        <3> QED BY <2>1, <3>1, AccountFacts DEF Account
    <2> QED BY <1>4, <2>2, AccountFacts, CallGoesOn DEF WriteRemoval
<1> QED BY <1>1, <1>2, <1>3, <1>4 DEF RolesStep

\* Staff change the status, and codes expire, whatever calls are in progress.
LEMMA StatusSteps ==
    ASSUME ReviewInv,
           \/ ExpireCode
           \/ \E by \in Staff, s \in {"ACTIVE", "FLAGGED", "INACTIVE"} : UpdateStatus(by, s)
    PROVE  ReviewInv'
<1>1. CASE ExpireCode
    BY <1>1 DEF ExpireCode, ReviewInv, AccountTypeOK, Looked
<1>2. ASSUME NEW by \in Staff, NEW s \in {"ACTIVE", "FLAGGED", "INACTIVE"}, UpdateStatus(by, s)
      PROVE  ReviewInv'
    <2>1. account' \in Account /\ account'.status = s
        BY <1>2, AccountFacts DEF UpdateStatus, Account
    <2>2. UNCHANGED <<code, calls, faults>>
        BY <1>2 DEF UpdateStatus
    <2>3. ReviewTypeOK' /\ (s = "FLAGGED" \/ review'.fresh = {})
        BY <1>2, AccountFacts DEF UpdateStatus, Decided, ReviewTypeOK
    <2> QED BY <2>1, <2>2, <2>3, AccountFacts DEF ReviewInv, AccountTypeOK, ReviewTypeOK, Looked
<1> QED BY <1>1, <1>2

-----------------------------------------------------------------------------
(* Applications: the invariant                                             *)

LoanTypes ==
    /\ loans \in [Loans -> Loan] /\ assets \in [Assets -> Asset]
    /\ advances \subseteq Loans /\ desks \in [Desks -> Desk]
    /\ obligation \in [open : BOOLEAN, balance : Nat]
    /\ borrowed \in Nat /\ lost \in Nat /\ crossed \in BOOLEAN
    /\ payouts \in [Loans -> [times : Nat, amount : Nat, blind : BOOLEAN]]

\* A call has the row it works on, none is late for a payout yet and no payout is blind.
DeskFits(desk, held) ==
    /\ desk.at \in {"update", "delete", "approving", "approve", "reject", "pay", "count"} =>
          desk.loan \in Loans
    /\ desk.at \in {"grant", "refuse"} => desk.asset \in Assets
    /\ desk.at = "count" => desk.loan \in held
    /\ ~desk.paid /\ ~desk.blind

\* A loan is paid out once, with its advance, and then never pending or deleted again.
LoanFits(loan, payout, held) ==
    /\ loan.repayable > 0 <=> held
    /\ payout.times = (IF held THEN 1 ELSE 0) /\ (~held => payout.amount = 0) /\ ~payout.blind
    /\ held => loan.status \notin {"NONE", "PENDING", "DELETED"}
    /\ loan.status \in {"DISBURSED", "REPAID"} => held /\ (loan.repaid <=> loan.status = "REPAID")
    /\ loan.repaid => held

\* A commodity in review has no loan, one that is not was rejected or has one, and the loan
\* of a commodity is of its kind and was never pending.
AssetFits(asset, ls) ==
    /\ ~asset.there => asset = NoAsset
    /\ asset.inReview => asset.there /\ asset.loan = NoLoan /\ asset.made = 0
    /\ asset.there /\ ~asset.inReview /\ asset.loan = NoLoan => asset.rejected
    /\ asset.loan # NoLoan => /\ ls[asset.loan].status \notin {"NONE", "PENDING"}
                              /\ ls[asset.loan].category = "ASSET_PURCHASE"

DesksFit == \A d \in Desks : DeskFits(desks[d], advances)
LoansFit == \A l \in Loans : LoanFits(loans[l], payouts[l], l \in advances)
AssetsFit == \A a \in Assets : AssetFits(assets[a], loans)

Deciding(desk) == desk.at \in {"grant", "refuse"}
DecidedAreThere == \A d \in Desks : Deciding(desks[d]) => assets[desks[d].asset].there

\* The obligation is the sum of what the loans owe.
Owes(loan) == IF loan.repaid THEN 0 ELSE loan.repayable
OwedByAll == SumFunction([l \in Loans |-> Owes(loans[l])])
BookFits == obligation.balance = OwedByAll /\ (obligation.open <=> obligation.balance > 0)

\* What was paid out is counted, lost or about to be counted.
AboutToCount(desk, paid) == IF desk.at = "count" THEN paid[desk.loan].amount ELSE 0
InCounting == SumFunction([d \in Desks |-> AboutToCount(desks[d], payouts)])
PaidOut == SumFunction([l \in Loans |-> payouts[l].amount])
MoneyFits == borrowed + lost + InCounting = PaidOut

\* Until two calls cross, one call at most is about to create something, and there is nothing
\* it would cross; a commodity is decided on once, and its loan can be found from it.
Uncrossed ==
    /\ \A d, e \in Desks : desks[d].at = "create" /\ desks[e].at = "create" => d = e
    /\ \A d \in Desks : desks[d].at = "create" => ~HasPending(desks[d].what)
    /\ \A l, m \in With({"PENDING"}) : l = m
    /\ \A a, b \in InReview : a = b
    /\ \A d, e \in Desks :
          Deciding(desks[d]) /\ Deciding(desks[e]) /\ desks[d].asset = desks[e].asset => d = e
    /\ \A d \in Desks : Deciding(desks[d]) => assets[desks[d].asset].inReview
    /\ \A a \in Assets : assets[a].made <= 1
    /\ \A l \in Loans : loans[l].category = "ASSET_PURCHASE" /\ Exists(l) =>
          \E a \in Assets : assets[a].loan = l

OfficeInv ==
    /\ LoanTypes /\ DesksFit /\ LoansFit /\ AssetsFit /\ DecidedAreThere
    /\ BookFits /\ MoneyFits
    /\ ~crossed => Uncrossed

\* Every value the proofs name has its type.
LEMMA FreeDesk ==
    /\ Free \in Desk /\ Free.at = "idle" /\ Free.loan = NoLoan /\ Free.asset = NoLoan
    /\ \A held : DeskFits(Free, held)
BY DEF Free, Desk, DeskFits

LEMMA NewLoanFacts ==
    ASSUME NEW status \in {"PENDING", "APPROVED"}, NEW type \in {"New", "Topup"},
           NEW category \in {"PERSONAL", "ASSET_PURCHASE"}
    PROVE  LET loan == NewLoan(status, type, category) IN
           /\ loan \in Loan /\ loan.status = status /\ loan.category = category
           /\ loan.type = type /\ loan.repayable = 0 /\ loan.repaid = FALSE
           /\ loan.amount = Requested
BY DEF NewLoan, Loan, Requested, Interest

LEMMA UnusedFacts ==
    /\ Unused \in Loan /\ Unused.status = "NONE" /\ Unused.category = "PERSONAL"
    /\ Unused.repayable = 0 /\ Unused.repaid = FALSE
<1> DEFINE new == NewLoan("NONE", "New", "PERSONAL")
<1>1. /\ new \in Loan /\ new.status = "NONE" /\ new.category = "PERSONAL"
      /\ new.repayable = 0 /\ new.repaid = FALSE
    BY DEF NewLoan, Loan, Requested, Interest
<1> HIDE DEF new
<1>2. Unused = [new EXCEPT !.amount = 0]
    BY DEF Unused, new
<1> QED BY <1>1, <1>2 DEF Loan

LEMMA NoAssetFacts ==
    /\ NoAsset \in Asset /\ ~NoAsset.there /\ ~NoAsset.inReview /\ NoAsset.loan = NoLoan
    /\ NoAsset.made = 0 /\ \A ls : AssetFits(NoAsset, ls)
BY DEF NoAsset, Asset, AssetFits

LEMMA OwesIsNat ==
    ASSUME NEW loan \in Loan
    PROVE  Owes(loan) \in Nat /\ loan.repayable \in Nat /\ loan.amount \in Nat
BY DEF Owes, Loan, Requested, Interest

\* At the start there is at most one loan, and nothing was paid out.
LEMMA OfficeStarts ==
    ASSUME NEW status \in {"NONE", "PENDING", "APPROVED"}, LoanInit(status)
    PROVE  OfficeInv
<1>1. PICK first \in Loans : loans = [l \in Loans |->
          IF status = "NONE" \/ l # first THEN Unused ELSE NewLoan(status, "New", "PERSONAL")]
    BY DEF LoanInit
<1>2. \A l \in Loans :
          /\ loans[l] \in Loan /\ loans[l].repayable = 0 /\ loans[l].repaid = FALSE
          /\ loans[l].category = "PERSONAL" /\ loans[l].status \in {"NONE", "PENDING", "APPROVED"}
          /\ l # first => loans[l].status = "NONE"
    <2>1. status # "NONE" => LET loan == NewLoan(status, "New", "PERSONAL") IN
              /\ loan \in Loan /\ loan.status = status /\ loan.category = "PERSONAL"
              /\ loan.repayable = 0 /\ loan.repaid = FALSE
        BY NewLoanFacts
    <2> QED BY <1>1, <2>1, UnusedFacts
<1>3. \A l \in Loans : payouts[l] = [times |-> 0, amount |-> 0, blind |-> FALSE]
    BY DEF LoanInit
<1>4. LoanTypes
    BY <1>1, <1>2, FreeDesk, NoAssetFacts DEF LoanInit, LoanTypes
<1>5. advances = {} /\ \A d \in Desks : desks[d] = Free
    BY DEF LoanInit
<1>6. DesksFit
    BY <1>5, FreeDesk DEF DesksFit
<1>7. LoansFit
    BY <1>2, <1>3, <1>5 DEF LoansFit, LoanFits
<1>8. \A a \in Assets : assets[a] = NoAsset
    BY DEF LoanInit
<1>9. AssetsFit
    BY <1>8, NoAssetFacts DEF AssetsFit
<1>10. BookFits
    <2> DEFINE f == [l \in Loans |-> Owes(loans[l])]
    <2>1. DOMAIN f = Loans /\ f = [l \in DOMAIN f |-> f[l]] /\ \A l \in DOMAIN f : f[l] = 0
        BY <1>2 DEF Owes
    <2> HIDE DEF f
    <2>2. SumFunction(f) = 0
        BY <2>1, ApplicationConstants, SumOfZeros
    <2>3. obligation.balance = 0 /\ obligation.open = FALSE
        BY DEF LoanInit
    <2> QED BY <2>2, <2>3 DEF BookFits, OwedByAll, f
<1>11. MoneyFits
    <2> DEFINE f == [l \in Loans |-> payouts[l].amount]
               g == [d \in Desks |-> AboutToCount(desks[d], payouts)]
    <2>1. DOMAIN f = Loans /\ f = [l \in DOMAIN f |-> f[l]] /\ \A l \in DOMAIN f : f[l] = 0
        BY <1>3
    <2>2. DOMAIN g = Desks /\ g = [d \in DOMAIN g |-> g[d]] /\ \A d \in DOMAIN g : g[d] = 0
        BY <1>5, FreeDesk DEF AboutToCount
    <2> HIDE DEF f, g
    <2>3. SumFunction(f) = 0 /\ SumFunction(g) = 0
        BY <2>1, <2>2, ApplicationConstants, SumOfZeros
    <2>4. borrowed = 0 /\ lost = 0
        BY DEF LoanInit
    <2> QED BY <2>3, <2>4 DEF MoneyFits, InCounting, PaidOut, f, g
<1>12. Uncrossed
    <2>1. \A d \in Desks : desks[d].at = "idle"
        BY <1>5, FreeDesk
    <2>2. InReview = {}
        BY <1>8, NoAssetFacts DEF InReview
    <2>3. \A l, m \in With({"PENDING"}) : l = m
        BY <1>2 DEF With
    <2>4. \A a \in Assets : assets[a].made <= 1
        BY <1>8, NoAssetFacts
    <2>5. \A l \in Loans : loans[l].category # "ASSET_PURCHASE"
        BY <1>2
    <2> QED BY <2>1, <2>2, <2>3, <2>4, <2>5 DEF Uncrossed, Deciding
<1>13. DecidedAreThere
    BY <1>5, FreeDesk DEF DecidedAreThere, Deciding
<1> QED BY <1>4, <1>6, <1>7, <1>9, <1>10, <1>11, <1>12, <1>13 DEF OfficeInv

-----------------------------------------------------------------------------
(* Applications: what a step does to each part of the invariant            *)

LEMMA OfficeFacts ==
    ASSUME OfficeInv
    PROVE  /\ LoanTypes
           /\ \A d \in Desks : desks[d] \in Desk /\ DeskFits(desks[d], advances)
           /\ \A l \in Loans : /\ loans[l] \in Loan
                               /\ LoanFits(loans[l], payouts[l], l \in advances)
                               /\ payouts[l] \in [times : Nat, amount : Nat, blind : BOOLEAN]
           /\ \A a \in Assets : assets[a] \in Asset /\ AssetFits(assets[a], loans)
BY DEF OfficeInv, LoanTypes, DesksFit, LoansFit, AssetsFit

\* A call moves on; the loans with an advance are still.
LEMMA DesksPart ==
    ASSUME OfficeInv, NEW d \in Desks, NEW desk \in Desk, desks' = [desks EXCEPT ![d] = desk],
           DeskFits(desk, advances'), advances \subseteq advances'
    PROVE  DesksFit' /\ desks' \in [Desks -> Desk]
           /\ \A e \in Desks : desks'[e] = IF e = d THEN desk ELSE desks[e]
<1>1. desks \in [Desks -> Desk]
    BY OfficeFacts DEF LoanTypes
<1>2. \A e \in Desks : desks'[e] = IF e = d THEN desk ELSE desks[e]
    BY <1>1
<1>3. \A e \in Desks : DeskFits(desks[e], advances')
    BY OfficeFacts DEF DeskFits
<1> QED BY <1>1, <1>2, <1>3 DEF DesksFit

\* Requests stay where they are, and no call comes to decide on one.
LEMMA DecidedPart ==
    ASSUME OfficeInv,
           \A a \in Assets : assets[a].there => assets'[a].there,
           \A d \in Desks : desks'[d] = desks[d] \/ ~Deciding(desks'[d])
    PROVE  DecidedAreThere'
<1>1. ASSUME NEW d \in Desks, Deciding(desks'[d]) PROVE assets'[desks'[d].asset].there
    <2>1. desks'[d] = desks[d] /\ Deciding(desks[d])
        BY <1>1
    <2>2. desks[d].asset \in Assets /\ assets[desks[d].asset].there
        BY <2>1, OfficeFacts DEF OfficeInv, DecidedAreThere, Deciding, DeskFits
    <2> QED BY <2>1, <2>2
<1> QED BY <1>1 DEF DecidedAreThere

\* Nothing is paid out or counted.
LEMMA MoneyPart ==
    ASSUME OfficeInv, UNCHANGED <<payouts, borrowed, lost>>,
           \A d \in Desks : \/ desks'[d] = desks[d]
                            \/ desks[d].at # "count" /\ desks'[d].at # "count"
    PROVE  MoneyFits'
<1>1. \A d \in Desks : AboutToCount(desks'[d], payouts) = AboutToCount(desks[d], payouts)
    BY DEF AboutToCount
<1>2. [d \in Desks |-> AboutToCount(desks'[d], payouts)]
        = [d \in Desks |-> AboutToCount(desks[d], payouts)]
    BY <1>1
<1>3. InCounting' = InCounting
    BY <1>2 DEF InCounting
<1>4. PaidOut' = PaidOut
    BY DEF PaidOut
<1> QED BY <1>3, <1>4 DEF OfficeInv, MoneyFits

\* What one loan owes changes, and the obligation with it.
LEMMA BooksPart ==
    ASSUME OfficeInv, NEW l \in Loans, NEW loan \in Loan, loans' = [loans EXCEPT ![l] = loan],
           obligation' \in [open : BOOLEAN, balance : Nat],
           obligation'.open <=> obligation'.balance > 0,
           obligation'.balance + Owes(loans[l]) = obligation.balance + Owes(loan)
    PROVE  BookFits'
<1> DEFINE before == [m \in Loans |-> Owes(loans[m])]
           after  == [m \in Loans |-> Owes(loans'[m])]
<1>1. \A m \in Loans : loans'[m] = IF m = l THEN loan ELSE loans[m]
    BY OfficeFacts DEF LoanTypes
<1>2. \A m \in Loans : Owes(loans[m]) \in Nat /\ Owes(loans'[m]) \in Nat
    BY <1>1, OfficeFacts, OwesIsNat
<1>3. /\ DOMAIN before = Loans /\ DOMAIN after = Loans
      /\ before[l] = Owes(loans[l]) /\ after[l] = Owes(loan)
      /\ \A m \in Loans : before[m] \in Nat /\ after[m] \in Nat
      /\ \A m \in Loans \ {l} : after[m] = before[m]
    BY <1>1, <1>2
<1> HIDE DEF before, after
<1>4. SumFunction(after) + before[l] = SumFunction(before) + after[l]
    BY <1>3, ApplicationConstants, SumChange
<1>5. SumFunction(after) \in Nat /\ SumFunction(before) \in Nat
    BY <1>3, ApplicationConstants, FiniteSumNat
<1>6. obligation.balance = SumFunction(before)
    BY DEF OfficeInv, BookFits, OwedByAll, before
<1>7. before[l] \in Nat /\ after[l] \in Nat /\ obligation'.balance \in Nat
    BY <1>3
<1>8. obligation'.balance + before[l] = obligation.balance + after[l]
    BY <1>3
<1>9. obligation'.balance = SumFunction(after)
    BY <1>4, <1>5, <1>6, <1>7, <1>8
<1> QED BY <1>9 DEF BookFits, OwedByAll, after

\* A loan changes but for its payout: it is made, changed, deleted or decided on.
LEMMA LoansPart ==
    ASSUME OfficeInv, NEW l \in Loans, NEW loan \in Loan, loans' = [loans EXCEPT ![l] = loan],
           UNCHANGED <<advances, payouts, obligation>>,
           loan.repayable = loans[l].repayable, loan.repaid = loans[l].repaid,
           \/ loan.status = loans[l].status
           \/ loan.status \in {"APPROVED", "REJECTED"}
           \/ loan.status \in {"PENDING", "DELETED"} /\ l \notin advances
    PROVE  /\ loans' \in [Loans -> Loan] /\ LoansFit' /\ BookFits'
           /\ \A m \in Loans : loans'[m] = IF m = l THEN loan ELSE loans[m]
<1>1. loans' \in [Loans -> Loan] /\ \A m \in Loans : loans'[m] = IF m = l THEN loan ELSE loans[m]
    BY OfficeFacts DEF LoanTypes
<1>2. LoanFits(loan, payouts[l], l \in advances)
    <2>1. LoanFits(loans[l], payouts[l], l \in advances)
        BY OfficeFacts
    <2> QED BY <2>1 DEF LoanFits
<1>3. LoansFit'
    BY <1>1, <1>2, OfficeFacts DEF LoansFit
<1>4. BookFits'
    <2>1. Owes(loan) = Owes(loans[l])
        BY DEF Owes
    <2>2. obligation \in [open : BOOLEAN, balance : Nat]
          /\ (obligation.open <=> obligation.balance > 0)
        BY DEF OfficeInv, BookFits, LoanTypes
    <2> QED BY <2>1, <2>2, BooksPart
<1> QED BY <1>1, <1>3, <1>4

\* The commodities stay, and their loans do not become pending.
LEMMA AssetsPart ==
    ASSUME OfficeInv, NEW l \in Loans, NEW loan \in Loan, loans' = [loans EXCEPT ![l] = loan],
           UNCHANGED assets, loan.category = loans[l].category,
           loan.status \in {"NONE", "PENDING"} => loans[l].status \in {"NONE", "PENDING"}
    PROVE  AssetsFit'
<1>1. \A m \in Loans : loans'[m] = IF m = l THEN loan ELSE loans[m]
    BY OfficeFacts DEF LoanTypes
<1>2. ASSUME NEW a \in Assets PROVE AssetFits(assets[a], loans')
    <2>1. AssetFits(assets[a], loans) /\ assets[a].loan \in Loans \cup {NoLoan}
        BY OfficeFacts DEF Asset
    <2> QED BY <1>1, <2>1 DEF AssetFits
<1> QED BY <1>2 DEF AssetsFit

\* No call comes to create or decide, nothing becomes pending.
LEMMA UncrossedPart ==
    ASSUME OfficeInv, UNCHANGED assets, crossed' = crossed,
           \A d \in Desks : \/ desks'[d] = desks[d]
                            \/ desks'[d].at \notin {"create", "grant", "refuse"},
           \A l \in Loans :
              /\ loans'[l].status = "PENDING" => loans[l].status = "PENDING"
              /\ loans'[l].category = loans[l].category
              /\ loans'[l].status \notin {"NONE", "DELETED"} =>
                    loans[l].status \notin {"NONE", "DELETED"} \/ loans[l].category = "PERSONAL"
    PROVE  (~crossed => Uncrossed)'
<1> SUFFICES ASSUME ~crossed PROVE Uncrossed'
    OBVIOUS
<1>1. Uncrossed
    BY DEF OfficeInv
<1>2. With({"PENDING"})' \subseteq With({"PENDING"}) /\ InReview' = InReview
    BY DEF With, InReview
<1>3. \A w : HasPending(w)' => HasPending(w)
    BY <1>2 DEF HasPending
<1>4. \A l \in Loans : loans'[l].category = "ASSET_PURCHASE" /\ Exists(l)' =>
          \E a \in Assets : assets'[a].loan = l
    BY <1>1 DEF Uncrossed, Exists
<1>5. \A d \in Desks :
          desks'[d].at = "create" => desks'[d] = desks[d] /\ ~HasPending(desks[d].what)'
    BY <1>1, <1>3 DEF Uncrossed
<1>6. \A d \in Desks : Deciding(desks'[d]) => desks'[d] = desks[d]
    BY DEF Deciding
<1> QED BY <1>1, <1>2, <1>4, <1>5, <1>6 DEF Uncrossed

-----------------------------------------------------------------------------
(* Applications: the steps                                                 *)

\* A call looks at what is there and goes on, or gives up; it counts no payout.
LEMMA DeskMoves ==
    ASSUME OfficeInv, NEW d \in Desks, NEW desk \in Desk, desks' = [desks EXCEPT ![d] = desk],
           DeskFits(desk, advances), desks[d].at # "count", desk.at # "count",
           UNCHANGED <<loans, assets, ledgerOf>>, crossed' \in BOOLEAN,
           Deciding(desk) => assets[desk.asset].there,
           ~crossed' =>
              /\ ~crossed
              /\ desk.at = "create" => /\ ~HasPending(desk.what)
                                       /\ \A e \in Desks \ {d} : desks[e].at # "create"
              /\ Deciding(desk) => /\ assets[desk.asset].inReview
                                   /\ \A e \in Desks \ {d} :
                                         Deciding(desks[e]) => desks[e].asset # desk.asset
    PROVE  OfficeInv'
<1>0. UNCHANGED <<loans, assets, advances, obligation, borrowed, payouts, lost>>
    BY DEF ledgerOf
<1>1. /\ DesksFit' /\ desks' \in [Desks -> Desk]
      /\ \A e \in Desks : desks'[e] = IF e = d THEN desk ELSE desks[e]
    BY <1>0, DesksPart
<1>2. MoneyFits'
    BY <1>0, <1>1, MoneyPart
<1>3. BookFits'
    BY <1>0 DEF OfficeInv, BookFits, OwedByAll
<1>4. LoanTypes' /\ LoansFit' /\ AssetsFit'
    BY <1>0, <1>1 DEF OfficeInv, LoanTypes, LoansFit, AssetsFit
<1>5. ASSUME ~crossed' PROVE Uncrossed'
    <2>1. Uncrossed
        BY <1>5 DEF OfficeInv
    <2>2. With({"PENDING"})' = With({"PENDING"}) /\ InReview' = InReview
        BY <1>0 DEF With, InReview
    <2>3. \A w : HasPending(w)' <=> HasPending(w)
        BY <2>2 DEF HasPending
    <2>4. \A e \in Desks : desks'[e].at = "create" => ~(HasPending(desks[e].what))'
        BY <1>1, <1>5, <2>1, <2>3 DEF Uncrossed
    <2>5. \A a, b \in Desks : desks'[a].at = "create" /\ desks'[b].at = "create" => a = b
        BY <1>1, <1>5, <2>1 DEF Uncrossed
    <2>6. \A a, b \in Desks :
             Deciding(desks'[a]) /\ Deciding(desks'[b]) /\ desks'[a].asset = desks'[b].asset =>
                a = b
        BY <1>1, <1>5, <2>1 DEF Uncrossed
    <2>7. \A e \in Desks : Deciding(desks'[e]) => assets'[desks'[e].asset].inReview
        BY <1>0, <1>1, <1>5, <2>1 DEF Uncrossed
    <2>8. \A l \in Loans : loans'[l].category = "ASSET_PURCHASE" /\ Exists(l)' =>
              \E a \in Assets : assets'[a].loan = l
        BY <1>0, <2>1 DEF Uncrossed, Exists
    <2> QED BY <1>0, <2>1, <2>2, <2>4, <2>5, <2>6, <2>7, <2>8 DEF Uncrossed
<1>6. DecidedAreThere'
    BY <1>0, <1>1 DEF OfficeInv, DecidedAreThere
<1> QED BY <1>1, <1>2, <1>3, <1>4, <1>5, <1>6 DEF OfficeInv

\* A call that does not come to create or decide leaves nothing crossed that was not.
LEMMA DeskGoesOn ==
    ASSUME OfficeInv, NEW d \in Desks, NEW desk \in Desk, desks' = [desks EXCEPT ![d] = desk],
           DeskFits(desk, advances), desks[d].at # "count",
           desk.at \notin {"count", "create", "grant", "refuse"},
           UNCHANGED <<loans, assets, ledgerOf, crossed>>
    PROVE  OfficeInv'
<1>1. crossed' \in BOOLEAN
    BY DEF OfficeInv, LoanTypes
<1> QED BY <1>1, DeskMoves DEF Deciding

\* The counters get a payout, or a failure keeps it from them.
LEMMA DeskCounts ==
    ASSUME OfficeInv, NEW d \in Desks, desks[d].at = "count", Leaves(d),
           UNCHANGED <<loans, assets, advances, obligation, payouts, crossed>>,
           LET paid == payouts[desks[d].loan].amount IN
              \/ borrowed' = borrowed + paid /\ lost' = lost
              \/ lost' = lost + paid /\ borrowed' = borrowed
    PROVE  OfficeInv'
<1> DEFINE paid == payouts[desks[d].loan].amount
           before == [e \in Desks |-> AboutToCount(desks[e], payouts)]
           after  == [e \in Desks |-> AboutToCount(desks'[e], payouts)]
<1>1. /\ DesksFit' /\ desks' \in [Desks -> Desk]
      /\ \A e \in Desks : desks'[e] = IF e = d THEN Free ELSE desks[e]
    BY FreeDesk, DesksPart DEF Leaves
<1>2. \A e \in Desks : AboutToCount(desks[e], payouts) \in Nat
    BY OfficeFacts DEF AboutToCount, DeskFits
<1>3. paid \in Nat
    BY OfficeFacts DEF DeskFits
<1>4. /\ DOMAIN before = Desks /\ DOMAIN after = Desks
      /\ before[d] = paid /\ after[d] = 0
      /\ \A e \in Desks : before[e] \in Nat /\ after[e] \in Nat
      /\ \A e \in Desks \ {d} : after[e] = before[e]
    BY <1>1, <1>2, FreeDesk DEF AboutToCount
<1>5. borrowed \in Nat /\ lost \in Nat /\ borrowed + lost + SumFunction(before) = PaidOut
    BY DEF OfficeInv, LoanTypes, MoneyFits, InCounting
<1>6. (borrowed' = borrowed + paid /\ lost' = lost) \/ (lost' = lost + paid /\ borrowed' = borrowed)
    OBVIOUS
<1> HIDE DEF before, after, paid
<1>7. SumFunction(after) + before[d] = SumFunction(before) + after[d]
    BY <1>4, ApplicationConstants, SumChange
<1>8. SumFunction(after) \in Nat /\ SumFunction(before) \in Nat
    BY <1>4, ApplicationConstants, FiniteSumNat
<1>9. SumFunction(after) + paid = SumFunction(before)
    BY <1>4, <1>7, <1>8
<1>10. borrowed' + lost' + SumFunction(after) = borrowed + lost + SumFunction(before)
    BY <1>3, <1>5, <1>6, <1>8, <1>9
<1>11. PaidOut' = PaidOut
    BY DEF PaidOut
<1>12. MoneyFits'
    BY <1>5, <1>10, <1>11 DEF MoneyFits, InCounting, after
<1>13. BookFits'
    BY DEF OfficeInv, BookFits, OwedByAll
<1>14. borrowed' \in Nat /\ lost' \in Nat
    BY <1>3, <1>5, <1>6
<1>15. LoanTypes' /\ LoansFit' /\ AssetsFit'
    BY <1>1, <1>14 DEF OfficeInv, LoanTypes, LoansFit, AssetsFit
<1>16. (~crossed => Uncrossed)'
    <2>1. \A e \in Desks : desks'[e] = desks[e] \/ desks'[e].at \notin {"create", "grant", "refuse"}
        BY <1>1, FreeDesk
    <2>2. \A l \in Loans :
              /\ loans'[l].status = "PENDING" => loans[l].status = "PENDING"
              /\ loans'[l].category = loans[l].category
              /\ loans'[l].status \notin {"NONE", "DELETED"} =>
                    loans[l].status \notin {"NONE", "DELETED"} \/ loans[l].category = "PERSONAL"
        OBVIOUS
    <2> QED BY <2>1, <2>2, UncrossedPart
<1>17. DecidedAreThere'
    BY <1>1, FreeDesk, DecidedPart DEF Deciding
<1> QED BY <1>1, <1>12, <1>13, <1>15, <1>16, <1>17 DEF OfficeInv

\* A call on an application's loan ends: the loan is changed, deleted or decided on, or it
\* was gone and stays so.
LEMMA LoanChanges ==
    ASSUME OfficeInv, NEW d \in Desks, desks[d].at # "count", Leaves(d),
           NEW l \in Loans, NEW loan \in Loan, loans' = [loans EXCEPT ![l] = loan],
           UNCHANGED <<assets, ledgerOf, crossed>>,
           loan.repayable = loans[l].repayable, loan.repaid = loans[l].repaid,
           loan.category = loans[l].category,
           \/ loan.status = loans[l].status
           \/ Exists(l) /\ loan.status \in {"APPROVED", "REJECTED"}
           \/ Exists(l) /\ loan.status = "DELETED" /\ l \notin advances
    PROVE  OfficeInv'
<1>0. UNCHANGED <<advances, obligation, borrowed, payouts, lost>>
    BY DEF ledgerOf
<1>1. /\ DesksFit' /\ desks' \in [Desks -> Desk]
      /\ \A e \in Desks : desks'[e] = IF e = d THEN Free ELSE desks[e]
    BY <1>0, FreeDesk, DesksPart DEF Leaves
<1>2. /\ loans' \in [Loans -> Loan] /\ LoansFit' /\ BookFits'
      /\ \A m \in Loans : loans'[m] = IF m = l THEN loan ELSE loans[m]
    BY <1>0, LoansPart
<1>3. AssetsFit'
    <2>1. loan.status \in {"NONE", "PENDING"} => loans[l].status \in {"NONE", "PENDING"}
        OBVIOUS
    <2> QED BY <2>1, AssetsPart
<1>4. MoneyFits'
    BY <1>0, <1>1, FreeDesk, MoneyPart
<1>5. LoanTypes'
    BY <1>0, <1>1, <1>2 DEF OfficeInv, LoanTypes
<1>6. (~crossed => Uncrossed)'
    <2>1. \A e \in Desks : desks'[e] = desks[e] \/ desks'[e].at \notin {"create", "grant", "refuse"}
        BY <1>1, FreeDesk
    <2>2. \A m \in Loans :
              /\ loans'[m].status = "PENDING" => loans[m].status = "PENDING"
              /\ loans'[m].category = loans[m].category
              /\ loans'[m].status \notin {"NONE", "DELETED"} =>
                    loans[m].status \notin {"NONE", "DELETED"} \/ loans[m].category = "PERSONAL"
        BY <1>2 DEF Exists
    <2> QED BY <2>1, <2>2, UncrossedPart
<1>7. DecidedAreThere'
    BY <1>1, FreeDesk, DecidedPart DEF Deciding
<1> QED BY <1>1, <1>2, <1>3, <1>4, <1>5, <1>6, <1>7 DEF OfficeInv

\* A loan that staff or the customer asked for in cash is made.
LEMMA CashLoanMade ==
    ASSUME OfficeInv, NEW d \in Desks, CreateCashLoan(d)
    PROVE  OfficeInv'
<1>1. PICK l \in Loans :
          /\ loans[l] = Unused
          /\ loans' = [loans EXCEPT ![l] = NewLoan("PENDING", desks[d].type, "PERSONAL")]
          /\ IF desks[d].own THEN Leaves(d)
             ELSE desks' = [desks EXCEPT ![d].at = "approving", ![d].loan = l]
    BY DEF CreateCashLoan
<1> DEFINE loan == NewLoan("PENDING", desks[d].type, "PERSONAL")
           desk == IF desks[d].own THEN Free ELSE [desks[d] EXCEPT !.at = "approving", !.loan = l]
<1>2. /\ UNCHANGED <<assets, advances, obligation, borrowed, payouts, lost, crossed>>
      /\ desks[d].at = "create" /\ desks[d].what = "cash"
    BY DEF CreateCashLoan, ledgerOf
<1>3. desks[d] \in Desk /\ DeskFits(desks[d], advances) /\ desks \in [Desks -> Desk]
    BY OfficeFacts DEF LoanTypes
<1>4. /\ loan \in Loan /\ loan.status = "PENDING" /\ loan.category = "PERSONAL"
      /\ loan.repayable = 0 /\ loan.repaid = FALSE
    <2>1. desks[d].type \in {"New", "Topup"}
        BY <1>3 DEF Desk
    <2> QED BY <2>1, NewLoanFacts
<1>5. /\ desk \in Desk /\ desk.at \in {"idle", "approving"} /\ DeskFits(desk, advances)
      /\ desks' = [desks EXCEPT ![d] = desk]
    <2>1. CASE desks[d].own
        BY <1>1, <2>1, FreeDesk DEF Leaves
    <2>2. CASE ~desks[d].own
        <3>1. /\ desk \in Desk /\ desk.at = "approving" /\ desk.loan = l
              /\ desk.paid = desks[d].paid /\ desk.blind = desks[d].blind
            BY <1>3, <2>2 DEF Desk
        <3>2. DeskFits(desk, advances)
            BY <1>3, <3>1 DEF DeskFits
        <3>3. desks' = [desks EXCEPT ![d] = desk]
            BY <1>1, <1>3, <2>2
        <3> QED BY <3>1, <3>2, <3>3
    <2> QED BY <2>1, <2>2
<1>6. loans' = [loans EXCEPT ![l] = loan]
    BY <1>1
<1>7. /\ loans[l].status = "NONE" /\ loans[l].category = "PERSONAL" /\ loans[l].repayable = 0
      /\ loans[l].repaid = FALSE
    BY <1>1, UnusedFacts
<1> HIDE DEF loan, desk
<1>8. l \notin advances
    BY <1>7, OfficeFacts DEF LoanFits
<1>9. /\ DesksFit' /\ desks' \in [Desks -> Desk]
      /\ \A e \in Desks : desks'[e] = IF e = d THEN desk ELSE desks[e]
    BY <1>2, <1>5, DesksPart
<1>10. /\ loans' \in [Loans -> Loan] /\ LoansFit' /\ BookFits'
       /\ \A m \in Loans : loans'[m] = IF m = l THEN loan ELSE loans[m]
    BY <1>2, <1>4, <1>6, <1>7, <1>8, LoansPart
<1>11. AssetsFit'
    BY <1>2, <1>4, <1>6, <1>7, AssetsPart
<1>12. MoneyFits'
    BY <1>2, <1>5, <1>9, MoneyPart
<1>13. DecidedAreThere'
    BY <1>2, <1>5, <1>9, DecidedPart DEF Deciding
<1>14. LoanTypes'
    BY <1>2, <1>9, <1>10 DEF OfficeInv, LoanTypes
<1>15. ASSUME ~crossed' PROVE Uncrossed'
    <2>1. Uncrossed
        BY <1>2, <1>15 DEF OfficeInv
    <2>2. With({"PENDING"}) = {}
        BY <1>2, <2>1 DEF Uncrossed, HasPending
    <2>3. With({"PENDING"})' = {l} /\ InReview' = InReview
        <3>1. \A m \in Loans : loans'[m].status = "PENDING" <=> m = l
            BY <1>4, <1>10, <2>2 DEF With
        <3> QED BY <1>2, <3>1 DEF With, InReview
    <2>4. \A e \in Desks : desks'[e].at # "create"
        BY <1>2, <1>5, <1>9, <2>1 DEF Uncrossed
    <2>5. \A e \in Desks : Deciding(desks'[e]) => desks'[e] = desks[e]
        BY <1>5, <1>9 DEF Deciding
    <2>6. \A m \in Loans : loans'[m].category = "ASSET_PURCHASE" /\ Exists(m)' =>
              \E a \in Assets : assets'[a].loan = m
        BY <1>2, <1>4, <1>10, <2>1 DEF Uncrossed, Exists
    <2> QED BY <1>2, <2>1, <2>3, <2>4, <2>5, <2>6 DEF Uncrossed
<1> QED BY <1>9, <1>10, <1>11, <1>12, <1>13, <1>14, <1>15 DEF OfficeInv

\* A commodity moves: the loans do not, but for one that is made for it.
LEMMA AssetMoves ==
    ASSUME OfficeInv, NEW d \in Desks, desks[d].at # "count", Leaves(d),
           NEW a \in Assets, NEW asset \in Asset, assets' = [assets EXCEPT ![a] = asset],
           asset.there, UNCHANGED <<ledgerOf, crossed>>,
           loans' \in [Loans -> Loan], LoansFit', BookFits', AssetsFit',
           ~crossed => Uncrossed'
    PROVE  OfficeInv'
<1>0. UNCHANGED <<advances, obligation, borrowed, payouts, lost>>
    BY DEF ledgerOf
<1>1. /\ DesksFit' /\ desks' \in [Desks -> Desk]
      /\ \A e \in Desks : desks'[e] = IF e = d THEN Free ELSE desks[e]
    BY <1>0, FreeDesk, DesksPart DEF Leaves
<1>2. assets' \in [Assets -> Asset] /\ \A b \in Assets : assets[b].there => assets'[b].there
    BY OfficeFacts DEF LoanTypes
<1>3. MoneyFits'
    BY <1>0, <1>1, FreeDesk, MoneyPart
<1>4. DecidedAreThere'
    BY <1>1, <1>2, FreeDesk, DecidedPart DEF Deciding
<1>5. LoanTypes'
    BY <1>0, <1>1, <1>2 DEF OfficeInv, LoanTypes
<1> QED BY <1>1, <1>3, <1>4, <1>5 DEF OfficeInv

\* The loans' part of the invariant does not look at commodities.
LEMMA LoansStay ==
    ASSUME OfficeInv, UNCHANGED <<loans, ledgerOf>>
    PROVE  loans' \in [Loans -> Loan] /\ LoansFit' /\ BookFits'
BY DEF OfficeInv, LoanTypes, ledgerOf, LoansFit, BookFits, OwedByAll

LEMMA AssetRequested ==
    ASSUME OfficeInv, NEW d \in Desks, CreateAssetRequest(d)
    PROVE  OfficeInv'
<1>1. PICK a \in Assets :
          /\ ~assets[a].there
          /\ assets' = [assets EXCEPT ![a].there = TRUE, ![a].inReview = TRUE,
                                      ![a].type = desks[d].type]
    BY DEF CreateAssetRequest
<1> DEFINE asset == [assets[a] EXCEPT !.there = TRUE, !.inReview = TRUE, !.type = desks[d].type]
<1>2. /\ desks[d].at = "create" /\ desks[d].what = "asset" /\ Leaves(d)
      /\ UNCHANGED <<loans, ledgerOf, crossed>>
    BY DEF CreateAssetRequest
<1>3. /\ desks[d].type \in {"New", "Topup"}
      /\ assets \in [Assets -> Asset] /\ desks \in [Desks -> Desk]
    BY OfficeFacts DEF Desk, LoanTypes
<1>4. assets[a] = NoAsset
    BY <1>1, OfficeFacts DEF AssetFits
<1>5. /\ asset \in Asset /\ asset.there /\ asset.inReview /\ asset.loan = NoLoan /\ asset.made = 0
    BY <1>3, <1>4, NoAssetFacts DEF Asset
<1>6. assets' = [assets EXCEPT ![a] = asset]
    BY <1>1, <1>3
<1> HIDE DEF asset
<1>7. \A b \in Assets : assets'[b] = IF b = a THEN asset ELSE assets[b]
    BY <1>3, <1>6
<1>8. AssetsFit'
    <2>1. AssetFits(asset, loans)
        BY <1>5 DEF AssetFits
    <2>2. \A b \in Assets : AssetFits(assets[b], loans)
        BY OfficeFacts
    <2>3. loans' = loans
        BY <1>2
    <2> QED BY <1>7, <2>1, <2>2, <2>3 DEF AssetsFit
<1>9. ASSUME ~crossed PROVE Uncrossed'
    <2>1. Uncrossed
        BY <1>9 DEF OfficeInv
    <2>2. With({"PENDING"}) = {} /\ InReview = {}
        BY <1>2, <2>1 DEF Uncrossed, HasPending
    <2>3. With({"PENDING"})' = {} /\ InReview' = {a}
        BY <1>2, <1>5, <1>7, <2>2 DEF With, InReview
    <2>4. \A e \in Desks : desks'[e] = IF e = d THEN Free ELSE desks[e]
        BY <1>2, <1>3 DEF Leaves
    <2>5. \A e \in Desks : desks'[e].at # "create" /\ ~Deciding(desks'[e])
        <3>1. \A e \in Desks : Deciding(desks[e]) => desks[e].asset \in InReview
            BY <2>1, OfficeFacts DEF Uncrossed, InReview, DeskFits, Deciding
        <3> QED BY <1>2, <2>1, <2>2, <2>4, <3>1, FreeDesk DEF Uncrossed, Deciding
    <2>6. \A b \in Assets : assets'[b].made <= 1
        BY <1>5, <1>7, <2>1 DEF Uncrossed
    <2>7. \A b \in Assets : assets'[b].loan = assets[b].loan
        BY <1>4, <1>5, <1>7, NoAssetFacts
    <2>8. \A m \in Loans : loans'[m].category = "ASSET_PURCHASE" /\ Exists(m)' =>
              \E b \in Assets : assets'[b].loan = m
        BY <1>2, <2>1, <2>7 DEF Uncrossed, Exists
    <2> QED BY <2>3, <2>5, <2>6, <2>8 DEF Uncrossed
<1> QED BY <1>2, <1>5, <1>6, <1>8, <1>9, LoansStay, AssetMoves

\* What a decision on a commodity finds: the request, and nobody else's decision on it.
LEMMA DecisionFinds ==
    ASSUME OfficeInv, NEW d \in Desks, Deciding(desks[d])
    PROVE  LET a == desks[d].asset IN
           /\ a \in Assets /\ assets[a] \in Asset /\ assets[a].there /\ desks[d].at # "count"
           /\ ~crossed => /\ assets[a].inReview /\ assets[a].loan = NoLoan /\ assets[a].made = 0
                          /\ \A e \in Desks \ {d} : Deciding(desks[e]) => desks[e].asset # a
<1> DEFINE a == desks[d].asset
<1>1. a \in Assets /\ desks[d].at # "count"
    BY OfficeFacts DEF DeskFits, Deciding
<1>2. assets[a] \in Asset /\ AssetFits(assets[a], loans)
    BY <1>1, OfficeFacts
<1>3. assets[a].there
    BY DEF OfficeInv, DecidedAreThere
<1>4. ~crossed => /\ assets[a].inReview
                  /\ \A e \in Desks \ {d} : Deciding(desks[e]) => desks[e].asset # a
    BY DEF OfficeInv, Uncrossed
<1> QED BY <1>1, <1>2, <1>3, <1>4 DEF AssetFits

\* A decision on a commodity leaves others to decide on what is in review still.
LEMMA DecisionLeaves ==
    ASSUME OfficeInv, ~crossed, NEW d \in Desks, Deciding(desks[d]), Leaves(d),
           LET a == desks[d].asset IN
              \A b \in Assets : /\ b = a => ~assets'[b].inReview /\ assets'[b].made <= 1
                                /\ b # a => assets'[b] = assets[b],
           With({"PENDING"})' = With({"PENDING"}),
           \A l \in Loans : loans'[l].category = "ASSET_PURCHASE" /\ Exists(l)' =>
              \E a \in Assets : assets'[a].loan = l
    PROVE  Uncrossed'
<1> DEFINE a == desks[d].asset
<1>1. a \in Assets /\ \A e \in Desks \ {d} : Deciding(desks[e]) => desks[e].asset # a
    BY DecisionFinds
<1>2. Uncrossed
    BY DEF OfficeInv
<1>3. \A e \in Desks : desks'[e] = IF e = d THEN Free ELSE desks[e]
    BY OfficeFacts DEF LoanTypes, Leaves
<1>4. InReview' \subseteq InReview
    BY DEF InReview
<1>5. \A w : HasPending(w)' => HasPending(w)
    BY <1>4 DEF HasPending
<1>6. \A e \in Desks : desks'[e].at = "create" => ~(HasPending(desks[e].what))'
    BY <1>2, <1>3, <1>5, FreeDesk DEF Uncrossed
<1>7. \A e \in Desks : Deciding(desks'[e]) => e # d /\ desks'[e] = desks[e]
    BY <1>3, FreeDesk DEF Deciding
<1>8. \A e \in Desks : Deciding(desks'[e]) => assets'[desks'[e].asset].inReview
    <2> TAKE e \in Desks
    <2> HAVE Deciding(desks'[e])
    <2>1. desks'[e] = desks[e] /\ e # d /\ Deciding(desks[e])
        BY <1>7
    <2>2. desks[e].asset \in Assets /\ desks[e].asset # a /\ assets[desks[e].asset].inReview
        BY <1>1, <1>2, <2>1, OfficeFacts DEF Uncrossed, DeskFits, Deciding
    <2> QED BY <2>1, <2>2
<1>9. \A b \in Assets : assets'[b].made <= 1
    BY <1>2 DEF Uncrossed
<1>10. \A e, f \in Desks : desks'[e].at = "create" /\ desks'[f].at = "create" => e = f
    BY <1>2, <1>3, FreeDesk DEF Uncrossed
<1>11. \A e, f \in Desks :
          Deciding(desks'[e]) /\ Deciding(desks'[f]) /\ desks'[e].asset = desks'[f].asset => e = f
    BY <1>2, <1>7 DEF Uncrossed
<1>12. (\A l, m \in With({"PENDING"})' : l = m) /\ (\A b, c \in InReview' : b = c)
    BY <1>2, <1>4 DEF Uncrossed
<1> QED BY <1>6, <1>8, <1>9, <1>10, <1>11, <1>12 DEF Uncrossed

LEMMA CommodityRejected ==
    ASSUME OfficeInv, NEW d \in Desks, RejectCommodityLoan(d)
    PROVE  OfficeInv'
<1> DEFINE a == desks[d].asset
           asset == [assets[a] EXCEPT !.inReview = FALSE, !.rejected = TRUE]
<1>1. Deciding(desks[d]) /\ Leaves(d) /\ UNCHANGED <<loans, ledgerOf, crossed>>
    BY DEF RejectCommodityLoan, Deciding
<1>2. /\ a \in Assets /\ assets[a] \in Asset /\ assets[a].there /\ desks[d].at # "count"
      /\ ~crossed => assets[a].made = 0
    BY <1>1, DecisionFinds
<1>3. assets \in [Assets -> Asset] /\ AssetFits(assets[a], loans)
    BY <1>2, OfficeFacts DEF LoanTypes
<1>4. assets' = [assets EXCEPT ![a] = asset]
    BY <1>3 DEF RejectCommodityLoan
<1>5. /\ asset \in Asset /\ asset.there /\ ~asset.inReview /\ asset.rejected
      /\ asset.loan = assets[a].loan /\ asset.made = assets[a].made
    BY <1>2 DEF Asset
<1> HIDE DEF asset, a
<1>6. \A b \in Assets : assets'[b] = IF b = a THEN asset ELSE assets[b]
    BY <1>3, <1>4
<1>7. AssetsFit'
    <2>1. AssetFits(asset, loans)
        BY <1>3, <1>5 DEF AssetFits
    <2>2. \A b \in Assets : AssetFits(assets[b], loans)
        BY OfficeFacts
    <2>3. loans' = loans
        BY <1>1
    <2> QED BY <1>6, <2>1, <2>2, <2>3 DEF AssetsFit
<1>8. ASSUME ~crossed PROVE Uncrossed'
    <2>1. With({"PENDING"})' = With({"PENDING"})
        BY <1>1 DEF With
    <2>2. \A b \in Assets : /\ b = a => ~assets'[b].inReview /\ assets'[b].made <= 1
                            /\ b # a => assets'[b] = assets[b]
        BY <1>2, <1>5, <1>6, <1>8
    <2>3. \A b \in Assets : assets'[b].loan = assets[b].loan
        BY <1>5, <1>6
    <2>4. \A l \in Loans : loans'[l].category = "ASSET_PURCHASE" /\ Exists(l)' =>
              \E b \in Assets : assets'[b].loan = l
        BY <1>1, <1>8, <2>3 DEF OfficeInv, Uncrossed, Exists
    <2> QED BY <1>1, <1>8, <2>1, <2>2, <2>4, DecisionLeaves DEF a
<1> QED BY <1>1, <1>2, <1>4, <1>5, <1>7, <1>8, LoansStay, AssetMoves

LEMMA CommodityApproved ==
    ASSUME OfficeInv, NEW d \in Desks, ApproveCommodityLoan(d)
    PROVE  OfficeInv'
<1> DEFINE a == desks[d].asset
<1>1. Deciding(desks[d]) /\ Leaves(d) /\ UNCHANGED <<ledgerOf, crossed>>
    BY DEF ApproveCommodityLoan, Deciding
<1>2. PICK l \in Loans :
          /\ loans[l] = Unused
          /\ loans' = [loans EXCEPT ![l] = NewLoan("APPROVED", assets[a].type, "ASSET_PURCHASE")]
          /\ assets' = [assets EXCEPT ![a].inReview = FALSE, ![a].loan = l, ![a].made = @ + 1]
    BY DEF ApproveCommodityLoan
<1> DEFINE asset == [assets[a] EXCEPT !.inReview = FALSE, !.loan = l, !.made = @ + 1]
           loan == NewLoan("APPROVED", assets[a].type, "ASSET_PURCHASE")
<1>3. /\ a \in Assets /\ assets[a] \in Asset /\ assets[a].there /\ desks[d].at # "count"
      /\ ~crossed => assets[a].made = 0 /\ assets[a].loan = NoLoan
    BY <1>1, DecisionFinds
<1>4. assets \in [Assets -> Asset]
    BY OfficeFacts DEF LoanTypes
<1>5. assets' = [assets EXCEPT ![a] = asset] /\ loans' = [loans EXCEPT ![l] = loan]
    BY <1>2, <1>4
<1>6. /\ asset \in Asset /\ asset.there /\ ~asset.inReview /\ asset.loan = l
      /\ asset.made = assets[a].made + 1
    <2> DEFINE made == assets[a].made + 1
    <2>1. made \in Nat
        BY <1>3 DEF Asset
    <2>2. asset = [assets[a] EXCEPT !.inReview = FALSE, !.loan = l, !.made = made]
        BY <1>3 DEF Asset
    <2> HIDE DEF made, asset
    <2>3. asset \in Asset /\ asset.there /\ ~asset.inReview /\ asset.loan = l /\ asset.made = made
        BY <1>3, <2>1, <2>2 DEF Asset
    <2> QED BY <2>3 DEF made
<1>7. /\ loan \in Loan /\ loan.status = "APPROVED" /\ loan.category = "ASSET_PURCHASE"
      /\ loan.repayable = 0 /\ loan.repaid = FALSE
    <2>1. assets[a].type \in {"New", "Topup"}
        BY <1>3 DEF Asset
    <2> QED BY <2>1, NewLoanFacts
<1>8. /\ loans[l].status = "NONE" /\ loans[l].repayable = 0 /\ loans[l].repaid = FALSE
    BY <1>2, UnusedFacts
<1> HIDE DEF asset, a, loan
<1>9. \A b \in Assets : assets'[b] = IF b = a THEN asset ELSE assets[b]
    BY <1>4, <1>5
<1>10. /\ loans' \in [Loans -> Loan] /\ LoansFit' /\ BookFits'
       /\ \A m \in Loans : loans'[m] = IF m = l THEN loan ELSE loans[m]
    <2>1. UNCHANGED <<advances, payouts, obligation>>
        BY <1>1 DEF ledgerOf
    <2> QED BY <1>5, <1>7, <1>8, <2>1, LoansPart
<1>11. AssetsFit'
    <2>1. l # NoLoan
        BY ApplicationConstants
    <2>2. AssetFits(asset, loans')
        BY <1>6, <1>7, <1>10, <2>1 DEF AssetFits
    <2>3. ASSUME NEW b \in Assets, b # a PROVE AssetFits(assets[b], loans')
        <3>1. AssetFits(assets[b], loans) /\ assets[b].loan \in Loans \cup {NoLoan}
            BY OfficeFacts DEF Asset
        <3>2. assets[b].loan # NoLoan => assets[b].loan # l
            BY <1>8, <3>1 DEF AssetFits
        <3> QED BY <1>10, <3>1, <3>2 DEF AssetFits
    <2> QED BY <1>9, <2>2, <2>3 DEF AssetsFit
<1>12. ASSUME ~crossed PROVE Uncrossed'
    <2>1. With({"PENDING"})' = With({"PENDING"})
        <3>1. \A m \in Loans : loans'[m].status = "PENDING" <=> loans[m].status = "PENDING"
            BY <1>7, <1>8, <1>10
        <3> QED BY <3>1 DEF With
    <2>2. \A b \in Assets : /\ b = a => ~assets'[b].inReview /\ assets'[b].made <= 1
                            /\ b # a => assets'[b] = assets[b]
        BY <1>3, <1>6, <1>9, <1>12
    <2>3. ASSUME NEW m \in Loans, loans'[m].category = "ASSET_PURCHASE", Exists(m)'
          PROVE  \E b \in Assets : assets'[b].loan = m
        <3>1. CASE m = l
            BY <1>3, <1>6, <1>9, <3>1
        <3>2. CASE m # l
            <4>1. loans[m].category = "ASSET_PURCHASE" /\ Exists(m)
                BY <1>10, <2>3, <3>2 DEF Exists
            <4>2. PICK b \in Assets : assets[b].loan = m
                BY <1>12, <4>1 DEF OfficeInv, Uncrossed
            <4>3. m # NoLoan
                BY ApplicationConstants
            <4>4. b # a
                BY <1>3, <1>12, <4>2, <4>3
            <4> QED BY <1>9, <4>2, <4>4
        <3> QED BY <3>1, <3>2
    <2> QED BY <1>1, <1>12, <2>1, <2>2, <2>3, DecisionLeaves DEF a
<1> QED BY <1>1, <1>3, <1>5, <1>6, <1>10, <1>11, <1>12, AssetMoves

\* A payout: the loan gets its advance, the obligation its debt, and the call has it to count.
LEMMA PaidOutOnce ==
    ASSUME OfficeInv, NEW d \in Desks, PayOut(d)
    PROVE  OfficeInv'
<1> DEFINE l == desks[d].loan
           due == loans[l].amount + Interest
           loan == [loans[l] EXCEPT !.status = "DISBURSED", !.repayable = due]
           payout == [times |-> payouts[l].times + 1, amount |-> loans[l].amount,
                      blind |-> payouts[l].blind \/ desks[d].blind]
           desk == [desks[d] EXCEPT !.at = "count"]
           sum == obligation.balance + due
<1>1. desks[d].at = "pay" /\ UNCHANGED <<assets, borrowed, lost, crossed>>
    BY DEF PayOut
<1>2. /\ desks[d] \in Desk /\ DeskFits(desks[d], advances) /\ desks \in [Desks -> Desk]
      /\ loans \in [Loans -> Loan]
    BY OfficeFacts DEF LoanTypes
<1>3. l \in Loans /\ ~desks[d].blind
    BY <1>1, <1>2 DEF DeskFits
<1>4. CASE ~Payable(l)
    <2>1. Leaves(d) /\ UNCHANGED <<loans, assets, ledgerOf, crossed>>
        BY <1>1, <1>4 DEF PayOut, ledgerOf
    <2> QED BY <1>1, <2>1, FreeDesk, DeskGoesOn DEF Leaves
<1>5. CASE Payable(l)
    <2>1. /\ loans' = [loans EXCEPT ![l].status = "DISBURSED", ![l].repayable = due]
          /\ advances' = advances \cup {l}
          /\ obligation' = [open |-> TRUE, balance |-> sum]
          /\ payouts' = [payouts EXCEPT ![l] =
                [times |-> @.times + 1, amount |-> loans[l].amount,
                 blind |-> @.blind \/ desks[d].blind]]
          /\ desks' = [desks EXCEPT ![d].at = "count"]
        BY <1>5 DEF PayOut, TotalPayment
    <2>2. /\ loans[l] \in Loan /\ LoanFits(loans[l], payouts[l], l \in advances)
          /\ payouts[l] \in [times : Nat, amount : Nat, blind : BOOLEAN]
          /\ payouts \in [Loans -> [times : Nat, amount : Nat, blind : BOOLEAN]]
        BY <1>3, OfficeFacts DEF LoanTypes
    <2>3. loans[l].status = "APPROVED" /\ l \notin advances
        BY <1>5 DEF Payable
    <2>4. /\ loans[l].repayable = 0 /\ loans[l].repaid = FALSE
          /\ payouts[l].times = 0 /\ payouts[l].amount = 0 /\ payouts[l].blind = FALSE
        BY <2>2, <2>3 DEF LoanFits, Loan, Requested, Interest
    <2>5. due \in 1..(Requested + 1 + Interest) /\ loans[l].amount \in Nat
        BY <2>2 DEF Loan, Requested, Interest
    <2>6. /\ loan \in Loan /\ loan.status = "DISBURSED" /\ loan.repayable = due
          /\ loan.repaid = FALSE /\ loan.category = loans[l].category
        <3>1. due \in 0..(Requested + 1 + Interest)
            BY <2>5 DEF Requested, Interest
        <3> HIDE DEF due
        <3> QED BY <2>2, <2>4, <3>1 DEF Loan
    <2>7. /\ payout \in [times : Nat, amount : Nat, blind : BOOLEAN] /\ payout.times = 1
          /\ payout.amount = loans[l].amount /\ payout.blind = FALSE
        <3> DEFINE times == payouts[l].times + 1
                   blind == payouts[l].blind \/ desks[d].blind
        <3>1. times = 1
            BY <2>4
        <3>2. ~blind /\ blind \in BOOLEAN
            BY <1>3, <2>4
        <3>3. payout = [times |-> times, amount |-> loans[l].amount, blind |-> blind]
            OBVIOUS
        <3> HIDE DEF times, blind, payout
        <3> QED BY <2>5, <3>1, <3>2, <3>3
    <2>8. /\ desk \in Desk /\ desk.at = "count" /\ desk.loan = l
          /\ desk.paid = desks[d].paid /\ desk.blind = desks[d].blind
        BY <1>2 DEF Desk
    <2>9. obligation.balance \in Nat /\ sum \in Nat /\ sum > 0
        <3>1. obligation.balance \in Nat
            BY DEF OfficeInv, LoanTypes
        <3> HIDE DEF due
        <3> QED BY <2>5, <3>1 DEF Requested, Interest
    <2>10. loans' = [loans EXCEPT ![l] = loan] /\ payouts' = [payouts EXCEPT ![l] = payout]
           /\ desks' = [desks EXCEPT ![d] = desk]
        BY <1>2, <1>3, <2>1, <2>2
    <2>11. obligation' = [open |-> TRUE, balance |-> sum] /\ advances' = advances \cup {l}
        BY <2>1
    <2> HIDE DEF loan, payout, desk, sum, due, l
    <2>12. /\ DesksFit' /\ desks' \in [Desks -> Desk]
           /\ \A e \in Desks : desks'[e] = IF e = d THEN desk ELSE desks[e]
        <3>1. DeskFits(desk, advances')
            BY <1>2, <1>3, <2>8, <2>11 DEF DeskFits
        <3> QED BY <2>8, <2>10, <2>11, <3>1, DesksPart
    <2>13. /\ loans' \in [Loans -> Loan]
           /\ \A m \in Loans : loans'[m] = IF m = l THEN loan ELSE loans[m]
        BY <1>2, <1>3, <2>6, <2>10
    <2>14. /\ payouts' \in [Loans -> [times : Nat, amount : Nat, blind : BOOLEAN]]
           /\ \A m \in Loans : payouts'[m] = IF m = l THEN payout ELSE payouts[m]
        BY <1>3, <2>2, <2>7, <2>10
    <2>15. LoansFit'
        <3>1. LoanFits(loan, payout, l \in advances')
            <4>1. l \in advances' /\ loan.repayable > 0
                BY <2>5, <2>6, <2>11
            <4> QED BY <2>6, <2>7, <4>1 DEF LoanFits
        <3>2. ASSUME NEW m \in Loans, m # l PROVE LoanFits(loans[m], payouts[m], m \in advances')
            <4>1. LoanFits(loans[m], payouts[m], m \in advances)
                BY OfficeFacts
            <4>2. m \in advances' <=> m \in advances
                BY <2>11, <3>2
            <4> QED BY <4>1, <4>2 DEF LoanFits
        <3> QED BY <2>13, <2>14, <3>1, <3>2 DEF LoansFit
    <2>16. BookFits'
        <3>1. Owes(loan) = due /\ Owes(loans[l]) = 0
            BY <2>4, <2>6 DEF Owes
        <3>2. obligation' \in [open : BOOLEAN, balance : Nat] /\ obligation'.open = TRUE
              /\ obligation'.balance = sum
            BY <2>9, <2>11
        <3>3. obligation'.balance + Owes(loans[l]) = obligation.balance + Owes(loan)
            BY <2>9, <3>1, <3>2 DEF sum
        <3> QED BY <1>3, <2>6, <2>9, <2>10, <3>2, <3>3, BooksPart
    <2>17. AssetsFit'
        BY <1>1, <1>3, <2>6, <2>10, AssetsPart
    <2>18. MoneyFits'
        <3> DEFINE before == [m \in Loans |-> payouts[m].amount]
                   after  == [m \in Loans |-> payouts'[m].amount]
                   waited == [e \in Desks |-> AboutToCount(desks[e], payouts)]
                   waits  == [e \in Desks |-> AboutToCount(desks'[e], payouts')]
                   amount == loans[l].amount
        <3>1. /\ DOMAIN before = Loans /\ DOMAIN after = Loans
              /\ before[l] = 0 /\ after[l] = amount
              /\ \A m \in Loans : before[m] \in Nat /\ after[m] \in Nat
              /\ \A m \in Loans \ {l} : after[m] = before[m]
            BY <1>3, <2>2, <2>4, <2>5, <2>7, <2>14
        <3>2. ASSUME NEW e \in Desks
              PROVE  /\ AboutToCount(desks[e], payouts) \in Nat
                     /\ e # d => AboutToCount(desks'[e], payouts') = AboutToCount(desks[e], payouts)
            <4>1. desks[e].at = "count" => desks[e].loan \in Loans /\ desks[e].loan # l
                BY <2>3, OfficeFacts DEF DeskFits
            <4> QED BY <2>2, <2>12, <2>14, <4>1 DEF AboutToCount
        <3>3. AboutToCount(desks[d], payouts) = 0 /\ AboutToCount(desks'[d], payouts') = amount
            BY <1>1, <1>3, <2>7, <2>8, <2>12, <2>14 DEF AboutToCount
        <3>4. /\ DOMAIN waited = Desks /\ DOMAIN waits = Desks
              /\ waited[d] = 0 /\ waits[d] = amount
              /\ \A e \in Desks : waited[e] \in Nat /\ waits[e] \in Nat
              /\ \A e \in Desks \ {d} : waits[e] = waited[e]
            BY <2>5, <3>2, <3>3
        <3>5. amount \in Nat
            BY <2>5
        <3> HIDE DEF before, after, waited, waits, amount
        <3>6. SumFunction(after) + before[l] = SumFunction(before) + after[l]
            BY <1>3, <3>1, ApplicationConstants, SumChange
        <3>7. SumFunction(waits) + waited[d] = SumFunction(waited) + waits[d]
            BY <3>4, ApplicationConstants, SumChange
        <3>8. /\ SumFunction(after) \in Nat /\ SumFunction(before) \in Nat
              /\ SumFunction(waits) \in Nat /\ SumFunction(waited) \in Nat
            BY <3>1, <3>4, ApplicationConstants, FiniteSumNat
        <3>9. /\ SumFunction(after) = SumFunction(before) + amount
              /\ SumFunction(waits) = SumFunction(waited) + amount
            BY <3>1, <3>4, <3>5, <3>6, <3>7, <3>8
        <3>10. /\ borrowed \in Nat /\ lost \in Nat
               /\ borrowed + lost + SumFunction(waited) = SumFunction(before)
            BY DEF OfficeInv, LoanTypes, MoneyFits, InCounting, PaidOut, waited, before
        <3>11. borrowed + lost + SumFunction(waits) = SumFunction(after)
            BY <3>5, <3>8, <3>9, <3>10
        <3> QED BY <1>1, <3>11 DEF MoneyFits, InCounting, PaidOut, waits, after
    <2>19. (~crossed => Uncrossed)'
        <3>1. \A e \in Desks :
                 desks'[e] = desks[e] \/ desks'[e].at \notin {"create", "grant", "refuse"}
            BY <2>8, <2>12
        <3>2. \A m \in Loans :
                 /\ loans'[m].status = "PENDING" => loans[m].status = "PENDING"
                 /\ loans'[m].category = loans[m].category
                 /\ loans'[m].status \notin {"NONE", "DELETED"} =>
                       loans[m].status \notin {"NONE", "DELETED"} \/ loans[m].category = "PERSONAL"
            BY <2>3, <2>6, <2>13
        <3> QED BY <1>1, <3>1, <3>2, UncrossedPart
    <2>20. DecidedAreThere'
        <3>1. \A e \in Desks : desks'[e] = desks[e] \/ ~Deciding(desks'[e])
            BY <2>8, <2>12 DEF Deciding
        <3>2. \A a \in Assets : assets[a].there => assets'[a].there
            BY <1>1
        <3> QED BY <3>1, <3>2, DecidedPart
    <2>21. LoanTypes'
        <3>1. obligation' \in [open : BOOLEAN, balance : Nat] /\ advances' \subseteq Loans
            BY <1>3, <2>9, <2>11 DEF OfficeInv, LoanTypes
        <3> QED BY <1>1, <2>12, <2>13, <2>14, <3>1 DEF OfficeInv, LoanTypes
    <2> QED BY <2>12, <2>15, <2>16, <2>17, <2>18, <2>19, <2>20, <2>21 DEF OfficeInv
<1> QED BY <1>4, <1>5

\* A loan is repaid: what the obligation has left is what the others owe.
LEMMA RepaidLoan ==
    ASSUME OfficeInv, NEW l \in Loans, Repay(l)
    PROVE  OfficeInv'
<1> DEFINE loan == [loans[l] EXCEPT !.status = "REPAID", !.repaid = TRUE]
           left == obligation.balance - loans[l].repayable
<1>1. /\ loans[l].status = "DISBURSED"
      /\ loans' = [loans EXCEPT ![l].status = "REPAID", ![l].repaid = TRUE]
      /\ obligation' = [open |-> left > 0, balance |-> left]
      /\ UNCHANGED <<assets, advances, borrowed, payouts, lost, desks, crossed>>
    BY DEF Repay
<1>2. /\ loans[l] \in Loan /\ LoanFits(loans[l], payouts[l], l \in advances)
      /\ loans \in [Loans -> Loan] /\ obligation.balance \in Nat
    BY OfficeFacts DEF LoanTypes
<1>3. l \in advances /\ loans[l].repaid = FALSE /\ loans[l].repayable \in Nat
    BY <1>1, <1>2, OwesIsNat DEF LoanFits, Loan
<1>4. /\ loan \in Loan /\ loan.status = "REPAID" /\ loan.repayable = loans[l].repayable
      /\ loan.repaid = TRUE /\ loan.category = loans[l].category
    BY <1>2 DEF Loan
<1>5. loans' = [loans EXCEPT ![l] = loan]
    BY <1>1, <1>2
<1>6. loans[l].repayable <= obligation.balance
    <2> DEFINE owed == [m \in Loans |-> Owes(loans[m])]
    <2>1. DOMAIN owed = Loans /\ owed[l] = loans[l].repayable /\ \A m \in Loans : owed[m] \in Nat
        BY <1>3, OfficeFacts, OwesIsNat DEF Owes
    <2>2. obligation.balance = SumFunction(owed)
        BY DEF OfficeInv, BookFits, OwedByAll
    <2> HIDE DEF owed
    <2>3. owed[l] <= SumFunction(owed)
        BY <2>1, ApplicationConstants, TermAtMostSum
    <2> QED BY <2>1, <2>2, <2>3
<1>7. left \in Nat /\ (left > 0) \in BOOLEAN /\ left + loans[l].repayable = obligation.balance
    BY <1>2, <1>3, <1>6
<1> HIDE DEF loan, left
<1>8. /\ obligation' \in [open : BOOLEAN, balance : Nat] /\ obligation'.balance = left
      /\ (obligation'.open <=> obligation'.balance > 0)
    BY <1>1, <1>7
<1>9. loans' \in [Loans -> Loan] /\ \A m \in Loans : loans'[m] = IF m = l THEN loan ELSE loans[m]
    BY <1>2, <1>4, <1>5
<1>10. LoansFit'
    <2>1. LoanFits(loan, payouts[l], l \in advances)
        BY <1>2, <1>3, <1>4 DEF LoanFits
    <2> QED BY <1>1, <1>9, <2>1, OfficeFacts DEF LoansFit
<1>11. BookFits'
    <2>1. Owes(loan) = 0 /\ Owes(loans[l]) = loans[l].repayable
        BY <1>3, <1>4 DEF Owes
    <2>2. obligation'.balance + Owes(loans[l]) = obligation.balance + Owes(loan)
        BY <1>2, <1>7, <1>8, <2>1
    <2> QED BY <1>4, <1>5, <1>8, <2>2, BooksPart
<1>12. AssetsFit'
    BY <1>1, <1>4, <1>5, AssetsPart
<1>13. DesksFit' /\ DecidedAreThere' /\ MoneyFits'
    BY <1>1 DEF OfficeInv, DesksFit, DecidedAreThere, MoneyFits, InCounting, PaidOut
<1>14. (~crossed => Uncrossed)'
    <2>1. \A m \in Loans :
             /\ loans'[m].status = "PENDING" => loans[m].status = "PENDING"
             /\ loans'[m].category = loans[m].category
             /\ loans'[m].status \notin {"NONE", "DELETED"} =>
                   loans[m].status \notin {"NONE", "DELETED"} \/ loans[m].category = "PERSONAL"
        BY <1>1, <1>4, <1>9
    <2>2. \A e \in Desks : desks'[e] = desks[e] \/ desks'[e].at \notin {"create", "grant", "refuse"}
        BY <1>1
    <2> QED BY <1>1, <2>1, <2>2, UncrossedPart
<1>15. LoanTypes'
    BY <1>1, <1>8, <1>9 DEF OfficeInv, LoanTypes
<1> QED BY <1>10, <1>11, <1>12, <1>13, <1>14, <1>15 DEF OfficeInv

\* A call asks for cash or for a commodity.
LEMMA DeskAsks ==
    ASSUME OfficeInv, NEW d \in Desks, NEW what \in {"cash", "asset"}, NEW own \in BOOLEAN,
           NEW type \in {"New", "Topup"}, Asks(d, what, own, type),
           UNCHANGED <<loans, assets, ledgerOf, crossed>>
    PROVE  OfficeInv'
<1> DEFINE desk == [Free EXCEPT !.at = "ask", !.what = what, !.own = own, !.type = type]
<1>1. desks[d].at = "idle" /\ desks' = [desks EXCEPT ![d] = desk]
    BY FreeDesk DEF Asks
<1>2. desk \in Desk /\ desk.at = "ask" /\ ~desk.paid /\ ~desk.blind
    BY DEF Free, Desk
<1> HIDE DEF desk
<1>3. DeskFits(desk, advances)
    BY <1>2 DEF DeskFits
<1> QED BY <1>1, <1>2, <1>3, DeskGoesOn

\* A call takes up a loan that is not paid out.
LEMMA DeskTakes ==
    ASSUME OfficeInv, NEW d \in Desks, NEW l \in Loans, desks[d] = Free,
           NEW at \in {"update", "delete", "approve", "reject"}, Takes(d, at, l),
           loans[l].status \notin {"DISBURSED", "REPAID"},
           UNCHANGED <<loans, assets, ledgerOf, crossed>>
    PROVE  OfficeInv'
<1> DEFINE desk == [Free EXCEPT !.at = at, !.loan = l, !.paid = FALSE]
<1>1. desks[d].at = "idle" /\ desks' = [desks EXCEPT ![d] = desk]
    <2>1. (l \in With({"DISBURSED", "REPAID"})) = FALSE
        BY DEF With
    <2> QED BY <2>1, FreeDesk DEF Takes
<1>2. desk \in Desk /\ desk.at = at /\ desk.loan = l /\ ~desk.paid /\ ~desk.blind
    BY DEF Free, Desk
<1> HIDE DEF desk
<1>3. DeskFits(desk, advances)
    BY <1>2 DEF DeskFits
<1> QED BY <1>1, <1>2, <1>3, DeskGoesOn

\* Requests: the look at what waits, and the calls that give up.
LEMMA RequestChecked ==
    ASSUME OfficeInv, NEW d \in Desks, CheckRequest(d)
    PROVE  OfficeInv'
<1>0. /\ desks[d] \in Desk /\ DeskFits(desks[d], advances) /\ desks \in [Desks -> Desk]
      /\ crossed \in BOOLEAN
    BY OfficeFacts DEF LoanTypes
<1>1. desks[d].at = "ask" /\ UNCHANGED <<loans, assets, ledgerOf>>
    BY DEF CheckRequest
<1> DEFINE stops == \/ desks[d].own /\ account.status = "FLAGGED"
                    \/ HasPending(desks[d].what)
<1>2. CASE stops
    <2>1. Leaves(d) /\ UNCHANGED crossed
        BY <1>2 DEF CheckRequest
    <2> QED BY <1>1, <2>1, FreeDesk, DeskGoesOn DEF Leaves
<1>3. CASE ~stops
    <2> DEFINE topup == desks[d].what = "cash" /\ With({"DISBURSED"}) # {}
               type == IF topup THEN "Topup" ELSE desks[d].type
               desk == [desks[d] EXCEPT !.at = "create", !.type = type]
    <2>1. /\ desks' = [desks EXCEPT ![d].at = "create",
                  ![d].type = IF desks[d].what = "cash" /\ With({"DISBURSED"}) # {}
                              THEN "Topup" ELSE @]
          /\ crossed' = (crossed \/ \E e \in Desks \ {d} : desks[e].at = "create")
        BY <1>3 DEF CheckRequest
    <2>2. type \in {"New", "Topup"}
        BY <1>0 DEF Desk
    <2>3. desks' = [desks EXCEPT ![d] = desk]
        <3> HIDE DEF topup
        <3>1. desks' = [desks EXCEPT ![d].at = "create",
                  ![d].type = IF topup THEN "Topup" ELSE @]
            BY <2>1 DEF topup
        <3> QED BY <1>0, <3>1
    <2> HIDE DEF type
    <2>4. /\ desk \in Desk /\ desk.at = "create" /\ desk.what = desks[d].what
          /\ desk.paid = desks[d].paid /\ desk.blind = desks[d].blind
        BY <1>0, <2>2 DEF Desk
    <2> HIDE DEF desk
    <2>5. DeskFits(desk, advances)
        BY <1>0, <2>4 DEF DeskFits
    <2>6. ~HasPending(desk.what)
        BY <1>3, <2>4
    <2>7. crossed' \in BOOLEAN
        BY <2>1
    <2>8. ~crossed' => ~crossed /\ \A e \in Desks \ {d} : desks[e].at # "create"
        BY <2>1
    <2> QED BY <1>1, <2>3, <2>4, <2>5, <2>6, <2>7, <2>8, DeskMoves DEF Deciding
<1> QED BY <1>2, <1>3

\* Decisions on a commodity: the look at the request.
LEMMA AssetChecked ==
    ASSUME OfficeInv, NEW d \in Desks, NEW a \in Assets, NEW decision \in {"grant", "refuse"},
           CheckAsset(d, a, decision)
    PROVE  OfficeInv'
<1> DEFINE desk == [Free EXCEPT !.at = decision, !.asset = a]
<1>1. /\ desks[d].at = "idle" /\ assets[a].inReview /\ desks' = [desks EXCEPT ![d] = desk]
      /\ crossed' = (crossed \/ \E e \in Desks \ {d} : desks[e].asset = a)
      /\ UNCHANGED <<loans, assets, ledgerOf>>
    BY FreeDesk DEF CheckAsset
<1>2. desk \in Desk /\ desk.at = decision /\ desk.asset = a /\ ~desk.paid /\ ~desk.blind
    BY DEF Free, Desk
<1> HIDE DEF desk
<1>3. DeskFits(desk, advances)
    BY <1>2 DEF DeskFits
<1>4. assets[a].there
    BY <1>1, OfficeFacts DEF AssetFits
<1>5. crossed \in BOOLEAN
    BY OfficeFacts DEF LoanTypes
<1>6. crossed' \in BOOLEAN /\ (~crossed' => ~crossed /\ \A e \in Desks \ {d} : desks[e].asset # a)
    BY <1>1, <1>5
<1> QED BY <1>1, <1>2, <1>3, <1>4, <1>6, DeskMoves

\* Changes of the customer, and decisions on a loan, that arrive at whatever is there.
LEMMA ChangeArrives ==
    ASSUME OfficeInv, NEW d \in Desks,
           ApplyUpdate(d) \/ ApplyDelete(d) \/ Approve(d) \/ Reject(d)
    PROVE  OfficeInv'
<1> DEFINE l == desks[d].loan
<1>1. /\ desks[d].at \in {"update", "delete", "approve", "reject"} /\ Leaves(d)
      /\ UNCHANGED <<assets, ledgerOf, crossed>>
    BY DEF ApplyUpdate, ApplyDelete, Approve, Reject
<1>2. l \in Loans
    BY <1>1, OfficeFacts DEF DeskFits
<1>3. loans[l] \in Loan /\ loans \in [Loans -> Loan]
    BY <1>2, OfficeFacts DEF LoanTypes
<1>4. \/ loans' = loans
      \/ loans' = [loans EXCEPT ![l].amount = Requested + 1]
      \/ Exists(l) /\ loans' = [loans EXCEPT ![l].status = "APPROVED"]
      \/ Exists(l) /\ loans' = [loans EXCEPT ![l].status = "REJECTED"]
      \/ Exists(l) /\ l \notin advances /\ loans' = [loans EXCEPT ![l].status = "DELETED"]
    BY DEF ApplyUpdate, ApplyDelete, Approve, Reject, UpdatedAmount, Deletable
<1> HIDE DEF l
<1>5. CASE loans' = loans
    <2>1. loans' = [loans EXCEPT ![l] = loans[l]]
        BY <1>2, <1>3, <1>5
    <2> QED BY <1>1, <1>2, <1>3, <2>1, LoanChanges
<1>6. CASE loans' = [loans EXCEPT ![l].amount = Requested + 1]
    <2> DEFINE loan == [loans[l] EXCEPT !.amount = Requested + 1]
    <2>1. /\ loan \in Loan /\ loan.status = loans[l].status /\ loan.repayable = loans[l].repayable
          /\ loan.repaid = loans[l].repaid /\ loan.category = loans[l].category
        BY <1>3 DEF Loan
    <2>2. loans' = [loans EXCEPT ![l] = loan]
        BY <1>3, <1>6
    <2> HIDE DEF loan
    <2> QED BY <1>1, <1>2, <2>1, <2>2, LoanChanges
<1>7. ASSUME NEW status \in {"APPROVED", "REJECTED", "DELETED"}, Exists(l),
             status = "DELETED" => l \notin advances,
             loans' = [loans EXCEPT ![l].status = status]
      PROVE  OfficeInv'
    <2> DEFINE loan == [loans[l] EXCEPT !.status = status]
    <2>1. /\ loan \in Loan /\ loan.status = status /\ loan.repayable = loans[l].repayable
          /\ loan.repaid = loans[l].repaid /\ loan.category = loans[l].category
        BY <1>3 DEF Loan
    <2>2. loans' = [loans EXCEPT ![l] = loan]
        BY <1>3, <1>7
    <2> HIDE DEF loan
    <2> QED BY <1>1, <1>2, <1>7, <2>1, <2>2, LoanChanges
<1> QED BY <1>4, <1>5, <1>6, <1>7

\* Staff's own approval inside a request.
LEMMA OwnApprovalChecked ==
    ASSUME OfficeInv, NEW d \in Desks, CheckOwnApproval(d)
    PROVE  OfficeInv'
<1>0. desks[d] \in Desk /\ DeskFits(desks[d], advances) /\ desks \in [Desks -> Desk]
    BY OfficeFacts DEF LoanTypes
<1>1. desks[d].at = "approving" /\ UNCHANGED <<loans, assets, ledgerOf, crossed>>
    BY DEF CheckOwnApproval
<1>2. CASE Leaves(d)
    BY <1>1, <1>2, FreeDesk, DeskGoesOn DEF Leaves
<1>3. CASE desks' = [desks EXCEPT ![d].at = "approve"]
    <2> DEFINE desk == [desks[d] EXCEPT !.at = "approve"]
    <2>1. /\ desk \in Desk /\ desk.at = "approve" /\ desk.loan = desks[d].loan
          /\ desk.paid = desks[d].paid /\ desk.blind = desks[d].blind
        BY <1>0 DEF Desk
    <2>2. desks' = [desks EXCEPT ![d] = desk]
        BY <1>0, <1>3
    <2> HIDE DEF desk
    <2>3. DeskFits(desk, advances)
        BY <1>0, <1>1, <2>1 DEF DeskFits
    <2> QED BY <1>1, <2>1, <2>2, <2>3, DeskGoesOn
<1> QED BY <1>2, <1>3 DEF CheckOwnApproval

\* The check of a payout: an account that is not flagged has nothing unreviewed.
LEMMA PayoutChecked ==
    ASSUME ReviewInv, OfficeInv, NEW d \in Desks, NEW l \in Loans, CheckPayout(d, l)
    PROVE  OfficeInv'
<1> DEFINE desk == [Free EXCEPT !.at = "pay", !.loan = l, !.blind = FALSE]
<1>1. Unreviewed = {}
    BY NothingUnreviewed DEF CheckPayout
<1>2. /\ desks[d].at = "idle" /\ desks' = [desks EXCEPT ![d] = desk]
      /\ UNCHANGED <<loans, assets, ledgerOf, crossed>>
    <2>1. (Unreviewed # {}) = FALSE
        BY <1>1
    <2> QED BY <2>1, FreeDesk DEF CheckPayout
<1>3. desk \in Desk /\ desk.at = "pay" /\ desk.loan = l /\ ~desk.paid /\ ~desk.blind
    BY DEF Free, Desk
<1> HIDE DEF desk
<1>4. DeskFits(desk, advances)
    BY <1>3 DEF DeskFits
<1> QED BY <1>2, <1>3, <1>4, DeskGoesOn

LEMMA PayoutCounted ==
    ASSUME OfficeInv, NEW d \in Desks, CountPayout(d)
    PROVE  OfficeInv'
<1>1. /\ desks[d].at = "count" /\ Leaves(d)
      /\ UNCHANGED <<loans, assets, advances, obligation, payouts, crossed>>
    BY DEF CountPayout
<1>2. LET paid == payouts[desks[d].loan].amount IN
         \/ borrowed' = borrowed + paid /\ lost' = lost
         \/ lost' = lost + paid /\ borrowed' = borrowed
    BY DEF CountPayout
<1> QED BY <1>1, <1>2, DeskCounts

LEMMA DeskDied ==
    ASSUME OfficeInv, NEW d \in Desks, DeskDies(d)
    PROVE  OfficeInv'
<1>1. /\ Leaves(d)
      /\ UNCHANGED <<loans, assets, advances, obligation, borrowed, payouts, crossed>>
    BY DEF DeskDies
<1>2. CASE desks[d].at = "count"
    <2>1. lost' = lost + payouts[desks[d].loan].amount
        BY <1>2 DEF DeskDies
    <2> QED BY <1>1, <1>2, <2>1, DeskCounts
<1>3. CASE desks[d].at # "count"
    <2>1. lost' = lost
        BY <1>3 DEF DeskDies
    <2> QED BY <1>1, <1>3, <2>1, FreeDesk, DeskGoesOn DEF Leaves, ledgerOf
<1> QED BY <1>2, <1>3

\* Every step on an application keeps the office in order.
LEMMA LoanSteps ==
    ASSUME ReviewInv, OfficeInv, NEW d \in Desks, LoanStep(d)
    PROVE  OfficeInv'
<1>1. CASE ApplyUpdate(d) \/ ApplyDelete(d) \/ Approve(d) \/ Reject(d)
    BY <1>1, ChangeArrives
<1>2. CASE PayoutStep(d)
    BY <1>2, PaidOutOnce, PayoutCounted, PayoutChecked DEF PayoutStep
<1>3. ASSUME NEW l \in Loans, NEW change \in {"update", "delete"}, CheckChange(d, l, change)
      PROVE  OfficeInv'
    BY <1>3, DeskTakes DEF CheckChange
<1>4. ASSUME NEW l \in Loans, CheckApproval(d, l) PROVE OfficeInv'
    BY <1>4, DeskTakes DEF CheckApproval
<1>5. ASSUME NEW l \in Loans, CheckRejection(d, l) PROVE OfficeInv'
    BY <1>5, DeskTakes DEF CheckRejection, Rejectable
<1> QED BY <1>1, <1>2, <1>3, <1>4, <1>5, RequestChecked, CashLoanMade, AssetRequested,
           OwnApprovalChecked, CommodityApproved, CommodityRejected, DeskDied, AssetChecked
        DEF LoanStep

\* And so does every request.
LEMMA RequestSteps ==
    ASSUME OfficeInv, NEW d \in Desks, NEW what \in {"cash", "asset"}, RequestStep(d, what)
    PROVE  OfficeInv'
<1>1. CASE CustomerRequests(d, what)
    BY <1>1, DeskAsks DEF CustomerRequests
<1>2. CASE LoanTopup(d, what)
    BY <1>2, DeskAsks DEF LoanTopup
<1>3. ASSUME NEW c \in Callers, OnboardingRequests(c, d, what) PROVE OfficeInv'
    BY <1>3, DeskAsks DEF OnboardingRequests
<1> QED BY <1>1, <1>2, <1>3 DEF RequestStep

\* Steps on applications leave the account to itself: they end the onboarding they belong to,
\* and fail.
LEMMA AccountAside ==
    ASSUME ReviewInv, NEW d \in Desks,
           LoanStep(d) \/ \E what \in {"cash", "asset"} : RequestStep(d, what)
    PROVE  ReviewInv'
<1>1. CASE UNCHANGED accountVars
    BY <1>1 DEF accountVars, ReviewInv, AccountTypeOK, ReviewTypeOK, Looked, IsFlagging
<1>2. CASE UNCHANGED <<account, code, review, calls>> /\ faults' \in 0..MaxFaults
    BY <1>2 DEF ReviewInv, AccountTypeOK, ReviewTypeOK, Looked, IsFlagging
<1>3. CASE CountPayout(d) \/ DeskDies(d)
    <2>1. faults' \in 0..MaxFaults
        BY <1>3, AccountFacts, AccountConstants DEF CountPayout, DeskDies
    <2> QED BY <1>2, <1>3, <2>1 DEF CountPayout, DeskDies
<1>4. ASSUME NEW c \in Callers, NEW what, OnboardingRequests(c, d, what) PROVE ReviewInv'
    <2>1. calls[c].at = "loan" /\ Ends(c) /\ UNCHANGED <<account, code, review, faults>>
        BY <1>4 DEF OnboardingRequests
    <2> QED BY <2>1, AccountFacts, CallGoesOn
<1>5. CASE LoanStep(d)
    <2>1. \/ CountPayout(d) \/ DeskDies(d) \/ UNCHANGED accountVars
        BY <1>5 DEF LoanStep, CheckRequest, CreateCashLoan, CreateAssetRequest, CheckOwnApproval,
            ApplyUpdate, ApplyDelete, Approve, Reject, ApproveCommodityLoan, RejectCommodityLoan,
            PayoutStep, PayOut, CheckPayout, CheckChange, CheckApproval, CheckRejection, CheckAsset
    <2> QED BY <1>1, <1>3, <2>1
<1>6. ASSUME NEW what \in {"cash", "asset"}, RequestStep(d, what) PROVE ReviewInv'
    BY <1>1, <1>4, <1>6 DEF RequestStep, CustomerRequests, LoanTopup
<1> QED BY <1>5, <1>6

-----------------------------------------------------------------------------
(* The parts together                                                      *)

IInv ==
    /\ scene \in Scenes
    /\ GateInv /\ ImportInv /\ ReviewInv /\ OfficeInv

LEMMA Starts == Init => IInv
<1> SUFFICES ASSUME Init PROVE IInv
    OBVIOUS
<1> DEFINE first == IF scene \in {"review", "cash", "goods"} THEN Established ELSE NoAccount
           status == CASE scene = "review" -> "APPROVED" [] scene = "goods" -> "PENDING"
                       [] OTHER -> "NONE"
<1>1. scene \in Scenes /\ AccountInit(first) /\ LoanInit(status) /\ GateInit /\ ImportInit
    BY DEF Init
<1>2. first \in {NoAccount, Established} /\ status \in {"NONE", "PENDING", "APPROVED"}
    OBVIOUS
<1> HIDE DEF first, status
<1> QED BY <1>1, <1>2, AccountStarts, OfficeStarts, GateStarts, ImportStarts DEF IInv

\* What a step leaves alone stays in order.
LEMMA GateAside == GateInv /\ UNCHANGED gateVars => GateInv'
BY DEF GateInv, GateTypeOK, MaintenanceIsFelt, gateVars

LEMMA ImportAside == ImportInv /\ UNCHANGED importVars => ImportInv'
BY DEF ImportInv, ImportTypeOK, ImportedOnce, InHand, importVars

LEMMA ReviewAside == ReviewInv /\ UNCHANGED accountVars => ReviewInv'
BY DEF accountVars, ReviewInv, AccountTypeOK, Looked

LEMMA OfficeAside == OfficeInv /\ UNCHANGED loanVars => OfficeInv'
<1> SUFFICES ASSUME OfficeInv, UNCHANGED loanVars PROVE OfficeInv'
    OBVIOUS
<1>1. UNCHANGED <<loans, assets, advances, obligation, desks, borrowed, payouts, lost, crossed>>
    BY DEF loanVars
<1>2. LoanTypes' /\ DesksFit' /\ LoansFit' /\ AssetsFit' /\ DecidedAreThere'
    BY <1>1 DEF OfficeInv, LoanTypes, DesksFit, LoansFit, AssetsFit, DecidedAreThere
<1>3. BookFits' /\ MoneyFits'
    BY <1>1 DEF OfficeInv, BookFits, OwedByAll, MoneyFits, InCounting, PaidOut
<1>4. Uncrossed' <=> Uncrossed
    BY <1>1 DEF Uncrossed, HasPending, With, InReview, Exists
<1> QED BY <1>1, <1>2, <1>3, <1>4 DEF OfficeInv

LEMMA ApplicationSteps ==
    ASSUME ReviewInv, OfficeInv, NEW kinds \in SUBSET {"cash", "asset"}, Applications(kinds)
    PROVE  ReviewInv' /\ OfficeInv'
<1>1. ASSUME NEW l \in Loans, Repay(l) PROVE ReviewInv' /\ OfficeInv'
    <2>1. UNCHANGED accountVars
        BY <1>1 DEF Repay
    <2> QED BY <1>1, <2>1, RepaidLoan, ReviewAside
<1>2. ASSUME NEW d \in Desks, LoanStep(d) \/ \E what \in kinds : RequestStep(d, what)
      PROVE  ReviewInv' /\ OfficeInv'
    BY <1>2, LoanSteps, RequestSteps, AccountAside
<1> QED BY <1>1, <1>2 DEF Applications

LEMMA OfficeSteps ==
    ASSUME ReviewInv, OfficeInv, OfficeScene
    PROVE  ReviewInv' /\ OfficeInv'
<1>1. CASE AccountScene
    BY <1>1, StatusSteps, CustomerSteps, DetailsSteps, OnboardingSteps, RolesSteps, OfficeAside
    DEF AccountScene, StatusStep
<1>2. CASE OnboardingScene
    <2>1. ASSUME UNCHANGED loanVars,
                 \/ \E by \in Staff, s \in {"ACTIVE", "FLAGGED"} : UpdateStatus(by, s)
                 \/ \E c \in Callers : OnboardingStep(c)
          PROVE  ReviewInv' /\ OfficeInv'
        BY <2>1, StatusSteps, OnboardingSteps, OfficeAside
    <2>2. ASSUME NEW d \in Desks,
                 LoanStep(d) \/ \E what \in {"cash", "asset"} : RequestStep(d, what)
          PROVE  ReviewInv' /\ OfficeInv'
        BY <2>2, LoanSteps, RequestSteps, AccountAside
    <2> QED BY <1>2, <2>1, <2>2 DEF OnboardingScene
<1>3. CASE ReviewScene
    <2>1. ASSUME UNCHANGED loanVars, StatusStep \/ \E c \in Callers : DetailsStep(c)
          PROVE  ReviewInv' /\ OfficeInv'
        BY <2>1, StatusSteps, DetailsSteps, OfficeAside DEF StatusStep
    <2>2. ASSUME NEW d \in Desks, PayoutStep(d) PROVE ReviewInv' /\ OfficeInv'
        <3>1. LoanStep(d)
            BY <2>2 DEF LoanStep
        <3> QED BY <3>1, LoanSteps, AccountAside
    <2> QED BY <1>3, <2>1, <2>2 DEF ReviewScene
<1>4. CASE Applications({"cash"}) \/ Applications({"asset"})
    BY <1>4, ApplicationSteps
<1> QED BY <1>1, <1>2, <1>3, <1>4 DEF OfficeScene

LEMMA Steps == IInv /\ [Next]_vars => IInv'
<1> SUFFICES ASSUME IInv, [Next]_vars PROVE IInv'
    OBVIOUS
<1>1. scene \in Scenes /\ GateInv /\ ImportInv /\ ReviewInv /\ OfficeInv
    BY DEF IInv
<1>2. CASE UNCHANGED vars
    BY <1>1, <1>2, GateAside, ImportAside, ReviewAside, OfficeAside DEF vars, IInv
<1>3. CASE OfficeScene /\ UNCHANGED scene
    <2>1. UNCHANGED gateVars /\ UNCHANGED importVars
        BY <1>3 DEF OfficeScene
    <2> QED BY <1>1, <1>3, <2>1, OfficeSteps, GateAside, ImportAside DEF IInv
<1>4. CASE GateNext /\ UNCHANGED <<accountVars, loanVars, importVars, scene>>
    BY <1>1, <1>4, GateSteps, ImportAside, ReviewAside, OfficeAside DEF IInv
<1>5. CASE ImportNext /\ UNCHANGED <<accountVars, loanVars, gateVars, scene>>
    BY <1>1, <1>5, ImportSteps, GateAside, ReviewAside, OfficeAside DEF IInv
<1> QED BY <1>2, <1>3, <1>4, <1>5 DEF Next

\* The inductive invariant holds of every behaviour of the front office.
THEOREM Inductive == Spec => []IInv
<1> QED BY Starts, Steps, PTL DEF Spec

-----------------------------------------------------------------------------
(* What follows                                                            *)

\* The account, the applications and their calls, the gate and the import keep their types,
\* whatever calls of CustomerService, LoanService and the import run at once.
THEOREM TypeCorrect == Spec => []TypeOK
<1>1. IInv => TypeOK
    <2> SUFFICES ASSUME IInv PROVE TypeOK
        OBVIOUS
    <2>1. AccountTypeOK /\ GateTypeOK /\ ImportTypeOK /\ LoanTypes
        BY DEF IInv, ReviewInv, GateInv, ImportInv, OfficeInv
    <2> QED BY <2>1 DEF TypeOK, LoanTypes
<1> QED BY <1>1, Inductive, PTL

\* MaintenanceGuard lets a request through only if the mode was off less than CACHE_TTL before
\* the request came, or since, whatever servers cache and clear meanwhile (inMaintenanceMode).
THEOREM MaintenanceShowsInTime == Spec => []MaintenanceIsFelt
<1>1. IInv => MaintenanceIsFelt
    BY DEF IInv, GateInv
<1> QED BY <1>1, Inductive, PTL

\* Jobs of handleImport that die and are run again, two of one sheet too, count every imported
\* customer once, but for what a death or a failure kept from the counters.
THEOREM ImportsCountOnce == Spec => []ImportedOnce
<1>1. IInv => ImportedOnce
    BY DEF IInv, ImportInv
<1> QED BY <1>1, Inductive, PTL

\* disburseLoan pays no account whose changed details no admin has looked at, but for those a
\* listener was flagging at the check or failed to flag: the listeners write details first.
THEOREM PaymentsAreReviewed == Spec => []PaidToReviewedDetails
<1>1. IInv => PaidToReviewedDetails
    BY DEF IInv, OfficeInv, LoansFit, LoanFits, PaidToReviewedDetails
<1> QED BY <1>1, Inductive, PTL

LEMMA AtMostOne ==
    ASSUME NEW S, \A x, y \in S : x = y
    PROVE  Cardinality(S) \in 0..1
<1>1. CASE S = {}
    BY <1>1, FS_EmptySet
<1>2. ASSUME NEW x \in S PROVE Cardinality(S) \in 0..1
    <2>1. S = {x}
        BY <1>2
    <2> QED BY <2>1, FS_Singleton
<1> QED BY <1>1, <1>2

\* What the customer and staff are told waits; only a rejected commodity waits for one alone.
LEMMA ToldToWait ==
    ASSUME OfficeInv
    PROVE  LET shown  == {r.id : r \in {x \in AllUserLoans : x.status = "PENDING"}} \cap Assets
               listed == {r.id : r \in {x \in CommodityLoans : x.status = "PENDING"}}
           IN  shown \subseteq listed /\ \A a \in listed \ shown : assets[a].rejected
<1> DEFINE shown  == {r.id : r \in {x \in AllUserLoans : x.status = "PENDING"}} \cap Assets
           listed == {r.id : r \in {x \in CommodityLoans : x.status = "PENDING"}}
<1>1. \A a \in Assets :
          /\ assets[a].inReview => assets[a].there /\ assets[a].loan = NoLoan
          /\ assets[a].there /\ ~assets[a].inReview /\ assets[a].loan = NoLoan => assets[a].rejected
          /\ assets[a].loan # NoLoan => loans[assets[a].loan].status # "PENDING"
    BY OfficeFacts DEF AssetFits
<1>2. ASSUME NEW a \in Assets, assets[a].inReview PROVE a \in shown
    <2> DEFINE r == [id |-> a, status |-> IF assets[a].inReview THEN "PENDING" ELSE "APPROVED"]
    <2>1. r \in AllUserLoans
        BY <1>1, <1>2 DEF AllUserLoans
    <2>2. r.status = "PENDING" /\ r.id = a
        BY <1>2
    <2> HIDE DEF r
    <2> QED BY <2>1, <2>2
<1>3. ASSUME NEW a \in shown PROVE a \in Assets /\ assets[a].inReview
    <2>1. PICK r \in AllUserLoans : r.status = "PENDING" /\ r.id = a
        OBVIOUS
    <2>2. r.id \notin Loans
        BY <2>1, ApplicationConstants
    <2>3. PICK b \in Assets :
              r = [id |-> b, status |-> IF assets[b].inReview THEN "PENDING" ELSE "APPROVED"]
        BY <2>2 DEF AllUserLoans
    <2> QED BY <2>1, <2>3
<1>4. ASSUME NEW a \in Assets, assets[a].there, assets[a].loan = NoLoan PROVE a \in listed
    <2> DEFINE r == [id |-> a, status |-> IF assets[a].loan = NoLoan THEN "PENDING"
                                          ELSE loans[assets[a].loan].status]
    <2>1. r \in CommodityLoans
        BY <1>4 DEF CommodityLoans
    <2>2. r.status = "PENDING" /\ r.id = a
        BY <1>4
    <2> HIDE DEF r
    <2> QED BY <2>1, <2>2
<1>5. ASSUME NEW a \in listed PROVE a \in Assets /\ assets[a].there /\ assets[a].loan = NoLoan
    <2>1. PICK r \in CommodityLoans : r.status = "PENDING" /\ r.id = a
        OBVIOUS
    <2>2. PICK b \in Assets :
              /\ assets[b].there
              /\ r = [id |-> b, status |-> IF assets[b].loan = NoLoan THEN "PENDING"
                                           ELSE loans[assets[b].loan].status]
        BY DEF CommodityLoans
    <2> QED BY <1>1, <2>1, <2>2
<1> HIDE DEF shown, listed
<1>6. shown \subseteq listed /\ \A a \in listed \ shown : assets[a].rejected
    BY <1>1, <1>2, <1>3, <1>4, <1>5
<1> QED BY <1>6 DEF shown, listed

\* A top-up is in the history under one name.
LEMMA NamesTellTopups ==
    ASSUME OfficeInv
    PROVE  \A r, s \in TopupHistory : r.id = s.id => r = s
<1> DEFINE NameOf(l) == IF \E a \in Assets : assets[a].loan = l
                        THEN CHOOSE a \in Assets : assets[a].loan = l ELSE l
<1>1. \A l \in Loans : \/ NameOf(l) \in Assets /\ assets[NameOf(l)].loan = l
                       \/ NameOf(l) = l
    OBVIOUS
<1> HIDE DEF NameOf
<1>2. \A r \in TopupHistory :
          \/ \E l \in Loans : r = [id |-> NameOf(l), loan |-> l]
          \/ \E a \in Assets : r = [id |-> a, loan |-> NoLoan] /\ assets[a].loan = NoLoan
    BY DEF TopupHistory, NameOf
<1>3. \A l, m \in Loans : NameOf(l) = NameOf(m) => l = m
    BY <1>1, ApplicationConstants
<1>4. \A l \in Loans, a \in Assets : NameOf(l) = a => assets[a].loan # NoLoan
    BY <1>1, ApplicationConstants
<1> SUFFICES ASSUME NEW r \in TopupHistory, NEW s \in TopupHistory, r.id = s.id PROVE r = s
    OBVIOUS
<1>5. ASSUME NEW l \in Loans, r = [id |-> NameOf(l), loan |-> l] PROVE r = s
    <2>1. PICK m \in Loans : s = [id |-> NameOf(m), loan |-> m]
        BY <1>2, <1>4, <1>5
    <2> QED BY <1>3, <1>5, <2>1
<1>6. ASSUME NEW a \in Assets, r = [id |-> a, loan |-> NoLoan], assets[a].loan = NoLoan
      PROVE  r = s
    <2>1. PICK b \in Assets : s = [id |-> b, loan |-> NoLoan]
        BY <1>2, <1>4, <1>6
    <2> QED BY <1>6, <2>1
<1> QED BY <1>2, <1>5, <1>6

\* Unless two requests or two decisions on a commodity cross between their check and their
\* write, requestCashLoan and requestAssetLoan leave one application of a kind waiting,
\* approveCommodityLoan makes one loan, and every list shows a loan where it belongs.
THEOREM ApplicationsWaitAlone == Spec => []OneApplicationAtATime
<1>1. ASSUME OfficeInv PROVE OneApplicationAtATime
    <2>1. ASSUME ~crossed
          PROVE  /\ {UserLoansOverview.pending, LoanReportOverview.pendingLoansCount,
                     Cardinality(OpenLoanRequests.commodityLoans)} \subseteq 0..1
                 /\ \A a \in Assets : assets[a].made <= 1
                 /\ \A l \in Loans : Exists(l) => (l \in CashLoans <=> LoanById(l).asset = {})
        <3>1. Uncrossed
            BY <1>1, <2>1 DEF OfficeInv
        <3>2. Cardinality(With({"PENDING"})) \in 0..1 /\ Cardinality(InReview) \in 0..1
            BY <3>1, AtMostOne DEF Uncrossed
        <3>3. /\ UserLoansOverview.pending = Cardinality(With({"PENDING"}))
              /\ LoanReportOverview.pendingLoansCount = Cardinality(With({"PENDING"}))
              /\ OpenLoanRequests.commodityLoans = InReview
            BY DEF UserLoansOverview, LoanReportOverview, OpenLoanRequests
        <3>4. ASSUME NEW l \in Loans, Exists(l)
              PROVE  l \in CashLoans <=> LoanById(l).asset = {}
            <4>1. LoanById(l).asset = {a \in Assets : assets[a].loan = l}
                BY DEF LoanById
            <4>2. l \in CashLoans <=> loans[l].category # "ASSET_PURCHASE"
                BY <3>4 DEF CashLoans, CashLoanWhere
            <4>3. ASSUME NEW a \in Assets, assets[a].loan = l
                  PROVE  loans[l].category = "ASSET_PURCHASE"
                BY <1>1, <4>3, OfficeFacts, ApplicationConstants DEF AssetFits
            <4>4. loans[l].category = "ASSET_PURCHASE" => \E a \in Assets : assets[a].loan = l
                BY <3>1, <3>4 DEF Uncrossed
            <4> QED BY <4>1, <4>2, <4>3, <4>4
        <3> QED BY <3>1, <3>2, <3>3, <3>4 DEF Uncrossed
    <2> QED BY <1>1, <2>1, ToldToWait, NamesTellTopups DEF OneApplicationAtATime
<1>2. IInv => OneApplicationAtATime
    BY <1>1 DEF IInv
<1> QED BY <1>2, Inductive, PTL

\* What some loans owe is what all do, when the others owe nothing.
LEMMA OwedBySome ==
    ASSUME OfficeInv, NEW ls \in SUBSET Loans, \A l \in Loans \ ls : Owes(loans[l]) = 0
    PROVE  Owed(ls) = obligation.balance
<1> DEFINE f == [l \in Loans |-> Owes(loans[l])]
           g == [l \in ls |-> Owes(loans[l])]
<1>1. /\ DOMAIN f = Loans /\ DOMAIN g = ls
      /\ f = [l \in DOMAIN f |-> f[l]] /\ g = [l \in DOMAIN g |-> g[l]]
      /\ (\A l \in Loans : f[l] = Owes(loans[l])) /\ \A l \in ls : g[l] = Owes(loans[l])
    OBVIOUS
<1>2. \A l \in Loans : Owes(loans[l]) \in Nat
    BY OfficeFacts, OwesIsNat
<1>3. obligation.balance = SumFunction(f)
    BY DEF OfficeInv, BookFits, OwedByAll
<1>4. Owed(ls) = SumFunction(g)
    BY DEF Owed, Owes
<1> HIDE DEF f, g
<1>5. SumFunction(f) = SumFunction(g)
    <2>1. IsFiniteSet(DOMAIN f) /\ DOMAIN g \subseteq DOMAIN f
        BY <1>1, ApplicationConstants
    <2>2. /\ \A l \in DOMAIN f : f[l] \in Nat
          /\ \A l \in DOMAIN g : g[l] = f[l]
          /\ \A l \in DOMAIN f \ DOMAIN g : f[l] = 0
        BY <1>1, <1>2
    <2> QED BY <1>1, <2>1, <2>2, SumWithoutZeros
<1> QED BY <1>3, <1>4, <1>5

\* What one loan owes.
LEMMA OwedByOne ==
    ASSUME OfficeInv, NEW l \in Loans
    PROVE  AmountOwed(l) = Owes(loans[l])
<1> DEFINE one  == [m \in {l} |-> Owes(loans[m])]
           rest == Part(one, DOMAIN one \ {l})
<1>1. AmountOwed(l) = SumFunction(one)
    BY DEF AmountOwed, Owed, Owes
<1>2. Owes(loans[l]) \in Nat
    BY OfficeFacts, OwesIsNat
<1>3. DOMAIN one = {l} /\ one[l] = Owes(loans[l])
    OBVIOUS
<1>4. SumFunction(rest) = 0
    <2>1. DOMAIN rest = {}
        BY <1>3 DEF Part
    <2> QED BY <2>1, SumNone
<1> HIDE DEF one
<1>5. SumFunction(one) = one[l] + SumFunction(rest)
    <2>1. IsFiniteSet(DOMAIN one) /\ \A m \in DOMAIN one : one[m] \in Nat
        BY <1>2, <1>3, FS_Singleton
    <2>2. l \in DOMAIN one
        BY <1>3
    <2> QED BY <2>1, <2>2, SumSplit
<1> QED BY <1>1, <1>2, <1>3, <1>4, <1>5

\* The loans that were paid out are those with a date, each paid once.
LEMMA PaidLoans ==
    ASSUME OfficeInv
    PROVE  LET paid == {l \in Loans : payouts[l].times > 0} IN
           /\ paid = Dated
           /\ \A l \in paid : payouts[l].times = 1 /\ Exists(l)
           /\ \A l \in Loans \ paid : payouts[l].amount = 0
<1>1. \A l \in Loans :
          /\ payouts[l].times > 0 <=> l \in advances
          /\ loans[l].repayable > 0 <=> l \in advances
          /\ l \in advances => payouts[l].times = 1 /\ Exists(l)
          /\ l \notin advances => payouts[l].amount = 0
    BY OfficeFacts DEF LoanFits, Exists
<1> QED BY <1>1 DEF Dated

\* What the counter has, and what is about to be counted or was lost, was paid out.
LEMMA CountersMatchPayouts ==
    ASSUME OfficeInv
    PROVE  LET paid == {l \in Loans : payouts[l].times > 0}
               out  == SumFunction([l \in paid |-> payouts[l].amount])
               counting == SumFunction([d \in Desks |-> IF desks[d].at = "count"
                                             THEN payouts[desks[d].loan].amount ELSE 0])
           IN  borrowed + lost + counting = out
<1> DEFINE paid == {l \in Loans : payouts[l].times > 0}
           f == [l \in Loans |-> payouts[l].amount]
           g == [l \in paid |-> payouts[l].amount]
           counting == SumFunction([d \in Desks |-> IF desks[d].at = "count"
                                         THEN payouts[desks[d].loan].amount ELSE 0])
<1>1. InCounting = counting
    BY DEF InCounting, AboutToCount
<1>2. paid \subseteq Loans /\ \A l \in Loans \ paid : payouts[l].amount = 0
    BY PaidLoans
<1>3. /\ DOMAIN f = Loans /\ DOMAIN g = paid
      /\ f = [l \in DOMAIN f |-> f[l]] /\ g = [l \in DOMAIN g |-> g[l]]
      /\ \A l \in DOMAIN f : f[l] \in Nat
      /\ \A l \in DOMAIN g : g[l] = f[l]
      /\ \A l \in DOMAIN f \ DOMAIN g : f[l] = 0
    BY <1>2, OfficeFacts
<1>4. PaidOut = SumFunction(f)
    BY DEF PaidOut
<1> HIDE DEF f, g, paid, counting
<1>5. IsFiniteSet(DOMAIN f) /\ DOMAIN g \subseteq DOMAIN f
    BY <1>2, <1>3, ApplicationConstants
<1>6. SumFunction(f) = SumFunction(g)
    BY <1>3, <1>5, SumWithoutZeros
<1>7. borrowed + lost + counting = SumFunction(g)
    BY <1>1, <1>4, <1>6 DEF OfficeInv, MoneyFits
<1> QED BY <1>7 DEF g, paid, counting

\* While no late call has changed the status of a paid loan, everybody is told one sum.
LEMMA BooksAgree ==
    ASSUME OfficeInv, {l \in Loans : payouts[l].times > 0} = With({"DISBURSED", "REPAID"})
    PROVE  /\ obligation.open <=> CustomerReport.status = "active"
           /\ {LoanReportOverview.outstanding, CustomerReport.balance, UserLoanSummary.outstanding,
               UserLoanSummary.currentOverdue, Portfolio.outstandingBalance} = UserActiveLoan
           /\ \A l \in Loans : AmountOwed(l) > 0 <=> l \in ActiveAndPendingLoans.active
<1>1. Dated = With({"DISBURSED", "REPAID"})
    BY PaidLoans
<1>2. ASSUME NEW l \in Loans
      PROVE  /\ Owes(loans[l]) \in Nat
             /\ Owes(loans[l]) > 0 <=> l \in With({"DISBURSED"})
    <2>1. /\ loans[l].repayable > 0 <=> loans[l].status \in {"DISBURSED", "REPAID"}
        BY <1>1 DEF Dated, With
    <2>2. loans[l].status \in {"DISBURSED", "REPAID"} =>
              (loans[l].repaid <=> loans[l].status = "REPAID")
        BY OfficeFacts DEF LoanFits
    <2>3. Owes(loans[l]) \in Nat /\ loans[l].repayable \in Nat
        BY OfficeFacts, OwesIsNat
    <2> QED BY <2>1, <2>2, <2>3 DEF Owes, With
<1>3. \A l \in Loans : l \notin With({"DISBURSED"}) => Owes(loans[l]) = 0
    BY <1>2
<1>4. With({"DISBURSED"}) \subseteq Dated /\ Dated \subseteq Loans
    BY <1>1 DEF With
<1>5. Owed(With({"DISBURSED"})) = obligation.balance /\ Owed(Dated) = obligation.balance
    BY <1>3, <1>4, OwedBySome
<1>6. UserActiveLoan = {obligation.balance}
    BY <1>5 DEF UserActiveLoan
<1>7. {LoanReportOverview.outstanding, CustomerReport.balance, UserLoanSummary.outstanding,
       UserLoanSummary.currentOverdue, Portfolio.outstandingBalance} = UserActiveLoan
    <2>1. LoanReportOverview.outstanding = Owed(Dated) /\ CustomerReport.balance = Owed(Dated)
        BY DEF LoanReportOverview, LoanFinancials, CustomerReport
    <2>2. /\ UserLoanSummary.outstanding = Owed(With({"DISBURSED", "REPAID"}))
          /\ UserLoanSummary.currentOverdue = Owed(With({"DISBURSED"}))
          /\ Portfolio.outstandingBalance = Owed(With({"DISBURSED"}))
        BY DEF UserLoanSummary, Portfolio
    <2> QED BY <1>1, <1>5, <1>6, <2>1, <2>2
<1>8. obligation.open <=> CustomerReport.status = "active"
    <2>1. obligation.open <=> obligation.balance > 0
        BY DEF OfficeInv, BookFits
    <2>2. obligation.balance \in Nat
        BY DEF OfficeInv, LoanTypes
    <2>3. CustomerReport.status = IF Owed(Dated) = 0 THEN "completed" ELSE "active"
        BY DEF CustomerReport
    <2> QED BY <1>5, <2>1, <2>2, <2>3
<1>9. ActiveAndPendingLoans.active = With({"DISBURSED"})
    BY DEF ActiveAndPendingLoans
<1>10. \A l \in Loans : AmountOwed(l) > 0 <=> l \in ActiveAndPendingLoans.active
    BY <1>2, <1>9, OwedByOne
<1> QED BY <1>7, <1>8, <1>10

\* disburseAdvance pays a loan once whatever approvals, changes and deletions arrive late, the
\* counters miss nothing but failures, and the obligation, the dashboard, the customer's report
\* and summary and the officer's portfolio are told one sum.
THEOREM BooksMatchPayouts == Spec => []PayoutsMatchBooks
<1>1. ASSUME OfficeInv PROVE PayoutsMatchBooks
    <2> DEFINE paid == {l \in Loans : payouts[l].times > 0}
               out  == SumFunction([l \in paid |-> payouts[l].amount])
    <2>1. paid = Dated /\ \A l \in paid : payouts[l].times = 1 /\ Exists(l)
        BY <1>1, PaidLoans
    <2>2. (\A l \in paid : loans[l].amount = payouts[l].amount) =>
              LoanFinancials.principal = out /\ CustomerReport.totalBorrowed = out
        <3>1. SUFFICES ASSUME \A l \in paid : loans[l].amount = payouts[l].amount
                       PROVE  LoanFinancials.principal = out /\ CustomerReport.totalBorrowed = out
            OBVIOUS
        <3>2. [l \in Dated |-> loans[l].amount] = [l \in paid |-> payouts[l].amount]
            BY <2>1, <3>1
        <3>3. Borrowed(Dated) = out
            BY <3>2 DEF Borrowed
        <3> QED BY <3>3 DEF LoanFinancials, CustomerReport
    <2>3. paid = With({"DISBURSED", "REPAID"}) =>
              /\ obligation.open <=> CustomerReport.status = "active"
              /\ {LoanReportOverview.outstanding, CustomerReport.balance,
                  UserLoanSummary.outstanding, UserLoanSummary.currentOverdue,
                  Portfolio.outstandingBalance} = UserActiveLoan
              /\ \A l \in Loans : AmountOwed(l) > 0 <=> l \in ActiveAndPendingLoans.active
        BY <1>1, BooksAgree
    <2>4. borrowed + lost + SumFunction([d \in Desks |-> IF desks[d].at = "count"
                                     THEN payouts[desks[d].loan].amount ELSE 0]) = out
        BY <1>1, CountersMatchPayouts
    <2> QED BY <2>1, <2>2, <2>3, <2>4 DEF PayoutsMatchBooks
<1>2. IInv => PayoutsMatchBooks
    BY <1>1 DEF IInv
<1> QED BY <1>2, Inductive, PTL

\* What a step does to a loan that is paid out: nothing, but for a payment and late calls.
LateCall(l) == \E d \in Desks : desks[d].loan = l /\ ~desks[d].paid /\ desks'[d] = Free

Stands(l) == loans'[l] = loans[l] \/ Repay(l) \/ LateCall(l)

LEMMA PaidLoansStand ==
    ASSUME OfficeInv, NEW d \in Desks, LoanStep(d), NEW l \in With({"DISBURSED", "REPAID"})
    PROVE  Stands(l)
<1>1. /\ l \in Loans /\ loans[l].status \in {"DISBURSED", "REPAID"} /\ ~desks[d].paid
      /\ loans \in [Loans -> Loan] /\ desks \in [Desks -> Desk]
    BY OfficeFacts DEF With, LoanTypes, DeskFits
<1>2. CASE UNCHANGED loans
    BY <1>2 DEF Stands
<1>3. ASSUME NEW m \in Loans, loans[m].status \notin {"DISBURSED", "REPAID"}, NEW loan,
             loans' = [loans EXCEPT ![m] = loan]
      PROVE  Stands(l)
    BY <1>1, <1>3 DEF Stands
<1>4. CASE CreateCashLoan(d) \/ ApproveCommodityLoan(d)
    <2>1. PICK m \in Loans : loans[m] = Unused /\ \E loan : loans' = [loans EXCEPT ![m] = loan]
        BY <1>4 DEF CreateCashLoan, ApproveCommodityLoan
    <2> QED BY <1>3, <2>1, UnusedFacts
<1>5. CASE ApplyUpdate(d) \/ ApplyDelete(d) \/ Approve(d) \/ Reject(d)
    <2>1. /\ Leaves(d)
          /\ \/ loans' = loans
             \/ \E loan : loans' = [loans EXCEPT ![desks[d].loan] = loan]
        <3>1. Leaves(d)
            BY <1>5 DEF ApplyUpdate, ApplyDelete, Approve, Reject
        <3>2. CASE ApplyUpdate(d)
            BY <3>2 DEF ApplyUpdate
        <3>3. CASE ApplyDelete(d)
            BY <3>3 DEF ApplyDelete
        <3>4. CASE Approve(d)
            BY <3>4 DEF Approve
        <3>5. CASE Reject(d)
            BY <3>5 DEF Reject
        <3> QED BY <1>5, <3>1, <3>2, <3>3, <3>4, <3>5
    <2>2. desks'[d] = Free
        BY <1>1, <2>1 DEF Leaves
    <2>3. CASE desks[d].loan = l
        BY <1>1, <2>2, <2>3 DEF Stands, LateCall
    <2>4. CASE desks[d].loan # l
        BY <1>1, <2>1, <2>4 DEF Stands
    <2> QED BY <2>3, <2>4
<1>6. CASE PayOut(d)
    <2>1. CASE ~Payable(desks[d].loan)
        BY <1>2, <1>6, <2>1 DEF PayOut
    <2>2. CASE Payable(desks[d].loan)
        <3>1. desks[d].loan \in Loans
            BY <1>6, OfficeFacts DEF DeskFits, PayOut
        <3>2. loans[desks[d].loan].status = "APPROVED"
            BY <2>2 DEF Payable
        <3>3. \E loan : loans' = [loans EXCEPT ![desks[d].loan] = loan]
            BY <1>6, <2>2 DEF PayOut
        <3> QED BY <1>3, <3>1, <3>2, <3>3
    <2> QED BY <2>1, <2>2
<1>7. \/ CreateCashLoan(d) \/ ApproveCommodityLoan(d) \/ PayOut(d)
      \/ ApplyUpdate(d) \/ ApplyDelete(d) \/ Approve(d) \/ Reject(d)
      \/ UNCHANGED loans
    BY DEF LoanStep, CheckRequest, CreateAssetRequest, CheckOwnApproval, RejectCommodityLoan,
           PayoutStep, CountPayout, CheckPayout, DeskDies, CheckChange, CheckApproval,
           CheckRejection, CheckAsset
<1> QED BY <1>2, <1>4, <1>5, <1>6, <1>7

\* Only a call of approveLoan, rejectLoan, userLoanUpdate or userLoanDelete that checked a loan
\* before its payout can change it after, but for its payments.
THEOREM PaidLoansAreLeftAlone == Spec => OnlyLateCallsTouchPaidLoans
<1>1. ASSUME IInv, [Next]_vars, NEW l \in With({"DISBURSED", "REPAID"}) PROVE Stands(l)
    <2>1. OfficeInv /\ l \in Loans
        BY <1>1 DEF IInv, With
    <2>2. CASE UNCHANGED loans
        BY <2>2 DEF Stands
    <2>3. ASSUME NEW d \in Desks, LoanStep(d) PROVE Stands(l)
        BY <1>1, <2>1, <2>3, PaidLoansStand
    <2>4. ASSUME NEW m \in Loans, Repay(m) PROVE Stands(l)
        <3>1. loans \in [Loans -> Loan]
            BY <2>1, OfficeFacts DEF LoanTypes
        <3> QED BY <2>1, <2>4, <3>1 DEF Stands, Repay
    <2>5. ASSUME NEW d \in Desks, NEW what, RequestStep(d, what) PROVE UNCHANGED loans
        BY <2>5 DEF RequestStep, CustomerRequests, LoanTopup, OnboardingRequests
    <2>6. CASE UNCHANGED vars
        BY <2>2, <2>6 DEF vars, loanVars
    <2>7. CASE OfficeScene
        <3>1. UNCHANGED loanVars => UNCHANGED loans
            BY DEF loanVars
        <3>2. \/ UNCHANGED loanVars
              \/ \E m \in Loans : Repay(m)
              \/ \E d \in Desks :
                    LoanStep(d) \/ \E what \in {"cash", "asset"} : RequestStep(d, what)
            BY <2>7 DEF OfficeScene, AccountScene, OnboardingScene, ReviewScene, Applications,
                LoanStep
        <3> QED BY <2>2, <2>3, <2>4, <2>5, <3>1, <3>2
    <2>8. CASE UNCHANGED loanVars
        BY <2>2, <2>8 DEF loanVars
    <2> QED BY <1>1, <2>6, <2>7, <2>8 DEF Next
<1>2. IInv /\ [Next]_vars =>
          [\A l \in With({"DISBURSED", "REPAID"}) :
              loans'[l] = loans[l] \/ Repay(l)
                \/ \E d \in Desks : desks[d].loan = l /\ ~desks[d].paid /\ desks'[d] = Free]_vars
    BY <1>1 DEF Stands, LateCall
<1> QED BY <1>2, Inductive, PTL DEF Spec, OnlyLateCallsTouchPaidLoans
=============================================================================
