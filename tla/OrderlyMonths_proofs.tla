------------------------ MODULE OrderlyMonths_proofs ------------------------
(***************************************************************************)
(* What the orderly calendar, which the code leaves to its users, buys for *)
(* every value of the constants: an obligation has one row for a month, a  *)
(* new plan leaves the official months alone, and the rows to collect      *)
(* cover the debt of a borrower whose loans one obligation claims.         *)
(* OrderInv joins the order of the months (the calendar) with the          *)
(* invariants of the obligations: published rows are of the official       *)
(* months, nothing before the last of them is still collected, and planned *)
(* rows are of later months.  It assumes no bound on open obligations.     *)
(* DebtInv adds the money, until a backfill doubles the claim: what the    *)
(* rows of an open debt ask for is no less than the debt, and the first of *)
(* them, the only one payroll can have published, asks for all the penalty.*)
(***************************************************************************)
EXTENDS OrderlyMonths, RepaymentObligation_proofs

-----------------------------------------------------------------------------
(* The calendar                                                            *)

Hot == {"PUBLISHED", "PARTIAL"}

Active(obs, o) == obs[o].status = "ACTIVE"

\* Row m of plan k may still be collected.
LiveRow(ps, k, m) ==
    LET row == ps[k].rows[m] IN
    /\ ~row.closed
    /\ \/ row.status = "PLANNED" /\ ps[k].status = "PUBLISHED"
       \/ row.status \in Hot

\* Row m of plan k goes on the schedule of its month.
ListedRow(obs, ps, k, m) ==
    /\ ps[k].rows[m].status \in {"PLANNED"} \cup Hot
    /\ Active(obs, ps[k].obligation)

(***************************************************************************)
(* Published rows are of official months and planned rows of open debts    *)
(* are not; nothing before the last official month is still collected; the *)
(* planned rows a superseded plan keeps are of months that are over.       *)
(***************************************************************************)
CalendarRow(obs, ps, off, mon, k, m) ==
    LET row == ps[k].rows[m]
        open == Active(obs, ps[k].obligation)
    IN  /\ row.status \in Hot => m \in off
        /\ row.status = "PLANNED" /\ m \in off => ~open
        /\ row.status = "PLANNED" /\ ps[k].status = "SUPERSEDED" /\ open => m < mon
        /\ LiveRow(ps, k, m) => \A p \in off : p <= m

Calendar(obs, ps, off, mon) ==
    /\ \A p \in off : p <= mon
    /\ \A k \in DOMAIN ps : \A m \in DOMAIN ps[k].rows : CalendarRow(obs, ps, off, mon, k, m)

\* The debts of these plans that are open now were open before.
OpensNone(obs, newObs, ps) ==
    \A k \in DOMAIN ps : Active(newObs, ps[k].obligation) => Active(obs, ps[k].obligation)

StartsAfter(off, from) == \A p \in off : p < from

\* Every month before `from' is over or official.
LeavesPast(off, mon, from) == \A n \in Int : n < from => n < mon \/ n \in off

\* The rows of a new plan.
FreshRows(rows, from) == \A m \in DOMAIN rows : m \in Int /\ m >= from /\ rows[m].status = "PLANNED"

\* Superseding rows from `from' on keeps the calendar, whatever becomes of the plan's status.
LEMMA SupersededKeepsCalendar ==
    ASSUME NEW obs, NEW ps, NEW off, NEW mon \in Int, NEW k, NEW m \in Int,
           CalendarRow(obs, ps, off, mon, k, m), NEW newObs, NEW new, NEW from \in Int,
           LeavesPast(off, mon, from),
           new[k].obligation = ps[k].obligation,
           Active(newObs, ps[k].obligation) => Active(obs, ps[k].obligation),
           new[k].status \in {ps[k].status, "SUPERSEDED"},
           ps[k].rows[m] \in Installment,
           new[k].rows[m] = SupersededRow(ps[k].rows[m], m, from)
    PROVE  CalendarRow(newObs, new, off, mon, k, m)
<1> DEFINE row == ps[k].rows[m]
           now == SupersededRow(row, m, from)
<1>1. /\ now.closed = row.closed
      /\ now.status = IF m >= from /\ row.status = "PLANNED" THEN "SUPERSEDED" ELSE row.status
    BY DEF SupersededRow, Installment
<1>2. row.status = "PLANNED" /\ m < from => m < mon \/ m \in off
    BY DEF LeavesPast
<1> HIDE DEF row, now
<1>3. new[k].rows[m] = now /\ ps[k].rows[m] = row
    BY DEF now, row
<1> QED BY <1>1, <1>2, <1>3 DEF CalendarRow, LiveRow, Hot

\* A plan that starts after the official months keeps the calendar.
LEMMA CalendarPublished ==
    ASSUME NEW obs, NEW ps \in Seq(Plan), NEW off, NEW mon \in Int, Calendar(obs, ps, off, mon),
           NEW o, NEW rows, NEW from \in Int, NEW new, PublishedAs(ps, new, o, rows, from),
           NEW newObs, OpensNone(obs, newObs, ps), off \subseteq Int,
           FreshRows(rows, from), \A m \in DOMAIN rows : \A p \in off : p < m,
           (\E k \in DOMAIN ps : ps[k].obligation = o) => LeavesPast(off, mon, from)
    PROVE  Calendar(newObs, new, off, mon)
<1> SUFFICES ASSUME NEW k \in DOMAIN new, NEW m \in DOMAIN new[k].rows
             PROVE  CalendarRow(newObs, new, off, mon, k, m)
    BY DEF Calendar
<1>1. CASE k = Len(ps) + 1
    <2>1. /\ new[k].status = "PUBLISHED" /\ new[k].rows = rows
        BY <1>1 DEF PublishedAs
    <2>2. m \in DOMAIN rows /\ m \in Int /\ rows[m].status = "PLANNED" /\ \A p \in off : p < m
        BY <2>1 DEF FreshRows
    <2>3. \A p \in off : p <= m
        BY <2>2
    <2>4. new[k].rows[m].status = "PLANNED" /\ m \notin off
        BY <2>1, <2>2
    <2> QED BY <2>1, <2>3, <2>4 DEF CalendarRow, Hot
<1>2. CASE k # Len(ps) + 1
    <2>1. k \in DOMAIN ps
        BY <1>2 DEF PublishedAs
    <2>2. /\ ps[k] \in Plan /\ DOMAIN ps[k].rows \subseteq Int
          /\ \A n \in DOMAIN ps[k].rows : ps[k].rows[n] \in Installment
        BY <2>1, PlanFacts
    <2>3. new[k] = IF ps[k].obligation = o THEN Retired(ps[k], from) ELSE ps[k]
        BY <2>1 DEF PublishedAs
    <2>4. Active(newObs, ps[k].obligation) => Active(obs, ps[k].obligation)
        BY <2>1 DEF OpensNone
    <2>5. CASE ps[k].obligation # o
        <3>1. new[k] = ps[k] /\ m \in DOMAIN ps[k].rows
            BY <2>3, <2>5
        <3>2. CalendarRow(obs, ps, off, mon, k, m)
            BY <2>1, <3>1 DEF Calendar
        <3>3. LiveRow(new, k, m) <=> LiveRow(ps, k, m)
            BY <3>1 DEF LiveRow
        <3> QED BY <2>4, <3>1, <3>2, <3>3 DEF CalendarRow
    <2>6. CASE ps[k].obligation = o
        <3>1. /\ new[k] = Retired(ps[k], from)
              /\ Retired(ps[k], from).obligation = ps[k].obligation
              /\ Retired(ps[k], from).status = "SUPERSEDED"
              /\ DOMAIN Retired(ps[k], from).rows = DOMAIN ps[k].rows
            BY <2>2, <2>3, <2>6, RetiredFacts
        <3>2. m \in DOMAIN ps[k].rows
            BY <3>1
        <3>3. Retired(ps[k], from).rows[m] = SupersededRow(ps[k].rows[m], m, from)
            BY <2>2, <3>2, SupersedeRows
        <3>4. CalendarRow(obs, ps, off, mon, k, m) /\ LeavesPast(off, mon, from)
            BY <2>1, <2>6, <3>2 DEF Calendar
        <3> QED BY <2>2, <2>4, <3>1, <3>2, <3>3, <3>4, SupersededKeepsCalendar
    <2> QED BY <2>5, <2>6
<1> QED BY <1>1, <1>2

\* Withdrawing a plan keeps the calendar.
LEMMA CalendarWithdrawn ==
    ASSUME NEW obs, NEW ps \in Seq(Plan), NEW off, NEW mon \in Int, Calendar(obs, ps, off, mon),
           NEW o, NEW current, NEW from \in Int, NEW new, WithdrawnAs(ps, new, o, current, from),
           NEW newObs, OpensNone(obs, newObs, ps), LeavesPast(off, mon, from)
    PROVE  Calendar(newObs, new, off, mon)
<1> SUFFICES ASSUME NEW k \in DOMAIN new, NEW m \in DOMAIN new[k].rows
             PROVE  CalendarRow(newObs, new, off, mon, k, m)
    BY DEF Calendar
<1>1. k \in DOMAIN ps
    BY DEF WithdrawnAs
<1>2. /\ DOMAIN ps[k].rows \subseteq Int
      /\ \A n \in DOMAIN ps[k].rows : ps[k].rows[n] \in Installment
    BY <1>1, PlanFacts
<1>3. /\ new[k].obligation = ps[k].obligation
      /\ new[k].status \in {ps[k].status, "SUPERSEDED"}
      /\ m \in DOMAIN ps[k].rows
      /\ new[k].rows[m] = IF ps[k].obligation = o
                          THEN SupersededRow(ps[k].rows[m], m, from) ELSE ps[k].rows[m]
      /\ ps[k].obligation # o => new[k].status = ps[k].status
    BY <1>1 DEF WithdrawnAs
<1>4. Active(newObs, ps[k].obligation) => Active(obs, ps[k].obligation)
    BY <1>1 DEF OpensNone
<1>5. CalendarRow(obs, ps, off, mon, k, m)
    BY <1>1, <1>3 DEF Calendar
<1>6. CASE ps[k].obligation = o
    <2>1. new[k].rows[m] = SupersededRow(ps[k].rows[m], m, from)
        BY <1>3, <1>6
    <2> QED BY <1>2, <1>3, <1>4, <1>5, <2>1, SupersededKeepsCalendar
<1>7. CASE ps[k].obligation # o
    BY <1>3, <1>4, <1>5, <1>7 DEF CalendarRow, LiveRow
<1> QED BY <1>6, <1>7

\* Writing a row that is published only if it was due keeps the calendar.
LEMMA CalendarRowWritten ==
    ASSUME NEW obs, NEW ps, NEW off, NEW mon, Calendar(obs, ps, off, mon),
           NEW k, NEW m, NEW row, NEW new, RowWritten(ps, new, k, m, row),
           NEW newObs, OpensNone(obs, newObs, ps),
           row.status # "PLANNED", row.status \in Hot => m \in off,
           ~row.closed /\ row.status \in Hot => \A p \in off : p <= m
    PROVE  Calendar(newObs, new, off, mon)
<1> SUFFICES ASSUME NEW j \in DOMAIN new, NEW n \in DOMAIN new[j].rows
             PROVE  CalendarRow(newObs, new, off, mon, j, n)
    BY DEF Calendar
<1>1. /\ j \in DOMAIN ps /\ n \in DOMAIN ps[j].rows
      /\ new[j].obligation = ps[j].obligation /\ new[j].status = ps[j].status
      /\ new[j].rows[n] = IF j = k /\ n = m THEN row ELSE ps[j].rows[n]
    BY DEF RowWritten
<1>2. CalendarRow(obs, ps, off, mon, j, n)
    BY <1>1 DEF Calendar
<1>3. Active(newObs, ps[j].obligation) => Active(obs, ps[j].obligation)
    BY <1>1 DEF OpensNone
<1>4. CASE j = k /\ n = m
    BY <1>1, <1>3, <1>4 DEF CalendarRow, LiveRow
<1>5. CASE ~(j = k /\ n = m)
    <2>1. new[j].rows[n] = ps[j].rows[n]
        BY <1>1, <1>5
    <2> QED BY <1>1, <1>2, <1>3, <2>1 DEF CalendarRow, LiveRow
<1> QED BY <1>4, <1>5

-----------------------------------------------------------------------------
(* One row a month                                                         *)

\* Two plans of an obligation list no row of the same month.
OneListed(obs, ps) ==
    \A j, k \in DOMAIN ps : \A m \in DOMAIN ps[j].rows \cap DOMAIN ps[k].rows :
        /\ ps[j].obligation = ps[k].obligation
        /\ ListedRow(obs, ps, j, m) /\ ListedRow(obs, ps, k, m)
        => j = k

\* A new plan lists only months no other plan of its obligation lists.
LEMMA OneListedPublished ==
    ASSUME NEW obs, NEW ps \in Seq(Plan), OneListed(obs, ps), NEW off, NEW mon,
           Calendar(obs, ps, off, mon),
           NEW o, NEW rows, NEW from \in Int, NEW new, PublishedAs(ps, new, o, rows, from),
           NEW newObs, OpensNone(obs, newObs, ps), off \subseteq Int,
           FreshRows(rows, from), \A m \in DOMAIN rows : \A p \in off : p < m
    PROVE  OneListed(newObs, new)
<1>1. ASSUME NEW k \in DOMAIN ps, NEW m \in DOMAIN new[k].rows, ListedRow(newObs, new, k, m)
      PROVE  /\ m \in DOMAIN ps[k].rows /\ ListedRow(obs, ps, k, m)
             /\ new[k].obligation = ps[k].obligation
             /\ ~ (m \in DOMAIN rows /\ ps[k].obligation = o)
    <2>1. /\ ps[k] \in Plan /\ DOMAIN ps[k].rows \subseteq Int
          /\ \A n \in DOMAIN ps[k].rows : ps[k].rows[n] \in Installment
        BY PlanFacts
    <2>2. new[k] = IF ps[k].obligation = o THEN Retired(ps[k], from) ELSE ps[k]
        BY DEF PublishedAs
    <2>3. Active(newObs, ps[k].obligation) => Active(obs, ps[k].obligation)
        BY DEF OpensNone
    <2>4. CASE ps[k].obligation # o
        <3>1. new[k] = ps[k] /\ m \in DOMAIN ps[k].rows
            BY <2>2, <2>4
        <3>2. Active(newObs, ps[k].obligation)
            BY <1>1, <3>1 DEF ListedRow
        <3> QED BY <1>1, <2>3, <2>4, <3>1, <3>2 DEF ListedRow
    <2>5. CASE ps[k].obligation = o
        <3>1. /\ new[k] = Retired(ps[k], from)
              /\ Retired(ps[k], from).obligation = ps[k].obligation
              /\ DOMAIN Retired(ps[k], from).rows = DOMAIN ps[k].rows
            BY <2>1, <2>2, <2>5, RetiredFacts
        <3>2. m \in DOMAIN ps[k].rows
            BY <3>1
        <3>3. Retired(ps[k], from).rows[m] = SupersededRow(ps[k].rows[m], m, from)
            BY <2>1, <3>2, SupersedeRows
        <3>4. ps[k].rows[m] \in Installment
            BY <2>1, <3>2
        <3>5. /\ SupersededRow(ps[k].rows[m], m, from).status \in {"PLANNED"} \cup Hot
              /\ Active(newObs, ps[k].obligation)
            BY <1>1, <3>1, <3>3 DEF ListedRow
        <3>6. /\ ps[k].rows[m].status \in {"PLANNED"} \cup Hot
              /\ m >= from => ps[k].rows[m].status \in Hot
            BY <3>4, <3>5 DEF SupersededRow, Installment, Hot
        <3>7. ListedRow(obs, ps, k, m)
            BY <2>3, <3>5, <3>6 DEF ListedRow
        <3>8. ASSUME m \in DOMAIN rows
              PROVE  FALSE
            <4>1. m >= from /\ m \in Int /\ \A p \in off : p < m
                BY <3>8 DEF FreshRows
            <4>2. m \in off
                BY <3>2, <3>6, <4>1 DEF Calendar, CalendarRow
            <4> QED BY <4>1, <4>2
        <3> QED BY <3>1, <3>2, <3>7, <3>8
    <2> QED BY <2>4, <2>5
<1>2. ASSUME NEW k \in DOMAIN new, k \notin DOMAIN ps
      PROVE  k = Len(ps) + 1 /\ new[k].rows = rows /\ new[k].obligation = o
    BY <1>2 DEF PublishedAs
<1> SUFFICES ASSUME NEW j \in DOMAIN new, NEW k \in DOMAIN new,
                    NEW m \in DOMAIN new[j].rows \cap DOMAIN new[k].rows,
                    new[j].obligation = new[k].obligation,
                    ListedRow(newObs, new, j, m), ListedRow(newObs, new, k, m)
             PROVE  j = k
    BY DEF OneListed
<1>3. CASE j \in DOMAIN ps /\ k \in DOMAIN ps
    BY <1>1, <1>3 DEF OneListed
<1>4. CASE j \in DOMAIN ps /\ k \notin DOMAIN ps
    BY <1>1, <1>2, <1>4
<1>5. CASE j \notin DOMAIN ps /\ k \in DOMAIN ps
    BY <1>1, <1>2, <1>5
<1>6. CASE j \notin DOMAIN ps /\ k \notin DOMAIN ps
    BY <1>2, <1>6
<1> QED BY <1>3, <1>4, <1>5, <1>6

\* Plans that keep their rows' months and list no row they did not list.
LEMMA OneListedKept ==
    ASSUME NEW obs, NEW ps, OneListed(obs, ps), NEW newObs, NEW new,
           DOMAIN new = DOMAIN ps,
           \A k \in DOMAIN ps : /\ new[k].obligation = ps[k].obligation
                                /\ DOMAIN new[k].rows = DOMAIN ps[k].rows,
           \A k \in DOMAIN ps : \A m \in DOMAIN ps[k].rows :
              ListedRow(newObs, new, k, m) => ListedRow(obs, ps, k, m)
    PROVE  OneListed(newObs, new)
BY DEF OneListed

LEMMA OneListedWithdrawn ==
    ASSUME NEW obs, NEW ps \in Seq(Plan), OneListed(obs, ps),
           NEW o, NEW current, NEW from, NEW new, WithdrawnAs(ps, new, o, current, from),
           NEW newObs, OpensNone(obs, newObs, ps)
    PROVE  OneListed(newObs, new)
<1>1. ASSUME NEW k \in DOMAIN ps, NEW m \in DOMAIN ps[k].rows, ListedRow(newObs, new, k, m)
      PROVE  ListedRow(obs, ps, k, m)
    <2>1. ps[k].rows[m] \in Installment
        BY PlanFacts
    <2>2. /\ new[k].obligation = ps[k].obligation
          /\ new[k].rows[m] = IF ps[k].obligation = o
                              THEN SupersededRow(ps[k].rows[m], m, from) ELSE ps[k].rows[m]
        BY DEF WithdrawnAs
    <2>3. new[k].rows[m].status \in {ps[k].rows[m].status, "SUPERSEDED"}
        BY <2>1, <2>2 DEF SupersededRow, Installment
    <2>4. Active(newObs, ps[k].obligation) => Active(obs, ps[k].obligation)
        BY DEF OpensNone
    <2> QED BY <1>1, <2>2, <2>3, <2>4 DEF ListedRow, Hot
<1>2. /\ DOMAIN new = DOMAIN ps
      /\ \A k \in DOMAIN ps : /\ new[k].obligation = ps[k].obligation
                               /\ DOMAIN new[k].rows = DOMAIN ps[k].rows
    BY DEF WithdrawnAs
<1> QED BY <1>1, <1>2, OneListedKept

\* Writing a row that was listed, if it is.
LEMMA OneListedRowWritten ==
    ASSUME NEW obs, NEW ps, OneListed(obs, ps),
           NEW k, NEW m, NEW row, NEW new, RowWritten(ps, new, k, m, row),
           NEW newObs, OpensNone(obs, newObs, ps),
           row.status \in {"PLANNED"} \cup Hot /\ Active(newObs, ps[k].obligation) =>
              ListedRow(obs, ps, k, m)
    PROVE  OneListed(newObs, new)
<1>1. ASSUME NEW j \in DOMAIN ps, NEW n \in DOMAIN ps[j].rows, ListedRow(newObs, new, j, n)
      PROVE  ListedRow(obs, ps, j, n)
    <2>1. /\ new[j].obligation = ps[j].obligation
          /\ new[j].rows[n] = IF j = k /\ n = m THEN row ELSE ps[j].rows[n]
        BY DEF RowWritten
    <2>2. Active(newObs, ps[j].obligation) => Active(obs, ps[j].obligation)
        BY DEF OpensNone
    <2> QED BY <1>1, <2>1, <2>2 DEF ListedRow
<1>2. /\ DOMAIN new = DOMAIN ps
      /\ \A j \in DOMAIN ps : /\ new[j].obligation = ps[j].obligation
                               /\ DOMAIN new[j].rows = DOMAIN ps[j].rows
    BY DEF RowWritten
<1> QED BY <1>1, <1>2, OneListedKept

-----------------------------------------------------------------------------
(* The first open month                                                    *)

\* After the official months, with no month before it left open.
LEMMA StartNow ==
    ASSUME Shapes, NEW c \in Periods, c <= month,
           \A p \in official : p <= c, c = month \/ c \in official
    PROVE  /\ FirstOpenPeriod(c, official) \in Int
           /\ StartsAfter(official, FirstOpenPeriod(c, official))
           /\ LeavesPast(official, month, FirstOpenPeriod(c, official))
<1> DEFINE from == FirstOpenPeriod(c, official)
<1>1. c \in Int /\ month \in Int /\ official \subseteq Int /\ IsFiniteSet(official)
    BY PeriodsFinite DEF Shapes
<1>2. from \in Int /\ from >= c /\ from \notin official /\ \A n \in c .. from - 1 : n \in official
    BY <1>1, FirstOpenPeriodFound
<1> HIDE DEF from
<1>3. StartsAfter(official, from)
    <2> SUFFICES ASSUME NEW p \in official
                 PROVE  p < from
        BY DEF StartsAfter
    <2>1. p \in Int /\ p <= c /\ p # from
        BY <1>1, <1>2
    <2> QED BY <1>1, <1>2, <2>1
<1>4. LeavesPast(official, month, from)
    <2> SUFFICES ASSUME NEW n \in Int, n < from
                 PROVE  n < month \/ n \in official
        BY DEF LeavesPast
    <2>1. CASE n >= c
        BY <1>1, <1>2, <2>1
    <2>2. CASE n < c
        BY <1>1, <2>2
    <2> QED BY <1>1, <2>1, <2>2
<1> QED BY <1>2, <1>3, <1>4 DEF from

-----------------------------------------------------------------------------
(* What each operation does to the calendar                                *)

InOrder(obs, ps, off, mon) == Calendar(obs, ps, off, mon) /\ OneListed(obs, ps)

\* The months of added plans are not official.
AvoidsOfficial(ps, new, off) == \A k \in DOMAIN new \ DOMAIN ps : DOMAIN new[k].rows \cap off = {}

\* The rows of a new plan, and where they are.
LEMMA NewRowsFresh ==
    ASSUME NEW contractual \in Nat, NEW penalty \in Nat, NEW term \in Nat \ {0}, NEW from \in Int
    PROVE  FreshRows(NewRows(contractual, penalty, term, from), from)
<1>1. from + EffectiveTerm(contractual, term) - 1 \in Int
    BY DEF EffectiveTerm
<1> QED BY <1>1 DEF FreshRows, NewRows, PlanPeriods

\* A plan made after the official months keeps everything in order.
LEMMA PlannedInOrder ==
    ASSUME NEW obs, NEW ps \in Seq(Plan), NEW off, off \subseteq Int, NEW mon \in Int,
           InOrder(obs, ps, off, mon), NEW newObs, NEW o \in DOMAIN newObs,
           NEW contractual \in Nat, NEW penalty \in Nat, NEW term \in Nat \ {0}, NEW from \in Int,
           NEW new, PublishedAs(ps, new, o, NewRows(contractual, penalty, term, from), from),
           OpensNone(obs, newObs, ps),
           \A m \in DOMAIN NewRows(contractual, penalty, term, from) : \A p \in off : p < m,
           (\E k \in DOMAIN ps : ps[k].obligation = o) => LeavesPast(off, mon, from)
    PROVE  InOrder(newObs, new, off, mon) /\ AvoidsOfficial(ps, new, off)
<1> DEFINE rows == NewRows(contractual, penalty, term, from)
<1>1. FreshRows(rows, from)
    BY NewRowsFresh
<1>2. /\ PublishedAs(ps, new, o, rows, from)
      /\ \A m \in DOMAIN rows : \A p \in off : p < m
    OBVIOUS
<1> HIDE DEF rows
<1>3. Calendar(newObs, new, off, mon)
    BY <1>1, <1>2, CalendarPublished DEF InOrder
<1>4. OneListed(newObs, new)
    BY <1>1, <1>2, OneListedPublished DEF InOrder
<1>5. AvoidsOfficial(ps, new, off)
    <2> SUFFICES ASSUME NEW k \in DOMAIN new \ DOMAIN ps
                 PROVE  DOMAIN new[k].rows \cap off = {}
        BY DEF AvoidsOfficial
    <2>1. new[k].rows = rows
        BY <1>2 DEF PublishedAs
    <2>2. DOMAIN rows \subseteq Int
        BY <1>1 DEF FreshRows
    <2> QED BY <1>2, <2>1, <2>2
<1> QED BY <1>3, <1>4, <1>5 DEF InOrder

\* Rows from the first open month on are after every official month.
LEMMA RowsAfter ==
    ASSUME NEW off, off \subseteq Int, NEW from \in Int, StartsAfter(off, from),
           NEW contractual \in Nat, NEW penalty \in Nat, NEW term \in Nat \ {0}
    PROVE  \A m \in DOMAIN NewRows(contractual, penalty, term, from) : \A p \in off : p < m
<1> DEFINE rows == NewRows(contractual, penalty, term, from)
<1>1. FreshRows(rows, from)
    BY NewRowsFresh
<1> HIDE DEF rows
<1>2. \A m \in DOMAIN rows : \A p \in off : p < m
    BY <1>1 DEF FreshRows, StartsAfter
<1> QED BY <1>2 DEF rows

\* The order that holds in every reachable state.
OrderInv ==
    /\ PlanInv
    /\ InOrder(obligations, plans, official, month)
    /\ closing.period # 0 => closing.period \in official
    /\ \A k \in closing.todo :
          /\ closing.period \in official
          /\ \A p \in official : p <= closing.period
          /\ Active(obligations, plans[k].obligation) => LiveRow(plans, k, closing.period)

\* The plain facts of the invariant.
LEMMA OrderFacts ==
    ASSUME OrderInv
    PROVE  /\ IInv /\ Shapes /\ OneCurrent(obligations, plans)
           /\ Calendar(obligations, plans, official, month)
           /\ OneListed(obligations, plans)
           /\ plans \in Seq(Plan) /\ obligations \in Seq(Obligation)
           /\ official \subseteq Int /\ official \subseteq Periods
           /\ month \in Int /\ month \in Periods
           /\ \A k \in DOMAIN plans : plans[k].obligation \in DOMAIN obligations
           /\ \A p \in official : p <= month
BY PeriodsFinite DEF OrderInv, PlanInv, InOrder, Calendar, IInv, Shapes, PlanRefs

\* The first open month from now on, for every operation but a close.
LEMMA FromNow ==
    ASSUME OrderInv
    PROVE  /\ FirstOpenPeriod(month, official) \in Int
           /\ StartsAfter(official, FirstOpenPeriod(month, official))
           /\ LeavesPast(official, month, FirstOpenPeriod(month, official))
<1>1. month <= month
    BY OrderFacts
<1> QED BY <1>1, OrderFacts, StartNow

\* What OrderlyStep leaves of the step: one action, and nothing but a close during a close.
OwnStep ==
    /\ UNCHANGED <<month, official, closing>>
    /\ \/ \E w \in Workers : \E term \in Nat \ {0}, from \in Int : CreateBaseline(w, term, from)
       \/ \E total \in Nat, tenure \in Nat \ {0} : DisburseFirst(total, tenure)
       \/ \E o \in DOMAIN obligations : \E total \in Nat, tenure \in Nat \ {0} :
             \E isTopup \in BOOLEAN : DisburseTopUp(o, total, tenure, isTopup)
       \/ \E total \in Nat, tenure, legacyTerm \in Nat \ {0} :
             \E isTopup \in BOOLEAN : DisburseOnLegacy(total, tenure, legacyTerm, isTopup)
       \/ \E m \in Periods, amount \in Nat \ {0} : ApplyPayrollPayment(m, amount)
       \/ \E o \in DOMAIN obligations : \E amount \in Nat : ApplyUnscheduledPayment(o, amount)
       \/ \E o \in DOMAIN obligations : \E amount \in Nat : AdjustPenalty(o, amount)
       \/ \E o \in DOMAIN obligations : \E term \in Nat \ {0} : ChangeTenure(o, term)

PlainStep ==
    /\ UNCHANGED <<obligations, plans>>
    /\ \/ UNCHANGED vars
       \/ NextMonth
       \/ \E m \in Periods : StartClosing(m)
       \/ closing' = NotClosing /\ UNCHANGED <<month, official>>
       \/ UNCHANGED <<month, official, closing>>

LEMMA OrderlyCases ==
    ASSUME [Next /\ OrderlyStep]_vars
    PROVE  /\ [Next]_vars
           /\ PlainStep \/ OwnStep
              \/ (\E m \in Periods : \E onPayroll \in BOOLEAN : SubmitVariation(m, onPayroll))
              \/ (\E k \in closing.todo : CloseSettled(k))
              \/ (\E k \in closing.todo : CloseDefaulted(k))
           /\ OrderlyStep \/ UNCHANGED vars
<1>1. [Next]_vars /\ (OrderlyStep \/ UNCHANGED vars)
    OBVIOUS
<1>2. CASE UNCHANGED vars
    BY <1>1, <1>2 DEF PlainStep, vars
<1>3. /\ NextMonth => PlainStep
      /\ FinishClosing => PlainStep
      /\ \A m \in Periods : StartClosing(m) => PlainStep
      /\ \A k \in closing.todo : ClosingFails(k) => PlainStep
      /\ \A w \in Workers : ListBorrower(w) \/ FindNoneOpen(w) \/ BackfillEnds(w) => PlainStep
    BY DEF NextMonth, FinishClosing, StartClosing, ClosingFails, ListBorrower, FindNoneOpen,
           BackfillEnds, PlainStep
<1>4. /\ \A total \in LoanTotals : total \in Nat
      /\ \A term \in Tenures : term \in Nat \ {0}
      /\ \A amount \in Receipts : amount \in Nat \ {0}
      /\ \A amount \in Waivers : amount \in Nat
      /\ \A from \in Periods : from \in Int
    BY ConstantsAssumption, PeriodsFinite DEF ConstantsAssumption
<1>5. ASSUME NEW w \in Workers, NEW term \in Tenures, NEW from \in Periods,
             CreateBaseline(w, term, from)
      PROVE  OwnStep
    <2>1. UNCHANGED <<month, official, closing>>
        BY <1>5 DEF CreateBaseline
    <2> QED BY <1>4, <1>5, <2>1 DEF OwnStep
<1>6. ASSUME NEW total \in LoanTotals, NEW tenure \in Tenures, DisburseFirst(total, tenure)
      PROVE  OwnStep
    <2>1. UNCHANGED <<month, official, closing>>
        BY <1>6 DEF DisburseFirst
    <2> QED BY <1>4, <1>6, <2>1 DEF OwnStep
<1>7. ASSUME NEW total \in LoanTotals, NEW tenure \in Tenures, NEW o \in DOMAIN obligations,
             NEW isTopup \in BOOLEAN, DisburseTopUp(o, total, tenure, isTopup)
      PROVE  OwnStep
    <2>1. UNCHANGED <<month, official, closing>>
        BY <1>7 DEF DisburseTopUp
    <2> QED BY <1>4, <1>7, <2>1 DEF OwnStep
<1>8. ASSUME NEW total \in LoanTotals, NEW tenure \in Tenures, NEW legacyTerm \in Tenures,
             NEW isTopup \in BOOLEAN, DisburseOnLegacy(total, tenure, legacyTerm, isTopup)
      PROVE  OwnStep
    <2>1. UNCHANGED <<month, official, closing>>
        BY <1>8 DEF DisburseOnLegacy
    <2> QED BY <1>4, <1>8, <2>1 DEF OwnStep
<1>9. ASSUME NEW m \in Periods, NEW amount \in Receipts, ApplyPayrollPayment(m, amount)
      PROVE  OwnStep
    <2>1. UNCHANGED <<month, official, closing>>
        BY <1>9 DEF ApplyPayrollPayment
    <2> QED BY <1>4, <1>9, <2>1 DEF OwnStep
<1>10. ASSUME NEW o \in DOMAIN obligations, NEW amount \in Receipts,
              ApplyUnscheduledPayment(o, amount)
       PROVE  OwnStep
    <2>1. UNCHANGED <<month, official, closing>>
        BY <1>10 DEF ApplyUnscheduledPayment
    <2> QED BY <1>4, <1>10, <2>1 DEF OwnStep
<1>11. ASSUME NEW o \in DOMAIN obligations, NEW amount \in Waivers, AdjustPenalty(o, amount)
       PROVE  OwnStep
    <2>1. UNCHANGED <<month, official, closing>>
        BY <1>11 DEF AdjustPenalty
    <2> QED BY <1>4, <1>11, <2>1 DEF OwnStep
<1>12. ASSUME NEW o \in DOMAIN obligations, NEW term \in Tenures, ChangeTenure(o, term)
       PROVE  OwnStep
    <2>1. UNCHANGED <<month, official, closing>>
        BY <1>12 DEF ChangeTenure
    <2> QED BY <1>4, <1>12, <2>1 DEF OwnStep
<1>13. CASE Next
    BY <1>1, <1>3, <1>5, <1>6, <1>7, <1>8, <1>9, <1>10, <1>11, <1>12, <1>13, Zenon DEF Next
<1> QED BY <1>1, <1>2, <1>13

\* A new obligation has no plan yet, and opens none of the others.
LEMMA OpenedInOrder ==
    ASSUME OrderInv, IInv', NEW ob \in Obligation, obligations' = Append(obligations, ob)
    PROVE  /\ OpensNone(obligations, obligations', plans)
           /\ Len(obligations) + 1 \in DOMAIN obligations'
           /\ obligations'[Len(obligations) + 1] = ob
           /\ \A q \in DOMAIN obligations : obligations'[q] = obligations[q] /\ q \in DOMAIN obligations'
           /\ DOMAIN obligations' = DOMAIN obligations \cup {Len(obligations) + 1}
           /\ \A k \in DOMAIN plans : /\ plans[k].obligation \in DOMAIN obligations'
                                      /\ plans[k].obligation # Len(obligations) + 1
<1>1. /\ DOMAIN obligations = 1 .. Len(obligations) /\ Len(obligations) \in Nat
      /\ \A k \in DOMAIN plans : plans[k].obligation \in DOMAIN obligations
    BY OrderFacts, ObligationFacts
<1>2. /\ DOMAIN obligations' = 1 .. Len(obligations) + 1
      /\ \A q \in 1 .. Len(obligations) : obligations'[q] = obligations[q]
      /\ obligations'[Len(obligations) + 1] = ob
    <2>1. /\ Append(obligations, ob) \in Seq(Obligation)
          /\ Len(Append(obligations, ob)) = Len(obligations) + 1
          /\ \A q \in 1 .. Len(obligations) : Append(obligations, ob)[q] = obligations[q]
          /\ Append(obligations, ob)[Len(obligations) + 1] = ob
        BY OrderFacts, AppendProperties
    <2> QED BY <2>1, LenProperties
<1>4. OpensNone(obligations, obligations', plans)
    BY <1>1, <1>2 DEF OpensNone, Active
<1>5. DOMAIN obligations' = DOMAIN obligations \cup {Len(obligations) + 1}
    BY <1>1, <1>2
<1> QED BY <1>1, <1>2, <1>4, <1>5

\* Moving one obligation without reopening it.
LEMMA MovedInOrder ==
    ASSUME OrderInv, IInv', NEW o \in DOMAIN obligations, NEW contractual, NEW penalty,
           NEW status \in {obligations[o].status, "SETTLED"}, NEW plan,
           ObligationMoves(o, contractual, penalty, status, plan)
    PROVE  /\ OpensNone(obligations, obligations', plans)
           /\ o \in DOMAIN obligations'
           /\ \A k \in DOMAIN plans : plans[k].obligation \in DOMAIN obligations'
<1>1. OpensNone(obligations, obligations', plans)
    BY OrderFacts DEF OpensNone, Active, ObligationMoves
<1> QED BY <1>1, OrderFacts DEF ObligationMoves

LEMMA StatusAfterCases ==
    ASSUME NEW status, NEW contractual, NEW penalty
    PROVE  StatusAfter(status, contractual, penalty) \in {status, "SETTLED"}
BY DEF StatusAfter

\* A plan for an obligation there was, from the first open month on.
LEMMA ExistingPlannedInOrder ==
    ASSUME OrderInv, IInv', NEW o \in DOMAIN obligations, NEW contractual, NEW penalty,
           NEW status \in {obligations[o].status, "SETTLED"}, NEW plan,
           ObligationMoves(o, contractual, penalty, status, plan),
           NEW c \in Nat, NEW p \in Nat, NEW term \in Nat \ {0},
           NEW from \in Int, StartsAfter(official, from), LeavesPast(official, month, from),
           NEW ps \in Seq(Plan), InOrder(obligations, ps, official, month),
           DOMAIN ps = DOMAIN plans,
           \A k \in DOMAIN ps : ps[k].obligation = plans[k].obligation,
           PublishedAs(ps, plans', o, NewRows(c, p, term, from), from)
    PROVE  /\ InOrder(obligations', plans', official, month)
           /\ AvoidsOfficial(plans, plans', official)
<1>1. /\ OpensNone(obligations, obligations', ps)
      /\ o \in DOMAIN obligations'
      /\ \A k \in DOMAIN ps : ps[k].obligation \in DOMAIN obligations'
    BY MovedInOrder DEF OpensNone
<1>2. \A m \in DOMAIN NewRows(c, p, term, from) : \A q \in official : q < m
    BY OrderFacts, RowsAfter
<1>3. InOrder(obligations', plans', official, month) /\ AvoidsOfficial(ps, plans', official)
    BY <1>1, <1>2, OrderFacts, PlannedInOrder
<1> QED BY <1>3 DEF AvoidsOfficial

LEMMA ReplannedInOrder ==
    ASSUME OrderInv, IInv', NEW o \in DOMAIN obligations, NEW contractual \in Nat,
           NEW penalty \in Nat, NEW status \in {obligations[o].status, "SETTLED"},
           NEW term \in Nat \ {0},
           Replanned(o, contractual, penalty, status, term, FirstOpenPeriod(month, official))
    PROVE  /\ InOrder(obligations', plans', official, month)
           /\ AvoidsOfficial(plans, plans', official)
<1> DEFINE from == FirstOpenPeriod(month, official)
           fc == Available(o, from, contractual, penalty).contractual
           fp == Available(o, from, contractual, penalty).penalty
<1>1. /\ fc \in Nat /\ fp \in Nat
      /\ fc > 0 \/ fp > 0 =>
            /\ PublishedAs(plans, plans', o, NewRows(fc, fp, term, from), from)
            /\ ObligationMoves(o, contractual, penalty, status, Len(plans) + 1)
      /\ fc = 0 /\ fp = 0 =>
            /\ WithdrawnAs(plans, plans', o, obligations[o].currentPlan, from)
            /\ ObligationMoves(o, contractual, penalty, status, NoPlan)
    BY DEF Replanned
<1>2. /\ from \in Int /\ StartsAfter(official, from) /\ LeavesPast(official, month, from)
    BY FromNow
<1>3. InOrder(obligations, plans, official, month) /\ plans \in Seq(Plan)
    BY OrderFacts DEF OrderInv
<1> HIDE DEF from, fc, fp
<1>4. CASE fc > 0 \/ fp > 0
    <2>1. /\ PublishedAs(plans, plans', o, NewRows(fc, fp, term, from), from)
          /\ ObligationMoves(o, contractual, penalty, status, Len(plans) + 1)
        BY <1>1, <1>4
    <2> QED BY <1>1, <1>2, <1>3, <2>1, ExistingPlannedInOrder
<1>5. CASE fc = 0 /\ fp = 0
    <2>1. /\ WithdrawnAs(plans, plans', o, obligations[o].currentPlan, from)
          /\ ObligationMoves(o, contractual, penalty, status, NoPlan)
        BY <1>1, <1>5
    <2>2. OpensNone(obligations, obligations', plans)
        BY <2>1, MovedInOrder
    <2>3. Calendar(obligations', plans', official, month)
        BY <1>2, <2>1, <2>2, OrderFacts, CalendarWithdrawn
    <2>4. OneListed(obligations', plans')
        BY <2>1, <2>2, OrderFacts, OneListedWithdrawn
    <2>5. AvoidsOfficial(plans, plans', official)
        BY <2>1 DEF WithdrawnAs, AvoidsOfficial
    <2> QED BY <2>3, <2>4, <2>5 DEF InOrder
<1> QED BY <1>1, <1>4, <1>5

\* A baseline starts after the official months, by the order of work.
LEMMA BaselineInOrder ==
    ASSUME OrderInv, IInv', OrderlyStep, NEW w \in Workers, NEW term \in Nat \ {0},
           NEW from \in Int, CreateBaseline(w, term, from)
    PROVE  /\ InOrder(obligations', plans', official, month)
           /\ AvoidsOfficial(plans, plans', official)
<1> DEFINE o == Len(obligations) + 1
           ob == NewObligation(LoansOwe, LoansOwePenalty, Len(plans) + 1)
           rows == NewRows(LoansOwe, LoansOwePenalty, term, from)
<1>1. PublishedAs(plans, plans', o, rows, from)
    BY OrderFacts, CreateBaselineEffect
<1>2. obligations' = Append(obligations, ob)
    BY OrderFacts, CreateBaselineEffect
<1>3. ob \in Obligation
    <2>1. Len(plans) + 1 \in Nat /\ LoansOwe \in Nat /\ LoansOwePenalty \in Nat
        BY OrderFacts, PlanFacts, LoansOweNat
    <2> QED BY <2>1, NewObligationShape
<1>4. \A m \in DOMAIN rows : \A p \in official : p < m
    <2>1. baselined' # baselined
        BY DEF CreateBaseline, BaselinePossible
    <2>2. plans'[Len(plans) + 1].rows = rows
        BY <1>1 DEF PublishedAs
    <2> HIDE DEF rows
    <2> QED BY <2>1, <2>2 DEF OrderlyStep
<1> HIDE DEF ob
<1>5. /\ OpensNone(obligations, obligations', plans)
      /\ o \in DOMAIN obligations'
      /\ \A k \in DOMAIN plans : plans[k].obligation \in DOMAIN obligations' /\ plans[k].obligation # o
    BY <1>2, <1>3, OpenedInOrder
<1>6. InOrder(obligations, plans, official, month)
    BY DEF OrderInv
<1> HIDE DEF o
<1> QED BY <1>1, <1>4, <1>5, <1>6, OrderFacts, LoansOweNat, PlannedInOrder

LEMMA DisburseFirstInOrder ==
    ASSUME OrderInv, IInv', NEW total \in Nat, NEW tenure \in Nat \ {0}, DisburseFirst(total, tenure)
    PROVE  /\ InOrder(obligations', plans', official, month)
           /\ AvoidsOfficial(plans, plans', official)
<1> DEFINE o == Len(obligations) + 1
           from == FirstOpenPeriod(month, official)
           ob == NewObligation(total, 0, Len(plans) + 1)
<1>1. PublishedAs(plans, plans', o, NewRows(total, 0, tenure, from), from)
    BY OrderFacts, DisburseFirstEffect
<1>2. obligations' = Append(obligations, ob)
    BY OrderFacts, DisburseFirstEffect
<1>3. ob \in Obligation
    BY OrderFacts, PlanFacts, NewObligationShape
<1>4. from \in Int /\ StartsAfter(official, from) /\ LeavesPast(official, month, from)
    BY FromNow
<1> HIDE DEF ob, from
<1>5. \A m \in DOMAIN NewRows(total, 0, tenure, from) : \A p \in official : p < m
    BY <1>4, OrderFacts, RowsAfter
<1>6. /\ OpensNone(obligations, obligations', plans)
      /\ o \in DOMAIN obligations'
      /\ \A k \in DOMAIN plans : plans[k].obligation \in DOMAIN obligations' /\ plans[k].obligation # o
    BY <1>2, <1>3, OpenedInOrder
<1>7. InOrder(obligations, plans, official, month)
    BY DEF OrderInv
<1> HIDE DEF o
<1> QED BY <1>1, <1>4, <1>5, <1>6, <1>7, OrderFacts, PlannedInOrder

\* The baseline and the plan that replaces it.
LEMMA DisburseOnLegacyInOrder ==
    ASSUME OrderInv, IInv', OrderlyStep, NEW total \in Nat, NEW tenure \in Nat \ {0},
           NEW legacyTerm \in Nat \ {0}, NEW isTopup \in BOOLEAN,
           DisburseOnLegacy(total, tenure, legacyTerm, isTopup)
    PROVE  /\ InOrder(obligations', plans', official, month)
           /\ AvoidsOfficial(plans, plans', official)
<1> DEFINE o == Len(obligations) + 1
           from == FirstOpenPeriod(month, official)
           ob == NewObligation(LoansOwe + total, LoansOwePenalty, Len(plans) + 2)
           rows == NewRows(LoansOwe, LoansOwePenalty, legacyTerm, month)
<1>1. /\ \E baseline \in Seq(Plan), term \in Nat \ {0} :
            /\ PublishedAs(plans, baseline, o, rows, month)
            /\ PublishedAs(baseline, plans', o,
                           NewRows(LoansOwe + total, LoansOwePenalty, term, from), from)
      /\ obligations' = Append(obligations, ob)
    BY OrderFacts, DisburseOnLegacyEffect
<1>2. LoansOwe \in Nat /\ LoansOwePenalty \in Nat /\ LoansOwe + total \in Nat
    BY OrderFacts, LoansOweNat
<1>3. ob \in Obligation
    <2>1. Len(plans) + 2 \in Nat
        BY OrderFacts, PlanFacts
    <2> QED BY <1>2, <2>1, NewObligationShape
<1>4. from \in Int /\ StartsAfter(official, from) /\ LeavesPast(official, month, from)
    BY FromNow
<1> HIDE DEF ob, from
<1>5. PICK baseline \in Seq(Plan), term \in Nat \ {0} :
            /\ PublishedAs(plans, baseline, o, rows, month)
            /\ PublishedAs(baseline, plans', o,
                           NewRows(LoansOwe + total, LoansOwePenalty, term, from), from)
    BY <1>1
<1>6. /\ OpensNone(obligations, obligations', plans)
      /\ o \in DOMAIN obligations'
      /\ \A k \in DOMAIN plans : plans[k].obligation \in DOMAIN obligations' /\ plans[k].obligation # o
    BY <1>1, <1>3, OpenedInOrder
<1>7. o \in Nat /\ o = Len(obligations) + 1
    BY OrderFacts, ObligationFacts
<1>8. Len(baseline) = Len(plans) + 1 /\ Len(plans) \in Nat
    BY <1>5, PlanFacts, OrderFacts DEF PublishedAs
<1>9. \A m \in DOMAIN rows : \A p \in official : p < m
    <2>1. baselined' # baselined
        BY DEF DisburseOnLegacy, BaselinePossible
    <2>2. DOMAIN plans'[Len(plans) + 1].rows = DOMAIN rows
        <3> DEFINE k == Len(plans) + 1
        <3>1. k \in DOMAIN baseline /\ baseline[k].rows = rows /\ baseline[k].obligation = o
            BY <1>5 DEF PublishedAs
        <3>2. plans'[k] = Retired(baseline[k], from)
            BY <1>5, <3>1 DEF PublishedAs
        <3>3. baseline[k] \in Plan
            BY <3>1, PlanFacts
        <3> HIDE DEF rows, k
        <3>4. DOMAIN plans'[k].rows = DOMAIN rows
            BY <1>4, <3>1, <3>2, <3>3, RetiredFacts
        <3> QED BY <3>4 DEF k
    <2> HIDE DEF rows
    <2> QED BY <2>1, <2>2 DEF OrderlyStep
<1>10. InOrder(obligations, plans, official, month)
    BY DEF OrderInv
<1> HIDE DEF o
<1>11. InOrder(obligations', baseline, official, month) /\ AvoidsOfficial(plans, baseline, official)
    BY <1>2, <1>5, <1>6, <1>9, <1>10, OrderFacts, PlannedInOrder
<1>12. /\ OpensNone(obligations', obligations', baseline)
       /\ \A k \in DOMAIN baseline : baseline[k].obligation \in DOMAIN obligations'
    <2>1. \A k \in DOMAIN plans : baseline[k].obligation = plans[k].obligation
        BY <1>5, <1>6 DEF PublishedAs
    <2>2. \A k \in DOMAIN baseline : k \in DOMAIN plans \/ baseline[k].obligation = o
        BY <1>5 DEF PublishedAs
    <2> QED BY <1>6, <2>1, <2>2 DEF OpensNone
<1>13. \A m \in DOMAIN NewRows(LoansOwe + total, LoansOwePenalty, term, from) :
          \A p \in official : p < m
    BY <1>2, <1>4, OrderFacts, RowsAfter
<1>14. InOrder(obligations', plans', official, month) /\ AvoidsOfficial(baseline, plans', official)
    BY <1>2, <1>4, <1>5, <1>6, <1>11, <1>12, <1>13, OrderFacts, PlannedInOrder
<1>15. AvoidsOfficial(plans, plans', official)
    <2> SUFFICES ASSUME NEW k \in DOMAIN plans' \ DOMAIN plans
                 PROVE  DOMAIN plans'[k].rows \cap official = {}
        BY DEF AvoidsOfficial
    <2>1. CASE k \notin DOMAIN baseline
        BY <1>14, <2>1 DEF AvoidsOfficial
    <2>2. CASE k \in DOMAIN baseline
        <3>1. DOMAIN baseline[k].rows \cap official = {}
            BY <1>11, <2>2 DEF AvoidsOfficial
        <3>2. baseline[k] \in Plan
            BY <2>2, PlanFacts
        <3>3. plans'[k] \in {baseline[k], Retired(baseline[k], from)}
            BY <1>5, <2>2 DEF PublishedAs
        <3>4. DOMAIN plans'[k].rows = DOMAIN baseline[k].rows
            BY <1>4, <3>2, <3>3, RetiredFacts
        <3> QED BY <3>1, <3>4
    <2> QED BY <2>1, <2>2
<1> QED BY <1>14, <1>15

\* A payment publishes no row and lists none anew: it is on a row of the last official month.
LEMMA PayrollInOrder ==
    ASSUME OrderInv, IInv', OrderlyStep, NEW m \in Periods, NEW amount \in Nat \ {0},
           ApplyPayrollPayment(m, amount)
    PROVE  /\ InOrder(obligations', plans', official, month)
           /\ AvoidsOfficial(plans, plans', official)
<1>1. PICK o \in DOMAIN obligations, k \in DOMAIN plans, received \in Nat, applied \in Nat :
         PaysRow(o, k, m, received, applied)
    BY OrderFacts, ApplyPayrollPaymentEffect
<1> DEFINE was == plans[k].rows[m]
           pp == PenaltyPart(o, applied)
           taken == ContractualTaken(o, applied)
           row == PaidRow(was, received, taken, pp)
<1>2. /\ m \in DOMAIN plans[k].rows /\ plans[k].obligation = o /\ LiveRow(plans, k, m)
      /\ was.status \in {"PLANNED"} \cup Hot
    BY <1>1 DEF PaysRow, Payable, PlansOf, LiveRow, Hot
<1>3. was \in Installment
    BY <1>2, OrderFacts, PlanFacts
<1>4. pp \in Nat /\ taken \in Nat /\ RowWritten(plans, plans', k, m, row)
      /\ (received = 0 => RemainingDue(was) = 0)
    BY <1>1 DEF PaysRow
<1>5. CollectedOn(row, was, received, taken, pp)
    BY <1>3, <1>4, PaidRowFields
<1>6. OpensNone(obligations, obligations', plans)
    <2>1. StatusAfter(obligations[o].status, ContractualLeft(o, applied), PenaltyLeft(o, applied))
             \in {obligations[o].status, "SETTLED"}
        BY StatusAfterCases
    <2> QED BY <1>1, <2>1, MovedInOrder DEF PaysRow
<1>7. plans'[k].rows[m] = row
    BY <1>2, <1>4 DEF RowWritten
<1> HIDE DEF row, was, pp, taken
<1>8. row.status = "PARTIAL" => row.paid # was.paid
    <2>1. was.scheduled \in Int /\ was.penaltyDue \in Nat /\ was.paid \in Nat
        BY <1>3 DEF Installment
    <2>2. row.paid = was.paid + received
          /\ row.status = IF was.paid + received >= TotalExpected(was) THEN "PAID" ELSE "PARTIAL"
        BY <1>5 DEF CollectedOn
    <2>3. TotalExpected(was) \in Int
        BY <2>1 DEF TotalExpected
    <2>4. received = 0 => was.paid >= TotalExpected(was)
        BY <1>4, <2>1, <2>3 DEF RemainingDue, Floor0
    <2> QED BY <2>1, <2>2, <2>3, <2>4
<1>9. row.status \in {"PAID", "PARTIAL"} /\ (row.status = "PARTIAL" => m \in official)
    <2>1. row.status \in {"PAID", "PARTIAL"}
        BY <1>5 DEF CollectedOn
    <2>2. plans'[k].rows[m].paid # plans[k].rows[m].paid => m \in official
        BY <1>2 DEF OrderlyStep
    <2> QED BY <1>7, <1>8, <2>1, <2>2 DEF was
<1>10. \A p \in official : p <= m
    BY <1>2, OrderFacts DEF Calendar, CalendarRow
<1>11. Calendar(obligations', plans', official, month)
    BY <1>4, <1>6, <1>9, <1>10, OrderFacts, CalendarRowWritten DEF Hot
<1>12. Active(obligations', plans[k].obligation) => ListedRow(obligations, plans, k, m)
    BY <1>2, <1>6 DEF OpensNone, ListedRow, was
<1>13. OneListed(obligations', plans')
    BY <1>4, <1>6, <1>12, OrderFacts, OneListedRowWritten
<1>14. AvoidsOfficial(plans, plans', official)
    BY <1>4 DEF RowWritten, AvoidsOfficial
<1> QED BY <1>11, <1>13, <1>14 DEF InOrder

\* Every operation but a submission and a close.
LEMMA OwnStepInOrder ==
    ASSUME OrderInv, IInv', OrderlyStep, OwnStep
    PROVE  /\ InOrder(obligations', plans', official, month)
           /\ AvoidsOfficial(plans, plans', official)
<1> DEFINE Good == /\ InOrder(obligations', plans', official, month)
                   /\ AvoidsOfficial(plans, plans', official)
<1>1. ASSUME NEW w \in Workers, NEW term \in Nat \ {0}, NEW from \in Int,
             CreateBaseline(w, term, from)
      PROVE  Good
    BY <1>1, BaselineInOrder
<1>2. ASSUME NEW total \in Nat, NEW tenure \in Nat \ {0}, DisburseFirst(total, tenure)
      PROVE  Good
    BY <1>2, DisburseFirstInOrder
<1>3. ASSUME NEW o \in DOMAIN obligations, NEW total \in Nat, NEW tenure \in Nat \ {0},
             NEW isTopup \in BOOLEAN, DisburseTopUp(o, total, tenure, isTopup)
      PROVE  Good
    <2> DEFINE from == FirstOpenPeriod(month, official)
               was == obligations[o]
               future == Available(o, from, was.contractual, was.penalty)
    <2>1. /\ future.contractual \in Nat /\ future.penalty \in Nat
          /\ \E term \in Nat \ {0} :
                PublishedAs(plans, plans', o,
                            NewRows(future.contractual + total, future.penalty, term, from), from)
          /\ ObligationMoves(o, was.contractual + total, was.penalty, was.status, Len(plans) + 1)
        BY <1>3, OrderFacts, DisburseTopUpEffect
    <2>2. /\ from \in Int /\ StartsAfter(official, from) /\ LeavesPast(official, month, from)
        BY FromNow
    <2> DEFINE fc == future.contractual + total
               fp == future.penalty
    <2>3. PICK term \in Nat \ {0} : PublishedAs(plans, plans', o, NewRows(fc, fp, term, from), from)
        BY <2>1
    <2>4. fc \in Nat /\ fp \in Nat
        BY <2>1
    <2>5. InOrder(obligations, plans, official, month) /\ plans \in Seq(Plan)
        BY OrderFacts DEF OrderInv
    <2> HIDE DEF from, fc, fp
    <2> QED BY <2>1, <2>2, <2>3, <2>4, <2>5, ExistingPlannedInOrder
<1>4. ASSUME NEW total \in Nat, NEW tenure \in Nat \ {0}, NEW legacyTerm \in Nat \ {0},
             NEW isTopup \in BOOLEAN, DisburseOnLegacy(total, tenure, legacyTerm, isTopup)
      PROVE  Good
    BY <1>4, DisburseOnLegacyInOrder
<1>5. ASSUME NEW m \in Periods, NEW amount \in Nat \ {0}, ApplyPayrollPayment(m, amount)
      PROVE  Good
    BY <1>5, PayrollInOrder
<1>6. ASSUME NEW o \in DOMAIN obligations, NEW amount \in Nat, ApplyUnscheduledPayment(o, amount)
      PROVE  Good
    <2>1. PICK applied \in Nat, term \in Nat \ {0} :
              LET contractual == ContractualLeft(o, applied)
                  penalty == PenaltyLeft(o, applied)
              IN  /\ applied <= obligations[o].contractual + obligations[o].penalty
                  /\ contractual \in Nat /\ penalty \in Nat
                  /\ Replanned(o, contractual, penalty,
                               StatusAfter(obligations[o].status, contractual, penalty),
                               term, FirstOpenPeriod(month, official))
        BY <1>6, OrderFacts, ApplyUnscheduledPaymentEffect
    <2> QED BY <2>1, StatusAfterCases, ReplannedInOrder
<1>7. ASSUME NEW o \in DOMAIN obligations, NEW amount \in Nat, AdjustPenalty(o, amount)
      PROVE  Good
    <2> DEFINE penalty == obligations[o].penalty - amount
               contractual == obligations[o].contractual
    <2>1. /\ penalty \in Nat
          /\ \E term \in Nat \ {0} :
                Replanned(o, contractual, penalty,
                          StatusAfter(obligations[o].status, contractual, penalty),
                          term, FirstOpenPeriod(month, official))
        BY <1>7, OrderFacts, AdjustPenaltyEffect
    <2>2. contractual \in Nat
        BY OrderFacts, BooksOf
    <2> HIDE DEF penalty, contractual
    <2> QED BY <2>1, <2>2, StatusAfterCases, ReplannedInOrder
<1>8. ASSUME NEW o \in DOMAIN obligations, NEW term \in Nat \ {0}, ChangeTenure(o, term)
      PROVE  Good
    <2>1. Replanned(o, obligations[o].contractual, obligations[o].penalty,
                    obligations[o].status, term, FirstOpenPeriod(month, official))
        BY <1>8, OrderFacts, ChangeTenureEffect
    <2>2. obligations[o].contractual \in Nat /\ obligations[o].penalty \in Nat
        BY OrderFacts, BooksOf
    <2> QED BY <2>1, <2>2, ReplannedInOrder
<1> HIDE DEF Good
<1>9. Good
    BY <1>1, <1>2, <1>3, <1>4, <1>5, <1>6, <1>7, <1>8 DEF OwnStep
<1> QED BY <1>9 DEF Good

(***************************************************************************)
(* A submission publishes the month's rows: the row of an open debt, if it *)
(* was planned, is of the current month and of the current plan.           *)
(***************************************************************************)
LEMMA SubmitInOrder ==
    ASSUME OrderInv, OrderlyStep, NEW m \in Periods, NEW onPayroll \in BOOLEAN,
           SubmitVariation(m, onPayroll)
    PROVE  /\ InOrder(obligations', plans', official', month')
           /\ AvoidsOfficial(plans, plans', official)
           /\ \A k \in DOMAIN plans : \A n \in DOMAIN plans[k].rows :
                 Active(obligations, plans[k].obligation) =>
                    (LiveRow(plans', k, n) <=> LiveRow(plans, k, n))
<1>1. obligations' = obligations /\ month' = month /\ official' = official \cup {m}
    BY DEF SubmitVariation
<1>2. /\ DOMAIN plans' = DOMAIN plans
      /\ \A k \in DOMAIN plans :
            /\ plans'[k].obligation = plans[k].obligation
            /\ plans'[k].status = plans[k].status
            /\ DOMAIN plans'[k].rows = DOMAIN plans[k].rows
            /\ \A n \in DOMAIN plans[k].rows :
                  \/ plans'[k].rows[n] = plans[k].rows[n]
                  \/ /\ k \in Eligible(m) /\ n = m
                     /\ plans'[k].rows[n] = [plans[k].rows[n] EXCEPT !.status = "PUBLISHED"]
    BY OrderFacts, SubmitVariationEffect
<1>3. m \notin official => /\ m = month
                           /\ \A o \in DOMAIN obligations : \A c \in Collectable(o) : c[2] >= month
                           /\ \A k \in Eligible(m) : plans'[k].rows[m].status = "PUBLISHED"
    <2>1. ASSUME m \notin official
          PROVE  /\ official' = official \cup {month}
                 /\ \A o \in DOMAIN obligations : \A c \in Collectable(o) : c[2] >= month
                 /\ \A k \in Eligible(month) : plans'[k].rows[month].status = "PUBLISHED"
        <3>1. official' # official
            BY <1>1, <2>1
        <3> QED BY <3>1 DEF OrderlyStep
    <2> QED BY <1>1, <2>1
<1>4. ASSUME NEW k \in DOMAIN plans, NEW n \in DOMAIN plans[k].rows
      PROVE  /\ CalendarRow(obligations', plans', official', month', k, n)
             /\ ListedRow(obligations', plans', k, n) => ListedRow(obligations, plans, k, n)
             /\ Active(obligations, plans[k].obligation) =>
                   (LiveRow(plans', k, n) <=> LiveRow(plans, k, n))
    <2> DEFINE row == plans[k].rows[n]
               now == plans'[k].rows[n]
    <2>1. row \in Installment /\ n \in Int
        BY OrderFacts, PlanFacts
    <2>2. CalendarRow(obligations, plans, official, month, k, n)
        BY OrderFacts DEF Calendar
    <2>3. plans[k].obligation \in DOMAIN obligations
        BY OrderFacts
    <2>4. LiveRow(plans, k, n) /\ m \notin official => n >= month
        <3> SUFFICES ASSUME LiveRow(plans, k, n), m \notin official
                     PROVE  n >= month
            OBVIOUS
        <3> DEFINE o == plans[k].obligation
        <3>1. k \in PlansOf(o) /\ k \in Payable(o, n)
            BY DEF PlansOf, Payable, LiveRow, Hot
        <3>2. <<k, n>> \in Collectable(o)
            BY <3>1 DEF Collectable
        <3>3. \A c \in Collectable(o) : c[2] >= month
            BY <1>3, <2>3
        <3>4. <<k, n>>[2] >= month
            BY <3>2, <3>3
        <3> QED BY <3>4
    <2>5. plans'[k].obligation = plans[k].obligation /\ plans'[k].status = plans[k].status
        BY <1>2
    <2>6. CASE /\ k \in Eligible(m) /\ n = m
               /\ plans'[k].rows[n] = [plans[k].rows[n] EXCEPT !.status = "PUBLISHED"]
        <3>1. /\ Active(obligations, plans[k].obligation)
              /\ row.status \in {"PLANNED"} \cup Hot
            BY <2>6 DEF Eligible, Open, Active, Hot
        <3>2. now = [row EXCEPT !.status = "PUBLISHED"]
            BY <1>2, <2>6
        <3>3. now.status = "PUBLISHED" /\ now.closed = row.closed
            BY <2>1, <3>2 DEF Installment
        <3>4. row.status = "PLANNED" /\ ~row.closed => LiveRow(plans, k, n)
            <4> SUFFICES ASSUME row.status = "PLANNED", plans[k].status = "SUPERSEDED"
                         PROVE  FALSE
                <5>1. plans[k].status \in {"PUBLISHED", "SUPERSEDED"}
                    BY OrderFacts, PlanFacts DEF Plan
                <5> QED BY <5>1 DEF LiveRow
            <4>1. n \notin official /\ n < month
                BY <2>2, <3>1 DEF CalendarRow
            <4> QED BY <1>3, <2>6, <4>1, OrderFacts
        <3>5. \A p \in official' : LiveRow(plans, k, n) => p <= n
            BY <1>1, <1>3, <2>1, <2>2, <2>4, <2>6, OrderFacts DEF CalendarRow
        <3>6. LiveRow(plans', k, n) <=> ~row.closed
            BY <3>3 DEF LiveRow, Hot
        <3>7. LiveRow(plans, k, n) <=> ~row.closed
            BY <3>1, <3>4 DEF LiveRow
        <3>8. n \in official'
            BY <1>1, <2>6
        <3> HIDE DEF row, now
        <3>9. CalendarRow(obligations', plans', official', month', k, n)
            BY <3>3, <3>5, <3>6, <3>7, <3>8 DEF CalendarRow, Hot, now
        <3> QED BY <3>1, <3>6, <3>7, <3>9 DEF ListedRow, row
    <2>7. CASE plans'[k].rows[n] = plans[k].rows[n]
        <3>1. now = row
            BY <2>7
        <3>2. LiveRow(plans', k, n) <=> LiveRow(plans, k, n)
            BY <2>5, <3>1 DEF LiveRow
        <3>3. ListedRow(obligations', plans', k, n) <=> ListedRow(obligations, plans, k, n)
            BY <1>1, <2>5, <3>1 DEF ListedRow
        <3>4. row.status = "PLANNED" /\ n = m => ~Active(obligations, plans[k].obligation)
            <4> SUFFICES ASSUME row.status = "PLANNED", n = m,
                                Active(obligations, plans[k].obligation)
                         PROVE  FALSE
                OBVIOUS
            <4>1. k \in Eligible(m)
                BY DEF Eligible, Open, Active
            <4>2. CASE m \in official
                BY <2>2, <4>2 DEF CalendarRow
            <4>3. CASE m \notin official
                <5>1. now.status = "PUBLISHED"
                    BY <1>3, <4>1, <4>3
                <5> QED BY <3>1, <5>1
            <4> QED BY <4>2, <4>3
        <3>5. LiveRow(plans, k, n) => \A p \in official' : p <= n
            BY <1>1, <1>3, <2>1, <2>2, <2>4, OrderFacts DEF CalendarRow
        <3> HIDE DEF row, now
        <3>6. CalendarRow(obligations', plans', official', month', k, n)
            BY <1>1, <2>2, <2>5, <3>1, <3>2, <3>4, <3>5 DEF CalendarRow, row, now
        <3> QED BY <3>2, <3>3, <3>6
    <2> QED BY <1>2, <2>6, <2>7
<1>5. \A p \in official' : p <= month'
    <2>1. m \in official => m <= month
        BY OrderFacts
    <2>2. m \notin official => m = month /\ month <= month
        BY <1>3, OrderFacts
    <2> QED BY <1>1, <2>1, <2>2, OrderFacts
<1>6. Calendar(obligations', plans', official', month')
    BY <1>2, <1>4, <1>5 DEF Calendar
<1>7. OneListed(obligations', plans')
    BY <1>2, <1>4, OrderFacts, OneListedKept
<1>8. AvoidsOfficial(plans, plans', official)
    BY <1>2 DEF AvoidsOfficial
<1> QED BY <1>4, <1>6, <1>7, <1>8 DEF InOrder

\* The other rows a close listed stay collectable, if their debt stays open.
TodoLive(obs, ps, work) ==
    \A k \in work.todo : Active(obs, ps[k].obligation) => LiveRow(ps, k, work.period)

\* Listed rows of open debts are published.
LEMMA TodoHot ==
    ASSUME OrderInv, NEW k \in closing.todo
    PROVE  /\ k \in DOMAIN plans /\ closing.period \in DOMAIN plans[k].rows
           /\ plans[k].rows[closing.period] \in Installment
           /\ plans[k].obligation \in DOMAIN obligations
           /\ closing.period \in official /\ closing.period \in Periods
           /\ \A p \in official : p <= closing.period
           /\ Active(obligations, plans[k].obligation) =>
                 /\ LiveRow(plans, k, closing.period)
                 /\ plans[k].rows[closing.period].status \in Hot
                 /\ ~plans[k].rows[closing.period].closed
<1>1. /\ k \in DOMAIN plans /\ closing.period \in DOMAIN plans[k].rows
      /\ plans[k].rows[closing.period] \in Installment
      /\ plans[k].obligation \in DOMAIN obligations
    BY OrderFacts, TodoRow
<1>2. /\ closing.period \in official
      /\ \A p \in official : p <= closing.period
      /\ Active(obligations, plans[k].obligation) => LiveRow(plans, k, closing.period)
    BY DEF OrderInv
<1>3. closing.period \in Periods
    BY <1>2, OrderFacts
<1>4. CalendarRow(obligations, plans, official, month, k, closing.period)
    BY <1>1, OrderFacts DEF Calendar
<1> QED BY <1>1, <1>2, <1>3, <1>4 DEF CalendarRow, LiveRow

\* One listed row is closed; the others are what they were.
LEMMA TodoShrinksLive ==
    ASSUME OrderInv, NEW k \in closing.todo, NEW ps, NEW row,
           RowWritten(plans, ps, k, closing.period, row), Untouched(ps, plans'),
           OpensNone(obligations, obligations', plans),
           \A j \in DOMAIN plans : plans'[j].obligation = plans[j].obligation,
           closing' = [closing EXCEPT !.todo = @ \ {k}]
    PROVE  /\ closing'.period = closing.period
           /\ closing'.todo \subseteq closing.todo
           /\ TodoLive(obligations', plans', closing')
<1>1. closing'.period = closing.period /\ closing'.todo = closing.todo \ {k}
    BY OrderFacts DEF Shapes
<1> SUFFICES ASSUME NEW j \in closing.todo \ {k}, Active(obligations', plans'[j].obligation)
             PROVE  LiveRow(plans', j, closing.period)
    BY <1>1 DEF TodoLive
<1>2. /\ j \in DOMAIN plans /\ closing.period \in DOMAIN plans[j].rows
      /\ Active(obligations, plans[j].obligation)
      /\ plans[j].rows[closing.period].status \in Hot
      /\ ~plans[j].rows[closing.period].closed
    BY TodoHot DEF OpensNone
<1>3. /\ j \in DOMAIN ps /\ closing.period \in DOMAIN ps[j].rows
      /\ ps[j].rows[closing.period] = plans[j].rows[closing.period]
    BY <1>2 DEF RowWritten
<1>4. plans'[j].rows[closing.period] = plans[j].rows[closing.period]
    BY <1>2, <1>3 DEF Untouched, Hot
<1> QED BY <1>2, <1>4 DEF LiveRow, Hot

\* A settled row is closed.
LEMMA CloseSettledInOrder ==
    ASSUME OrderInv, NEW k \in closing.todo, CloseSettled(k)
    PROVE  /\ InOrder(obligations', plans', official, month)
           /\ AvoidsOfficial(plans, plans', official)
           /\ closing'.period = closing.period
           /\ closing'.todo \subseteq closing.todo
           /\ TodoLive(obligations', plans', closing')
<1> DEFINE m == closing.period
           row == [plans[k].rows[m] EXCEPT !.status = "PAID", !.closed = TRUE]
<1>1. obligations' = obligations /\ closing' = [closing EXCEPT !.todo = @ \ {k}]
    BY DEF CloseSettled
<1>2. RowWritten(plans, plans', k, m, row)
    BY OrderFacts, CloseSettledEffect
<1>3. row.status = "PAID"
    BY TodoHot DEF Installment
<1> HIDE DEF row
<1>4. OpensNone(obligations, obligations', plans)
    BY <1>1 DEF OpensNone
<1>5. Calendar(obligations', plans', official, month)
    BY <1>2, <1>3, <1>4, OrderFacts, CalendarRowWritten DEF Hot
<1>6. OneListed(obligations', plans')
    BY <1>2, <1>3, <1>4, OrderFacts, OneListedRowWritten DEF Hot
<1>7. Untouched(plans', plans') /\ \A j \in DOMAIN plans : plans'[j].obligation = plans[j].obligation
    BY <1>2 DEF Untouched, RowWritten
<1>8. /\ closing'.period = closing.period
      /\ closing'.todo \subseteq closing.todo
      /\ TodoLive(obligations', plans', closing')
    BY <1>1, <1>2, <1>4, <1>7, TodoShrinksLive
<1>9. AvoidsOfficial(plans, plans', official)
    BY <1>2 DEF RowWritten, AvoidsOfficial
<1> QED BY <1>5, <1>6, <1>8, <1>9 DEF InOrder

\* A default closes its row and plans the debt again from the month after.
LEMMA CloseDefaultedInOrder ==
    ASSUME OrderInv, IInv', NEW k \in closing.todo, CloseDefaulted(k)
    PROVE  /\ InOrder(obligations', plans', official, month)
           /\ AvoidsOfficial(plans, plans', official)
           /\ closing'.period = closing.period
           /\ closing'.todo \subseteq closing.todo
           /\ TodoLive(obligations', plans', closing')
<1> DEFINE m == closing.period
           was == plans[k].rows[m]
           o == plans[k].obligation
           ob == obligations[o]
           penalty == ob.penalty + Penalty(RemainingDue(was))
           from == FirstOpenPeriod(m, official)
           replan == ob.contractual > 0 \/ penalty > 0
           row == DefaultedRow(was)
<1>1. /\ penalty \in Nat
      /\ \E ps \in Seq(Plan), term \in Nat \ {0} :
            /\ RowWritten(plans, ps, k, m, row)
            /\ replan =>
                  /\ PublishedAs(ps, plans', o, NewRows(ob.contractual, penalty, term, from), from)
                  /\ ObligationMoves(o, ob.contractual, penalty, ob.status, Len(plans) + 1)
            /\ ~ replan =>
                  /\ plans' = ps
                  /\ ObligationMoves(o, ob.contractual, penalty, ob.status, ob.currentPlan)
    BY OrderFacts, CloseDefaultedEffect
<1>2. /\ k \in DOMAIN plans /\ m \in DOMAIN plans[k].rows /\ was \in Installment
      /\ o \in DOMAIN obligations /\ m \in official /\ m \in Periods
      /\ \A p \in official : p <= m
      /\ Active(obligations, o) => LiveRow(plans, k, m) /\ was.status \in Hot
    BY TodoHot
<1>3. /\ from \in Int /\ StartsAfter(official, from) /\ LeavesPast(official, month, from)
    BY <1>2, OrderFacts, StartNow
<1>4. /\ row.status \in {"PARTIAL", "MISSED"} /\ row.closed
    BY <1>2, DefaultedRowFields
<1>5. closing' = [closing EXCEPT !.todo = @ \ {k}]
    BY DEF CloseDefaulted
<1>6. ob.contractual \in Nat
    BY <1>2, OrderFacts, BooksOf
<1> HIDE DEF row, penalty, from, m
<1>7. PICK ps \in Seq(Plan), term \in Nat \ {0} :
         /\ RowWritten(plans, ps, k, m, row)
         /\ replan =>
               /\ PublishedAs(ps, plans', o, NewRows(ob.contractual, penalty, term, from), from)
               /\ ObligationMoves(o, ob.contractual, penalty, ob.status, Len(plans) + 1)
         /\ ~ replan =>
               /\ plans' = ps
               /\ ObligationMoves(o, ob.contractual, penalty, ob.status, ob.currentPlan)
    BY <1>1
<1>8. DOMAIN ps = DOMAIN plans /\ \A j \in DOMAIN ps : ps[j].obligation = plans[j].obligation
    BY <1>7 DEF RowWritten
<1>9. Active(obligations, o) => ListedRow(obligations, plans, k, m)
    BY <1>2 DEF ListedRow
<1>10. ASSUME NEW newObs, OpensNone(obligations, newObs, plans)
       PROVE  InOrder(newObs, ps, official, month)
    <2>1. Calendar(newObs, ps, official, month)
        BY <1>2, <1>4, <1>7, <1>10, OrderFacts, CalendarRowWritten DEF Hot
    <2>2. Active(newObs, plans[k].obligation) => ListedRow(obligations, plans, k, m)
        BY <1>2, <1>9, <1>10 DEF OpensNone
    <2>3. OneListed(newObs, ps)
        BY <1>7, <1>10, <2>2, OrderFacts, OneListedRowWritten
    <2> QED BY <2>1, <2>3 DEF InOrder
<1>11. ASSUME NEW plan, ObligationMoves(o, ob.contractual, penalty, ob.status, plan)
       PROVE  OpensNone(obligations, obligations', plans)
    BY <1>2, <1>11, MovedInOrder
<1>12. CASE replan
    <2>1. /\ PublishedAs(ps, plans', o, NewRows(ob.contractual, penalty, term, from), from)
          /\ ObligationMoves(o, ob.contractual, penalty, ob.status, Len(plans) + 1)
        BY <1>7, <1>12
    <2>2. InOrder(obligations, ps, official, month)
        BY <1>10 DEF OpensNone
    <2>3. /\ InOrder(obligations', plans', official, month)
          /\ AvoidsOfficial(plans, plans', official)
        BY <1>1, <1>2, <1>3, <1>6, <1>8, <2>1, <2>2, ExistingPlannedInOrder
    <2>4. OpensNone(obligations, obligations', plans)
        BY <1>11, <2>1
    <2> DEFINE rows == NewRows(ob.contractual, penalty, term, from)
    <2>5. PublishedAs(ps, plans', o, rows, from)
        BY <2>1
    <2> HIDE DEF rows
    <2>6. Untouched(ps, plans')
        BY <2>5, ReplanningUntouched
    <2>7. \A j \in DOMAIN plans : plans'[j].obligation = plans[j].obligation
        <3>1. \A j \in DOMAIN ps : plans'[j].obligation = ps[j].obligation
            <4> TAKE j \in DOMAIN ps
            <4>1. ps[j] \in Plan /\ plans'[j] \in {ps[j], Retired(ps[j], from)}
                BY <2>5, PlanFacts DEF PublishedAs
            <4> QED BY <1>3, <4>1, RetiredFacts
        <3> QED BY <1>8, <3>1
    <2>8. /\ closing'.period = closing.period
          /\ closing'.todo \subseteq closing.todo
          /\ TodoLive(obligations', plans', closing')
        BY <1>5, <1>7, <2>4, <2>6, <2>7, TodoShrinksLive DEF m
    <2> QED BY <2>3, <2>8
<1>13. CASE ~replan
    <2>1. plans' = ps /\ ObligationMoves(o, ob.contractual, penalty, ob.status, ob.currentPlan)
        BY <1>7, <1>13
    <2>2. OpensNone(obligations, obligations', plans)
        BY <1>11, <2>1
    <2>3. InOrder(obligations', plans', official, month)
        BY <1>10, <2>1, <2>2
    <2>4. AvoidsOfficial(plans, plans', official)
        BY <1>8, <2>1 DEF AvoidsOfficial
    <2>5. Untouched(ps, plans') /\ \A j \in DOMAIN plans : plans'[j].obligation = plans[j].obligation
        BY <1>8, <2>1 DEF Untouched
    <2>6. /\ closing'.period = closing.period
          /\ closing'.todo \subseteq closing.todo
          /\ TodoLive(obligations', plans', closing')
        BY <1>5, <1>7, <2>2, <2>5, TodoShrinksLive DEF m
    <2> QED BY <2>3, <2>4, <2>6
<1> QED BY <1>12, <1>13

\* The months a close works on, in every state an orderly step leads to.
LEMMA ClosingInOrder ==
    ASSUME OrderInv, IInv', OrderlyStep \/ UNCHANGED vars, official \subseteq official',
           UNCHANGED closing \/ (\E m \in Periods : StartClosing(m)) \/ closing' = NotClosing,
           UNCHANGED closing => closing = NotClosing \/ UNCHANGED vars
    PROVE  /\ closing'.period # 0 => closing'.period \in official'
           /\ \A k \in closing'.todo :
                 /\ closing'.period \in official'
                 /\ \A p \in official' : p <= closing'.period
                 /\ Active(obligations', plans'[k].obligation) => LiveRow(plans', k, closing'.period)
<1>1. CASE UNCHANGED vars
    BY <1>1 DEF OrderInv, vars, LiveRow, Active
<1>2. CASE closing' = NotClosing
    BY <1>2 DEF NotClosing
<1>3. CASE OrderlyStep /\ \E m \in Periods : StartClosing(m)
    <2>1. PICK m \in Periods : StartClosing(m)
        BY <1>3
    <2>2. /\ closing'.period = m /\ closing'.todo = UNION {Payable(o, m) : o \in DOMAIN obligations}
          /\ official' = official /\ obligations' = obligations /\ plans' = plans
        BY <2>1 DEF StartClosing
    <2>3. m # 0
        BY <2>1 DEF Periods
    <2>4. m \in official
        BY <1>3, <2>2, <2>3 DEF OrderlyStep
    <2>5. ASSUME NEW k \in closing'.todo
          PROVE  LiveRow(plans, k, m) /\ \A p \in official : p <= m
        <3>1. k \in DOMAIN plans /\ m \in DOMAIN plans[k].rows /\ LiveRow(plans, k, m)
            BY <2>2, <2>5 DEF Payable, PlansOf, LiveRow, Hot
        <3>2. CalendarRow(obligations, plans, official, month, k, m)
            BY <3>1, OrderFacts DEF Calendar
        <3> QED BY <3>1, <3>2 DEF CalendarRow
    <2> QED BY <2>2, <2>4, <2>5
<1>4. CASE UNCHANGED closing /\ ~UNCHANGED vars
    BY <1>2, <1>4
<1> QED BY <1>1, <1>2, <1>3, <1>4

\* Every orderly step keeps the order, and adds plans in months that are not official.
LEMMA NextInOrder ==
    ASSUME OrderInv, PlanInv', [Next /\ OrderlyStep]_vars
    PROVE  OrderInv' /\ AvoidsOfficial(plans, plans', official)
<1>1. /\ [Next]_vars
      /\ PlainStep \/ OwnStep
         \/ (\E m \in Periods : \E onPayroll \in BOOLEAN : SubmitVariation(m, onPayroll))
         \/ (\E k \in closing.todo : CloseSettled(k))
         \/ (\E k \in closing.todo : CloseDefaulted(k))
      /\ OrderlyStep \/ UNCHANGED vars
    BY OrderlyCases
<1>2. IInv'
    BY DEF PlanInv
<1> DEFINE Closes == /\ closing'.period # 0 => closing'.period \in official'
                     /\ \A k \in closing'.todo :
                           /\ closing'.period \in official'
                           /\ \A p \in official' : p <= closing'.period
                           /\ Active(obligations', plans'[k].obligation) =>
                                 LiveRow(plans', k, closing'.period)
<1>3. InOrder(obligations', plans', official', month') /\ Closes => OrderInv'
    BY DEF OrderInv
<1>4. UNCHANGED closing => closing = NotClosing \/ UNCHANGED vars
    BY <1>1 DEF OrderlyStep
<1>5. /\ official \subseteq official'
      /\ UNCHANGED closing \/ (\E m \in Periods : StartClosing(m)) \/ closing' = NotClosing
      => Closes
    BY <1>1, <1>2, <1>4, ClosingInOrder
<1>6. ASSUME NEW k \in closing.todo, UNCHANGED <<month, official>>,
             /\ InOrder(obligations', plans', official, month)
             /\ AvoidsOfficial(plans, plans', official)
             /\ closing'.period = closing.period
             /\ closing'.todo \subseteq closing.todo
             /\ TodoLive(obligations', plans', closing')
      PROVE  OrderInv' /\ AvoidsOfficial(plans, plans', official)
    <2>1. closing.period \in official /\ \A p \in official : p <= closing.period
        BY TodoHot
    <2>2. Closes
        BY <1>6, <2>1 DEF TodoLive
    <2> QED BY <1>3, <1>6, <2>2
<1> HIDE DEF Closes
<1>7. CASE PlainStep
    <2>1. obligations' = obligations /\ plans' = plans /\ official' = official
          /\ (month' = month \/ month' = month + 1)
        BY <1>7 DEF PlainStep, vars, NextMonth, StartClosing
    <2>2. UNCHANGED closing \/ (\E m \in Periods : StartClosing(m)) \/ closing' = NotClosing
        BY <1>7 DEF PlainStep, vars, NextMonth
    <2>3. \A p \in official : p <= month'
        BY <2>1, OrderFacts
    <2>4. ASSUME NEW k \in DOMAIN plans, NEW m \in DOMAIN plans[k].rows
          PROVE  CalendarRow(obligations', plans', official', month', k, m)
        <3>1. CalendarRow(obligations, plans, official, month, k, m) /\ m \in Int /\ month \in Int
            BY OrderFacts, PlanFacts DEF Calendar
        <3> QED BY <2>1, <3>1 DEF CalendarRow, LiveRow
    <2>5. InOrder(obligations', plans', official', month')
        BY <2>1, <2>3, <2>4, OrderFacts DEF InOrder, Calendar, OneListed, ListedRow
    <2>6. AvoidsOfficial(plans, plans', official)
        BY <2>1 DEF AvoidsOfficial
    <2> QED BY <1>3, <1>5, <2>1, <2>2, <2>5, <2>6
<1>8. CASE UNCHANGED vars
    <2>1. PlainStep
        BY <1>8 DEF PlainStep, vars
    <2> QED BY <1>7, <2>1
<1>9. CASE OrderlyStep /\ OwnStep
    <2>1. month' = month /\ official' = official /\ UNCHANGED closing
        BY <1>9 DEF OwnStep
    <2>2. InOrder(obligations', plans', official, month) /\ AvoidsOfficial(plans, plans', official)
        BY <1>2, <1>9, OwnStepInOrder
    <2> QED BY <1>3, <1>5, <2>1, <2>2
<1>10. ASSUME OrderlyStep, NEW m \in Periods, NEW onPayroll \in BOOLEAN,
              SubmitVariation(m, onPayroll)
       PROVE  OrderInv' /\ AvoidsOfficial(plans, plans', official)
    <2>1. UNCHANGED closing /\ official \subseteq official'
        BY <1>10 DEF SubmitVariation
    <2>2. /\ InOrder(obligations', plans', official', month')
          /\ AvoidsOfficial(plans, plans', official)
        BY <1>10, SubmitInOrder
    <2> QED BY <1>3, <1>5, <2>1, <2>2
<1>11. ASSUME NEW k \in closing.todo, CloseSettled(k)
       PROVE  OrderInv' /\ AvoidsOfficial(plans, plans', official)
    <2>1. UNCHANGED <<month, official>>
        BY <1>11 DEF CloseSettled
    <2> QED BY <1>6, <1>11, <2>1, CloseSettledInOrder
<1>12. ASSUME NEW k \in closing.todo, CloseDefaulted(k)
       PROVE  OrderInv' /\ AvoidsOfficial(plans, plans', official)
    <2>1. UNCHANGED <<month, official>>
        BY <1>12 DEF CloseDefaulted
    <2> QED BY <1>2, <1>6, <1>12, <2>1, CloseDefaultedInOrder
<1> QED BY <1>1, <1>7, <1>8, <1>9, <1>10, <1>11, <1>12

\* An orderly run is a run.
LEMMA OrderlyRuns == OrderlySpec => Spec
<1>1. [Next /\ OrderlyStep]_vars => [Next]_vars
    OBVIOUS
<1> QED BY <1>1, PTL DEF OrderlySpec, Spec

(***************************************************************************)
(* The calendar and the rows agree in every state an orderly run reaches,  *)
(* one open obligation or two.                                             *)
(***************************************************************************)
THEOREM OrderInductive == OrderlySpec => []OrderInv
<1>1. Init /\ PlanInv => OrderInv
    BY DEF Init, OrderInv, InOrder, Calendar, OneListed, NotClosing
<1>2. OrderInv /\ PlanInv' /\ [Next /\ OrderlyStep]_vars => OrderInv'
    BY NextInOrder
<1> QED BY <1>1, <1>2, OrderlyRuns, CurrentPlanInductive, PTL DEF OrderlySpec

(***************************************************************************)
(* In an orderly run no obligation ever has two rows for one month: the    *)
(* official submission of a month can break unique(scheduleId, borrowerId) *)
(* only for a borrower of two open obligations.                            *)
(***************************************************************************)
THEOREM AlwaysOneRowPerMonth == OrderlySpec => []OneRowPerMonth
<1>1. ASSUME OrderInv
      PROVE  OneRowPerMonth
    <2> SUFFICES ASSUME NEW m \in Periods, NEW o \in OpenObligations
                 PROVE  Cardinality({k \in Eligible(m) : plans[k].obligation = o}) <= 1
        BY DEF OneRowPerMonth
    <2> DEFINE listed == {k \in Eligible(m) : plans[k].obligation = o}
    <2>1. \A j, k \in listed : j = k
        BY <1>1, OrderFacts DEF Eligible, OneListed, ListedRow, Hot, Open, Active
    <2> HIDE DEF listed
    <2>2. listed = {} => Cardinality(listed) = 0
        BY FS_EmptySet
    <2>3. ASSUME listed # {}
          PROVE  Cardinality(listed) = 1
        <3>1. PICK k : listed = {k}
            BY <2>1, <2>3
        <3> QED BY <3>1, FS_Singleton
    <2>4. Cardinality(listed) <= 1
        BY <2>2, <2>3
    <2> QED BY <2>4 DEF listed
<1> QED BY <1>1, OrderInductive, PTL

(***************************************************************************)
(* No plan of an orderly run enters a month whose schedule payroll already *)
(* holds.                                                                  *)
(***************************************************************************)
THEOREM NewPlansAlwaysAvoidOfficialMonths == OrderlySpec => NewPlansAvoidOfficialMonths
<1>1. ASSUME OrderInv, PlanInv', [Next /\ OrderlyStep]_vars
      PROVE  Len(plans') > Len(plans) => DOMAIN plans'[Len(plans')].rows \cap official = {}
    <2>1. AvoidsOfficial(plans, plans', official)
        BY <1>1, NextInOrder
    <2>2. plans \in Seq(Plan) /\ plans' \in Seq(Plan)
        BY <1>1, OrderFacts DEF PlanInv, IInv, Shapes
    <2>3. /\ Len(plans) \in Nat /\ DOMAIN plans = 1 .. Len(plans)
          /\ Len(plans') \in Nat /\ DOMAIN plans' = 1 .. Len(plans')
        BY <2>2, PlanFacts
    <2> QED BY <2>1, <2>3 DEF AvoidsOfficial
<1>2. OrderInv /\ PlanInv' /\ [Next /\ OrderlyStep]_vars =>
        [Len(plans') > Len(plans) => DOMAIN plans'[Len(plans')].rows \cap official = {}]_vars
    BY <1>1
<1> QED BY <1>2, OrderInductive, OrderlyRuns, CurrentPlanInductive, PTL
        DEF OrderlySpec, NewPlansAvoidOfficialMonths

-----------------------------------------------------------------------------
(* What a new plan asks for                                                *)

\* The rows of plan k, as cells.
NewCells(k, rows) == {k} \X DOMAIN rows

\* The first row of a plan carries the penalty, and is not negative if there is any.
LEMMA FirstRow ==
    ASSUME NEW contractual \in Nat, NEW penalty \in Nat, NEW term \in Nat \ {0}, NEW from \in Int
    PROVE  LET rows == NewRows(contractual, penalty, term, from) IN
           /\ from \in DOMAIN rows
           /\ rows[from].penaltyDue = penalty
           /\ rows[from].toPenalty = 0 /\ rows[from].toContract = 0
           /\ rows[from].scheduled >= 0
<1> DEFINE n == EffectiveTerm(contractual, term)
           q == ScheduledMonthly(contractual, term)
           rows == NewRows(contractual, penalty, term, from)
<1>1. n \in Nat /\ n >= 1
    BY DEF EffectiveTerm
<1>2. q \in Int /\ q >= 0
    <2>1. q = RoundHalfUp(contractual, n)
        BY DEF ScheduledMonthly
    <2> HIDE DEF n, q
    <2> DEFINE a == 2 * contractual + n
               d == 2 * n
    <2>2. a \in Nat /\ d \in Nat /\ d > 0
        BY <1>1
    <2> HIDE DEF a, d
    <2>3. a \div d \in Nat
        BY <2>2
    <2> QED BY <2>1, <2>3 DEF RoundHalfUp, a, d
<1>3. from \in PlanPeriods(contractual, term, from)
    BY <1>1 DEF PlanPeriods
<1>4. rows[from].scheduled = ScheduledAmount(contractual, term, 1)
      /\ rows[from].penaltyDue = PenaltyDue(penalty, 1)
      /\ rows[from].toPenalty = 0 /\ rows[from].toContract = 0
      /\ from \in DOMAIN rows
    <2>1. from - from + 1 = 1
        OBVIOUS
    <2> QED BY <1>3, <2>1 DEF NewRows
<1>5. ScheduledAmount(contractual, term, 1) = IF n = 1 THEN contractual - (n - 1) * q ELSE q
    BY DEF ScheduledAmount
<1> HIDE DEF n, q
<1>6. n = 1 => contractual - (n - 1) * q = contractual
    BY <1>2
<1> HIDE DEF rows
<1> QED BY <1>2, <1>4, <1>5, <1>6 DEF PenaltyDue, rows

\* A plan asks for all it was made from: the rounding remainder is in its last row.
LEMMA NewRowsCover ==
    ASSUME NEW contractual \in Nat, NEW penalty \in Nat, NEW term \in Nat \ {0}, NEW from \in Int,
           NEW k
    PROVE  LET rows == NewRows(contractual, penalty, term, from)
               due == SumFunction([c \in NewCells(k, rows) |-> RemainingDue(rows[c[2]])])
           IN  due \in Nat /\ due >= contractual + penalty
<1> DEFINE n == EffectiveTerm(contractual, term)
           q == ScheduledMonthly(contractual, term)
           rows == NewRows(contractual, penalty, term, from)
           cells == NewCells(k, rows)
           f == [c \in cells |-> RemainingDue(rows[c[2]])]
           First(i) == {c \in cells : c[2] < from + i}
           Sum(i) == SumFunction(Part(f, First(i)))
           S == {i \in Nat : i <= n - 1 =>
                               /\ Sum(i) \in Nat
                               /\ Sum(i) >= i * q + (IF i = 0 THEN 0 ELSE penalty)}
<1>1. n \in Nat /\ n >= 1
    BY DEF EffectiveTerm
<1>2. rows \in RowMap /\ DOMAIN rows = from .. from + n - 1
    BY NewRowsShape DEF NewRows, PlanPeriods
<1>3. q \in Int
    <2>1. q = RoundHalfUp(contractual, n)
        BY DEF ScheduledMonthly
    <2> HIDE DEF n, q
    <2> DEFINE a == 2 * contractual + n
               d == 2 * n
    <2>2. a \in Nat /\ d \in Nat /\ d > 0
        BY <1>1
    <2> HIDE DEF a, d
    <2>3. a \div d \in Int
        BY <2>2
    <2> QED BY <2>1, <2>3 DEF RoundHalfUp, a, d
<1>4. \A i \in 0 .. n - 1 :
         /\ <<k, from + i>> \in cells /\ <<k, from + i>>[2] = from + i
         /\ rows[from + i].scheduled = IF i = n - 1 THEN contractual - (n - 1) * q ELSE q
         /\ rows[from + i].penaltyDue = IF i = 0 THEN penalty ELSE 0
         /\ rows[from + i].paid = 0
    <2> SUFFICES ASSUME NEW i \in 0 .. n - 1
                 PROVE  /\ <<k, from + i>> \in cells /\ <<k, from + i>>[2] = from + i
                        /\ rows[from + i].scheduled = IF i = n - 1 THEN contractual - (n - 1) * q ELSE q
                        /\ rows[from + i].penaltyDue = IF i = 0 THEN penalty ELSE 0
                        /\ rows[from + i].paid = 0
        OBVIOUS
    <2> DEFINE m == from + i
    <2>1. m \in PlanPeriods(contractual, term, from) /\ m \in DOMAIN rows
        BY <1>1, <1>2 DEF PlanPeriods
    <2>2. m - from + 1 = i + 1
        BY <1>1
    <2> HIDE DEF m
    <2>3. /\ rows[m].scheduled = ScheduledAmount(contractual, term, i + 1)
          /\ rows[m].penaltyDue = PenaltyDue(penalty, i + 1)
          /\ rows[m].paid = 0
        BY <2>1, <2>2 DEF NewRows
    <2>4. ScheduledAmount(contractual, term, i + 1)
             = IF i + 1 = n THEN contractual - (n - 1) * q ELSE q
        BY DEF ScheduledAmount
    <2>5. <<k, m>> \in cells
        BY <2>1 DEF NewCells
    <2> HIDE DEF n, q, rows, cells
    <2> QED BY <1>1, <2>3, <2>4, <2>5 DEF PenaltyDue, m
<1> DEFINE L == (n - 1) * q
<1> HIDE DEF n, q
<1>5. L \in Int
    BY <1>1, <1>3
<1>6. IsFiniteSet(cells)
    BY <1>2, RowMapFacts, FS_Singleton, FS_Product DEF NewCells
<1>7. /\ DOMAIN f = cells
      /\ \A c \in cells : c = <<k, c[2]>> /\ c[2] \in from .. from + n - 1 /\ f[c] \in Nat
    <2> SUFFICES ASSUME NEW c \in cells
                 PROVE  c = <<k, c[2]>> /\ c[2] \in from .. from + n - 1 /\ f[c] \in Nat
        OBVIOUS
    <2>1. c = <<k, c[2]>> /\ c[2] \in DOMAIN rows
        BY DEF NewCells
    <2> HIDE DEF rows, cells
    <2>2. RemainingDue(rows[c[2]]) \in Nat
        BY <1>2, <2>1, RowMapFacts, RemainingDueNat
    <2> QED BY <1>2, <2>1, <2>2
<1> HIDE DEF cells
<1>8. \A i \in 0 .. n - 1 :
         f[<<k, from + i>>] >= (IF i = n - 1 THEN contractual - L ELSE q)
                               + (IF i = 0 THEN penalty ELSE 0)
    <2> SUFFICES ASSUME NEW i \in 0 .. n - 1
                 PROVE  f[<<k, from + i>>] >= (IF i = n - 1 THEN contractual - L ELSE q)
                               + (IF i = 0 THEN penalty ELSE 0)
        OBVIOUS
    <2> DEFINE row == rows[from + i]
               s == IF i = n - 1 THEN contractual - L ELSE q
               p == IF i = 0 THEN penalty ELSE 0
    <2>1. f[<<k, from + i>>] = RemainingDue(row)
        BY <1>4
    <2>2. row.scheduled = s /\ row.penaltyDue = p /\ row.paid = 0
        BY <1>4
    <2>3. s \in Int /\ p \in Int
        BY <1>3, <1>5
    <2> HIDE DEF s, p, row, f, L
    <2>4. RemainingDue(row) >= s + p
        BY <2>2, <2>3 DEF RemainingDue, TotalExpected, Floor0
    <2> QED BY <2>1, <2>4 DEF s, p
<1> HIDE DEF f, rows
<1>9. ASSUME NEW i \in 0 .. n - 1, Sum(i) \in Nat
      PROVE  Sum(i + 1) \in Nat /\ Sum(i + 1) = Sum(i) + f[<<k, from + i>>]
    <2> DEFINE y == <<k, from + i>>
    <2>1. y \in DOMAIN f \ First(i) /\ First(i) \in SUBSET DOMAIN f
        BY <1>1, <1>4, <1>7
    <2>2. First(i + 1) = First(i) \cup {y}
        <3>1. ASSUME NEW c \in First(i + 1), c \notin First(i)
              PROVE  c = y
            <4>1. c[2] = from + i
                BY <1>1, <1>7, <3>1
            <4> QED BY <1>7, <4>1
        <3>2. y \in First(i + 1) /\ First(i) \subseteq First(i + 1)
            BY <1>1, <1>4, <1>7
        <3> QED BY <3>1, <3>2
    <2> HIDE DEF y
    <2>3. /\ SumFunction(Part(f, First(i))) \in Nat
          /\ SumFunction(Part(f, First(i) \cup {y})) = SumFunction(Part(f, First(i))) + f[y]
        <3> DEFINE s == First(i)
        <3>1. s \in SUBSET DOMAIN f /\ y \in DOMAIN f \ s
            BY <2>1
        <3>2. IsFiniteSet(DOMAIN f) /\ \A x \in DOMAIN f : f[x] \in Nat
            BY <1>6, <1>7
        <3> HIDE DEF s
        <3>3. /\ SumFunction(Part(f, s)) \in Nat
              /\ SumFunction(Part(f, s \cup {y})) = SumFunction(Part(f, s)) + f[y]
            BY <3>1, <3>2, PartGrows
        <3> QED BY <3>3 DEF s
    <2>4. f[y] \in Nat
        BY <1>7, <2>1
    <2>5. Sum(i + 1) = Sum(i) + f[y]
        BY <2>2, <2>3
    <2> HIDE DEF Sum
    <2> QED BY <1>9, <2>4, <2>5 DEF y
<1>10. 0 \in S
    <2>1. First(0) = {}
        BY <1>7
    <2>2. Sum(0) = 0
        BY <2>1, SumNone DEF Part
    <2> HIDE DEF Sum
    <2>3. 0 * q = 0
        BY <1>3
    <2> QED BY <2>2, <2>3
<1> HIDE DEF Sum, First
<1>11. ASSUME NEW i \in Nat, i \in S
       PROVE  i + 1 \in S
    <2> SUFFICES ASSUME i + 1 <= n - 1
                 PROVE  Sum(i + 1) \in Nat /\ Sum(i + 1) >= (i + 1) * q + penalty
        BY <1>11
    <2>1. i \in 0 .. n - 1 /\ i # n - 1
        BY <1>1
    <2>2. Sum(i) \in Nat /\ Sum(i) >= i * q + (IF i = 0 THEN 0 ELSE penalty)
        BY <1>1, <1>11, <2>1
    <2>3. Sum(i + 1) \in Nat /\ Sum(i + 1) = Sum(i) + f[<<k, from + i>>]
        BY <1>9, <2>1, <2>2
    <2>4. f[<<k, from + i>>] >= q + (IF i = 0 THEN penalty ELSE 0) /\ f[<<k, from + i>>] \in Nat
        BY <1>4, <1>7, <1>8, <2>1
    <2> DEFINE a == i * q
               b == (i + 1) * q
               x == f[<<k, from + i>>]
    <2>5. b = a + q /\ a \in Int
        BY <1>3
    <2> HIDE DEF a, b, x
    <2>6. Sum(i) >= a + (IF i = 0 THEN 0 ELSE penalty) /\ x >= q + (IF i = 0 THEN penalty ELSE 0)
          /\ Sum(i + 1) = Sum(i) + x /\ x \in Nat
        BY <2>2, <2>3, <2>4 DEF a, x
    <2>7. Sum(i + 1) >= b + penalty
        BY <1>3, <2>2, <2>5, <2>6
    <2> QED BY <2>3, <2>7 DEF b
<1>12. n - 1 \in S
    <2> HIDE DEF S
    <2>1. \A i \in Nat : i \in S => i + 1 \in S
        BY <1>11
    <2>2. Nat \subseteq S
        BY <1>10, <2>1, SetInduction
    <2> QED BY <1>1, <2>2
<1>13. Sum(n - 1) \in Nat /\ Sum(n - 1) >= L + (IF n = 1 THEN 0 ELSE penalty)
    BY <1>1, <1>12
<1>14. Sum(n) \in Nat /\ Sum(n) = Sum(n - 1) + f[<<k, from + n - 1>>]
    <2>1. n - 1 \in 0 .. n - 1 /\ n - 1 + 1 = n /\ from + (n - 1) = from + n - 1
        BY <1>1
    <2>2. /\ Sum(n - 1 + 1) \in Nat
          /\ Sum(n - 1 + 1) = Sum(n - 1) + f[<<k, from + (n - 1)>>]
        BY <1>9, <1>13, <2>1
    <2> QED BY <2>1, <2>2
<1>15. f[<<k, from + n - 1>>] >= contractual - L + (IF n = 1 THEN penalty ELSE 0)
       /\ f[<<k, from + n - 1>>] \in Nat
    <2>1. n - 1 \in 0 .. n - 1 /\ from + (n - 1) = from + n - 1
        BY <1>1
    <2>2. f[<<k, from + (n - 1)>>] >= contractual - L + (IF n - 1 = 0 THEN penalty ELSE 0)
        BY <1>8, <2>1
    <2>3. f[<<k, from + (n - 1)>>] \in Nat
        BY <1>4, <1>7, <2>1
    <2> QED BY <1>1, <2>1, <2>2, <2>3
<1>16. Sum(n) >= contractual + penalty
    <2> DEFINE x == f[<<k, from + n - 1>>]
    <2> HIDE DEF x, L
    <2> QED BY <1>1, <1>5, <1>13, <1>14, <1>15 DEF x
<1>17. Sum(n) = SumFunction(f)
    <2>1. First(n) = DOMAIN f
        BY <1>1, <1>7 DEF First
    <2>2. Part(f, DOMAIN f) = f
        BY DEF Part, f
    <2> QED BY <2>1, <2>2 DEF Sum
<1> QED BY <1>14, <1>16, <1>17 DEF f, cells, rows

-----------------------------------------------------------------------------
(* The rows that may still be collected                                    *)

\* Rows of obligation o that may still be collected, as <<plan, month>>.
Cells(ps, o) ==
    {c \in UNION {{k} \X DOMAIN ps[k].rows : k \in DOMAIN ps} :
        ps[c[1]].obligation = o /\ LiveRow(ps, c[1], c[2])}

RowOf(ps, c) == ps[c[1]].rows[c[2]]

HotCells(ps, o) == {c \in Cells(ps, o) : RowOf(ps, c).status \in Hot}

DueOf(ps, cells) == SumFunction([c \in cells |-> RemainingDue(RowOf(ps, c))])

\* A cell names a row.
LEMMA CellFacts ==
    ASSUME NEW ps \in Seq(Plan), NEW o, NEW c \in Cells(ps, o)
    PROVE  /\ c = <<c[1], c[2]>>
           /\ c[1] \in DOMAIN ps /\ c[2] \in DOMAIN ps[c[1]].rows /\ c[2] \in Int
           /\ ps[c[1]].obligation = o /\ LiveRow(ps, c[1], c[2])
           /\ RowOf(ps, c) \in Installment
           /\ RemainingDue(RowOf(ps, c)) \in Nat
<1>1. /\ c = <<c[1], c[2]>>
      /\ c[1] \in DOMAIN ps /\ c[2] \in DOMAIN ps[c[1]].rows
      /\ ps[c[1]].obligation = o /\ LiveRow(ps, c[1], c[2])
    BY DEF Cells
<1>2. RowOf(ps, c) \in Installment /\ c[2] \in Int
    BY <1>1, PlanFacts DEF RowOf
<1> QED BY <1>1, <1>2, RemainingDueNat

LEMMA CellIntro ==
    ASSUME NEW ps, NEW o, NEW k \in DOMAIN ps, NEW m \in DOMAIN ps[k].rows,
           ps[k].obligation = o, LiveRow(ps, k, m)
    PROVE  <<k, m>> \in Cells(ps, o) /\ RowOf(ps, <<k, m>>) = ps[k].rows[m]
BY DEF Cells, RowOf

LEMMA CellsAreFinite ==
    ASSUME NEW ps \in Seq(Plan), NEW o, NEW cells \in SUBSET Cells(ps, o)
    PROVE  IsFiniteSet(cells)
<1>1. \A c \in cells : \E k \in DOMAIN ps : \E m \in DOMAIN ps[k].rows : c = <<k, m>>
    BY CellFacts
<1> QED BY <1>1, CellsFinite

\* What is due is a natural amount, and more cells have no less due.
LEMMA DueNat ==
    ASSUME NEW ps \in Seq(Plan), NEW o, NEW cells \in SUBSET Cells(ps, o)
    PROVE  DueOf(ps, cells) \in Nat
<1> DEFINE f == [c \in cells |-> RemainingDue(RowOf(ps, c))]
<1>1. IsFiniteSet(DOMAIN f)
    BY CellsAreFinite
<1>2. \A c \in DOMAIN f : f[c] \in Nat
    BY CellFacts
<1> HIDE DEF f
<1>3. SumFunction(f) \in Nat
    BY <1>1, <1>2, FiniteSumNat
<1> QED BY <1>3 DEF f, DueOf

\* The same amounts on the same cells.
LEMMA DueSame ==
    ASSUME NEW ps, NEW new, NEW cells,
           \A c \in cells : RemainingDue(RowOf(new, c)) = RemainingDue(RowOf(ps, c))
    PROVE  DueOf(new, cells) = DueOf(ps, cells)
<1>1. [c \in cells |-> RemainingDue(RowOf(new, c))] = [c \in cells |-> RemainingDue(RowOf(ps, c))]
    OBVIOUS
<1> QED BY <1>1 DEF DueOf

\* A plan in force for obligation o and published rows: all that is left to collect.
LEMMA PublishedCells ==
    ASSUME NEW ps \in Seq(Plan), NEW o, NEW rows, NEW from \in Int, NEW new,
           PublishedAs(ps, new, o, rows, from), FreshRows(rows, from),
           \A m \in DOMAIN rows : ~rows[m].closed
    PROVE  /\ Cells(new, o) = HotCells(ps, o) \cup NewCells(Len(ps) + 1, rows)
           /\ HotCells(ps, o) \cap NewCells(Len(ps) + 1, rows) = {}
           /\ \A c \in HotCells(ps, o) : RowOf(new, c) = RowOf(ps, c)
           /\ \A c \in NewCells(Len(ps) + 1, rows) : RowOf(new, c) = rows[c[2]]
<1>1. /\ DOMAIN ps = 1 .. Len(ps) /\ Len(ps) \in Nat /\ DOMAIN new = 1 .. Len(ps) + 1
      /\ new[Len(ps) + 1].obligation = o /\ new[Len(ps) + 1].status = "PUBLISHED"
      /\ new[Len(ps) + 1].rows = rows
      /\ \A k \in DOMAIN ps :
            new[k] = IF ps[k].obligation = o THEN Retired(ps[k], from) ELSE ps[k]
    BY DEF PublishedAs
<1>2. ASSUME NEW c \in HotCells(ps, o)
      PROVE  /\ c \in Cells(new, o) /\ RowOf(new, c) = RowOf(ps, c)
             /\ c \notin NewCells(Len(ps) + 1, rows)
    <2> DEFINE k == c[1]
               m == c[2]
    <2>1. /\ c = <<k, m>> /\ k \in DOMAIN ps /\ m \in DOMAIN ps[k].rows
          /\ ps[k].obligation = o /\ ps[k].rows[m].status \in Hot
          /\ ~ps[k].rows[m].closed
          /\ RowOf(ps, c) = ps[k].rows[m] /\ ps[k] \in Plan
        BY CellFacts, PlanFacts DEF HotCells, RowOf, LiveRow
    <2> HIDE DEF k, m
    <2>2. /\ new[k] = Retired(ps[k], from) /\ k \in DOMAIN new
          /\ Retired(ps[k], from).obligation = o
          /\ DOMAIN Retired(ps[k], from).rows = DOMAIN ps[k].rows
          /\ Retired(ps[k], from).rows[m] = SupersededRow(ps[k].rows[m], m, from)
        BY <1>1, <2>1, RetiredFacts, SupersedeRows
    <2>3. new[k].rows[m] = ps[k].rows[m]
        BY <2>1, <2>2 DEF SupersededRow, Hot
    <2>4. LiveRow(new, k, m)
        BY <2>1, <2>3 DEF LiveRow
    <2>7. k \in DOMAIN new /\ new[k].obligation = o /\ m \in DOMAIN new[k].rows
        BY <2>1, <2>2
    <2>5. <<k, m>> \in Cells(new, o) /\ RowOf(new, <<k, m>>) = new[k].rows[m]
        BY <2>4, <2>7, CellIntro
    <2>6. <<k, m>> \notin NewCells(Len(ps) + 1, rows)
        BY <1>1, <2>1 DEF NewCells
    <2> QED BY <2>1, <2>3, <2>5, <2>6
<1>3. ASSUME NEW c \in NewCells(Len(ps) + 1, rows)
      PROVE  c \in Cells(new, o) /\ RowOf(new, c) = rows[c[2]]
    <2>1. c = <<Len(ps) + 1, c[2]>> /\ c[2] \in DOMAIN rows
        BY DEF NewCells
    <2> DEFINE k == Len(ps) + 1
               m == c[2]
    <2>2. /\ k \in DOMAIN new /\ m \in DOMAIN new[k].rows /\ new[k].obligation = o
          /\ new[k].rows[m] = rows[m]
        BY <1>1, <2>1
    <2>3. LiveRow(new, k, m)
        BY <1>1, <2>1, <2>2 DEF LiveRow, FreshRows
    <2> HIDE DEF k, m
    <2>4. <<k, m>> \in Cells(new, o) /\ RowOf(new, <<k, m>>) = rows[m]
        BY <2>2, <2>3, CellIntro
    <2> QED BY <2>1, <2>4 DEF k, m
<1>4. ASSUME NEW c \in Cells(new, o)
      PROVE  c \in HotCells(ps, o) \cup NewCells(Len(ps) + 1, rows)
    <2> DEFINE k == c[1]
               m == c[2]
    <2>1. /\ c = <<k, m>> /\ k \in DOMAIN new /\ m \in DOMAIN new[k].rows
          /\ new[k].obligation = o /\ LiveRow(new, k, m)
        BY DEF Cells
    <2> HIDE DEF k, m
    <2>2. CASE k = Len(ps) + 1
        BY <1>1, <2>1, <2>2 DEF NewCells
    <2>3. CASE k # Len(ps) + 1
        <3>1. k \in DOMAIN ps
            BY <1>1, <2>1, <2>3
        <3>2. ps[k] \in Plan
            BY <3>1, PlanFacts
        <3>3. /\ Retired(ps[k], from).obligation = ps[k].obligation
              /\ Retired(ps[k], from).status = "SUPERSEDED"
              /\ DOMAIN Retired(ps[k], from).rows = DOMAIN ps[k].rows
            BY <3>2, RetiredFacts
        <3>4. ps[k].obligation = o /\ new[k] = Retired(ps[k], from)
            BY <1>1, <2>1, <3>1, <3>3
        <3>5. m \in DOMAIN ps[k].rows /\ ps[k].rows[m] \in Installment
            BY <2>1, <3>1, <3>3, <3>4, PlanFacts
        <3>6. new[k].rows[m] = SupersededRow(ps[k].rows[m], m, from)
            BY <3>2, <3>4, <3>5, SupersedeRows
        <3>7. ~new[k].rows[m].closed /\ new[k].rows[m].status \in Hot
            BY <2>1, <3>3, <3>4 DEF LiveRow
        <3>8. new[k].rows[m] = ps[k].rows[m]
            BY <3>5, <3>6, <3>7 DEF SupersededRow, Installment, Hot
        <3>9. LiveRow(ps, k, m)
            BY <3>7, <3>8 DEF LiveRow
        <3>10. <<k, m>> \in Cells(ps, o) /\ RowOf(ps, <<k, m>>) = ps[k].rows[m]
            BY <3>1, <3>4, <3>5, <3>9, CellIntro
        <3> QED BY <2>1, <3>7, <3>8, <3>10 DEF HotCells
    <2> QED BY <2>2, <2>3
<1>5. Cells(new, o) = HotCells(ps, o) \cup NewCells(Len(ps) + 1, rows)
    BY <1>2, <1>3, <1>4
<1> QED BY <1>2, <1>3, <1>5

\* Without its current plan an obligation has only published rows left to collect.
LEMMA WithdrawnCells ==
    ASSUME NEW ps \in Seq(Plan), NEW obs, OneCurrent(obs, ps), NEW o \in DOMAIN obs,
           NEW from \in Int, NEW new, WithdrawnAs(ps, new, o, obs[o].currentPlan, from)
    PROVE  /\ Cells(new, o) = HotCells(ps, o)
           /\ \A c \in HotCells(ps, o) : RowOf(new, c) = RowOf(ps, c)
<1>1. ASSUME NEW k \in DOMAIN ps, ps[k].obligation = o
      PROVE  /\ new[k].obligation = o /\ new[k].status # "PUBLISHED"
             /\ DOMAIN new[k].rows = DOMAIN ps[k].rows
             /\ \A m \in DOMAIN ps[k].rows : new[k].rows[m] = SupersededRow(ps[k].rows[m], m, from)
    <2>1. ps[k].status = "PUBLISHED" => k = obs[o].currentPlan
        BY <1>1 DEF OneCurrent
    <2> QED BY <1>1, <2>1 DEF WithdrawnAs
<1>2. ASSUME NEW c \in HotCells(ps, o)
      PROVE  c \in Cells(new, o) /\ RowOf(new, c) = RowOf(ps, c)
    <2> DEFINE k == c[1]
               m == c[2]
    <2>1. /\ c = <<k, m>> /\ k \in DOMAIN ps /\ m \in DOMAIN ps[k].rows
          /\ ps[k].obligation = o /\ ps[k].rows[m].status \in Hot
          /\ ~ps[k].rows[m].closed
          /\ RowOf(ps, c) = ps[k].rows[m]
        BY CellFacts DEF HotCells, RowOf, LiveRow
    <2> HIDE DEF k, m
    <2>2. /\ k \in DOMAIN new /\ new[k].obligation = o /\ m \in DOMAIN new[k].rows
          /\ new[k].rows[m] = ps[k].rows[m]
        BY <1>1, <2>1 DEF SupersededRow, Hot, WithdrawnAs
    <2>3. LiveRow(new, k, m)
        BY <2>1, <2>2 DEF LiveRow
    <2>4. <<k, m>> \in Cells(new, o) /\ RowOf(new, <<k, m>>) = new[k].rows[m]
        BY <2>2, <2>3, CellIntro
    <2> QED BY <2>1, <2>2, <2>4
<1>3. ASSUME NEW c \in Cells(new, o)
      PROVE  c \in HotCells(ps, o)
    <2> DEFINE k == c[1]
               m == c[2]
    <2>1. /\ c = <<k, m>> /\ k \in DOMAIN new /\ m \in DOMAIN new[k].rows
          /\ new[k].obligation = o /\ LiveRow(new, k, m)
        BY DEF Cells
    <2> HIDE DEF k, m
    <2>2. k \in DOMAIN ps /\ ps[k].obligation = o
        BY <2>1 DEF WithdrawnAs
    <2>3. /\ new[k].status # "PUBLISHED" /\ m \in DOMAIN ps[k].rows
          /\ new[k].rows[m] = SupersededRow(ps[k].rows[m], m, from)
        BY <1>1, <2>1, <2>2
    <2>4. ~new[k].rows[m].closed /\ new[k].rows[m].status \in Hot
        BY <2>1, <2>3 DEF LiveRow
    <2>5. ps[k].rows[m] \in Installment
        BY <2>2, <2>3, PlanFacts
    <2>6. new[k].rows[m] = ps[k].rows[m]
        BY <2>3, <2>4, <2>5 DEF SupersededRow, Installment, Hot
    <2>7. LiveRow(ps, k, m)
        BY <2>4, <2>6 DEF LiveRow
    <2>8. <<k, m>> \in Cells(ps, o) /\ RowOf(ps, <<k, m>>) = ps[k].rows[m]
        BY <2>2, <2>3, <2>7, CellIntro
    <2> QED BY <2>1, <2>4, <2>6, <2>8 DEF HotCells
<1> QED BY <1>2, <1>3

-----------------------------------------------------------------------------
(* What the rows say of the debt                                           *)

\* What was collected on a row went to contractual debt and to its penalty.
RowSplit(row) == row.paid = row.toContract + row.toPenalty /\ row.toPenalty <= row.penaltyDue

SplitRows(ps, o) ==
    \A k \in DOMAIN ps : ps[k].obligation = o => \A m \in DOMAIN ps[k].rows : RowSplit(ps[k].rows[m])

IsFirst(ps, o, x) == x \in Cells(ps, o) /\ \A c \in Cells(ps, o) : x[2] <= c[2]

\* The row asks for this much penalty yet, and has taken no more than its contractual part before.
Carries(row, penalty) ==
    /\ penalty <= row.penaltyDue - row.toPenalty
    /\ row.toContract > row.scheduled => penalty = 0

\* The rows to collect cover the debt, and the first of them asks for all its penalty.
Debt(ps, o, contractual, penalty) ==
    /\ SplitRows(ps, o)
    /\ DueOf(ps, Cells(ps, o)) >= contractual + penalty
    /\ \A x \in Cells(ps, o) : IsFirst(ps, o, x) => Carries(RowOf(ps, x), penalty)

\* Two rows of the same amounts.
SameMoney(row, was) ==
    /\ row.scheduled = was.scheduled /\ row.penaltyDue = was.penaltyDue
    /\ row.paid = was.paid /\ row.toContract = was.toContract /\ row.toPenalty = was.toPenalty

\* The obligation has the plans it had, with the months and amounts they had.
SamePlans(ps, new, o) ==
    \A k \in DOMAIN new : new[k].obligation = o =>
        /\ k \in DOMAIN ps /\ ps[k].obligation = o
        /\ DOMAIN new[k].rows = DOMAIN ps[k].rows
        /\ \A m \in DOMAIN ps[k].rows : SameMoney(new[k].rows[m], ps[k].rows[m])

LEMMA SameMoneyFacts ==
    ASSUME NEW row, NEW was, SameMoney(row, was)
    PROVE  /\ RemainingDue(row) = RemainingDue(was)
           /\ RowSplit(was) => RowSplit(row)
           /\ \A p : Carries(was, p) => Carries(row, p)
BY DEF SameMoney, RemainingDue, TotalExpected, RowSplit, Carries

\* Plans that keep their amounts and the rows to collect cover what they covered.
LEMMA DebtSame ==
    ASSUME NEW ps, NEW new, NEW o, SamePlans(ps, new, o),
           Cells(new, o) = Cells(ps, o), NEW contractual, NEW penalty,
           Debt(ps, o, contractual, penalty)
    PROVE  Debt(new, o, contractual, penalty)
<1>1. ASSUME NEW c \in Cells(new, o)
      PROVE  SameMoney(RowOf(new, c), RowOf(ps, c))
    BY <1>1 DEF Cells, RowOf, SamePlans
<1>2. DueOf(new, Cells(new, o)) = DueOf(ps, Cells(ps, o))
    <2>1. \A c \in Cells(new, o) : RemainingDue(RowOf(new, c)) = RemainingDue(RowOf(ps, c))
        BY <1>1, SameMoneyFacts
    <2>2. DueOf(new, Cells(new, o)) = DueOf(ps, Cells(new, o))
        BY <2>1, DueSame
    <2> QED BY <2>2
<1>3. SplitRows(new, o)
    BY SameMoneyFacts DEF SplitRows, SamePlans, Debt
<1>4. ASSUME NEW x \in Cells(new, o), IsFirst(new, o, x)
      PROVE  Carries(RowOf(new, x), penalty)
    <2>1. IsFirst(ps, o, x)
        BY <1>4 DEF IsFirst
    <2>2. Carries(RowOf(ps, x), penalty)
        BY <2>1 DEF Debt, IsFirst
    <2> QED BY <1>1, <2>2, SameMoneyFacts
<1> QED BY <1>2, <1>3, <1>4 DEF Debt

\* The plans of the other obligations keep their rows; new plans are of this one.
SameOthers(ps, new, o) ==
    /\ \A k \in DOMAIN ps :
          /\ k \in DOMAIN new /\ new[k].obligation = ps[k].obligation
          /\ ps[k].obligation # o =>
                /\ new[k].status = ps[k].status
                /\ DOMAIN new[k].rows = DOMAIN ps[k].rows
                /\ \A m \in DOMAIN ps[k].rows : new[k].rows[m] = ps[k].rows[m]
    /\ \A k \in DOMAIN new \ DOMAIN ps : new[k].obligation = o

\* What an operation on one obligation leaves of the plans of another.
LEMMA DebtElsewhere ==
    ASSUME NEW ps, NEW new, NEW o, SameOthers(ps, new, o), NEW q, q # o,
           NEW contractual, NEW penalty, Debt(ps, q, contractual, penalty)
    PROVE  Debt(new, q, contractual, penalty)
<1>1. \A k \in DOMAIN new : new[k].obligation = q => k \in DOMAIN ps /\ ps[k].obligation = q
    BY DEF SameOthers
<1>2. \A k \in DOMAIN ps : ps[k].obligation = q =>
         /\ k \in DOMAIN new /\ new[k].obligation = q /\ new[k].status = ps[k].status
         /\ DOMAIN new[k].rows = DOMAIN ps[k].rows
         /\ \A m \in DOMAIN ps[k].rows : new[k].rows[m] = ps[k].rows[m]
    BY DEF SameOthers
<1>3. SamePlans(ps, new, q)
    BY <1>1, <1>2 DEF SamePlans, SameMoney
<1>4. Cells(new, q) = Cells(ps, q)
    <2>1. ASSUME NEW c \in Cells(ps, q)
          PROVE  c \in Cells(new, q)
        BY <1>2, <2>1 DEF Cells, LiveRow
    <2>2. ASSUME NEW c \in Cells(new, q)
          PROVE  c \in Cells(ps, q)
        BY <1>1, <1>2, <2>2 DEF Cells, LiveRow
    <2> QED BY <2>1, <2>2
<1> QED BY <1>3, <1>4, DebtSame

LEMMA SameOthersTwice ==
    ASSUME NEW ps, NEW mid, NEW new, NEW o, SameOthers(ps, mid, o), SameOthers(mid, new, o)
    PROVE  SameOthers(ps, new, o)
BY DEF SameOthers

LEMMA PublishedSameOthers ==
    ASSUME NEW ps \in Seq(Plan), NEW o, NEW rows, NEW from \in Int, NEW new,
           PublishedAs(ps, new, o, rows, from)
    PROVE  SameOthers(ps, new, o)
<1>1. ASSUME NEW k \in DOMAIN ps
      PROVE  /\ k \in DOMAIN new /\ new[k].obligation = ps[k].obligation
             /\ ps[k].obligation # o => new[k] = ps[k]
    <2>1. ps[k] \in Plan /\ Retired(ps[k], from).obligation = ps[k].obligation
        BY PlanFacts, RetiredFacts
    <2> QED BY <2>1 DEF PublishedAs
<1>2. \A k \in DOMAIN new \ DOMAIN ps : new[k].obligation = o
    BY DEF PublishedAs
<1> QED BY <1>1, <1>2 DEF SameOthers

LEMMA WithdrawnSameOthers ==
    ASSUME NEW ps, NEW o, NEW current, NEW from, NEW new, WithdrawnAs(ps, new, o, current, from)
    PROVE  SameOthers(ps, new, o)
BY DEF WithdrawnAs, SameOthers

LEMMA RowWrittenSameOthers ==
    ASSUME NEW ps, NEW k, NEW m, NEW row, NEW new, RowWritten(ps, new, k, m, row)
    PROVE  SameOthers(ps, new, ps[k].obligation)
BY DEF RowWritten, SameOthers

\* The rows of the obligation are split as they were after any of its plans is replaced.
LEMMA SplitPublished ==
    ASSUME NEW ps \in Seq(Plan), NEW o, SplitRows(ps, o),
           NEW contractual \in Nat, NEW penalty \in Nat, NEW term \in Nat \ {0},
           NEW from \in Int, NEW new,
           PublishedAs(ps, new, o, NewRows(contractual, penalty, term, from), from)
    PROVE  SplitRows(new, o)
<1> DEFINE rows == NewRows(contractual, penalty, term, from)
<1> SUFFICES ASSUME NEW k \in DOMAIN new, new[k].obligation = o, NEW m \in DOMAIN new[k].rows
             PROVE  RowSplit(new[k].rows[m])
    BY DEF SplitRows
<1>1. CASE k = Len(ps) + 1
    <2>1. new[k].rows = rows
        BY <1>1 DEF PublishedAs
    <2>2. /\ rows[m].paid = 0 /\ rows[m].toContract = 0 /\ rows[m].toPenalty = 0
          /\ rows[m].penaltyDue \in Nat
        BY <2>1 DEF NewRows, PenaltyDue
    <2> HIDE DEF rows
    <2> QED BY <2>1, <2>2 DEF RowSplit
<1>2. CASE k # Len(ps) + 1
    <2>1. k \in DOMAIN ps
        BY <1>2 DEF PublishedAs
    <2>2. ps[k] \in Plan
        BY <2>1, PlanFacts
    <2>3. /\ Retired(ps[k], from).obligation = ps[k].obligation
          /\ DOMAIN Retired(ps[k], from).rows = DOMAIN ps[k].rows
        BY <2>2, RetiredFacts
    <2>4. ps[k].obligation = o /\ new[k] = Retired(ps[k], from)
        BY <2>1, <2>3 DEF PublishedAs
    <2>5. m \in DOMAIN ps[k].rows /\ ps[k].rows[m] \in Installment
        BY <2>1, <2>3, <2>4, PlanFacts
    <2>6. new[k].rows[m] = SupersededRow(ps[k].rows[m], m, from)
        BY <2>2, <2>4, <2>5, SupersedeRows
    <2>7. RowSplit(ps[k].rows[m])
        BY <2>1, <2>4, <2>5 DEF SplitRows
    <2> QED BY <2>5, <2>6, <2>7 DEF RowSplit, SupersededRow, Installment
<1> QED BY <1>1, <1>2

(***************************************************************************)
(* A new plan covers what it was made from; the rows that are already      *)
(* published cover the rest and come first.                                *)
(***************************************************************************)
LEMMA DebtPublished ==
    ASSUME NEW ps \in Seq(Plan), NEW o, SplitRows(ps, o),
           NEW fc \in Nat, NEW fp \in Nat, NEW term \in Nat \ {0}, NEW from \in Int, NEW new,
           PublishedAs(ps, new, o, NewRows(fc, fp, term, from), from), new \in Seq(Plan),
           NEW contractual \in Nat, NEW penalty \in Nat,
           DueOf(ps, HotCells(ps, o)) + fc + fp >= contractual + penalty,
           HotCells(ps, o) = {} => penalty <= fp,
           \A h \in HotCells(ps, o) : h[2] < from /\ Carries(RowOf(ps, h), penalty)
    PROVE  Debt(new, o, contractual, penalty)
<1> DEFINE rows == NewRows(fc, fp, term, from)
           hot == HotCells(ps, o)
           k == Len(ps) + 1
           fresh == NewCells(k, rows)
           f == [c \in Cells(new, o) |-> RemainingDue(RowOf(new, c))]
<1>1. FreshRows(rows, from) /\ \A m \in DOMAIN rows : ~rows[m].closed
    <2>1. \A m \in DOMAIN rows : ~rows[m].closed
        BY DEF NewRows
    <2> QED BY <2>1, NewRowsFresh
<1>2. PublishedAs(ps, new, o, rows, from)
    OBVIOUS
<1>3. /\ from \in DOMAIN rows /\ rows[from].penaltyDue = fp
      /\ rows[from].toPenalty = 0 /\ rows[from].toContract = 0 /\ rows[from].scheduled >= 0
    BY FirstRow
<1>4. LET due == SumFunction([c \in fresh |-> RemainingDue(rows[c[2]])])
      IN  due \in Nat /\ due >= fc + fp
    BY NewRowsCover
<1> HIDE DEF rows
<1>5. /\ Cells(new, o) = HotCells(ps, o) \cup NewCells(Len(ps) + 1, rows)
      /\ HotCells(ps, o) \cap NewCells(Len(ps) + 1, rows) = {}
      /\ \A c \in HotCells(ps, o) : RowOf(new, c) = RowOf(ps, c)
      /\ \A c \in NewCells(Len(ps) + 1, rows) : RowOf(new, c) = rows[c[2]]
    BY <1>1, <1>2, PublishedCells
<1>6. IsFiniteSet(DOMAIN f) /\ \A c \in DOMAIN f : f[c] \in Nat
    BY CellsAreFinite, CellFacts
<1>7. Part(f, hot) = [c \in hot |-> RemainingDue(RowOf(ps, c))]
      /\ Part(f, fresh) = [c \in fresh |-> RemainingDue(rows[c[2]])]
    BY <1>5 DEF Part
<1>8. Part(f, hot \cup fresh) = f
    BY <1>5 DEF Part
<1>9. hot \in SUBSET DOMAIN f /\ fresh \in SUBSET DOMAIN f /\ hot \cap fresh = {}
    BY <1>5
<1>10. SumFunction(f) = DueOf(new, Cells(new, o))
    BY DEF DueOf
<1>11. DueOf(ps, hot) \in Nat
    BY DueNat DEF HotCells
<1>12. hot = HotCells(ps, o) /\ (\A c \in fresh : c[2] \in DOMAIN rows)
    BY DEF NewCells
<1>13. <<k, from>> \in fresh
    BY <1>3 DEF NewCells
<1> HIDE DEF f, hot, fresh, k
<1>14. SumFunction(f) = SumFunction(Part(f, hot)) + SumFunction(Part(f, fresh))
    BY <1>6, <1>8, <1>9, SumDisjoint
<1>15. SumFunction(Part(f, hot)) = DueOf(ps, hot)
    BY <1>7 DEF DueOf
<1>16. DueOf(new, Cells(new, o)) >= contractual + penalty
    BY <1>4, <1>7, <1>10, <1>11, <1>12, <1>14, <1>15
<1>17. SplitRows(new, o)
    BY SplitPublished
<1>18. ASSUME NEW x \in Cells(new, o), IsFirst(new, o, x)
       PROVE  Carries(RowOf(new, x), penalty)
    <2>1. CASE x \in hot
        BY <1>5, <1>12, <2>1
    <2>2. CASE x \notin hot
        <3>1. x \in fresh /\ RowOf(new, x) = rows[x[2]] /\ x[2] \in DOMAIN rows /\ x[2] >= from
              /\ x[2] \in Int
            BY <1>1, <1>5, <1>12, <2>2 DEF FreshRows, hot, fresh, k
        <3>2. hot = {}
            <4> SUFFICES ASSUME NEW h \in hot PROVE FALSE
                OBVIOUS
            <4>1. h \in Cells(new, o) /\ h[2] < from /\ h[2] \in Int
                BY <1>5, <1>12, CellFacts DEF HotCells
            <4>2. x[2] <= h[2]
                BY <1>18, <4>1 DEF IsFirst
            <4> QED BY <3>1, <4>1, <4>2
        <3>3. x[2] <= from
            <4>1. x[2] <= <<k, from>>[2]
                BY <1>9, <1>13, <1>18 DEF IsFirst, f
            <4> QED BY <4>1
        <3>4. x[2] = from
            BY <3>1, <3>3
        <3>5. penalty <= fp /\ RowOf(new, x) = rows[from]
            BY <1>12, <3>1, <3>2, <3>4
        <3>6. rows[from].scheduled \in Int
            BY <3>5, CellFacts DEF Installment
        <3>7. penalty <= rows[from].penaltyDue - rows[from].toPenalty
            BY <1>3, <3>5
        <3> QED BY <1>3, <3>5, <3>6, <3>7 DEF Carries
    <2> QED BY <2>1, <2>2
<1> QED BY <1>16, <1>17, <1>18 DEF Debt

\* Without its plan, the published rows cover the debt by themselves.
LEMMA DebtWithdrawn ==
    ASSUME NEW ps \in Seq(Plan), NEW obs, OneCurrent(obs, ps), NEW o \in DOMAIN obs,
           SplitRows(ps, o), NEW from \in Int, NEW new,
           WithdrawnAs(ps, new, o, obs[o].currentPlan, from),
           NEW contractual \in Nat, NEW penalty \in Nat,
           DueOf(ps, HotCells(ps, o)) >= contractual + penalty,
           \A h \in HotCells(ps, o) : Carries(RowOf(ps, h), penalty)
    PROVE  Debt(new, o, contractual, penalty)
<1>1. /\ Cells(new, o) = HotCells(ps, o)
      /\ \A c \in HotCells(ps, o) : RowOf(new, c) = RowOf(ps, c)
    BY WithdrawnCells
<1>2. DueOf(new, HotCells(ps, o)) = DueOf(ps, HotCells(ps, o))
    BY <1>1, DueSame
<1>3. ASSUME NEW k \in DOMAIN new, new[k].obligation = o, NEW m \in DOMAIN new[k].rows
      PROVE  RowSplit(new[k].rows[m])
    <2>1. /\ k \in DOMAIN ps /\ ps[k].obligation = o /\ m \in DOMAIN ps[k].rows
          /\ new[k].rows[m] = SupersededRow(ps[k].rows[m], m, from)
        BY <1>3 DEF WithdrawnAs
    <2>2. RowSplit(ps[k].rows[m]) /\ ps[k].rows[m] \in Installment
        BY <2>1, PlanFacts DEF SplitRows
    <2> QED BY <2>1, <2>2 DEF RowSplit, SupersededRow, Installment
<1>4. SplitRows(new, o)
    BY <1>3 DEF SplitRows
<1>5. \A x \in Cells(new, o) : IsFirst(new, o, x) => Carries(RowOf(new, x), penalty)
    BY <1>1
<1>6. DueOf(new, Cells(new, o)) >= contractual + penalty
    BY <1>1, <1>2
<1> QED BY <1>4, <1>5, <1>6 DEF Debt

-----------------------------------------------------------------------------
(* The row that was published and not yet settled                          *)

\* A row of an official month is the first to collect.
LEMMA OfficialFirst ==
    ASSUME OrderInv, NEW o, NEW x \in Cells(plans, o), x[2] \in official
    PROVE  IsFirst(plans, o, x)
<1>1. ASSUME NEW c \in Cells(plans, o)
      PROVE  x[2] <= c[2]
    <2>1. c[1] \in DOMAIN plans /\ c[2] \in DOMAIN plans[c[1]].rows /\ LiveRow(plans, c[1], c[2])
        BY OrderFacts, CellFacts
    <2>2. CalendarRow(obligations, plans, official, month, c[1], c[2])
        BY <2>1, OrderFacts DEF Calendar
    <2> QED BY <2>1, <2>2 DEF CalendarRow
<1> QED BY <1>1 DEF IsFirst

\* An open debt has one published row to collect at most, and it is the first.
LEMMA HotFirst ==
    ASSUME OrderInv, NEW o
    PROVE  /\ \A h \in HotCells(plans, o) : h[2] \in official /\ IsFirst(plans, o, h)
           /\ Active(obligations, o) => \A g, h \in HotCells(plans, o) : g = h
<1>1. ASSUME NEW h \in HotCells(plans, o)
      PROVE  /\ h \in Cells(plans, o) /\ h = <<h[1], h[2]>>
             /\ h[1] \in DOMAIN plans /\ h[2] \in DOMAIN plans[h[1]].rows /\ h[2] \in Int
             /\ plans[h[1]].obligation = o
             /\ plans[h[1]].rows[h[2]].status \in Hot
             /\ h[2] \in official /\ IsFirst(plans, o, h)
    <2>1. /\ h \in Cells(plans, o) /\ h = <<h[1], h[2]>>
          /\ h[1] \in DOMAIN plans /\ h[2] \in DOMAIN plans[h[1]].rows /\ h[2] \in Int
          /\ plans[h[1]].obligation = o
        BY OrderFacts, CellFacts DEF HotCells
    <2>2. plans[h[1]].rows[h[2]].status \in Hot
        BY DEF HotCells, RowOf
    <2>3. CalendarRow(obligations, plans, official, month, h[1], h[2])
        BY <2>1, OrderFacts DEF Calendar
    <2>4. h[2] \in official
        BY <2>2, <2>3 DEF CalendarRow
    <2> QED BY <2>1, <2>2, <2>4, OfficialFirst
<1>2. ASSUME Active(obligations, o), NEW g \in HotCells(plans, o), NEW h \in HotCells(plans, o)
      PROVE  g = h
    <2>1. g[2] <= h[2] /\ h[2] <= g[2] /\ g[2] \in Int /\ h[2] \in Int
        BY <1>1 DEF IsFirst
    <2>2. g[2] = h[2]
        BY <2>1
    <2>3. ListedRow(obligations, plans, g[1], g[2]) /\ ListedRow(obligations, plans, h[1], h[2])
        BY <1>1, <1>2 DEF ListedRow
    <2>4. g[1] = h[1]
        BY <1>1, <2>2, <2>3, OrderFacts DEF OneListed
    <2> QED BY <1>1, <2>2, <2>4
<1> QED BY <1>1, <1>2

\* What a plan that starts after the official months finds published.
LEMMA FrozenHot ==
    ASSUME OrderInv, NEW o, NEW from \in Int, StartsAfter(official, from)
    PROVE  /\ Frozen(o, from) = HotCells(plans, o)
           /\ \A h \in HotCells(plans, o) : h[2] < from
<1>1. ASSUME NEW h \in HotCells(plans, o)
      PROVE  h \in Frozen(o, from) /\ h[2] < from
    <2> DEFINE k == h[1]
               m == h[2]
    <2>1. /\ h = <<k, m>> /\ k \in DOMAIN plans /\ m \in DOMAIN plans[k].rows /\ m \in official
          /\ plans[k].obligation = o /\ LiveRow(plans, k, m) /\ plans[k].rows[m].status \in Hot
        BY OrderFacts, HotFirst, CellFacts DEF HotCells, RowOf
    <2> HIDE DEF k, m
    <2>2. m < from /\ ~plans[k].rows[m].closed
        BY <2>1 DEF StartsAfter, LiveRow
    <2>3. k \in PlansOf(o) /\ m \in {n \in DOMAIN plans[k].rows :
                                        /\ n < from
                                        /\ ~plans[k].rows[n].closed
                                        /\ plans[k].rows[n].status \in {"PUBLISHED", "PARTIAL"}}
        BY <2>1, <2>2 DEF PlansOf, Hot
    <2>4. <<k, m>> \in Frozen(o, from)
        BY <2>3 DEF Frozen
    <2>5. h[2] = m
        BY DEF m
    <2> QED BY <2>1, <2>2, <2>4, <2>5
<1>2. ASSUME NEW c \in Frozen(o, from)
      PROVE  c \in HotCells(plans, o)
    <2>1. PICK k \in PlansOf(o), m \in Int :
             /\ c = <<k, m>> /\ m \in DOMAIN plans[k].rows
             /\ ~plans[k].rows[m].closed /\ plans[k].rows[m].status \in {"PUBLISHED", "PARTIAL"}
        <3>1. PICK k \in PlansOf(o) :
                 c \in {<<k, m>> : m \in {n \in DOMAIN plans[k].rows :
                                            /\ n < from
                                            /\ ~plans[k].rows[n].closed
                                            /\ plans[k].rows[n].status \in {"PUBLISHED", "PARTIAL"}}}
            BY DEF Frozen
        <3>2. DOMAIN plans[k].rows \subseteq Int
            BY OrderFacts, PlanFacts DEF PlansOf
        <3> QED BY <3>1, <3>2
    <2>2. k \in DOMAIN plans /\ plans[k].obligation = o /\ LiveRow(plans, k, m)
        BY <2>1 DEF PlansOf, LiveRow, Hot
    <2>3. <<k, m>> \in Cells(plans, o) /\ RowOf(plans, <<k, m>>) = plans[k].rows[m]
        BY <2>1, <2>2, CellIntro
    <2> QED BY <2>1, <2>3 DEF HotCells, Hot
<1> QED BY <1>1, <1>2

\* What a row claims of a debt, and what is left of the debt, make the debt.
LEMMA ClaimCovers ==
    ASSUME NEW scheduled \in Int, NEW penaltyDue \in Nat, NEW toContract \in Nat,
           NEW toPenalty \in Nat, NEW contractual \in Nat, NEW penalty \in Nat,
           penalty <= penaltyDue - toPenalty, toContract > scheduled => penalty = 0
    PROVE  Floor0(scheduled + penaltyDue - (toContract + toPenalty))
             + Floor0(contractual - Floor0(scheduled - toContract))
             + Floor0(penalty - Floor0(penaltyDue - toPenalty)) >= contractual + penalty
BY DEF Floor0

(***************************************************************************)
(* balancesAvailableForFuturePlan leaves for the new plan what the         *)
(* published row does not ask for, after a payment or waiver too.          *)
(***************************************************************************)
LEMMA AvailableCovers ==
    ASSUME OrderInv, NEW o, Active(obligations, o),
           NEW contractual, NEW was \in Nat, Debt(plans, o, contractual, was),
           NEW from \in Int, StartsAfter(official, from),
           NEW c \in Nat, NEW p \in Nat, p <= was
    PROVE  /\ DueOf(plans, HotCells(plans, o)) + Available(o, from, c, p).contractual
                 + Available(o, from, c, p).penalty >= c + p
           /\ HotCells(plans, o) = {} => p <= Available(o, from, c, p).penalty
           /\ \A h \in HotCells(plans, o) : h[2] < from /\ Carries(RowOf(plans, h), p)
<1> DEFINE hot == HotCells(plans, o)
           f == [x \in Frozen(o, from) |->
                    Floor0(plans[x[1]].rows[x[2]].scheduled - plans[x[1]].rows[x[2]].toContract)]
           g == [x \in Frozen(o, from) |->
                    Floor0(plans[x[1]].rows[x[2]].penaltyDue - plans[x[1]].rows[x[2]].toPenalty)]
           d == [x \in hot |-> RemainingDue(RowOf(plans, x))]
<1>1. Frozen(o, from) = HotCells(plans, o) /\ \A h \in HotCells(plans, o) : h[2] < from
    BY FrozenHot
<1>2. /\ Available(o, from, c, p).contractual = Floor0(c - SumFunction(f))
      /\ Available(o, from, c, p).penalty = Floor0(p - SumFunction(g))
      /\ DueOf(plans, hot) = SumFunction(d)
    BY DEF Available, FuturePlanBalances, FrozenContractual, FrozenPenalty, DueOf
<1>3. ASSUME NEW h \in hot
      PROVE  /\ Carries(RowOf(plans, h), was) /\ RowOf(plans, h) \in Installment
             /\ RowSplit(RowOf(plans, h)) /\ RemainingDue(RowOf(plans, h)) \in Nat
    <2>1. /\ h \in Cells(plans, o) /\ IsFirst(plans, o, h)
        BY <1>3, HotFirst DEF HotCells
    <2>2. /\ h[1] \in DOMAIN plans /\ h[2] \in DOMAIN plans[h[1]].rows
          /\ plans[h[1]].obligation = o /\ RowOf(plans, h) \in Installment
          /\ RemainingDue(RowOf(plans, h)) \in Nat
        BY <2>1, OrderFacts, CellFacts
    <2> QED BY <2>1, <2>2 DEF Debt, SplitRows, RowOf
<1>4. ASSUME NEW h \in hot
      PROVE  Carries(RowOf(plans, h), p)
    <2> DEFINE row == RowOf(plans, h)
    <2>1. Carries(row, was) /\ row.penaltyDue \in Nat /\ row.toPenalty \in Nat
        BY <1>3, <1>4 DEF Installment
    <2> HIDE DEF row
    <2>2. Carries(row, p)
        BY <2>1 DEF Carries
    <2> QED BY <2>2 DEF row
<1>5. DOMAIN f = hot /\ DOMAIN g = hot /\ DOMAIN d = hot
    BY <1>1
<1>6. CASE hot = {}
    <2>1. SumFunction(f) = 0 /\ SumFunction(g) = 0 /\ SumFunction(d) = 0
        BY <1>5, <1>6, SumNone
    <2>2. Floor0(c) = c /\ Floor0(p) = p
        BY DEF Floor0
    <2> HIDE DEF f, g, d, hot
    <2> QED BY <1>2, <1>4, <1>6, <2>1, <2>2 DEF hot
<1>7. CASE hot # {}
    <2>1. PICK h \in hot : TRUE
        BY <1>7
    <2>2. hot = {h}
        BY <2>1, HotFirst
    <2> DEFINE row == RowOf(plans, h)
    <2>3. /\ row.scheduled \in Int /\ row.penaltyDue \in Nat /\ row.toContract \in Nat
          /\ row.toPenalty \in Nat
        BY <1>3, <2>1 DEF Installment
    <2>4. /\ f[h] = Floor0(row.scheduled - row.toContract)
          /\ g[h] = Floor0(row.penaltyDue - row.toPenalty)
          /\ d[h] = Floor0(row.scheduled + row.penaltyDue - (row.toContract + row.toPenalty))
        <3>1. h \in Frozen(o, from) /\ h \in hot
            BY <1>1, <2>1
        <3>2. f[h] = Floor0(row.scheduled - row.toContract) /\ g[h] = Floor0(row.penaltyDue - row.toPenalty)
            BY <3>1 DEF RowOf
        <3>3. d[h] = RemainingDue(row) /\ row.paid = row.toContract + row.toPenalty
            BY <1>3, <3>1 DEF RowSplit
        <3> HIDE DEF f, g, d, row
        <3> QED BY <2>3, <3>2, <3>3 DEF RemainingDue, TotalExpected, Floor0
    <2>5. \A n \in Int : Floor0(n) \in Nat
        BY DEF Floor0
    <2>6. p <= row.penaltyDue - row.toPenalty /\ (row.toContract > row.scheduled => p = 0)
        BY <1>4, <2>1 DEF Carries
    <2>7. /\ row.scheduled - row.toContract \in Int /\ row.penaltyDue - row.toPenalty \in Int
          /\ row.scheduled + row.penaltyDue - (row.toContract + row.toPenalty) \in Int
        BY <2>3
    <2>8. f[h] \in Nat /\ g[h] \in Nat /\ d[h] \in Nat
        BY <2>4, <2>5, <2>7
    <2> HIDE DEF f, g, d, row
    <2>9. SumFunction(f) = f[h] /\ SumFunction(g) = g[h] /\ SumFunction(d) = d[h]
        BY <1>5, <2>2, <2>8, SumOfOne
    <2>10. d[h] + Floor0(c - f[h]) + Floor0(p - g[h]) >= c + p
        BY <2>3, <2>4, <2>6, ClaimCovers
    <2> QED BY <1>1, <1>2, <1>4, <2>1, <2>9, <2>10
<1> QED BY <1>6, <1>7

-----------------------------------------------------------------------------
(* What each operation does to the cover of the debt                       *)

\* The rows to collect cover every open debt.
Covered(obs, ps) ==
    \A o \in DOMAIN obs : Active(obs, o) => Debt(ps, o, obs[o].contractual, obs[o].penalty)

SingleDebt == OrderInv /\ ~ doubled /\ Covered(obligations, plans)

\* As long as one open obligation claims the loans: an invariant until a backfill doubles it.
DebtInv == OrderInv /\ (~ doubled => Covered(obligations, plans))

\* One obligation moves; the others and their plans are what they were.
LEMMA CoveredMoved ==
    ASSUME SingleDebt, NEW o \in DOMAIN obligations, NEW contractual, NEW penalty, NEW status,
           NEW plan, ObligationMoves(o, contractual, penalty, status, plan),
           SameOthers(plans, plans', o),
           status = "ACTIVE" => Debt(plans', o, contractual, penalty)
    PROVE  Covered(obligations', plans')
<1> SUFFICES ASSUME NEW q \in DOMAIN obligations', Active(obligations', q)
             PROVE  Debt(plans', q, obligations'[q].contractual, obligations'[q].penalty)
    BY DEF Covered
<1>1. CASE q = o
    BY <1>1 DEF ObligationMoves, Active
<1>2. CASE q # o
    <2>1. q \in DOMAIN obligations /\ obligations'[q] = obligations[q]
        BY <1>2 DEF ObligationMoves
    <2>2. Debt(plans, q, obligations[q].contractual, obligations[q].penalty)
        BY <2>1 DEF SingleDebt, Covered, Active
    <2>3. Debt(plans', q, obligations[q].contractual, obligations[q].penalty)
        BY <1>2, <2>2, DebtElsewhere
    <2> QED BY <2>1, <2>3
<1> QED BY <1>1, <1>2

\* An obligation is opened; the others and their plans are what they were.
LEMMA CoveredOpened ==
    ASSUME SingleDebt, IInv', NEW ob \in Obligation, obligations' = Append(obligations, ob),
           SameOthers(plans, plans', Len(obligations) + 1),
           Debt(plans', Len(obligations) + 1, ob.contractual, ob.penalty)
    PROVE  Covered(obligations', plans')
<1> DEFINE o == Len(obligations) + 1
<1>1. /\ obligations'[o] = ob
      /\ \A q \in DOMAIN obligations : obligations'[q] = obligations[q]
      /\ DOMAIN obligations' = DOMAIN obligations \cup {o}
    BY OpenedInOrder DEF SingleDebt
<1>2. SameOthers(plans, plans', o) /\ Debt(plans', o, ob.contractual, ob.penalty)
    OBVIOUS
<1> HIDE DEF o
<1> SUFFICES ASSUME NEW q \in DOMAIN obligations', Active(obligations', q)
             PROVE  Debt(plans', q, obligations'[q].contractual, obligations'[q].penalty)
    BY DEF Covered
<1>3. CASE q = o
    BY <1>1, <1>2, <1>3
<1>4. CASE q # o
    <2>1. q \in DOMAIN obligations /\ obligations'[q] = obligations[q]
        BY <1>1, <1>4
    <2>2. Debt(plans, q, obligations[q].contractual, obligations[q].penalty)
        BY <2>1 DEF SingleDebt, Covered, Active
    <2>3. Debt(plans', q, obligations[q].contractual, obligations[q].penalty)
        BY <1>2, <1>4, <2>2, DebtElsewhere
    <2> QED BY <2>1, <2>3
<1> QED BY <1>3, <1>4

\* Where nothing is published, a new plan covers what it was made from.
LEMMA DebtOfNewPlan ==
    ASSUME NEW ps \in Seq(Plan), NEW o, SplitRows(ps, o), HotCells(ps, o) = {},
           NEW contractual \in Nat, NEW penalty \in Nat, NEW term \in Nat \ {0},
           NEW from \in Int, NEW new, new \in Seq(Plan),
           PublishedAs(ps, new, o, NewRows(contractual, penalty, term, from), from)
    PROVE  Debt(new, o, contractual, penalty)
<1>1. DueOf(ps, HotCells(ps, o)) = 0
    <2> DEFINE f == [c \in HotCells(ps, o) |-> RemainingDue(RowOf(ps, c))]
    <2>1. DOMAIN f = {}
        OBVIOUS
    <2> HIDE DEF f
    <2>2. SumFunction(f) = 0
        BY <2>1, SumNone
    <2> QED BY <2>2 DEF f, DueOf
<1>2. DueOf(ps, HotCells(ps, o)) + contractual + penalty >= contractual + penalty
    BY <1>1
<1>3. penalty <= penalty
    OBVIOUS
<1> QED BY <1>2, <1>3, DebtPublished

\* An obligation without plans has nothing published.
LEMMA NothingPublished ==
    ASSUME NEW ps, NEW o, \A k \in DOMAIN ps : ps[k].obligation # o
    PROVE  SplitRows(ps, o) /\ HotCells(ps, o) = {}
BY DEF SplitRows, HotCells, Cells

(***************************************************************************)
(* A payment off the schedule, a waiver or a new tenure: the published row *)
(* and the new plan cover what is left.                                    *)
(***************************************************************************)
LEMMA ReplannedCovered ==
    ASSUME SingleDebt, IInv', NEW o \in DOMAIN obligations, NEW contractual \in Nat,
           NEW penalty \in Nat, penalty <= obligations[o].penalty,
           NEW status \in {obligations[o].status, "SETTLED"}, NEW term \in Nat \ {0},
           Replanned(o, contractual, penalty, status, term, FirstOpenPeriod(month, official))
    PROVE  Covered(obligations', plans')
<1> DEFINE from == FirstOpenPeriod(month, official)
           fc == Available(o, from, contractual, penalty).contractual
           fp == Available(o, from, contractual, penalty).penalty
<1>1. /\ fc \in Nat /\ fp \in Nat
      /\ fc > 0 \/ fp > 0 =>
            /\ PublishedAs(plans, plans', o, NewRows(fc, fp, term, from), from)
            /\ ObligationMoves(o, contractual, penalty, status, Len(plans) + 1)
      /\ fc = 0 /\ fp = 0 =>
            /\ WithdrawnAs(plans, plans', o, obligations[o].currentPlan, from)
            /\ ObligationMoves(o, contractual, penalty, status, NoPlan)
    BY DEF Replanned
<1>2. from \in Int /\ StartsAfter(official, from)
    BY FromNow DEF SingleDebt
<1>3. /\ plans \in Seq(Plan) /\ plans' \in Seq(Plan) /\ OneCurrent(obligations, plans)
      /\ obligations[o].penalty \in Nat
    BY OrderFacts, BooksOf DEF SingleDebt, IInv, Shapes
<1> HIDE DEF from
<1>4. ASSUME status = "ACTIVE"
      PROVE  /\ SplitRows(plans, o)
             /\ DueOf(plans, HotCells(plans, o)) + fc + fp >= contractual + penalty
             /\ HotCells(plans, o) = {} => penalty <= fp
             /\ \A h \in HotCells(plans, o) : h[2] < from /\ Carries(RowOf(plans, h), penalty)
    <2> DEFINE was == obligations[o].penalty
               owed == obligations[o].contractual
    <2>1. Active(obligations, o)
        BY <1>4 DEF Active
    <2>2. Debt(plans, o, owed, was) /\ OrderInv
        BY <2>1 DEF SingleDebt, Covered
    <2>3. was \in Nat /\ penalty <= was
        BY <1>3
    <2> HIDE DEF was, owed, fc, fp
    <2>4. /\ DueOf(plans, HotCells(plans, o)) + Available(o, from, contractual, penalty).contractual
                + Available(o, from, contractual, penalty).penalty >= contractual + penalty
          /\ HotCells(plans, o) = {} => penalty <= Available(o, from, contractual, penalty).penalty
          /\ \A h \in HotCells(plans, o) : h[2] < from /\ Carries(RowOf(plans, h), penalty)
        BY <1>2, <2>1, <2>2, <2>3, AvailableCovers
    <2> QED BY <2>2, <2>4 DEF fc, fp, Debt
<1> HIDE DEF fc, fp
<1>5. CASE fc > 0 \/ fp > 0
    <2>1. /\ PublishedAs(plans, plans', o, NewRows(fc, fp, term, from), from)
          /\ ObligationMoves(o, contractual, penalty, status, Len(plans) + 1)
        BY <1>1, <1>5
    <2>2. status = "ACTIVE" => Debt(plans', o, contractual, penalty)
        BY <1>1, <1>2, <1>3, <1>4, <2>1, DebtPublished
    <2>3. SameOthers(plans, plans', o)
        BY <1>2, <1>3, <2>1, PublishedSameOthers
    <2> QED BY <2>1, <2>2, <2>3, CoveredMoved
<1>6. CASE fc = 0 /\ fp = 0
    <2>1. /\ WithdrawnAs(plans, plans', o, obligations[o].currentPlan, from)
          /\ ObligationMoves(o, contractual, penalty, status, NoPlan)
        BY <1>1, <1>6
    <2>2. ASSUME status = "ACTIVE"
          PROVE  DueOf(plans, HotCells(plans, o)) >= contractual + penalty
        <3>1. HotCells(plans, o) \in SUBSET Cells(plans, o)
            BY DEF HotCells
        <3>2. DueOf(plans, HotCells(plans, o)) \in Nat
            BY <1>3, <3>1, DueNat
        <3> QED BY <1>4, <1>6, <2>2, <3>2
    <2>3. status = "ACTIVE" => Debt(plans', o, contractual, penalty)
        BY <1>2, <1>3, <1>4, <2>1, <2>2, DebtWithdrawn
    <2>4. SameOthers(plans, plans', o)
        BY <2>1, WithdrawnSameOthers
    <2> QED BY <2>1, <2>3, <2>4, CoveredMoved
<1> QED BY <1>1, <1>5, <1>6

\* A further advance: the published row and the new plan cover the old debt and the new.
LEMMA TopUpCovered ==
    ASSUME SingleDebt, IInv', NEW o \in DOMAIN obligations, NEW total \in Nat,
           NEW tenure \in Nat \ {0}, NEW isTopup \in BOOLEAN,
           DisburseTopUp(o, total, tenure, isTopup)
    PROVE  Covered(obligations', plans')
<1> DEFINE from == FirstOpenPeriod(month, official)
           was == obligations[o]
           future == Available(o, from, was.contractual, was.penalty)
           fc == future.contractual
           fp == future.penalty
<1>1. /\ fc \in Nat /\ fp \in Nat
      /\ \E term \in Nat \ {0} :
            PublishedAs(plans, plans', o, NewRows(fc + total, fp, term, from), from)
      /\ ObligationMoves(o, was.contractual + total, was.penalty, was.status, Len(plans) + 1)
    BY DisburseTopUpEffect, OrderFacts DEF SingleDebt
<1>2. from \in Int /\ StartsAfter(official, from)
    BY FromNow DEF SingleDebt
<1>3. /\ plans \in Seq(Plan) /\ plans' \in Seq(Plan)
      /\ was.contractual \in Nat /\ was.penalty \in Nat
    BY OrderFacts, BooksOf DEF SingleDebt, IInv, Shapes
<1> DEFINE owed == was.contractual
           penalty == was.penalty
<1>4. ASSUME was.status = "ACTIVE"
      PROVE  Debt(plans, o, owed, penalty) /\ OrderInv /\ Active(obligations, o)
    BY <1>4 DEF SingleDebt, Covered, Active
<1>5. owed \in Nat /\ penalty \in Nat /\ penalty <= penalty
    BY <1>3
<1>6. /\ fc = Available(o, from, owed, penalty).contractual
      /\ fp = Available(o, from, owed, penalty).penalty
    OBVIOUS
<1>7. ObligationMoves(o, owed + total, penalty, was.status, Len(plans) + 1)
    BY <1>1
<1> HIDE DEF from, was, future, fc, fp, owed, penalty
<1>8. PICK term \in Nat \ {0} :
         PublishedAs(plans, plans', o, NewRows(fc + total, fp, term, from), from)
    BY <1>1
<1>9. fc + total \in Nat /\ owed + total \in Nat
    BY <1>1, <1>5
<1>10. ASSUME was.status = "ACTIVE"
       PROVE  Debt(plans', o, owed + total, penalty)
    <2>1. Debt(plans, o, owed, penalty) /\ OrderInv /\ Active(obligations, o)
        BY <1>4, <1>10
    <2>2. /\ DueOf(plans, HotCells(plans, o)) + Available(o, from, owed, penalty).contractual
                + Available(o, from, owed, penalty).penalty >= owed + penalty
          /\ HotCells(plans, o) = {} => penalty <= Available(o, from, owed, penalty).penalty
          /\ \A h \in HotCells(plans, o) : h[2] < from /\ Carries(RowOf(plans, h), penalty)
        BY <1>2, <1>5, <2>1, AvailableCovers
    <2>3. DueOf(plans, HotCells(plans, o)) \in Nat
        <3>1. HotCells(plans, o) \in SUBSET Cells(plans, o)
            BY DEF HotCells
        <3> QED BY <1>3, <3>1, DueNat
    <2> DEFINE due == DueOf(plans, HotCells(plans, o))
    <2>4. due + fc + fp >= owed + penalty /\ due \in Nat
        BY <1>6, <2>2, <2>3
    <2> HIDE DEF due
    <2>5. due + (fc + total) + fp >= (owed + total) + penalty
        BY <1>1, <1>5, <2>4
    <2> DEFINE planned == fc + total
               owes == owed + total
    <2>6. /\ DueOf(plans, HotCells(plans, o)) + planned + fp >= owes + penalty
          /\ planned \in Nat /\ owes \in Nat
          /\ PublishedAs(plans, plans', o, NewRows(planned, fp, term, from), from)
        BY <1>8, <1>9, <2>5 DEF due
    <2>7. SplitRows(plans, o)
        BY <2>1 DEF Debt
    <2>8. HotCells(plans, o) = {} => penalty <= fp
        BY <1>6, <2>2
    <2> HIDE DEF planned, owes
    <2>9. Debt(plans', o, owes, penalty)
        BY <1>1, <1>2, <1>3, <1>5, <2>2, <2>6, <2>7, <2>8, DebtPublished
    <2> QED BY <2>9 DEF owes
<1>11. SameOthers(plans, plans', o)
    <2> DEFINE rows == NewRows(fc + total, fp, term, from)
    <2>1. PublishedAs(plans, plans', o, rows, from)
        BY <1>8
    <2> HIDE DEF rows
    <2> QED BY <1>2, <1>3, <2>1, PublishedSameOthers
<1> QED BY <1>7, <1>10, <1>11, CoveredMoved

\* A new obligation is covered by its plan.
LEMMA OpenedCovered ==
    ASSUME SingleDebt, IInv', NEW contractual \in Nat, NEW penalty \in Nat, NEW plan \in Nat,
           obligations' = Append(obligations, NewObligation(contractual, penalty, plan)),
           NEW ps \in Seq(Plan), SameOthers(plans, ps, Len(obligations) + 1),
           SplitRows(ps, Len(obligations) + 1), HotCells(ps, Len(obligations) + 1) = {},
           NEW term \in Nat \ {0}, NEW from \in Int,
           PublishedAs(ps, plans', Len(obligations) + 1,
                       NewRows(contractual, penalty, term, from), from)
    PROVE  Covered(obligations', plans')
<1> DEFINE o == Len(obligations) + 1
           ob == NewObligation(contractual, penalty, plan)
           rows == NewRows(contractual, penalty, term, from)
<1>1. /\ PublishedAs(ps, plans', o, rows, from) /\ SameOthers(plans, ps, o)
      /\ PublishedAs(ps, plans', o, NewRows(contractual, penalty, term, from), from)
      /\ SplitRows(ps, o) /\ HotCells(ps, o) = {} /\ obligations' = Append(obligations, ob)
    OBVIOUS
<1>2. ob \in Obligation /\ ob.contractual = contractual /\ ob.penalty = penalty
    BY NewObligationShape DEF NewObligation
<1>3. plans' \in Seq(Plan)
    BY DEF IInv, Shapes
<1> HIDE DEF o, ob, rows
<1>4. Debt(plans', o, ob.contractual, ob.penalty)
    BY <1>1, <1>2, <1>3, DebtOfNewPlan
<1>5. SameOthers(plans, plans', o)
    <2>1. SameOthers(ps, plans', o)
        BY <1>1, PublishedSameOthers
    <2> QED BY <1>1, <2>1, SameOthersTwice
<1> QED BY <1>1, <1>2, <1>4, <1>5, CoveredOpened DEF o

\* No plan is of an obligation there is not.
LEMMA FreshObligation ==
    ASSUME OrderInv
    PROVE  /\ SplitRows(plans, Len(obligations) + 1)
           /\ HotCells(plans, Len(obligations) + 1) = {}
           /\ SameOthers(plans, plans, Len(obligations) + 1)
<1> DEFINE o == Len(obligations) + 1
<1>1. \A k \in DOMAIN plans : plans[k].obligation # o
    <2>1. DOMAIN obligations = 1 .. Len(obligations) /\ Len(obligations) \in Nat
          /\ \A k \in DOMAIN plans : plans[k].obligation \in DOMAIN obligations
        BY OrderFacts, ObligationFacts
    <2> QED BY <2>1
<1> HIDE DEF o
<1>2. SplitRows(plans, o) /\ HotCells(plans, o) = {}
    BY <1>1, NothingPublished
<1>3. SameOthers(plans, plans, o)
    BY DEF SameOthers
<1> QED BY <1>2, <1>3 DEF o

LEMMA BaselineCovered ==
    ASSUME SingleDebt, IInv', NEW w \in Workers, NEW term \in Nat \ {0}, NEW from \in Int,
           CreateBaseline(w, term, from)
    PROVE  Covered(obligations', plans')
<1>1. OrderInv /\ IInv /\ plans \in Seq(Plan)
    BY OrderFacts DEF SingleDebt
<1>2. /\ PublishedAs(plans, plans', Len(obligations) + 1,
                     NewRows(LoansOwe, LoansOwePenalty, term, from), from)
      /\ obligations' = Append(obligations, NewObligation(LoansOwe, LoansOwePenalty, Len(plans) + 1))
    BY <1>1, CreateBaselineEffect
<1>3. LoansOwe \in Nat /\ LoansOwePenalty \in Nat /\ Len(plans) + 1 \in Nat
    BY <1>1, PlanFacts, LoansOweNat
<1> QED BY <1>1, <1>2, <1>3, FreshObligation, OpenedCovered

LEMMA DisburseFirstCovered ==
    ASSUME SingleDebt, IInv', NEW total \in Nat, NEW tenure \in Nat \ {0}, DisburseFirst(total, tenure)
    PROVE  Covered(obligations', plans')
<1> DEFINE from == FirstOpenPeriod(month, official)
<1>1. OrderInv /\ IInv /\ plans \in Seq(Plan)
    BY OrderFacts DEF SingleDebt
<1>2. /\ PublishedAs(plans, plans', Len(obligations) + 1, NewRows(total, 0, tenure, from), from)
      /\ obligations' = Append(obligations, NewObligation(total, 0, Len(plans) + 1))
    BY <1>1, DisburseFirstEffect
<1>3. Len(plans) + 1 \in Nat /\ from \in Int
    BY <1>1, PlanFacts, FromNow
<1> HIDE DEF from
<1> QED BY <1>1, <1>2, <1>3, FreshObligation, OpenedCovered

\* The baseline of an advance over older loans publishes nothing.
LEMMA DisburseOnLegacyCovered ==
    ASSUME SingleDebt, IInv', NEW total \in Nat, NEW tenure \in Nat \ {0},
           NEW legacyTerm \in Nat \ {0}, NEW isTopup \in BOOLEAN,
           DisburseOnLegacy(total, tenure, legacyTerm, isTopup)
    PROVE  Covered(obligations', plans')
<1> DEFINE o == Len(obligations) + 1
           from == FirstOpenPeriod(month, official)
           owed == LoansOwe + total
           rows == NewRows(LoansOwe, LoansOwePenalty, legacyTerm, month)
<1>1. OrderInv /\ IInv /\ plans \in Seq(Plan) /\ month \in Int
    BY OrderFacts DEF SingleDebt
<1>2. /\ \E baseline \in Seq(Plan), term \in Nat \ {0} :
            /\ PublishedAs(plans, baseline, o, rows, month)
            /\ PublishedAs(baseline, plans', o, NewRows(owed, LoansOwePenalty, term, from), from)
      /\ obligations' = Append(obligations, NewObligation(owed, LoansOwePenalty, Len(plans) + 2))
    BY <1>1, DisburseOnLegacyEffect
<1>3. /\ LoansOwe \in Nat /\ LoansOwePenalty \in Nat /\ owed \in Nat
      /\ Len(plans) + 2 \in Nat /\ from \in Int
    BY <1>1, PlanFacts, LoansOweNat, FromNow
<1> HIDE DEF from, owed
<1>4. PICK baseline \in Seq(Plan), term \in Nat \ {0} :
         /\ PublishedAs(plans, baseline, o, rows, month)
         /\ PublishedAs(baseline, plans', o, NewRows(owed, LoansOwePenalty, term, from), from)
    BY <1>2
<1>5. SplitRows(plans, o) /\ HotCells(plans, o) = {} /\ SameOthers(plans, plans, o)
    BY <1>1, FreshObligation
<1>6. FreshRows(rows, month) /\ \A m \in DOMAIN rows : ~rows[m].closed
    <2>1. \A m \in DOMAIN rows : ~rows[m].closed
        BY DEF NewRows
    <2> QED BY <1>1, <1>3, <2>1, NewRowsFresh
<1>7. PublishedAs(plans, baseline, o, NewRows(LoansOwe, LoansOwePenalty, legacyTerm, month), month)
    BY <1>4
<1> HIDE DEF o
<1>8. SplitRows(baseline, o)
    BY <1>1, <1>3, <1>5, <1>7, SplitPublished
<1> HIDE DEF rows
<1>9. HotCells(baseline, o) = {}
    <2>1. /\ Cells(baseline, o) = HotCells(plans, o) \cup NewCells(Len(plans) + 1, rows)
          /\ HotCells(plans, o) \cap NewCells(Len(plans) + 1, rows) = {}
          /\ \A c \in HotCells(plans, o) : RowOf(baseline, c) = RowOf(plans, c)
          /\ \A c \in NewCells(Len(plans) + 1, rows) : RowOf(baseline, c) = rows[c[2]]
        BY <1>1, <1>4, <1>6, PublishedCells
    <2> SUFFICES ASSUME NEW h \in HotCells(baseline, o) PROVE FALSE
        OBVIOUS
    <2>2. h \in NewCells(Len(plans) + 1, rows) /\ RowOf(baseline, h).status \in Hot
        BY <1>5, <2>1 DEF HotCells
    <2>3. h[2] \in DOMAIN rows
        BY <2>2 DEF NewCells
    <2>4. rows[h[2]].status = "PLANNED"
        BY <1>6, <2>3 DEF FreshRows
    <2> QED BY <2>1, <2>2, <2>4 DEF Hot
<1>10. SameOthers(plans, baseline, o)
    BY <1>1, <1>4, PublishedSameOthers
<1> QED BY <1>2, <1>3, <1>4, <1>8, <1>9, <1>10, OpenedCovered DEF o

-----------------------------------------------------------------------------
(* One row changes                                                         *)

\* The first row asks for at least the penalty it carries.
LEMMA CarriesRem ==
    ASSUME NEW row \in Installment, RowSplit(row), NEW penalty \in Nat, Carries(row, penalty)
    PROVE  penalty <= RemainingDue(row)
<1>1. /\ row.scheduled \in Int /\ row.penaltyDue \in Nat /\ row.paid \in Nat
      /\ row.toContract \in Nat /\ row.toPenalty \in Nat
    BY DEF Installment
<1> QED BY <1>1 DEF RowSplit, Carries, RemainingDue, TotalExpected, Floor0

\* A row that is split carries no penalty when there is none.
LEMMA CarriesNone ==
    ASSUME NEW row \in Installment, RowSplit(row)
    PROVE  Carries(row, 0)
<1>1. row.penaltyDue \in Nat /\ row.toPenalty \in Nat
    BY DEF Installment
<1> QED BY <1>1 DEF RowSplit, Carries

LEMMA CarriesLess ==
    ASSUME NEW row \in Installment, NEW penalty \in Nat, Carries(row, penalty),
           NEW less \in Nat, less <= penalty
    PROVE  Carries(row, less)
<1>1. row.penaltyDue \in Nat /\ row.toPenalty \in Nat
    BY DEF Installment
<1> QED BY <1>1 DEF Carries

\* A written row of obligation o leaves its rows split.
LEMMA SplitRowWritten ==
    ASSUME NEW ps, NEW o, SplitRows(ps, o), NEW k, NEW m, NEW row, RowSplit(row), NEW new,
           RowWritten(ps, new, k, m, row)
    PROVE  SplitRows(new, o)
BY DEF SplitRows, RowWritten

\* The same rows to collect, but for one.
CellsButOne(ps, new, o, y) ==
    /\ \A c : c # y => (c \in Cells(new, o) <=> c \in Cells(ps, o))
    /\ \A c \in Cells(ps, o) \ {y} : RowOf(new, c) = RowOf(ps, c)

\* The cells a written row leaves.
LEMMA CellsRowWritten ==
    ASSUME NEW ps, NEW o, NEW k \in DOMAIN ps, NEW m \in DOMAIN ps[k].rows, NEW row, NEW new,
           RowWritten(ps, new, k, m, row)
    PROVE  CellsButOne(ps, new, o, <<k, m>>)
<1>1. ASSUME NEW c \in Cells(ps, o) \ {<<k, m>>}
      PROVE  c \in Cells(new, o) /\ RowOf(new, c) = RowOf(ps, c)
    <2> DEFINE j == c[1]
               n == c[2]
    <2>1. /\ c = <<j, n>> /\ j \in DOMAIN ps /\ n \in DOMAIN ps[j].rows
          /\ ps[j].obligation = o /\ LiveRow(ps, j, n)
        BY DEF Cells
    <2> HIDE DEF j, n
    <2>2. /\ j \in DOMAIN new /\ n \in DOMAIN new[j].rows /\ new[j].obligation = o
          /\ new[j].rows[n] = ps[j].rows[n] /\ new[j].status = ps[j].status
        BY <2>1 DEF RowWritten
    <2>3. LiveRow(new, j, n)
        BY <2>1, <2>2 DEF LiveRow
    <2>4. <<j, n>> \in Cells(new, o) /\ RowOf(new, <<j, n>>) = new[j].rows[n]
        BY <2>2, <2>3, CellIntro
    <2>5. <<j, n>> \in Cells(ps, o) /\ RowOf(ps, <<j, n>>) = ps[j].rows[n]
        BY <2>1, CellIntro
    <2> QED BY <2>1, <2>2, <2>4, <2>5
<1>2. ASSUME NEW c \in Cells(new, o) \ {<<k, m>>}
      PROVE  c \in Cells(ps, o)
    <2> DEFINE j == c[1]
               n == c[2]
    <2>1. /\ c = <<j, n>> /\ j \in DOMAIN new /\ n \in DOMAIN new[j].rows
          /\ new[j].obligation = o /\ LiveRow(new, j, n)
        BY DEF Cells
    <2> HIDE DEF j, n
    <2>2. /\ j \in DOMAIN ps /\ n \in DOMAIN ps[j].rows /\ ps[j].obligation = o
          /\ new[j].rows[n] = ps[j].rows[n] /\ new[j].status = ps[j].status
        BY <2>1 DEF RowWritten
    <2>3. LiveRow(ps, j, n)
        BY <2>1, <2>2 DEF LiveRow
    <2>4. <<j, n>> \in Cells(ps, o)
        BY <2>2, <2>3, CellIntro
    <2> QED BY <2>1, <2>4
<1> DEFINE y == <<k, m>>
<1>3. /\ \A c \in Cells(ps, o) \ {y} : c \in Cells(new, o) /\ RowOf(new, c) = RowOf(ps, c)
      /\ \A c \in Cells(new, o) \ {y} : c \in Cells(ps, o)
    BY <1>1, <1>2
<1> HIDE DEF y
<1>4. CellsButOne(ps, new, o, y)
    BY <1>3 DEF CellsButOne
<1> QED BY <1>4 DEF y

\* A row that is paid or closed leaves the rest to collect.
LEMMA DebtRowDone ==
    ASSUME NEW ps \in Seq(Plan), NEW o, NEW k \in DOMAIN ps, NEW m \in DOMAIN ps[k].rows,
           <<k, m>> \in Cells(ps, o), NEW row, RowSplit(row), NEW new, new \in Seq(Plan),
           RowWritten(ps, new, k, m, row), <<k, m>> \notin Cells(new, o),
           NEW contractual \in Nat, NEW penalty \in Nat, Debt(ps, o, contractual, penalty),
           NEW owed \in Nat, NEW charged \in Nat, charged <= penalty,
           owed + charged + RemainingDue(ps[k].rows[m]) <= contractual + penalty,
           IsFirst(ps, o, <<k, m>>) => charged = 0
    PROVE  Debt(new, o, owed, charged)
<1> DEFINE y == <<k, m>>
           f == [c \in Cells(ps, o) |-> RemainingDue(RowOf(ps, c))]
           rest == Cells(ps, o) \ {y}
<1>1. Cells(new, o) = rest /\ \A c \in rest : RowOf(new, c) = RowOf(ps, c)
    <2>1. CellsButOne(ps, new, o, y)
        BY CellsRowWritten
    <2>2. y \notin Cells(new, o)
        OBVIOUS
    <2> HIDE DEF f, y
    <2> QED BY <2>1, <2>2 DEF CellsButOne
<1>2. IsFiniteSet(DOMAIN f) /\ (\A c \in DOMAIN f : f[c] \in Nat) /\ y \in DOMAIN f
    BY CellsAreFinite, CellFacts
<1>3. f[y] = RemainingDue(ps[k].rows[m])
    BY <1>2 DEF RowOf
<1>4. SumFunction(f) = DueOf(ps, Cells(ps, o)) /\ Part(f, DOMAIN f \ {y})
                          = [c \in rest |-> RemainingDue(RowOf(ps, c))]
    BY DEF DueOf, Part
<1>5. rest \subseteq Cells(ps, o) /\ \A c \in Cells(ps, o) \ rest : c = y
    OBVIOUS
<1>6. y[2] = m
    OBVIOUS
<1> HIDE DEF f, rest, y
<1>7. SumFunction(f) = f[y] + SumFunction(Part(f, DOMAIN f \ {y}))
    BY <1>2, SumSplit
<1>8. DueOf(new, Cells(new, o)) = SumFunction(Part(f, DOMAIN f \ {y}))
    <2>1. \A c \in rest : RemainingDue(RowOf(new, c)) = RemainingDue(RowOf(ps, c))
        BY <1>1
    <2>2. DueOf(new, rest) = DueOf(ps, rest)
        BY <2>1, DueSame
    <2> QED BY <1>1, <1>4, <2>2 DEF DueOf
<1>9. DueOf(ps, Cells(ps, o)) >= contractual + penalty
    BY DEF Debt
<1>10. DueOf(new, Cells(new, o)) \in Nat /\ DueOf(ps, Cells(ps, o)) \in Nat /\ f[y] \in Nat
    BY <1>2, DueNat
<1>11. DueOf(new, Cells(new, o)) >= owed + charged
    <2> DEFINE left == DueOf(new, Cells(new, o))
               all == DueOf(ps, Cells(ps, o))
               due == f[y]
    <2>1. all = due + left /\ all >= contractual + penalty /\ all \in Nat /\ left \in Nat
          /\ due \in Nat /\ owed + charged + due <= contractual + penalty
        BY <1>3, <1>4, <1>7, <1>8, <1>9, <1>10
    <2> HIDE DEF left, all, due
    <2>2. left >= owed + charged
        BY <2>1
    <2> QED BY <2>2 DEF left
<1>12. SplitRows(new, o)
    BY SplitRowWritten DEF Debt
<1>13. ASSUME NEW x \in Cells(new, o), IsFirst(new, o, x)
       PROVE  Carries(RowOf(new, x), charged)
    <2>1. x \in Cells(ps, o) /\ RowOf(new, x) = RowOf(ps, x)
        BY <1>1, <1>5
    <2>2. /\ x[1] \in DOMAIN ps /\ x[2] \in DOMAIN ps[x[1]].rows /\ x[2] \in Int
          /\ ps[x[1]].obligation = o /\ RowOf(ps, x) \in Installment
        BY <2>1, CellFacts
    <2>3. RowSplit(RowOf(ps, x))
        BY <2>2 DEF Debt, SplitRows, RowOf
    <2>4. CASE IsFirst(ps, o, y)
        <3>1. charged = 0
            BY <2>4 DEF y
        <3> QED BY <2>1, <2>2, <2>3, <3>1, CarriesNone
    <2>5. CASE ~IsFirst(ps, o, y)
        <3>1. PICK z \in Cells(ps, o) : ~(y[2] <= z[2])
            BY <1>2, <2>5 DEF IsFirst, f
        <3>2. z[2] \in Int /\ y[2] \in Int
            BY <1>2, CellFacts DEF f
        <3>3. z # y
            BY <3>1, <3>2
        <3>4. z \in Cells(new, o)
            BY <1>1, <1>5, <3>3
        <3>5. x[2] <= z[2] /\ x[2] <= y[2]
            BY <1>13, <2>2, <3>1, <3>2, <3>4 DEF IsFirst
        <3>6. IsFirst(ps, o, x)
            <4> SUFFICES ASSUME NEW c \in Cells(ps, o)
                         PROVE  x[2] <= c[2]
                BY <2>1 DEF IsFirst
            <4>1. CASE c = y
                BY <3>5, <4>1
            <4>2. CASE c # y
                BY <1>1, <1>5, <1>13, <4>2 DEF IsFirst
            <4> QED BY <4>1, <4>2
        <3>7. Carries(RowOf(ps, x), penalty)
            BY <2>1, <3>6 DEF Debt
        <3> QED BY <2>1, <2>2, <3>7, CarriesLess
    <2> QED BY <2>4, <2>5
<1> QED BY <1>11, <1>12, <1>13 DEF Debt

\* A row that is paid in part is still the first to collect, and asks for the rest.
LEMMA DebtRowPaid ==
    ASSUME NEW ps \in Seq(Plan), NEW o, NEW k \in DOMAIN ps, NEW m \in DOMAIN ps[k].rows,
           <<k, m>> \in Cells(ps, o), NEW row, RowSplit(row), NEW new, new \in Seq(Plan),
           RowWritten(ps, new, k, m, row), <<k, m>> \in Cells(new, o),
           NEW contractual \in Nat, NEW penalty \in Nat, Debt(ps, o, contractual, penalty),
           NEW owed \in Nat, NEW charged \in Nat, charged <= penalty,
           NEW received \in Nat, owed + charged + received <= contractual + penalty,
           RemainingDue(row) + received = RemainingDue(ps[k].rows[m]), Carries(row, charged)
    PROVE  Debt(new, o, owed, charged)
<1> DEFINE y == <<k, m>>
           f == [c \in Cells(ps, o) |-> RemainingDue(RowOf(ps, c))]
           g == [c \in Cells(new, o) |-> RemainingDue(RowOf(new, c))]
<1>1. /\ \A c : c # y => (c \in Cells(new, o) <=> c \in Cells(ps, o))
      /\ \A c \in Cells(ps, o) \ {y} : RowOf(new, c) = RowOf(ps, c)
    <2>1. CellsButOne(ps, new, o, y)
        BY CellsRowWritten
    <2> HIDE DEF f, g, y
    <2> QED BY <2>1 DEF CellsButOne
<1>2. Cells(new, o) = Cells(ps, o) /\ y \in Cells(ps, o)
    <2>1. y \in Cells(ps, o) /\ y \in Cells(new, o)
        OBVIOUS
    <2> HIDE DEF y, f, g
    <2>2. \A c : c \in Cells(new, o) <=> c \in Cells(ps, o)
        BY <1>1, <2>1
    <2> QED BY <2>1, <2>2
<1>3. RowOf(new, y) = row /\ RowOf(ps, y) = ps[k].rows[m]
    BY DEF RowOf, RowWritten
<1>4. /\ IsFiniteSet(DOMAIN f) /\ DOMAIN f = DOMAIN g
      /\ \A c \in DOMAIN f : f[c] \in Nat /\ g[c] \in Nat
    BY <1>2, CellsAreFinite, CellFacts
<1>5. y \in DOMAIN f /\ \A c \in DOMAIN f \ {y} : g[c] = f[c]
    BY <1>1, <1>2
<1>6. f[y] = RemainingDue(ps[k].rows[m]) /\ g[y] = RemainingDue(row)
    BY <1>1, <1>3
<1>7. SumFunction(f) = DueOf(ps, Cells(ps, o)) /\ SumFunction(g) = DueOf(new, Cells(new, o))
    BY DEF DueOf
<1> HIDE DEF f, g, y
<1>8. SumFunction(g) + f[y] = SumFunction(f) + g[y]
    BY <1>4, <1>5, SumChange
<1>9. DueOf(ps, Cells(ps, o)) >= contractual + penalty
    BY DEF Debt
<1>10. DueOf(new, Cells(new, o)) >= owed + charged
    <2> DEFINE left == DueOf(new, Cells(new, o))
               all == DueOf(ps, Cells(ps, o))
               before == f[y]
               now == g[y]
    <2>1. /\ left \in Nat /\ all \in Nat /\ before \in Nat /\ now \in Nat
          /\ left + before = all + now /\ now + received = before
          /\ all >= contractual + penalty
        BY <1>4, <1>5, <1>6, <1>7, <1>8, <1>9, DueNat
    <2> HIDE DEF left, all, before, now
    <2>2. left >= owed + charged
        BY <2>1
    <2> QED BY <2>2 DEF left
<1>11. SplitRows(new, o)
    BY SplitRowWritten DEF Debt
<1>12. ASSUME NEW x \in Cells(new, o), IsFirst(new, o, x)
       PROVE  Carries(RowOf(new, x), charged)
    <2>1. CASE x = y
        BY <1>3, <2>1
    <2>2. CASE x # y
        <3>1. x \in Cells(ps, o) /\ RowOf(new, x) = RowOf(ps, x) /\ IsFirst(ps, o, x)
            BY <1>1, <1>2, <1>12, <2>2 DEF IsFirst
        <3>2. Carries(RowOf(ps, x), penalty) /\ RowOf(ps, x) \in Installment
            BY <3>1, CellFacts DEF Debt
        <3> QED BY <3>1, <3>2, CarriesLess
    <2> QED BY <2>1, <2>2
<1> QED BY <1>10, <1>11, <1>12 DEF Debt

-----------------------------------------------------------------------------
(* Collection and close                                                    *)

\* What a receipt on the first row to collect takes off the row and off the penalty.
LEMMA PaidRowMoney ==
    ASSUME NEW was \in Installment, NEW received \in Nat \ {0}, NEW penalty \in Nat, NEW row,
           CollectedOn(row, was, received, received - Least(received, penalty),
                       Least(received, penalty)),
           RowSplit(was), Carries(was, penalty), received <= RemainingDue(was)
    PROVE  /\ RowSplit(row)
           /\ Carries(row, penalty - Least(received, penalty))
           /\ RemainingDue(row) + received = RemainingDue(was)
           /\ row.status = "PAID" => penalty - Least(received, penalty) = 0
<1> DEFINE pp == Least(received, penalty)
<1>1. /\ was.scheduled \in Int /\ was.penaltyDue \in Nat /\ was.paid \in Nat
      /\ was.toContract \in Nat /\ was.toPenalty \in Nat
    BY DEF Installment
<1>2. /\ pp \in Nat /\ pp <= penalty /\ pp <= received
      /\ pp < penalty => pp = received
    BY DEF Least
<1>3. /\ row.scheduled = was.scheduled /\ row.penaltyDue = was.penaltyDue
      /\ row.paid = was.paid + received
      /\ row.toPenalty = was.toPenalty + pp
      /\ row.toContract = was.toContract + (received - pp)
      /\ row.status = "PAID" => was.paid + received >= was.scheduled + was.penaltyDue
    BY DEF CollectedOn, TotalExpected
<1>4. /\ was.paid = was.toContract + was.toPenalty /\ penalty <= was.penaltyDue - was.toPenalty
      /\ was.toContract > was.scheduled => penalty = 0
      /\ RemainingDue(was) = was.scheduled + was.penaltyDue - was.paid
      /\ received <= was.scheduled + was.penaltyDue - was.paid
    BY <1>1 DEF RowSplit, Carries, RemainingDue, TotalExpected, Floor0
<1> HIDE DEF pp
<1>5. RowSplit(row)
    BY <1>1, <1>2, <1>3, <1>4 DEF RowSplit
<1>6. Carries(row, penalty - pp)
    <2>1. penalty - pp <= row.penaltyDue - row.toPenalty
        BY <1>1, <1>2, <1>3, <1>4
    <2>2. penalty - pp # 0 => ~(row.toContract > row.scheduled)
        BY <1>1, <1>2, <1>3, <1>4
    <2> QED BY <2>1, <2>2 DEF Carries
<1>7. RemainingDue(row) + received = RemainingDue(was)
    <2>1. RemainingDue(row) = was.scheduled + was.penaltyDue - (was.paid + received)
        BY <1>1, <1>3, <1>4 DEF RemainingDue, TotalExpected, Floor0
    <2> QED BY <1>1, <1>4, <2>1
<1>8. row.status = "PAID" => penalty - pp = 0
    BY <1>1, <1>2, <1>3, <1>4
<1> QED BY <1>5, <1>6, <1>7, <1>8 DEF pp

\* A receipt that leaves a debt open was taken in full off the debt.
LEMMA OpenAfterPayment ==
    ASSUME NEW contractual \in Nat, NEW penalty \in Nat, NEW received \in Nat, NEW applied \in Nat,
           applied = Least(received, contractual + penalty),
           NEW left \in Nat, NEW charged \in Nat,
           left = contractual - (applied - Least(applied, penalty)),
           charged = penalty - Least(applied, penalty), ~(left = 0 /\ charged = 0)
    PROVE  /\ applied = received
           /\ left + charged + received <= contractual + penalty
           /\ charged <= penalty
BY DEF Least

(***************************************************************************)
(* A payroll receipt: it is on the first row to collect, so that it takes  *)
(* the penalty off the row and off the debt alike; a receipt on another    *)
(* row finds it settled and changes no amount.                             *)
(***************************************************************************)
LEMMA PayrollCovered ==
    ASSUME SingleDebt, IInv', OrderlyStep, NEW m \in Periods, NEW amount \in Nat \ {0},
           ApplyPayrollPayment(m, amount)
    PROVE  Covered(obligations', plans')
<1>1. PICK o \in DOMAIN obligations, k \in DOMAIN plans, received \in Nat, applied \in Nat :
         PaysRow(o, k, m, received, applied)
    BY OrderFacts, ApplyPayrollPaymentEffect DEF SingleDebt
<1> DEFINE was == plans[k].rows[m]
           pp == PenaltyPart(o, applied)
           taken == ContractualTaken(o, applied)
           row == PaidRow(was, received, taken, pp)
           C == obligations[o].contractual
           P == obligations[o].penalty
           owed == ContractualLeft(o, applied)
           charged == PenaltyLeft(o, applied)
           status == StatusAfter(obligations[o].status, owed, charged)
           y == <<k, m>>
<1>2. /\ OrderInv /\ IInv /\ plans \in Seq(Plan) /\ plans' \in Seq(Plan)
      /\ C \in Nat /\ P \in Nat
    BY OrderFacts, BooksOf DEF SingleDebt, IInv, Shapes
<1>3. /\ m \in DOMAIN plans[k].rows /\ plans[k].obligation = o /\ LiveRow(plans, k, m)
      /\ was \in Installment
    <2>1. /\ m \in DOMAIN plans[k].rows /\ plans[k].obligation = o /\ LiveRow(plans, k, m)
        BY <1>1 DEF PaysRow, Payable, PlansOf, LiveRow, Hot
    <2> QED BY <1>2, <2>1, PlanFacts
<1>4. /\ received <= RemainingDue(was)
      /\ received = 0 => RemainingDue(was) = 0
      /\ applied = Least(received, C + P)
      /\ pp \in Nat /\ applied - pp \in Nat /\ owed \in Nat /\ charged \in Nat
      /\ taken \in Nat /\ taken = applied - pp
      /\ RowWritten(plans, plans', k, m, row)
      /\ ObligationMoves(o, owed, charged, status, obligations[o].currentPlan)
    BY <1>1 DEF PaysRow, SingleDebt
<1>5. CollectedOn(row, was, received, taken, pp)
    BY <1>3, <1>4, PaidRowFields
<1>6. pp = Least(applied, P) /\ owed = C - (applied - pp) /\ charged = P - pp
    BY DEF PenaltyPart, ContractualLeft, PenaltyLeft
<1>7. y \in Cells(plans, o) /\ y[1] = k /\ y[2] = m /\ RowOf(plans, y) = was
    BY <1>3, CellIntro
<1>8. SameOthers(plans, plans', o)
    BY <1>3, <1>4, RowWrittenSameOthers
<1>9. plans'[k].rows[m] = row /\ plans'[k].obligation = o /\ k \in DOMAIN plans'
      /\ m \in DOMAIN plans'[k].rows
    BY <1>3, <1>4 DEF RowWritten
<1>10. /\ row.status = "PAID" => y \notin Cells(plans', o)
       /\ row.status = "PARTIAL" => y \in Cells(plans', o)
    <2> HIDE DEF row, was
    <2>1. row.closed = was.closed /\ ~was.closed
        BY <1>3, <1>5 DEF CollectedOn, LiveRow, was
    <2>2. row.status = "PAID" => ~LiveRow(plans', k, m)
        BY <1>9 DEF LiveRow, Hot
    <2>3. row.status = "PARTIAL" => LiveRow(plans', k, m)
        BY <1>9, <2>1 DEF LiveRow, Hot
    <2>4. y \in Cells(plans', o) => LiveRow(plans', k, m)
        BY <1>7 DEF Cells
    <2> QED BY <1>9, <2>2, <2>3, <2>4, CellIntro
<1>11. row.status \in {"PAID", "PARTIAL"}
    BY <1>5 DEF CollectedOn
<1>12. received # 0 => m \in official
    <2>1. row.paid = was.paid + received /\ was.paid \in Nat
        BY <1>3, <1>5 DEF CollectedOn, Installment
    <2> HIDE DEF row
    <2>2. received # 0 => plans'[k].rows[m].paid # plans[k].rows[m].paid
        BY <1>9, <2>1
    <2> QED BY <1>3, <2>2 DEF OrderlyStep
<1> HIDE DEF row, was, pp, taken, C, P, owed, charged
<1>13. ASSUME status = "ACTIVE"
       PROVE  Debt(plans', o, owed, charged)
    <2>1. Active(obligations, o) /\ ~(owed = 0 /\ charged = 0)
        BY <1>13 DEF StatusAfter, Active
    <2>2. Debt(plans, o, C, P)
        BY <2>1 DEF SingleDebt, Covered, C, P
    <2>3. /\ applied = received
          /\ owed + charged + received <= C + P
          /\ charged <= P
        <3>1. /\ applied = Least(received, C + P)
              /\ owed = C - (applied - Least(applied, P))
              /\ charged = P - Least(applied, P)
              /\ ~(owed = 0 /\ charged = 0)
            BY <1>4, <1>6, <2>1
        <3>2. C \in Nat /\ P \in Nat /\ owed \in Nat /\ charged \in Nat
            BY <1>2, <1>4
        <3> HIDE DEF status, y
        <3> QED BY <3>1, <3>2, OpenAfterPayment
    <2>4. RowSplit(was)
        BY <1>3, <2>2 DEF Debt, SplitRows, was
    <2>5. IsFirst(plans, o, y) => Carries(was, P)
        BY <1>7, <2>2 DEF Debt
    <2>6. CASE received = 0
        <3>1. pp = 0 /\ charged = P /\ RemainingDue(was) = 0
            BY <1>2, <1>4, <1>6, <2>3, <2>6 DEF Least
        <3>2. /\ was.scheduled \in Int /\ was.penaltyDue \in Nat /\ was.paid \in Nat
              /\ was.toContract \in Nat /\ was.toPenalty \in Nat
            BY <1>3 DEF Installment
        <3>3. row.status = "PAID"
            BY <1>5, <2>6, <3>1, <3>2 DEF CollectedOn, RemainingDue, TotalExpected, Floor0
        <3>4. RowSplit(row)
            BY <1>4, <1>5, <2>3, <2>4, <2>6, <3>1, <3>2 DEF CollectedOn, RowSplit
        <3>5. IsFirst(plans, o, y) => charged = 0
            BY <1>2, <1>3, <2>4, <2>5, <3>1, CarriesRem
        <3>6. owed + charged + RemainingDue(was) <= C + P
            BY <1>4, <2>3, <2>6, <3>1
        <3> QED BY <1>2, <1>3, <1>4, <1>7, <1>10, <2>2, <2>3, <3>3, <3>4, <3>5, <3>6,
                   DebtRowDone DEF was, y
    <2>7. CASE received # 0
        <3>1. IsFirst(plans, o, y)
            BY <1>2, <1>7, <1>12, <2>7, OfficialFirst
        <3>2. pp = Least(received, P) /\ received \in Nat \ {0}
            BY <1>6, <2>3, <2>7
        <3>3. CollectedOn(row, was, received, received - Least(received, P), Least(received, P))
            BY <1>4, <1>5, <2>3, <3>2
        <3>4. /\ RowSplit(row)
              /\ Carries(row, P - Least(received, P))
              /\ RemainingDue(row) + received = RemainingDue(was)
              /\ row.status = "PAID" => P - Least(received, P) = 0
            <4>1. /\ was \in Installment /\ received \in Nat \ {0} /\ P \in Nat
                  /\ received <= RemainingDue(was)
                BY <1>2, <1>3, <1>4, <3>2
            <4>2. RowSplit(was) /\ Carries(was, P)
                BY <2>4, <2>5, <3>1
            <4> HIDE DEF was, P, y, status
            <4> QED BY <3>3, <4>1, <4>2, PaidRowMoney
        <3>5. charged = P - Least(received, P)
            BY <1>6, <3>2
        <3>6. CASE row.status = "PAID"
            <4>1. charged = 0
                BY <3>4, <3>5, <3>6
            <4>2. RemainingDue(was) <= received
                <5>1. /\ was.scheduled \in Int /\ was.penaltyDue \in Nat /\ was.paid \in Nat
                    BY <1>3 DEF Installment
                <5>2. was.paid + received >= TotalExpected(was)
                    BY <3>3, <3>6 DEF CollectedOn
                <5> QED BY <5>1, <5>2 DEF RemainingDue, TotalExpected, Floor0
            <4>3. RemainingDue(was) \in Nat
                BY <1>3, RemainingDueNat
            <4>4. owed + charged + RemainingDue(was) <= C + P
                BY <1>2, <1>4, <2>3, <4>2, <4>3
            <4> QED BY <1>2, <1>3, <1>4, <1>7, <1>10, <2>2, <2>3, <3>4, <3>6, <4>1, <4>4,
                       DebtRowDone DEF was, y
        <3>7. CASE row.status = "PARTIAL"
            <4>1. Carries(row, charged)
                BY <3>4, <3>5
            <4> QED BY <1>2, <1>3, <1>4, <1>7, <1>10, <2>2, <2>3, <3>4, <3>7, <4>1,
                       DebtRowPaid DEF was, y
        <3> QED BY <1>11, <3>6, <3>7
    <2> QED BY <2>6, <2>7
<1> QED BY <1>4, <1>8, <1>13, CoveredMoved

\* A submission leaves what is to collect as it was.
LEMMA SubmitCovered ==
    ASSUME SingleDebt, OrderlyStep, NEW m \in Periods, NEW onPayroll \in BOOLEAN,
           SubmitVariation(m, onPayroll)
    PROVE  Covered(obligations', plans')
<1>1. obligations' = obligations
    BY DEF SubmitVariation
<1>2. OrderInv /\ IInv /\ plans \in Seq(Plan)
    BY OrderFacts DEF SingleDebt
<1>3. /\ DOMAIN plans' = DOMAIN plans
      /\ \A k \in DOMAIN plans :
            /\ plans'[k].obligation = plans[k].obligation
            /\ plans'[k].status = plans[k].status
            /\ DOMAIN plans'[k].rows = DOMAIN plans[k].rows
            /\ \A n \in DOMAIN plans[k].rows :
                  \/ plans'[k].rows[n] = plans[k].rows[n]
                  \/ /\ k \in Eligible(m) /\ n = m
                     /\ plans'[k].rows[n] = [plans[k].rows[n] EXCEPT !.status = "PUBLISHED"]
    BY <1>2, SubmitVariationEffect
<1>4. \A k \in DOMAIN plans : \A n \in DOMAIN plans[k].rows :
         Active(obligations, plans[k].obligation) => (LiveRow(plans', k, n) <=> LiveRow(plans, k, n))
    BY <1>2, SubmitInOrder
<1> SUFFICES ASSUME NEW o \in DOMAIN obligations, Active(obligations, o)
             PROVE  Debt(plans', o, obligations[o].contractual, obligations[o].penalty)
    BY <1>1 DEF Covered, Active
<1>5. Debt(plans, o, obligations[o].contractual, obligations[o].penalty)
    BY DEF SingleDebt, Covered
<1>6. ASSUME NEW k \in DOMAIN plans, NEW n \in DOMAIN plans[k].rows
      PROVE  SameMoney(plans'[k].rows[n], plans[k].rows[n])
    <2>1. plans[k].rows[n] \in Installment
        BY <1>2, PlanFacts
    <2> DEFINE row == plans[k].rows[n]
    <2>2. plans'[k].rows[n] \in {row, [row EXCEPT !.status = "PUBLISHED"]}
        BY <1>3
    <2> QED BY <2>1, <2>2 DEF SameMoney, Installment
<1>7. SamePlans(plans, plans', o)
    BY <1>3, <1>6 DEF SamePlans
<1>8. Cells(plans', o) = Cells(plans, o)
    <2>1. ASSUME NEW k \in DOMAIN plans, NEW n \in DOMAIN plans[k].rows, plans[k].obligation = o
          PROVE  LiveRow(plans', k, n) <=> LiveRow(plans, k, n)
        BY <1>4, <2>1
    <2>2. ASSUME NEW c \in Cells(plans, o)
          PROVE  c \in Cells(plans', o)
        BY <1>3, <2>1, <2>2 DEF Cells
    <2>3. ASSUME NEW c \in Cells(plans', o)
          PROVE  c \in Cells(plans, o)
        BY <1>3, <2>1, <2>3 DEF Cells
    <2> QED BY <2>2, <2>3
<1> QED BY <1>5, <1>7, <1>8, DebtSame

\* The row a close works on is the published one of an open debt.
LEMMA TodoFirst ==
    ASSUME SingleDebt, NEW k \in closing.todo, Active(obligations, plans[k].obligation)
    PROVE  /\ <<k, closing.period>> \in HotCells(plans, plans[k].obligation)
           /\ IsFirst(plans, plans[k].obligation, <<k, closing.period>>)
           /\ Debt(plans, plans[k].obligation, obligations[plans[k].obligation].contractual,
                   obligations[plans[k].obligation].penalty)
           /\ RowSplit(plans[k].rows[closing.period])
<1> DEFINE m == closing.period
           o == plans[k].obligation
           y == <<k, m>>
<1>1. OrderInv
    BY DEF SingleDebt
<1>2. /\ k \in DOMAIN plans /\ m \in DOMAIN plans[k].rows /\ o \in DOMAIN obligations
      /\ LiveRow(plans, k, m) /\ plans[k].rows[m].status \in Hot
    BY <1>1, TodoHot
<1>3. y \in Cells(plans, o) /\ RowOf(plans, y) = plans[k].rows[m]
    BY <1>2, CellIntro
<1>4. y \in HotCells(plans, o)
    BY <1>2, <1>3 DEF HotCells
<1>5. Debt(plans, o, obligations[o].contractual, obligations[o].penalty)
    BY <1>2 DEF SingleDebt, Covered
<1>6. RowSplit(plans[k].rows[m])
    BY <1>2, <1>5 DEF Debt, SplitRows
<1> HIDE DEF y, m, o
<1>7. IsFirst(plans, o, y)
    BY <1>1, <1>4, HotFirst
<1> QED BY <1>4, <1>5, <1>6, <1>7 DEF y, m, o

\* A settled row that is closed asked for nothing.
LEMMA CloseSettledCovered ==
    ASSUME SingleDebt, IInv', NEW k \in closing.todo, CloseSettled(k)
    PROVE  Covered(obligations', plans')
<1> DEFINE m == closing.period
           o == plans[k].obligation
           was == plans[k].rows[m]
           row == [was EXCEPT !.status = "PAID", !.closed = TRUE]
           C == obligations[o].contractual
           P == obligations[o].penalty
           status == obligations[o].status
<1>1. OrderInv /\ IInv /\ plans \in Seq(Plan) /\ plans' \in Seq(Plan)
    BY OrderFacts DEF SingleDebt, IInv, Shapes
<1>2. /\ k \in DOMAIN plans /\ m \in DOMAIN plans[k].rows /\ o \in DOMAIN obligations
      /\ was \in Installment
    BY <1>1, TodoHot
<1>3. RowWritten(plans, plans', k, m, row)
    BY <1>1, CloseSettledEffect
<1>4. obligations' = obligations /\ RemainingDue(was) = 0
    BY DEF CloseSettled
<1>5. ObligationMoves(o, C, P, status, obligations[o].currentPlan)
    BY <1>4 DEF ObligationMoves
<1>6. SameOthers(plans, plans', o)
    BY <1>3, RowWrittenSameOthers
<1>7. C \in Nat /\ P \in Nat
    BY <1>1, <1>2, BooksOf
<1>8. /\ row.closed /\ row.scheduled = was.scheduled /\ row.penaltyDue = was.penaltyDue
      /\ row.paid = was.paid /\ row.toContract = was.toContract /\ row.toPenalty = was.toPenalty
    BY <1>2 DEF Installment
<1> HIDE DEF row
<1>9. ASSUME status = "ACTIVE"
      PROVE  Debt(plans', o, C, P)
    <2> DEFINE y == <<k, m>>
    <2>1. Active(obligations, o)
        BY <1>9 DEF Active
    <2>2. y \in HotCells(plans, o) /\ IsFirst(plans, o, y) /\ Debt(plans, o, C, P) /\ RowSplit(was)
        BY <2>1, TodoFirst
    <2>3. y \in Cells(plans, o) /\ RowOf(plans, y) = was
        BY <2>2 DEF HotCells, RowOf
    <2>4. Carries(was, P)
        BY <2>2, <2>3 DEF Debt
    <2>5. P <= RemainingDue(was)
        BY <1>2, <1>7, <2>2, <2>4, CarriesRem
    <2>6. P = 0 /\ C + P + RemainingDue(was) <= C + P /\ P <= P
        BY <1>4, <1>7, <2>5
    <2>7. RowSplit(row)
        BY <1>8, <2>2 DEF RowSplit
    <2>8. y \notin Cells(plans', o)
        <3>1. plans'[k].rows[m] = row
            BY <1>2, <1>3 DEF RowWritten
        <3>2. ~LiveRow(plans', k, m)
            BY <1>8, <3>1 DEF LiveRow
        <3> QED BY <3>2 DEF Cells
    <2> HIDE DEF C, P, o, m, was
    <2> QED BY <1>1, <1>2, <1>3, <1>7, <2>2, <2>3, <2>6, <2>7, <2>8, DebtRowDone DEF was
<1> QED BY <1>2, <1>5, <1>6, <1>9, CoveredMoved

\* Where nothing is owed, nothing has to be covered.
LEMMA DebtNone ==
    ASSUME NEW ps \in Seq(Plan), NEW o, SplitRows(ps, o)
    PROVE  Debt(ps, o, 0, 0)
<1>1. DueOf(ps, Cells(ps, o)) \in Nat
    BY DueNat
<1>2. ASSUME NEW x \in Cells(ps, o)
      PROVE  Carries(RowOf(ps, x), 0)
    <2>1. /\ x[1] \in DOMAIN ps /\ x[2] \in DOMAIN ps[x[1]].rows
          /\ ps[x[1]].obligation = o /\ RowOf(ps, x) \in Installment
        BY CellFacts
    <2>2. RowSplit(RowOf(ps, x))
        BY <2>1 DEF SplitRows, RowOf
    <2> QED BY <2>1, <2>2, CarriesNone
<1> QED BY <1>1, <1>2 DEF Debt

\* A closed row is not to collect, and no other row is published by closing it.
LEMMA RowClosed ==
    ASSUME NEW ps, NEW o, NEW k \in DOMAIN ps, NEW m \in DOMAIN ps[k].rows, NEW row, row.closed,
           NEW new, RowWritten(ps, new, k, m, row)
    PROVE  \A h \in HotCells(new, o) : h # <<k, m>> /\ h \in HotCells(ps, o)
<1>1. CellsButOne(ps, new, o, <<k, m>>)
    BY CellsRowWritten
<1>2. <<k, m>> \notin Cells(new, o)
    <2>1. new[k].rows[m] = row
        BY DEF RowWritten
    <2>2. ~LiveRow(new, k, m)
        BY <2>1 DEF LiveRow
    <2> QED BY <2>2 DEF Cells
<1> DEFINE y == <<k, m>>
<1>3. y \notin Cells(new, o) /\ CellsButOne(ps, new, o, y)
    BY <1>1, <1>2
<1> HIDE DEF y
<1>4. \A h \in HotCells(new, o) : h # y /\ h \in HotCells(ps, o)
    BY <1>3 DEF CellsButOne, HotCells
<1> QED BY <1>4 DEF y

(***************************************************************************)
(* A default closes the published row of the debt; the new plan covers all *)
(* of the debt, with the charge.                                           *)
(***************************************************************************)
LEMMA CloseDefaultedCovered ==
    ASSUME SingleDebt, IInv', NEW k \in closing.todo, CloseDefaulted(k)
    PROVE  Covered(obligations', plans')
<1> DEFINE m == closing.period
           was == plans[k].rows[m]
           o == plans[k].obligation
           C == obligations[o].contractual
           status == obligations[o].status
           penalty == obligations[o].penalty + Penalty(RemainingDue(was))
           from == FirstOpenPeriod(m, official)
           replan == C > 0 \/ penalty > 0
           row == DefaultedRow(was)
<1>1. OrderInv /\ IInv /\ plans \in Seq(Plan) /\ plans' \in Seq(Plan)
    BY OrderFacts DEF SingleDebt, IInv, Shapes
<1>2. /\ penalty \in Nat
      /\ \E ps \in Seq(Plan), term \in Nat \ {0} :
            /\ RowWritten(plans, ps, k, m, row)
            /\ replan =>
                  /\ PublishedAs(ps, plans', o, NewRows(C, penalty, term, from), from)
                  /\ ObligationMoves(o, C, penalty, status, Len(plans) + 1)
            /\ ~ replan =>
                  /\ plans' = ps
                  /\ ObligationMoves(o, C, penalty, status, obligations[o].currentPlan)
    BY <1>1, CloseDefaultedEffect
<1>3. /\ k \in DOMAIN plans /\ m \in DOMAIN plans[k].rows /\ o \in DOMAIN obligations
      /\ was \in Installment /\ m \in official /\ m \in Periods
      /\ \A p \in official : p <= m
    BY <1>1, TodoHot
<1>4. from \in Int
    BY <1>1, <1>3, OrderFacts, StartNow
<1>5. C \in Nat
    BY <1>1, <1>3, BooksOf
<1>6. /\ row.closed /\ row.scheduled = was.scheduled /\ row.penaltyDue = was.penaltyDue
      /\ row.paid = was.paid /\ row.toContract = was.toContract /\ row.toPenalty = was.toPenalty
    BY <1>3, DefaultedRowFields
<1> HIDE DEF row, penalty, from, C
<1>7. PICK ps \in Seq(Plan), term \in Nat \ {0} :
         /\ RowWritten(plans, ps, k, m, row)
         /\ replan =>
               /\ PublishedAs(ps, plans', o, NewRows(C, penalty, term, from), from)
               /\ ObligationMoves(o, C, penalty, status, Len(plans) + 1)
         /\ ~ replan =>
               /\ plans' = ps
               /\ ObligationMoves(o, C, penalty, status, obligations[o].currentPlan)
    BY <1>2
<1>8. SameOthers(plans, ps, o)
    BY <1>7, RowWrittenSameOthers
<1>9. ASSUME status = "ACTIVE"
      PROVE  SplitRows(ps, o) /\ HotCells(ps, o) = {}
    <2> DEFINE y == <<k, m>>
    <2>1. Active(obligations, o)
        BY <1>9 DEF Active
    <2>2. y \in HotCells(plans, o) /\ SplitRows(plans, o) /\ RowSplit(was)
        BY <2>1, TodoFirst DEF Debt
    <2>3. RowSplit(row)
        BY <1>6, <2>2 DEF RowSplit
    <2>4. SplitRows(ps, o)
        BY <1>7, <2>2, <2>3, SplitRowWritten
    <2>5. RowWritten(plans, ps, k, m, row)
        BY <1>7
    <2> HIDE DEF m, o, was, status, replan
    <2>6. \A h \in HotCells(ps, o) : h # <<k, m>> /\ h \in HotCells(plans, o)
        BY <1>3, <1>6, <2>5, RowClosed
    <2>7. ASSUME NEW h \in HotCells(ps, o)
          PROVE  FALSE
        <3>1. h = y
            BY <1>1, <2>1, <2>2, <2>6, HotFirst
        <3> QED BY <2>6, <3>1
    <2> QED BY <2>4, <2>7
<1>10. CASE replan
    <2>1. /\ PublishedAs(ps, plans', o, NewRows(C, penalty, term, from), from)
          /\ ObligationMoves(o, C, penalty, status, Len(plans) + 1)
        BY <1>7, <1>10
    <2>2. status = "ACTIVE" => Debt(plans', o, C, penalty)
        BY <1>1, <1>2, <1>4, <1>5, <1>9, <2>1, DebtOfNewPlan
    <2>3. SameOthers(plans, plans', o)
        <3> DEFINE rows == NewRows(C, penalty, term, from)
        <3>1. PublishedAs(ps, plans', o, rows, from)
            BY <2>1
        <3> HIDE DEF rows
        <3>2. SameOthers(ps, plans', o)
            BY <1>4, <3>1, PublishedSameOthers
        <3> QED BY <1>8, <3>2, SameOthersTwice
    <2> QED BY <1>3, <2>1, <2>2, <2>3, CoveredMoved
<1>11. CASE ~replan
    <2>1. plans' = ps /\ ObligationMoves(o, C, penalty, status, obligations[o].currentPlan)
        BY <1>7, <1>11
    <2>2. C = 0 /\ penalty = 0
        BY <1>2, <1>5, <1>11
    <2>3. status = "ACTIVE" => Debt(plans', o, C, penalty)
        BY <1>9, <2>1, <2>2, DebtNone
    <2> QED BY <1>3, <1>8, <2>1, <2>3, CoveredMoved
<1> QED BY <1>10, <1>11

\* Once a second obligation claims the loans, the run is marked for good.
LEMMA DoubledStays ==
    ASSUME IInv, [Next]_vars, ~ doubled'
    PROVE  ~ doubled
<1>1. /\ NextMonth => doubled' = doubled
      /\ FinishClosing => doubled' = doubled
      /\ \A w : ListBorrower(w) \/ FindNoneOpen(w) \/ BackfillEnds(w) => doubled' = doubled
      /\ \A w, term, from : CreateBaseline(w, term, from) => (doubled => doubled')
      /\ UNCHANGED vars => doubled' = doubled
    BY DEF NextMonth, FinishClosing, ListBorrower, FindNoneOpen, BackfillEnds, CreateBaseline, vars
<1>2. /\ \A total, tenure : DisburseFirst(total, tenure) => doubled' = doubled
      /\ \A o, total, tenure, isTopup :
            DisburseTopUp(o, total, tenure, isTopup) => doubled' = doubled
      /\ \A total, tenure, legacyTerm, isTopup :
            DisburseOnLegacy(total, tenure, legacyTerm, isTopup) => doubled' = doubled
    BY DEF DisburseFirst, DisburseTopUp, DisburseOnLegacy
<1>3. /\ \A m, amount : ApplyPayrollPayment(m, amount) => doubled' = doubled
      /\ \A o, amount : ApplyUnscheduledPayment(o, amount) => doubled' = doubled
      /\ \A o, amount : AdjustPenalty(o, amount) => doubled' = doubled
      /\ \A o, term : ChangeTenure(o, term) => doubled' = doubled
    BY DEF ApplyPayrollPayment, ApplyUnscheduledPayment, AdjustPenalty, ChangeTenure
<1>4. /\ \A m, onPayroll : SubmitVariation(m, onPayroll) => doubled' = doubled
      /\ \A m : StartClosing(m) => doubled' = doubled
      /\ \A k : CloseSettled(k) \/ CloseDefaulted(k) \/ ClosingFails(k) => doubled' = doubled
    BY DEF SubmitVariation, StartClosing, CloseSettled, CloseDefaulted, ClosingFails
<1>5. [Next]_vars => (doubled => doubled')
    BY <1>1, <1>2, <1>3, <1>4, Zenon DEF Next
<1> QED BY <1>5

\* Every orderly step keeps the debts covered.
LEMMA NextCovered ==
    ASSUME SingleDebt, PlanInv', [Next /\ OrderlyStep]_vars
    PROVE  Covered(obligations', plans')
<1>1. /\ PlainStep \/ OwnStep
         \/ (\E m \in Periods : \E onPayroll \in BOOLEAN : SubmitVariation(m, onPayroll))
         \/ (\E k \in closing.todo : CloseSettled(k))
         \/ (\E k \in closing.todo : CloseDefaulted(k))
      /\ OrderlyStep \/ UNCHANGED vars
    BY OrderlyCases
<1>2. OrderInv /\ IInv /\ IInv'
    BY OrderFacts DEF SingleDebt, PlanInv
<1>3. CASE PlainStep \/ UNCHANGED vars
    <2>1. obligations' = obligations /\ plans' = plans
        BY <1>3 DEF PlainStep, vars
    <2> QED BY <2>1 DEF SingleDebt, Covered, Active
<1>4. CASE OrderlyStep /\ OwnStep
    <2> DEFINE Good == Covered(obligations', plans')
               from == FirstOpenPeriod(month, official)
    <2>1. \A w \in Workers : \A term \in Nat \ {0}, f \in Int : CreateBaseline(w, term, f) => Good
        BY <1>2, BaselineCovered
    <2>2. \A total \in Nat, tenure \in Nat \ {0} : DisburseFirst(total, tenure) => Good
        BY <1>2, DisburseFirstCovered
    <2>3. \A o \in DOMAIN obligations : \A total \in Nat, tenure \in Nat \ {0} :
             \A isTopup \in BOOLEAN : DisburseTopUp(o, total, tenure, isTopup) => Good
        BY <1>2, TopUpCovered
    <2>4. \A total \in Nat, tenure, legacyTerm \in Nat \ {0} :
             \A isTopup \in BOOLEAN : DisburseOnLegacy(total, tenure, legacyTerm, isTopup) => Good
        BY <1>2, DisburseOnLegacyCovered
    <2>5. \A m \in Periods, amount \in Nat \ {0} : ApplyPayrollPayment(m, amount) => Good
        BY <1>2, <1>4, PayrollCovered
    <2>6. ASSUME NEW o \in DOMAIN obligations, NEW amount \in Nat, ApplyUnscheduledPayment(o, amount)
          PROVE  Good
        <3>1. PICK applied \in Nat, term \in Nat \ {0} :
                 /\ ContractualLeft(o, applied) \in Nat /\ PenaltyLeft(o, applied) \in Nat
                 /\ Replanned(o, ContractualLeft(o, applied), PenaltyLeft(o, applied),
                              StatusAfter(obligations[o].status, ContractualLeft(o, applied),
                                          PenaltyLeft(o, applied)),
                              term, from)
            BY <1>2, <2>6, ApplyUnscheduledPaymentEffect
        <3>2. PenaltyLeft(o, applied) <= obligations[o].penalty
            <4>1. obligations[o].penalty \in Nat
                BY <1>2, BooksOf
            <4> QED BY <4>1 DEF PenaltyLeft, PenaltyPart, Least
        <3> DEFINE contractual == ContractualLeft(o, applied)
                   penalty == PenaltyLeft(o, applied)
                   status == StatusAfter(obligations[o].status, contractual, penalty)
        <3>3. status \in {obligations[o].status, "SETTLED"}
            BY StatusAfterCases
        <3>4. /\ contractual \in Nat /\ penalty \in Nat /\ penalty <= obligations[o].penalty
              /\ Replanned(o, contractual, penalty, status, term, from)
            BY <3>1, <3>2
        <3> HIDE DEF contractual, penalty, status
        <3> QED BY <1>2, <3>3, <3>4, ReplannedCovered
    <2>7. ASSUME NEW o \in DOMAIN obligations, NEW amount \in Nat, AdjustPenalty(o, amount)
          PROVE  Good
        <3> DEFINE penalty == obligations[o].penalty - amount
                   contractual == obligations[o].contractual
                   status == StatusAfter(obligations[o].status, contractual, penalty)
        <3>1. /\ penalty \in Nat
              /\ \E term \in Nat \ {0} : Replanned(o, contractual, penalty, status, term, from)
            BY <1>2, <2>7, AdjustPenaltyEffect
        <3>2. contractual \in Nat /\ obligations[o].penalty \in Nat
            BY <1>2, BooksOf
        <3>3. penalty <= obligations[o].penalty
            BY <3>2
        <3>4. status \in {obligations[o].status, "SETTLED"}
            BY StatusAfterCases
        <3> HIDE DEF penalty, contractual, status
        <3> QED BY <1>2, <3>1, <3>2, <3>3, <3>4, ReplannedCovered
    <2>8. ASSUME NEW o \in DOMAIN obligations, NEW term \in Nat \ {0}, ChangeTenure(o, term)
          PROVE  Good
        <3> DEFINE penalty == obligations[o].penalty
                   contractual == obligations[o].contractual
                   status == obligations[o].status
        <3>1. Replanned(o, contractual, penalty, status, term, from)
            BY <1>2, <2>8, ChangeTenureEffect
        <3>2. contractual \in Nat /\ penalty \in Nat /\ penalty <= obligations[o].penalty
            BY <1>2, BooksOf
        <3>3. status \in {obligations[o].status, "SETTLED"}
            OBVIOUS
        <3> HIDE DEF penalty, contractual, status
        <3> QED BY <1>2, <3>1, <3>2, <3>3, ReplannedCovered
    <2> HIDE DEF Good
    <2>9. Good
        BY <1>4, <2>1, <2>2, <2>3, <2>4, <2>5, <2>6, <2>7, <2>8 DEF OwnStep
    <2> QED BY <2>9 DEF Good
<1>5. ASSUME OrderlyStep, NEW m \in Periods, NEW onPayroll \in BOOLEAN,
             SubmitVariation(m, onPayroll)
      PROVE  Covered(obligations', plans')
    BY <1>5, SubmitCovered
<1>6. ASSUME NEW k \in closing.todo, CloseSettled(k)
      PROVE  Covered(obligations', plans')
    BY <1>2, <1>6, CloseSettledCovered
<1>7. ASSUME NEW k \in closing.todo, CloseDefaulted(k)
      PROVE  Covered(obligations', plans')
    BY <1>2, <1>7, CloseDefaultedCovered
<1> QED BY <1>1, <1>3, <1>4, <1>5, <1>6, <1>7

(***************************************************************************)
(* The rows to collect and the debt agree in every state an orderly run    *)
(* reaches until a backfill doubles the claim on the loans: the rows cover *)
(* the debt, and the first of them asks for its penalty.                   *)
(***************************************************************************)
THEOREM DebtInductive == OrderlySpec => []DebtInv
<1>1. Init /\ OrderInv => DebtInv
    BY DEF Init, DebtInv, Covered
<1>2. DebtInv /\ OrderInv' /\ PlanInv' /\ [Next /\ OrderlyStep]_vars => DebtInv'
    <2> SUFFICES ASSUME DebtInv, OrderInv', PlanInv', [Next /\ OrderlyStep]_vars, ~ doubled'
                 PROVE  Covered(obligations', plans')
        BY DEF DebtInv
    <2>1. IInv /\ [Next]_vars
        BY OrderFacts, OrderlyCases DEF DebtInv
    <2>2. ~ doubled
        BY <2>1, DoubledStays
    <2> QED BY <2>2, NextCovered DEF DebtInv, SingleDebt
<1> QED BY <1>1, <1>2, OrderlyRuns, OrderInductive, CurrentPlanInductive, PTL DEF OrderlySpec

(***************************************************************************)
(* Every naira owed can be collected: under the orderly calendar the rows  *)
(* still open to payroll cover the contractual debt and the penalty of an  *)
(* obligation that no second one doubles.                                  *)
(***************************************************************************)
THEOREM NoDebtIsEverStranded == OrderlySpec => []NoStrandedDebt
<1>1. ASSUME DebtInv
      PROVE  NoStrandedDebt
    <2> SUFFICES ASSUME ~ doubled, NEW o \in OpenObligations
                 PROVE  DueOn(Collectable(o)) >= obligations[o].contractual + obligations[o].penalty
        BY DEF NoStrandedDebt
    <2>1. o \in DOMAIN obligations /\ Active(obligations, o)
        BY DEF OpenObligations, Open, Active
    <2>2. Debt(plans, o, obligations[o].contractual, obligations[o].penalty)
        BY <1>1, <2>1 DEF DebtInv, Covered
    <2>3. Collectable(o) = Cells(plans, o)
        <3>1. ASSUME NEW c \in Collectable(o)
              PROVE  c \in Cells(plans, o)
            BY <3>1 DEF Collectable, Cells, Payable, PlansOf, LiveRow, Hot
        <3>2. ASSUME NEW c \in Cells(plans, o)
              PROVE  c \in Collectable(o)
            BY <3>2 DEF Collectable, Cells, Payable, PlansOf, LiveRow, Hot
        <3> QED BY <3>1, <3>2
    <2>4. DueOn(Collectable(o)) = DueOf(plans, Cells(plans, o))
        BY <2>3 DEF DueOn, DueOf, Row, RowOf
    <2> QED BY <2>2, <2>4 DEF Debt
<1> QED BY <1>1, DebtInductive, PTL
=============================================================================
