--------------------------- MODULE OrderlyMonths ---------------------------
(***************************************************************************)
(* The obligation accounts under an orderly payroll calendar.  The code    *)
(* lets an admin submit, pay and close any month in any order while plans  *)
(* are recast; this module states the order of work under which the rows   *)
(* to collect always cover the debt, and checks it; without that order     *)
(* each of the first three properties below fails.                         *)
(***************************************************************************)
EXTENDS RepaymentObligation

\* Rows of obligation o that may still be collected, as <<plan, month>>.
Collectable(o) ==
    {c \in UNION {{k} \X DOMAIN plans[k].rows : k \in PlansOf(o)} : c[1] \in Payable(o, c[2])}

Row(c) == plans[c[1]].rows[c[2]]

ContractualOn(cells) ==
    SumFunction([c \in cells |-> Floor0(Row(c).scheduled - Row(c).toContract)])

DueOn(cells) == SumFunction([c \in cells |-> RemainingDue(Row(c))])

(***************************************************************************)
(* The order of work, which the code does not enforce: only the current    *)
(* month is newly submitted, and only once every row of an earlier month   *)
(* is paid or closed, so no month is skipped; the borrower is on payroll,  *)
(* so that a submission publishes the rows of its month; payroll pays rows *)
(* of submitted months; only submitted months are closed, and a close runs *)
(* to its end before anything else happens; a migration baseline starts    *)
(* after the last official month.                                          *)
(***************************************************************************)
OrderlyStep ==
    /\ official' # official =>
          /\ official' = official \cup {month}
          /\ \A o \in DOMAIN obligations : \A c \in Collectable(o) : c[2] >= month
          /\ \A k \in Eligible(month) : plans'[k].rows[month].status = "PUBLISHED"
    /\ \A k \in DOMAIN plans : \A m \in DOMAIN plans[k].rows :
          plans'[k].rows[m].paid # plans[k].rows[m].paid => m \in official
    /\ closing'.period # 0 => closing'.period \in official
    /\ closing # NotClosing => closing' # closing
    /\ baselined' # baselined =>
          \A m \in DOMAIN plans'[Len(plans) + 1].rows : \A p \in official : p < m

OrderlySpec == Init /\ [][Next /\ OrderlyStep]_vars

-----------------------------------------------------------------------------
(* What the order of work buys: these hold under OrderlySpec.              *)

(***************************************************************************)
(* Every naira owed can be collected: the rows still open to payroll cover *)
(* the contractual debt and the penalty after every payment, recast and    *)
(* default, until a backfill opens an obligation beside an open one: two   *)
(* debts over the same loans are not allocated in full to their rows.      *)
(***************************************************************************)
NoStrandedDebt ==
    ~doubled => \A o \in OpenObligations :
        DueOn(Collectable(o)) >= obligations[o].contractual + obligations[o].penalty

(***************************************************************************)
(* No obligation has two rows for one month, so a borrower with one open   *)
(* obligation has one; two of a borrower, which the obligation of a late   *)
(* backfill brings about, break unique(scheduleId, borrowerId) and with it *)
(* the official submission of the month, for every borrower.               *)
(***************************************************************************)
OneRowPerMonth ==
    \A m \in Periods : \A o \in OpenObligations :
        Cardinality({k \in Eligible(m) : plans[k].obligation = o}) <= 1

(***************************************************************************)
(* A new plan leaves the months that are already official alone: the       *)
(* schedules payroll holds cannot contain its rows.                        *)
(***************************************************************************)
NewPlansAvoidOfficialMonths ==
    [][Len(plans') > Len(plans) => DOMAIN plans'[Len(plans')].rows \cap official = {}]_vars

-----------------------------------------------------------------------------
(* What the repository says and the code does not keep: checked by runs    *)
(* that exhibit the violation.                                             *)

(***************************************************************************)
(* A published-but-unsettled deduction is not scheduled twice: the rows    *)
(* payroll may still collect, untouched so far, never add up to more       *)
(* contractual debt than the obligation owes.  When a later month is       *)
(* official before the current one, a new plan starts in the current month *)
(* and covers the later one as well; the later published row is not before *)
(* the plan's first month, so it is neither superseded nor deducted.       *)
(***************************************************************************)
NothingScheduledTwice ==
    \A o \in OpenObligations :
        (\A c \in Collectable(o) : Row(c).status \in {"PLANNED", "PUBLISHED"}) =>
            ContractualOn(Collectable(o)) <= obligations[o].contractual

(***************************************************************************)
(* A close settles or charges every installment it listed, and ends.  A    *)
(* payment that left nothing to plan withdrew the PUBLISHED plan; the      *)
(* default's new plan is then numbered 1 again, which the database         *)
(* refuses, and the whole close fails, each time it is tried.              *)
(***************************************************************************)
EveryListedRowCloses ==
    \A k \in closing.todo :
        RemainingDue(plans[k].rows[closing.period]) > 0 => CanDefault(k)

(***************************************************************************)
(* A default penalty is charged to a loan: what the obligations hold of    *)
(* penalty, the loans hold.  A debt can be settled while a row still       *)
(* claims penalty that was paid otherwise; closing the month then charges  *)
(* the settled obligation, and no loan is left to carry it.                *)
(***************************************************************************)
PenaltyIsOnLoans ==
    \A o \in DOMAIN obligations : obligations[o].penalty <= Total(AllPenaltyAmounts(loans))
=============================================================================
