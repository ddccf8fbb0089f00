----------------------- MODULE MCRepaymentObligation -----------------------
(* Values for the portfolios of loans that predate the obligations, and    *)
(* the bounds of the runs.                                                 *)
EXTENDS RepaymentObligation

NoLegacyLoans == {<<>>}

WithAndWithoutLegacyLoan ==
    NoLegacyLoans \cup {<<[status |-> "DISBURSED", owed |-> 2, penalty |-> 1]>>}

\* Work of one month: loans, top-ups, baselines and overpayments as they come.
WithinOneMonth ==
    /\ month = 1 /\ official \subseteq {1} /\ closing.period # 2
    /\ \A k \in DOMAIN plans : \A m \in DOMAIN plans[k].rows : m > 1 => plans[k].rows[m].paid = 0

\* One loan over two months, without a baseline or credit; a month is closed once begun.
OneLoan ==
    /\ Len(loans) <= 1 /\ closing.period <= month
    /\ ~baselined /\ \A w \in Workers : backfills[w] = "idle"
    /\ \A o \in DOMAIN obligations : obligations[o].credit = 0

\* A backfill that no plan is left for can only end.
MayCreate == \A w \in Workers : backfills[w] # "idle" => Len(plans) < MaxPlans

\* Bound: work that is neither is looked at, and not continued.
WithinOneMonthOrOneLoan == (WithinOneMonth /\ MayCreate) \/ OneLoan
=============================================================================
