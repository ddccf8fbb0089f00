-------------------------- MODULE MCOrderlyMonths --------------------------
EXTENDS OrderlyMonths

NoLegacyLoans == {<<>>}

\* A borrower without loans, or with one paid out before there were obligations.
Portfolios == {<<>>, <<[status |-> "DISBURSED", owed |-> 2, penalty |-> 1]>>}

\* Bound: the plans and months of a borrower with a baseline (the baseline is one of the
\* plans), or with a backfill under way.
BaselinePlans ==
    LET underWay == \E w \in Workers : backfills[w] # "idle" IN
    /\ baselined => Len(plans) <= 3
    /\ underWay => Len(plans) <= 2
    /\ baselined \/ underWay => month <= 2
=============================================================================
