CONSTANTS
    Horizon = 2
    LoanTotals = {2}
    Tenures = {2}
    Receipts = {1, 3}
    Waivers = {1}
    RateNum = 1
    RateDen = 2
    LegacyPortfolios <- NoLegacyLoans
    Workers = {w1}
    MaxLoans = 2
    MaxPlans = 3
    MaxCredit = 1
SPECIFICATION OrderlySpec
INVARIANTS
    EveryListedRowCloses
CHECK_DEADLOCK FALSE
