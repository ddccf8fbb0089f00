CONSTANTS
    Horizon = 2
    LoanTotals = {6}
    Tenures = {2}
    Receipts = {2, 4}
    Waivers = {1}
    RateNum = 1
    RateDen = 2
    LegacyPortfolios <- NoLegacyLoans
    Workers = {w1}
    MaxLoans = 1
    MaxPlans = 4
    MaxCredit = 1
SPECIFICATION OrderlySpec
INVARIANTS
    PenaltyIsOnLoans
CHECK_DEADLOCK FALSE
