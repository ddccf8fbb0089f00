CONSTANTS
    Horizon = 1
    LoanTotals = {2}
    Tenures = {2}
    Receipts = {1, 3}
    Waivers = {1}
    RateNum = 1
    RateDen = 2
    LegacyPortfolios <- WithAndWithoutLegacyLoan
    Workers = {w1, w2}
    MaxLoans = 2
    MaxPlans = 3
    MaxCredit = 1
SPECIFICATION Spec
INVARIANTS
    OneOpenObligation
CHECK_DEADLOCK FALSE
