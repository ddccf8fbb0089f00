CONSTANTS
    Horizon = 3
    LoanTotals = {2}
    Tenures = {2}
    Receipts = {1, 3}
    Waivers = {1}
    RateNum = 1
    RateDen = 2
    LegacyPortfolios <- Portfolios
    Workers = {w1}
    MaxLoans = 2
    MaxPlans = 4
    MaxCredit = 1
CONSTRAINT BaselinePlans
SPECIFICATION OrderlySpec
INVARIANTS
    NoStrandedDebt
    OneRowPerMonth
PROPERTIES
    NewPlansAvoidOfficialMonths
CHECK_DEADLOCK FALSE
