CONSTANTS
    Horizon = 2
    LoanTotals = {2}
    Tenures = {2}
    Receipts = {1, 3}
    Waivers = {1}
    RateNum = 1
    RateDen = 2
    LegacyPortfolios <- WithAndWithoutLegacyLoan
    Workers = {w1}
    MaxLoans = 2
    MaxPlans = 3
    MaxCredit = 1
CONSTRAINT WithinOneMonthOrOneLoan
SPECIFICATION Spec
INVARIANTS
    TypeOK
    ContractualLedgerAgrees
    SecondOpenIsABackfill
    StatementCoversAccount
    RepaidLoansOweNothing
    CurrentPlanIsThePublishedOne
PROPERTIES
    ContractualPayoffSettles
    PublishedRowsStand
CHECK_DEADLOCK FALSE
