CONSTANTS
    t1 = t1
    t2 = t2
    liquidation = liquidation
    resolution = resolution
    Requests = {t1, t2}
    Cases = {liquidation, resolution}
    Liquidation = liquidation
    Amount <- MCAmount
    Deciders = {d1, d2}
    Debt = 1
    Penalty = 1
    PenaltyRate = 1
    MaxVersion = 6
    MaxMonth = 1
    MaxFaults = 1
SPECIFICATION Spec
INVARIANTS
    TypeOK
    VersionsNameBalances
    PublishedAsProposed
    CasesTakeMoneyOnce
SYMMETRY Interchangeable
CHECK_DEADLOCK FALSE
