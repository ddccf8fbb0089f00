CONSTANTS
    Callers = {p1, p2}
    MaxIds = 1
    MaxFaults = 1
    Loans = {l1, l2}
    Assets = {a1}
    Desks = {p1, p2}
    NoLoan = NoLoan
    Servers = {s1, s2}
    Visitors = {p1, p2}
    CacheTtl = 2
    MaxTime = 4
    ImportJobs = {p1, p2}
    Rows = {r1, r2, r3}
    Broken = {r3}
    MaxDeaths = 2
SPECIFICATION Spec
INVARIANTS
    TypeOK
    PaidToReviewedDetails
    OneApplicationAtATime
    PayoutsMatchBooks
    MaintenanceIsFelt
    ImportedOnce
PROPERTIES
    OnlyLateCallsTouchPaidLoans
SYMMETRY Interchangeable
CHECK_DEADLOCK FALSE
