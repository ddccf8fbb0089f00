SPECIFICATION Spec
CONSTANTS
    ann = ann
    ben = ben
    cat = cat
    results = results
    correction = correction
    second = second
    Staff = {ann, ben}
    Files = {results, correction, second}
    Content <- MCContent
    Due <- MCDue
    Debt <- MCDebt
    PenaltyRate = 3
    Slots = 2
    MaxDeaths = 1
INVARIANTS
    TypeOK
    BooksFollowReceipts
    CountersFollowReceipts
    ClosedMonthsAreClosed
    UploadsLeaveNoRowBehind
    RecordsClaimNoMoreThanRows
PROPERTY
    JobsEnd
CHECK_DEADLOCK FALSE
