CONSTANTS
    Balances <- SmallBalances
    Penalties = {0, 1, 5}
    TermLimit = 9
SPECIFICATION Spec
INVARIANTS
    TypeOK
    LoopIsClosedForm
    PlanReconciles
    NoNegativeInstallment
CHECK_DEADLOCK FALSE
