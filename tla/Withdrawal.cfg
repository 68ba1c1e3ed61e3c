SPECIFICATION FairSpec
CONSTANTS
    Withdrawals = {w1, w2}
    Amount <- AmountDef
    Funds = 4
    Hold = 1
INVARIANTS
    NeverOverdrawn
    FailedIsRefunded
    OutcomeIsTheProviders
PROPERTY
    PendingResolves
CHECK_DEADLOCK FALSE
