SPECIFICATION FairSpec
CONSTANTS
    m1 = m1
    m2 = m2
    Members = {m1, m2}
    Recipient <- RecipientDef
    Contribution = 100
    Funds = 205
    LoanPercents = {50}
    MaxTasks = 2
INVARIANTS
    MoneyConserved
    PoolBacksOpenCycles
    PotPaidInFull
    MissedOnce
PROPERTY
    DuePotsArePaid
CHECK_DEADLOCK FALSE
