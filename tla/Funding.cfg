SPECIFICATION FundingFairSpec
CONSTANT
    Methods = {"bank_transfer", "opay"}
INVARIANTS
    CreditedAtMostOnce
    StatusMatchesLedger
PROPERTY
    PaidIsSettled
CHECK_DEADLOCK FALSE
