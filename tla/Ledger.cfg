CONSTANTS
    JobSet = {"loan", "contribute", "again", "payout", "join", "cancelJoin", "withdraw"}
    Wallets <- WalletsDef
    Sources <- SourcesDef
    Refs <- RefsDef
    Jobs <- JobSet
    Isolation <- IsolationDef
    Ops <- OpsDef
    Requires <- RequiresDef
    NoJob = NoJob
SPECIFICATION Spec
INVARIANTS
    RunningTotalKept
    AvailableNonNegative
    BucketsMatchLedger
PROPERTY
    ImplementsBank
