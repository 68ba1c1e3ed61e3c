CONSTANTS
    JobSet = {"fund", "card", "contribute"}
    Wallets <- WalletsDef
    Sources <- SourcesDef
    Refs <- RefsDef
    Jobs <- JobSet
    Isolation <- IsolationDef
    Ops <- OpsDef
    Requires <- RequiresDef
    NoJob = NoJob
SPECIFICATION Spec
INVARIANTS RunningTotalIsSum
