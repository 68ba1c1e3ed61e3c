SPECIFICATION Spec
CONSTANTS
    Users = {ada}
    Requests = {r1, r2}
    Addresses = {a, b}
    None = None
    MaxCodes = 1
    MaxTokens = 2
    MaxPasswords = 2
    Ops <- OpsOfOne
SYMMETRY Symmetry
INVARIANTS
    SessionsEnd
    TrailTellsAccount
CHECK_DEADLOCK FALSE
