SPECIFICATION Spec
CONSTANTS
    Users = {ada, ben}
    Requests = {r1, r2}
    Addresses = {a, b, c}
    None = None
    MaxCodes = 2
    MaxTokens = 0
    MaxPasswords = 1
    Ops <- OpsOfTwo
SYMMETRY Symmetry
INVARIANTS
    CodesAreOnce
    AddressIsOnes
    EmailIsProven
CHECK_DEADLOCK FALSE
