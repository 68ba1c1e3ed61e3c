SPECIFICATION Spec
CONSTANTS
    Requests = {r1, r2}
    Payments = {p1}
    Production = FALSE
SYMMETRY Symmetry
INVARIANTS
    LevelsAreEarned
    NobodyStuck
    PaymentsAccounted
    ClosedIsSettled
CHECK_DEADLOCK FALSE
