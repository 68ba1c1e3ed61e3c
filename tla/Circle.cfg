CONSTANTS
    Users = {u1, u2}
    Terms <- TermsDef
    InitialTerms <- Created
    Edits <- Raised
    Logics = {"ADMIN_ASSIGNED"}
    NewLogics = {"unset"}
    Assignments <- OneMove
    MaxTasks = 2
    MaxFilled = 2
    MaxJoins = 2
SPECIFICATION Spec
SYMMETRY Symmetry
INVARIANTS
    SlotsCoverMembers
    CollateralIsHeld
PROPERTIES
    CancelledIsFinal
    ActivationCountsMembers
CHECK_DEADLOCK FALSE
