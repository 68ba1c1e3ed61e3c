CONSTANTS
    Roster <- RosterDef
    OrderLogics = {"ADMIN_ASSIGNED", "COMBINED", "RANDOM_DRAW"}
    JoinTimes = {1, 2}
    Scores <- ScoresDef
    PositionRequests <- SingleDef
    FirstDeadlines <- DeadlinesDef
    Frequencies = {"WEEKLY", "BI_WEEKLY", "MONTHLY"}
SPECIFICATION DraftSpec
INVARIANTS
    EveryMemberPaidOnce
    CyclesInOrder
CHECK_DEADLOCK FALSE
