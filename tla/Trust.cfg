SPECIFICATION Spec
CONSTANTS
    Members = {m1, m2}
    CircleAdmin = admin
    Subjects = {m1}
    Recordings = {r1, r2}
    Ratings = {1, 5}
    Bureau = {560, 760}
    MonthsActive = 7
    MaxEvents = 1
INVARIANTS
    CountersAreEvents
    RatingsCounted
    ScoreIsOfTheCounters
PROPERTY
    PaymentsMoveTheScore
SYMMETRY Symmetry
CHECK_DEADLOCK FALSE
