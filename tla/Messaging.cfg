SPECIFICATION BoundedSpec
CONSTANTS
    Mails = {m1}
    Sweeps = {s1, s2}
    JobTries = 3
    MaxAttempts = 5
    MaxMailFaults = 2
    Events = {e1}
    Directs = {d1, d2}
    EventTries = 3
    Tabs = {t1, t2}
    MaxNoteFaults = 2
INVARIANTS
    OutboxIsTrue
    TrailIsTrue
    ToldOncePerFailure
    BadgeIsUnread
PROPERTY
    MailSettles
CHECK_DEADLOCK FALSE
