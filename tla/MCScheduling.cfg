SPECIFICATION Spec
CONSTANTS
    None = None
    Generals = {general}
    Dailies = {daily}
    Schedules = {s1}
    Editors = {e1}
    Workers = {w1}
    Posters = {p1, p2}
    Horizon = 3
    MaxWrites = 5
    MaxReminderWrites = 2
    MaxReminderDay = 2
    Scenes = {"posting", "reminding", "renewing"}
    RemindDays = {}
    Plans <- MCPlans
    Timings <- MCTimings
    Budgets = {b1, b2, b3}
    Renewers = {v1, v2}
    Starts = {0}
    Untils <- MCUntils
    PeriodDays = 2
    FinalDay = 4
    MaxChanges = 2
INVARIANTS
    TypeOK
    DatesAreKept
PROPERTIES
    DueScheduleRuns
CHECK_DEADLOCK FALSE
