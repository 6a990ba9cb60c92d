CONSTANTS
    a1 = a1
    Agents = {a1}
    Sessions = {s1}
    Requests = {r1, r2}
    BudgetFiles <- EditFiles
    MaxPrompt = 1
    MaxCompletion = 1
    MaxSpent = 4
    MaxEdits = 1
    MaxDays = 1
    MaxCrashes = 1
    None = None
    Day = Day
SPECIFICATION FairSpec
CHECK_DEADLOCK FALSE
INVARIANT OvershootBounded
PROPERTY KillDrains
