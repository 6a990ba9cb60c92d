CONSTANTS
    a1 = a1
    Agents = {a1}
    Sessions = {s1, s2}
    Requests = {r1}
    BudgetFiles <- CapFiles
    MaxPrompt = 1
    MaxCompletion = 2
    MaxSpent = 9
    MaxEdits = 0
    MaxDays = 1
    MaxCrashes = 0
    None = None
    Day = Day
SPECIFICATION Spec
CHECK_DEADLOCK FALSE
INVARIANT NewSessionIsAdmitted
