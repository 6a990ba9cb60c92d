CONSTANTS
    Procs = {p1, p2}
    MaxOps = 2
    MaxEdits = 0
    MaxDays = 0
    None = None
    Torn = Torn
SPECIFICATION Spec
CHECK_DEADLOCK FALSE
INVARIANT FactsAreDurable
