CONSTANTS
    Procs = {p1, p2}
    MaxOps = 3
    MaxEdits = 2
    MaxDays = 1
    None = None
    Torn = Torn
SPECIFICATION FairSpec
CHECK_DEADLOCK FALSE
INVARIANTS AckedFactsKept EndedStayInactive OwnTextPublished ChangedEntriesCopied
PROPERTY OperationsEnd
