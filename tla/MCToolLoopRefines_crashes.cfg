CONSTANTS
    Runs = {n1, n2}
    Calls = {c1, c2}
    Requests = {r1}
    None = None
    ToolModes = {TRUE, FALSE}
    MaxTurns = 1
    MaxAbandons = 0
    MaxKills = 1
    MaxRestarts = 1
    MayExpire = TRUE
SPECIFICATION Spec
SYMMETRY Symmetry
INVARIANTS
    LiveSessionsStored
    EveryWaitHasResponder
PROPERTIES DeliveredResultStays ImplementsContract
CHECK_DEADLOCK FALSE
