CONSTANTS
    Runs = {n1, n2}
    Calls = {c1, c2}
    Requests = {r1, r2}
    None = None
    ToolModes = {TRUE}
    MaxTurns = 2
    MaxAbandons = 1
    MaxKills = 0
    MaxRestarts = 0
    MayExpire = FALSE
SPECIFICATION Spec
SYMMETRY Symmetry
INVARIANTS
    TypeOK
    NoLostWakeup
    OfferedOnce
    OneRunPerTurn
    ReturnsForAReason
CHECK_DEADLOCK FALSE
