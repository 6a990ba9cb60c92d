CONSTANTS
    Runs = {n1, n2}
    Calls = {c1, c2}
    Requests = {r1}
    None = None
    ToolModes = {TRUE}
    MaxTurns = 2
    MaxAbandons = 0
    MaxKills = 0
    MaxRestarts = 0
    MayExpire = FALSE
SPECIFICATION Spec
INVARIANT AnswersItsOwnTurn
CHECK_DEADLOCK FALSE
