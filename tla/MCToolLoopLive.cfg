CONSTANTS
    Runs = {n1}
    Calls = {c1, c2}
    Requests = {r1}
    None = None
    ToolModes = {TRUE}
    MaxTurns = 1
    MaxAbandons = 0
    MaxKills = 1
    MaxRestarts = 0
    MayExpire = FALSE
SPECIFICATION LiveSpec
CHECK_DEADLOCK FALSE
PROPERTIES RequestsAnswered ToolCallsReturn EndReleasesHandlers
