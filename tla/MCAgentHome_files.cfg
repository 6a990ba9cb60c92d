CONSTANTS
    Procs = {p1, p2}
    Agents = {a1}
    Files = {"AGENTS.md", "cz-home.mdc"}
    MaxOps = 2
    MaxEdits = 1
    None = None
    Torn = Torn
SPECIFICATION Spec
CHECK_DEADLOCK FALSE
SYMMETRY Symmetry
INVARIANTS UserLinesKept
PROPERTY BlockFollowsCommand
