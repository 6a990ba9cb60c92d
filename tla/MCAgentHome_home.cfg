CONSTANTS
    Procs = {p1, p2}
    Agents = {a1, a2}
    Files = {"AGENTS.md"}
    MaxOps = 3
    MaxEdits = 1
    None = None
    Torn = Torn
SPECIFICATION Spec
CHECK_DEADLOCK FALSE
SYMMETRY Symmetry
INVARIANTS UserLinesKept RegistryReadable RegistrationKept KeyVerifies
PROPERTY BlockFollowsCommand
