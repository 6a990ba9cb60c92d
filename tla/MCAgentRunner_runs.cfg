CONSTANTS
    Runs = {r1, r2}
    Registries <- MCRegistries
    None = None
SPECIFICATION Spec
CHECK_DEADLOCK FALSE
SYMMETRY Symmetry
INVARIANT HandoffIsPrepared
PROPERTY NextStepKept
