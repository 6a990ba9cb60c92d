CONSTANTS
    Runs = {r1, r2}
    Registries <- MCRegistries
    None = None
SPECIFICATION Spec
CHECK_DEADLOCK FALSE
INVARIANT FindsSendersCheckpoint
