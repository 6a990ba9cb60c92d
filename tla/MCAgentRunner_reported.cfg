CONSTANTS
    Runs = {r1}
    Registries <- MCRegistries
    None = None
SPECIFICATION Spec
CHECK_DEADLOCK FALSE
INVARIANT LimitIsReported
