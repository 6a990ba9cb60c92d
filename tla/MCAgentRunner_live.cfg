CONSTANTS
    Runs = {r1}
    Registries <- MCRegistries
    None = None
SPECIFICATION FairSpec
CHECK_DEADLOCK FALSE
PROPERTY RunsEnd
