CONSTANTS
    Tabs = {t1}
    Sids = {s1}
    Replies <- MCReplies
    MaxBuckets = 3
    Threshold = 3
    MaxTurns = 6
    None = None
SPECIFICATION Spec
CHECK_DEADLOCK FALSE
INVARIANT NextContinuesReading
