CONSTANTS
    Tabs = {t1, t2}
    Sids = {s1, s2}
    Replies <- MCReplies
    MaxBuckets = 3
    Threshold = 3
    MaxTurns = 6
    None = None
SPECIFICATION Spec
SYMMETRY Alike
CHECK_DEADLOCK FALSE
INVARIANTS GroupReadInOrder ScreenIsSession
