CONSTANTS
    MaxBuckets = 3
    Threshold = 3
    MaxLines = 7
SPECIFICATION ParserSpec
CHECK_DEADLOCK FALSE
INVARIANTS FindsSections GroupsAreSound
