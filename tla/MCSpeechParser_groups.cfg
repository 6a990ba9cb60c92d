CONSTANTS
    MaxBuckets = 3
    Threshold = 3
    MaxLines = 5
SPECIFICATION ParserSpec
CHECK_DEADLOCK FALSE
INVARIANT ItemsAreInGroups
