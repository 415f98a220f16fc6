SPECIFICATION Spec
CONSTANTS
    MaxRows = 9
    MaxFiles = 4
    MaxBuckets = 4
    MaxTarget = 4
INVARIANT LeastWidthThatFits
PROPERTY NeverNarrower
CHECK_DEADLOCK FALSE
