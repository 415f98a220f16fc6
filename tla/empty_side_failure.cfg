SPECIFICATION Spec
CONSTANTS
    Row <- JoinRows
    Key <- MCKey
    KeyOf <- JoinKeyOf
    HashOf <- MCHashOf
    NullKey = "null"
    Keep <- JoinRows
    Query = "join"
    Left = "A"
    Right = "B"
    Sink = "sink"
    TableRows <- JoinTables
    InitialSources <- EmptySideSources
    MaxPartitions = 1
    Adaptive = FALSE
    Policy <- StaticPolicy
    BroadcastThreshold = 1
    MaxTries = 1
    MaxDeaths = 1
    NoAnswer = NoAnswer
INVARIANT FailurePreventsCommit
