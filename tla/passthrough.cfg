SPECIFICATION FairSpec
CONSTANTS
    Row <- OneTableRows
    Key <- MCKey
    KeyOf <- OneTableKeyOf
    HashOf <- MCHashOf
    NullKey = "null"
    Keep <- OneTableKeep
    Query = "passthrough"
    Left = "A"
    Right = "B"
    Sink = "sink"
    TableRows <- OneTableTables
    InitialSources <- OneTableSources
    MaxPartitions = 2
    Adaptive = FALSE
    Policy <- StaticPolicy
    BroadcastThreshold = 0
    MaxTries = 2
    MaxDeaths = 2
    NoAnswer = NoAnswer
INVARIANTS
    ResultCorrect
    FailurePreventsCommit
PROPERTY CommitsOrFails
