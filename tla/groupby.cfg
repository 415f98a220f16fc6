SPECIFICATION Spec
CONSTANTS
    Row <- OneTableRows
    Key <- MCKey
    KeyOf <- OneTableKeyOf
    HashOf <- MCHashOf
    NullKey = "null"
    Keep <- OneTableKeep
    Query = "aggregate"
    Left = "A"
    Right = "B"
    Sink = "sink"
    TableRows <- OneTableTables
    InitialSources <- OneTableSources
    MaxPartitions = 2
    Adaptive = TRUE
    Policy <- RowsPolicy
    BroadcastThreshold = 0
    MaxTries = 2
    MaxDeaths = 2
    NoAnswer = NoAnswer
INVARIANTS
    TypeOK
    ResultCorrect
    PlanReadsOnce
    FailurePreventsCommit
    IInv
PROPERTIES
    FilesStable
    RefinesQueryRun
