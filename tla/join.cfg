SPECIFICATION Spec
CONSTANTS
    Row <- JoinRows
    Key <- MCKey
    KeyOf <- JoinKeyOf
    HashOf <- MCHashOf
    NullKey = "null"
    Keep <- JoinRows
    Query = "join"
    Left = "A"
    Right = "B"
    Sink = "sink"
    TableRows <- JoinTables
    InitialSources <- JoinSources
    MaxPartitions = 2
    Adaptive = TRUE
    Policy <- PartitionsPolicy
    BroadcastThreshold = 1
    MaxTries = 2
    MaxDeaths = 2
    NoAnswer = NoAnswer
INVARIANTS
    ResultCorrect
    CoPartitioned
    PlanReadsOnce
    NoDoomedRead
    FailurePreventsCommit
PROPERTIES
    FilesStable
    RefinesQueryRun
