SPECIFICATION Spec
CONSTANTS
    MaxStages = 3
    Inputs <- MCInputs
    Exchanges <- MCExchanges
    SourceLists <- MCSourceLists
    Queries <- MCQueries
    Tables <- MCTables
    Null = Null
    NumBuckets = 2
    BucketOf <- MCBucketOf
INVARIANTS
    AcceptsExactlySupported
    FinalizeWaitsForAll
    ScansShareWidth
    CompiledGraphsAccepted
    RefusesExactlyDocumented
    NeverAWrongNumber
CHECK_DEADLOCK FALSE
