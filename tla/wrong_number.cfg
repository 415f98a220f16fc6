SPECIFICATION Spec
CONSTANTS
    MaxStages = 3
    Inputs <- MCInputs
    Exchanges <- MCExchanges
    SourceLists = {}
    Queries <- MCUnlisted
    Tables <- MCTables
    Null = Null
    NumBuckets = 2
    BucketOf <- MCBucketOf
INVARIANTS
    NeverAWrongNumber
CHECK_DEADLOCK FALSE
