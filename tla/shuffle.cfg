SPECIFICATION Spec
CONSTANTS
    Row <- MCRow
    Key <- MCKey
    KeyOf <- MCKeyOf
    HashOf <- MCHashOf
    NullKey = "null"
    Keep = {}
    Query = "join"
    Left = "A"
    Right = "B"
    RowsOf <- MCRowsOf
    Part = {1, 2}
    MaxWidth = 3
    MaxThreshold = 3
INVARIANTS
    JoinPlanCorrect
    PlanNeverEmptySided
    ReplicatedSideIsSmall
CHECK_DEADLOCK FALSE
