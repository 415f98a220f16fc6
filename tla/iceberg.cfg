SPECIFICATION Spec
CONSTANTS
    Run <- MCRun
    DagOf <- MCDagOf
    RunIdOf <- MCRunIdOf
    BaseGiven = {"dagA"}
    SafeRunId <- MCSafeRunId
    Suffix = {"x1"}
    Row <- MCRun
    Answers <- MCAnswers
    MaxTries = 3
    MaxDeaths = 2
    MaxLate = 1
INVARIANTS
    TypeOK
    MetadataDescribesFiles
    SuccessMeansCommitted
    RetryConverges
PROPERTIES
    RefinesTableAppends
CHECK_DEADLOCK FALSE
