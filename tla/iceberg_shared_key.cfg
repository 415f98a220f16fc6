SPECIFICATION Spec
CONSTANTS
    Run <- MCRun
    DagOf <- MCDagOf
    RunIdOf <- MCRunIdOf
    BaseGiven = {"dagA", "dagB"}
    SafeRunId <- MCSafeRunId
    Suffix = {"x1"}
    Row <- MCRun
    Answers <- MCAnswers
    MaxTries = 3
    MaxDeaths = 2
    MaxLate = 1
INVARIANT
    MetadataDescribesFiles
CHECK_DEADLOCK FALSE
