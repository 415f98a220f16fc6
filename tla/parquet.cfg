SPECIFICATION Spec
CONSTANTS
    Run <- MCRun
    DagOf <- MCDagOf
    RunIdOf <- MCRunIdOf
    BaseGiven = {"dagA"}
    SafeRunId <- MCSafeRunId
    Suffix = {"x1", "x2"}
    Row <- MCRun
    Answers <- MCAnswers
    Marked = {"dagA", "dagB"}
    Clearable = {"r2"}
    MaxClears = 1
    MaxTries <- MCMaxTries
    MaxDeaths = 1
INVARIANTS
    TypeOK
    ReaderSeesOneAnswer
    LatestNotStale
PROPERTIES
    RefinesResultRegister
CHECK_DEADLOCK FALSE
