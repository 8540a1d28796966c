CONSTANTS
    Master = "master"
    Tempdb = "tempdb"
    DefaultDb = "user"
    Databases = {"master", "tempdb", "user", "x"}
    Recordable = {"s"}
    Settable = {"last"}
    Typed <- MCTyped
    Configs <- MCConfigs
    Startups <- MCStartups
    Opens <- MCOpens
    VARIABLE_NUMBER = 2
    NULL = NULL
    NoFile = NoFile
    NoTable = NoTable
    MaxRecorded = 1
    MaxTyped = 3
    MaxSessions = 2
    Asked = {"user", "master", "x"}
CHECK_DEADLOCK FALSE
SPECIFICATION Spec
INVARIANTS
    TypeOK
    ClosedInOrder
    CurrentdbTold
    OpenScriptOnce
PROPERTIES
    PromptReturns
