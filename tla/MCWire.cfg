\* Service routines that end with tpreturn; a connection may be made while the one before is not yet deleted.
SPECIFICATION Spec
CONSTANTS
    XATMI_SERVICE_NAME_LENGTH = 2
    IOSHORT = 3
    IOLONG = 1
    DataLength = {0, 2}
    MaxCalls = 1
    MaxConns = 2
    Results = {"TPSUCCESS", "TPFAIL"}
INVARIANTS
    CommandsInStep
    AnswersInStep
    NeverBothWait
    InStep
PROPERTIES
    DeletedAtEnd
    CallsReturn
    GoneAreDeleted
CHECK_DEADLOCK FALSE
