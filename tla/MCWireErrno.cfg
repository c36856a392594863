\* A service routine may also end without tpreturn, or its worker exit.
SPECIFICATION Spec
CONSTANTS
    XATMI_SERVICE_NAME_LENGTH = 3
    IOSHORT = 1
    IOLONG = 2
    DataLength = {0, 1, 2}
    MaxCalls = 2
    MaxConns = 1
    Results = {"TPSUCCESS", "TPFAIL", "TPERRNO"}
INVARIANT
    AnswersInStep
CHECK_DEADLOCK FALSE
