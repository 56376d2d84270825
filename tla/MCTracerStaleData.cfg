CONSTANTS
    Tracepoints = {"t1"}
    NameLen <- MCNameLen
    DataLens = {2048}
    Commands = {"enable"}
    Announcing = {TRUE}
    Faults = {}
    MaxClients = 2
    MaxRequests = 1
    MaxSubmits = 2
SPECIFICATION Spec
INVARIANT OnlyDataOfSession
CHECK_DEADLOCK FALSE
