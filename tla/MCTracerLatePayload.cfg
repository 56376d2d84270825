CONSTANTS
    Tracepoints = {"t1"}
    NameLen <- MCNameLen
    DataLens = {2048}
    Commands = {"enable"}
    Announcing = {TRUE}
    Faults = {}
    MaxClients = 1
    MaxRequests = 1
    MaxSubmits = 1
SPECIFICATION Spec
INVARIANT SendHasConnection
CHECK_DEADLOCK FALSE
