CONSTANTS
    Tracepoints = {"t1"}
    NameLen <- MCNameLen
    DataLens = {2048}
    Commands = {"enable"}
    Announcing = {TRUE}
    Faults = {"block"}
    MaxClients = 1
    MaxRequests = 1
    MaxSubmits = 2
SPECIFICATION Spec
INVARIANT FramesAligned
CHECK_DEADLOCK FALSE
