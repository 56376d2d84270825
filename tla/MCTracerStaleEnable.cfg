CONSTANTS
    Tracepoints = {"t1"}
    NameLen <- MCNameLen
    DataLens = {2048}
    Commands = {"enable", "broken"}
    Announcing = {TRUE}
    Faults = {}
    MaxClients = 1
    MaxRequests = 2
    MaxSubmits = 1
SPECIFICATION Spec
INVARIANT EnabledOnlyInSession
CHECK_DEADLOCK FALSE
