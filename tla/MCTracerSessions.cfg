CONSTANTS
    Tracepoints = {"t1"}
    NameLen <- MCNameLen
    DataLens = {2048, 2049}
    Commands = {"enable", "disable", "list", "other", "bad", "broken"}
    Announcing = {TRUE}
    Faults = {"accept", "block"}
    MaxClients = 2
    MaxRequests = 2
    MaxSubmits = 1
SPECIFICATION Spec
INVARIANTS TypeOK QuietWhileConnected TracepointsHandedOver ReceiveHasConnection
           AcceptFindsClient
PROPERTIES CloseDisablesAll ThreadAdvances
CHECK_DEADLOCK FALSE
