CONSTANTS
    Tracepoints = {"t1"}
    NameLen <- MCNameLen
    DataLens = {2048}
    Commands = {"enable", "bad"}
    Announcing = {TRUE}
    Faults = {}
    MaxClients = 2
    MaxRequests = 2
    MaxSubmits = 1
SPECIFICATION FairSpec
INVARIANT IdleAnnounces
PROPERTIES FinitStopsThread PayloadFlushed AnnouncesWhenIdle RequestAccepted
CHECK_DEADLOCK FALSE
