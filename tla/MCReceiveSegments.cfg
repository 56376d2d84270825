CONSTANTS
    Names = {"a", "b", "long"}
    NameLen <- MCNameLen
    Registered = {"a"}
    Requests <- ProtocolRequests
    Hangups = {}
    MAX_TRACEPOINT_NAME_LEN = 2
    MaxRequests = 2
SPECIFICATION Spec
INVARIANTS
    ActivationsExecuted
CHECK_DEADLOCK FALSE
