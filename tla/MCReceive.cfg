CONSTANTS
    Names = {"a", "b", "long"}
    NameLen <- MCNameLen
    Registered = {"a"}
    Requests <- AllRequests
    Hangups = {"fin", "rst"}
    MAX_TRACEPOINT_NAME_LEN = 2
    MaxRequests = 2
SPECIFICATION FairSpec
INVARIANTS
    TypeOK
    NothingFabricated
    EdgeForUnread
    CounterBounded
    WholeRequestsExecuted
PROPERTIES ArrivedIsRead ActivationSpec ReceiveAdvances
CHECK_DEADLOCK FALSE
