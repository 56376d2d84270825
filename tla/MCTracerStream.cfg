CONSTANTS
    Tracepoints = {"t1"}
    NameLen <- MCNameLen
    DataLens = {0, 1951, 1952, 2048, 4096}
    Commands = {"enable"}
    Announcing = {FALSE}
    Faults = {"bind", "block"}
    MaxClients = 2
    MaxRequests = 2
    MaxSubmits = 2
SPECIFICATION Spec
INVARIANTS FlushArmed ExitFlushed FrameFits FramesCarryData BufferBounded
PROPERTY StreamSpec
CHECK_DEADLOCK FALSE
