CONSTANTS
    Names <- MCNames
    Params <- MCParams
    DataLens = {0, 2048, 2049}
    MaxRegisters = 4
    MaxSubmits = 2
SPECIFICATION Spec
INVARIANTS
    TypeOK
    SameFlag
    
    ClientKnowsNames
    AnnounceHasAddress
CHECK_DEADLOCK FALSE
