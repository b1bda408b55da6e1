CONSTANTS
    Bytes <- MCBytes
    MaxStream = 3
    MaxBlock = 2
    Configs <- MCConfigsStoreIndex
    Faults <- MCNoFaults
SPECIFICATION Spec
INVARIANT IndexSealedAtEof
CHECK_DEADLOCK FALSE
