CONSTANTS
    Bytes <- MCBytes
    MaxStream = 3
    MaxBlock = 2
    Configs <- MCConfigsPathStore
    Faults <- MCFaultsStore
SPECIFICATION Spec
INVARIANT AtomicArchive
CHECK_DEADLOCK FALSE
