CONSTANTS
    Bytes <- MCBytes
    Archive <- MCArchive
    WStore <- MCWStore
    Seeds <- MCSeeds
    Configs <- MCConfigsIndex
    Faults <- MCNoFaults
    CallerRetries = FALSE
SPECIFICATION Spec
INVARIANT DigestCoversDecoded
CHECK_DEADLOCK FALSE
