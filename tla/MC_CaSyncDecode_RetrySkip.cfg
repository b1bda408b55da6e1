CONSTANTS
    Bytes <- MCBytes
    Archive <- MCArchive
    WStore <- MCWStore
    Seeds <- MCSeeds
    Configs <- MCConfigsIndex
    Faults <- MCFaultsStoreGet
    CallerRetries = TRUE
SPECIFICATION Spec
INVARIANT DecodedFaithful
CHECK_DEADLOCK FALSE
