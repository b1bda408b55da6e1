CONSTANTS
    Bytes <- MCBytes
    Archive <- MCArchive
    WStore <- MCWStore
    Seeds <- MCSeeds
    Configs <- MCConfigs
    Faults <- MCNoFaults
    CallerRetries = FALSE
SPECIFICATION FairSpec
PROPERTY DecodeTerminates
\* A fault only ends a decode sooner: termination is checked without them.
CHECK_DEADLOCK FALSE
