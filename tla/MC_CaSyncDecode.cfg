CONSTANTS
    Bytes <- MCBytes
    Archive <- MCArchive
    WStore <- MCWStore
    Seeds <- MCSeeds
    Configs <- MCConfigs
    Faults <- MCFaults
    CallerRetries = FALSE
SPECIFICATION Spec
INVARIANTS
    DecodedFaithful
    NoLeakedTempBase
\* The caller's life ends at ca_sync_unref, eof or the first error.
CHECK_DEADLOCK FALSE
