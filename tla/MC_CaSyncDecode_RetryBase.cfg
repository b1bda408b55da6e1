CONSTANTS
    Bytes <- MCBytes
    Archive <- MCArchive
    WStore <- MCWStore
    Seeds <- MCSeeds
    Configs <- MCConfigsWithBase
    Faults <- MCFaultsDecoderBase
    CallerRetries = TRUE
SPECIFICATION Spec
PROPERTY DecoderHasBase
CHECK_DEADLOCK FALSE
