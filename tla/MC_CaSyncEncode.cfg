CONSTANTS
    Bytes <- MCBytes
    MaxStream = 4
    MaxBlock = 2
    Configs <- MCConfigs
    Faults <- MCFaults
SPECIFICATION Spec
INVARIANTS
    TypeOK
    ChunkPartition
    IndexRecordsStored
    SealedIndexDescribesArchive
    ArchiveOutputFaithful
    NoLeakedTemp
CHECK_DEADLOCK FALSE
