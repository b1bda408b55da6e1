\* Termination under the caller's step loop (weak fairness), with no failing call:
\* a failure only ends a run sooner.
CONSTANTS
    Bytes <- MCBytes
    MaxStream = 4
    MaxBlock = 2
    Configs <- MCConfigs
    Faults <- MCNoFaults
SPECIFICATION FairSpec
PROPERTY EncodeTerminates
CHECK_DEADLOCK FALSE
