\* ca_sync_get and ca_sync_put, with and without a writable store (the
\* initial states choose), every store call may fail.
CONSTANTS
    i1 = i1
    i2 = i2
    d1 = d1
    d2 = d2
    Ids <- MCIds
    Data <- MCData
    Seeds <- MCSeeds
    Faults <- MCFaults
SPECIFICATION Spec
PROPERTY StoreSpec
