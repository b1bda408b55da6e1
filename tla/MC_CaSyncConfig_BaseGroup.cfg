\* Spec invariant 1 for the base group, on setter calls that all succeed.
CONSTANTS
    MaxSeeds = 0
    Faults <- MCNoFaults
SPECIFICATION Spec
INVARIANT BaseGroupExclusive
