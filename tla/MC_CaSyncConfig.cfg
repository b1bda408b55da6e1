\* Any sequence of setter calls in either direction, every failure point on.
CONSTANTS
    MaxSeeds = 2
    Faults <- MCFaults
SPECIFICATION Spec
INVARIANT ConfigMatchesPipelines
