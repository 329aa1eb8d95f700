\* The same instance; CHECK after ADD with no uplink moved.
CONSTANTS
    Bridges <- MCBridges
    Candidates <- MCCandidates
    NetConfs <- MCNetConfs
SPECIFICATION Spec
INVARIANT CheckDriftOnlyAfterRewire
