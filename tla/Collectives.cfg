SPECIFICATION Spec
CONSTANTS
    N_PORTS = 3
    RED_LANES = 1
    LANE_MOD = 3
    MaxMembers = 3
    Unchanged = Unchanged
INVARIANTS
    TypeOK
    PartialSumIsEngineSum
    OutputsAsPromised
CHECK_DEADLOCK FALSE
