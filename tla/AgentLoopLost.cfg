SPECIFICATION Spec
CONSTANTS
    good = good
    better = better
    narrow = narrow
    stub = stub
    truncated = truncated
    Absent = Absent
    NoSkeleton = NoSkeleton
    None = None
    Modes = {"optimize"}
    Objective = "depth"
    Attempts = 3
    MaxWrites = 3
    VerifyPoints = 1
    Designs <- MCDesigns
    Malformed <- MCMalformed
    Skeletons <- MCSkeletons
    Bases <- MCBases
    Finds <- MCFinds
    Cost <- MCCost
INVARIANTS
    NothingIsLost
CHECK_DEADLOCK FALSE
