SPECIFICATION Spec
CONSTANTS
    good = good
    better = better
    narrow = narrow
    stub = stub
    truncated = truncated
    Absent = Absent
    NoSkeleton = NoSkeleton
    None = None
    Modes = {"implement"}
    Objective = "correctness"
    Attempts = 3
    MaxWrites = 3
    VerifyPoints = 2
    Designs <- MCDesigns
    Malformed <- MCMalformed
    Skeletons <- MCSkeletons
    Bases <- MCBases
    Finds <- MCFinds
    Cost <- MCCost
INVARIANTS
    TipIsAlwaysBest
CHECK_DEADLOCK FALSE
