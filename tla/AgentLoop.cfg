SPECIFICATION LiveSpec
CONSTANTS
    good = good
    better = better
    narrow = narrow
    stub = stub
    truncated = truncated
    Absent = Absent
    NoSkeleton = NoSkeleton
    None = None
    Modes = {"implement", "optimize"}
    Objective = "depth"
    Attempts = 3
    MaxWrites = 3
    VerifyPoints = 2
    Designs <- MCDesigns
    Malformed <- MCMalformed
    Skeletons <- MCSkeletons
    Bases <- MCBases
    Finds <- MCFinds
    Cost <- MCCost
INVARIANTS
    TypeOK
    BestIsLeastMeasured
    HeadlinesAreTrue
    TipIsBest
    VerifiedIsTip
    TreeCleanAtEnd
    RepliesAreKept
    RestoredUnlessAbsent
PROPERTIES
    OnlyOwnBranchGrows
    StepsRunDown
    ImplementsRun
    Terminates
CHECK_DEADLOCK FALSE
