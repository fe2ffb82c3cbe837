SPECIFICATION Spec
CONSTANTS
    s1 = s1
    s2 = s2
    A = A
    B = B
    None = None
    Sources = {s1, s2}
    Sinks = {A, B}
    Tests = {"greedy"}
    Paused = {"traffic"}
    Unreadable = {"reset", "recovered"}
    Blocked = A
    Greedy = s1
    Victim = s2
    WaitCycles = 1
    BusyCycles = 2
    HaltCycles = 2
    ResetCycles = 1
    DrainCycles = 1
    MaxSeen = 3
    Words <- MCWords
    Queue <- MCQueue
    Offers <- MCOffers
    Stale <- MCStale
INVARIANTS
    StarvationIsCaught
CHECK_DEADLOCK FALSE
