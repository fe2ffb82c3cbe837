SPECIFICATION LiveSpec
CONSTANTS
    N_PORTS = 2
    RED_LANES = 1
    LANE_MOD = 2
    RED_LATENCY = 3
    MaxSets = 6
    Ids <- MCIds
    Offers <- MCOffers
INVARIANTS
    TypeOK
    InOrderExactlyOnce
    LatencyIsForwardProgress
PROPERTIES
    EverySetAnswered
    EveryOfferTaken
    ResultHeldUntilAccepted
    ImplementsFifo
