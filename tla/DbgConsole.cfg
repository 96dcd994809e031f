SPECIFICATION FairSpec
CONSTANTS
    Console = {k1, k2}
    Line <- Lines
    Callback = {"notifies", "stops"}
    DefaultInterval = 2000
    IntMax = 2500
    Kilo = 1000
    None = None
INVARIANTS
    TypeOK
    SingleStopper
    StopHolds
PROPERTIES
    StopReturns
CHECK_DEADLOCK FALSE
