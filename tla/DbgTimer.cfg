SPECIFICATION FairSpec
CONSTANTS
    c1 = c1
    c2 = c2
    x1 = x1
    x2 = x2
    f1 = f1
    f2 = f2
    tmp = tmp
    Null = Null
    Empty = Empty
    Partial = Partial
    Client <- Clients2
    Stopper <- OneStopper
    Ctx <- Ctx2
    Option <- Options
    File <- Paths
    TempFile <- Temp
    DefaultInterval = 2
INVARIANTS
    TypeOK
    NoDanglingAccess
    AtMostOneTimer
    NoLeak
    SnapshotCoherent
    TimerServed
    DumpPathStays
PROPERTIES
    CallsReturn
    TimerKeepsFiring
    ImplementsTimerSpec
