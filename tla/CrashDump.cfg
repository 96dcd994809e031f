SPECIFICATION FairSpec
CONSTANTS
    Thread <- TwoThreads
    Console = "console"
    CrashFile = crash
    UserFile = {user}
    TempFile = {}
    MaxNest <- NestOne
    None = None
INVARIANTS
    TypeOK
    DumpOrTrace
CHECK_DEADLOCK FALSE
PROPERTIES
    CrashEnds
