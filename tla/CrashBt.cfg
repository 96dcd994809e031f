SPECIFICATION Spec
CONSTANTS
    Thread <- OneThread
    Console = "console"
    CrashFile = crash
    UserFile = {}
    TempFile = {temp}
    MaxNest <- NestOne
    None = None
INVARIANT BtShowsBacktrace
CHECK_DEADLOCK FALSE
