SPECIFICATION FilesSpec
CONSTANTS
    FileSize = {0, 1, 8, 9, 16, 17, 63, 64, 65, 128, 200}
    MemOff = {0, 4, 20}
    Padding = {0, 1, 12, 13}
    BlockSize = 64
    FirstCapacity = 16
    SizeLimit = 1024
    NoBuffer = NoBuffer
    Opt <- Opts
    PathList <- Lists
INVARIANTS
    LoadedWhole
    FailuresReported
CHECK_DEADLOCK FALSE
