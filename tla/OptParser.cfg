SPECIFICATION Spec
CONSTANTS
    Argv <- Argvs
    OptString <- Ar_o__
    LongOpt <- Long
    None = None
INVARIANTS
    TypeOK
    ReadsAsWritten
CHECK_DEADLOCK FALSE
