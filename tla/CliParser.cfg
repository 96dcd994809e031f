SPECIFICATION CliFairSpec
CONSTANTS
    Quotes = {"'"}
    CliLines <- SomeLines
    AliasNames <- TwoNames
    AliasValues <- SomeValues
    Handlers <- OneHandler
    Wants <- WantsName
    HandlerResults <- SomeResults
    FileNames <- OneName
    MaxExpansions = 3
    ArgvSlots = 12
    MaxDepth = 2
    MaxLeaks = 1
INVARIANTS
    CliTypeOK
    ArgvBalance
    RedirectionsToldApart
PROPERTIES
    ArgvAsWritten
    LineReturns
CHECK_DEADLOCK FALSE
