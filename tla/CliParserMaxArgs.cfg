SPECIFICATION CliSpec
CONSTANTS
    Quotes = {"'"}
    CliLines <- MaxArgsLine
    AliasNames <- TwoNames
    AliasValues <- SomeValues
    Handlers <- OneHandler
    Wants <- WantsName
    HandlerResults <- SomeResults
    FileNames <- OneName
    MaxExpansions = 3
    ArgvSlots = 4
    MaxDepth = 2
    MaxLeaks = 1
INVARIANT MaxArgsFit
