SPECIFICATION Spec
CONSTANTS
    Quotes <- BothQuotes
    Lines <- AllLines
    Listing <- Files
    Enumerates = TRUE
    InitialCapacity = 2
    FailSite <- Site
INVARIANTS
    TypeOK
    QuotingRoundTrips
    NoDoubleFree
    ArgvOwned
    ArgvInOrder

