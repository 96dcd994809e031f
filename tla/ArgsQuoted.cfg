SPECIFICATION Spec
CONSTANTS
    Quotes <- BothQuotes
    Lines <- FewLines
    Listing <- Files
    Enumerates = TRUE
    InitialCapacity = 2
    FailSite <- NoSite
INVARIANT QuotedWildcardsLiteral
