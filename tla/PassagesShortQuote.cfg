SPECIFICATION Spec
CONSTANTS
    MinQuote = 2
    Bodies <- MCBodies
    Quotes <- MCQuotes
    MaxChars = 8
    Overlaps = {4}
    MinChunk = 4
    NoText = NoText
INVARIANT VerifiedQuotesAreLong
CHECK_DEADLOCK FALSE
