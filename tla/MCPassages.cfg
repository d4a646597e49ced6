SPECIFICATION Spec
CONSTANTS
    MinQuote = 2
    Bodies <- MCBodies
    Quotes <- MCQuotes
    MaxChars = 8
    Overlaps = {0, 2, 4}
    MinChunk = 4
    NoText = NoText
INVARIANTS
    ChunksCover
    ChunksAreBounded
    OffsetsLocate
    VerifiedIsVisible
CHECK_DEADLOCK FALSE
