SPECIFICATION MCSpec
CONSTANTS
    a = a
    b = b
    Null = Null
    Garbage = Garbage
    Items = {a, b}
    BlockSize = 3
    MaxCount = 7
    Dot = Dot
    StarChar = StarChar
    GtChar = GtChar
    Nul = Nul
    Inputs <- MCInputs
    Tokens <- MCTokens
    Places <- MCPlaces
    MaxTokens = 3
    MaxLength = 4
INVARIANTS InBounds AgreesWithTokens PointersStayInside
PROPERTY ImplementsList
CHECK_DEADLOCK FALSE
