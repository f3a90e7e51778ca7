CONSTANTS
    IdBits = 3
    None = None
SPECIFICATION Spec
INVARIANT TypeOK
PROPERTY NextIdIsFirstFree
