CONSTANTS
    IdBits = 2
    None = None
SPECIFICATION Spec
PROPERTY OutOfSessionsOnlyWhenFull
