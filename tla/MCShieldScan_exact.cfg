SPECIFICATION Spec
CONSTANTS
    Tables <- MCTables
    Categories <- MCCategories
    Texts <- MCTexts
    Skips <- MCSkips
    MAX_STATES = 16
    BytesOf <- MCBytes
    MAX_TERMS = 64
    NoHit = NoHit
INVARIANTS
    InBounds
    FailIsFlat
    ScanIsExact
    EncodingHidesNothing
PROPERTIES
    BuildEnds
