CONSTANTS
    Schemas <- MCSchemas
    Documents <- MCDocuments
    Data <- MCData
    Extensions <- MCExtensions
    Reserved <- MCReserved
    NoStrings <- MCNoStrings
    Unsplittable <- MCUnsplittable
    NoKey = NoKey
    Identifiers <- MCIdentifiers
    Vocab <- MCVocab
    Prefixed <- MCPrefixed
    Expressions = {"$(x)"}
    IntBits = 3
    LongBits = 4
SPECIFICATION Spec
INVARIANTS
    VerdictIsConformance
    RefusalExplained
    ClassDecides
    CrashJustified
CHECK_DEADLOCK FALSE
