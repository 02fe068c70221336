CONSTANTS
    Context <- MCContext
    Schemes = {"http", "file"}
    Alphabet <- MCAlphabet
    Reachable <- MCReachable
    Base <- MCBase
    Contents <- MCContents
    Spelled <- MCSpelled
SPECIFICATION Spec
INVARIANTS
    SpellingIsImmaterial
    LinksDecide
    TwiceIsOnce
CHECK_DEADLOCK FALSE
