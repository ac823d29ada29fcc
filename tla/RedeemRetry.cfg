SPECIFICATION FairSpec
CONSTANTS
    Keys = {k1, k2}
    Pages = {p1}
    None = None
INVARIANTS TypeOK OpenIsRemembered OneOpenBurn
PROPERTIES AttemptsAreReleased
