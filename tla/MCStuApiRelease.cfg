SPECIFICATION ApiSpec
CONSTANTS
    Objects = {o1, o2}
    NULL = NULL
    GC_THRESHOLD = 1
    Kinds = {"cons"}
    MaxScopes = 1
SYMMETRY Symmetry
INVARIANTS ReleasedUnlocked
