SPECIFICATION ApiSpec
CONSTANTS
    Objects = {o1, o2, o3}
    NULL = NULL
    GC_THRESHOLD = 0
    Kinds = {"cons", "lambda", "env"}
    MaxScopes = 2
SYMMETRY Symmetry
INVARIANTS HeldWhole HeldShape EvalSafe
