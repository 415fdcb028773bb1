SPECIFICATION Spec
CONSTANTS
    Objects = {o1, o2, o3}
    NULL = NULL
    GC_THRESHOLD = 1
    Kinds = {"cons", "native_clos"}
    MaxScopes = 2
SYMMETRY Symmetry
INVARIANTS BoundArgsLive
