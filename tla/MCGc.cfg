SPECIFICATION Spec
CONSTANTS
    Objects = {o1, o2, o3}
    NULL = NULL
    GC_THRESHOLD = 1
    Kinds = {"cons", "lambda", "env"}
    MaxScopes = 2
SYMMETRY Symmetry
INVARIANTS TypeOK NoDangling TypedPointers MarksClear LockedClosed
PROPERTIES FreesOnlyGarbage CollectsAllGarbage
