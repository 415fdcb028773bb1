SPECIFICATION FairSpec
CONSTANTS
    Objects = {o1, o2, o3, o4}
    NULL = NULL
INVARIANTS Linked DestroyedAll
PROPERTIES KeepsPromise SweepEnds
