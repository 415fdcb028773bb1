SPECIFICATION Spec
CONSTANTS
    SLAB_SIZE = 3
    INITIAL_NUM_SLABS = 1
    MaxSlabs = 3
INVARIANTS TypeOK NoOverlap LosesFirstOnly
PROPERTIES GrowsWhenFull KeepsPromise
