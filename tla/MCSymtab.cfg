SPECIFICATION Spec
CONSTANTS
    a = a
    b = b
    cut = cut
    long = long
    Entries = {e1, e2, e3, e4}
    NULL = NULL
    Keys <- MCKeys
    Values = {0, 1, 2, 3, 4}
    HASH_SIZE = 2
    hash_key <- MCBucket
    Cut <- MCCut
    InitialIds = 1
    HostValues = {0, 1}
SYMMETRY Symmetry
INVARIANTS HashLinked NamesKept OneIdPerName
PROPERTIES KeepsPromise
