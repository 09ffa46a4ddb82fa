SPECIFICATION Spec
CONSTANTS
    Ids = {0, 1, 2, 3, 4, 5}
    MaxLsn = 3
INVARIANTS
    HeapIsReference
    PopsLeast
