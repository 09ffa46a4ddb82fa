SPECIFICATION Spec
CONSTANTS
    w1 = w1
    w2 = w2
    Bgwriters = {w1, w2}
    NBuffers = 3
    NLists = 2
    BatchSize = 2
    MaxBatch = 2
    MaxLsn = 3
    MaxErrors = 1
SYMMETRY BgwriterSymmetry
INVARIANTS
    TypeOK
    ListsInOrder
    CursorInList
    HeapHoldsLists
    OneWriterPerList
PROPERTY
    ImplementsQueue
