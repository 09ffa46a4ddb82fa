SPECIFICATION Spec
CONSTANTS
    w1 = w1
    w2 = w2
    Bgwriters = {w1, w2}
    NBuffers = 2
    NLists = 2
    BatchSize = 1
    MaxBatch = 1
    MaxLsn = 2
    MaxErrors = 1
INVARIANT
    FlushingHasWriter
