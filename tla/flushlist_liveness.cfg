SPECIFICATION FairSpec
CONSTANTS
    w1 = w1
    w2 = w2
    Bgwriters = {w1}
    NBuffers = 3
    NLists = 2
    BatchSize = 1
    MaxBatch = 1
    MaxLsn = 2
    MaxErrors = 0
PROPERTY
    EventuallyFlushed
