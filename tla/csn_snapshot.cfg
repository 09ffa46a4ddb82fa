SPECIFICATION Spec
CONSTANTS
    w1 = w1
    w2 = w2
    r1 = r1
    Writers = {w1, w2}
    Readers = {r1}
    Vacuuming = {}
    MaxXid = 3
    MaxTops = 2
    GroupSize = 2
    ListModes = {FALSE, TRUE}
    ListMax = 1
    MaxCheckpoints = 1
CONSTRAINT Focus
SYMMETRY WriterSymmetry
INVARIANTS
    TypeOK
    AnswerIsAsOf
    HintsTrue
    NoWrongState
    LookupsInLog
    OldestHasKeeper
PROPERTY
    EntriesFinal
