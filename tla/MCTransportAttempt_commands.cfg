\* A capture of one unit, a pipe of two and up to three units of output: the limit is passed in
\* one chunk or in two, and a writer can meet a full pipe.
SPECIFICATION FairSpec
CONSTANTS
    Limit = 1
    MaxWrites = 3
    PipeRoom = 2
INVARIANTS
    UsableIsWhole
    CaptureIsBounded
    NobodyIsLeft
PROPERTIES
    EveryAttemptReturns
