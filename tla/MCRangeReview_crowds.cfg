\* One driver among other reviews and edits, or two drivers with one review id under
\* one artifact root, see Crowds.
SPECIFICATION Spec
CONSTANTS
    d1 = d1
    d2 = d2
    Ranges <- SmallRanges
    Drivers = {d1, d2}
    Requests <- OneRequest
    Settings <- Crowds
INVARIANTS
    FrozenIsTheDiff
    AcceptedIsReviewed
    
    FailsForACause
PROPERTIES
    RefinesPromise
    EveryRangeEnds
