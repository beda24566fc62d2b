\* A child whose first attempt was incomplete with a valid finding, and whose second approved.
SPECIFICATION Spec
CONSTANTS
    d1 = d1
    d2 = d2
    Ranges <- SmallRanges
    Drivers = {d1, d2}
    Requests <- OneRequest
    Settings <- Retries
INVARIANTS
    ApprovalKeepsFindings
