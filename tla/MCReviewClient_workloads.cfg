\* Two processes that are given one review id and three attempts, or two review ids
\* and one attempt; one failing write and one kill.
SPECIFICATION FairSpec
CONSTANTS
    f1 = f1
    f2 = f2
    r1 = r1
    r2 = r2
    Clients = {c1, c2}
    ReviewIds = {r1, r2}
    Findings = {f1, f2}
    Evaluations <- SomeEvaluations
    Failures = {"timeout"}
    Attempts = 3
    Workloads <- OneIdOrTwo
    MaxFaults = 1
    MaxCrashes = 1
INVARIANTS
    TypeOK
    OneRunPerReview
    ReceiptTellsTheRun
    EvidenceInOrder
PROPERTIES
    ArtifactsAreFinal
    EveryReviewEnds
