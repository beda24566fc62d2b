\* One or two routes, one or two attempts on each, with every kind of answer.
SPECIFICATION Spec
CONSTANTS
    f1 = f1
    f2 = f2
    Findings = {f1, f2}
    RouteLists <- SomeRoutes
    MaxAttempts = 2
    Sources = {"files", "inline"}
    Responses <- SomeResponses
INVARIANTS
    TypeOK
    ReceiptHolds
    PromptCarriesEvidence
    RouteDiscipline
PROPERTIES
    RefinesLedger
