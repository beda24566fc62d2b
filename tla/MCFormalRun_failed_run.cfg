\* The same runs: one that fails without being killed leaves a receipt.
SPECIFICATION Spec
CONSTANTS
    f1 = f1
    f2 = f2
    Findings = {f1, f2}
    RouteLists <- SomeRoutes
    MaxAttempts = 2
    Sources = {"files", "inline"}
    Responses <- SomeResponses
INVARIANTS
    FailedRunHasReceipt
