\* Two runs, answers that may hold two findings of one id.
SPECIFICATION Spec
CONSTANTS
    f1 = f1
    f2 = f2
    Runs = {r1, r2}
    Findings = {f1, f2}
    PageSize = 3
    MaxPages = 2
    Timings <- TwinFindings
SYMMETRY RunSymmetry
INVARIANTS
    AtMostOnce
