\* Two runs, in turn or at once: findings of one id or of two, one entry a page, a move
\* of the pull request, an altered artifact.
SPECIFICATION Spec
CONSTANTS
    f1 = f1
    f2 = f2
    Runs = {r1, r2}
    Findings = {f1, f2}
    PageSize = 1
    MaxPages = 2
    Timings <- InTurnOrAtOnce
SYMMETRY RunSymmetry
INVARIANTS
    TypeOK
    OnceInTurn
    PublishedIsCurrent
    PostedIsReviewed
    ReportsAreTrue
