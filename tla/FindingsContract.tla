-------------------------- MODULE FindingsContract --------------------------
(* How the findings-json contract judges one answer of a model             *)
(* (FindingsJsonContract.evaluate in contracts.py).  An answer that parses *)
(* is a record of what the checks tell apart:                              *)
(*   shape    "broken" (not JSON), "scalar" (not an object) or "object"    *)
(*   verdict  "approved", "changes-requested", "odd" or "none" (absent)    *)
(*   extra    whether it has a field the schema does not allow             *)
(*   list     "list", "odd" (another type) or "none" (absent)              *)
(*   items    the elements of the list: findings, or the check they fail   *)
(*   files    reviewedFiles: "all" of them, "wrong" or "none" (absent)     *)
EXTENDS Naturals, Sequences, SequencesExt

CONSTANT Findings    \* valid findings on files of the review

BadFindings == {"finding-fields", "finding-value", "finding-path"}

ASSUME FindingsAreNotBad == Findings \cap BadFindings = {}

Verdicts == {"approved", "changes-requested"}

\* The code of the first of a sequence of <<code, holds>> that does not hold, or "none".
FirstFailed(checks) ==
    LET failed == {i \in DOMAIN checks : ~checks[i][2]} IN
    IF failed = {} THEN "none"
    ELSE checks[CHOOSE i \in failed : \A j \in failed : i <= j][1]

\* findings_required_fields
Required(declare) ==
    {"verdict", "findings"} \cup (IF declare THEN {"reviewedFiles"} ELSE {})

\* The fields of an answer that the schema has.
Fields(p) ==
    {f \in {"verdict", "findings", "reviewedFiles"} :
        CASE f = "verdict"       -> p.verdict # "none"
          [] f = "findings"      -> p.list # "none"
          [] f = "reviewedFiles" -> p.files # "none"}

VerdictAgrees(p) ==
    /\ p.verdict \in Verdicts
    /\ p.list = "list"
    /\ (p.verdict = "approved") = (p.items = <<>>)

\* reviewedFiles is optional unless the run asks for it, and checked when it is there.
DeclarationHolds(p, declare) ==
    (declare \/ p.files # "none") => p.files = "all"

\* The check that the first invalid item of a list fails, or "none".
ItemCode(items) ==
    LET bad == {i \in DOMAIN items : items[i] \in BadFindings} IN
    IF bad = {} THEN "none" ELSE items[CHOOSE i \in bad : \A j \in bad : i <= j]

\* The code of the first check the answer fails, in the order of the code.
Violation(p, declare) ==
    FirstFailed(<<
        <<"response-fields",    Required(declare) \subseteq Fields(p) /\ ~p.extra>>,
        <<"verdict",            p.verdict \in Verdicts>>,
        <<"findings-shape",     p.list = "list">>,
        <<"verdict-invariant",  VerdictAgrees(p)>>,
        <<ItemCode(p.items),    ItemCode(p.items) = "none">>,
        <<"review-declaration", DeclarationHolds(p, declare)>> >>)

EarlyViolations == {"invalid-json", "top-level-not-object"}

NoReview == [verdict |-> "none", findings |-> {}, declared |-> FALSE]

\* An answer that cannot be assessed has no coverage and no fragments.
Rejected(code) ==
    [status |-> "invalid", violation |-> code, assessed |-> FALSE, covered |-> {},
     fragments |-> {}, review |-> NoReview]

\* The valid findings of the answer, each identified by the finding and the answer it was in.
Fragments(p) == {<<f, p>> : f \in Range(p.items) \cap Findings}

FindingsOf(fragments) == {g[1] : g \in fragments}

\* What is covered feeds the completion request of an incomplete answer and the receipt.
Covered(p, declare) ==
    {f \in Required(declare) :
        CASE f = "verdict"       -> VerdictAgrees(p)
          [] f = "findings"      -> Violation(p, declare) = "none"
          [] f = "reviewedFiles" -> p.files = "all"}

\* FindingsJsonContract.evaluate.  declare is review_declaration_required.
Evaluate(p, declare) ==
    IF p.shape = "broken" THEN Rejected("invalid-json")
    ELSE IF p.shape = "scalar" THEN Rejected("top-level-not-object")
    ELSE LET violation == Violation(p, declare)
             status == IF violation = "none" THEN "complete"
                       ELSE IF Fragments(p) # {} THEN "incomplete" ELSE "invalid"
         IN  [status    |-> status,
              violation |-> violation,
              assessed  |-> TRUE,
              covered   |-> Covered(p, declare),
              fragments |-> Fragments(p),
              review    |-> IF status = "complete"
                            THEN [verdict  |-> p.verdict,
                                  findings |-> FindingsOf(Fragments(p)),
                                  declared |-> p.files = "all"]
                            ELSE NoReview]
=============================================================================
