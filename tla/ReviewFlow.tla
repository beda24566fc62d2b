----------------------------- MODULE ReviewFlow -----------------------------
(* review_flow.py: what may be promoted from an incomplete answer, when a  *)
(* completion prompt can be built from it, how the findings of all attempts*)
(* are consolidated, and what a schema 2 receipt must satisfy to verify.   *)
(* The verifier works from the receipt alone; digests stand for what they  *)
(* are computed from.                                                      *)
EXTENDS FindingsContract

\* _VIOLATION_COVERAGE_RULES: the fields that a violation implies are covered, and missing.
MustCover(violation) ==
    IF violation \in BadFindings \cup {"review-declaration"} THEN {"verdict"} ELSE {}

MustMiss(violation) ==
    {"findings"} \cup
    (IF violation \in {"verdict", "findings-shape", "verdict-invariant"} THEN {"verdict"} ELSE {})
    \cup (IF violation = "review-declaration" THEN {"reviewedFiles"} ELSE {})

SemanticViolations ==
    BadFindings \cup {"response-fields", "verdict", "findings-shape", "verdict-invariant",
                      "review-declaration"}

\* _coverage_matches_violation
CoverageMatches(violation, declare, covered) ==
    /\ violation \in SemanticViolations
    /\ covered \subseteq Required(declare)
    /\ "findings" \notin covered
    /\ MustCover(violation) \subseteq covered
    /\ MustMiss(violation) \cap covered = {}

\* _valid_completion_manifest, on the request that run_review makes for the next attempt: all
\* required fields are to be answered again, and the violation is that of the earlier answer.
CompletionPossible(violation, declare) == CoverageMatches(violation, declare, {})

\* promote_fragments: the findings of an incomplete answer, with where they come from.
Promote(evaluation, gate, declare, attempt, route) ==
    IF /\ gate = "contract-incomplete"
       /\ evaluation.status = "incomplete"
       /\ CoverageMatches(evaluation.violation, declare, evaluation.covered)
    THEN {[fragment |-> g, attempt |-> attempt, route |-> route] : g \in evaluation.fragments}
    ELSE {}

\* A normalized review as the answer that would be normalized to it.
Restated(review) ==
    [shape |-> "object", verdict |-> review.verdict, extra |-> FALSE, list |-> "list",
     items |-> SetToSeq(review.findings), files |-> IF review.declared THEN "all" ELSE "none"]

\* Seeded fault: the verdict of the accepted review decides alone.
ApprovesByVerdict(review, findings) == review.verdict = "approved"

\* A verdict of "approved" approves only when no attempt reported a finding.
Approves(review, findings) == review.verdict = "approved" /\ findings = {}

\* consolidate: findings of the accepted review and of the incomplete attempts, each with the
\* attempts that reported it; accepted is 0 when there is no accepted attempt.
Consolidate(review, promoted, accepted, declare) ==
    LET ok == /\ accepted # 0
              /\ Evaluate(Restated(review), declare).review = review
        kept == IF ok THEN review.findings ELSE {}
        ReportsOf(f) == {[attempt |-> p.attempt, fragment |-> p.fragment] :
                            p \in {q \in promoted : q.fragment[1] = f}}
        findings == {[finding |-> f, confirmed |-> f \in kept, sources |-> ReportsOf(f)] :
                        f \in kept \cup {p.fragment[1] : p \in promoted}}
    IN  [status   |-> IF ok THEN "accepted" ELSE "unavailable",
         verdict  |-> IF ok THEN review.verdict ELSE "none",
         approved |-> ok /\ Approves(review, findings),
         accepted |-> IF ok THEN accepted ELSE 0,
         findings |-> findings]
-----------------------------------------------------------------------------
(* The verifier (validate_v2_receipt).                                     *)

PregateResults ==
    {"timeout", "transport-failed", "missing-response", "model-mismatch",
     "provider-mismatch", "empty", "missing-conversation"}

\* _fallback_reason_for_attempt
FallbackReason(attempt) ==
    IF attempt.result \in PregateResults THEN attempt.result
    ELSE IF attempt.result = "incomplete" /\ attempt.evaluated
         THEN IF attempt.evaluation.status = "incomplete"
              THEN "contract-incomplete" ELSE "contract-invalid"
         ELSE "none"

\* The state of a contract evaluation in a receipt that can be reproduced from the attempt's
\* response and from the receipt's own settings.
EvaluationStands(attempt, declare) ==
    LET e == attempt.evaluation IN
    /\ attempt.answered
    /\ attempt.declare = declare
    /\ \A g \in e.fragments : g[2] = attempt.payload /\ g[1] \in Findings
    /\ CASE e.status = "complete" ->
              /\ e.violation = "none"
              /\ e.covered = Required(declare)
              /\ "reviewedFiles" \in e.covered => e.review.declared
              /\ e.review.verdict \in Verdicts
              /\ (e.review.verdict = "approved") = (e.review.findings = {})
              /\ FindingsOf(e.fragments) = e.review.findings
              /\ attempt.result = "accepted"
         [] e.status = "incomplete" ->
              /\ e.review = NoReview
              /\ e.fragments # {}
              /\ CoverageMatches(e.violation, declare, e.covered)
              /\ attempt.result = "incomplete"
         [] e.status = "invalid" ->
              /\ e.review = NoReview
              /\ e.fragments = {}
              /\ IF e.violation \in EarlyViolations THEN ~e.assessed
                 ELSE e.assessed /\ CoverageMatches(e.violation, declare, e.covered)
              /\ attempt.result = "incomplete"

\* The fragments that attempt i of the receipt entitles to promotion.
Reproduced(r, i) ==
    LET a == r.attempts[i] IN
    IF a.evaluated /\ a.evaluation.status = "incomplete" /\ EvaluationStands(a, r.declare)
    THEN {[fragment |-> g, attempt |-> i, route |-> a.route] : g \in a.evaluation.fragments}
    ELSE {}

RelationshipStands(r, i) ==
    LET link == r.relationships[i]
        source == r.attempts[i]
    IN  /\ link.from = i /\ link.to = i + 1
        /\ link.reason = FallbackReason(source)
        /\ link.kind = IF source.route = r.attempts[i + 1].route
                       THEN "retry" ELSE "route-fallback"
        /\ link.fragments = {p.fragment : p \in UNION {Reproduced(r, j) : j \in 1 .. i}}

\* An accepted attempt is the last one and the only one.
ResultStands(r) ==
    LET acceptedOnes == {i \in DOMAIN r.attempts : r.attempts[i].result = "accepted"} IN
    IF r.result = "accepted"
    THEN /\ r.accepted = Len(r.attempts)
         /\ acceptedOnes = {r.accepted}
         /\ r.attempts[r.accepted].evaluated
         /\ r.attempts[r.accepted].evaluation.status = "complete"
         /\ [verdict |-> r.verdict, findings |-> r.findings] =
                [verdict  |-> r.attempts[r.accepted].evaluation.review.verdict,
                 findings |-> r.attempts[r.accepted].evaluation.review.findings]
         /\ r.attempts[r.accepted].findings = r.findings
    ELSE r.accepted = 0 /\ acceptedOnes = {}

\* The codes that `reviewctl verify` rejects the receipt with.
ReceiptViolations(r) ==
    LET accepted == r.accepted # 0
        promoted == UNION {Reproduced(r, i) : i \in DOMAIN r.attempts}
        checks ==
          [receiptSource |-> r.pathKnown,
           attempts |-> r.attempts # <<>>,
           attemptRoute |->
             \A i \in DOMAIN r.attempts :
                /\ r.attempts[i].route \in DOMAIN r.routes
                /\ r.attempts[i].transport = r.routes[r.attempts[i].route],
           contractEvaluation |->
             \A i \in DOMAIN r.attempts :
                IF r.attempts[i].evaluated
                THEN r.pathKnown /\ EvaluationStands(r.attempts[i], r.declare)
                ELSE r.attempts[i].result # "incomplete",
           promotedFragments |->
             \A i \in DOMAIN r.attempts : r.attempts[i].promoted = Reproduced(r, i),
           acceptedAttempt |-> ResultStands(r),
           backendQualification |->
             r.unqualified = (accepted /\ r.attempts[r.accepted].transport = "kiro"),
           fallbackRelationships |->
             /\ Len(r.relationships) = Len(r.attempts) - 1
             /\ \A i \in DOMAIN r.relationships : RelationshipStands(r, i),
           consolidatedReview |->
             r.consolidated =
               Consolidate(IF accepted THEN r.attempts[r.accepted].evaluation.review ELSE NoReview,
                           promoted, r.accepted, r.declare)]
    IN  {code \in DOMAIN checks : ~checks[code]}
=============================================================================
