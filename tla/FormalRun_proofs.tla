---------------------------- MODULE FormalRun_proofs ----------------------------
(***************************************************************************)
(* FormalRun for any routes, any limit of attempts and any answers: the    *)
(* prompt of every attempt carries what incomplete answers reported before *)
(* it (Carried), routes are used in order, within the limit and to the end *)
(* (Tracked), the receipt is one that the verifier accepts and the exit    *)
(* status tells what is in it (Settled, Filed), and no finding is lost,    *)
(* invented or approved over (KeepsTheLedger).                             *)
(*                                                                         *)
(* The verifier works from the attempts alone, the run from local          *)
(* variables it carries through its loops.  Settled says that the two      *)
(* agree: it rests on what the contract makes of an answer (Sound), which  *)
(* an attempt records (Judged) and the verifier checks again.              *)
(***************************************************************************)
EXTENDS FormalRun, FiniteSetTheorems, TLAPS

-----------------------------------------------------------------------------
(* The first check that fails.                                             *)

\* A nonempty set of naturals has a least element.
LEMMA LeastIsThere ==
    ASSUME NEW T, T \subseteq Nat, T # {}
    PROVE  \E x \in T : \A y \in T : x <= y
  <1>1. IsWellFoundedOn(OpToRel(<, Nat), Nat)
    BY NatLessThanWellFounded
  <1>2. PICK x \in T : \A y \in T : ~(<<y, x>> \in OpToRel(<, Nat))
    BY <1>1, WFMin
  <1>3. \A y \in T : ~(y < x)
    BY <1>2 DEF OpToRel
  <1> QED BY <1>3, SMT

\* The value of FirstFailed is the code of a check that fails after those before it hold.
LEMMA FirstFailedIs ==
    ASSUME NEW n \in Nat, NEW checks, DOMAIN checks = 1 .. n
    PROVE  \/ FirstFailed(checks) = "none" /\ \A i \in 1 .. n : checks[i][2]
           \/ \E i \in 1 .. n : /\ FirstFailed(checks) = checks[i][1]
                                /\ ~checks[i][2]
                                /\ \A j \in 1 .. i - 1 : checks[j][2]
  <1> DEFINE failed == {i \in DOMAIN checks : ~checks[i][2]}
  <1>1. CASE failed = {}
    BY <1>1 DEF FirstFailed
  <1>2. CASE failed # {}
    <2>0. failed \subseteq Nat
      OBVIOUS
    <2>1. PICK i \in failed : \A j \in failed : i <= j
      BY <1>2, <2>0, LeastIsThere
    <2>2. (CHOOSE k \in failed : \A j \in failed : k <= j) = i
      BY <2>0, <2>1, SMT
    <2>3. FirstFailed(checks) = checks[i][1]
      BY <1>2, <2>2 DEF FirstFailed
    <2> QED BY <2>1, <2>3
  <1> QED BY <1>1, <1>2

\* The code of an invalid item is one of those an item can fail.
LEMMA ItemCodeType ==
    ASSUME NEW items \in Seq(Findings \cup BadFindings)
    PROVE  ItemCode(items) \in BadFindings \cup {"none"}
  <1> DEFINE bad == {i \in DOMAIN items : items[i] \in BadFindings}
  <1>1. CASE bad = {}
    BY <1>1 DEF ItemCode
  <1>2. CASE bad # {}
    <2>0. bad \subseteq Nat
      OBVIOUS
    <2>1. PICK i \in bad : \A j \in bad : i <= j
      BY <1>2, <2>0, LeastIsThere
    <2>2. (CHOOSE k \in bad : \A j \in bad : k <= j) \in bad
      BY <2>1
    <2> QED BY <1>2, <2>2 DEF ItemCode
  <1> QED BY <1>1, <1>2

\* The violation of an answer is one the schema names, and an earlier check it passed is
\* recorded by what it covers.
LEMMA ViolationIs ==
    ASSUME NEW p, NEW declare, p.items \in Seq(Findings \cup BadFindings),
           Violation(p, declare) # "none"
    PROVE  /\ Violation(p, declare) \in SemanticViolations
           /\ Violation(p, declare) \in {"verdict", "findings-shape", "verdict-invariant"} =>
                ~VerdictAgrees(p)
           /\ Violation(p, declare) \in BadFindings \cup {"review-declaration"} =>
                VerdictAgrees(p)
           /\ Violation(p, declare) = "review-declaration" => p.files # "all"
  <1> DEFINE code == ItemCode(p.items)
             checks == <<
        <<"response-fields",    Required(declare) \subseteq Fields(p) /\ ~p.extra>>,
        <<"verdict",            p.verdict \in Verdicts>>,
        <<"findings-shape",     p.list = "list">>,
        <<"verdict-invariant",  VerdictAgrees(p)>>,
        <<code,                 code = "none">>,
        <<"review-declaration", DeclarationHolds(p, declare)>> >>
  <1>1. Violation(p, declare) = FirstFailed(checks)
    BY DEF Violation
  <1>2. DOMAIN checks = 1 .. 6
    OBVIOUS
  <1>3. code \in BadFindings \cup {"none"}
    BY ItemCodeType
  <1>a. /\ checks[1][1] = "response-fields"
        /\ checks[2][1] = "verdict" /\ checks[2][2] = (p.verdict \in Verdicts)
        /\ checks[3][1] = "findings-shape" /\ checks[3][2] = (p.list = "list")
    OBVIOUS
  <1>b. /\ checks[4][1] = "verdict-invariant" /\ checks[4][2] = VerdictAgrees(p)
        /\ checks[5][1] = code /\ (checks[5][2] <=> code = "none")
        /\ checks[6][1] = "review-declaration" /\ checks[6][2] = DeclarationHolds(p, declare)
    OBVIOUS
  <1> HIDE DEF checks, code
  <1>4. PICK i \in 1 .. 6 : /\ FirstFailed(checks) = checks[i][1]
                            /\ ~checks[i][2]
                            /\ \A j \in 1 .. i - 1 : checks[j][2]
    BY ZenonT(60), <1>1, <1>2, FirstFailedIs
  <1>5. CASE i = 1
    <2>1. FirstFailed(checks) = "response-fields"
      BY <1>4, <1>5, <1>a, <1>b
    <2> QED BY <1>1, <2>1 DEF SemanticViolations, BadFindings
  <1>6. CASE i = 2
    <2>1. FirstFailed(checks) = "verdict" /\ p.verdict \notin Verdicts
      BY <1>4, <1>6, <1>a, <1>b
    <2> QED BY <1>1, <2>1 DEF SemanticViolations, BadFindings, VerdictAgrees
  <1>7. CASE i = 3
    <2>1. FirstFailed(checks) = "findings-shape" /\ p.list # "list"
      BY <1>4, <1>7, <1>a, <1>b
    <2> QED BY <1>1, <2>1 DEF SemanticViolations, BadFindings, VerdictAgrees
  <1>8. CASE i = 4
    <2>1. FirstFailed(checks) = "verdict-invariant" /\ ~VerdictAgrees(p)
      BY <1>4, <1>8, <1>a, <1>b
    <2> QED BY <1>1, <2>1 DEF SemanticViolations, BadFindings
  <1>9. CASE i = 5
    <2>1. FirstFailed(checks) = code /\ code # "none" /\ checks[4][2]
      BY <1>4, <1>9, <1>a, <1>b
    <2>2. VerdictAgrees(p)
      BY <2>1, <1>b
    <2> QED BY <1>1, <1>3, <2>1, <2>2 DEF SemanticViolations, BadFindings
  <1>10. CASE i = 6
    <2>1. FirstFailed(checks) = "review-declaration" /\ ~DeclarationHolds(p, declare)
          /\ checks[4][2]
      BY <1>4, <1>10, <1>a, <1>b
    <2>2. VerdictAgrees(p) /\ p.files # "all"
      BY <2>1, <1>b DEF DeclarationHolds
    <2> QED BY <1>1, <2>1, <2>2 DEF SemanticViolations, BadFindings
  <1> QED BY <1>4, <1>5, <1>6, <1>7, <1>8, <1>9, <1>10

\* What an answer with a violation covers is what its violation implies.
LEMMA CoverageIs ==
    ASSUME NEW p, NEW declare, p.items \in Seq(Findings \cup BadFindings),
           Violation(p, declare) # "none"
    PROVE  CoverageMatches(Violation(p, declare), declare, Covered(p, declare))
  <1> DEFINE v == Violation(p, declare)
             covered == Covered(p, declare)
  <1>1. covered \subseteq Required(declare) /\ "findings" \notin covered
    BY DEF Covered
  <1>2. "verdict" \in covered <=> VerdictAgrees(p)
    BY DEF Covered, Required
  <1>3. "reviewedFiles" \in covered => p.files = "all"
    BY DEF Covered
  <1>4. MustCover(v) \subseteq covered
    BY <1>2, ViolationIs DEF MustCover
  <1>5. MustMiss(v) \cap covered = {}
    BY <1>1, <1>2, <1>3, ViolationIs DEF MustMiss
  <1> QED BY <1>1, <1>4, <1>5, ViolationIs DEF CoverageMatches

-----------------------------------------------------------------------------
(* What the contract says of an answer.                                    *)

\* An item list without a code has findings only.
LEMMA ItemsAreFindings ==
    ASSUME NEW items \in Seq(Findings \cup BadFindings)
    PROVE  ItemCode(items) = "none" <=> \A i \in DOMAIN items : items[i] \in Findings
  <1> DEFINE bad == {i \in DOMAIN items : items[i] \in BadFindings}
  <1>1. \A i \in DOMAIN items : items[i] \in Findings <=> items[i] \notin BadFindings
    BY FindingsAreNotBad
  <1>2. CASE bad = {}
    BY <1>1, <1>2 DEF ItemCode
  <1>3. CASE bad # {}
    <2>0. bad \subseteq Nat
      OBVIOUS
    <2>1. PICK i \in bad : \A j \in bad : i <= j
      BY <1>3, <2>0, LeastIsThere
    <2>2. (CHOOSE k \in bad : \A j \in bad : k <= j) \in bad
      BY <2>1
    <2>3. ItemCode(items) \in BadFindings
      BY <1>3, <2>2 DEF ItemCode
    <2> QED BY <1>1, <2>1, <2>3 DEF BadFindings
  <1> QED BY <1>2, <1>3

\* An answer has no violation exactly when all six checks hold.
LEMMA NoViolation ==
    ASSUME NEW p, NEW declare, p.items \in Seq(Findings \cup BadFindings)
    PROVE  Violation(p, declare) = "none" <=>
              /\ Required(declare) \subseteq Fields(p) /\ ~p.extra
              /\ VerdictAgrees(p)
              /\ \A i \in DOMAIN p.items : p.items[i] \in Findings
              /\ DeclarationHolds(p, declare)
  <1> DEFINE code == ItemCode(p.items)
             checks == <<
        <<"response-fields",    Required(declare) \subseteq Fields(p) /\ ~p.extra>>,
        <<"verdict",            p.verdict \in Verdicts>>,
        <<"findings-shape",     p.list = "list">>,
        <<"verdict-invariant",  VerdictAgrees(p)>>,
        <<code,                 code = "none">>,
        <<"review-declaration", DeclarationHolds(p, declare)>> >>
  <1>1. Violation(p, declare) = FirstFailed(checks)
    BY DEF Violation
  <1>2. DOMAIN checks = 1 .. 6 /\ 6 \in Nat
    OBVIOUS
  <1>3. /\ checks[1][1] = "response-fields"
        /\ checks[1][2] <=> Required(declare) \subseteq Fields(p) /\ ~p.extra
        /\ checks[2][1] = "verdict"
        /\ checks[2][2] <=> p.verdict \in Verdicts
        /\ checks[3][1] = "findings-shape"
        /\ checks[3][2] <=> p.list = "list"
    OBVIOUS
  <1>4. /\ checks[4][1] = "verdict-invariant"
        /\ checks[4][2] <=> VerdictAgrees(p)
        /\ checks[5][1] = code
        /\ checks[5][2] <=> code = "none"
        /\ checks[6][1] = "review-declaration"
        /\ checks[6][2] <=> DeclarationHolds(p, declare)
    OBVIOUS
  <1>5. code = "none" <=> \A i \in DOMAIN p.items : p.items[i] \in Findings
    BY ItemsAreFindings
  <1> HIDE DEF checks, code
  <1>6. \/ FirstFailed(checks) = "none" /\ \A i \in 1 .. 6 : checks[i][2]
        \/ \E i \in 1 .. 6 : FirstFailed(checks) = checks[i][1] /\ ~checks[i][2]
    BY <1>2, FirstFailedIs
  <1>7. FirstFailed(checks) = "none" <=> \A i \in 1 .. 6 : checks[i][2]
    <2>1. \A i \in 1 .. 6 : ~checks[i][2] => checks[i][1] # "none"
      BY <1>3, <1>4, SMT
    <2> QED BY <1>6, <2>1
  <1>8. (\A i \in 1 .. 6 : checks[i][2]) <=>
            /\ checks[1][2] /\ checks[2][2] /\ checks[3][2]
            /\ checks[4][2] /\ checks[5][2] /\ checks[6][2]
    BY SMT
  <1>9. VerdictAgrees(p) => p.verdict \in Verdicts /\ p.list = "list"
    BY DEF VerdictAgrees
  <1> QED BY <1>1, <1>3, <1>4, <1>5, <1>7, <1>8, <1>9

\* The valid findings of an answer.
LEMMA FindingsOfAnswer ==
    ASSUME NEW p
    PROVE  FindingsOf(Fragments(p)) = Range(p.items) \cap Findings
  <1>1. \A f : f \in Range(p.items) \cap Findings => <<f, p>> \in Fragments(p)
    BY DEF Fragments
  <1>2. \A g \in Fragments(p) : g[1] \in Range(p.items) \cap Findings
    BY DEF Fragments
  <1>3. \A f : <<f, p>>[1] = f
    OBVIOUS
  <1> QED BY <1>1, <1>2, <1>3 DEF FindingsOf

\* An answer without a violation approves exactly when it has no finding.
LEMMA ApprovalHasNone ==
    ASSUME NEW p, NEW declare, p.items \in Seq(Findings \cup BadFindings),
           Violation(p, declare) = "none"
    PROVE  (p.verdict = "approved") <=> FindingsOf(Fragments(p)) = {}
  <1>1. /\ \A i \in DOMAIN p.items : p.items[i] \in Findings
        /\ (p.verdict = "approved") <=> p.items = <<>>
    BY NoViolation DEF VerdictAgrees
  <1>2. FindingsOf(Fragments(p)) = Range(p.items) \cap Findings
    BY FindingsOfAnswer
  <1>3. p.items = <<>> <=> DOMAIN p.items = {}
    <2>1. DOMAIN p.items = 1 .. Len(p.items) /\ Len(p.items) \in Nat
      OBVIOUS
    <2>2. p.items = <<>> <=> Len(p.items) = 0
      OBVIOUS
    <2> QED BY <2>1, <2>2
  <1>4. Range(p.items) \cap Findings = {} <=> DOMAIN p.items = {}
    BY <1>1 DEF Range
  <1> QED BY <1>1, <1>2, <1>3, <1>4

\* What the verifier wants of an evaluation of p, apart from the attempt it belongs to.
Sound(e, p, declare) ==
    /\ e.status \in {"complete", "incomplete", "invalid"}
    /\ \A g \in e.fragments : g[2] = p /\ g[1] \in Findings
    /\ e.status = "complete" =>
          /\ e.violation = "none"
          /\ e.covered = Required(declare)
          /\ "reviewedFiles" \in e.covered => e.review.declared
          /\ e.review.verdict \in Verdicts
          /\ (e.review.verdict = "approved") <=> (e.review.findings = {})
          /\ FindingsOf(e.fragments) = e.review.findings
          /\ e.review.declared \in BOOLEAN
          /\ IsFiniteSet(e.review.findings)
          /\ e.review = [verdict |-> e.review.verdict, findings |-> e.review.findings,
                         declared |-> e.review.declared]
    /\ e.status = "incomplete" =>
          /\ e.review = NoReview
          /\ e.fragments # {}
          /\ CoverageMatches(e.violation, declare, e.covered)
    /\ e.status = "invalid" =>
          /\ e.review = NoReview
          /\ e.fragments = {}
          /\ IF e.violation \in EarlyViolations THEN ~e.assessed
             ELSE e.assessed /\ CoverageMatches(e.violation, declare, e.covered)

\* The values of a sequence are finitely many.
LEMMA FiniteRange ==
    ASSUME NEW S, NEW s \in Seq(S)
    PROVE  IsFiniteSet(Range(s))
  <1>1. PICK n \in Nat : DOMAIN s = 1 .. n
    OBVIOUS
  <1>2. s \in Surjection(1 .. n, Range(s))
    BY <1>1 DEF Surjection, Range
  <1> QED BY <1>2, FS_Surjection, FS_Interval

\* The contract's evaluation of any answer is sound.
LEMMA EvaluationSound ==
    ASSUME NEW p, NEW declare, p.items \in Seq(Findings \cup BadFindings)
    PROVE  Sound(Evaluate(p, declare), p, declare)
  <1> DEFINE v == Violation(p, declare)
             e == Evaluate(p, declare)
  <1>1. \A g \in Fragments(p) : g[2] = p /\ g[1] \in Findings
    BY DEF Fragments
  <1>2. CASE p.shape \in {"broken", "scalar"}
    <2>1. e \in {Rejected("invalid-json"), Rejected("top-level-not-object")}
      BY <1>2 DEF Evaluate
    <2> HIDE DEF e
    <2>2. /\ e.status = "invalid" /\ e.fragments = {} /\ e.review = NoReview
          /\ e.violation \in EarlyViolations /\ ~e.assessed
      BY <2>1 DEF Rejected, EarlyViolations
    <2> QED BY <2>2 DEF Sound, e
  <1>3. CASE p.shape \notin {"broken", "scalar"} /\ v = "none"
    <2> DEFINE review == [verdict |-> p.verdict, findings |-> FindingsOf(Fragments(p)),
                          declared |-> p.files = "all"]
    <2>1. e = [status |-> "complete", violation |-> v, assessed |-> TRUE,
               covered |-> Covered(p, declare), fragments |-> Fragments(p),
               review |-> review]
      BY <1>3 DEF Evaluate
    <2>2. /\ VerdictAgrees(p) /\ DeclarationHolds(p, declare)
          /\ (p.verdict = "approved") <=> FindingsOf(Fragments(p)) = {}
      BY <1>3, NoViolation, ApprovalHasNone
    <2>3. Covered(p, declare) = Required(declare)
      BY <1>3, <2>2 DEF Covered, Required, DeclarationHolds
    <2>4. "reviewedFiles" \in Required(declare) => p.files = "all"
      BY <2>2 DEF Required, DeclarationHolds
    <2>5. IsFiniteSet(FindingsOf(Fragments(p)))
      <3>1. FindingsOf(Fragments(p)) \subseteq Range(p.items)
        BY DEF FindingsOf, Fragments
      <3> QED BY <3>1, FiniteRange, FS_Subset
    <2>6. /\ e.status = "complete" /\ e.violation = "none"
          /\ e.covered = Required(declare) /\ e.fragments = Fragments(p)
          /\ e.review = review
      BY <1>3, <2>1, <2>3
    <2>7. /\ review.verdict = p.verdict /\ review.findings = FindingsOf(Fragments(p))
          /\ review.declared \in BOOLEAN /\ (review.declared <=> p.files = "all")
      OBVIOUS
    <2>8. review = [verdict |-> review.verdict, findings |-> review.findings,
                    declared |-> review.declared]
      OBVIOUS
    <2>9. p.verdict \in Verdicts
      BY <2>2 DEF VerdictAgrees
    <2> HIDE DEF e, review
    <2> QED BY <1>1, <2>2, <2>4, <2>5, <2>6, <2>7, <2>8, <2>9 DEF Sound, e
  <1>4. CASE p.shape \notin {"broken", "scalar"} /\ v # "none"
    <2>1. e = [status |-> IF Fragments(p) # {} THEN "incomplete" ELSE "invalid",
               violation |-> v, assessed |-> TRUE,
               covered |-> Covered(p, declare), fragments |-> Fragments(p),
               review |-> NoReview]
      BY <1>4 DEF Evaluate
    <2>2. CoverageMatches(v, declare, Covered(p, declare))
      BY <1>4, CoverageIs
    <2>3. v \notin EarlyViolations
      BY <1>4, ViolationIs DEF SemanticViolations, EarlyViolations, BadFindings
    <2>4. /\ e.status = IF Fragments(p) # {} THEN "incomplete" ELSE "invalid"
          /\ e.violation = v /\ e.assessed /\ e.covered = Covered(p, declare)
          /\ e.fragments = Fragments(p) /\ e.review = NoReview
      BY <2>1
    <2> HIDE DEF e, v
    <2> QED BY <1>1, <2>2, <2>3, <2>4 DEF Sound, e
  <1> QED BY <1>2, <1>3, <1>4

-----------------------------------------------------------------------------
(* What an answer does.                                                    *)

Results == PregateResults \cup {"incomplete", "accepted"}

\* The gates before the contract are those of the receipt; past them, there is an answer.
LEMMA PregateType ==
    ASSUME NEW r, NEW transport
    PROVE  /\ PregateOf(r, transport) \in PregateResults \cup {"none"}
           /\ PregateOf(r, transport) = "none" => r.answered
  <1> DEFINE checks == <<
        <<"timeout",              r.exit # 124>>,
        <<"transport-failed",     r.exit = 0>>,
        <<"missing-response",     r.answered>>,
        <<"model-mismatch",       transport \in ModelUnresolved \/ r.model = "asked">>,
        <<"provider-mismatch",    \/ transport \notin ProviderResolved
                                  \/ options.pinned => r.provider = "asked">>,
        <<"empty",                r.payload.shape # "blank">>,
        <<"missing-conversation", r.conversation>> >>
  <1>1. PregateOf(r, transport) = FirstFailed(checks)
    BY DEF PregateOf
  <1>2. DOMAIN checks = 1 .. 7
    OBVIOUS
  <1>3. /\ checks[1][1] = "timeout" /\ checks[2][1] = "transport-failed"
        /\ checks[3][1] = "missing-response" /\ checks[4][1] = "model-mismatch"
        /\ checks[3][2] <=> r.answered
    OBVIOUS
  <1>4. /\ checks[5][1] = "provider-mismatch" /\ checks[6][1] = "empty"
        /\ checks[7][1] = "missing-conversation"
    OBVIOUS
  <1> HIDE DEF checks
  <1>5. \A i \in 1 .. 7 : checks[i][1] \in PregateResults
    BY <1>3, <1>4, SMT DEF PregateResults
  <1>6. \/ FirstFailed(checks) = "none" /\ \A i \in 1 .. 7 : checks[i][2]
        \/ \E i \in 1 .. 7 : FirstFailed(checks) = checks[i][1]
    <2>1. 7 \in Nat
      OBVIOUS
    <2> QED BY <1>2, <2>1, FirstFailedIs
  <1>7. "none" \notin PregateResults
    BY DEF PregateResults
  <1> QED BY <1>1, <1>3, <1>5, <1>6, <1>7

\* Promoting findings keeps every one of them.
LEMMA FragmentsOf ==
    ASSUME NEW S, NEW n, NEW k, NEW P,
           P = {[fragment |-> f, attempt |-> n, route |-> k] : f \in S}
    PROVE  {p.fragment : p \in P} = S
  <1>1. \A f \in S : \E p \in P : p.fragment = f
    <2>1. TAKE f \in S
    <2>2. [fragment |-> f, attempt |-> n, route |-> k] \in P
      OBVIOUS
    <2>3. [fragment |-> f, attempt |-> n, route |-> k].fragment = f
      OBVIOUS
    <2> QED BY <2>2, <2>3
  <1>2. \A p \in P : p.fragment \in S
    OBVIOUS
  <1> QED BY <1>1, <1>2

\* Attempt number n of a run with options o as the verifier wants it.
Judged(o, a, n) ==
    /\ a.transport = o.routes[a.route]
    /\ a.declare = o.declare
    /\ a.evaluated => /\ EvaluationStands(a, o.declare)
                      /\ Sound(a.evaluation, a.payload, o.declare)
    /\ ~a.evaluated => /\ a.evaluation = NotEvaluated
                       /\ a.result \in PregateResults
    /\ a.promoted =
          IF a.evaluation.status = "incomplete"
          THEN {[fragment |-> g, attempt |-> n, route |-> a.route] : g \in a.evaluation.fragments}
          ELSE {}
    /\ a.findings = a.evaluation.review.findings

\* What an answer does, with x the attempt it appends: it is promoted when, and only when,
\* the contract found it incomplete.
AnswerGives(x) ==
    /\ pc = "answering"
    /\ attempts' = Append(attempts, x)
    /\ x.route = route /\ x.prompt = prompt
    /\ x.result \in Results
    /\ Judged(options, x, Number)
    /\ {p.fragment : p \in x.promoted} =
          IF x.evaluation.status = "incomplete" THEN x.evaluation.fragments ELSE {}
    /\ promoted' = promoted \cup x.promoted
    /\ request' \in SemanticViolations \cup {request}
    /\ IF x.result = "accepted" THEN accepted' = Number
       ELSE accepted' = accepted /\ gate' = FallbackReason(x)
    /\ GoOn(x.result)
    /\ UNCHANGED <<options, prompt, links, file, receipt, exit>>

\* Every answer has that effect.
LEMMA Answered ==
    ASSUME NEW r \in Responses, Answer(r)
    PROVE  \E x : AnswerGives(x)
  <1> DEFINE transport == options.routes[route]
             pregate == PregateOf(r, transport)
             evaluation == IF pregate = "none" THEN Evaluate(r.payload, options.declare)
                           ELSE NotEvaluated
             g == GateOf(pregate, evaluation)
             result == ResultOf(g)
             new == Promote(evaluation, g, options.declare, Number, route)
             x == [route |-> route, transport |-> transport, prompt |-> prompt,
                   answered |-> r.answered, payload |-> r.payload,
                   declare |-> options.declare,
                   evaluated |-> pregate = "none", evaluation |-> evaluation,
                   result |-> result,
                   promoted |-> new, findings |-> evaluation.review.findings]
  <1>1. /\ pc = "answering"
        /\ attempts' = Append(attempts, x)
        /\ promoted' = promoted \cup new
        /\ request' = IF new = {} THEN request ELSE evaluation.violation
        /\ IF result = "accepted" THEN accepted' = Number ELSE accepted' = accepted /\ gate' = g
        /\ GoOn(result)
        /\ UNCHANGED <<options, prompt, links, file, receipt, exit>>
    BY DEF Answer, PromotedWith
  <1>2. /\ x.route = route /\ x.transport = transport /\ x.prompt = prompt
        /\ x.answered = r.answered /\ x.payload = r.payload /\ x.declare = options.declare
        /\ (x.evaluated <=> pregate = "none") /\ x.evaluation = evaluation
        /\ x.result = result /\ x.promoted = new
        /\ x.findings = evaluation.review.findings
    OBVIOUS
  <1>3. /\ pregate \in PregateResults \cup {"none"}
        /\ pregate = "none" => r.answered
    BY PregateType
  <1>4. pregate = "none" => Sound(evaluation, r.payload, options.declare)
    BY ResponsesAssumption, EvaluationSound
  <1>5. pregate # "none" => evaluation = NotEvaluated
    OBVIOUS
  <1> HIDE DEF evaluation, pregate, transport
  <1>6. evaluation.status \in {"complete", "incomplete", "invalid"}
    BY <1>4, <1>5 DEF Sound, NotEvaluated, Rejected
  <1>7. evaluation.status = "incomplete" =>
           /\ pregate = "none" /\ g = "contract-incomplete"
           /\ CoverageMatches(evaluation.violation, options.declare, evaluation.covered)
    BY <1>4, <1>5 DEF Sound, GateOf, NotEvaluated, Rejected
  <1>8. /\ pregate # "none" => g = pregate /\ result = pregate
        /\ pregate = "none" /\ evaluation.status = "complete" =>
              result = "accepted"
        /\ pregate = "none" /\ evaluation.status = "incomplete" =>
              result = "incomplete" /\ g = "contract-incomplete"
        /\ pregate = "none" /\ evaluation.status = "invalid" =>
              result = "incomplete" /\ g = "contract-invalid"
    BY <1>3 DEF GateOf, ResultOf, PregateResults
  <1>9. result \in Results
    BY <1>3, <1>6, <1>8 DEF Results
  <1>10. new = IF evaluation.status = "incomplete"
               THEN {[fragment |-> f, attempt |-> Number, route |-> route] :
                         f \in evaluation.fragments}
               ELSE {}
    BY <1>7 DEF Promote
  <1>11. {p.fragment : p \in new} =
           IF evaluation.status = "incomplete" THEN evaluation.fragments ELSE {}
    <2> HIDE DEF new
    <2>1. CASE evaluation.status = "incomplete"
      <3>1. new = {[fragment |-> f, attempt |-> Number, route |-> route] :
                      f \in evaluation.fragments}
        BY <2>1, <1>10
      <3>2. PICK S, n, k, P : /\ S = evaluation.fragments /\ n = Number /\ k = route
                              /\ P = new
        OBVIOUS
      <3>3. P = {[fragment |-> f, attempt |-> n, route |-> k] : f \in S}
        BY <3>1, <3>2
      <3>4. {p.fragment : p \in P} = S
        BY <3>3, FragmentsOf, SMTT(30)
      <3> QED BY <2>1, <3>2, <3>4
    <2>2. CASE evaluation.status # "incomplete"
      BY <2>2, <1>10
    <2> QED BY <2>1, <2>2
  <1>12. request' \in SemanticViolations \cup {request}
    BY <1>1, <1>7, <1>10 DEF CoverageMatches
  <1> HIDE DEF new, result, g, x
  <1>13. x.evaluated => EvaluationStands(x, options.declare)
    <2> SUFFICES ASSUME pregate = "none" PROVE EvaluationStands(x, options.declare)
      BY <1>2
    <2>1. Sound(evaluation, r.payload, options.declare)
      BY <1>4
    <2>2. evaluation.status = "complete" =>
             (evaluation.review.verdict = "approved") = (evaluation.review.findings = {})
      BY <2>1 DEF Sound
    <2> QED BY <1>2, <1>3, <1>6, <1>8, <2>1, <2>2 DEF EvaluationStands, Sound
  <1>14. Judged(options, x, Number)
    BY <1>2, <1>3, <1>4, <1>5, <1>8, <1>10, <1>13 DEF Judged, transport
  <1>15. result # "accepted" => FallbackReason(x) = g
    <2>1. CASE pregate # "none"
      BY <1>2, <1>3, <1>8, <2>1 DEF FallbackReason
    <2>2. CASE pregate = "none"
      BY <1>2, <1>6, <1>8, <2>2 DEF FallbackReason, PregateResults
    <2> QED BY <2>1, <2>2
  <1>16. AnswerGives(x)
    BY <1>1, <1>2, <1>9, <1>11, <1>12, <1>14, <1>15 DEF AnswerGives
  <1> QED BY <1>16

-----------------------------------------------------------------------------
(* Types.                                                                  *)

IsSeq(s) == \E S : s \in Seq(S)

\* What Append does to a sequence.
LEMMA Appended ==
    ASSUME NEW s, IsSeq(s), NEW x
    PROVE  /\ Len(s) \in Nat /\ DOMAIN s = 1 .. Len(s)
           /\ IsSeq(Append(s, x))
           /\ Len(Append(s, x)) = Len(s) + 1
           /\ DOMAIN Append(s, x) = 1 .. Len(s) + 1
           /\ \A i \in 1 .. Len(s) : Append(s, x)[i] = s[i]
           /\ Append(s, x)[Len(s) + 1] = x
  <1>1. PICK S : s \in Seq(S)
    BY DEF IsSeq
  <1>2. s \in Seq(S \cup {x}) /\ x \in S \cup {x}
    BY <1>1
  <1>3. Append(s, x) \in Seq(S \cup {x})
    BY <1>2
  <1>4. IsSeq(Append(s, x))
    BY <1>3 DEF IsSeq
  <1> QED BY <1>2, <1>4

\* A run has a limit of at least one attempt and at least one route.
LEMMA OptionsHave ==
    ASSUME options \in Options
    PROVE  /\ options.max \in Nat \ {0}
           /\ Len(options.routes) \in Nat \ {0}
           /\ DOMAIN options.routes = 1 .. Len(options.routes)
  <1>1. options.routes \in RouteLists /\ options.max \in 1 .. MaxAttempts
    BY DEF Options
  <1>2. options.routes \in Seq(STRING) /\ options.routes # <<>>
    BY <1>1, RouteListsAssumption
  <1> QED BY <1>1, <1>2, MaxAttemptsAssumption

\* The counts that the types rest on: a route is asked again only below its limit, and every
\* attempt but the first has its link.
Counts ==
    /\ IsSeq(attempts) /\ IsSeq(links)
    /\ pc = "asking" =>
          /\ tries < options.max
          /\ Len(links) = IF attempts = <<>> THEN 0 ELSE Len(attempts) - 1
    /\ pc = "answering" => Len(links) = Len(attempts)

TypeInv == TypeOK /\ Counts

\* A run begins in its types.
LEMMA TypeInit == Init => TypeInv
  <1> SUFFICES ASSUME Init PROVE TypeInv
    OBVIOUS
  <1>1. options \in Options
    BY DEF Init
  <1>2. IsSeq(attempts) /\ IsSeq(links) /\ Len(attempts) = 0 /\ DOMAIN attempts = 1 .. 0
        /\ Len(links) = 0
    <2>1. <<>> \in Seq({}) /\ Len(<<>>) = 0 /\ DOMAIN <<>> = 1 .. 0
      OBVIOUS
    <2>2. attempts = <<>> /\ links = <<>>
      BY DEF Init
    <2> QED BY <2>1, <2>2 DEF IsSeq
  <1>3. Counts
    BY <1>1, <1>2, OptionsHave DEF Counts, Init
  <1>4. TypeOK
    BY <1>1, <1>2, OptionsHave DEF TypeOK, Init
  <1> QED BY <1>3, <1>4 DEF TypeInv

\* Every step stays in them.
LEMMA TypeNext == TypeInv /\ [Next]_vars => TypeInv'
  <1> SUFFICES ASSUME TypeInv, [Next]_vars PROVE TypeInv'
    OBVIOUS
  <1>o. /\ options.max \in Nat \ {0}
        /\ Len(options.routes) \in Nat \ {0}
        /\ DOMAIN options.routes = 1 .. Len(options.routes)
    BY OptionsHave DEF TypeInv, TypeOK
  <1>a. Len(attempts) \in Nat /\ Len(links) \in Nat
    BY Appended DEF TypeInv, Counts
  <1>1. CASE Ask
    <2>1. IsSeq(links') /\ Len(links') = Len(attempts)
      <3>1. CASE attempts = <<>>
        <4>1. Len(attempts) = 0
          BY <3>1
        <4> QED BY <1>1, <3>1, <4>1 DEF Ask, TypeInv, Counts
      <3>2. CASE attempts # <<>>
        <4>1. IsSeq(Append(links, Link)) /\ Len(Append(links, Link)) = Len(links) + 1
          BY Appended DEF TypeInv, Counts
        <4> QED BY <1>1, <1>a, <3>2, <4>1 DEF Ask, TypeInv, Counts
      <3> QED BY <3>1, <3>2
    <2>2. Counts'
      BY <1>1, <2>1 DEF Ask, TypeInv, Counts
    <2>3. /\ tries' \in 0 .. options'.max /\ pc' = "answering" /\ route' \in DOMAIN options'.routes
          /\ Len(links') <= Len(attempts') /\ options' = options
      <3>1. /\ tries' = tries + 1 /\ pc' = "answering" /\ pc = "asking"
            /\ UNCHANGED <<options, route, attempts>>
        BY <1>1 DEF Ask
      <3>2. tries \in 0 .. options.max /\ tries < options.max /\ route \in DOMAIN options.routes
        BY <3>1 DEF TypeInv, TypeOK, Counts
      <3>3. tries' \in 0 .. options.max
        BY <1>o, <3>1, <3>2
      <3> QED BY <1>a, <2>1, <3>1, <3>2, <3>3
    <2>4. UNCHANGED <<attempts, request, accepted, file, exit>>
      BY <1>1 DEF Ask
    <2>5. TypeOK'
      BY <2>3, <2>4 DEF TypeInv, TypeOK
    <2> QED BY <2>2, <2>5 DEF TypeInv
  <1>2. CASE AskRaises
    BY <1>2 DEF AskRaises, TypeInv, TypeOK, Counts
  <1>3. ASSUME NEW r \in Responses, Answer(r)
        PROVE  TypeInv'
    <2>1. PICK x : AnswerGives(x)
      BY <1>3, Answered
    <2>2. /\ IsSeq(attempts') /\ Len(attempts') = Len(attempts) + 1
          /\ DOMAIN attempts' = 1 .. Len(attempts')
          /\ \A i \in 1 .. Len(attempts) : attempts'[i] = attempts[i]
          /\ attempts'[Len(attempts')] = x
      BY <2>1, Appended DEF TypeInv, Counts, AnswerGives
    <2>3. \A i \in DOMAIN attempts' : attempts'[i].result \in Results
      BY <1>a, <2>1, <2>2 DEF TypeInv, TypeOK, Results, AnswerGives
    <2>4. /\ route' \in DOMAIN options.routes /\ tries' \in 0 .. options.max
          /\ pc' \in {"asking", "writing"}
          /\ pc' = "asking" => tries' < options.max
      BY <1>o, <2>1 DEF GoOn, TypeInv, TypeOK, AnswerGives
    <2>5. attempts' # <<>>
      BY <1>a, <2>2
    <2>6. pc = "answering" /\ UNCHANGED <<options, prompt, links, file, receipt, exit>>
      BY <1>3 DEF Answer
    <2>7. Counts'
      <3>1. IsSeq(links') /\ Len(links') = Len(attempts') - 1 /\ pc' # "answering"
        BY <1>a, <2>2, <2>4, <2>6 DEF Counts, TypeInv
      <3>2. pc' = "asking" => tries' < options'.max
        BY <2>4, <2>6
      <3> QED BY <2>2, <2>5, <3>1, <3>2 DEF Counts
    <2>8. accepted' \in 0 .. Len(attempts')
      BY <1>a, <2>1, <2>2 DEF Number, TypeInv, TypeOK, AnswerGives
    <2>9. TypeOK'
      <3>1. options' = options /\ file' = file /\ exit' = exit /\ links' = links
        BY <2>6
      <3>2. Len(links') <= Len(attempts')
        BY <1>a, <2>2, <3>1 DEF TypeInv, TypeOK
      <3>3. request' \in SemanticViolations \cup {"none"}
        BY <2>1 DEF TypeInv, TypeOK, AnswerGives
      <3>4. options' \in Options /\ file' \in {"absent", "torn", "whole", "altered"}
            /\ exit' \in {"running", "accepted", "unavailable", "receipt_invalid", "raised",
                          "killed"}
        BY <3>1 DEF TypeInv, TypeOK
      <3>5. /\ route' \in DOMAIN options'.routes /\ tries' \in 0 .. options'.max
            /\ pc' \in {"asking", "answering", "writing", "checking", "ended"}
        BY <2>4, <3>1
      <3> QED BY <2>2, <2>3, <2>8, <3>2, <3>3, <3>4, <3>5 DEF TypeOK, Results
    <2> QED BY <2>7, <2>9 DEF TypeInv
  <1>4. CASE WriteReceipt
    BY <1>4 DEF WriteReceipt, Write, TypeInv, TypeOK, Counts
  <1>5. CASE CheckReceipt
    BY <1>5 DEF CheckReceipt, ExitStatus, TypeInv, TypeOK, Counts
  <1>6. CASE Alter
    BY <1>6 DEF Alter, TypeInv, TypeOK, Counts
  <1>7. CASE Crash
    BY <1>7 DEF Crash, TypeInv, TypeOK, Counts
  <1>8. CASE CrashInWrite
    BY <1>8 DEF CrashInWrite, Write, TypeInv, TypeOK, Counts
  <1>9. CASE UNCHANGED vars
    BY <1>9 DEF vars, TypeInv, TypeOK, Counts
  <1> QED BY <1>1, <1>2, <1>3, <1>4, <1>5, <1>6, <1>7, <1>8, <1>9 DEF Next, Ended

\* Every variable of a run stays in its type (FormalRun's TypeOK), whatever the routes, the
\* limit and the answers.
THEOREM TypeCorrect == Spec => []TypeOK
  <1>1. TypeInv => TypeOK
    BY DEF TypeInv
  <1> QED BY <1>1, TypeInit, TypeNext, PTL DEF Spec

-----------------------------------------------------------------------------
(* The evidence in the prompts.                                            *)

\* What the incomplete answers among the first n attempts reported.
EvidenceUpTo(s, n) ==
    UNION {s[j].evaluation.fragments :
              j \in {k \in 1 .. n : s[k].evaluation.status = "incomplete"}}

\* Evidence depends on the attempts it comes from only.
LEMMA EvidenceOfPrefix ==
    ASSUME NEW s, NEW t, NEW n \in Nat, \A j \in 1 .. n : s[j] = t[j]
    PROVE  EvidenceUpTo(s, n) = EvidenceUpTo(t, n)
  <1> DEFINE S == {k \in 1 .. n : s[k].evaluation.status = "incomplete"}
             T == {k \in 1 .. n : t[k].evaluation.status = "incomplete"}
  <1>1. S = T
    OBVIOUS
  <1>2. {s[j].evaluation.fragments : j \in S} = {t[j].evaluation.fragments : j \in T}
    BY <1>1
  <1> QED BY <1>2 DEF EvidenceUpTo

\* One more attempt adds its fragments when it is incomplete.
LEMMA EvidenceGrows ==
    ASSUME NEW s, NEW n \in Nat
    PROVE  EvidenceUpTo(s, n + 1) =
              EvidenceUpTo(s, n) \cup
                 (IF s[n + 1].evaluation.status = "incomplete"
                  THEN s[n + 1].evaluation.fragments ELSE {})
  <1>1. 1 .. n + 1 = (1 .. n) \cup {n + 1}
    OBVIOUS
  <1> DEFINE S == {k \in 1 .. n : s[k].evaluation.status = "incomplete"}
             T == {k \in 1 .. n + 1 : s[k].evaluation.status = "incomplete"}
  <1>2. CASE s[n + 1].evaluation.status = "incomplete"
    <2>1. T = S \cup {n + 1}
      BY <1>1, <1>2
    <2> QED BY <1>2, <2>1 DEF EvidenceUpTo
  <1>3. CASE s[n + 1].evaluation.status # "incomplete"
    <2>1. T = S
      BY <1>1, <1>3
    <2> QED BY <1>3, <2>1 DEF EvidenceUpTo
  <1> QED BY <1>2, <1>3

\* promoted_fragments is the evidence, and the prompt that is out carries it.
Carried ==
    /\ {p.fragment : p \in promoted} = EvidenceUpTo(attempts, Len(attempts))
    /\ pc = "answering" => prompt = EvidenceUpTo(attempts, Len(attempts))
    /\ \A i \in DOMAIN attempts : attempts[i].prompt = EvidenceUpTo(attempts, i - 1)

\* A run begins without evidence.
LEMMA CarriedInit == Init => Carried
  <1> SUFFICES ASSUME Init PROVE Carried
    OBVIOUS
  <1>1. attempts = <<>> /\ promoted = {} /\ pc = "asking"
    BY DEF Init
  <1>2. Len(attempts) = 0 /\ DOMAIN attempts = {}
    BY <1>1
  <1>3. EvidenceUpTo(attempts, 0) = {}
    BY DEF EvidenceUpTo
  <1> QED BY <1>1, <1>2, <1>3 DEF Carried

\* Every step carries the evidence on.
LEMMA CarriedNext == TypeInv /\ Carried /\ [Next]_vars => Carried'
  <1> SUFFICES ASSUME TypeInv, Carried, [Next]_vars PROVE Carried'
    OBVIOUS
  <1>1. CASE Ask
    BY <1>1 DEF Ask, Carried
  <1>2. CASE AskRaises
    BY <1>2 DEF AskRaises, Carried
  <1>3. ASSUME NEW r \in Responses, Answer(r)
        PROVE  Carried'
    <2>1. PICK x : AnswerGives(x)
      BY <1>3, Answered
    <2>2. PICK n \in Nat : n = Len(attempts)
      BY Appended DEF TypeInv, Counts
    <2>3. /\ Len(attempts') = n + 1 /\ DOMAIN attempts' = 1 .. n + 1
          /\ DOMAIN attempts = 1 .. n
          /\ \A i \in 1 .. n : attempts'[i] = attempts[i]
          /\ attempts'[n + 1] = x
      BY <2>1, <2>2, Appended DEF TypeInv, Counts, AnswerGives
    <2>4. \A i \in 0 .. n : EvidenceUpTo(attempts', i) = EvidenceUpTo(attempts, i)
      <3>1. TAKE i \in 0 .. n
      <3>2. i \in Nat /\ \A j \in 1 .. i : attempts'[j] = attempts[j]
        BY <2>3
      <3>3. PICK s, t : s = attempts' /\ t = attempts
        OBVIOUS
      <3> QED BY <3>2, <3>3, EvidenceOfPrefix
    <2>5. {p.fragment : p \in promoted'} = EvidenceUpTo(attempts', n + 1)
      <3>1. {p.fragment : p \in promoted'} =
               {p.fragment : p \in promoted} \cup {p.fragment : p \in x.promoted}
        BY <2>1 DEF AnswerGives
      <3>2. {p.fragment : p \in promoted} = EvidenceUpTo(attempts', n)
        BY <2>2, <2>4 DEF Carried
      <3>3. PICK s : s = attempts'
        OBVIOUS
      <3>4. EvidenceUpTo(s, n + 1) =
              EvidenceUpTo(s, n) \cup
                 (IF s[n + 1].evaluation.status = "incomplete"
                  THEN s[n + 1].evaluation.fragments ELSE {})
        BY EvidenceGrows
      <3> QED BY <2>1, <2>3, <3>1, <3>2, <3>3, <3>4 DEF AnswerGives
    <2>6. pc = "answering" /\ pc' # "answering"
      BY <1>3, <2>1 DEF Answer, GoOn, AnswerGives
    <2>7. ASSUME NEW i \in DOMAIN attempts'
          PROVE  attempts'[i].prompt = EvidenceUpTo(attempts', i - 1)
      <3>1. CASE i \in 1 .. n
        <4>1. attempts[i].prompt = EvidenceUpTo(attempts, i - 1)
          BY <2>3, <3>1 DEF Carried
        <4>2. EvidenceUpTo(attempts', i - 1) = EvidenceUpTo(attempts, i - 1)
          BY <2>4, <3>1
        <4> QED BY <2>3, <3>1, <4>1, <4>2
      <3>2. CASE i = n + 1
        <4>1. prompt = EvidenceUpTo(attempts, n)
          BY <2>2, <2>6 DEF Carried
        <4>2. EvidenceUpTo(attempts', n) = EvidenceUpTo(attempts, n) /\ i - 1 = n
          BY <2>4, <3>2
        <4> QED BY <2>1, <2>3, <3>2, <4>1, <4>2 DEF AnswerGives
      <3> QED BY <2>3, <3>1, <3>2
    <2> QED BY <2>3, <2>5, <2>6, <2>7 DEF Carried
  <1>4. CASE WriteReceipt
    BY <1>4 DEF WriteReceipt, Write, Carried
  <1>5. CASE CheckReceipt
    BY <1>5 DEF CheckReceipt, Carried
  <1>6. CASE Alter
    BY <1>6 DEF Alter, Carried
  <1>7. CASE Crash
    BY <1>7 DEF Crash, Carried
  <1>8. CASE CrashInWrite
    BY <1>8 DEF CrashInWrite, Write, Carried
  <1>9. CASE UNCHANGED vars
    BY <1>9 DEF vars, Carried
  <1> QED BY <1>1, <1>2, <1>3, <1>4, <1>5, <1>6, <1>7, <1>8, <1>9 DEF Next, Ended

\* Every attempt's prompt carries exactly the findings of all incomplete answers before it,
\* on any route (FormalRun's PromptCarriesEvidence).
THEOREM EvidenceIsCarried == Spec => []PromptCarriesEvidence
  <1>1. Carried => PromptCarriesEvidence
    BY DEF Carried, PromptCarriesEvidence, EvidenceUpTo, Incomplete
  <1> QED BY <1>1, TypeInit, TypeNext, CarriedInit, CarriedNext, PTL DEF Spec

-----------------------------------------------------------------------------
(* The routes.                                                             *)

\* The attempts on route r among the first n.
TriedOn(s, n, r) == {j \in 1 .. n : s[j].route = r}

\* What was tried depends on the attempts only.
LEMMA TriedOfPrefix ==
    ASSUME NEW s, NEW t, NEW n \in Nat, NEW r, \A j \in 1 .. n : s[j] = t[j]
    PROVE  TriedOn(s, n, r) = TriedOn(t, n, r)
  BY DEF TriedOn

\* One more attempt on a route counts one more.
LEMMA TriedCount ==
    ASSUME NEW s, NEW n \in Nat, NEW r
    PROVE  /\ Cardinality(TriedOn(s, n, r)) \in Nat
           /\ s[n + 1].route = r =>
                Cardinality(TriedOn(s, n + 1, r)) = Cardinality(TriedOn(s, n, r)) + 1
  <1>1. IsFiniteSet(1 .. n) /\ TriedOn(s, n, r) \subseteq 1 .. n
    BY FS_Interval DEF TriedOn
  <1>2. IsFiniteSet(TriedOn(s, n, r))
    BY <1>1, FS_Subset
  <1>3. Cardinality(TriedOn(s, n, r)) \in Nat
    BY <1>2, FS_CardinalityType
  <1>4. ASSUME s[n + 1].route = r
        PROVE  Cardinality(TriedOn(s, n + 1, r)) = Cardinality(TriedOn(s, n, r)) + 1
    <2>1. TriedOn(s, n + 1, r) = TriedOn(s, n, r) \cup {n + 1}
      BY <1>4 DEF TriedOn
    <2>2. n + 1 \notin TriedOn(s, n, r)
      BY DEF TriedOn
    <2> QED BY <1>2, <2>1, <2>2, FS_AddElement
  <1> QED BY <1>3, <1>4

\* A route that nobody tried counts none.
LEMMA NoneTried ==
    ASSUME NEW s, NEW n \in Nat, NEW r, \A j \in 1 .. n : s[j].route # r
    PROVE  Cardinality(TriedOn(s, n, r)) = 0
  <1>1. TriedOn(s, n, r) = {}
    BY DEF TriedOn
  <1> QED BY <1>1, FS_EmptySet

\* Attempt i of s has left nothing to try on its route; Spent(i) of the attempts of a run.
SpentIn(s, i) ==
    \/ s[i].result \notin RetriableResults
    \/ Cardinality(TriedOn(s, i, s[i].route)) = options.max

\* SpentIn and TriedOn are FormalRun's Spent and TriedUpTo.
LEMMA SpentIs == \A i : /\ Spent(i) <=> SpentIn(attempts, i)
                        /\ TriedUpTo(i) = Cardinality(TriedOn(attempts, i, attempts[i].route))
  BY DEF Spent, SpentIn, TriedUpTo, TriedOn

\* The route after attempt i, when the run goes on.
RouteAfter(s, i) == IF SpentIn(s, i) THEN s[i].route + 1 ELSE s[i].route

\* The routes that were tried, without the receipt.
InTurn(s) ==
    /\ \A i \in 1 .. Len(s) : Cardinality(TriedOn(s, i, s[i].route)) <= options.max
    /\ \A i \in 1 .. Len(s) - 1 :
          /\ s[i].result # "accepted"
          /\ s[i + 1].route = RouteAfter(s, i)

GivenUp == attempts[Len(attempts)].route = Len(options.routes) /\ SpentIn(attempts, Len(attempts))

\* The two loop counters tell what was tried; before the receipt there is no file.
Tracked ==
    /\ \A i \in 1 .. Len(attempts) : attempts[i].route \in Nat /\ attempts[i].route <= route
    /\ InTurn(attempts)
    /\ pc = "asking" => tries = Cardinality(TriedOn(attempts, Len(attempts), route))
    /\ pc = "answering" => tries = Cardinality(TriedOn(attempts, Len(attempts), route)) + 1
    /\ pc \in {"asking", "answering"} /\ Len(attempts) > 0 =>
          /\ attempts[Len(attempts)].result # "accepted"
          /\ route = RouteAfter(attempts, Len(attempts))
    /\ pc = "writing" /\ accepted = 0 => GivenUp
    /\ pc \in {"asking", "answering", "writing"} => file = "absent"
    /\ Written /\ receipt.result = "unavailable" => GivenUp

\* A run begins with nothing tried.
LEMMA TrackedInit == Init => Tracked
  <1> SUFFICES ASSUME Init PROVE Tracked
    OBVIOUS
  <1>1. attempts = <<>> /\ tries = 0 /\ pc = "asking" /\ file = "absent"
    BY DEF Init
  <1>2. Len(attempts) = 0
    BY <1>1
  <1>3. PICK s : s = attempts
    OBVIOUS
  <1>4. Cardinality(TriedOn(s, 0, route)) = 0
    <2>1. TriedOn(s, 0, route) = {}
      BY DEF TriedOn
    <2> QED BY <2>1, FS_EmptySet
  <1> QED BY <1>1, <1>2, <1>3, <1>4 DEF Tracked, InTurn, Written

\* Steps that leave the attempts alone.
LEMMA SameAttempts ==
    ASSUME UNCHANGED <<attempts, options>>
    PROVE  /\ InTurn(attempts)' <=> InTurn(attempts)
           /\ GivenUp' <=> GivenUp
           /\ \A i : RouteAfter(attempts, i)' = RouteAfter(attempts, i)
  BY DEF InTurn, GivenUp, RouteAfter, SpentIn

\* Every step keeps count: an answer counts one more on its route, and the last loop that
\* is left has nothing to try.
LEMMA TrackedNext == TypeInv /\ Tracked /\ [Next]_vars => Tracked'
  <1> SUFFICES ASSUME TypeInv, Tracked, [Next]_vars PROVE Tracked'
    OBVIOUS
  <1>o. /\ options.max \in Nat \ {0}
        /\ Len(options.routes) \in Nat \ {0}
        /\ DOMAIN options.routes = 1 .. Len(options.routes)
    BY OptionsHave DEF TypeInv, TypeOK
  <1>a. /\ route \in 1 .. Len(options.routes) /\ route \in Nat
        /\ tries \in Nat /\ tries <= options.max
    BY <1>o DEF TypeInv, TypeOK
  <1>1. CASE Ask
    <2>1. /\ UNCHANGED <<attempts, options, route, accepted, file, receipt>>
          /\ pc = "asking" /\ pc' = "answering" /\ tries' = tries + 1
      BY <1>1 DEF Ask
    <2> QED BY <2>1, SameAttempts DEF Tracked, Written
  <1>2. CASE AskRaises
    <2>1. /\ UNCHANGED <<attempts, options, route, tries, accepted, file, receipt>>
          /\ pc' = "ended"
      BY <1>2 DEF AskRaises
    <2> QED BY <2>1, SameAttempts DEF Tracked, Written
  <1>3. ASSUME NEW r \in Responses, Answer(r)
        PROVE  Tracked'
    <2>1. PICK x : AnswerGives(x)
      BY <1>3, Answered
    <2>2. PICK n \in Nat : n = Len(attempts)
      BY Appended DEF TypeInv, Counts
    <2>3. /\ Len(attempts') = n + 1 /\ DOMAIN attempts = 1 .. n
          /\ \A i \in 1 .. n : attempts'[i] = attempts[i]
          /\ attempts'[n + 1] = x
      BY <2>1, <2>2, Appended DEF TypeInv, Counts, AnswerGives
    <2>4. /\ pc = "answering" /\ UNCHANGED <<options, file, receipt>>
          /\ file = "absent"
      BY <1>3 DEF Answer, Tracked
    <2>5. PICK s, t : s = attempts /\ t = attempts'
      OBVIOUS
    <2>6. /\ \A i \in 1 .. n : t[i] = s[i]
          /\ t[n + 1] = x
      BY <2>3, <2>5
    <2>7. \A i \in 0 .. n : \A k : TriedOn(t, i, k) = TriedOn(s, i, k)
      <3>1. TAKE i \in 0 .. n
      <3>2. TAKE k
      <3>3. i \in Nat /\ \A j \in 1 .. i : t[j] = s[j]
        BY <2>6
      <3> QED BY <3>3, TriedOfPrefix
    <2>8. \A i \in 1 .. n : /\ SpentIn(attempts, i)' <=> SpentIn(attempts, i)
                            /\ RouteAfter(attempts, i)' = RouteAfter(attempts, i)
      BY <2>4, <2>5, <2>6, <2>7 DEF SpentIn, RouteAfter
    <2>9. Cardinality(TriedOn(t, n + 1, route)) = tries
      <3>1. Cardinality(TriedOn(t, n + 1, route)) = Cardinality(TriedOn(t, n, route)) + 1
        BY <2>1, <2>6, TriedCount DEF AnswerGives
      <3>2. TriedOn(t, n, route) = TriedOn(s, n, route)
        BY <2>7
      <3>3. tries = Cardinality(TriedOn(s, n, route)) + 1
        BY <2>2, <2>4, <2>5 DEF Tracked
      <3> QED BY <3>1, <3>2, <3>3
    <2>10. SpentIn(attempts, n + 1)' <=> x.result \notin RetriableResults \/ tries = options.max
      BY <2>1, <2>4, <2>5, <2>6, <2>9 DEF SpentIn, AnswerGives
    <2>11. \A i \in 1 .. n + 1 : t[i].route \in Nat /\ t[i].route <= route
      BY <1>a, <2>1, <2>2, <2>5, <2>6 DEF Tracked, AnswerGives
    <2>12. InTurn(attempts)'
      <3>1. ASSUME NEW i \in 1 .. n + 1
            PROVE  Cardinality(TriedOn(t, i, t[i].route)) <= options.max
        <4>1. CASE i = n + 1
          BY <1>a, <2>1, <2>6, <2>9, <4>1 DEF AnswerGives
        <4>2. CASE i \in 1 .. n
          BY <2>2, <2>5, <2>6, <2>7, <4>2 DEF Tracked, InTurn
        <4> QED BY <4>1, <4>2
      <3>2. ASSUME NEW i \in 1 .. n
            PROVE  t[i].result # "accepted" /\ t[i + 1].route = RouteAfter(attempts, i)'
        <4>1. CASE i = n
          <5>1. s[n].result # "accepted" /\ route = RouteAfter(attempts, n)
            BY <2>2, <2>4, <2>5, <4>1 DEF Tracked
          <5> QED BY <2>1, <2>6, <2>8, <4>1, <5>1 DEF AnswerGives
        <4>2. CASE i \in 1 .. n - 1
          <5>1. s[i].result # "accepted" /\ s[i + 1].route = RouteAfter(attempts, i)
            BY <2>2, <2>5, <4>2 DEF Tracked, InTurn
          <5>2. t[i] = s[i] /\ t[i + 1] = s[i + 1]
            BY <2>6, <4>2
          <5> QED BY <2>8, <5>1, <5>2
        <4> QED BY <4>1, <4>2
      <3>3. (n + 1) - 1 = n
        OBVIOUS
      <3> QED BY <2>3, <2>4, <2>5, <3>1, <3>2, <3>3 DEF InTurn
    <2>13. CASE x.result # "accepted" /\ x.result \in RetriableResults /\ tries < options.max
      <3>1. pc' = "asking" /\ UNCHANGED <<route, tries>>
        BY <2>1, <2>13 DEF GoOn, AnswerGives
      <3>2. RouteAfter(attempts, n + 1)' = route
        BY <1>a, <1>o, <2>1, <2>3, <2>10, <2>13 DEF RouteAfter, AnswerGives
      <3> QED BY <2>3, <2>4, <2>5, <2>6, <2>9, <2>11, <2>12, <2>13, <3>1, <3>2 DEF Tracked, Written
    <2>14. CASE /\ ~(x.result # "accepted" /\ x.result \in RetriableResults /\ tries < options.max)
                /\ x.result # "accepted" /\ route < Len(options.routes)
      <3>1. pc' = "asking" /\ route' = route + 1 /\ tries' = 0
        BY <2>1, <2>14 DEF GoOn, AnswerGives
      <3>2. RouteAfter(attempts, n + 1)' = route + 1
        BY <1>a, <1>o, <2>1, <2>3, <2>10, <2>14 DEF RouteAfter, AnswerGives
      <3>3. Cardinality(TriedOn(t, n + 1, route + 1)) = 0
        <4>1. \A j \in 1 .. n + 1 : t[j].route # route + 1
          BY <1>a, <2>11
        <4>2. PICK k, r2 : k = n + 1 /\ r2 = route + 1
          OBVIOUS
        <4>3. k \in Nat /\ \A j \in 1 .. k : t[j].route # r2
          BY <4>1, <4>2
        <4>4. Cardinality(TriedOn(t, k, r2)) = 0
          BY <4>3, NoneTried
        <4> QED BY <4>2, <4>4
      <3>4. \A i \in 1 .. n + 1 : t[i].route \in Nat /\ t[i].route <= route + 1
        BY <1>a, <2>11
      <3> QED BY <2>3, <2>4, <2>5, <2>6, <2>12, <2>14, <3>1, <3>2, <3>3, <3>4 DEF Tracked, Written
    <2>15. CASE /\ ~(x.result # "accepted" /\ x.result \in RetriableResults /\ tries < options.max)
                /\ ~(x.result # "accepted" /\ route < Len(options.routes))
      <3>1. pc' = "writing" /\ UNCHANGED <<route, tries>>
        BY <2>1, <2>15 DEF GoOn, AnswerGives
      <3>2. ASSUME accepted' = 0
            PROVE  GivenUp'
        <4>1. x.result # "accepted"
          BY <2>1, <2>2, <3>2 DEF Number, AnswerGives
        <4>2. route = Len(options.routes) /\ SpentIn(attempts, n + 1)'
          BY <1>a, <1>o, <2>10, <2>15, <4>1
        <4> QED BY <2>1, <2>3, <2>4, <4>2 DEF GivenUp, AnswerGives
      <3> QED BY <2>3, <2>4, <2>5, <2>11, <2>12, <3>1, <3>2 DEF Tracked, Written
    <2> QED BY <2>13, <2>14, <2>15
  <1>4. ASSUME NEW state \in {"whole", "torn"}, Write(state), pc' \in {"checking", "ended"}
        PROVE  Tracked'
    <2>1. /\ UNCHANGED <<attempts, options, route, tries, accepted>>
          /\ pc = "writing"
          /\ receipt'.result = IF accepted = 0 THEN "unavailable" ELSE "accepted"
      BY <1>4 DEF Write, TheReceipt
    <2>2. receipt'.result = "unavailable" => GivenUp
      BY <2>1 DEF Tracked
    <2> QED BY <1>4, <2>1, <2>2, SameAttempts DEF Tracked
  <1>5. CASE CheckReceipt
    <2>1. /\ UNCHANGED <<attempts, options, route, tries, accepted, file, receipt>>
          /\ pc' = "ended"
      BY <1>5 DEF CheckReceipt
    <2> QED BY <2>1, SameAttempts DEF Tracked, Written
  <1>6. CASE Alter
    <2>1. /\ UNCHANGED <<attempts, options, route, tries, accepted, receipt, pc>>
          /\ pc = "checking" /\ file = "whole"
      BY <1>6 DEF Alter
    <2> QED BY <2>1, SameAttempts DEF Tracked, Written
  <1>7. CASE Crash
    <2>1. /\ UNCHANGED <<attempts, options, route, tries, accepted, file, receipt>>
          /\ pc' = "ended"
      BY <1>7 DEF Crash
    <2> QED BY <2>1, SameAttempts DEF Tracked, Written
  <1>8. CASE WriteReceipt
    BY <1>4, <1>8 DEF WriteReceipt
  <1>9. CASE CrashInWrite
    BY <1>4, <1>9 DEF CrashInWrite
  <1>10. CASE UNCHANGED vars
    <2>1. UNCHANGED <<attempts, options, route, tries, accepted, file, receipt, pc>>
      BY <1>10 DEF vars
    <2> QED BY <2>1, SameAttempts DEF Tracked, Written
  <1> QED BY <1>1, <1>2, <1>3, <1>5, <1>6, <1>7, <1>8, <1>9, <1>10 DEF Next, Ended

\* Routes are taken in order, each as often as its results allow and no more, and a run that
\* gives up has nothing left to try (FormalRun's RouteDiscipline).
THEOREM RoutesInTurn == Spec => []RouteDiscipline
  <1>1. TypeInv /\ Tracked => RouteDiscipline
    <2> SUFFICES ASSUME TypeInv, Tracked PROVE RouteDiscipline
      OBVIOUS
    <2>1. DOMAIN attempts = 1 .. Len(attempts)
      BY Appended DEF TypeInv, Counts
    <2>2. \A i : /\ Spent(i) <=> SpentIn(attempts, i)
                 /\ TriedUpTo(i) = Cardinality(TriedOn(attempts, i, attempts[i].route))
      BY SpentIs
    <2> QED BY <2>1, <2>2 DEF RouteDiscipline, Tracked, InTurn, RouteAfter, GivenUp
  <1> QED BY <1>1, TypeInit, TypeNext, TrackedInit, TrackedNext, PTL DEF Spec

-----------------------------------------------------------------------------
(* The receipt.                                                            *)

\* The transition from attempt i to the next one, as the verifier wants it.
LinkStands(i) ==
    /\ links[i].from = i /\ links[i].to = i + 1
    /\ links[i].reason = FallbackReason(attempts[i])
    /\ links[i].fragments = EvidenceUpTo(attempts, i)
    /\ links[i].kind =
          IF attempts[i].route = (IF i = Len(attempts) THEN route ELSE attempts[i + 1].route)
          THEN "retry" ELSE "route-fallback"

AcceptedStands ==
    IF accepted = 0
    THEN \A i \in DOMAIN attempts : attempts[i].result # "accepted"
    ELSE /\ pc \notin {"asking", "answering"}
         /\ accepted = Len(attempts)
         /\ attempts[accepted].result = "accepted"
         /\ attempts[accepted].route = route

\* What run_review keeps across the attempts is what the verifier derives from them.
Settled ==
    /\ \A i \in DOMAIN attempts : /\ Judged(options, attempts[i], i)
                                  /\ attempts[i].route \in DOMAIN options.routes
    /\ promoted = UNION {attempts[i].promoted : i \in DOMAIN attempts}
    /\ \A i \in DOMAIN links : LinkStands(i)
    /\ pc \in {"asking", "answering"} /\ attempts # <<>> =>
          gate = FallbackReason(attempts[Len(attempts)])
    /\ pc = "writing" => attempts # <<>> /\ Len(links) = Len(attempts) - 1
    /\ AcceptedStands

\* A run begins with nothing to settle.
LEMMA SettledInit == Init => Settled
  <1> SUFFICES ASSUME Init PROVE Settled
    OBVIOUS
  <1>1. attempts = <<>> /\ links = <<>> /\ promoted = {} /\ pc = "asking" /\ accepted = 0
    BY DEF Init
  <1>2. DOMAIN attempts = {} /\ DOMAIN links = {}
    BY <1>1
  <1> QED BY <1>1, <1>2 DEF Settled, AcceptedStands

\* Steps that leave what Settled speaks of alone.
LEMMA SettledStays ==
    ASSUME Settled,
           UNCHANGED <<options, route, attempts, links, promoted, gate, accepted>>,
           pc' = pc \/ pc' \in {"checking", "ended"}
    PROVE  Settled'
  <1>1. \A i \in DOMAIN links' : LinkStands(i)'
    BY DEF Settled, LinkStands
  <1>2. AcceptedStands'
    BY DEF Settled, AcceptedStands
  <1>3. pc' = "writing" => attempts' # <<>> /\ Len(links') = Len(attempts') - 1
    BY DEF Settled
  <1>4. pc' \in {"asking", "answering"} /\ attempts' # <<>> =>
           gate' = FallbackReason(attempts'[Len(attempts')])
    BY DEF Settled
  <1> QED BY <1>1, <1>2, <1>3, <1>4 DEF Settled

\* Every step keeps what the receipt will say settled.
LEMMA SettledNext == TypeInv /\ Carried /\ Settled /\ [Next]_vars => Settled'
  <1> SUFFICES ASSUME TypeInv, Carried, Settled, [Next]_vars PROVE Settled'
    OBVIOUS
  <1>a. PICK n \in Nat : n = Len(attempts) /\ DOMAIN attempts = 1 .. n
    BY Appended DEF TypeInv, Counts
  <1>b. PICK m \in Nat : m = Len(links) /\ DOMAIN links = 1 .. m /\ m <= n
    BY <1>a, Appended DEF TypeInv, TypeOK, Counts
  <1>1. CASE Ask
    <2>1. /\ UNCHANGED <<options, route, attempts, promoted, gate, accepted>>
          /\ pc = "asking" /\ pc' = "answering"
          /\ links' = IF attempts = <<>> THEN links ELSE Append(links, Link)
      BY <1>1 DEF Ask
    <2>2. CASE attempts = <<>>
      <3>1. links' = links
        BY <2>1, <2>2
      <3>2. \A i \in DOMAIN links' : LinkStands(i)'
        BY <2>1, <3>1 DEF Settled, LinkStands
      <3>3. AcceptedStands'
        BY <2>1 DEF Settled, AcceptedStands
      <3> QED BY <2>1, <2>2, <3>2, <3>3 DEF Settled
    <2>3. CASE attempts # <<>>
      <3>1. m = n - 1 /\ n > 0
        BY <1>a, <1>b, <2>1, <2>3 DEF TypeInv, Counts
      <3>2. /\ links' = Append(links, Link) /\ DOMAIN links' = 1 .. n
            /\ \A i \in 1 .. m : links'[i] = links[i]
            /\ links'[n] = Link
        BY <1>b, <2>1, <2>3, <3>1, Appended DEF TypeInv, Counts
      <3>3. \A i \in 1 .. m : LinkStands(i)'
        <4>1. TAKE i \in 1 .. m
        <4>2. LinkStands(i)
          BY <1>b DEF Settled
        <4>3. links'[i] = links[i] /\ UNCHANGED <<attempts, route>>
          BY <2>1, <3>2
        <4> QED BY <4>2, <4>3 DEF LinkStands
      <3>4. LinkStands(n)'
        <4>1. /\ Link.from = n /\ Link.to = n + 1 /\ Link.reason = gate
              /\ Link.fragments = {p.fragment : p \in promoted}
              /\ Link.kind = IF attempts[n].route = route THEN "retry" ELSE "route-fallback"
          BY <1>a DEF Link, Number
        <4>2. gate = FallbackReason(attempts[n])
          BY <1>a, <2>1, <2>3 DEF Settled
        <4>3. {p.fragment : p \in promoted} = EvidenceUpTo(attempts, n)
          BY <1>a DEF Carried
        <4> QED BY <1>a, <2>1, <3>2, <4>1, <4>2, <4>3 DEF LinkStands
      <3>5. \A i \in DOMAIN links' : LinkStands(i)'
        BY <3>1, <3>2, <3>3, <3>4
      <3>6. AcceptedStands'
        BY <2>1 DEF Settled, AcceptedStands
      <3>7. gate' = FallbackReason(attempts'[Len(attempts')])
        BY <2>1, <2>3 DEF Settled
      <3> QED BY <2>1, <3>5, <3>6, <3>7 DEF Settled
    <2> QED BY <2>2, <2>3
  <1>2. CASE AskRaises
    BY <1>2, SettledStays DEF AskRaises
  <1>3. ASSUME NEW r \in Responses, Answer(r)
        PROVE  Settled'
    <2>1. PICK x : AnswerGives(x)
      BY <1>3, Answered
    <2>2. /\ Len(attempts') = n + 1 /\ DOMAIN attempts' = 1 .. n + 1
          /\ \A i \in 1 .. n : attempts'[i] = attempts[i]
          /\ attempts'[n + 1] = x
      BY <2>1, <1>a, Appended DEF TypeInv, Counts, AnswerGives
    <2>3. /\ pc = "answering" /\ UNCHANGED <<options, links>>
          /\ m = n /\ accepted = 0
      BY <1>a, <1>b, <2>1 DEF AnswerGives, Settled, AcceptedStands, TypeInv, Counts
    <2>4. pc' \in {"asking", "writing"} /\ attempts' # <<>>
      BY <2>1, <2>2, <1>a DEF AnswerGives, GoOn
    <2>5. \A i \in DOMAIN attempts' : /\ Judged(options', attempts'[i], i)
                                     /\ attempts'[i].route \in DOMAIN options'.routes
      <3>1. Judged(options, x, n + 1) /\ x.route \in DOMAIN options.routes
        BY <1>a, <2>1 DEF AnswerGives, Number, TypeInv, TypeOK
      <3>2. \A i \in 1 .. n : /\ Judged(options, attempts[i], i)
                             /\ attempts[i].route \in DOMAIN options.routes
        BY <1>a DEF Settled
      <3>3. options' = options
        BY <2>3
      <3> QED BY <2>2, <3>1, <3>2, <3>3
    <2>6. promoted' = UNION {attempts'[i].promoted : i \in DOMAIN attempts'}
      <3>1. promoted = UNION {attempts[i].promoted : i \in 1 .. n}
        BY <1>a DEF Settled
      <3>2. {attempts'[i].promoted : i \in 1 .. n + 1} =
               {attempts[i].promoted : i \in 1 .. n} \cup {x.promoted}
        <4>1. 1 .. n + 1 = (1 .. n) \cup {n + 1}
          OBVIOUS
        <4> QED BY <2>2, <4>1
      <3> QED BY <2>1, <2>2, <3>1, <3>2 DEF AnswerGives
    <2>7. \A i \in DOMAIN links' : LinkStands(i)'
      <3>1. \A i \in 1 .. n : EvidenceUpTo(attempts', i) = EvidenceUpTo(attempts, i)
        <4>1. TAKE i \in 1 .. n
        <4>2. PICK s, t : s = attempts' /\ t = attempts
          OBVIOUS
        <4>3. \A j \in 1 .. i : s[j] = t[j]
          BY <2>2, <4>2
        <4> QED BY <4>2, <4>3, EvidenceOfPrefix
      <3>2. ASSUME NEW i \in 1 .. n
            PROVE  LinkStands(i)'
        <4>1. LinkStands(i) /\ EvidenceUpTo(attempts', i) = EvidenceUpTo(attempts, i)
          BY <1>b, <2>3, <3>1 DEF Settled
        <4>2. attempts'[i + 1].route = IF i = Len(attempts) THEN route ELSE attempts[i + 1].route
          BY <1>a, <2>1, <2>2 DEF AnswerGives
        <4>3. i # Len(attempts') /\ attempts'[i] = attempts[i] /\ links' = links
          BY <1>a, <2>2, <2>3
        <4> QED BY <4>1, <4>2, <4>3 DEF LinkStands
      <3> QED BY <1>b, <2>3, <3>2
    <2>8. pc' \in {"asking", "answering"} => gate' = FallbackReason(attempts'[Len(attempts')])
      <3>1. CASE x.result = "accepted"
        BY <2>1, <3>1 DEF AnswerGives, GoOn
      <3>2. CASE x.result # "accepted"
        BY <2>1, <2>2, <3>2 DEF AnswerGives
      <3> QED BY <3>1, <3>2
    <2>9. AcceptedStands'
      <3>1. CASE x.result = "accepted"
        <4>1. accepted' = n + 1 /\ pc' = "writing" /\ route' = route
          BY <1>a, <2>1, <3>1 DEF AnswerGives, GoOn, Number
        <4> QED BY <1>a, <2>1, <2>2, <3>1, <4>1 DEF AcceptedStands, AnswerGives
      <3>2. CASE x.result # "accepted"
        <4>1. accepted' = 0
          BY <2>1, <2>3, <3>2 DEF AnswerGives
        <4>2. \A i \in 1 .. n : attempts[i].result # "accepted"
          BY <1>a, <2>3 DEF Settled, AcceptedStands
        <4> QED BY <2>2, <3>2, <4>1, <4>2 DEF AcceptedStands
      <3> QED BY <3>1, <3>2
    <2>10. Len(links') = Len(attempts') - 1
      BY <1>b, <2>2, <2>3
    <2> QED BY <2>4, <2>5, <2>6, <2>7, <2>8, <2>9, <2>10 DEF Settled
  <1>4. CASE WriteReceipt
    BY <1>4, SettledStays DEF WriteReceipt, Write
  <1>5. CASE CheckReceipt
    BY <1>5, SettledStays DEF CheckReceipt
  <1>6. CASE Alter
    BY <1>6, SettledStays DEF Alter
  <1>7. CASE Crash
    BY <1>7, SettledStays DEF Crash
  <1>8. CASE CrashInWrite
    BY <1>8, SettledStays DEF CrashInWrite, Write
  <1>9. CASE UNCHANGED vars
    BY <1>9, SettledStays DEF vars
  <1> QED BY <1>1, <1>2, <1>3, <1>4, <1>5, <1>6, <1>7, <1>8, <1>9 DEF Next, Ended

\* What the verifier derives from attempt i of the receipt is what was promoted from it.
LEMMA ReproducedIs ==
    ASSUME Settled, NEW R, R.attempts = attempts, R.declare = options.declare,
           NEW i \in DOMAIN attempts
    PROVE  Reproduced(R, i) = attempts[i].promoted
  <1>1. Judged(options, attempts[i], i)
    BY DEF Settled
  <1>2. CASE attempts[i].evaluated /\ attempts[i].evaluation.status = "incomplete"
    BY <1>1, <1>2 DEF Judged, Reproduced
  <1>3. CASE ~(attempts[i].evaluated /\ attempts[i].evaluation.status = "incomplete")
    <2>1. attempts[i].evaluation.status # "incomplete"
      BY <1>1, <1>3 DEF Judged, NotEvaluated, Rejected
    <2> QED BY <1>1, <1>3, <2>1 DEF Judged, Reproduced
  <1> QED BY <1>2, <1>3

\* The fragments promoted up to attempt i are the evidence up to it.
LEMMA PromotedUpTo ==
    ASSUME Settled, NEW i \in Nat, 1 .. i \subseteq DOMAIN attempts
    PROVE  {p.fragment : p \in UNION {attempts[j].promoted : j \in 1 .. i}} =
              EvidenceUpTo(attempts, i)
  <1>1. \A j \in 1 .. i : {p.fragment : p \in attempts[j].promoted} =
                              IF attempts[j].evaluation.status = "incomplete"
                              THEN attempts[j].evaluation.fragments ELSE {}
    <2>1. TAKE j \in 1 .. i
    <2>2. Judged(options, attempts[j], j)
      BY DEF Settled
    <2>3. CASE attempts[j].evaluation.status = "incomplete"
      <3>1. PICK S, k, P : /\ S = attempts[j].evaluation.fragments /\ k = attempts[j].route
                           /\ P = attempts[j].promoted
        OBVIOUS
      <3>2. P = {[fragment |-> f, attempt |-> j, route |-> k] : f \in S}
        BY <2>2, <2>3, <3>1 DEF Judged
      <3>3. {p.fragment : p \in P} = S
        BY <3>2, FragmentsOf, SMTT(30)
      <3> QED BY <2>3, <3>1, <3>3
    <2>4. CASE attempts[j].evaluation.status # "incomplete"
      BY <2>2, <2>4 DEF Judged
    <2> QED BY <2>3, <2>4
  <1> DEFINE L == {p.fragment : p \in UNION {attempts[j].promoted : j \in 1 .. i}}
  <1>2. ASSUME NEW g \in L
        PROVE  g \in EvidenceUpTo(attempts, i)
    <2>1. PICK j \in 1 .. i : \E p \in attempts[j].promoted : g = p.fragment
      BY <1>2
    <2>2. g \in {p.fragment : p \in attempts[j].promoted}
      BY <2>1
    <2>3. attempts[j].evaluation.status = "incomplete" /\ g \in attempts[j].evaluation.fragments
      BY <1>1, <2>2
    <2> QED BY <2>3 DEF EvidenceUpTo
  <1>3. ASSUME NEW g \in EvidenceUpTo(attempts, i)
        PROVE  g \in L
    <2>1. PICK j \in 1 .. i : /\ attempts[j].evaluation.status = "incomplete"
                              /\ g \in attempts[j].evaluation.fragments
      BY <1>3 DEF EvidenceUpTo
    <2>2. g \in {p.fragment : p \in attempts[j].promoted}
      BY <1>1, <2>1
    <2> QED BY <2>2
  <1> QED BY <1>2, <1>3

\* The receipt of a run passes each check of the verifier.
LEMMA ReceiptPasses ==
    ASSUME TypeInv, Carried, Tracked, Settled, pc = "writing", options.source # "inline"
    PROVE  ReceiptViolations(TheReceipt) = {}
  <1> DEFINE R == TheReceipt
             review == IF accepted = 0 THEN NoReview ELSE attempts[accepted].evaluation.review
  <1>1. /\ R.result = IF accepted = 0 THEN "unavailable" ELSE "accepted"
        /\ R.accepted = accepted /\ R.attempts = attempts /\ R.routes = options.routes
        /\ R.declare = options.declare /\ (R.pathKnown <=> options.source # "inline")
        /\ (R.unqualified <=> accepted # 0 /\ options.routes[route] = "kiro")
        /\ R.relationships = links
        /\ R.consolidated = Consolidate(review, promoted, accepted, options.declare)
        /\ R.verdict = review.verdict /\ R.findings = review.findings
    BY DEF TheReceipt
  <1>2. PICK n \in Nat : n = Len(attempts) /\ DOMAIN attempts = 1 .. n
    BY Appended DEF TypeInv, Counts
  <1>3. n > 0 /\ Len(links) = n - 1 /\ DOMAIN links = 1 .. n - 1
    BY <1>2, Appended DEF Settled, TypeInv, Counts
  <1> HIDE DEF R
  <1>4. \A i \in 1 .. n : Judged(options, attempts[i], i)
    BY <1>2 DEF Settled
  <1>5. \A i \in 1 .. n : Reproduced(R, i) = attempts[i].promoted
    BY <1>1, <1>2, ReproducedIs
  <1>6. accepted # 0 =>
          /\ accepted = n /\ attempts[n].result = "accepted" /\ attempts[n].route = route
          /\ attempts[n].evaluated /\ attempts[n].evaluation.status = "complete"
    <2> SUFFICES ASSUME accepted # 0
                 PROVE  /\ accepted = n /\ attempts[n].result = "accepted"
                        /\ attempts[n].route = route
                        /\ attempts[n].evaluated /\ attempts[n].evaluation.status = "complete"
      OBVIOUS
    <2>1. accepted = n /\ attempts[n].result = "accepted" /\ attempts[n].route = route
      BY <1>2 DEF Settled, AcceptedStands
    <2>2. Judged(options, attempts[n], n)
      BY <1>3, <1>4
    <2>3. attempts[n].evaluated
      BY <2>1, <2>2 DEF Judged, PregateResults
    <2>4. attempts[n].evaluation.status = "complete"
      BY <2>1, <2>2, <2>3 DEF Judged, Sound, EvaluationStands
    <2> QED BY <2>1, <2>3, <2>4
  <1> DEFINE promotedThere == UNION {Reproduced(R, i) : i \in DOMAIN R.attempts}
             thereAccepted == R.accepted # 0
             route_ == \A i \in DOMAIN R.attempts :
                          /\ R.attempts[i].route \in DOMAIN R.routes
                          /\ R.attempts[i].transport = R.routes[R.attempts[i].route]
             evaluation_ == \A i \in DOMAIN R.attempts :
                               IF R.attempts[i].evaluated
                               THEN R.pathKnown /\ EvaluationStands(R.attempts[i], R.declare)
                               ELSE R.attempts[i].result # "incomplete"
             promoted_ == \A i \in DOMAIN R.attempts : R.attempts[i].promoted = Reproduced(R, i)
             qualified_ == R.unqualified =
                              (thereAccepted /\ R.attempts[R.accepted].transport = "kiro")
             links_ == /\ Len(R.relationships) = Len(R.attempts) - 1
                       /\ \A i \in DOMAIN R.relationships : RelationshipStands(R, i)
             consolidated_ ==
               R.consolidated =
                 Consolidate(IF thereAccepted THEN R.attempts[R.accepted].evaluation.review
                             ELSE NoReview,
                             promotedThere, R.accepted, R.declare)
  <1>7. promotedThere = promoted
    <2>1. {Reproduced(R, i) : i \in 1 .. n} = {attempts[i].promoted : i \in 1 .. n}
      BY <1>5
    <2> QED BY <1>1, <1>2, <2>1 DEF Settled
  <1>8. R.attempts # <<>>
    BY <1>1, <1>2, <1>3
  <1>9. route_
    BY ZenonT(60), <1>1, <1>2, <1>4 DEF Settled, Judged
  <1>10. evaluation_
    <2>1. \A i \in 1 .. n : IF attempts[i].evaluated
                            THEN EvaluationStands(attempts[i], options.declare)
                            ELSE attempts[i].result # "incomplete"
      BY <1>4 DEF Judged, PregateResults
    <2> QED BY <1>1, <1>2, <2>1
  <1>11. promoted_
    BY <1>1, <1>2, <1>5
  <1>12. ResultStands(R)
    <2>1. CASE accepted = 0
      BY <1>1, <2>1 DEF ResultStands, Settled, AcceptedStands
    <2>2. CASE accepted # 0
      <3>1. \A i \in 1 .. n - 1 : attempts[i].result # "accepted"
        BY <1>2 DEF Tracked, InTurn
      <3>2. {i \in DOMAIN attempts : attempts[i].result = "accepted"} = {n}
        BY <1>2, <1>3, <1>6, <2>2, <3>1
      <3>3. attempts[n].findings = attempts[n].evaluation.review.findings
        <4>1. Judged(options, attempts[n], n)
          BY <1>3, <1>4
        <4> QED BY <4>1 DEF Judged
      <3>4. review = attempts[n].evaluation.review
        BY <1>6, <2>2
      <3> HIDE DEF review
      <3> QED BY <1>1, <1>2, <1>6, <2>2, <3>2, <3>3, <3>4 DEF ResultStands
    <2> QED BY <2>1, <2>2
  <1>13. qualified_
    <2>1. accepted # 0 => attempts[accepted].transport = options.routes[route]
      <3>1. Judged(options, attempts[n], n)
        BY <1>3, <1>4
      <3> QED BY <1>6, <3>1 DEF Judged
    <2>2. (R.unqualified <=> (thereAccepted /\ R.attempts[R.accepted].transport = "kiro"))
          /\ R.unqualified \in BOOLEAN
      <3>1. R.unqualified \in BOOLEAN
        BY DEF R, TheReceipt
      <3> QED BY <1>1, <2>1, <3>1
    <2> QED BY <2>2
  <1>14. links_
    <2>1. ASSUME NEW i \in 1 .. n - 1
          PROVE  RelationshipStands(R, i)
      <3>1. LinkStands(i) /\ i # Len(attempts) /\ i \in Nat /\ 1 .. i \subseteq 1 .. n
        BY <1>2, <1>3, <2>1 DEF Settled
      <3>2. {Reproduced(R, j) : j \in 1 .. i} = {attempts[j].promoted : j \in 1 .. i}
        BY <1>5, <3>1
      <3>3. {p.fragment : p \in UNION {Reproduced(R, j) : j \in 1 .. i}} =
               EvidenceUpTo(attempts, i)
        BY <1>2, <3>1, <3>2, PromotedUpTo
      <3> QED BY <1>1, <3>1, <3>3 DEF LinkStands, RelationshipStands
    <2> QED BY <1>1, <1>2, <1>3, <2>1
  <1>15. consolidated_
    BY <1>1, <1>7
  <1> DEFINE checks ==
        [receiptSource |-> R.pathKnown, attempts |-> R.attempts # <<>>, attemptRoute |-> route_,
         contractEvaluation |-> evaluation_, promotedFragments |-> promoted_,
         acceptedAttempt |-> ResultStands(R), backendQualification |-> qualified_,
         fallbackRelationships |-> links_, consolidatedReview |-> consolidated_]
  <1>16. ReceiptViolations(R) = {code \in DOMAIN checks : ~checks[code]}
    BY DEF ReceiptViolations
  <1>17. R.pathKnown
    BY <1>1
  <1> HIDE DEF route_, evaluation_, promoted_, qualified_, links_, consolidated_
  <1>18. \A code \in DOMAIN checks : checks[code]
    <2> DEFINE a1 == R.pathKnown
               a2 == R.attempts # <<>>
               a3 == ResultStands(R)
    <2>1. a1 /\ a2 /\ a3
      BY <1>8, <1>12, <1>17
    <2>2. checks = [receiptSource |-> a1, attempts |-> a2, attemptRoute |-> route_,
                    contractEvaluation |-> evaluation_, promotedFragments |-> promoted_,
                    acceptedAttempt |-> a3, backendQualification |-> qualified_,
                    fallbackRelationships |-> links_, consolidatedReview |-> consolidated_]
      OBVIOUS
    <2> HIDE DEF a1, a2, a3, checks
    <2>3. DOMAIN checks = {"receiptSource", "attempts", "attemptRoute", "contractEvaluation",
                           "promotedFragments", "acceptedAttempt", "backendQualification",
                           "fallbackRelationships", "consolidatedReview"}
      BY <2>2
    <2>4. /\ checks["receiptSource"] /\ checks["attempts"] /\ checks["acceptedAttempt"]
          /\ checks["attemptRoute"] /\ checks["contractEvaluation"]
      BY <1>9, <1>10, <2>1, <2>2
    <2>5. /\ checks["promotedFragments"] /\ checks["backendQualification"]
          /\ checks["fallbackRelationships"] /\ checks["consolidatedReview"]
      BY <1>11, <1>13, <1>14, <1>15, <2>2
    <2> QED BY <2>3, <2>4, <2>5
  <1> QED BY <1>16, <1>18 DEF R

\* SetToSeq lists a finite set.
LEMMA Listed ==
    ASSUME NEW S, IsFiniteSet(S)
    PROVE  /\ SetToSeq(S) \in Seq(S)
           /\ Range(SetToSeq(S)) = S
           /\ SetToSeq(S) = <<>> <=> S = {}
  <1> DEFINE n == Cardinality(S)
             s == SetToSeq(S)
  <1>1. n \in Nat /\ Bijection(1 .. n, S) # {}
    BY FS_CardinalityType DEF ExistsBijection
  <1>2. PICK f \in [1 .. n -> S] : IsInjective(f)
    BY <1>1 DEF Bijection, Injection
  <1>3. s \in [1 .. n -> S] /\ IsInjective(s)
    BY <1>2 DEF SetToSeq
  <1> HIDE DEF s
  <1>4. s \in Injection(1 .. n, S)
    BY <1>3 DEF Injection
  <1>5. Cardinality(1 .. n) = n
    BY <1>1, FS_Interval
  <1>6. s \in Surjection(1 .. n, S)
    BY <1>4, <1>5, FS_Injection
  <1>7. Range(s) = S
    BY <1>3, <1>6 DEF Surjection, Range
  <1>8. s \in Seq(S) /\ DOMAIN s = 1 .. n /\ Len(s) = n
    BY <1>1, <1>3
  <1>9. s = <<>> <=> S = {}
    <2>1. s = <<>> <=> n = 0
      BY <1>1, <1>8
    <2>2. n = 0 <=> S = {}
      BY <1>1, FS_EmptySet
    <2> QED BY <2>1, <2>2
  <1> QED BY <1>7, <1>8, <1>9 DEF s

\* A normalized review is normalized to itself, so that the consolidation accepts it.
LEMMA Renormalized ==
    ASSUME NEW e, NEW p, NEW declare, Sound(e, p, declare), e.status = "complete"
    PROVE  Evaluate(Restated(e.review), declare).review = e.review
  <1> DEFINE review == e.review
             q == Restated(review)
  <1>1. /\ Required(declare) = e.covered
        /\ "reviewedFiles" \in Required(declare) => review.declared
        /\ review.verdict \in Verdicts
        /\ (review.verdict = "approved") <=> (review.findings = {})
        /\ review.findings = FindingsOf(e.fragments)
        /\ review.declared \in BOOLEAN
        /\ IsFiniteSet(review.findings)
        /\ review = [verdict |-> review.verdict, findings |-> review.findings,
                     declared |-> review.declared]
        /\ \A g \in e.fragments : g[1] \in Findings
    BY DEF Sound
  <1>2. review.findings \subseteq Findings
    BY <1>1 DEF FindingsOf
  <1>3. /\ q.shape = "object" /\ q.verdict = review.verdict /\ ~q.extra /\ q.list = "list"
        /\ q.items = SetToSeq(review.findings)
        /\ q.files = IF review.declared THEN "all" ELSE "none"
    BY DEF Restated
  <1> HIDE DEF review, q
  <1>4. /\ q.items \in Seq(review.findings) /\ Range(q.items) = review.findings
        /\ q.items = <<>> <=> review.findings = {}
    BY <1>1, <1>3, Listed
  <1>5. q.items \in Seq(Findings \cup BadFindings)
    <2>1. DOMAIN q.items = 1 .. Len(q.items) /\ Len(q.items) \in Nat
          /\ \A i \in DOMAIN q.items : q.items[i] \in review.findings
      BY <1>4
    <2> QED BY <1>2, <1>4, <2>1
  <1>6. \A i \in DOMAIN q.items : q.items[i] \in Findings
    BY <1>2, <1>4 DEF Range
  <1>7. VerdictAgrees(q)
    BY <1>1, <1>3, <1>4 DEF VerdictAgrees
  <1>8. DeclarationHolds(q, declare)
    BY <1>1, <1>3 DEF DeclarationHolds, Required
  <1>9. Required(declare) \subseteq Fields(q)
    <2>1. q.verdict # "none" /\ q.list # "none"
      BY <1>1, <1>3 DEF Verdicts
    <2>2. declare => q.files # "none"
      BY <1>1, <1>3 DEF Required
    <2> QED BY <2>1, <2>2 DEF Required, Fields
  <1>10. Violation(q, declare) = "none"
    BY <1>3, <1>5, <1>6, <1>7, <1>8, <1>9, NoViolation
  <1>11. Evaluate(q, declare).review =
            [verdict |-> q.verdict, findings |-> FindingsOf(Fragments(q)),
             declared |-> q.files = "all"]
    BY <1>3, <1>10 DEF Evaluate
  <1>12. FindingsOf(Fragments(q)) = review.findings
    BY <1>2, <1>4, FindingsOfAnswer
  <1>13. (q.files = "all") = review.declared
    BY <1>1, <1>3
  <1> QED BY <1>1, <1>3, <1>11, <1>12, <1>13 DEF review, q

\* What the receipt says of an accepted review.
LEMMA Accepted ==
    ASSUME TypeInv, Settled, accepted # 0
    PROVE  /\ accepted = Len(attempts) /\ accepted \in DOMAIN attempts
           /\ LET review == attempts[accepted].evaluation.review IN
              /\ Evaluate(Restated(review), options.declare).review = review
              /\ review.findings = FindingsOf(attempts[accepted].evaluation.fragments)
  <1>1. accepted = Len(attempts) /\ attempts[accepted].result = "accepted"
    BY DEF Settled, AcceptedStands
  <1>2. accepted \in DOMAIN attempts
    <2>1. Len(attempts) \in Nat /\ DOMAIN attempts = 1 .. Len(attempts)
      BY Appended DEF TypeInv, Counts
    <2> QED BY <1>1, <2>1
  <1>3. Judged(options, attempts[accepted], accepted)
    BY <1>2 DEF Settled
  <1>4. attempts[accepted].evaluated
    BY <1>1, <1>3 DEF Judged, PregateResults
  <1>5. PICK e, q : e = attempts[accepted].evaluation /\ q = attempts[accepted].payload
    OBVIOUS
  <1>6. Sound(e, q, options.declare) /\ e.status = "complete"
    BY <1>1, <1>3, <1>4, <1>5 DEF Judged, Sound, EvaluationStands
  <1>7. FindingsOf(e.fragments) = e.review.findings
    BY <1>6 DEF Sound
  <1>8. PICK d : d = options.declare
    OBVIOUS
  <1>9. Evaluate(Restated(e.review), d).review = e.review
    BY <1>6, <1>8, Renormalized
  <1> QED BY <1>1, <1>2, <1>5, <1>7, <1>8, <1>9

\* The consolidated review of the receipt, in terms of the attempts.
LEMMA ConsolidatedIs ==
    ASSUME TypeInv, Tracked, Settled
    PROVE  LET c == TheReceipt.consolidated IN
           /\ accepted # 0 =>
                /\ c.status = "accepted"
                /\ c.verdict = attempts[Len(attempts)].evaluation.review.verdict
           /\ {f.finding : f \in c.findings} = Reported
           /\ c.approved => Reported = {}
  <1> DEFINE review == IF accepted = 0 THEN NoReview ELSE attempts[accepted].evaluation.review
             ok == /\ accepted # 0
                   /\ Evaluate(Restated(review), options.declare).review = review
             kept == IF ok THEN review.findings ELSE {}
             listed == kept \cup {p.fragment[1] : p \in promoted}
             c == TheReceipt.consolidated
  <1>1. ok <=> accepted # 0
    BY Accepted
  <1>2. kept = IF accepted = 0 THEN {} ELSE FindingsOf(attempts[accepted].evaluation.fragments)
    BY <1>1, Accepted
  <1>3. /\ c.status = IF ok THEN "accepted" ELSE "unavailable"
        /\ c.verdict = IF ok THEN review.verdict ELSE "none"
        /\ c.approved <=> ok /\ Approves(review, c.findings)
        /\ c.findings =
             {[finding |-> f, confirmed |-> f \in kept,
               sources |-> {[attempt |-> p.attempt, fragment |-> p.fragment] :
                              p \in {q \in promoted : q.fragment[1] = f}}] : f \in listed}
    BY DEF TheReceipt, Consolidate
  <1>4. {f.finding : f \in c.findings} = listed
    <2> HIDE DEF c, kept, listed
    <2>1. ASSUME NEW f \in listed
          PROVE  \E g \in c.findings : g.finding = f
      <3> DEFINE sources == {[attempt |-> p.attempt, fragment |-> p.fragment] :
                                p \in {q \in promoted : q.fragment[1] = f}}
                 g == [finding |-> f, confirmed |-> f \in kept, sources |-> sources]
      <3>1. g \in c.findings
        BY <1>3
      <3>2. g.finding = f
        OBVIOUS
      <3> HIDE DEF g
      <3> QED BY <3>1, <3>2
    <2>2. \A g \in c.findings : g.finding \in listed
      BY <1>3
    <2> QED BY <2>1, <2>2
  <1> HIDE DEF c, kept, ok
  <1>5. ASSUME NEW f \in listed
        PROVE  f \in Reported
    <2>1. CASE f \in kept
      BY <1>2, <2>1, Accepted DEF Reported
    <2>2. CASE f \in {p.fragment[1] : p \in promoted}
      <3>1. PICK p \in promoted : f = p.fragment[1]
        BY <2>2
      <3>2. PICK i \in DOMAIN attempts : p \in attempts[i].promoted
        BY <3>1 DEF Settled
      <3>3. p.fragment \in attempts[i].evaluation.fragments
        <4>1. Judged(options, attempts[i], i)
          BY DEF Settled
        <4>2. attempts[i].promoted =
                 {[fragment |-> g, attempt |-> i, route |-> attempts[i].route] :
                     g \in attempts[i].evaluation.fragments}
          BY <3>2, <4>1 DEF Judged
        <4> QED BY <3>2, <4>2
      <3> QED BY <3>1, <3>2, <3>3 DEF Reported, FindingsOf
    <2> QED BY <2>1, <2>2
  <1>6. ASSUME NEW f \in Reported
        PROVE  f \in listed
    <2>1. PICK i \in DOMAIN attempts : f \in FindingsOf(attempts[i].evaluation.fragments)
      BY <1>6 DEF Reported
    <2>2. PICK g \in attempts[i].evaluation.fragments : f = g[1]
      BY <2>1 DEF FindingsOf
    <2>3. Judged(options, attempts[i], i)
      BY DEF Settled
    <2>4. attempts[i].evaluated
      BY <2>2, <2>3 DEF Judged, NotEvaluated, Rejected
    <2>5. attempts[i].evaluation.status \in {"complete", "incomplete"}
      BY <2>2, <2>3, <2>4 DEF Judged, Sound
    <2>6. CASE attempts[i].evaluation.status = "complete"
      <3>1. attempts[i].result = "accepted"
        BY <2>3, <2>4, <2>6 DEF Judged, EvaluationStands
      <3>2. accepted # 0
        BY <3>1 DEF Settled, AcceptedStands
      <3>3. i = accepted
        <4>1. accepted = Len(attempts) /\ DOMAIN attempts = 1 .. Len(attempts)
              /\ Len(attempts) \in Nat
          BY <3>2, Appended DEF Settled, AcceptedStands, TypeInv, Counts
        <4>2. i \notin 1 .. Len(attempts) - 1
          BY <3>1 DEF Tracked, InTurn
        <4> QED BY <4>1, <4>2
      <3> QED BY <1>2, <2>1, <3>2, <3>3
    <2>7. CASE attempts[i].evaluation.status = "incomplete"
      <3>1. \E p \in attempts[i].promoted : p.fragment = g
        <4> DEFINE p == [fragment |-> g, attempt |-> i, route |-> attempts[i].route]
        <4>1. p \in attempts[i].promoted
          BY <2>2, <2>3, <2>7 DEF Judged
        <4>2. p.fragment = g
          OBVIOUS
        <4> HIDE DEF p
        <4> QED BY <4>1, <4>2
      <3>2. attempts[i].promoted \subseteq promoted
        BY DEF Settled
      <3> QED BY <2>2, <3>1, <3>2
    <2> QED BY <2>5, <2>6, <2>7
  <1>7. listed = Reported
    BY <1>5, <1>6
  <1> HIDE DEF listed
  <1>8. c.approved => Reported = {}
    <2>1. c.approved => c.findings = {}
      BY <1>3 DEF Approves
    <2> QED BY <1>4, <1>7, <2>1
  <1> QED BY <1>1, <1>3, <1>4, <1>7, <1>8, Accepted DEF c

\* The file and the exit status tell what the run came to.
Filed ==
    /\ Written => receipt = TheReceipt /\ pc \in {"checking", "ended"}
    /\ ReceiptVerifies
    /\ exit \in {"accepted", "unavailable"} =>
          pc = "ended" /\ file = "whole" /\ receipt.result = exit

Run == TypeInv /\ Carried /\ Tracked /\ Settled /\ Filed

\* A run begins so.
LEMMA RunInit == Init => Run
  <1>1. Init => Filed
    BY DEF Init, Filed, Written, ReceiptVerifies
  <1> QED BY <1>1, TypeInit, CarriedInit, TrackedInit, SettledInit DEF Run

\* Every step keeps the file and the exit status true.
LEMMA FiledNext == Run /\ [Next]_vars => Filed'
  <1> SUFFICES ASSUME Run, [Next]_vars PROVE Filed'
    OBVIOUS
  <1>1. ASSUME UNCHANGED <<options, file, receipt>>,
               pc \in {"asking", "answering", "writing"},
               exit' \notin {"accepted", "unavailable"}
        PROVE  Filed'
    <2>1. file = "absent"
      BY <1>1 DEF Run, Tracked
    <2> QED BY <1>1, <2>1 DEF Filed, Written, ReceiptVerifies
  <1>2. exit \in {"accepted", "unavailable"} => pc = "ended"
    BY DEF Run, Filed
  <1>3. CASE Ask
    BY <1>1, <1>2, <1>3 DEF Ask
  <1>4. CASE AskRaises
    BY <1>1, <1>4 DEF AskRaises
  <1>5. ASSUME NEW r \in Responses, Answer(r)
        PROVE  Filed'
    BY <1>1, <1>2, <1>5 DEF Answer
  <1>6. ASSUME NEW state \in {"whole", "torn"}, Write(state), pc' \in {"checking", "ended"},
               exit' \notin {"accepted", "unavailable"}
        PROVE  Filed'
    <2>1. /\ receipt' = TheReceipt /\ pc = "writing"
          /\ UNCHANGED <<options, route, attempts, links, promoted, accepted>>
      BY <1>6 DEF Write
    <2>2. TheReceipt' = TheReceipt
      BY <2>1 DEF TheReceipt
    <2>3. options.source # "inline" => ReceiptViolations(TheReceipt) = {}
      BY <2>1, ReceiptPasses DEF Run
    <2>4. ReceiptVerifies'
      BY <2>1, <2>3 DEF ReceiptVerifies
    <2> QED BY <1>6, <2>1, <2>2, <2>4 DEF Filed
  <1>7. CASE CheckReceipt
    <2>1. /\ UNCHANGED <<options, route, attempts, links, promoted, accepted, file, receipt>>
          /\ pc' = "ended" /\ exit' = ExitStatus
      BY <1>7 DEF CheckReceipt
    <2>2. TheReceipt' = TheReceipt
      BY <2>1 DEF TheReceipt
    <2>3. exit' \in {"accepted", "unavailable"} =>
             file = "whole" /\ receipt.result = exit'
      <3>1. TheReceipt.result = IF accepted = 0 THEN "unavailable" ELSE "accepted"
        BY DEF TheReceipt
      <3>2. file = "whole" => receipt = TheReceipt
        BY DEF Run, Filed, Written
      <3> QED BY <2>1, <3>1, <3>2 DEF ExitStatus
    <2>4. ReceiptVerifies'
      BY <2>1 DEF ReceiptVerifies, Written, Run, Filed
    <2> QED BY <2>1, <2>2, <2>3, <2>4 DEF Filed, Written, Run
  <1>8. CASE Alter
    <2>1. /\ UNCHANGED <<options, route, attempts, links, promoted, accepted, receipt, pc, exit>>
          /\ pc = "checking" /\ file = "whole" /\ file' = "altered"
      BY <1>8 DEF Alter
    <2>2. TheReceipt' = TheReceipt
      BY <2>1 DEF TheReceipt
    <2>3. ReceiptVerifies'
      BY <2>1 DEF ReceiptVerifies, Written, Run, Filed
    <2> QED BY <1>2, <2>1, <2>2, <2>3 DEF Filed, Written, Run
  <1>9. CASE Crash
    <2>1. /\ UNCHANGED <<options, route, attempts, links, promoted, accepted, file, receipt>>
          /\ pc' = "ended" /\ exit' = "killed"
      BY <1>9 DEF Crash
    <2>2. TheReceipt' = TheReceipt
      BY <2>1 DEF TheReceipt
    <2>3. ReceiptVerifies'
      BY <2>1 DEF ReceiptVerifies, Written, Run, Filed
    <2> QED BY <2>1, <2>2, <2>3 DEF Filed, Written, Run
  <1>10. CASE WriteReceipt
    <2>1. Write("whole") /\ pc' = "checking" /\ exit' = exit /\ pc = "writing"
      BY <1>10 DEF WriteReceipt, Write
    <2> QED BY <1>2, <1>6, <2>1
  <1>11. CASE CrashInWrite
    BY <1>6, <1>11 DEF CrashInWrite
  <1>12. CASE UNCHANGED vars
    <2>1. UNCHANGED <<options, route, attempts, links, promoted, accepted, file, receipt, pc, exit>>
      BY <1>12 DEF vars
    <2>2. TheReceipt' = TheReceipt
      BY <2>1 DEF TheReceipt
    <2>3. ReceiptVerifies'
      BY <2>1 DEF ReceiptVerifies, Written, Run, Filed
    <2> QED BY <2>1, <2>2, <2>3 DEF Filed, Written, Run
  <1> QED BY <1>3, <1>4, <1>5, <1>7, <1>8, <1>9, <1>10, <1>11, <1>12 DEF Next, Ended

\* Every step keeps all of it,
LEMMA RunNext == Run /\ [Next]_vars => Run'
  BY FiledNext, TypeNext, CarriedNext, TrackedNext, SettledNext DEF Run

\* and so does the run.
LEMMA RunInvariance == Spec => []Run
  BY RunInit, RunNext, PTL DEF Spec

\* Whatever the run went through, the receipt it leaves verifies, and the exit status tells
\* what is in it (FormalRun's ReceiptHolds).
THEOREM ReceiptIsRight == Spec => []ReceiptHolds
  <1>1. Run => ReceiptHolds
    <2> SUFFICES ASSUME Run PROVE ExitTellsReceipt
      BY DEF Run, Filed, ReceiptHolds
    <2>1. exit \in {"accepted", "unavailable"} =>
             file = "whole" /\ receipt.result = exit /\ receipt = TheReceipt
      BY DEF Run, Filed, Written
    <2>2. ASSUME exit = "accepted"
          PROVE  /\ receipt.consolidated.status = "accepted"
                 /\ receipt.consolidated.verdict =
                       attempts[Len(attempts)].evaluation.review.verdict
      <3>1. accepted # 0
        BY <2>1, <2>2 DEF TheReceipt
      <3> QED BY <2>1, <2>2, <3>1, ConsolidatedIs DEF Run
    <2> QED BY <2>1, <2>2 DEF ExitTellsReceipt
  <1> QED BY <1>1, RunInvariance, PTL

-----------------------------------------------------------------------------
(* The run as an evidence ledger.                                          *)

Evidence == IF Written THEN {c.finding : c \in receipt.consolidated.findings} ELSE Reported

Decision == IF ~Written THEN "open"
            ELSE IF receipt.consolidated.approved THEN "approved"
            ELSE IF receipt.result = "accepted" THEN "not approved" ELSE "unavailable"

\* Before and after the receipt, the evidence is what the attempts reported.
LEMMA EvidenceIs == Run => Evidence = Reported
  BY ConsolidatedIs DEF Run, Filed, Evidence

\* An attempt adds valid findings to what was reported.
LEMMA ReportedGrows ==
    ASSUME Run, NEW x, AnswerGives(x)
    PROVE  \E new \in SUBSET Findings : Reported' = Reported \cup new
  <1>1. PICK n \in Nat : n = Len(attempts) /\ DOMAIN attempts = 1 .. n
    BY Appended DEF Run, TypeInv, Counts
  <1>2. /\ DOMAIN attempts' = 1 .. n + 1
        /\ \A i \in 1 .. n : attempts'[i] = attempts[i]
        /\ attempts'[n + 1] = x
    BY <1>1, Appended DEF Run, TypeInv, Counts, AnswerGives
  <1> DEFINE new == FindingsOf(x.evaluation.fragments)
  <1>3. new \subseteq Findings
    <2>1. \A g \in x.evaluation.fragments : g[1] \in Findings
      BY DEF AnswerGives, Judged, Sound, NotEvaluated, Rejected
    <2> QED BY <2>1 DEF FindingsOf
  <1>4. {FindingsOf(attempts'[i].evaluation.fragments) : i \in 1 .. n + 1} =
           {FindingsOf(attempts[i].evaluation.fragments) : i \in 1 .. n} \cup {new}
    <2>1. 1 .. n + 1 = (1 .. n) \cup {n + 1}
      OBVIOUS
    <2> QED BY <1>2, <2>1
  <1>5. Reported' = Reported \cup new
    BY <1>1, <1>2, <1>4 DEF Reported
  <1> QED BY <1>3, <1>5

\* A run keeps the promise of EvidenceLedger: no finding that was reported is lost, none is
\* invented, and nothing is approved over one (FormalRun's RefinesLedger).
THEOREM KeepsTheLedger == Spec => RefinesLedger
  <1>1. Init => Ledger!Init
    <2> SUFFICES ASSUME Init PROVE Ledger!Init
      OBVIOUS
    <2>1. attempts = <<>> /\ ~Written
      BY DEF Init, Written
    <2>2. Reported = {}
      <3>1. DOMAIN attempts = {}
        BY <2>1
      <3> QED BY <3>1 DEF Reported
    <2> QED BY <2>1, <2>2 DEF Ledger!Init
  <1>2. Run /\ Run' /\ [Next]_vars => [Ledger!Next]_(Ledger!ledgerVars)
    <2> SUFFICES ASSUME Run, Run', [Next]_vars
                 PROVE  \/ UNCHANGED <<Evidence, Decision>>
                        \/ /\ Decision = "open" /\ UNCHANGED Decision
                           /\ \E new \in SUBSET Findings : Evidence' = Evidence \cup new
                        \/ /\ Decision = "open" /\ UNCHANGED Evidence
                           /\ Decision' \in {"approved", "not approved", "unavailable"}
                           /\ Decision' = "approved" => Evidence = {}
      BY DEF Ledger!Next, Ledger!Report, Ledger!Decide, Ledger!ledgerVars, Evidence, Decision
    <2>e. Evidence = Reported /\ Evidence' = Reported'
      <3>1. (Run => Evidence = Reported)'
        BY EvidenceIs, PTL
      <3> QED BY <3>1, EvidenceIs
    <2>1. ASSUME UNCHANGED <<attempts, file, receipt>>
          PROVE  UNCHANGED <<Evidence, Decision>>
      BY <2>1 DEF Evidence, Decision, Reported, Written
    <2>2. ASSUME NEW r \in Responses, Answer(r)
          PROVE  /\ Decision = "open" /\ UNCHANGED Decision
                 /\ \E new \in SUBSET Findings : Evidence' = Evidence \cup new
      <3>1. PICK x : AnswerGives(x)
        BY <2>2, Answered
      <3>2. file = "absent" /\ file' = file
        BY <3>1 DEF Run, Tracked, AnswerGives
      <3> QED BY <2>e, <3>1, <3>2, ReportedGrows DEF Decision, Written
    <2>3. ASSUME NEW state \in {"whole", "torn"}, Write(state)
          PROVE  \/ UNCHANGED <<Evidence, Decision>>
                 \/ /\ Decision = "open" /\ UNCHANGED Evidence
                    /\ Decision' \in {"approved", "not approved", "unavailable"}
                    /\ Decision' = "approved" => Evidence = {}
      <3>1. /\ pc = "writing" /\ file' = state /\ receipt' = TheReceipt
            /\ attempts' = attempts
        BY <2>3 DEF Write
      <3>2. Decision = "open"
        BY <3>1 DEF Run, Tracked, Decision, Written
      <3>3. Evidence' = Evidence
        BY <2>e, <3>1 DEF Reported
      <3>4. Decision' \in {"open", "approved", "not approved", "unavailable"}
        BY DEF Decision
      <3>5. Decision' = "approved" => Evidence = {}
        <4>1. Decision' = "approved" => TheReceipt.consolidated.approved
          BY <3>1 DEF Decision
        <4>2. TheReceipt.consolidated.approved => Reported = {}
          BY ConsolidatedIs DEF Run
        <4> QED BY <2>e, <4>1, <4>2
      <3> QED BY <3>2, <3>3, <3>4, <3>5
    <2>4. CASE Ask
      BY <2>1, <2>4 DEF Ask
    <2>5. CASE AskRaises
      BY <2>1, <2>5 DEF AskRaises
    <2>6. CASE CheckReceipt
      BY <2>1, <2>6 DEF CheckReceipt
    <2>7. CASE Alter
      BY <2>7 DEF Alter, Evidence, Decision, Written
    <2>8. CASE Crash
      BY <2>1, <2>8 DEF Crash
    <2>9. CASE WriteReceipt
      BY <2>3, <2>9 DEF WriteReceipt
    <2>10. CASE CrashInWrite
      BY <2>3, <2>10 DEF CrashInWrite
    <2>11. CASE UNCHANGED vars
      BY <2>1, <2>11 DEF vars
    <2> QED BY <2>2, <2>4, <2>5, <2>6, <2>7, <2>8, <2>9, <2>10, <2>11 DEF Next, Ended
  <1> QED BY <1>1, <1>2, RunInvariance, PTL DEF Spec, RefinesLedger, Ledger!Spec

=============================================================================
