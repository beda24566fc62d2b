----------------------------- MODULE MCGitHubReview -----------------------------
(* GitHubReview on a few runs over one pull request.                       *)
EXTENDS GitHubReview, TLC

CONSTANTS f1, f2

\* Nothing tells one run from another.
RunSymmetry == Permutations(Runs)

Distinct == [f \in Findings |-> f]

\* Findings that differ in their severity or in their evidence only.
Twins == [f \in Findings |-> f1]

\* Runs one after the other, while other people push or write; runs with POSTs that
\* GitHub applies after their caller gave up, after a push or while another run is at
\* work; and runs of which an artifact is altered, with two inline findings of one id or
\* of two.
InTurnOrAtOnce ==
    {[sequential |-> TRUE, late |-> FALSE, pushes |-> 0, remarks |-> 2, edits |-> 0,
      inline |-> {f1}, names |-> Distinct],
     [sequential |-> FALSE, late |-> TRUE, pushes |-> 0, remarks |-> 0, edits |-> 0,
      inline |-> {f1}, names |-> Distinct]}
    \cup [sequential : {TRUE}, late : BOOLEAN, pushes : {1}, remarks : {0}, edits : {0},
          inline : {{f1}}, names : {Distinct}]
    \cup [sequential : {TRUE}, late : {FALSE}, pushes : {0}, remarks : {0}, edits : {1},
          inline : {Findings}, names : {Distinct, Twins}]

\* One answer that holds both twins, and nothing else that could go wrong.
TwinFindings ==
    {[sequential |-> TRUE, late |-> FALSE, pushes |-> 0, remarks |-> 0, edits |-> 0,
      inline |-> Findings, names |-> Twins]}
=============================================================================
