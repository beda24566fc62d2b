--------------------------- MODULE MCReviewClient ---------------------------
(* ReviewClient on two processes that are given the same review id, or may be. *)
EXTENDS ReviewClient

CONSTANTS f1, f2, r1, r2

\* Two findings that different attempts validate, and an answer that is no review.
SomeEvaluations ==
    {[status |-> "complete", findings |-> {f1}],
     [status |-> "incomplete", findings |-> {f2}],
     [status |-> "invalid", findings |-> {}]}

\* One id and three attempts, where retries and findings of several attempts meet;
\* two ids and one attempt, where two reviews that both finish share the journal.
OneIdOrTwo == {[ids |-> {r1}, attempts |-> 3], [ids |-> {r1, r2}, attempts |-> 1]}
=============================================================================
