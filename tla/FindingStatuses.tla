-------------------------- MODULE FindingStatuses ---------------------------
(***************************************************************************)
(* The status vocabulary of src/src/reviewctl/journal.py, shared by the    *)
(* journal and by the abstract lifecycle it implements.                    *)
(***************************************************************************)

\* A finding nobody has reported: findings() does not list it.
Unobserved == "unobserved"

\* FINDING_STATUSES
Statuses == {"open", "disputed", "fixed", "verified", "dismissed"}

\* FINDING_TRANSITIONS
FindingTransitions ==
    [open      |-> {"disputed", "fixed", "dismissed"},
     disputed  |-> {"open", "fixed", "dismissed"},
     fixed     |-> {"open", "disputed", "verified", "dismissed"},
     verified  |-> {"open", "dismissed"},
     dismissed |-> {"open"}]
=============================================================================
