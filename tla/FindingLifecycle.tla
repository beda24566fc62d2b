-------------------------- MODULE FindingLifecycle --------------------------
(***************************************************************************)
(* What the project journal promises the callers of findings() and of      *)
(* append_status_change(): every finding has one status, it is first       *)
(* observed and then moves only along the lifecycle table, and the journal *)
(* is either readable or, once and for all, reported as corrupt.           *)
(*                                                                         *)
(* ProjectJournal implements this module with locks, byte writes, rolled   *)
(* back appends and crashes; see RefinesLifecycle there.                   *)
(***************************************************************************)
EXTENDS FindingStatuses

CONSTANTS Findings      \* the finding ids reviewers may report

VARIABLES status,       \* finding -> its status, Unobserved before the first report
          readable      \* FALSE once a read reports journal_corrupt

vars == <<status, readable>>

-----------------------------------------------------------------------------
Init ==
    /\ status = [f \in Findings |-> Unobserved]
    /\ readable = TRUE

\* The first report of a finding fixes its initial status; later reports of it
\* add observations and leave the status alone.
Observe(f, s) ==
    /\ readable
    /\ status[f] = Unobserved
    /\ status' = [status EXCEPT ![f] = s]
    /\ UNCHANGED readable

Change(f, t) ==
    /\ readable
    /\ status[f] \in Statuses
    /\ t \in FindingTransitions[status[f]]
    /\ status' = [status EXCEPT ![f] = t]
    /\ UNCHANGED readable

\* findings_with_diagnostic() answers a corrupt journal with no finding at all.
Corrupt ==
    /\ readable
    /\ readable' = FALSE
    /\ status' = [f \in Findings |-> Unobserved]

Next ==
    \/ \E f \in Findings, s \in Statuses : Observe(f, s) \/ Change(f, s)
    \/ Corrupt

Spec == Init /\ [][Next]_vars
=============================================================================
