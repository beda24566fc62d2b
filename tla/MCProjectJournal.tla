-------------------------- MODULE MCProjectJournal --------------------------
(* ProjectJournal on three processes that share one journal.        *)
EXTENDS ProjectJournal, TLC

CONSTANTS p1, p2, p3, ours, foreign

\* p3 opens the journal without an identity: its first events are legacy ones.
OneWithout == p1 :> ours @@ p2 :> ours @@ p3 :> NoIdentity

OneForeigner == p1 :> ours @@ p2 :> ours @@ p3 :> foreign
=============================================================================
