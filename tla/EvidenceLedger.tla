--------------------------- MODULE EvidenceLedger ---------------------------
(* What a formal run promises about its evidence: findings that a model    *)
(* reported completely are never lost, none is invented, and the run is    *)
(* decided once; it is approved only when nobody reported a finding.       *)
CONSTANT Findings

VARIABLES evidence,   \* findings reported so far
          decision    \* "open" until the run is decided

ledgerVars == <<evidence, decision>>

Init == evidence = {} /\ decision = "open"

Report(reported) ==
    /\ decision = "open"
    /\ evidence' = evidence \cup reported
    /\ UNCHANGED decision

Decide(d) ==
    /\ decision = "open"
    /\ d = "approved" => evidence = {}
    /\ decision' = d
    /\ UNCHANGED evidence

Next == \/ \E reported \in SUBSET Findings : Report(reported)
        \/ \E d \in {"approved", "not approved", "unavailable"} : Decide(d)

Spec == Init /\ [][Next]_ledgerVars
=============================================================================
