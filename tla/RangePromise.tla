---------------------------- MODULE RangePromise ----------------------------
(***************************************************************************)
(* What a range review promises whoever reads its verdict.  Reviews happen *)
(* and stay; under each output path a verdict is given at most once, and   *)
(* stays.  One that is accepted rests on reviews that its own author had   *)
(* made: they show every section of the diff, none of them twice, and      *)
(* their findings are the verdict's findings.  It approves exactly if      *)
(* there are none.                                                         *)
(*                                                                         *)
(* RangeReview implements this module with chunks, children, receipts that *)
(* are found by what has changed, and files; see RefinesPromise there.     *)
(***************************************************************************)
CONSTANT Outputs

VARIABLES reviewed,     \* the reviews so far: [by, sections, findings]
          verdict       \* output -> [by, sections, findings, result]

promiseVars == <<reviewed, verdict>>

\* "lost": the path is taken by something that nobody can read.
Results  == {"lost", "incomplete", "accepted", "approved"}
Accepted == {"accepted", "approved"}

Undecided == [by |-> "nobody", sections |-> {}, findings |-> {}, result |-> "none"]

Init == reviewed = {} /\ verdict = [out \in Outputs |-> Undecided]

Review ==
    /\ \E review \in reviewed' : reviewed' = reviewed \cup {review}
    /\ UNCHANGED verdict

RestsOn(v, reviews) ==
    /\ \A review \in reviews : review.by = v.by
    /\ v.sections \subseteq UNION {review.sections : review \in reviews}
    /\ \A a, b \in reviews : a # b => a.sections \cap b.sections = {}
    /\ v.findings = UNION {review.findings : review \in reviews}
    /\ v.result = "approved" <=> v.findings = {}

Decide(out) ==
    /\ verdict[out] = Undecided
    /\ verdict'[out].result \in Results
    /\ verdict'[out].result \in Accepted =>
           \E reviews \in SUBSET reviewed : RestsOn(verdict'[out], reviews)
    /\ verdict' = [verdict EXCEPT ![out] = verdict'[out]]
    /\ UNCHANGED reviewed

Next == Review \/ \E out \in Outputs : Decide(out)

Spec == Init /\ [][Next]_promiseVars
=============================================================================
