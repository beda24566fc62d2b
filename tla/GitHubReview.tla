------------------------------ MODULE GitHubReview ------------------------------
(***************************************************************************)
(* The command `reviewctl github review` (src/src/reviewctl/project_cli.py,*)
(* github_review_project) from the pull request to the last journal event: *)
(*                                                                         *)
(*  - LocalGitHubSource.resolve (github.py) freezes a snapshot by several  *)
(*    calls, which the pull request and the local checkout may move        *)
(*    between;                                                             *)
(*  - ReviewClient.review reviews the diff of the snapshot and leaves a    *)
(*    packet, a response and a checkpoint;                                 *)
(*  - write_github_v2_receipt (github_receipt.py) promotes the checkpoint  *)
(*    to a formal receipt, out of what it reads back from those files;     *)
(*  - the findings of that receipt become a plan, which GitHubPublisher    *)
(*    publishes, and whose result is journalled event by event.            *)
(*                                                                         *)
(* Each run has a review id of its own: ReviewClient has the case of two   *)
(* reviews under one id.  Commits are numbered by the moves of the base    *)
(* and of the head; a diff is the pair of commits it lies between.         *)
(***************************************************************************)
EXTENDS GitHubPublisher

VARIABLES
    checkout,   \* the commit that the project directory has checked out
    files,      \* run -> the artifacts of its review, see Artifacts
    edits,      \* how many artifacts somebody has altered
    journal     \* the github_* events of the project journal

local == <<checkout, files, edits>>

vars == <<github, runs, local, journal>>

\* packet.json, response.md of the accepted attempt, the checkpoint receipt.json, and
\* github-review-receipt.json, the promoted receipt.
Artifacts == {"packet", "response", "checkpoint", "promoted"}

Init ==
    /\ timing \in Timings
    /\ pull = NoPull
    /\ comments = << >> /\ reviews = << >>
    /\ late = {}
    /\ remarks = 0
    /\ pc = [r \in Runs |-> "idle"]
    /\ job = [r \in Runs |-> NoJob]
    /\ result = [r \in Runs |-> "none"]
    /\ checkout = 0
    /\ files = [r \in Runs |-> [a \in Artifacts |-> "absent"]]
    /\ edits = 0
    /\ journal = << >>

\* Somebody checks another commit of the branch out.
Checkout ==
    /\ checkout' \in 0..pull.head \ {checkout}
    /\ UNCHANGED <<github, runs, files, edits, journal>>

\* Somebody or something changes an artifact without knowing its digests, before the
\* plan is made; later no run reads it.
Alter ==
    /\ edits < timing.edits
    /\ edits' = edits + 1
    /\ \E r \in Runs, a \in Artifacts :
           /\ pc[r] \in {"verify", "promote", "adopt"}
           /\ files[r][a] = "whole"
           /\ files' = [files EXCEPT ![r][a] = "altered"]
    /\ UNCHANGED <<github, runs, checkout, journal>>

-----------------------------------------------------------------------------
(* The snapshot.                                                           *)

\* The command ends: of its local variables only those that properties speak of stay.
Kept(r) == IF job[r].items = {} THEN NoJob
           ELSE [NoJob EXCEPT !.pull = job[r].pull, !.diff = job[r].diff,
                              !.answer = job[r].answer, !.attempts = job[r].attempts,
                              !.items = job[r].items, !.review = job[r].review]

\* The command ends with a diagnostic before there is anything to publish.
Stop(r, from) ==
    /\ Goto(r, from, "done")
    /\ With(r, NoJob)
    /\ result' = [result EXCEPT ![r] = "not_published"]

\* resolve begins: base and head are read.
Resolve(r) ==
    /\ timing.sequential => \A q \in Runs : pc[q] \in {"idle", "done"}
    /\ Goto(r, "idle", "checkout")
    /\ With(r, [NoJob EXCEPT !.pull = pull])
    /\ UNCHANGED <<github, result, local, journal>>

\* git rev-parse HEAD: github_checkout_stale, or the diff comes next.
CheckCheckout(r) ==
    /\ IF checkout = job[r].pull.head
       THEN Goto(r, "checkout", "diff") /\ UNCHANGED <<job, result>>
       ELSE Stop(r, "checkout")
    /\ UNCHANGED <<github, local, journal>>

\* The diff is what GitHub makes of base and head at the moment of this call.
FetchDiff(r) ==
    /\ Goto(r, "diff", "unchanged")
    /\ With(r, [job[r] EXCEPT !.diff = pull])
    /\ UNCHANGED <<github, result, local, journal>>

\* Seeded fault: only the head is compared.
CheckHeadUnchanged(r) ==
    /\ IF pull.head = job[r].pull.head
       THEN Goto(r, "unchanged", "review") /\ UNCHANGED <<job, result>>
       ELSE Stop(r, "unchanged")
    /\ UNCHANGED <<github, local, journal>>

\* Base and head are read again: github_source_identity_changed, or the snapshot stands.
\* The files are then read by the name of their commit, which no checkout moves.
CheckUnchanged(r) ==
    /\ IF pull = job[r].pull
       THEN Goto(r, "unchanged", "review") /\ UNCHANGED <<job, result>>
       ELSE Stop(r, "unchanged")
    /\ UNCHANGED <<github, local, journal>>

\* A call fails, times out or has too much output, the metadata are invalid, the
\* visibility is unknown, or the diff or a file cannot be taken.
SourceFails(r) ==
    /\ \E from \in {"checkout", "diff", "unchanged", "review"} : Stop(r, from)
    /\ UNCHANGED <<github, local, journal>>

-----------------------------------------------------------------------------
(* The review and its promotion.                                           *)

\* ReviewClient.review answers with these findings, accepted in its first or in a later
\* attempt; or it is not accepted, and the plan will not be executable.
Review(r) ==
    /\ \/ /\ Goto(r, "review", "verify")
          /\ \E answer \in SUBSET Findings, attempts \in 1..2 :
                 With(r, [job[r] EXCEPT !.answer = answer, !.attempts = attempts])
          /\ files' = [files EXCEPT ![r] = [a \in Artifacts |->
                           IF a = "promoted" THEN "absent" ELSE "whole"]]
       \/ /\ Goto(r, "review", "refuse")
          /\ UNCHANGED <<job, files>>
    /\ UNCHANGED <<github, result, checkout, edits, journal>>

Unaltered(r, artifacts) == \A a \in artifacts : files[r][a] = "whole"

\* What a reader takes for the findings of an artifact that should hold these: nobody
\* knows what an altered one says.
Said(r, a, findings) == IF files[r][a] = "altered" THEN Findings \ findings ELSE findings

\* verify_project_receipt: the digest of the checkpoint, and of the response it binds.
Verify(r) ==
    /\ Goto(r, "verify",
            IF Unaltered(r, {"checkpoint", "response"}) THEN "promote" ELSE "refuse")
    /\ UNCHANGED <<github, job, result, local, journal>>

\* write_github_v2_receipt verifies the checkpoint again, wants it accepted by its only
\* attempt, wants packet and response to be those of the snapshot and of the
\* checkpoint, evaluates the response again and writes what comes of it to a new file;
\* or that write fails.
Promote(r) ==
    /\ \/ /\ Unaltered(r, {"checkpoint", "packet", "response"})
          /\ job[r].attempts = 1
          /\ Goto(r, "promote", "adopt")
          /\ With(r, [job[r] EXCEPT !.items = Said(r, "response", job[r].answer)])
          /\ files' = [files EXCEPT ![r]["promoted"] = "whole"]
       \/ /\ Goto(r, "promote", "refuse")
          /\ UNCHANGED <<job, files>>
    /\ UNCHANGED <<github, result, checkout, edits, journal>>

\* github_v2_findings reads the promoted receipt back and the plan is made of it; or the
\* receipt does not validate any more; or the plan cannot be written.
Adopt(r) ==
    /\ \/ /\ Unaltered(r, {"promoted"})
          /\ Goto(r, "adopt", "plan")
          /\ With(r, [job[r] EXCEPT !.items = Said(r, "promoted", @)])
          /\ UNCHANGED result
       \/ /\ ~Unaltered(r, {"promoted"})
          /\ Goto(r, "adopt", "refuse")
          /\ With(r, [job[r] EXCEPT !.items = {}])
          /\ UNCHANGED result
       \/ Stop(r, "adopt")
    /\ UNCHANGED <<github, local, journal>>

-----------------------------------------------------------------------------
(* The plan and its journal.                                               *)

Event(r, kind, what) == [kind |-> kind, run |-> r, what |-> what]

\* The plan of a review that is not accepted or not promoted is not executable: it is
\* journalled and not published.
Refuse(r) ==
    /\ Stop(r, "refuse")
    /\ journal' = Append(journal, Event(r, "github_publication_planned", FALSE))
    /\ UNCHANGED <<github, local>>

\* An executable plan is journalled; --publish was given, or that is all.
Plan(r) ==
    /\ journal' = Append(journal, Event(r, "github_publication_planned", TRUE))
    /\ \/ Goto(r, "plan", "announce") /\ UNCHANGED <<job, result>>
       \/ Stop(r, "plan")
    /\ UNCHANGED <<github, local>>

Announce(r) ==
    /\ journal' = Append(journal, Event(r, "github_publication_started", TRUE))
    /\ Goto(r, "announce", "head")
    /\ UNCHANGED <<github, job, result, local>>

\* One event for each member of a set, in the order of the set.
EventFor(r, kind, set) == LET s == Order(set) IN [i \in DOMAIN s |-> Event(r, kind, s[i])]

\* The events of a PublicationResult in the order they are journalled.
Events(r) ==
    EventFor(r, "github_comment_skipped_duplicate", job[r].skipped)
        \o EventFor(r, "github_comment_published", job[r].published)
        \o EventFor(r, "github_summary_published", {job[r].review} \ {0})
        \o CASE result[r] = "stale_head" ->
                    <<Event(r, "github_publication_stale_head", result[r])>>
             [] result[r] = "stale_head_race" ->
                    <<Event(r, "github_publication_stale_head_race", result[r])>>
             [] result[r] \in {"failed", "reconciliation_incomplete"} ->
                    <<Event(r, "github_publication_failed", result[r])>>
             [] OTHER -> << >>

\* Seeded fault: a publication that failed journals nothing of what it posted.
RecordSuccess(r) ==
    /\ result[r] = "failed"
    /\ Goto(r, "record", "done")
    /\ With(r, Kept(r))
    /\ UNCHANGED <<github, result, local, journal>>

\* _record_github_publication_events journals one event after the other.
Record(r) ==
    /\ pc[r] = "record"
    /\ IF job[r].noted = Len(Events(r))
       THEN /\ Goto(r, "record", "done")
            /\ With(r, Kept(r))
            /\ UNCHANGED journal
       ELSE /\ journal' = Append(journal, Events(r)[job[r].noted + 1])
            /\ With(r, [job[r] EXCEPT !.noted = @ + 1])
            /\ UNCHANGED pc
    /\ UNCHANGED <<github, result, local>>

\* The run is killed, or an append to the journal raises.
Crash(r) ==
    /\ pc[r] \notin {"idle", "done"}
    /\ pc' = [pc EXCEPT ![r] = "done"]
    /\ result' = [result EXCEPT ![r] = "killed"]
    /\ With(r, Kept(r))
    /\ UNCHANGED <<github, local, journal>>

Step(r) ==
    \/ Resolve(r) \/ CheckCheckout(r) \/ FetchDiff(r) \/ CheckUnchanged(r) \/ SourceFails(r)
    \/ Review(r) \/ Verify(r) \/ Promote(r) \/ Adopt(r)
    \/ Refuse(r) \/ Plan(r) \/ Announce(r)
    \/ Publish(r) /\ UNCHANGED <<local, journal>>
    \/ Record(r)

\* No run is left to start or to end.
Finished ==
    /\ \A r \in Runs : pc[r] = "done"
    /\ UNCHANGED vars

Next ==
    \/ \E r \in Runs : Step(r) \/ Crash(r)
    \/ (Push \/ Remark \/ Land) /\ UNCHANGED <<local, journal>>
    \/ Checkout \/ Alter
    \/ Finished

Spec == Init /\ [][Next]_vars

-----------------------------------------------------------------------------
(* Properties.                                                             *)

PcStates == {"idle", "checkout", "diff", "unchanged", "review", "verify", "promote", "adopt",
             "refuse", "plan", "announce", "head", "list", "recheck", "post", "readback",
             "confirm", "record", "done"}

Statuses == {"none", "no_findings", "stale_head", "skipped_duplicate", "published",
             "stale_head_race", "failed", "reconciliation_incomplete", "killed",
             "not_published"}

Kinds == {"github_publication_planned", "github_publication_started",
          "github_comment_skipped_duplicate", "github_comment_published",
          "github_summary_published", "github_publication_stale_head",
          "github_publication_stale_head_race", "github_publication_failed"}

Pulls == [base : Nat, head : Nat]

Job == [pull : Pulls, diff : Pulls, answer : SUBSET Findings, attempts : 0..2,
        items : SUBSET Findings, listing : {"comments", "reviews"}, page : 1..MaxPages,
        read : Nat, seen : SUBSET Findings, review : Nat, skipped : SUBSET Findings,
        published : SUBSET (Findings \X Nat), noted : Nat]

\* Every variable has the type its comment says.
TypeOK ==
    /\ timing \in Timings
    /\ pull \in Pulls
    /\ comments \in Seq([review : Nat, markers : SUBSET Findings])
    /\ reviews \in Seq([by : Runs \cup {"people"}, commit : Nat, head : Nat,
                        markers : SUBSET Findings])
    /\ late \subseteq [by : Runs, commit : Nat, items : SUBSET Findings]
    /\ remarks \in Nat
    /\ pc \in [Runs -> PcStates]
    /\ \A r \in Runs : job[r] \in Job
    /\ result \in [Runs -> Statuses]
    /\ checkout \in Nat
    /\ files \in [Runs -> [Artifacts -> {"absent", "whole", "altered"}]]
    /\ edits \in Nat
    /\ \A i \in 1..Len(journal) : journal[i].kind \in Kinds /\ journal[i].run \in Runs

\* However many runs are made, at whatever head, and however they end, a finding is on
\* the pull request once at most: a retry "skips an already-created comment instead of
\* duplicating it", and "the default policy [...] does not create a second inline
\* thread" (docs/superpowers/specs/2026-08-24-github-pi-review-roadmap.md:173-176).
AtMostOnce ==
    \A f \in Findings :
        /\ \A i, j \in 1..Len(comments) :
               f \in comments[i].markers /\ f \in comments[j].markers => i = j
        /\ \A i, j \in 1..Len(reviews) :
               f \in reviews[i].markers /\ f \in reviews[j].markers => i = j
        /\ ~ \E i \in 1..Len(comments), j \in 1..Len(reviews) :
               f \in comments[i].markers /\ f \in reviews[j].markers

\* What marker reconciliation does achieve: runs one after the other, whose POSTs were
\* applied in time or not at all and whose answers hold no two findings of one id,
\* publish a finding once at most, whether their answers arrived or not, in however
\* many pages the markers are listed.
OnceInTurn ==
    /\ timing.sequential /\ ~timing.late
    /\ \A f, g \in Findings : Id(f) = Id(g) => f = g
    => AtMostOnce

OnGitHub(f) ==
    \/ \E i \in 1..Len(comments) : Id(f) \in comments[i].markers
    \/ \E i \in 1..Len(reviews) : Id(f) \in reviews[i].markers

ReviewsBy(r) == {i \in 1..Len(reviews) : reviews[i].by = r}

\* A run says published only of a review that GitHub took while the commit that was
\* reviewed was the head; every review is on the commit that was reviewed.
PublishedIsCurrent ==
    \A r \in Runs : \A i \in ReviewsBy(r) :
        /\ reviews[i].commit = job[r].pull.head
        /\ result[r] = "published" => reviews[i].head = job[r].pull.head

\* The ids on GitHub by review i.
MarkersOf(i) ==
    reviews[i].markers
        \cup UNION {comments[k].markers : k \in {k \in 1..Len(comments) : comments[k].review = i}}

\* Whatever a run puts on the pull request was found in the only attempt of an accepted
\* review, on the diff of the very base and head of its snapshot, although that diff
\* was fetched between moves of both, and although the findings went through three
\* files that somebody may have altered.
PostedIsReviewed ==
    \A r \in Runs : \A i \in ReviewsBy(r) :
        /\ job[r].diff = job[r].pull
        /\ job[r].attempts = 1
        /\ MarkersOf(i) \subseteq Ids(job[r].answer)

Journalled(r, kind) == \E i \in 1..Len(journal) : journal[i].run = r /\ journal[i].kind = kind

\* What a run reports is true of GitHub: when it says it published, or had nothing left
\* to publish, no item of its plan is missing there; when it says stale_head, or that it
\* had nothing to publish, it posted nothing.  And the journal never claims what is not
\* there: a comment it says was published is in the review of that run and for that
\* finding.  Nothing is there that the journal does not announce; when the run was not
\* killed and knows of its review, the journal has it.
ReportsAreTrue ==
    /\ \A r \in Runs :
           /\ result[r] \in {"published", "skipped_duplicate", "stale_head_race"} =>
                  \A f \in job[r].items : OnGitHub(f)
           /\ result[r] \in {"stale_head", "skipped_duplicate", "no_findings",
                             "reconciliation_incomplete", "not_published"} =>
                  \A i \in ReviewsBy(r) : i = job[r].review
           /\ pc[r] = "done" /\ result[r] # "killed" /\ job[r].review # 0 =>
                  Journalled(r, "github_summary_published")
    /\ \A k \in 1..Len(journal) :
           LET e == journal[k]
           IN  /\ e.kind = "github_comment_published" =>
                      /\ e.what[1] \in comments[e.what[2]].markers
                      /\ comments[e.what[2]].review \in ReviewsBy(e.run)
               /\ e.kind = "github_comment_skipped_duplicate" => OnGitHub(e.what)
               /\ e.kind = "github_summary_published" => e.what \in ReviewsBy(e.run)
    /\ \A i \in 1..Len(reviews) :
           reviews[i].by # "people" => Journalled(reviews[i].by, "github_publication_started")
=============================================================================
