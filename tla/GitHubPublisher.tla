---------------------------- MODULE GitHubPublisher ----------------------------
(***************************************************************************)
(* Publication of review findings on a GitHub pull request                 *)
(* (src/src/reviewctl/github_publisher.py, GitHubPublisher.publish).       *)
(* GitHubReview has the command around it, which makes the plan that is    *)
(* published here and journals the result.                                 *)
(*                                                                         *)
(* A run posts one grouped review.  The only memory shared by the runs is  *)
(* GitHub's: each finding's comment carries a marker, and before it posts  *)
(* a run lists every page of comments and of reviews and leaves out what   *)
(* is marked already.  Meanwhile the author pushes, people comment, calls  *)
(* fail, and a POST may take effect whose answer is lost.                  *)
(*                                                                         *)
(* GitHub is external: modelled by what the publisher asks of it.  Listing *)
(* pages come in creation order, and nothing is deleted from them.         *)
(***************************************************************************)
EXTENDS Naturals, Sequences, FiniteSets

CONSTANTS
    Runs,           \* the runs of `reviewctl github review --publish`
    Findings,       \* the findings reviews may report
    PageSize,       \* page_size
    MaxPages,       \* max_pages
    Timings         \* what a behaviour may be like, see Timing

\* sequential: a run starts only when no other is under way; late: GitHub may apply a
\* POST after its caller gave up; the bounds pushes and remarks: what other people do on
\* GitHub; edits: how often somebody alters an artifact; inline: the findings whose path
\* and line are in the diff; names: a finding's id, given as one of the findings that have
\* it, for the id leaves the severity and the evidence out.
Timing == [sequential : BOOLEAN, late : BOOLEAN, pushes : Nat, remarks : Nat, edits : Nat,
           inline : SUBSET Findings, names : [Findings -> Findings]]

ASSUME PublisherAssumption ==
    /\ "people" \notin Runs
    /\ IsFiniteSet(Findings)
    /\ PageSize \in Nat \ {0}
    /\ MaxPages \in Nat \ {0}
    /\ Timings \subseteq Timing
    \* Findings of one id have one path and one line.
    /\ \A t \in Timings : \A f \in Findings : f \in t.inline <=> t.names[f] \in t.inline

VARIABLES
    timing,     \* which of Timings the behaviour is like
    pull,       \* GitHub: the base and head commits of the pull request
    comments,   \* GitHub: its review comments, oldest first
    reviews,    \* GitHub: its reviews, oldest first
    late,       \* POSTs GitHub may still apply
    remarks,    \* what other people have written so far
    pc,         \* run -> where it is
    job,        \* run -> the local variables of github_review_project and publish
    result      \* run -> the status of its PublicationResult, once it is known

github == <<timing, pull, comments, reviews, late, remarks>>

runs == <<pc, job, result>>

-----------------------------------------------------------------------------
(* GitHub.  A comment belongs to a review; both show the markers in their  *)
(* body: a comment one at most, a review those of the summary-only items.  *)

Inline == timing.inline

Id(f) == timing.names[f]

Ids(set) == {Id(f) : f \in set}

\* Some order of a set of findings.
Order(set) == CHOOSE s \in [1..Cardinality(set) -> set] : \A f \in set : \E i \in DOMAIN s : s[i] = f

\* A grouped review of these findings is applied: all of it or nothing.
Apply(post) ==
    LET inline == Order(post.items \cap Inline)
    IN  /\ reviews' = Append(reviews, [by |-> post.by, commit |-> post.commit, head |-> pull.head,
                                       markers |-> Ids(post.items \ Inline)])
        /\ comments' = comments \o [i \in DOMAIN inline |->
                                       [review |-> Len(reviews) + 1, markers |-> {Id(inline[i])}]]

\* The author pushes, or the base branch moves.
Push ==
    /\ pull.base + pull.head < timing.pushes
    /\ \E part \in {"base", "head"} : pull' = [pull EXCEPT ![part] = @ + 1]
    /\ UNCHANGED <<timing, comments, reviews, late, remarks, runs>>

\* Somebody comments on a line, or reviews.
Remark ==
    /\ remarks < timing.remarks
    /\ remarks' = remarks + 1
    /\ \/ /\ comments' = Append(comments, [review |-> 0, markers |-> {}])
          /\ UNCHANGED reviews
       \/ /\ reviews' = Append(reviews, [by |-> "people", commit |-> pull.head,
                                         head |-> pull.head, markers |-> {}])
          /\ UNCHANGED comments
    /\ UNCHANGED <<timing, pull, late, runs>>

\* A POST that was given up on takes effect.
Land ==
    /\ \E post \in late :
           /\ Apply(post)
           /\ late' = late \ {post}
    /\ UNCHANGED <<timing, pull, remarks, runs>>

-----------------------------------------------------------------------------
(* The steps of publish.                                                   *)

NoPull == [base |-> 0, head |-> 0]

\* pull, diff, answer, attempts: the snapshot and its review, see GitHubReview; items:
\* the findings of the plan; listing, page, read: the page asked for next and how many
\* entries came before it; seen: the ids found so far; review: the id POST answered;
\* skipped, published: findings, and <<finding, comment>> pairs, of the result; noted:
\* how much of the result is journalled.
NoJob == [pull |-> NoPull, diff |-> NoPull, answer |-> {}, attempts |-> 0,
          items |-> {}, listing |-> "comments", page |-> 1, read |-> 0, seen |-> {},
          review |-> 0, skipped |-> {}, published |-> {}, noted |-> 0]

Goto(r, from, to) ==
    /\ pc[r] = from
    /\ pc' = [pc EXCEPT ![r] = to]

With(r, j) == job' = [job EXCEPT ![r] = j]

Pending(r) == {f \in job[r].items : Id(f) \notin job[r].seen}
Skipped(r) == job[r].items \ Pending(r)

\* publish returns; what it skipped is known once the listing is complete.
Return(r, from, status, skipped) ==
    /\ Goto(r, from, "record")
    /\ result' = [result EXCEPT ![r] = status]
    /\ With(r, [job[r] EXCEPT !.skipped = skipped])

\* publish begins: nothing to do, a stale head, or the listing.
CheckHead(r) ==
    /\ pc[r] = "head"
    /\ CASE job[r].items = {}      -> Return(r, "head", "no_findings", {})
         [] job[r].items # {} /\ pull.head # job[r].pull.head ->
                Return(r, "head", "stale_head", {})
         [] OTHER -> Goto(r, "head", "list") /\ UNCHANGED <<job, result>>
    /\ UNCHANGED github

Listing(r) == IF job[r].listing = "comments" THEN comments ELSE reviews

\* The entries of a page that starts after the first `read` entries.
PageOf(entries, read) ==
    {i \in 1..Len(entries) : read < i /\ i <= read + PageSize}

Short(entries, read) == Len(entries) < read + PageSize

\* Seeded fault: the reviews are not listed, and the page budget is forgotten.
ListComments(r) ==
    LET j == [job[r] EXCEPT !.seen =
                 @ \cup UNION {comments[i].markers : i \in PageOf(comments, job[r].read)}]
    IN  /\ IF Short(comments, job[r].read)
           THEN With(r, j) /\ Goto(r, "list", "recheck")
           ELSE /\ With(r, [j EXCEPT !.page = @ + 1, !.read = @ + PageSize])
                /\ pc[r] = "list" /\ UNCHANGED pc
        /\ UNCHANGED <<github, result>>

\* _existing_bodies reads one page.  A full page is followed by the next one, as long
\* as the budget lasts; a short one ends the listing.
List(r) ==
    LET entries == Listing(r)
        j       == [job[r] EXCEPT !.seen =
                       @ \cup UNION {entries[i].markers : i \in PageOf(entries, job[r].read)}]
    IN  /\ pc[r] = "list"
        /\ \/ /\ Short(entries, job[r].read)
              /\ IF j.listing = "comments"
                 THEN /\ With(r, [j EXCEPT !.listing = "reviews", !.page = 1, !.read = 0])
                      /\ UNCHANGED pc
                 ELSE With(r, j) /\ Goto(r, "list", "recheck")
              /\ UNCHANGED result
           \/ /\ ~Short(entries, job[r].read)
              /\ IF j.page = MaxPages
                 THEN Return(r, "list", "reconciliation_incomplete", {})
                 ELSE /\ With(r, [j EXCEPT !.page = @ + 1, !.read = @ + PageSize])
                      /\ UNCHANGED <<pc, result>>
        /\ UNCHANGED github

\* Every item is marked already, or the head is read again before the POST.
Recheck(r) ==
    /\ pc[r] = "recheck"
    /\ CASE Pending(r) = {}      -> Return(r, "recheck", "skipped_duplicate", Skipped(r))
         [] Pending(r) # {} /\ pull.head # job[r].pull.head ->
                Return(r, "recheck", "stale_head", Skipped(r))
         [] OTHER -> Goto(r, "recheck", "post") /\ UNCHANGED <<job, result>>
    /\ UNCHANGED github

\* The grouped review of r.
Posting(r) == [by |-> r, commit |-> job[r].pull.head, items |-> Pending(r)]

\* _post: the review is applied and its id answered; or it is applied and the answer
\* is lost, or says nothing valid; or it is not; or GitHub still has it in hand.
Post(r) ==
    /\ pc[r] = "post"
    /\ \/ /\ Apply(Posting(r))
          /\ Goto(r, "post", "readback")
          /\ With(r, [job[r] EXCEPT !.review = Len(reviews) + 1, !.page = 1, !.read = 0])
          /\ UNCHANGED <<late, result>>
       \/ /\ \/ Apply(Posting(r)) /\ UNCHANGED late
             \/ UNCHANGED <<comments, reviews, late>>
             \/ /\ timing.late
                /\ late' = late \cup {Posting(r)}
                /\ UNCHANGED <<comments, reviews>>
          /\ Return(r, "post", "failed", Skipped(r))
    /\ UNCHANGED <<timing, pull, remarks>>

\* The comments of review n, as <<finding, comment>> pairs; of findings of one id, the
\* id stands for both.
CommentsOf(n) ==
    UNION {{<<f, i>> : f \in comments[i].markers} :
               i \in {k \in 1..Len(comments) : comments[k].review = n}}

\* The inline items whose marker a comment holds.
Matches(r, entry) == {f \in Pending(r) \cap Inline : Id(f) \in entry.markers}

\* _published_comments reads the comments of the new review page by page: when their
\* number is a multiple of the page size, the short page that ends them is empty.  A
\* comment that matches two items, whose id is the same, ends it.
ReadBack(r) ==
    LET inline == SelectSeq(comments, LAMBDA c : c.review = job[r].review)
        bound  == \A i \in PageOf(inline, job[r].read) : Cardinality(Matches(r, inline[i])) = 1
    IN  /\ pc[r] = "readback"
        /\ \/ /\ ~bound
              /\ Return(r, "readback", "reconciliation_incomplete", Skipped(r))
           \/ /\ bound /\ Short(inline, job[r].read)
              /\ With(r, [job[r] EXCEPT !.published = CommentsOf(job[r].review)])
              /\ Goto(r, "readback", "confirm")
              /\ UNCHANGED result
           \/ /\ bound /\ ~Short(inline, job[r].read)
              /\ IF job[r].page = MaxPages
                 THEN Return(r, "readback", "failed", Skipped(r))
                 ELSE /\ With(r, [job[r] EXCEPT !.page = @ + 1, !.read = @ + PageSize])
                      /\ UNCHANGED <<pc, result>>
        /\ UNCHANGED github

\* Seeded fault: the head is not read after the POST.
ConfirmAlways(r) ==
    /\ Return(r, "confirm", "published", Skipped(r))
    /\ UNCHANGED github

Confirm(r) ==
    /\ Return(r, "confirm",
              IF pull.head = job[r].pull.head THEN "published" ELSE "stale_head_race",
              Skipped(r))
    /\ UNCHANGED github

\* A call to GitHub fails, times out, comes after the deadline or answers what makes
\* no sense, which fails the publication; _post has its own cases.
CallFails(r) ==
    /\ \E from \in {"head", "list", "recheck", "readback", "confirm"},
          status \in {"failed", "reconciliation_incomplete"} :
           /\ from = "head" => job[r].items # {}
           /\ from = "recheck" => Pending(r) # {}
           /\ status = "reconciliation_incomplete" => from \in {"list", "readback"}
           /\ Return(r, from, status,
                     IF from \in {"head", "list"} THEN {} ELSE Skipped(r))
    /\ UNCHANGED github

Publish(r) ==
    \/ CheckHead(r) \/ List(r) \/ Recheck(r) \/ Post(r) \/ ReadBack(r) \/ Confirm(r)
    \/ CallFails(r)
=============================================================================
