-------------------------- MODULE GitHubReview_proofs --------------------------
(***************************************************************************)
(* GitHubReview for any runs, findings, page size, page limit and timings: *)
(* what is posted was reviewed, what is called published is current, runs  *)
(* that take turns publish a finding once at most, and what is reported    *)
(* and journalled is so.                                                   *)
(*                                                                         *)
(* Base and head only move on.  So when they are what they were, they were *)
(* that all the time in between: the diff between two equal reads is that  *)
(* of the snapshot, and a head that is confirmed was the head of the POST  *)
(* (RunOK, PostedOK).  A run posts once, after it lists every marker; when *)
(* runs take turns nobody adds one in between (TurnOK).  Comments, reviews *)
(* and events only come (Grown), so that what a run has seen on GitHub is  *)
(* still there when it says so (Knows, Reports, Truthful).                 *)
(***************************************************************************)
EXTENDS GitHubReview, FiniteSetTheorems, FunctionTheorems, TLAPS

\* The states of a run that has posted nothing yet, up to the listing, and the others.
BeforeList == {"idle", "checkout", "diff", "unchanged", "review", "verify", "promote", "adopt",
               "refuse", "plan", "announce", "head"}

Before == BeforeList \cup {"list", "recheck", "post"}

\* The states of a run that has its snapshot, and those of one that has its findings.
Promoted == {"adopt", "plan", "announce", "head", "list", "recheck", "post", "readback",
             "confirm", "record"}

Snapped == {"review", "verify", "promote"} \cup Promoted

CommentType == [review : Nat, markers : SUBSET Findings]

ReviewType == [by : Runs \cup {"people"}, commit : Nat, head : Nat, markers : SUBSET Findings]

PostType == [by : Runs, commit : Nat, items : SUBSET Findings]

\* The types that matter: those of all that the runs act on.
Types ==
    /\ timing \in Timings
    /\ pull \in Pulls
    /\ comments \in Seq(CommentType)
    /\ reviews \in Seq(ReviewType)
    /\ late \subseteq PostType
    /\ pc \in [Runs -> PcStates]
    /\ job \in [Runs -> Job]
    /\ result \in [Runs -> Statuses]

UpTo(p, q) == p.base <= q.base /\ p.head <= q.head

\* What a run knows of the pull request and of its own review.
RunOK(r) ==
    /\ UpTo(job[r].pull, pull)
    /\ pc[r] = "unchanged" => UpTo(job[r].pull, job[r].diff) /\ UpTo(job[r].diff, pull)
    /\ pc[r] \in Snapped => job[r].diff = job[r].pull
    /\ pc[r] \in Promoted => job[r].attempts = 1 /\ job[r].items \subseteq job[r].answer
    /\ pc[r] \in {"list", "recheck", "post"} => job[r].items # {}
    /\ result[r] = "published" => pc[r] \in {"record", "done"}

Posted(r) ==
    \/ \E i \in 1..Len(reviews) : reviews[i].by = r
    \/ \E post \in late : post.by = r

\* What run r posts, on this commit and with these markers, is what it reviewed.
Backed(r, commit, markers) ==
    /\ job[r].items # {}
    /\ commit = job[r].pull.head
    /\ job[r].diff = job[r].pull
    /\ job[r].attempts = 1
    /\ markers \subseteq Ids(job[r].answer)

\* A POST that may still be applied.
LateOK(post) ==
    /\ Backed(post.by, post.commit, Ids(post.items))
    /\ pc[post.by] \notin {"readback", "confirm"}
    /\ result[post.by] # "published"

ReviewOK(i) ==
    /\ reviews[i].by \in Runs =>
           /\ Backed(reviews[i].by, reviews[i].commit, reviews[i].markers)
           /\ result[reviews[i].by] = "published" => reviews[i].head = reviews[i].commit
    /\ reviews[i].commit <= reviews[i].head
    /\ reviews[i].head <= pull.head

CommentOK(k) ==
    \/ comments[k].review = 0
    \/ /\ comments[k].review \in 1..Len(reviews)
       /\ reviews[comments[k].review].by \in Runs
       /\ comments[k].markers \subseteq Ids(job[reviews[comments[k].review].by].answer)

\* What is on GitHub, or still may be, belongs to runs that have posted.
PostedOK ==
    /\ \A r \in Runs : pc[r] \in Before => ~Posted(r)
    /\ \A post \in late : LateOK(post)
    /\ \A i \in 1..Len(reviews) : ReviewOK(i)
    /\ \A k \in 1..Len(comments) : CommentOK(k)

\* Runs take turns, POSTs are applied in time or not at all, and no two findings of an
\* answer have one id.
InTurn ==
    /\ timing.sequential /\ ~timing.late
    /\ \A f, g \in Findings : Id(f) = Id(g) => f = g

Active(r) == pc[r] \notin {"idle", "done"}

\* The first n entries of a list hold no marker that r has not seen.
SeenTo(r, entries, n) ==
    \A i \in 1..Len(entries) : i <= n => entries[i].markers \subseteq job[r].seen

SeenAll(r, entries) == \A i \in 1..Len(entries) : entries[i].markers \subseteq job[r].seen

Listed(r) ==
    /\ pc[r] \in BeforeList => job[r].read = 0 /\ job[r].listing = "comments"
    /\ pc[r] = "list" =>
           \/ job[r].listing = "comments" /\ SeenTo(r, comments, job[r].read)
           \/ /\ job[r].listing = "reviews"
              /\ SeenAll(r, comments) /\ SeenTo(r, reviews, job[r].read)
    /\ pc[r] \in {"recheck", "post"} => SeenAll(r, comments) /\ SeenAll(r, reviews)

TurnOK ==
    InTurn => /\ late = {}
              /\ \A q, r \in Runs : Active(q) /\ Active(r) => q = r
              /\ \A r \in Runs : Listed(r)
              /\ AtMostOnce

IInv == Types /\ (\A r \in Runs : RunOK(r)) /\ PostedOK /\ TurnOK

-----------------------------------------------------------------------------
(* Data.                                                                   *)

LEMMA ReviewSets ==
    /\ Before \subseteq PcStates /\ Snapped \subseteq PcStates
    /\ NoPull \in Pulls /\ NoJob \in Job
BY PublisherAssumption DEF Before, BeforeList, Snapped, Promoted, PcStates, NoPull, Pulls, NoJob, Job

\* A finite set in some order.
LEMMA OrderOfFinite ==
    ASSUME NEW set, IsFiniteSet(set)
    PROVE  /\ Cardinality(set) \in Nat
           /\ Order(set) \in [1..Cardinality(set) -> set]
           /\ \A f \in set : \E i \in 1..Cardinality(set) : Order(set)[i] = f
<1> DEFINE n == Cardinality(set)
<1>1. n \in Nat /\ ExistsBijection(1..n, set)
  BY FS_CardinalityType
<1>2. PICK b \in [1..n -> set] : \A f \in set : \E i \in 1..n : b[i] = f
  BY <1>1, Fun_BijectionProperties DEF ExistsBijection
<1>3. \A f \in set : \E i \in DOMAIN b : b[i] = f
  BY <1>2
<1>4. Order(set) \in [1..n -> set] /\ \A f \in set : \E i \in DOMAIN Order(set) : Order(set)[i] = f
  BY <1>2, <1>3 DEF Order
<1> QED BY <1>1, <1>4

\* Findings in some order: each once.
LEMMA OrderIsOrder ==
    ASSUME NEW set \in SUBSET Findings
    PROVE  /\ Cardinality(set) \in Nat
           /\ Order(set) \in [1..Cardinality(set) -> set]
           /\ \A i, j \in 1..Cardinality(set) : Order(set)[i] = Order(set)[j] => i = j
<1> DEFINE n == Cardinality(set)
<1>1. IsFiniteSet(set)
  BY FS_Subset, PublisherAssumption
<1>2. n \in Nat /\ Order(set) \in [1..n -> set] /\ \A f \in set : \E i \in 1..n : Order(set)[i] = f
  BY <1>1, OrderOfFinite
<1>3. Order(set) \in Surjection(1..n, set)
  BY <1>2, Fun_IsSurj
<1>4. IsFiniteSet(1..n) /\ Cardinality(1..n) = n
  BY <1>2, FS_Interval
<1>5. Order(set) \in Injection(1..n, set)
  BY <1>3, <1>4, FS_SurjSameCardinalityImpliesInj
<1> QED BY <1>2, <1>5, Fun_InjectionProperties

LEMMA IdsAreFindings ==
    ASSUME Types
    PROVE  /\ \A f \in Findings : Id(f) \in Findings
           /\ \A set \in SUBSET Findings : Ids(set) \in SUBSET Findings
BY PublisherAssumption DEF Types, Timing, Id, Ids

LEMMA FunctionsAreSequences ==
    ASSUME NEW S, NEW n \in Nat, NEW f \in [1..n -> S]
    PROVE  f \in Seq(S) /\ Len(f) = n
OBVIOUS

LEMMA Concatenation ==
    ASSUME NEW S, NEW s \in Seq(S), NEW t \in Seq(S)
    PROVE  /\ s \o t \in Seq(S)
           /\ Len(s) \in Nat /\ Len(t) \in Nat
           /\ Len(s \o t) = Len(s) + Len(t)
           /\ \A k \in 1..Len(s) : (s \o t)[k] = s[k]
           /\ \A k \in Len(s) + 1..Len(s \o t) :
                  k - Len(s) \in 1..Len(t) /\ (s \o t)[k] = t[k - Len(s)]
OBVIOUS

LEMMA Appending ==
    ASSUME NEW S, NEW s \in Seq(S), NEW e \in S
    PROVE  /\ Append(s, e) \in Seq(S)
           /\ Len(s) \in Nat
           /\ Len(Append(s, e)) = Len(s) + 1
           /\ \A k \in 1..Len(s) : Append(s, e)[k] = s[k]
           /\ Append(s, e)[Len(s) + 1] = e
OBVIOUS

\* The entries from the nth on share no marker.
Disjoint(entries, n) ==
    \A k, l \in n..Len(entries) : k # l => entries[k].markers \cap entries[l].markers = {}

\* What a POST adds: one review, and a comment for each inline item, which share no
\* marker when no two findings have one id.
LEMMA ApplyAdds ==
    ASSUME Types, NEW post \in PostType, Apply(post)
    PROVE  /\ reviews' \in Seq(ReviewType)
           /\ comments' \in Seq(CommentType)
           /\ Len(reviews') = Len(reviews) + 1
           /\ \A i \in 1..Len(reviews) : reviews'[i] = reviews[i]
           /\ reviews'[Len(reviews) + 1] = [by |-> post.by, commit |-> post.commit, head |-> pull.head,
                                            markers |-> Ids(post.items \ Inline)]
           /\ Len(comments') \in Nat /\ Len(comments) <= Len(comments')
           /\ \A k \in 1..Len(comments) : comments'[k] = comments[k]
           /\ \A k \in Len(comments) + 1..Len(comments') :
                  /\ comments'[k].review = Len(reviews) + 1
                  /\ comments'[k].markers \subseteq Ids(post.items \cap Inline)
           /\ InTurn => Disjoint(comments', Len(comments) + 1)
<1> DEFINE set == post.items \cap Inline
           n == Cardinality(set)
           comment(i) == [review |-> Len(reviews) + 1, markers |-> {Id(Order(set)[i])}]
           new == [i \in DOMAIN Order(set) |-> comment(i)]
           review == [by |-> post.by, commit |-> post.commit, head |-> pull.head,
                      markers |-> Ids(post.items \ Inline)]
<1>1. /\ set \in SUBSET Findings /\ n \in Nat
      /\ Order(set) \in [1..n -> set]
      /\ \A i, j \in 1..n : Order(set)[i] = Order(set)[j] => i = j
  BY OrderIsOrder DEF PostType
<1>2. comments' = comments \o new /\ reviews' = Append(reviews, review)
  BY DEF Apply
<1>3. review \in ReviewType
  BY IdsAreFindings DEF Types, Pulls, PostType, ReviewType
<1>4. \A i \in 1..n : comment(i) \in CommentType
  <2>1. Len(reviews) + 1 \in Nat
    BY DEF Types
  <2> QED BY <1>1, <2>1, IdsAreFindings DEF CommentType
<1>5. new \in [1..n -> CommentType] /\ \A i \in 1..n : new[i] = comment(i)
  BY <1>1, <1>4
<1>6. \A i \in 1..n : comment(i).review = Len(reviews) + 1 /\ comment(i).markers = {Id(Order(set)[i])}
  OBVIOUS
<1> HIDE DEF new, n, comment
<1>7. new \in Seq(CommentType) /\ Len(new) = n
  BY <1>1, <1>5, FunctionsAreSequences
<1>8. /\ comments' \in Seq(CommentType)
      /\ Len(comments) \in Nat
      /\ Len(comments') = Len(comments) + n
      /\ \A k \in 1..Len(comments) : comments'[k] = comments[k]
      /\ \A k \in Len(comments) + 1..Len(comments') :
             k - Len(comments) \in 1..n /\ comments'[k] = comment(k - Len(comments))
  BY <1>2, <1>5, <1>7, Concatenation DEF Types
<1> HIDE DEF review
<1>9. /\ reviews' \in Seq(ReviewType)
      /\ Len(reviews') = Len(reviews) + 1
      /\ \A i \in 1..Len(reviews) : reviews'[i] = reviews[i]
      /\ reviews'[Len(reviews) + 1] = review
  BY <1>2, <1>3, Appending DEF Types
<1>10. \A i \in 1..n : {Id(Order(set)[i])} \subseteq Ids(set)
  BY <1>1 DEF Ids
<1>11. ASSUME InTurn, NEW k \in Len(comments) + 1..Len(comments'),
              NEW l \in Len(comments) + 1..Len(comments'), k # l
       PROVE  comments'[k].markers \cap comments'[l].markers = {}
  <2> DEFINE i == k - Len(comments)
             j == l - Len(comments)
  <2>1. i \in 1..n /\ j \in 1..n /\ i # j
    BY <1>8, <1>11
  <2> HIDE DEF i, j
  <2>2. Id(Order(set)[i]) # Id(Order(set)[j])
    <3>1. Order(set)[i] \in Findings /\ Order(set)[j] \in Findings /\ Order(set)[i] # Order(set)[j]
      BY <1>1, <2>1
    <3> QED BY <1>11, <3>1 DEF InTurn
  <2>3. /\ comments'[k].markers = {Id(Order(set)[i])}
        /\ comments'[l].markers = {Id(Order(set)[j])}
    BY <1>6, <1>8, <2>1 DEF i, j
  <2> QED BY <2>2, <2>3
<1>12. \A k \in Len(comments) + 1..Len(comments') :
          /\ comments'[k].review = Len(reviews) + 1
          /\ comments'[k].markers \subseteq Ids(set)
  BY <1>6, <1>8, <1>10
<1>13. Len(comments') \in Nat /\ Len(comments) <= Len(comments')
  BY <1>1, <1>8
<1>14. InTurn => Disjoint(comments', Len(comments) + 1)
  BY <1>11 DEF Disjoint
<1> QED BY <1>8, <1>9, <1>12, <1>13, <1>14 DEF review

-----------------------------------------------------------------------------
(* Steps of a run that leave GitHub alone.                                 *)

Evidence(r) == <<job[r].pull, job[r].diff, job[r].answer, job[r].attempts, job[r].items>>

\* Only run r takes a step, and GitHub does not change.
Moves(r) ==
    /\ pc' \in [Runs -> PcStates] /\ job' \in [Runs -> Job] /\ result' \in [Runs -> Statuses]
    /\ \A q \in Runs \ {r} : pc'[q] = pc[q] /\ job'[q] = job[q] /\ result'[q] = result[q]
    /\ UNCHANGED github

\* What such a step may do: a run that may have posted keeps what its post is backed
\* by, and a run that has not stays so; published is said after a read of the head.
Sound(r) ==
    /\ RunOK(r)'
    /\ pc[r] \in Before \/ job[r].items = {} \/ Evidence(r)' = Evidence(r)
    /\ pc'[r] \in Before => pc[r] \in Before
    /\ pc'[r] \in {"readback", "confirm"} => pc[r] \in {"readback", "confirm"}
    /\ result'[r] = "published" =>
           \/ result[r] = "published"
           \/ pc[r] = "confirm" /\ pull.head = job[r].pull.head
    /\ InTurn => Listed(r)'
    /\ InTurn /\ Active(r)' => Active(r) \/ \A q \in Runs : ~Active(q)

LEMMA QuietSteps ==
    ASSUME IInv, NEW r \in Runs, Moves(r), Sound(r)
    PROVE  IInv'
<1>1. Types'
  BY DEF IInv, Types, Moves, github
<1>2. \A q \in Runs : RunOK(q)'
  <2>1. ASSUME NEW q \in Runs \ {r} PROVE RunOK(q)'
    BY <2>1 DEF IInv, RunOK, Moves, github
  <2> QED BY <2>1 DEF Sound
<1>3. PostedOK'
  <2>1. Posted(r) => Evidence(r)' = Evidence(r)
    <3>1. Posted(r) => pc[r] \notin Before
      BY DEF IInv, PostedOK
    <3>2. Posted(r) => job[r].items # {}
      BY DEF IInv, PostedOK, LateOK, ReviewOK, Backed, Posted
    <3> QED BY <3>1, <3>2 DEF Sound
  <2>2. ASSUME NEW q \in Runs, NEW commit, NEW markers, Posted(q), Backed(q, commit, markers)
        PROVE  Backed(q, commit, markers)' /\ job'[q].answer = job[q].answer
    BY <2>1, <2>2 DEF Backed, Evidence, Moves, Ids, Id, github
  <2>3. \A q \in Runs : Posted(q)' <=> Posted(q)
    BY DEF Posted, Moves, github
  <2>4. \A q \in Runs : pc'[q] \in Before => ~Posted(q)'
    BY <2>3 DEF IInv, PostedOK, LateOK, ReviewOK, CommentOK, Sound, Moves
  <2>5. ASSUME NEW post \in late
        PROVE  /\ Backed(post.by, post.commit, Ids(post.items))'
               /\ pc'[post.by] \notin {"readback", "confirm"}
               /\ result'[post.by] # "published"
    <3>1. post.by \in Runs /\ Posted(post.by)
      BY DEF IInv, Types, PostType, Posted
    <3>2. /\ Backed(post.by, post.commit, Ids(post.items))
          /\ pc[post.by] \notin {"readback", "confirm"}
          /\ result[post.by] # "published"
      BY DEF IInv, PostedOK, LateOK, ReviewOK, CommentOK
    <3>3. Ids(post.items)' = Ids(post.items)
      BY DEF Ids, Id, Moves, github
    <3>4. Backed(post.by, post.commit, Ids(post.items))'
      BY <2>2, <3>1, <3>2, <3>3
    <3> QED BY <3>1, <3>2, <3>4 DEF Sound, Moves
  <2>6. ASSUME NEW i \in 1..Len(reviews), reviews[i].by \in Runs
        PROVE  /\ Backed(reviews[i].by, reviews[i].commit, reviews[i].markers)'
               /\ result'[reviews[i].by] = "published" => reviews[i].head = reviews[i].commit
    <3>1. Posted(reviews[i].by) /\ Backed(reviews[i].by, reviews[i].commit, reviews[i].markers)
      BY <2>6 DEF Posted, IInv, PostedOK, LateOK, ReviewOK, CommentOK
    <3>2. UNCHANGED reviews
      BY DEF Moves, github
    <3>3. Backed(reviews[i].by, reviews[i].commit, reviews[i].markers)'
      BY <2>2, <2>6, <3>1, <3>2
    <3>4. ASSUME result'[reviews[i].by] = "published" PROVE reviews[i].head = reviews[i].commit
      <4>1. CASE result[reviews[i].by] = "published"
        BY <2>6, <4>1 DEF IInv, PostedOK, LateOK, ReviewOK, CommentOK
      <4>2. CASE result[reviews[i].by] # "published"
        <5>1. pull.head = job[reviews[i].by].pull.head
          BY <2>6, <3>4, <4>2 DEF Sound, Moves
        <5>2. reviews[i].commit = pull.head
          BY <3>1, <5>1 DEF Backed
        <5>3. reviews[i].commit <= reviews[i].head /\ reviews[i].head <= pull.head
          BY DEF IInv, PostedOK, LateOK, ReviewOK, CommentOK
        <5>4. reviews[i].head \in Nat /\ pull.head \in Nat
          <6>1. reviews[i] \in ReviewType /\ pull \in Pulls
            BY DEF IInv, Types
          <6> QED BY <6>1 DEF ReviewType, Pulls
        <5> QED BY <5>2, <5>3, <5>4
      <4> QED BY <4>1, <4>2
    <3> QED BY <3>3, <3>4
  <2>7. ASSUME NEW k \in 1..Len(comments)
        PROVE  \/ comments[k].review = 0
               \/ /\ comments[k].review \in 1..Len(reviews)
                  /\ reviews[comments[k].review].by \in Runs
                  /\ comments[k].markers \subseteq Ids(job[reviews[comments[k].review].by].answer)'
    <3>1. CASE comments[k].review # 0
      <4> DEFINE q == reviews[comments[k].review].by
      <4>1. /\ comments[k].review \in 1..Len(reviews)
            /\ q \in Runs
            /\ comments[k].markers \subseteq Ids(job[q].answer)
        BY <3>1 DEF IInv, PostedOK, LateOK, ReviewOK, CommentOK
      <4>2. Posted(q) /\ Backed(q, reviews[comments[k].review].commit, reviews[comments[k].review].markers)
        BY <4>1 DEF Posted, IInv, PostedOK, LateOK, ReviewOK, CommentOK
      <4>3. job'[q].answer = job[q].answer
        BY <2>2, <4>1, <4>2
      <4> QED BY <4>1, <4>3 DEF Ids, Id, Moves, github
    <3> QED BY <3>1
  <2> QED BY <2>4, <2>5, <2>6, <2>7 DEF PostedOK, LateOK, ReviewOK, CommentOK, IInv, Moves, github
<1>4. TurnOK'
  <2> SUFFICES ASSUME InTurn' PROVE /\ late' = {}
                                    /\ \A q, p \in Runs : Active(q)' /\ Active(p)' => q = p
                                    /\ \A q \in Runs : Listed(q)'
                                    /\ AtMostOnce'
    BY DEF TurnOK
  <2>1. InTurn /\ UNCHANGED <<timing, late, comments, reviews>>
    BY DEF InTurn, Id, Moves, github
  <2>2. /\ late = {} /\ AtMostOnce
        /\ \A q, p \in Runs : Active(q) /\ Active(p) => q = p
        /\ \A q \in Runs : Listed(q)
    BY <2>1 DEF IInv, TurnOK
  <2>3. \A q \in Runs \ {r} : (Active(q)' <=> Active(q)) /\ Listed(q)'
    BY <2>1, <2>2 DEF Active, Moves, Listed, SeenTo, SeenAll
  <2>4. \A q, p \in Runs : Active(q)' /\ Active(p)' => q = p
    BY <2>1, <2>2, <2>3 DEF Sound
  <2> QED BY <2>1, <2>2, <2>3, <2>4 DEF Sound, AtMostOnce
<1> QED BY <1>1, <1>2, <1>3, <1>4 DEF IInv

\* A step in the form the actions have it.
LEMMA Moving ==
    ASSUME Types, NEW r \in Runs, UNCHANGED github,
           NEW to \in PcStates, pc' = [pc EXCEPT ![r] = to],
           NEW j \in Job, job' = [job EXCEPT ![r] = j] \/ (job' = job /\ j = job[r]),
           NEW res \in Statuses,
           result' = [result EXCEPT ![r] = res] \/ (result' = result /\ res = result[r])
    PROVE  /\ Moves(r)
           /\ pc'[r] = to /\ job'[r] = j /\ result'[r] = res
           /\ UNCHANGED <<timing, pull, comments, reviews, late>>
BY DEF Types, Moves, github

\* The command ends before anything was posted.
LEMMA Stopping ==
    ASSUME IInv, NEW r \in Runs, NEW from \in BeforeList, Stop(r, from), UNCHANGED github
    PROVE  IInv'
<1>1. /\ Moves(r) /\ pc'[r] = "done" /\ job'[r] = NoJob /\ result'[r] = "not_published"
      /\ pull' = pull /\ pc[r] = from
  <2>1. "done" \in PcStates /\ "not_published" \in Statuses /\ NoJob \in Job
    BY ReviewSets DEF PcStates, Statuses
  <2> QED BY <2>1, Moving DEF IInv, Stop, Goto, With
<1>2. UpTo(NoPull, pull)
  <2>1. pull \in Pulls
    BY DEF IInv, Types
  <2> QED BY <2>1 DEF UpTo, NoPull, Pulls
<1>3. Sound(r)
  BY <1>1, <1>2 DEF Sound, RunOK, Listed, Active, NoJob, Before, BeforeList, Snapped, Promoted
<1> QED BY <1>1, <1>3, QuietSteps

\* publish returns.
LEMMA Returning ==
    ASSUME IInv, NEW r \in Runs, NEW from \in Promoted \ {"record"}, NEW status \in Statuses,
           NEW skipped \in SUBSET Findings, Return(r, from, status, skipped),
           status = "published" => from = "confirm" /\ pull.head = job[r].pull.head,
           UNCHANGED github
    PROVE  IInv'
<1> DEFINE j == [job[r] EXCEPT !.skipped = skipped]
<1>1. /\ j \in Job
      /\ j.pull = job[r].pull /\ j.diff = job[r].diff /\ j.answer = job[r].answer
      /\ j.attempts = job[r].attempts /\ j.items = job[r].items
  <2>1. job[r] \in Job
    BY DEF IInv, Types
  <2> QED BY <2>1 DEF Job
<1>2. /\ Moves(r) /\ pc'[r] = "record" /\ job'[r] = j /\ result'[r] = status
      /\ pull' = pull /\ pc[r] = from
  <2>1. "record" \in PcStates
    BY DEF PcStates
  <2> QED BY ZenonT(60), <1>1, <2>1, Moving DEF IInv, Return, Goto, With
<1> HIDE DEF j
<1>3. Evidence(r)' = Evidence(r)
  BY <1>1, <1>2 DEF Evidence
<1>4. RunOK(r)'
  <2>1. RunOK(r) /\ from \in Snapped /\ from # "unchanged"
    BY DEF IInv, Snapped, Promoted
  <2> QED BY <1>2, <1>3, <2>1 DEF RunOK, Evidence, Snapped, Promoted
<1>5. Sound(r)
  BY <1>2, <1>3, <1>4 DEF Sound, Listed, Active, Before, BeforeList, Promoted
<1> QED BY <1>2, <1>5, QuietSteps

-----------------------------------------------------------------------------
(* The snapshot and the review.                                            *)

LEMMA ResolveKeeps == ASSUME IInv, NEW r \in Runs, Resolve(r) PROVE IInv'
<1> DEFINE j == [NoJob EXCEPT !.pull = pull]
<1>1. j \in Job /\ j.pull = pull /\ j.read = 0 /\ j.listing = "comments"
  BY ReviewSets DEF IInv, Types, Job, NoJob
<1>2. /\ Moves(r) /\ pc'[r] = "checkout" /\ job'[r] = j /\ result'[r] = result[r]
      /\ pull' = pull /\ pc[r] = "idle"
  <2>1. "checkout" \in PcStates /\ result[r] \in Statuses
    BY DEF PcStates, IInv, Types
  <2> QED BY <1>1, <2>1, Moving DEF IInv, Resolve, Goto, With
<1> HIDE DEF j
<1>3. UpTo(pull, pull)
  <2>1. pull \in Pulls
    BY DEF IInv, Types
  <2> QED BY <2>1 DEF UpTo, Pulls
<1>4. InTurn => \A q \in Runs : ~Active(q)
  BY DEF Resolve, InTurn, Active
<1>5. RunOK(r) /\ result'[r] # "published"
  BY <1>2 DEF IInv, RunOK
<1> QED BY <1>1, <1>2, <1>3, <1>4, <1>5, QuietSteps
        DEF Sound, RunOK, Listed, Active, Before, BeforeList, Snapped, Promoted

\* A step up to the listing that goes on, and what it may do to the job.
LEMMA GoingOn ==
    ASSUME IInv, NEW r \in Runs, UNCHANGED github, NEW from \in BeforeList \ {"idle"},
           NEW to \in BeforeList \cup {"list"}, Goto(r, from, to),
           NEW j \in Job, job' = [job EXCEPT ![r] = j] \/ (job' = job /\ j = job[r]),
           result' = result,
           j.pull = job[r].pull, j.read = job[r].read, j.listing = job[r].listing,
           to = "unchanged" => UpTo(j.pull, j.diff) /\ UpTo(j.diff, pull),
           to \in Snapped => j.diff = j.pull,
           to \in Promoted => j.attempts = 1 /\ j.items \subseteq j.answer,
           to = "list" => j.items # {}
    PROVE  IInv'
<1>1. /\ Moves(r) /\ pc'[r] = to /\ job'[r] = j /\ result'[r] = result[r] /\ pc[r] = from
      /\ UNCHANGED <<timing, pull, comments, reviews, late>>
  <2>1. to \in PcStates /\ result[r] \in Statuses
    BY ReviewSets DEF IInv, Types, Before
  <2>2. pc' = [pc EXCEPT ![r] = to] /\ pc[r] = from /\ result' = result /\ Types
    BY DEF Goto, IInv
  <2>3. result' = [result EXCEPT ![r] = result[r]] \/ (result' = result /\ result[r] = result[r])
    BY <2>2
  <2>4. /\ Moves(r)
        /\ pc'[r] = to /\ job'[r] = j /\ result'[r] = result[r]
        /\ UNCHANGED <<timing, pull, comments, reviews, late>>
    BY <2>1, <2>2, <2>3, Moving
  <2> QED BY <2>2, <2>4
<1>2. RunOK(r)'
  BY <1>1 DEF IInv, RunOK, BeforeList
<1>3. ASSUME InTurn PROVE Listed(r)'
  <2>1. job'[r].read = 0 /\ job'[r].listing = "comments"
    BY <1>1, <1>3 DEF IInv, TurnOK, Listed
  <2>2. \A i \in 1..Len(comments) : ~(i <= 0)
    BY DEF IInv, Types
  <2> QED BY <1>1, <2>1, <2>2 DEF Listed, SeenTo, BeforeList
<1>4. Sound(r)
  BY <1>1, <1>2, <1>3 DEF Sound, Active, Before, BeforeList, IInv, RunOK
<1> QED BY <1>1, <1>4, QuietSteps

LEMMA SnapshotKeeps ==
    ASSUME IInv, NEW r \in Runs,
           CheckCheckout(r) \/ FetchDiff(r) \/ CheckUnchanged(r) \/ SourceFails(r)
    PROVE  IInv'
<1> USE DEF BeforeList, Snapped, Promoted
<1>1. RunOK(r) /\ job[r] \in Job /\ pull \in Pulls
  BY DEF IInv, Types
<1>2. CASE CheckCheckout(r)
  <2>1. CASE Stop(r, "checkout")
    BY <1>2, <2>1, Stopping DEF CheckCheckout
  <2>2. CASE Goto(r, "checkout", "diff") /\ UNCHANGED <<job, result>>
    BY <1>1, <1>2, <2>2, GoingOn DEF CheckCheckout
  <2> QED BY <1>2, <2>1, <2>2 DEF CheckCheckout
<1>3. CASE FetchDiff(r)
  <2> DEFINE j == [job[r] EXCEPT !.diff = pull]
  <2>1. /\ j \in Job
        /\ j.pull = job[r].pull /\ j.diff = pull /\ j.read = job[r].read /\ j.listing = job[r].listing
    BY <1>1 DEF Job
  <2>2. UpTo(j.pull, j.diff) /\ UpTo(j.diff, pull)
    BY <1>1, <2>1 DEF RunOK, UpTo, Pulls
  <2>3. Goto(r, "diff", "unchanged") /\ job' = [job EXCEPT ![r] = j] /\ result' = result /\ UNCHANGED github
    BY <1>3 DEF FetchDiff, With
  <2>4. /\ "diff" \in BeforeList \ {"idle"} /\ "unchanged" \in BeforeList \cup {"list"}
        /\ "unchanged" \notin Snapped /\ "unchanged" \notin Promoted
    OBVIOUS
  <2> HIDE DEF j, BeforeList, Snapped, Promoted
  <2> QED BY <2>1, <2>2, <2>3, <2>4, GoingOn
<1>4. CASE CheckUnchanged(r)
  <2>1. CASE Stop(r, "unchanged")
    BY <1>4, <2>1, Stopping DEF CheckUnchanged
  <2>2. CASE pull = job[r].pull /\ Goto(r, "unchanged", "review") /\ UNCHANGED <<job, result>>
    <3>1. UpTo(pull, job[r].diff) /\ UpTo(job[r].diff, pull)
      BY <1>1, <2>2 DEF RunOK, Goto
    <3>2. job[r].diff = job[r].pull
      <4>1. job[r].diff \in Pulls
        BY <1>1 DEF Job
      <4>2. job[r].diff.base = pull.base /\ job[r].diff.head = pull.head
        BY <1>1, <3>1, <4>1 DEF UpTo, Pulls
      <4> QED BY <1>1, <2>2, <4>1, <4>2 DEF Pulls
    <3> QED BY <1>1, <1>4, <2>2, <3>2, GoingOn DEF CheckUnchanged
  <2> QED BY <1>4, <2>1, <2>2 DEF CheckUnchanged
<1>5. CASE SourceFails(r)
  BY <1>5, Stopping DEF SourceFails
<1> QED BY <1>2, <1>3, <1>4, <1>5

\* A step of GoingOn that leaves the job alone.
LEMMA GoingOnAsIs ==
    ASSUME IInv, NEW r \in Runs, UNCHANGED github, NEW from \in BeforeList \ {"idle"},
           NEW to \in (BeforeList \cup {"list"}) \ {"unchanged"}, Goto(r, from, to),
           UNCHANGED <<job, result>>,
           to \in Snapped => from \in Snapped,
           to \in Promoted => from \in Promoted,
           to = "list" => job[r].items # {}
    PROVE  IInv'
<1>1. RunOK(r) /\ job[r] \in Job /\ pc[r] = from
  BY DEF IInv, Types, Goto
<1>2. /\ to \in Snapped => job[r].diff = job[r].pull
      /\ to \in Promoted => job[r].attempts = 1 /\ job[r].items \subseteq job[r].answer
  BY <1>1 DEF RunOK
<1> QED BY <1>1, <1>2, GoingOn

LEMMA ReviewKeeps ==
    ASSUME IInv, NEW r \in Runs, Review(r) \/ Verify(r) \/ Promote(r) \/ Adopt(r)
    PROVE  IInv'
<1>1. RunOK(r) /\ job[r] \in Job /\ UNCHANGED github
  BY DEF IInv, Types, Review, Verify, Promote, Adopt
<1>2. /\ {"review", "verify", "promote", "adopt"} \subseteq BeforeList \ {"idle"}
      /\ {"verify", "promote", "adopt", "refuse", "plan"} \subseteq (BeforeList \cup {"list"}) \ {"unchanged"}
      /\ {"review", "verify", "promote", "adopt"} \subseteq Snapped
      /\ {"verify", "promote", "refuse"} \cap Promoted = {}
      /\ "refuse" \notin Snapped
      /\ "adopt" \in Promoted
      /\ "verify" # "list" /\ "adopt" # "list" /\ "plan" # "list" /\ "refuse" # "list"
  BY DEF BeforeList, Snapped, Promoted
<1>3. pc[r] \in Snapped => job[r].diff = job[r].pull
  BY <1>1 DEF RunOK
<1>4. CASE Review(r)
  <2>1. ASSUME NEW answer \in SUBSET Findings, NEW attempts \in 1..2, Goto(r, "review", "verify"),
               With(r, [job[r] EXCEPT !.answer = answer, !.attempts = attempts])
        PROVE  IInv'
    <3> DEFINE j == [job[r] EXCEPT !.answer = answer, !.attempts = attempts]
    <3>1. /\ j \in Job /\ j.pull = job[r].pull /\ j.diff = job[r].diff
          /\ j.read = job[r].read /\ j.listing = job[r].listing
      <4>1. attempts \in 0..2
        OBVIOUS
      <4> QED BY <1>1, <4>1 DEF Job
    <3>2. job' = [job EXCEPT ![r] = j] /\ result' = result
      BY <1>4, <2>1 DEF With, Review
    <3>3. j.diff = j.pull
      BY <1>2, <1>3, <2>1, <3>1 DEF Goto
    <3> HIDE DEF j
    <3> QED BY <1>1, <1>2, <2>1, <3>1, <3>2, <3>3, GoingOn
  <2>2. ASSUME Goto(r, "review", "refuse"), UNCHANGED job
        PROVE  IInv'
    <3>1. UNCHANGED <<job, result>>
      BY <1>4, <2>2 DEF Review
    <3> QED BY <1>1, <1>2, <2>2, <3>1, GoingOnAsIs
  <2> QED BY <1>4, <2>1, <2>2 DEF Review
<1>5. CASE Verify(r)
  <2>1. PICK to \in {"promote", "refuse"} : Goto(r, "verify", to)
    BY <1>5 DEF Verify
  <2>2. UNCHANGED <<job, result>>
    BY <1>5 DEF Verify
  <2> QED BY <1>1, <1>2, <2>1, <2>2, GoingOnAsIs
<1>6. CASE Promote(r)
  <2>1. ASSUME Unaltered(r, {"checkpoint", "packet", "response"}), job[r].attempts = 1,
               Goto(r, "promote", "adopt"),
               With(r, [job[r] EXCEPT !.items = Said(r, "response", job[r].answer)])
        PROVE  IInv'
    <3> DEFINE j == [job[r] EXCEPT !.items = job[r].answer]
    <3>1. Said(r, "response", job[r].answer) = job[r].answer
      BY <2>1 DEF Said, Unaltered
    <3>2. /\ j \in Job /\ j.pull = job[r].pull /\ j.diff = job[r].diff
          /\ j.read = job[r].read /\ j.listing = job[r].listing
          /\ j.attempts = job[r].attempts /\ j.items = job[r].answer /\ j.answer = job[r].answer
      <4>1. job[r].answer \in SUBSET Findings
        BY <1>1 DEF Job
      <4>2. ASSUME NEW x \in SUBSET Findings, NEW k, k = [job[r] EXCEPT !.items = x]
            PROVE  /\ k \in Job /\ k.pull = job[r].pull /\ k.diff = job[r].diff
                   /\ k.read = job[r].read /\ k.listing = job[r].listing
                   /\ k.attempts = job[r].attempts /\ k.items = x /\ k.answer = job[r].answer
        BY <1>1, <4>2 DEF Job
      <4> QED BY <4>1, <4>2
    <3>3. job' = [job EXCEPT ![r] = j] /\ result' = result
      BY <1>6, <2>1, <3>1 DEF With, Promote
    <3>4. j.diff = j.pull
      BY <1>2, <1>3, <2>1, <3>2 DEF Goto
    <3>5. /\ "promote" \in BeforeList \ {"idle"} /\ "adopt" \in BeforeList \cup {"list"}
          /\ "adopt" # "unchanged" /\ "adopt" # "list"
      BY <1>2
    <3>6. j.attempts = 1 /\ j.items \subseteq j.answer
      BY <2>1, <3>2
    <3>7. Goto(r, "promote", "adopt") /\ UNCHANGED github
      BY <1>1, <2>1
    <3> HIDE DEF j
    <3> QED BY <3>2, <3>3, <3>4, <3>5, <3>6, <3>7, GoingOn
  <2>2. ASSUME Goto(r, "promote", "refuse"), UNCHANGED job
        PROVE  IInv'
    <3>1. UNCHANGED <<job, result>>
      BY <1>6, <2>2 DEF Promote
    <3> QED BY <1>1, <1>2, <2>2, <3>1, GoingOnAsIs
  <2> QED BY <1>6, <2>1, <2>2 DEF Promote
<1>7. CASE Adopt(r)
  <2>1. ASSUME Unaltered(r, {"promoted"}), Goto(r, "adopt", "plan"),
               With(r, [job[r] EXCEPT !.items = Said(r, "promoted", @)]), UNCHANGED result
        PROVE  IInv'
    <3>1. Said(r, "promoted", job[r].items) = job[r].items
      BY <2>1 DEF Said, Unaltered
    <3>2. [job[r] EXCEPT !.items = Said(r, "promoted", @)] = job[r]
      BY <1>1, <3>1 DEF Job
    <3>3. job' = [job EXCEPT ![r] = job[r]]
      BY <2>1, <3>2 DEF With
    <3>4. "plan" # "unchanged" /\ job[r].attempts = 1 /\ job[r].items \subseteq job[r].answer
      BY <1>1, <1>2, <2>1 DEF RunOK, Goto
    <3>5. job[r].diff = job[r].pull
      BY <1>2, <1>3, <2>1 DEF Goto
    <3> QED BY <1>1, <1>2, <2>1, <3>3, <3>4, <3>5, GoingOn
  <2>2. ASSUME Goto(r, "adopt", "refuse"), With(r, [job[r] EXCEPT !.items = {}]), UNCHANGED result
        PROVE  IInv'
    <3> DEFINE j == [job[r] EXCEPT !.items = {}]
    <3>1. /\ j \in Job /\ j.pull = job[r].pull /\ j.diff = job[r].diff
          /\ j.read = job[r].read /\ j.listing = job[r].listing
      BY <1>1 DEF Job
    <3>2. job' = [job EXCEPT ![r] = j] /\ "refuse" # "unchanged"
      BY <2>2 DEF With
    <3> HIDE DEF j
    <3> QED BY <1>1, <1>2, <2>2, <3>1, <3>2, GoingOn
  <2>3. ASSUME Stop(r, "adopt") PROVE IInv'
    BY <1>1, <1>2, <2>3, Stopping
  <2> QED BY <1>7, <2>1, <2>2, <2>3 DEF Adopt
<1> QED BY <1>4, <1>5, <1>6, <1>7

LEMMA PlanKeeps ==
    ASSUME IInv, NEW r \in Runs, Refuse(r) \/ Plan(r) \/ Announce(r)
    PROVE  IInv'
<1>1. UNCHANGED github
  BY DEF Refuse, Plan, Announce
<1>2. /\ {"refuse", "plan", "announce"} \subseteq BeforeList \ {"idle"}
      /\ {"announce", "head"} \subseteq (BeforeList \cup {"list"}) \ {"unchanged"}
      /\ {"plan", "announce"} \subseteq Promoted /\ {"plan", "announce"} \subseteq Snapped
  BY DEF BeforeList, Snapped, Promoted
<1>3. \/ Stop(r, "refuse") \/ Stop(r, "plan")
      \/ Goto(r, "plan", "announce") /\ UNCHANGED <<job, result>>
      \/ Goto(r, "announce", "head") /\ UNCHANGED <<job, result>>
  BY DEF Refuse, Plan, Announce
<1>4. CASE Stop(r, "refuse") \/ Stop(r, "plan")
  BY <1>1, <1>2, <1>4, Stopping
<1>5. CASE Goto(r, "plan", "announce") /\ UNCHANGED <<job, result>>
  BY <1>1, <1>2, <1>5, GoingOnAsIs
<1>6. CASE Goto(r, "announce", "head") /\ UNCHANGED <<job, result>>
  BY <1>1, <1>2, <1>6, GoingOnAsIs
<1> QED BY <1>3, <1>4, <1>5, <1>6

-----------------------------------------------------------------------------
(* The publication.                                                        *)

\* A step of publish, or of what records its result, that keeps the evidence.
LEMMA Publishing ==
    ASSUME IInv, NEW r \in Runs, UNCHANGED github, pc[r] \in Promoted,
           NEW to \in Promoted, pc' = [pc EXCEPT ![r] = to] \/ (pc' = pc /\ to = pc[r]),
           NEW j \in Job, job' = [job EXCEPT ![r] = j] \/ (job' = job /\ j = job[r]),
           result' = result,
           j.pull = job[r].pull, j.diff = job[r].diff, j.answer = job[r].answer,
           j.attempts = job[r].attempts, j.items = job[r].items,
           to \in Before => pc[r] \in Before,
           to \in {"list", "recheck", "post"} => pc[r] \in {"list", "recheck", "post"},
           to \in {"readback", "confirm"} => pc[r] \in {"readback", "confirm"},
           pc[r] = "record" => to = "record",
           InTurn => Listed(r)'
    PROVE  IInv'
<1>1. /\ Moves(r) /\ pc'[r] = to /\ job'[r] = j /\ result'[r] = result[r]
      /\ UNCHANGED <<timing, pull, comments, reviews, late>>
  <2>1. to \in PcStates /\ result[r] \in Statuses /\ Types /\ pc \in [Runs -> PcStates]
    BY ReviewSets DEF IInv, Types, Snapped
  <2>2. pc' = [pc EXCEPT ![r] = to]
    BY <2>1
  <2>3. result' = [result EXCEPT ![r] = result[r]] \/ (result' = result /\ result[r] = result[r])
    OBVIOUS
  <2> QED BY ZenonT(60), <2>1, <2>2, <2>3, Moving
<1>2. Evidence(r)' = Evidence(r)
  BY <1>1 DEF Evidence
<1>3. RunOK(r)'
  <2>1. RunOK(r) /\ pc[r] \in Snapped /\ to # "unchanged"
    BY DEF IInv, Snapped, Promoted
  <2>2. result[r] = "published" => to = "record"
    BY <2>1 DEF RunOK, Promoted
  <2>3. UpTo(j.pull, pull)
    BY <2>1 DEF RunOK
  <2> QED BY <1>1, <2>1, <2>2, <2>3 DEF RunOK
<1>4. Sound(r)
  <2>1. Active(r)
    BY DEF Active, Promoted
  <2> QED BY <1>1, <1>2, <1>3, <2>1 DEF Sound
<1> QED BY <1>1, <1>4, QuietSteps

LEMMA CheckHeadKeeps == ASSUME IInv, NEW r \in Runs, CheckHead(r) PROVE IInv'
<1>1. UNCHANGED github /\ pc[r] = "head"
  BY DEF CheckHead
<1>2. /\ "head" \in Promoted \ {"record"} /\ {} \in SUBSET Findings
      /\ {"no_findings", "stale_head"} \subseteq Statuses
      /\ "head" \in BeforeList \ {"idle"} /\ "list" \in (BeforeList \cup {"list"}) \ {"unchanged"}
      /\ "head" \in Snapped
  BY DEF Promoted, Statuses, BeforeList, Snapped
<1>3. \/ Return(r, "head", "no_findings", {})
      \/ Return(r, "head", "stale_head", {})
      \/ job[r].items # {} /\ Goto(r, "head", "list") /\ UNCHANGED <<job, result>>
  BY DEF CheckHead
<1>4. CASE Return(r, "head", "no_findings", {})
  BY <1>1, <1>2, <1>4, Returning
<1>5. CASE Return(r, "head", "stale_head", {})
  BY <1>1, <1>2, <1>5, Returning
<1>6. CASE job[r].items # {} /\ Goto(r, "head", "list") /\ UNCHANGED <<job, result>>
  BY <1>1, <1>2, <1>6, GoingOnAsIs
<1> QED BY <1>3, <1>4, <1>5, <1>6

LEMMA PendingTypes ==
    ASSUME IInv, NEW r \in Runs
    PROVE  Pending(r) \in SUBSET Findings /\ Skipped(r) \in SUBSET Findings
<1>1. job[r] \in Job
  BY DEF IInv, Types
<1> QED BY <1>1 DEF Job, Pending, Skipped

\* What a page adds to what a run has seen.
LEMMA PageSeen ==
    ASSUME NEW S, NEW entries \in Seq(S), NEW read \in Nat, NEW seen,
           \A i \in 1..Len(entries) : i <= read => entries[i].markers \subseteq seen
    PROVE  LET all == seen \cup UNION {entries[i].markers : i \in PageOf(entries, read)}
           IN  /\ \A i \in 1..Len(entries) : i <= read + PageSize => entries[i].markers \subseteq all
               /\ Short(entries, read) => \A i \in 1..Len(entries) : entries[i].markers \subseteq all
<1> DEFINE all == seen \cup UNION {entries[i].markers : i \in PageOf(entries, read)}
<1>1. Len(entries) \in Nat /\ PageSize \in Nat
  BY PublisherAssumption
<1>2. ASSUME NEW i \in 1..Len(entries), i <= read + PageSize
      PROVE  entries[i].markers \subseteq all
  <2>1. CASE i <= read
    BY <2>1
  <2>2. CASE ~(i <= read)
    <3>1. i \in PageOf(entries, read)
      BY <1>1, <1>2, <2>2 DEF PageOf
    <3> QED BY <3>1
  <2> QED BY <2>1, <2>2
<1>3. ASSUME Short(entries, read), NEW i \in 1..Len(entries)
      PROVE  entries[i].markers \subseteq all
  <2>1. i <= read + PageSize
    BY <1>1, <1>3 DEF Short
  <2> QED BY <1>2, <2>1
<1> QED BY <1>2, <1>3

Turned(j, listing, page, read) ==
    [j EXCEPT !.listing = listing, !.page = page, !.read = read]

SameEvidence(k, j) ==
    /\ k.pull = j.pull /\ k.diff = j.diff /\ k.answer = j.answer
    /\ k.attempts = j.attempts /\ k.items = j.items

LEMMA TurnedPage ==
    ASSUME NEW j \in Job, NEW listing \in {"comments", "reviews"}, NEW page \in 1..MaxPages,
           NEW read \in Nat
    PROVE  /\ Turned(j, listing, page, read) \in Job
           /\ SameEvidence(Turned(j, listing, page, read), j)
           /\ Turned(j, listing, page, read).seen = j.seen
           /\ Turned(j, listing, page, read).listing = listing
           /\ Turned(j, listing, page, read).read = read
BY DEF Job, Turned, SameEvidence

NextPage(j) == [j EXCEPT !.page = @ + 1, !.read = @ + PageSize]

LEMMA TurnedOn ==
    ASSUME NEW j \in Job, j.page # MaxPages
    PROVE  /\ NextPage(j) \in Job
           /\ SameEvidence(NextPage(j), j)
           /\ NextPage(j).seen = j.seen /\ NextPage(j).listing = j.listing
           /\ NextPage(j).read = j.read + PageSize
<1>1. j.page + 1 \in 1..MaxPages /\ j.read + PageSize \in Nat
  BY PublisherAssumption DEF Job
<1> QED BY <1>1 DEF NextPage, Job, SameEvidence

LEMMA ListKeeps == ASSUME IInv, NEW r \in Runs, List(r) PROVE IInv'
<1> DEFINE entries == Listing(r)
           seen == job[r].seen \cup UNION {entries[i].markers : i \in PageOf(entries, job[r].read)}
           j == [job[r] EXCEPT !.seen = seen]
<1>1. job[r] \in Job /\ Types /\ UNCHANGED github /\ pc[r] = "list" /\ pc \in [Runs -> PcStates]
  BY DEF IInv, Types, List
<1>2. comments \in Seq(CommentType) /\ reviews \in Seq(ReviewType)
  BY <1>1 DEF Types
<1>3. seen \in SUBSET Findings
  <2>1. entries = comments \/ entries = reviews
    BY DEF Listing
  <2>2. ASSUME NEW i \in 1..Len(comments) PROVE comments[i].markers \subseteq Findings
    <3>1. comments[i] \in CommentType
      BY <1>2
    <3> QED BY <3>1 DEF CommentType
  <2>3. ASSUME NEW i \in 1..Len(reviews) PROVE reviews[i].markers \subseteq Findings
    <3>1. reviews[i] \in ReviewType
      BY <1>2
    <3> QED BY <3>1 DEF ReviewType
  <2>4. \A i \in 1..Len(entries) : entries[i].markers \subseteq Findings
    BY <2>1, <2>2, <2>3
  <2> QED BY <1>1, <2>4 DEF Job, PageOf
<1>4. job[r].read \in Nat /\ PageSize \in Nat /\ MaxPages \in Nat /\ job[r].page \in 1..MaxPages
  BY <1>1, PublisherAssumption DEF Job
<1>5. ASSUME job[r].listing = "comments", SeenTo(r, comments, job[r].read)
      PROVE  /\ \A i \in 1..Len(comments) : i <= job[r].read + PageSize => comments[i].markers \subseteq seen
             /\ Short(entries, job[r].read) => \A i \in 1..Len(comments) : comments[i].markers \subseteq seen
  <2>1. entries = comments
    BY <1>5 DEF Listing
  <2> QED BY <1>2, <1>4, <1>5, <2>1, PageSeen DEF SeenTo
<1>6. ASSUME job[r].listing = "reviews", SeenTo(r, reviews, job[r].read)
      PROVE  /\ \A i \in 1..Len(reviews) : i <= job[r].read + PageSize => reviews[i].markers \subseteq seen
             /\ Short(entries, job[r].read) => \A i \in 1..Len(reviews) : reviews[i].markers \subseteq seen
  <2>1. entries = reviews
    BY <1>6 DEF Listing
  <2> QED BY <1>2, <1>4, <1>6, <2>1, PageSeen DEF SeenTo
<1>7. InTurn => \/ job[r].listing = "comments" /\ SeenTo(r, comments, job[r].read)
               \/ /\ job[r].listing = "reviews"
                  /\ SeenAll(r, comments) /\ SeenTo(r, reviews, job[r].read)
  BY <1>1 DEF IInv, TurnOK, Listed
<1>8. job[r].seen \subseteq seen /\ "list" \in Promoted /\ "recheck" \in Promoted /\ {"list", "recheck"} \subseteq Before
      /\ {"list", "recheck"} \cap BeforeList = {}
  BY DEF Promoted, Before, BeforeList
<1>9. UNCHANGED <<comments, reviews, timing>>
  BY <1>1 DEF github
<1>10. \A k \in Job : job' = [job EXCEPT ![r] = k] => job'[r] = k
  BY <1>1 DEF Types
<1> HIDE DEF seen
<1>10a. /\ j \in Job
      /\ j.pull = job[r].pull /\ j.diff = job[r].diff /\ j.answer = job[r].answer
      /\ j.attempts = job[r].attempts /\ j.items = job[r].items
      /\ j.seen = seen /\ j.listing = job[r].listing /\ j.page = job[r].page
      /\ j.read = job[r].read
  BY <1>1, <1>3 DEF Job
<1>11. CASE Short(entries, job[r].read) /\ job[r].listing = "comments"
  <2> DEFINE k == Turned(j, "reviews", 1, 0)
  <2>1. /\ k \in Job /\ SameEvidence(k, j)
        /\ k.seen = seen /\ k.listing = "reviews" /\ k.read = 0
    <3>1. 1 \in 1..MaxPages
      BY <1>4
    <3> HIDE DEF j
    <3> QED BY <1>10a, <3>1, TurnedPage
  <2>2. job' = [job EXCEPT ![r] = k] /\ pc' = pc /\ result' = result
    BY <1>11 DEF List, With, seen, Turned
  <2> HIDE DEF k
  <2>3. job'[r] = k /\ pc'[r] = "list"
    BY <1>1, <1>10, <2>1, <2>2
  <2>4. \A i \in 1..Len(reviews) : ~(i <= 0)
    BY <1>2
  <2>5. InTurn => Listed(r)'
    BY <1>5, <1>7, <1>8, <1>9, <1>11, <2>1, <2>3, <2>4 DEF Listed, SeenAll, SeenTo
  <2> HIDE DEF j
  <2> QED BY <1>1, <1>8, <1>10a, <2>1, <2>2, <2>5, Publishing DEF SameEvidence
<1>12. CASE Short(entries, job[r].read) /\ job[r].listing # "comments"
  <2>1. /\ j \in Job
        /\ j.pull = job[r].pull /\ j.diff = job[r].diff /\ j.answer = job[r].answer
        /\ j.attempts = job[r].attempts /\ j.items = job[r].items
        /\ j.seen = seen /\ j.listing = job[r].listing
    BY <1>1, <1>3 DEF Job
  <2>2. job' = [job EXCEPT ![r] = j] /\ pc' = [pc EXCEPT ![r] = "recheck"] /\ result' = result
    BY <1>12, <2>1 DEF List, With, Goto, seen
  <2> HIDE DEF j
  <2>3. job'[r] = j /\ pc'[r] = "recheck"
    BY <1>1, <1>10, <2>1, <2>2
  <2>4. InTurn => Listed(r)'
    BY <1>6, <1>7, <1>8, <1>9, <1>12, <2>1, <2>3 DEF Listed, SeenAll
  <2> QED BY <1>1, <1>8, <2>1, <2>2, <2>4, Publishing
<1>13. CASE ~Short(entries, job[r].read) /\ job[r].page = MaxPages
  <2>1. Return(r, "list", "reconciliation_incomplete", {})
    BY <1>1, <1>13 DEF List, Job
  <2>2. /\ "list" \in Promoted \ {"record"} /\ {} \in SUBSET Findings
        /\ "reconciliation_incomplete" \in Statuses
    BY DEF Promoted, Statuses
  <2> QED BY <1>1, <2>1, <2>2, Returning
<1>14. CASE ~Short(entries, job[r].read) /\ job[r].page # MaxPages
  <2> DEFINE k == NextPage(j)
  <2>1. /\ k \in Job /\ SameEvidence(k, j)
        /\ k.seen = seen /\ k.listing = job[r].listing /\ k.read = job[r].read + PageSize
    <3> HIDE DEF j
    <3> QED BY <1>10a, <1>14, TurnedOn
  <2>2. j.page = job[r].page
    BY <1>10a
  <2>3. job' = [job EXCEPT ![r] = k] /\ pc' = pc /\ result' = result
    BY <1>14, <2>2 DEF List, With, seen, NextPage
  <2> HIDE DEF k
  <2>4. job'[r] = k /\ pc'[r] = "list"
    BY <1>1, <1>10, <2>1, <2>3
  <2>5. InTurn => Listed(r)'
    BY <1>5, <1>6, <1>7, <1>8, <1>9, <1>14, <2>1, <2>4 DEF Listed, SeenAll, SeenTo
  <2> HIDE DEF j
  <2> QED BY <1>1, <1>8, <1>10a, <2>1, <2>3, <2>5, Publishing DEF SameEvidence
<1> QED BY <1>11, <1>12, <1>13, <1>14

LEMMA RecheckKeeps == ASSUME IInv, NEW r \in Runs, Recheck(r) PROVE IInv'
<1>1. UNCHANGED github /\ pc[r] = "recheck" /\ job[r] \in Job /\ pc \in [Runs -> PcStates]
  BY DEF Recheck, IInv, Types
<1>2. /\ "recheck" \in Promoted \ {"record"} /\ "post" \in Promoted
      /\ "recheck" \in Before /\ "post" \in PcStates /\ {"recheck", "post"} \cap BeforeList = {}
      /\ {"skipped_duplicate", "stale_head"} \subseteq Statuses
  BY DEF Promoted, Statuses, Before, BeforeList, PcStates
<1>3. \/ Return(r, "recheck", "skipped_duplicate", Skipped(r))
      \/ Return(r, "recheck", "stale_head", Skipped(r))
      \/ Goto(r, "recheck", "post") /\ UNCHANGED <<job, result>>
  BY DEF Recheck
<1>4. CASE Return(r, "recheck", "skipped_duplicate", Skipped(r))
  BY <1>1, <1>2, <1>4, Returning, PendingTypes
<1>5. CASE Return(r, "recheck", "stale_head", Skipped(r))
  BY <1>1, <1>2, <1>5, Returning, PendingTypes
<1>6. CASE Goto(r, "recheck", "post") /\ UNCHANGED <<job, result>>
  <2>1. pc' = [pc EXCEPT ![r] = "post"] /\ pc'[r] = "post" /\ job' = job
    BY <1>1, <1>6 DEF Goto
  <2>2. InTurn => Listed(r)'
    <3>1. InTurn => Listed(r)
      BY DEF IInv, TurnOK
    <3> QED BY <1>1, <1>2, <2>1, <3>1 DEF Listed, SeenAll, github
  <2> QED BY <1>1, <1>2, <1>6, <2>1, <2>2, Publishing
<1> QED BY <1>3, <1>4, <1>5, <1>6

LEMMA CommentPairs ==
    ASSUME Types, NEW n
    PROVE  CommentsOf(n) \in SUBSET (Findings \X Nat)
<1>1. \A i \in 1..Len(comments) : comments[i] \in CommentType
  BY DEF Types
<1>2. \A i \in 1..Len(comments) : comments[i].markers \subseteq Findings /\ i \in Nat
  BY <1>1 DEF CommentType, Types
<1> QED BY <1>2 DEF CommentsOf

LEMMA ReadBackKeeps == ASSUME IInv, NEW r \in Runs, ReadBack(r) PROVE IInv'
<1>1. /\ UNCHANGED github /\ pc[r] = "readback" /\ job[r] \in Job /\ pc \in [Runs -> PcStates]
      /\ job \in [Runs -> Job]
  BY DEF ReadBack, IInv, Types
<1>2. /\ "readback" \in Promoted \ {"record"} /\ "confirm" \in Promoted
      /\ {"readback", "confirm"} \cap Before = {} /\ {"readback", "confirm"} \cap BeforeList = {}
      /\ {"readback", "confirm"} \cap {"list", "recheck", "post"} = {}
      /\ {"reconciliation_incomplete", "failed"} \subseteq Statuses
  BY DEF Promoted, Statuses, Before, BeforeList
<1>3. /\ PageSize \in Nat /\ MaxPages \in Nat /\ job[r].page \in 1..MaxPages /\ job[r].read \in Nat
      /\ job[r].listing \in {"comments", "reviews"}
  BY <1>1, PublisherAssumption DEF Job
<1>4. CASE Return(r, "readback", "reconciliation_incomplete", Skipped(r))
  BY <1>1, <1>2, <1>4, Returning, PendingTypes
<1>5. CASE Return(r, "readback", "failed", Skipped(r))
  BY <1>1, <1>2, <1>5, Returning, PendingTypes
<1>6. CASE /\ With(r, [job[r] EXCEPT !.published = CommentsOf(job[r].review)])
           /\ Goto(r, "readback", "confirm") /\ UNCHANGED result
  <2> DEFINE j == [job[r] EXCEPT !.published = CommentsOf(job[r].review)]
  <2>1. j \in Job /\ SameEvidence(j, job[r])
    <3>1. CommentsOf(job[r].review) \in SUBSET (Findings \X Nat)
      BY CommentPairs DEF IInv
    <3> QED BY <1>1, <3>1 DEF Job, SameEvidence
  <2>2. job' = [job EXCEPT ![r] = j] /\ pc' = [pc EXCEPT ![r] = "confirm"]
    BY <1>6 DEF With, Goto
  <2> HIDE DEF j
  <2>3. pc'[r] = "confirm"
    BY <1>1, <2>2
  <2>4. Listed(r)'
    BY <1>2, <2>3 DEF Listed
  <2> QED BY <1>1, <1>2, <1>6, <2>1, <2>2, <2>4, Publishing DEF SameEvidence
<1>7. CASE /\ job[r].page # MaxPages
           /\ With(r, [job[r] EXCEPT !.page = @ + 1, !.read = @ + PageSize])
           /\ UNCHANGED <<pc, result>>
  <2> DEFINE j == NextPage(job[r])
  <2>1. j \in Job /\ SameEvidence(j, job[r])
    BY <1>1, <1>7, TurnedOn
  <2>3. job' = [job EXCEPT ![r] = j] /\ pc' = pc
    BY <1>7 DEF With, NextPage
  <2> HIDE DEF j
  <2>4. Listed(r)'
    BY <1>1, <1>2, <2>3 DEF Listed
  <2> QED BY <1>1, <1>2, <1>7, <2>1, <2>3, <2>4, Publishing DEF SameEvidence
<1> QED BY <1>4, <1>5, <1>6, <1>7 DEF ReadBack

LEMMA ConfirmKeeps == ASSUME IInv, NEW r \in Runs, Confirm(r) PROVE IInv'
<1>1. /\ "confirm" \in Promoted \ {"record"} /\ {"published", "stale_head_race"} \subseteq Statuses
      /\ "stale_head_race" # "published"
  BY DEF Promoted, Statuses
<1>2. UNCHANGED github
  BY DEF Confirm
<1>3. CASE pull.head = job[r].pull.head
  <2>1. Return(r, "confirm", "published", Skipped(r))
    BY <1>3 DEF Confirm
  <2> QED BY <1>1, <1>2, <1>3, <2>1, Returning, PendingTypes
<1>4. CASE pull.head # job[r].pull.head
  <2>1. Return(r, "confirm", "stale_head_race", Skipped(r))
    BY <1>4 DEF Confirm
  <2> QED BY <1>1, <1>2, <2>1, Returning, PendingTypes
<1> QED BY <1>3, <1>4

LEMMA CallFailsKeeps == ASSUME IInv, NEW r \in Runs, CallFails(r) PROVE IInv'
<1>1. /\ {"head", "list", "recheck", "readback", "confirm"} \subseteq Promoted \ {"record"}
      /\ {"failed", "reconciliation_incomplete"} \subseteq Statuses \ {"published"}
  BY DEF Promoted, Statuses
<1>2. PICK from \in {"head", "list", "recheck", "readback", "confirm"},
           status \in {"failed", "reconciliation_incomplete"}, skipped \in {{}, Skipped(r)} :
               Return(r, from, status, skipped)
  BY DEF CallFails
<1>3. skipped \in SUBSET Findings
  BY PendingTypes
<1> QED BY <1>1, <1>2, <1>3, Returning DEF CallFails

-----------------------------------------------------------------------------
(* The end of a command.                                                   *)

LEMMA KeptJob ==
    ASSUME IInv, NEW r \in Runs
    PROVE  /\ Kept(r) \in Job
           /\ job[r].items = {} => Kept(r) = NoJob
           /\ job[r].items # {} => SameEvidence(Kept(r), job[r])
<1>1. job[r] \in Job /\ NoJob \in Job
  BY ReviewSets DEF IInv, Types
<1>2. CASE job[r].items = {}
  BY <1>1, <1>2 DEF Kept
<1>3. CASE job[r].items # {}
  <2>1. /\ job[r].pull \in Pulls /\ job[r].diff \in Pulls /\ job[r].answer \in SUBSET Findings
        /\ job[r].attempts \in 0..2 /\ job[r].items \in SUBSET Findings /\ job[r].review \in Nat
    BY <1>1 DEF Job
  <2>2. Kept(r) = [NoJob EXCEPT !.pull = job[r].pull, !.diff = job[r].diff,
                                !.answer = job[r].answer, !.attempts = job[r].attempts,
                                !.items = job[r].items, !.review = job[r].review]
    BY <1>3 DEF Kept
  <2>3. Kept(r) \in Job
    BY <1>1, <2>1, <2>2 DEF Job
  <2>4. SameEvidence(Kept(r), job[r])
    BY <2>2 DEF SameEvidence, NoJob
  <2> QED BY <1>3, <2>3, <2>4
<1> QED BY <1>2, <1>3

LEMMA Ending ==
    ASSUME IInv, NEW r \in Runs, UNCHANGED github, Active(r),
           pc' = [pc EXCEPT ![r] = "done"], With(r, Kept(r)),
           NEW res \in Statuses,
           result' = [result EXCEPT ![r] = res] \/ (result' = result /\ res = result[r]),
           res = "published" => result[r] = "published"
    PROVE  IInv'
<1>1. /\ Moves(r) /\ pc'[r] = "done" /\ job'[r] = Kept(r) /\ result'[r] = res
      /\ pull' = pull
  <2>1. "done" \in PcStates /\ Types
    BY DEF PcStates, IInv
  <2>2. PICK j \in Job : j = Kept(r)
    BY KeptJob
  <2>3. job' = [job EXCEPT ![r] = j]
    BY <2>2 DEF With
  <2>4. Moves(r) /\ pc'[r] = "done" /\ job'[r] = j /\ result'[r] = res
    BY <2>1, <2>3 DEF Types, Moves, github
  <2> QED BY <2>2, <2>4 DEF Moves, github
<1>2. UpTo(Kept(r).pull, pull)
  <2>1. UpTo(job[r].pull, pull) /\ UpTo(NoPull, pull) /\ NoJob.pull = NoPull
    <3>1. pull \in Pulls /\ RunOK(r)
      BY DEF IInv, Types
    <3> QED BY <3>1 DEF RunOK, UpTo, NoPull, NoJob, Pulls
  <2>2. Kept(r).pull = job[r].pull \/ Kept(r).pull = NoPull
    BY <2>1, KeptJob DEF SameEvidence
  <2> QED BY <2>1, <2>2
<1>3. job[r].items = {} \/ Evidence(r)' = Evidence(r)
  BY <1>1, KeptJob DEF Evidence, SameEvidence
<1>4. RunOK(r)'
  BY <1>1, <1>2 DEF RunOK, Snapped, Promoted
<1>5. /\ "done" \notin Before /\ "done" \notin BeforeList
      /\ "done" \notin {"readback", "confirm"} /\ "done" \notin {"list", "recheck", "post"}
  BY DEF Before, BeforeList
<1>6. Sound(r)
  BY <1>1, <1>3, <1>4, <1>5 DEF Sound, Listed, Active
<1> QED BY <1>1, <1>6, QuietSteps

LEMMA RecordKeeps == ASSUME IInv, NEW r \in Runs, Record(r) PROVE IInv'
<1>1. /\ UNCHANGED github /\ pc[r] = "record" /\ result' = result
      /\ job[r] \in Job /\ pc \in [Runs -> PcStates] /\ result[r] \in Statuses
  BY DEF Record, IInv, Types
<1>2. CASE Goto(r, "record", "done") /\ With(r, Kept(r))
  <2>1. Active(r) /\ pc' = [pc EXCEPT ![r] = "done"]
    BY <1>1, <1>2 DEF Active, Goto
  <2> QED BY <1>1, <1>2, <2>1, Ending
<1>3. CASE With(r, [job[r] EXCEPT !.noted = @ + 1]) /\ UNCHANGED pc
  <2> DEFINE j == [job[r] EXCEPT !.noted = @ + 1]
  <2>1. j \in Job /\ SameEvidence(j, job[r])
    BY <1>1 DEF Job, SameEvidence
  <2>2. job' = [job EXCEPT ![r] = j] /\ pc' = pc
    BY <1>3 DEF With
  <2>3. /\ "record" \in Promoted /\ "record" \notin Before /\ "record" \notin BeforeList
        /\ "record" \notin {"list", "recheck", "post"} /\ "record" \notin {"readback", "confirm"}
    BY DEF Promoted, Before, BeforeList
  <2> HIDE DEF j
  <2>4. Listed(r)'
    BY <1>1, <2>2, <2>3 DEF Listed
  <2> QED BY <1>1, <2>1, <2>2, <2>3, <2>4, Publishing DEF SameEvidence
<1> QED BY <1>2, <1>3 DEF Record

LEMMA CrashKeeps == ASSUME IInv, NEW r \in Runs, Crash(r) PROVE IInv'
<1>1. "killed" \in Statuses /\ "killed" # "published" /\ Active(r) /\ UNCHANGED github
  BY DEF Statuses, Crash, Active
<1> QED BY <1>1, Ending DEF Crash

-----------------------------------------------------------------------------
(* GitHub.                                                                 *)

\* GitHub takes reviews and comments, and POSTs to apply later; no run loses what its
\* posts are backed by.
Grows ==
    /\ timing' = timing
    /\ pull' \in Pulls /\ UpTo(pull, pull')
    /\ comments' \in Seq(CommentType) /\ reviews' \in Seq(ReviewType) /\ late' \subseteq PostType
    /\ Len(comments) <= Len(comments') /\ Len(reviews) <= Len(reviews')
    /\ \A k \in 1..Len(comments) : comments'[k] = comments[k]
    /\ \A i \in 1..Len(reviews) : reviews'[i] = reviews[i]
    /\ \A post \in late \cap late' : pc'[post.by] = pc[post.by] /\ result'[post.by] = result[post.by]
    /\ pc' \in [Runs -> PcStates] /\ job' \in [Runs -> Job] /\ result' \in [Runs -> Statuses]
    /\ \A r \in Runs : /\ Evidence(r)' = Evidence(r)
                       /\ result'[r] = "published" => result[r] = "published"

LEMMA Growing ==
    ASSUME IInv, Grows,
           \A r \in Runs : pc'[r] \in Before => ~Posted(r)',
           \A post \in late' \ late : LateOK(post)',
           \A i \in Len(reviews) + 1..Len(reviews') : ReviewOK(i)',
           \A k \in Len(comments) + 1..Len(comments') : CommentOK(k)'
    PROVE  Types' /\ PostedOK'
<1>1. Types'
  BY DEF Grows, IInv, Types
<1>2. ASSUME NEW q \in Runs, NEW commit, NEW markers, Backed(q, commit, markers)
      PROVE  Backed(q, commit, markers)'
  BY <1>2 DEF Backed, Evidence, Grows, Ids, Id
<1>3. \A set : Ids(set)' = Ids(set)
  BY DEF Ids, Id, Grows
<1>4. /\ Len(comments) \in Nat /\ Len(reviews) \in Nat
      /\ Len(comments') \in Nat /\ Len(reviews') \in Nat
      /\ 1..Len(reviews) \subseteq 1..Len(reviews')
  BY DEF IInv, Types, Grows
<1>5. ASSUME NEW post \in late' PROVE LateOK(post)'
  <2>1. CASE post \in late
    <3>1. post.by \in Runs /\ LateOK(post)
      BY <2>1 DEF IInv, Types, PostType, PostedOK
    <3>2. Backed(post.by, post.commit, Ids(post.items))'
      <4>1. Backed(post.by, post.commit, Ids(post.items))
        BY <3>1 DEF LateOK
      <4> QED BY <1>2, <1>3, <3>1, <4>1
    <3>3. pc'[post.by] = pc[post.by] /\ result'[post.by] = result[post.by]
      BY <2>1 DEF Grows
    <3> QED BY <3>1, <3>2, <3>3 DEF LateOK
  <2> QED BY <2>1
<1>6. ASSUME NEW i \in 1..Len(reviews') PROVE ReviewOK(i)'
  <2>1. CASE i \in 1..Len(reviews)
    <3>1. ReviewOK(i) /\ reviews'[i] = reviews[i]
      BY <2>1 DEF IInv, PostedOK, Grows
    <3>2. reviews[i].head <= pull'.head
      <4>1. reviews[i] \in ReviewType /\ pull \in Pulls
        BY <2>1 DEF IInv, Types
      <4>2. reviews[i].head \in Nat /\ pull.head \in Nat /\ pull'.head \in Nat
        BY <4>1 DEF ReviewType, Pulls, Grows
      <4>3. reviews[i].head <= pull.head /\ pull.head <= pull'.head
        BY <3>1 DEF ReviewOK, Grows, UpTo
      <4> QED BY <4>2, <4>3
    <3>3. reviews[i].by \in Runs =>
              /\ Backed(reviews[i].by, reviews[i].commit, reviews[i].markers)'
              /\ result'[reviews[i].by] = "published" => reviews[i].head = reviews[i].commit
      <4> SUFFICES ASSUME reviews[i].by \in Runs
                   PROVE  /\ Backed(reviews[i].by, reviews[i].commit, reviews[i].markers)'
                          /\ result'[reviews[i].by] = "published" => reviews[i].head = reviews[i].commit
        OBVIOUS
      <4>1. Backed(reviews[i].by, reviews[i].commit, reviews[i].markers)
        BY <3>1 DEF ReviewOK
      <4>2. Backed(reviews[i].by, reviews[i].commit, reviews[i].markers)'
        BY <1>2, <3>1, <4>1 DEF Backed, Evidence, Grows, Ids, Id
      <4>3. result'[reviews[i].by] = "published" => reviews[i].head = reviews[i].commit
        BY <3>1 DEF ReviewOK, Grows
      <4> QED BY <4>2, <4>3
    <3> QED BY <3>1, <3>2, <3>3 DEF ReviewOK
  <2>2. CASE i \notin 1..Len(reviews)
    BY <1>4, <2>2
  <2> QED BY <2>1, <2>2
<1>7. ASSUME NEW k \in 1..Len(comments') PROVE CommentOK(k)'
  <2>1. CASE k \in 1..Len(comments)
    <3>1. CommentOK(k) /\ comments'[k] = comments[k]
      BY <2>1 DEF IInv, PostedOK, Grows
    <3>2. CASE comments[k].review # 0
      <4>1. PICK i \in Nat : i = comments[k].review
        BY <1>4, <3>1, <3>2 DEF CommentOK
      <4>2. /\ i \in 1..Len(reviews) /\ i \in 1..Len(reviews')
            /\ reviews[i].by \in Runs /\ reviews'[i] = reviews[i]
            /\ comments[k].markers \subseteq Ids(job[reviews[i].by].answer)
        BY <1>4, <3>1, <3>2, <4>1 DEF CommentOK, Grows
      <4>3. job'[reviews[i].by].answer = job[reviews[i].by].answer
        BY <4>2 DEF Grows, Evidence
      <4>4. Ids(job[reviews[i].by].answer)' = Ids(job[reviews[i].by].answer)
        BY <4>2, <4>3 DEF Ids, Id, Grows
      <4> QED BY <3>1, <4>1, <4>2, <4>3, <4>4 DEF CommentOK
    <3> QED BY <3>1, <3>2 DEF CommentOK
  <2>2. CASE k \notin 1..Len(comments)
    BY <1>4, <2>2
  <2> QED BY <2>1, <2>2
<1> QED BY <1>1, <1>5, <1>6, <1>7 DEF PostedOK

LEMMA PushKeeps == ASSUME IInv, Push PROVE IInv'
<1>1. /\ pull \in Pulls /\ pull' \in Pulls /\ UpTo(pull, pull')
      /\ UNCHANGED <<timing, comments, reviews, late, pc, job, result>>
  <2>1. pull \in Pulls
    BY DEF IInv, Types
  <2> QED BY <2>1 DEF Push, Pulls, UpTo, runs
<1>2. ASSUME NEW p \in Pulls, UpTo(p, pull) PROVE UpTo(p, pull')
  BY <1>1, <1>2 DEF UpTo, Pulls
<1>3. \A r \in Runs : RunOK(r)'
  <2> TAKE r \in Runs
  <2>1. RunOK(r) /\ job[r].pull \in Pulls /\ job[r].diff \in Pulls
    <3>1. job[r] \in Job /\ RunOK(r)
      BY DEF IInv, Types
    <3> QED BY <3>1 DEF Job
  <2> QED BY <1>1, <1>2, <2>1 DEF RunOK
<1>4. Types' /\ PostedOK'
  <2>1. Grows
    <3>1. comments \in Seq(CommentType) /\ reviews \in Seq(ReviewType) /\ late \subseteq PostType
      BY DEF IInv, Types
    <3> QED BY <1>1, <3>1 DEF Grows, Evidence, IInv, Types
  <2>2. \A r \in Runs : pc'[r] \in Before => ~Posted(r)'
    BY <1>1 DEF IInv, PostedOK, Posted
  <2>3. Len(comments') = Len(comments) /\ Len(reviews') = Len(reviews) /\ late' = late
    BY <1>1
  <2>4. Len(comments) \in Nat /\ Len(reviews) \in Nat
    BY DEF IInv, Types
  <2> QED BY <2>1, <2>2, <2>3, <2>4, Growing
<1>5. TurnOK'
  BY <1>1 DEF IInv, TurnOK, InTurn, Id, Active, Listed, SeenTo, SeenAll, AtMostOnce
<1> QED BY <1>3, <1>4, <1>5 DEF IInv

\* Other people's entries have no marker.
LEMMA RemarkKeeps == ASSUME IInv, Remark PROVE IInv'
<1> DEFINE comment == [review |-> 0, markers |-> {}]
           review == [by |-> "people", commit |-> pull.head, head |-> pull.head, markers |-> {}]
<1>1. /\ UNCHANGED <<timing, pull, late, pc, job, result>>
      /\ comments \in Seq(CommentType) /\ reviews \in Seq(ReviewType) /\ late \subseteq PostType
      /\ pull \in Pulls /\ Len(comments) \in Nat /\ Len(reviews) \in Nat
  BY DEF Remark, runs, IInv, Types
<1>2. comment \in CommentType /\ review \in ReviewType /\ "people" \notin Runs
  BY <1>1, PublisherAssumption DEF CommentType, ReviewType, Pulls
<1>3. \/ comments' = Append(comments, comment) /\ reviews' = reviews
      \/ comments' = comments /\ reviews' = Append(reviews, review)
  BY DEF Remark
<1>4. /\ comment.review = 0 /\ comment.markers = {} /\ review.by = "people" /\ review.markers = {}
      /\ review.commit = pull.head /\ review.head = pull.head
  OBVIOUS
<1> HIDE DEF comment, review
<1>5. /\ comments' \in Seq(CommentType) /\ reviews' \in Seq(ReviewType)
      /\ Len(comments') \in Nat /\ Len(reviews') \in Nat
      /\ Len(comments) <= Len(comments') /\ Len(reviews) <= Len(reviews')
      /\ \A k \in 1..Len(comments) : comments'[k] = comments[k]
      /\ \A i \in 1..Len(reviews) : reviews'[i] = reviews[i]
      /\ \A k \in Len(comments) + 1..Len(comments') : comments'[k] = comment
      /\ \A i \in Len(reviews) + 1..Len(reviews') : reviews'[i] = review
  <2>1. CASE comments' = Append(comments, comment) /\ reviews' = reviews
    BY <1>1, <1>2, <2>1, Appending
  <2>2. CASE comments' = comments /\ reviews' = Append(reviews, review)
    BY <1>1, <1>2, <2>2, Appending
  <2> QED BY <1>3, <2>1, <2>2
<1>6. UpTo(pull, pull)
  BY <1>1 DEF UpTo, Pulls
<1>7. \A r \in Runs : RunOK(r)'
  BY <1>1 DEF IInv, RunOK
<1>8. Types' /\ PostedOK'
  <2>1. Grows
    BY <1>1, <1>5, <1>6 DEF Grows, Evidence, IInv, Types
  <2>2. ASSUME NEW r \in Runs, pc'[r] \in Before, Posted(r)' PROVE FALSE
    <3>1. ~Posted(r)
      BY <1>1, <2>2 DEF IInv, PostedOK
    <3>2. PICK i \in 1..Len(reviews') : reviews'[i].by = r
      BY <1>1, <2>2, <3>1 DEF Posted
    <3>3. i \in 1..Len(reviews) \/ i \in Len(reviews) + 1..Len(reviews')
      BY <1>1, <1>5
    <3> QED BY <1>2, <1>4, <1>5, <3>1, <3>2, <3>3 DEF Posted
  <2>3. \A i \in Len(reviews) + 1..Len(reviews') : ReviewOK(i)'
    <3>1. pull.head <= pull.head
      BY <1>1 DEF Pulls
    <3> QED BY <1>1, <1>2, <1>4, <1>5, <3>1 DEF ReviewOK
  <2>4. \A k \in Len(comments) + 1..Len(comments') : CommentOK(k)'
    BY <1>4, <1>5 DEF CommentOK
  <2>5. late' \ late = {}
    BY <1>1
  <2> QED BY <2>1, <2>2, <2>3, <2>4, <2>5, Growing
<1>9. TurnOK'
  <2> SUFFICES ASSUME InTurn' PROVE /\ late' = {}
                                    /\ \A q, r \in Runs : Active(q)' /\ Active(r)' => q = r
                                    /\ \A r \in Runs : Listed(r)'
                                    /\ AtMostOnce'
    BY DEF TurnOK
  <2>1. InTurn
    BY <1>1 DEF InTurn, Id
  <2>2. /\ late = {} /\ AtMostOnce
        /\ \A q, r \in Runs : Active(q) /\ Active(r) => q = r
        /\ \A r \in Runs : Listed(r)
    BY <2>1 DEF IInv, TurnOK
  <2>3. \A k \in 1..Len(comments') :
            \/ k \in 1..Len(comments) /\ comments'[k] = comments[k]
            \/ comments'[k].markers = {}
    BY <1>1, <1>4, <1>5
  <2>4. \A i \in 1..Len(reviews') :
            \/ i \in 1..Len(reviews) /\ reviews'[i] = reviews[i]
            \/ reviews'[i].markers = {}
    BY <1>1, <1>4, <1>5
  <2>5. \A r \in Runs : Listed(r)'
    <3> TAKE r \in Runs
    <3>1. \A n : SeenTo(r, comments, n) => SeenTo(r, comments, n)'
      BY <1>1, <2>3 DEF SeenTo
    <3>2. \A n : SeenTo(r, reviews, n) => SeenTo(r, reviews, n)'
      BY <1>1, <2>4 DEF SeenTo
    <3>3. /\ SeenAll(r, comments) => SeenAll(r, comments)'
          /\ SeenAll(r, reviews) => SeenAll(r, reviews)'
      BY <1>1, <2>3, <2>4 DEF SeenAll
    <3>4. Listed(r) /\ job'[r] = job[r] /\ pc'[r] = pc[r]
      BY <1>1, <2>2
    <3> QED BY <3>1, <3>2, <3>3, <3>4 DEF Listed
  <2>6. AtMostOnce'
    BY <2>2, <2>3, <2>4 DEF AtMostOnce
  <2> QED BY <1>1, <2>2, <2>5, <2>6 DEF Active
<1> QED BY <1>7, <1>8, <1>9 DEF IInv

\* A POST is applied, and its run is in a state after it.
LEMMA Applying ==
    ASSUME IInv, NEW post \in PostType, Apply(post), UNCHANGED <<timing, pull>>,
           Backed(post.by, post.commit, Ids(post.items)),
           late' \subseteq late,
           pc' \in [Runs -> PcStates], job' \in [Runs -> Job], result' \in [Runs -> Statuses],
           \A q \in late' : pc'[q.by] = pc[q.by] /\ result'[q.by] = result[q.by],
           \A r \in Runs : /\ Evidence(r)' = Evidence(r)
                           /\ result'[r] = "published" => result[r] = "published"
                           /\ pc'[r] \in Before => pc[r] \in Before /\ r # post.by,
           result'[post.by] # "published"
    PROVE  Types' /\ PostedOK'
<1>1. /\ post.by \in Runs /\ post.commit \in Nat /\ post.items \in SUBSET Findings
      /\ pull \in Pulls /\ Types /\ late \subseteq PostType
      /\ Len(comments) \in Nat /\ Len(reviews) \in Nat
  BY DEF IInv, Types, PostType
<1>0. PICK n \in Nat : n = Len(reviews) + 1
  BY <1>1
<1>2. /\ reviews' \in Seq(ReviewType)
      /\ comments' \in Seq(CommentType)
      /\ Len(reviews') = n
      /\ \A i \in 1..Len(reviews) : reviews'[i] = reviews[i]
      /\ reviews'[n].by = post.by /\ reviews'[n].commit = post.commit
      /\ reviews'[n].head = pull.head /\ reviews'[n].markers = Ids(post.items \ Inline)
      /\ Len(comments') \in Nat /\ Len(comments) <= Len(comments')
      /\ \A k \in 1..Len(comments) : comments'[k] = comments[k]
      /\ \A k \in Len(comments) + 1..Len(comments') :
             /\ comments'[k].review = n
             /\ comments'[k].markers \subseteq Ids(post.items \cap Inline)
  <2>1. /\ reviews'[n] = [by |-> post.by, commit |-> post.commit, head |-> pull.head,
                          markers |-> Ids(post.items \ Inline)]
        /\ Len(reviews') = n
        /\ \A k \in Len(comments) + 1..Len(comments') : comments'[k].review = n
    BY <1>0, <1>1, ApplyAdds
  <2> QED BY SMTT(60), <1>1, <2>1, ApplyAdds
<1>3. /\ Ids(post.items \ Inline) \subseteq Ids(job[post.by].answer)
      /\ Ids(post.items \cap Inline) \subseteq Ids(job[post.by].answer)
  BY DEF Backed, Ids
<1>4. /\ job'[post.by].items = job[post.by].items /\ job'[post.by].pull = job[post.by].pull
      /\ job'[post.by].diff = job[post.by].diff /\ job'[post.by].answer = job[post.by].answer
      /\ job'[post.by].attempts = job[post.by].attempts
  BY <1>1 DEF Evidence
<1>5. Ids(job[post.by].answer)' = Ids(job[post.by].answer)
  BY <1>4 DEF Ids, Id
<1>6. ReviewOK(n)'
  <2>1. post.commit <= pull.head
    <3>1. RunOK(post.by) /\ job[post.by].pull \in Pulls
      <4>1. job[post.by] \in Job /\ RunOK(post.by)
        BY <1>1 DEF IInv, Types
      <4> QED BY <4>1 DEF Job
    <3> QED BY <3>1 DEF RunOK, UpTo, Backed
  <2>2. pull.head <= pull.head
    BY <1>1 DEF Pulls
  <2>3. Backed(reviews[n].by, reviews[n].commit, reviews[n].markers)'
    <3>1. Ids(job[reviews[n].by].answer)' = Ids(job[post.by].answer)
      BY <1>2, <1>4 DEF Ids, Id
    <3>2. /\ reviews'[n].by = post.by /\ reviews'[n].commit = post.commit
          /\ reviews'[n].markers \subseteq Ids(job[post.by].answer)
      BY <1>2, <1>3
    <3> QED BY <1>4, <3>1, <3>2 DEF Backed
  <2> QED BY <1>2, <2>1, <2>2, <2>3 DEF ReviewOK
<1>7. ASSUME NEW k \in Len(comments) + 1..Len(comments') PROVE CommentOK(k)'
  <2>1. n \in 1..Len(reviews')
    BY <1>0, <1>1, <1>2
  <2>2. comments'[k].markers \subseteq Ids(job[post.by].answer)
    BY <1>2, <1>3
  <2> QED BY <1>1, <1>2, <1>4, <2>1, <2>2 DEF CommentOK, Ids, Id
<1>8. ASSUME NEW r \in Runs, pc'[r] \in Before, Posted(r)' PROVE FALSE
  <2>1. ~Posted(r) /\ r # post.by
    BY <1>8 DEF IInv, PostedOK
  <2>2. PICK i \in 1..Len(reviews') : reviews'[i].by = r
    BY <1>8, <2>1 DEF Posted
  <2>3. i \in 1..Len(reviews) \/ i = n
    BY <1>0, <1>1, <1>2
  <2> QED BY <1>2, <2>1, <2>2, <2>3 DEF Posted
<1>9. Grows
  <2>1. UpTo(pull, pull) /\ Len(reviews) <= Len(reviews')
    BY <1>0, <1>1, <1>2 DEF UpTo, Pulls
  <2> QED BY <1>1, <1>2, <2>1 DEF Grows
<1>10. \A i \in Len(reviews) + 1..Len(reviews') : i = n
  BY <1>0, <1>1, <1>2
<1> QED BY <1>6, <1>7, <1>8, <1>9, <1>10, Growing

\* When none of its markers is on GitHub yet, it adds none twice.
LEMMA ApplyingOnce ==
    ASSUME Types, InTurn, AtMostOnce, NEW post \in PostType, Apply(post), UNCHANGED timing,
           \A i \in 1..Len(comments) : comments[i].markers \cap Ids(post.items) = {},
           \A i \in 1..Len(reviews) : reviews[i].markers \cap Ids(post.items) = {}
    PROVE  AtMostOnce'
<1> DEFINE New == Len(comments) + 1..Len(comments')
<1>0. /\ Len(comments) \in Nat /\ Len(reviews) \in Nat
      /\ \A f \in Findings : \A i, j \in 1..Len(reviews) :
             f \in reviews[i].markers /\ f \in reviews[j].markers => i = j
  BY DEF Types, AtMostOnce
<1>1. PICK n \in Nat : n = Len(reviews) + 1
  BY <1>0
<1>2. /\ Len(reviews') = n
      /\ \A i \in 1..Len(reviews) : reviews'[i] = reviews[i]
      /\ reviews'[n].markers = Ids(post.items \ Inline)
  <2>1. reviews'[n] = [by |-> post.by, commit |-> post.commit, head |-> pull.head,
                       markers |-> Ids(post.items \ Inline)]
    BY <1>1, ApplyAdds
  <2>2. Len(reviews') = n
    BY <1>1, ApplyAdds
  <2>3. \A i \in 1..Len(reviews) : reviews'[i] = reviews[i]
    BY ApplyAdds
  <2> QED BY <2>1, <2>2, <2>3
<1>3. /\ \A k \in 1..Len(comments) : comments'[k] = comments[k]
      /\ \A k \in New : comments'[k].markers \subseteq Ids(post.items \cap Inline)
      /\ Len(comments') \in Nat
  BY ApplyAdds
<1>4. \A k, l \in New : k # l => comments'[k].markers \cap comments'[l].markers = {}
  <2>1. Disjoint(comments', Len(comments) + 1)
    BY ApplyAdds
  <2> QED BY <2>1, Zenon DEF Disjoint
<1>5. /\ \A k \in 1..Len(comments') : k \in 1..Len(comments) \/ k \in New
      /\ \A i \in 1..Len(reviews') : i \in 1..Len(reviews) \/ i = n
  BY <1>0, <1>1, <1>2, <1>3
<1>6. /\ Ids(post.items \ Inline) \subseteq Ids(post.items)
      /\ Ids(post.items \cap Inline) \subseteq Ids(post.items)
      /\ Ids(post.items \ Inline) \cap Ids(post.items \cap Inline) = {}
  <2>1. post.items \subseteq Findings
    BY DEF PostType
  <2> QED BY <2>1 DEF Ids, InTurn
<1>7. ASSUME NEW m \in New PROVE comments'[m].markers \subseteq Ids(post.items \cap Inline)
  BY ApplyAdds
<1>8. ASSUME NEW f \in Findings, NEW i \in 1..Len(comments'), NEW j \in 1..Len(comments'),
             f \in comments'[i].markers, f \in comments'[j].markers
      PROVE  i = j
  <2>1. i \in 1..Len(comments) => j \in 1..Len(comments)
    BY <1>2, <1>3, <1>4, <1>5, <1>6, <1>8
  <2>2. j \in 1..Len(comments) => i \in 1..Len(comments)
    BY <1>2, <1>3, <1>4, <1>5, <1>6, <1>8
  <2>3. CASE i \in 1..Len(comments) /\ j \in 1..Len(comments)
    BY <1>2, <1>3, <1>4, <1>8, <2>3 DEF AtMostOnce
  <2>4. CASE i \in New /\ j \in New
    BY <1>2, <1>3, <1>4, <1>8, <2>4
  <2> QED BY <1>5, <2>1, <2>2, <2>3, <2>4
<1>9. ASSUME NEW f \in Findings, NEW i \in 1..Len(reviews'), NEW j \in 1..Len(reviews'),
             f \in reviews'[i].markers, f \in reviews'[j].markers
      PROVE  i = j
  <2>1. ASSUME NEW m \in 1..Len(reviews) PROVE reviews'[m].markers \cap reviews'[n].markers = {}
    BY <1>2, <1>3, <1>4, <1>6, <2>1
  <2>2. CASE i \in 1..Len(reviews) /\ j \in 1..Len(reviews)
    BY <1>2, <1>3, <1>4, <1>9, <2>2 DEF AtMostOnce
  <2>3. CASE i = n \/ j = n
    BY <1>5, <1>9, <2>1, <2>3
  <2> QED BY <1>5, <2>2, <2>3
<1>10. ASSUME NEW f \in Findings, NEW i \in 1..Len(comments'), NEW j \in 1..Len(reviews'),
             f \in comments'[i].markers, f \in reviews'[j].markers
      PROVE  FALSE
  <2>1. CASE i \in 1..Len(comments) /\ j \in 1..Len(reviews)
    <3>1. f \in comments[i].markers /\ f \in reviews[j].markers
      BY <1>2, <1>3, <1>10, <2>1
    <3> QED BY <2>1, <3>1 DEF AtMostOnce
  <2>2. CASE i \in 1..Len(comments) /\ j = n
    <3>1. f \in comments[i].markers /\ f \in Ids(post.items)
      BY <1>2, <1>3, <1>6, <1>10, <2>2
    <3> QED BY <2>2, <3>1
  <2>3. CASE i \in New /\ j \in 1..Len(reviews)
    <3>1. comments'[i].markers \subseteq Ids(post.items \cap Inline)
      BY <1>7, <2>3
    <3>2. f \in Ids(post.items)
      BY <1>6, <1>10, <3>1
    <3>3. f \in reviews[j].markers
      BY <1>2, <1>10, <2>3
    <3> QED BY <2>3, <3>2, <3>3
  <2>4. CASE i \in New /\ j = n
    <3>1. comments'[i].markers \subseteq Ids(post.items \cap Inline)
      BY <1>7, <2>4
    <3>2. f \in Ids(post.items \cap Inline) /\ f \in Ids(post.items \ Inline)
      BY <1>2, <1>10, <2>4, <3>1
    <3> QED BY <1>6, <3>2
  <2> QED BY <1>5, <2>1, <2>2, <2>3, <2>4
<1> QED BY <1>8, <1>9, <1>10 DEF AtMostOnce

LEMMA PostingIsBacked ==
    ASSUME IInv, NEW r \in Runs, pc[r] = "post"
    PROVE  /\ Posting(r) \in PostType
           /\ Posting(r).by = r /\ Posting(r).items = Pending(r)
           /\ Backed(r, Posting(r).commit, Ids(Posting(r).items))
           /\ result[r] # "published"
           /\ ~Posted(r)
<1>1. "post" \in Promoted /\ "post" \in Snapped /\ "post" \in Before
  BY DEF Promoted, Snapped, Before
<1>2. RunOK(r) /\ job[r] \in Job /\ ~Posted(r)
  BY <1>1 DEF IInv, Types, PostedOK
<1>3. /\ Posting(r) \in PostType
      /\ Posting(r).by = r /\ Posting(r).items = Pending(r)
      /\ Posting(r).commit = job[r].pull.head
  <2>1. job[r].pull.head \in Nat
    BY <1>2 DEF Job, Pulls
  <2>2. Pending(r) \in SUBSET Findings
    BY PendingTypes
  <2> QED BY <2>1, <2>2 DEF Posting, PostType
<1>4. /\ job[r].diff = job[r].pull /\ job[r].attempts = 1
      /\ job[r].items \subseteq job[r].answer /\ job[r].items # {}
      /\ result[r] # "published"
  BY <1>1, <1>2 DEF RunOK
<1>5. Ids(Pending(r)) \subseteq Ids(job[r].answer)
  BY <1>4 DEF Pending, Ids
<1> QED BY <1>2, <1>3, <1>4, <1>5 DEF Backed

\* The POST of run r is applied, and r goes on to read it back or gives up.
LEMMA PostApplied ==
    ASSUME IInv, NEW r \in Runs, pc[r] = "post", Apply(Posting(r)),
           UNCHANGED <<timing, pull, late>>,
           NEW to \in {"readback", "record"}, pc' = [pc EXCEPT ![r] = to],
           NEW j \in Job, SameEvidence(j, job[r]), job' = [job EXCEPT ![r] = j],
           NEW res \in Statuses \ {"published"}, result' = [result EXCEPT ![r] = res]
    PROVE  IInv'
<1>1. PICK post \in PostType : post = Posting(r)
  BY PostingIsBacked
<1>2. /\ post.by = r /\ post.items = Pending(r) /\ Apply(post)
      /\ Backed(post.by, post.commit, Ids(post.items))
      /\ result[r] # "published" /\ ~Posted(r)
  BY <1>1, PostingIsBacked
<1>3. /\ to \in PcStates /\ to \notin Before /\ to # "idle" /\ to # "done" /\ to # "unchanged"
      /\ to \notin BeforeList \cup {"list", "recheck", "post"}
      /\ "post" \in Promoted /\ "post" \in Snapped /\ "post" \notin {"idle", "done"}
  BY DEF PcStates, Before, BeforeList, Promoted, Snapped
<1>4. /\ pc' \in [Runs -> PcStates] /\ job' \in [Runs -> Job] /\ result' \in [Runs -> Statuses]
      /\ pc'[r] = to /\ job'[r] = j /\ result'[r] = res /\ res # "published"
      /\ \A q \in Runs \ {r} : pc'[q] = pc[q] /\ job'[q] = job[q] /\ result'[q] = result[q]
  BY <1>3 DEF IInv, Types
<1>5. \A q \in Runs : Evidence(q)' = Evidence(q)
  BY <1>4 DEF Evidence, SameEvidence
<1>6. \A q \in late : q.by \in Runs \ {r}
  BY <1>2 DEF IInv, Types, PostType, Posted
<1>7. \A q \in Runs : RunOK(q)'
  <2>1. ASSUME NEW q \in Runs \ {r} PROVE RunOK(q)'
    BY <1>4, <2>1 DEF IInv, RunOK
  <2>2. RunOK(r)
    BY DEF IInv
  <2>3. RunOK(r)'
    BY <1>3, <1>4, <2>2 DEF RunOK, SameEvidence
  <2> QED BY <2>1, <2>3
<1>8. Types' /\ PostedOK'
  <2>1. \A q \in late' : pc'[q.by] = pc[q.by] /\ result'[q.by] = result[q.by]
    BY <1>4, <1>6
  <2>2. \A q \in Runs : /\ Evidence(q)' = Evidence(q)
                        /\ result'[q] = "published" => result[q] = "published"
                        /\ pc'[q] \in Before => pc[q] \in Before /\ q # post.by
    BY <1>2, <1>3, <1>4, <1>5
  <2>3. result'[post.by] # "published" /\ late' \subseteq late
    BY <1>2, <1>4
  <2> QED BY <1>2, <1>4, <2>1, <2>2, <2>3, Applying
<1>9. TurnOK'
  <2> SUFFICES ASSUME InTurn' PROVE /\ late' = {}
                                    /\ \A p, q \in Runs : Active(p)' /\ Active(q)' => p = q
                                    /\ \A q \in Runs : Listed(q)'
                                    /\ AtMostOnce'
    BY DEF TurnOK
  <2>1. InTurn /\ UNCHANGED timing
    BY DEF InTurn, Id
  <2>2. /\ late = {} /\ AtMostOnce /\ Listed(r)
        /\ \A p, q \in Runs : Active(p) /\ Active(q) => p = q
        /\ \A q \in Runs : Listed(q)
    BY <2>1 DEF IInv, TurnOK
  <2>3. Active(r) /\ \A q \in Runs \ {r} : Active(q)' <=> Active(q)
    BY <1>3, <1>4 DEF Active
  <2>4. ASSUME NEW q \in Runs PROVE Listed(q)'
    <3>1. CASE q = r
      BY <1>3, <1>4, <3>1 DEF Listed
    <3>2. CASE q # r
      <4>1. pc[q] \in {"idle", "done"} /\ pc'[q] = pc[q] /\ job'[q] = job[q]
        BY <1>4, <2>2, <2>3, <3>2 DEF Active
      <4>2. Listed(q)
        BY <2>2
      <4> QED BY <4>1, <4>2 DEF Listed
    <3> QED BY <3>1, <3>2
  <2>5. /\ SeenAll(r, comments) /\ SeenAll(r, reviews)
        /\ Ids(Pending(r)) \cap job[r].seen = {}
    BY <2>2 DEF Listed, Pending, Ids
  <2>6. /\ \A i \in 1..Len(comments) : comments[i].markers \cap Ids(post.items) = {}
        /\ \A i \in 1..Len(reviews) : reviews[i].markers \cap Ids(post.items) = {}
    BY <1>2, <2>5 DEF SeenAll
  <2>7. AtMostOnce'
    BY <1>2, <2>1, <2>2, <2>6, ApplyingOnce DEF IInv
  <2> QED BY <2>2, <2>3, <2>4, <2>7
<1> QED BY <1>7, <1>8, <1>9 DEF IInv

\* The POST is given up on while GitHub has it in hand: the runs do not take turns.
LEMMA PostDelayed ==
    ASSUME IInv, NEW r \in Runs, pc[r] = "post", timing.late, late' = late \cup {Posting(r)},
           UNCHANGED <<timing, pull, comments, reviews>>, Return(r, "post", "failed", Skipped(r))
    PROVE  IInv'
<1>1. PICK post \in PostType : post = Posting(r)
  BY PostingIsBacked
<1>2. /\ post.by = r /\ Backed(r, post.commit, Ids(post.items))
      /\ result[r] # "published" /\ ~Posted(r) /\ late' = late \cup {post}
  BY <1>1, PostingIsBacked
<1>3. PICK j \in Job : j = [job[r] EXCEPT !.skipped = Skipped(r)] /\ SameEvidence(j, job[r])
  <2>1. job[r] \in Job /\ Skipped(r) \in SUBSET Findings
    BY PendingTypes DEF IInv, Types
  <2>2. [job[r] EXCEPT !.skipped = Skipped(r)] \in Job
    BY <2>1 DEF Job
  <2>3. SameEvidence([job[r] EXCEPT !.skipped = Skipped(r)], job[r])
    BY <2>1 DEF Job, SameEvidence
  <2> QED BY <2>2, <2>3
<1>4. /\ pc' \in [Runs -> PcStates] /\ job' \in [Runs -> Job] /\ result' \in [Runs -> Statuses]
      /\ pc'[r] = "record" /\ job'[r] = j /\ result'[r] = "failed"
      /\ \A q \in Runs \ {r} : pc'[q] = pc[q] /\ job'[q] = job[q] /\ result'[q] = result[q]
  BY <1>3 DEF Return, Goto, With, IInv, Types, PcStates, Statuses
<1>5. \A q \in Runs : Evidence(q)' = Evidence(q)
  BY <1>4, <1>3 DEF Evidence, SameEvidence
<1>6. \A q \in late : q.by \in Runs \ {r}
  BY <1>2 DEF IInv, Types, PostType, Posted
<1>7. /\ "record" \in Promoted /\ "record" \notin Before /\ "record" \in Snapped
      /\ "post" \in Promoted /\ "post" \in Snapped /\ "failed" # "published"
  BY DEF Promoted, Before, BeforeList, Snapped
<1>8. \A q \in Runs : RunOK(q)'
  <2>1. ASSUME NEW q \in Runs \ {r} PROVE RunOK(q)'
    BY <1>4, <2>1 DEF IInv, RunOK
  <2>2. RunOK(r)
    BY DEF IInv
  <2>3. RunOK(r)'
    BY <1>3, <1>4, <1>7, <2>2 DEF RunOK, SameEvidence
  <2> QED BY <2>1, <2>3
<1>9. Types' /\ PostedOK'
  <2>1. Grows
    <3>1. /\ comments \in Seq(CommentType) /\ reviews \in Seq(ReviewType) /\ late \subseteq PostType
          /\ pull \in Pulls /\ UpTo(pull, pull)
      BY DEF IInv, Types, UpTo, Pulls
    <3>2. \A q \in late \cap late' : pc'[q.by] = pc[q.by] /\ result'[q.by] = result[q.by]
      BY <1>4, <1>6
    <3>3. \A q \in Runs : result'[q] = "published" => result[q] = "published"
      BY <1>4, <1>7
    <3> QED BY <1>2, <1>4, <1>5, <3>1, <3>2, <3>3 DEF Grows
  <2>2. ASSUME NEW q \in Runs, pc'[q] \in Before PROVE ~Posted(q)'
    BY <1>2, <1>4, <1>7, <2>2 DEF IInv, PostedOK, Posted
  <2>3. ASSUME NEW p \in late' \ late PROVE LateOK(p)'
    <3>1. p = post
      BY <1>2
    <3>2. Backed(r, post.commit, Ids(post.items))'
      BY <1>2, <1>5 DEF Backed, Evidence, Ids, Id
    <3> QED BY <1>2, <1>4, <1>7, <3>1, <3>2 DEF LateOK
  <2>4. Len(comments') = Len(comments) /\ Len(reviews') = Len(reviews)
        /\ Len(comments) \in Nat /\ Len(reviews) \in Nat
    BY DEF IInv, Types
  <2> QED BY <2>1, <2>2, <2>3, <2>4, Growing
<1>10. TurnOK'
  BY DEF TurnOK, InTurn
<1> QED BY <1>8, <1>9, <1>10 DEF IInv

LEMMA PostKeeps == ASSUME IInv, NEW r \in Runs, Post(r) PROVE IInv'
<1>1. pc[r] = "post" /\ UNCHANGED <<timing, pull, remarks>> /\ job[r] \in Job /\ Types
  BY DEF Post, IInv, Types
<1>2. /\ "failed" \in Statuses \ {"published"} /\ "post" \in Promoted \ {"record"}
      /\ result[r] \in Statuses \ {"published"}
  BY <1>1, PostingIsBacked DEF Statuses, Promoted, Types
<1>3. CASE /\ Apply(Posting(r)) /\ Goto(r, "post", "readback")
           /\ With(r, [job[r] EXCEPT !.review = Len(reviews) + 1, !.page = 1, !.read = 0])
           /\ UNCHANGED <<late, result>>
  <2> DEFINE j == [job[r] EXCEPT !.review = Len(reviews) + 1, !.page = 1, !.read = 0]
  <2>1. j \in Job /\ SameEvidence(j, job[r])
    <3>1. Len(reviews) + 1 \in Nat /\ 1 \in 1..MaxPages
      BY <1>1, PublisherAssumption DEF Types
    <3> QED BY <1>1, <3>1 DEF Job, SameEvidence
  <2>2. /\ job' = [job EXCEPT ![r] = j] /\ pc' = [pc EXCEPT ![r] = "readback"]
        /\ result' = [result EXCEPT ![r] = result[r]]
    BY <1>1, <1>3 DEF With, Goto, Types
  <2> HIDE DEF j
  <2> QED BY <1>1, <1>2, <1>3, <2>1, <2>2, PostApplied
<1>4. CASE Apply(Posting(r)) /\ UNCHANGED late /\ Return(r, "post", "failed", Skipped(r))
  <2>1. PICK j \in Job : j = [job[r] EXCEPT !.skipped = Skipped(r)] /\ SameEvidence(j, job[r])
    <3>1. Skipped(r) \in SUBSET Findings
      BY PendingTypes
    <3>2. [job[r] EXCEPT !.skipped = Skipped(r)] \in Job
      BY <1>1, <3>1 DEF Job
    <3>3. SameEvidence([job[r] EXCEPT !.skipped = Skipped(r)], job[r])
      BY <1>1 DEF Job, SameEvidence
    <3> QED BY <3>2, <3>3
  <2>2. /\ job' = [job EXCEPT ![r] = j] /\ pc' = [pc EXCEPT ![r] = "record"]
        /\ result' = [result EXCEPT ![r] = "failed"]
    BY <1>4, <2>1 DEF With, Goto, Return
  <2> QED BY <1>1, <1>2, <1>4, <2>1, <2>2, PostApplied
<1>5. CASE UNCHANGED <<comments, reviews, late>> /\ Return(r, "post", "failed", Skipped(r))
  <2>1. UNCHANGED github
    BY <1>1, <1>5 DEF github
  <2> QED BY <1>2, <1>5, <2>1, Returning, PendingTypes
<1>6. CASE /\ timing.late /\ late' = late \cup {Posting(r)} /\ UNCHANGED <<comments, reviews>>
           /\ Return(r, "post", "failed", Skipped(r))
  BY <1>1, <1>6, PostDelayed
<1> QED BY <1>3, <1>4, <1>5, <1>6 DEF Post

LEMMA LandKeeps == ASSUME IInv, Land PROVE IInv'
<1>1. PICK post \in late : Apply(post) /\ late' = late \ {post}
  BY DEF Land
<1>2. UNCHANGED <<timing, pull, pc, job, result>> /\ post \in PostType /\ post.by \in Runs
  BY DEF Land, runs, IInv, Types, PostType
<1>3. LateOK(post) /\ Posted(post.by)
  BY <1>2 DEF IInv, PostedOK, Posted
<1>4. Types' /\ PostedOK'
  <2>1. /\ pc' \in [Runs -> PcStates] /\ job' \in [Runs -> Job] /\ result' \in [Runs -> Statuses]
        /\ late' \subseteq late
    BY <1>1, <1>2 DEF IInv, Types
  <2>2. \A r \in Runs : /\ Evidence(r)' = Evidence(r)
                        /\ result'[r] = "published" => result[r] = "published"
                        /\ pc'[r] \in Before => pc[r] \in Before /\ r # post.by
    BY <1>2, <1>3 DEF Evidence, IInv, PostedOK
  <2>3. /\ Backed(post.by, post.commit, Ids(post.items)) /\ result'[post.by] # "published"
        /\ \A q \in late' : pc'[q.by] = pc[q.by] /\ result'[q.by] = result[q.by]
    BY <1>2, <1>3 DEF LateOK
  <2> QED BY <1>1, <1>2, <2>1, <2>2, <2>3, Applying
<1>5. \A r \in Runs : RunOK(r)'
  BY <1>2 DEF IInv, RunOK
<1>6. TurnOK'
  BY <1>1, <1>2 DEF IInv, TurnOK, InTurn, Id
<1> QED BY <1>4, <1>5, <1>6 DEF IInv

-----------------------------------------------------------------------------
(* The invariant, and what follows from it.                                *)

LEMMA StepKeeps == ASSUME IInv, NEW r \in Runs, Step(r) PROVE IInv'
BY ResolveKeeps, SnapshotKeeps, ReviewKeeps, PlanKeeps, CheckHeadKeeps, ListKeeps, RecheckKeeps,
   PostKeeps, ReadBackKeeps, ConfirmKeeps, CallFailsKeeps, RecordKeeps DEF Step, Publish

LEMMA Invariance == Spec => []IInv
<1>1. Init => IInv
  <2> SUFFICES ASSUME Init PROVE IInv
    OBVIOUS
  <2>1. Types
    BY ReviewSets DEF Init, Types, PcStates, Statuses
  <2>2. ASSUME NEW r \in Runs PROVE RunOK(r)
    BY DEF Init, RunOK, UpTo, NoJob, NoPull, Snapped, Promoted
  <2>3. Len(comments) = 0 /\ Len(reviews) = 0 /\ late = {}
    BY DEF Init
  <2>4. PostedOK
    BY <2>3 DEF PostedOK, Posted
  <2>5. TurnOK
    BY <2>3 DEF Init, TurnOK, Active, Listed, NoJob, AtMostOnce
  <2> QED BY <2>1, <2>2, <2>4, <2>5 DEF IInv
<1>2. IInv /\ [Next]_vars => IInv'
  <2> SUFFICES ASSUME IInv, [Next]_vars PROVE IInv'
    OBVIOUS
  <2>1. ASSUME UNCHANGED <<github, runs>> PROVE IInv'
    <3>1. UNCHANGED <<timing, pull, comments, reviews, late, pc, job, result>>
      BY <2>1 DEF github, runs
    <3>2. Types' /\ \A r \in Runs : RunOK(r)'
      BY <3>1 DEF IInv, Types, RunOK
    <3>3. PostedOK'
      <4>1. \A post \in late : LateOK(post) => LateOK(post)'
        BY <3>1 DEF LateOK, Backed, Ids, Id
      <4>2. \A i \in 1..Len(reviews) : ReviewOK(i) => ReviewOK(i)'
        BY <3>1 DEF ReviewOK, Backed, Ids, Id
      <4>3. \A k \in 1..Len(comments) : CommentOK(k) => CommentOK(k)'
        BY <3>1 DEF CommentOK, Ids, Id
      <4> QED BY <3>1, <4>1, <4>2, <4>3 DEF IInv, PostedOK, Posted
    <3>4. TurnOK'
      BY <3>1 DEF IInv, TurnOK, InTurn, Id, Active, Listed, SeenTo, SeenAll, AtMostOnce
    <3> QED BY <3>2, <3>3, <3>4 DEF IInv
  <2>2. CASE \E r \in Runs : Step(r) \/ Crash(r)
    BY <2>2, StepKeeps, CrashKeeps
  <2>3. CASE Push \/ Remark \/ Land
    BY <2>3, PushKeeps, RemarkKeeps, LandKeeps
  <2>4. CASE Checkout \/ Alter \/ Finished \/ UNCHANGED vars
    BY <2>1, <2>4 DEF Checkout, Alter, Finished, vars
  <2> QED BY <2>2, <2>3, <2>4 DEF Next
<1> QED BY <1>1, <1>2, PTL DEF Spec

\* Runs that take turns publish a finding once at most, in however many pages GitHub
\* lists the comments and the reviews (github_publisher.py, _existing_bodies and publish).
THEOREM NoFindingTwice == Spec => []OnceInTurn
<1>1. IInv => OnceInTurn
  BY DEF IInv, TurnOK, InTurn, OnceInTurn
<1> QED BY <1>1, Invariance, PTL

\* A run says published only of a review that is on the commit it reviewed and that
\* GitHub took while that was the head, whatever the author pushes between any two calls
\* (github_publisher.py, publish: the head is read before and after the POST).
THEOREM CurrentWhenPublished == Spec => []PublishedIsCurrent
<1>1. ASSUME IInv PROVE PublishedIsCurrent
  <2>1. ASSUME NEW r \in Runs, NEW i \in ReviewsBy(r)
        PROVE  /\ reviews[i].commit = job[r].pull.head
               /\ result[r] = "published" => reviews[i].head = job[r].pull.head
    <3>1. i \in 1..Len(reviews) /\ reviews[i].by = r
      BY DEF ReviewsBy
    <3>2. ReviewOK(i)
      BY <1>1, <3>1 DEF IInv, PostedOK
    <3> QED BY <3>1, <3>2 DEF ReviewOK, Backed
  <2> QED BY <2>1 DEF PublishedIsCurrent
<1> QED BY <1>1, Invariance, PTL

\* What a run puts on the pull request was found in the only attempt of an accepted
\* review of the diff between the base and head of its snapshot, whenever they move and
\* whichever artifact is altered (github.py, resolve; github_receipt.py, promotion).
THEOREM ReviewedWhenPosted == Spec => []PostedIsReviewed
<1>1. ASSUME IInv PROVE PostedIsReviewed
  <2>1. ASSUME NEW r \in Runs, NEW i \in ReviewsBy(r)
        PROVE  /\ job[r].diff = job[r].pull
               /\ job[r].attempts = 1
               /\ MarkersOf(i) \subseteq Ids(job[r].answer)
    <3>1. i \in 1..Len(reviews) /\ reviews[i].by = r
      BY DEF ReviewsBy
    <3>2. Backed(r, reviews[i].commit, reviews[i].markers)
      BY <1>1, <3>1 DEF IInv, PostedOK, ReviewOK
    <3>3. ASSUME NEW k \in 1..Len(comments), comments[k].review = i
          PROVE  comments[k].markers \subseteq Ids(job[r].answer)
      <4>1. CommentOK(k) /\ i # 0
        BY <1>1, <3>1 DEF IInv, PostedOK
      <4> QED BY <3>1, <3>3, <4>1 DEF CommentOK
    <3>4. MarkersOf(i) \subseteq Ids(job[r].answer)
      BY <3>2, <3>3 DEF MarkersOf, Backed
    <3> QED BY <3>2, <3>4 DEF Backed
  <2> QED BY <2>1 DEF PostedIsReviewed
<1> QED BY <1>1, Invariance, PTL

-----------------------------------------------------------------------------
(* What the runs report.                                                   *)

What == BOOLEAN \cup Findings \cup (Findings \X Nat) \cup Nat \cup Statuses

EventType == [kind : Kinds, run : Runs, what : What]

\* The types of what TypeOK adds to Types.
LocalTypes ==
    /\ remarks \in Nat
    /\ checkout \in Nat
    /\ files \in [Runs -> [Artifacts -> {"absent", "whole", "altered"}]]
    /\ edits \in Nat
    /\ journal \in Seq(EventType)

\* The comment of a pair is in a review of run r, and for the finding of the pair.
InReviewOf(r, pair) ==
    /\ pair \in Findings \X (1..Len(comments))
    /\ pair[1] \in comments[pair[2]].markers
    /\ comments[pair[2]].review \in ReviewsBy(r)

\* What a run knows of GitHub is so.
Knows(r) ==
    /\ \A f \in Findings : Id(f) \in job[r].seen => OnGitHub(f)
    /\ \A f \in job[r].skipped : OnGitHub(f)
    /\ \A pair \in job[r].published : InReviewOf(r, pair)
    /\ job[r].review # 0 => job[r].review \in ReviewsBy(r)

\* The statuses that say every item is there, and those that say nothing was posted but
\* the review that the run names.
Complete == {"published", "skipped_duplicate", "stale_head_race"}

Accounted == {"stale_head", "skipped_duplicate", "no_findings", "reconciliation_incomplete",
              "not_published"}

Publishes == {"head", "list", "recheck", "post", "readback", "confirm", "record"}

\* What a run reports, or is about to, is so, and the journal has what it should have by now.
Reports(r) ==
    /\ pc[r] \notin {"record", "done"} => result[r] = "none" /\ job[r].noted = 0
    /\ pc[r] \in {"readback", "confirm"} => job[r].review # 0
    /\ pc[r] \in {"readback", "confirm"} \/ result[r] \in Complete =>
           \A f \in job[r].items : OnGitHub(f)
    /\ pc[r] \in {"readback", "confirm"} \/ result[r] \in Accounted =>
           ReviewsBy(r) \subseteq {job[r].review}
    /\ pc[r] \in Publishes \/ Posted(r) => Journalled(r, "github_publication_started")
    /\ pc[r] = "record" =>
           /\ job[r].noted <= Len(Events(r))
           /\ \A k \in 1..job[r].noted : \E i \in 1..Len(journal) : journal[i] = Events(r)[k]
    /\ pc[r] = "done" /\ result[r] # "killed" /\ job[r].review # 0 =>
           Journalled(r, "github_summary_published")

\* An event claims of GitHub what is so.
Truthful(e) ==
    /\ e.kind = "github_comment_published" => InReviewOf(e.run, e.what)
    /\ e.kind = "github_comment_skipped_duplicate" => OnGitHub(e.what)
    /\ e.kind = "github_summary_published" => e.what \in ReviewsBy(e.run)

\* The journal never claims what is not so.
JournalTruthful == \A k \in 1..Len(journal) : Truthful(journal[k])

\* The run of a POST that may still be applied has failed, or was killed after it had.
GivenUp == \A post \in late : result[post.by] \in {"failed", "killed"}

Truth ==
    /\ LocalTypes
    /\ \A r \in Runs : Knows(r) /\ Reports(r)
    /\ JournalTruthful
    /\ GivenUp


\* The events of run r with these variables and this result, see Events, and what they
\* may be.
EventsOf(r, j, res) ==
    EventFor(r, "github_comment_skipped_duplicate", j.skipped)
        \o EventFor(r, "github_comment_published", j.published)
        \o EventFor(r, "github_summary_published", {j.review} \ {0})
        \o CASE res = "stale_head" ->
                    <<Event(r, "github_publication_stale_head", res)>>
             [] res = "stale_head_race" ->
                    <<Event(r, "github_publication_stale_head_race", res)>>
             [] res \in {"failed", "reconciliation_incomplete"} ->
                    <<Event(r, "github_publication_failed", res)>>
             [] OTHER -> << >>

DueOf(r, j) ==
    {e \in EventType :
        /\ e.run = r
        /\ e.kind = "github_comment_published" => e.what \in j.published
        /\ e.kind = "github_comment_skipped_duplicate" => e.what \in j.skipped
        /\ e.kind = "github_summary_published" => e.what \in {j.review} \ {0}}

LEMMA EventForSet ==
    ASSUME NEW r, NEW kind, NEW set, IsFiniteSet(set), NEW due,
           \A x \in set : Event(r, kind, x) \in due
    PROVE  /\ EventFor(r, kind, set) \in Seq(due)
           /\ set # {} =>
                  \E k \in 1..Len(EventFor(r, kind, set)), x \in set :
                      EventFor(r, kind, set)[k] = Event(r, kind, x)
<1> DEFINE n == Cardinality(set)
           s == Order(set)
           events == [i \in DOMAIN s |-> Event(r, kind, s[i])]
<1>1. n \in Nat /\ s \in [1..n -> set] /\ \A f \in set : \E i \in 1..n : s[i] = f
  BY OrderOfFinite
<1>2. EventFor(r, kind, set) = events
  BY DEF EventFor
<1> HIDE DEF s
<1>3. events \in [1..n -> due] /\ \A i \in 1..n : events[i] = Event(r, kind, s[i])
  BY <1>1
<1> HIDE DEF n, events
<1>4. events \in Seq(due) /\ Len(events) = n
  BY <1>1, <1>3, FunctionsAreSequences
<1>5. ASSUME NEW x \in set PROVE \E k \in 1..n, y \in set : events[k] = Event(r, kind, y)
  <2>1. PICK k \in 1..n : s[k] = x
    BY <1>1
  <2> QED BY <1>3, <2>1
<1> QED BY <1>2, <1>4, <1>5

\* That of the review is among them.
LEMMA EventsAreDue ==
    ASSUME NEW r \in Runs, NEW j \in Job, NEW res \in Statuses, IsFiniteSet(j.published)
    PROVE  /\ EventsOf(r, j, res) \in Seq(DueOf(r, j))
           /\ j.review # 0 =>
                  \E k \in 1..Len(EventsOf(r, j, res)) : EventsOf(r, j, res)[k].kind = "github_summary_published"
<1> DEFINE due == DueOf(r, j)
           A == EventFor(r, "github_comment_skipped_duplicate", j.skipped)
           B == EventFor(r, "github_comment_published", j.published)
           summary == {j.review} \ {0}
           C == EventFor(r, "github_summary_published", summary)
           T == CASE res = "stale_head" ->
                        <<Event(r, "github_publication_stale_head", res)>>
                  [] res = "stale_head_race" ->
                        <<Event(r, "github_publication_stale_head_race", res)>>
                  [] res \in {"failed", "reconciliation_incomplete"} ->
                        <<Event(r, "github_publication_failed", res)>>
                  [] OTHER -> << >>
<1>1. /\ j.skipped \in SUBSET Findings /\ j.published \in SUBSET (Findings \X Nat)
      /\ j.review \in Nat
  BY DEF Job
<1>2. EventsOf(r, j, res) = A \o B \o C \o T
  BY DEF EventsOf
<1>3. IsFiniteSet(j.skipped) /\ IsFiniteSet(summary)
  <2>1. IsFiniteSet({j.review})
    BY FS_Singleton
  <2> QED BY <1>1, <2>1, FS_Subset, PublisherAssumption
<1>4. A \in Seq(due)
  <2>1. ASSUME NEW x \in j.skipped
        PROVE  Event(r, "github_comment_skipped_duplicate", x) \in due
    BY <1>1 DEF DueOf, EventType, Event, Kinds, What
  <2> HIDE DEF due
  <2> QED BY <1>3, <2>1, EventForSet
<1>5. B \in Seq(due)
  <2>1. ASSUME NEW x \in j.published
        PROVE  Event(r, "github_comment_published", x) \in due
    <3>1. x \in What
      BY <1>1 DEF What
    <3> QED BY <3>1 DEF DueOf, EventType, Event, Kinds
  <2> HIDE DEF due
  <2> QED BY <2>1, EventForSet
<1>6. /\ C \in Seq(due)
      /\ summary # {} => \E k \in 1..Len(C) : C[k].kind = "github_summary_published"
  <2>1. ASSUME NEW x \in summary PROVE Event(r, "github_summary_published", x) \in due
    <3>1. x \in What
      BY <1>1 DEF What
    <3> QED BY <3>1 DEF DueOf, EventType, Event, Kinds
  <2>2. \A x : Event(r, "github_summary_published", x).kind = "github_summary_published"
    BY DEF Event
  <2> HIDE DEF due, summary
  <2>3. /\ C \in Seq(due)
        /\ summary # {} =>
               \E k \in 1..Len(C), x \in summary : C[k] = Event(r, "github_summary_published", x)
    BY <1>3, <2>1, EventForSet
  <2> QED BY <2>2, <2>3
<1>7. T \in Seq(due)
  <2>1. res \in What
    BY DEF What
  <2>2. \A kind \in {"github_publication_stale_head", "github_publication_stale_head_race",
                     "github_publication_failed"} : Event(r, kind, res) \in due
    BY <2>1 DEF DueOf, EventType, Event, Kinds
  <2>3. \A e \in due : <<e>> \in Seq(due)
    OBVIOUS
  <2>4. << >> \in Seq(due)
    OBVIOUS
  <2> HIDE DEF due
  <2> QED BY <2>2, <2>3, <2>4
<1> HIDE DEF A, B, C, T, due
<1>8. A \o B \in Seq(due) /\ Len(A \o B) \in Nat
  BY <1>4, <1>5, Concatenation
<1> DEFINE AB == A \o B
<1> HIDE DEF AB
<1>9. /\ AB \o C \in Seq(due) /\ Len(AB) \in Nat /\ Len(C) \in Nat
       /\ Len(AB \o C) = Len(AB) + Len(C)
  BY <1>6, <1>8, Concatenation DEF AB
<1>10. ASSUME NEW k \in 1..Len(C) PROVE (AB \o C)[Len(AB) + k] = C[k] /\ Len(AB) + k \in 1..Len(AB \o C)
  BY <1>6, <1>8, <1>9 DEF AB
<1> DEFINE ABC == AB \o C
<1> HIDE DEF ABC
<1>11. /\ ABC \o T \in Seq(due) /\ Len(ABC) \in Nat /\ Len(T) \in Nat
       /\ Len(ABC \o T) = Len(ABC) + Len(T)
       /\ \A k \in 1..Len(ABC) : (ABC \o T)[k] = ABC[k]
  BY <1>7, <1>9, Concatenation DEF ABC
<1>12. EventsOf(r, j, res) = ABC \o T
  BY <1>2 DEF ABC, AB
<1>13. ASSUME j.review # 0
       PROVE  \E k \in 1..Len(EventsOf(r, j, res)) : EventsOf(r, j, res)[k].kind = "github_summary_published"
  <2>1. PICK k \in 1..Len(C) : C[k].kind = "github_summary_published"
    BY <1>6, <1>13
  <2>2. ABC[Len(AB) + k].kind = "github_summary_published" /\ Len(AB) + k \in 1..Len(ABC)
    BY <1>10, <2>1 DEF ABC
  <2>3. Len(AB) + k \in 1..Len(ABC \o T)
    BY <1>11, <2>2
  <2> QED BY <1>11, <1>12, <2>2, <2>3
<1> QED BY <1>11, <1>12, <1>13 DEF due

LEMMA EventsThen ==
    ASSUME NEW r
    PROVE  /\ Events(r) = EventsOf(r, job[r], result[r])
           /\ Events(r)' = EventsOf(r, job'[r], result'[r])
BY DEF Events, EventsOf

LEMMA PublishedFinite ==
    ASSUME Types, NEW r, Knows(r)
    PROVE  IsFiniteSet(job[r].published)
<1>1. IsFiniteSet(1..Len(comments))
  BY FS_Interval DEF Types
<1>2. IsFiniteSet(Findings \X (1..Len(comments)))
  BY <1>1, FS_Product, PublisherAssumption
<1>3. job[r].published \subseteq Findings \X (1..Len(comments))
  BY DEF Knows, InReviewOf
<1> QED BY <1>2, <1>3, FS_Subset

-----------------------------------------------------------------------------
(* Comments, reviews and events only come.                                 *)

Extends(s, t) == Len(s) <= Len(t) /\ \A k \in 1..Len(s) : t[k] = s[k]

Grown ==
    /\ timing' = timing
    /\ Extends(comments, comments') /\ Extends(reviews, reviews') /\ Extends(journal, journal')

LEMMA Lengths ==
    ASSUME Types, LocalTypes
    PROVE  Len(comments) \in Nat /\ Len(reviews) \in Nat /\ Len(journal) \in Nat
BY DEF Types, LocalTypes

\* What is so stays so.
LEMMA GrownKeeps ==
    ASSUME Types, LocalTypes, Types', LocalTypes', Grown
    PROVE  /\ \A f : OnGitHub(f) => OnGitHub(f)'
           /\ \A r : ReviewsBy(r) \subseteq ReviewsBy(r)'
           /\ \A r, pair : InReviewOf(r, pair) => InReviewOf(r, pair)'
           /\ \A r, kind : Journalled(r, kind) => Journalled(r, kind)'
           /\ \A e : Truthful(e) => Truthful(e)'
<1>1. /\ 1..Len(comments) \subseteq 1..Len(comments')
      /\ 1..Len(reviews) \subseteq 1..Len(reviews')
      /\ 1..Len(journal) \subseteq 1..Len(journal')
  <2>1. /\ Len(comments) \in Nat /\ Len(reviews) \in Nat /\ Len(journal) \in Nat
        /\ Len(comments') \in Nat /\ Len(reviews') \in Nat /\ Len(journal') \in Nat
    BY DEF Types, LocalTypes
  <2> QED BY <2>1 DEF Grown, Extends
<1>2. /\ \A k \in 1..Len(comments) : comments'[k] = comments[k]
      /\ \A k \in 1..Len(reviews) : reviews'[k] = reviews[k]
      /\ \A k \in 1..Len(journal) : journal'[k] = journal[k]
  BY DEF Grown, Extends
<1>3. ASSUME NEW f, OnGitHub(f) PROVE OnGitHub(f)'
  BY <1>1, <1>2, <1>3 DEF OnGitHub, Id, Grown
<1>4. ASSUME NEW r PROVE ReviewsBy(r) \subseteq ReviewsBy(r)'
  BY <1>1, <1>2 DEF ReviewsBy
<1>5. ASSUME NEW r, NEW pair, InReviewOf(r, pair) PROVE InReviewOf(r, pair)'
  <2>1. /\ pair \in Findings \X (1..Len(comments)) /\ pair[1] \in comments[pair[2]].markers
        /\ comments[pair[2]].review \in ReviewsBy(r)
    BY <1>5 DEF InReviewOf
  <2>2. pair[2] \in 1..Len(comments) /\ pair \in Findings \X (1..Len(comments'))
    BY <1>1, <2>1
  <2>3. comments'[pair[2]] = comments[pair[2]]
    BY <1>2, <2>2
  <2> QED BY <1>4, <2>1, <2>2, <2>3 DEF InReviewOf
<1>6. ASSUME NEW r, NEW kind, Journalled(r, kind) PROVE Journalled(r, kind)'
  BY <1>1, <1>2, <1>6 DEF Journalled
<1>7. ASSUME NEW e, Truthful(e) PROVE Truthful(e)'
  BY <1>3, <1>4, <1>5, <1>7 DEF Truthful
<1> QED BY <1>3, <1>4, <1>5, <1>6, <1>7

LEMMA EventsSame ==
    ASSUME NEW r, result'[r] = result[r], job'[r].skipped = job[r].skipped,
           job'[r].published = job[r].published, job'[r].review = job[r].review
    PROVE  Events(r)' = Events(r)
BY DEF Events

\* A run that takes no step knows and reports what it did, unless it posts.
LEMMA OthersKeep ==
    ASSUME Types, LocalTypes, Types', LocalTypes', Grown,
           NEW q \in Runs, Knows(q), Reports(q),
           pc'[q] = pc[q], job'[q] = job[q], result'[q] = result[q],
           Posted(q)' => Posted(q),
           pc[q] \in {"readback", "confirm"} \/ result[q] \in Accounted =>
               ReviewsBy(q)' \subseteq ReviewsBy(q)
    PROVE  Knows(q)' /\ Reports(q)'
<1>1. Knows(q)'
  BY GrownKeeps DEF Knows, Grown, Id
<1>2. Events(q)' = Events(q)
  BY EventsSame
<1>3. ASSUME pc[q] = "record", NEW k \in 1..job[q].noted
      PROVE  \E i \in 1..Len(journal') : journal'[i] = Events(q)[k]
  <2>1. PICK i \in 1..Len(journal) : journal[i] = Events(q)[k]
    BY <1>3 DEF Reports
  <2>2. i \in 1..Len(journal') /\ journal'[i] = journal[i]
    BY Lengths DEF Grown, Extends, LocalTypes
  <2> QED BY <2>1, <2>2
<1>4. Reports(q)'
  BY <1>2, <1>3, GrownKeeps DEF Reports
<1> QED BY <1>1, <1>4

-----------------------------------------------------------------------------
(* Steps of a run that leave GitHub alone, and what they report.           *)

\* The journal stays, or gets an event that is so.
Notes ==
    \/ UNCHANGED journal
    \/ \E e \in EventType : Truthful(e) /\ journal' = Append(journal, e)

LEMMA NotesGrow ==
    ASSUME LocalTypes, Notes
    PROVE  journal' \in Seq(EventType) /\ Extends(journal, journal')
<1>1. journal \in Seq(EventType) /\ Len(journal) \in Nat
  BY DEF LocalTypes
<1>2. CASE UNCHANGED journal
  BY <1>1, <1>2 DEF Extends
<1>3. ASSUME NEW e \in EventType, journal' = Append(journal, e)
      PROVE  journal' \in Seq(EventType) /\ Extends(journal, journal')
  BY <1>1, <1>3, Appending DEF Extends
<1> QED BY <1>2, <1>3 DEF Notes

LEMMA NotesTruth ==
    ASSUME LocalTypes, Notes, UNCHANGED github, JournalTruthful
    PROVE  JournalTruthful'
<1>1. \A e : Truthful(e) => Truthful(e)'
  BY DEF Truthful, InReviewOf, OnGitHub, ReviewsBy, Id, github
<1>2. \A k \in 1..Len(journal') : Truthful(journal'[k])
  <2> USE DEF JournalTruthful
  <2>1. CASE UNCHANGED journal
    BY <2>1
  <2>2. ASSUME NEW e \in EventType, Truthful(e), journal' = Append(journal, e)
        PROVE  \A k \in 1..Len(journal') : Truthful(journal'[k])
    <3>1. /\ Len(journal') = Len(journal) + 1 /\ Len(journal) \in Nat
          /\ journal'[Len(journal) + 1] = e
          /\ \A k \in 1..Len(journal) : journal'[k] = journal[k]
      BY <2>2, Appending DEF LocalTypes
    <3>2. ASSUME NEW k \in 1..Len(journal') PROVE Truthful(journal'[k])
      <4>1. k \in 1..Len(journal) \/ k = Len(journal) + 1
        BY <3>1
      <4> QED BY <2>2, <3>1, <4>1
    <3> QED BY <3>2
  <2> QED BY <2>1, <2>2 DEF Notes
<1> QED BY <1>1, <1>2 DEF JournalTruthful

\* The files and the checkout stay what they are, or become what they may be.
LocalStep ==
    /\ checkout' \in Nat
    /\ files' \in [Runs -> [Artifacts -> {"absent", "whole", "altered"}]]
    /\ edits' \in Nat

LEMMA Acting ==
    ASSUME IInv, IInv', Truth, NEW r \in Runs, Moves(r), LocalStep, Notes,
           Knows(r)', Reports(r)',
           \/ result'[r] \in {"failed", "killed"} \/ result'[r] = result[r]
           \/ pc[r] \in Before \cup {"readback", "confirm"}
    PROVE  Truth'
<1>1. Types /\ Types' /\ LocalTypes /\ UNCHANGED github
  BY DEF IInv, Truth, Moves
<1>2. UNCHANGED <<timing, pull, comments, reviews, late, remarks>>
  BY <1>1 DEF github
<1>3. LocalTypes' /\ Extends(journal, journal')
  BY <1>1, <1>2, NotesGrow DEF LocalTypes, LocalStep
<1>4. Grown
  BY <1>1, <1>2, <1>3, Lengths DEF Grown, Extends
<1>5. ASSUME NEW q \in Runs PROVE Knows(q)' /\ Reports(q)'
  <2>1. CASE q = r
    BY <2>1
  <2>2. CASE q # r
    <3>1. pc'[q] = pc[q] /\ job'[q] = job[q] /\ result'[q] = result[q]
      BY <2>2 DEF Moves
    <3>2. ReviewsBy(q)' = ReviewsBy(q) /\ (Posted(q)' <=> Posted(q))
      BY <1>2 DEF ReviewsBy, Posted
    <3>3. Knows(q) /\ Reports(q)
      BY DEF Truth
    <3> QED BY <1>1, <1>3, <1>4, <3>1, <3>2, <3>3, OthersKeep
  <2> QED BY <2>1, <2>2
<1>6. JournalTruthful'
  BY <1>1, NotesTruth DEF Truth
<1>7. GivenUp'
  <2>1. ASSUME NEW post \in late PROVE result'[post.by] \in {"failed", "killed"}
    <3>1. post.by \in Runs /\ Posted(post.by) /\ result[post.by] \in {"failed", "killed"}
      BY <1>1 DEF Types, PostType, Posted, Truth, GivenUp
    <3>2. pc[post.by] \notin Before \cup {"readback", "confirm"}
      BY <3>1 DEF IInv, PostedOK, LateOK
    <3> QED BY <3>1, <3>2 DEF Moves
  <2> QED BY <1>2, <2>1 DEF GivenUp
<1> QED BY <1>3, <1>5, <1>6, <1>7 DEF Truth

SameMemory(k, j) ==
    /\ k.seen = j.seen /\ k.skipped = j.skipped /\ k.published = j.published
    /\ k.review = j.review /\ k.noted = j.noted

LEMMA MemoryKept ==
    ASSUME NEW r \in Runs, Knows(r), UNCHANGED github, SameMemory(job'[r], job[r])
    PROVE  Knows(r)'
<1>1. UNCHANGED <<timing, comments, reviews>>
  BY DEF github
<1> QED BY <1>1 DEF Knows, SameMemory, InReviewOf, OnGitHub, ReviewsBy, Id

LEMMA JournalGrows ==
    ASSUME LocalTypes, Notes
    PROVE  \A r, kind : Journalled(r, kind) => Journalled(r, kind)'
<1>1. /\ Len(journal) \in Nat /\ Len(journal') \in Nat /\ Len(journal) <= Len(journal')
      /\ \A k \in 1..Len(journal) : journal'[k] = journal[k]
  BY NotesGrow DEF LocalTypes, Extends
<1>2. 1..Len(journal) \subseteq 1..Len(journal')
  BY <1>1
<1> QED BY <1>1, <1>2 DEF Journalled

\* A run goes on and has nothing to report yet.
LEMMA Working ==
    ASSUME IInv, IInv', Truth, NEW r \in Runs, Moves(r), LocalStep, Notes,
           pc[r] \notin {"record", "done"}, pc'[r] \notin {"record", "done"},
           result'[r] = result[r],
           Knows(r)', job'[r].noted = job[r].noted,
           pc'[r] \in {"readback", "confirm"} =>
               /\ pc[r] \in {"readback", "confirm"}
               /\ job'[r].items = job[r].items /\ job'[r].review = job[r].review,
           pc'[r] \in Publishes =>
               pc[r] \in Publishes \/ Journalled(r, "github_publication_started")'
    PROVE  Truth'
<1>1. UNCHANGED <<timing, comments, reviews, late>> /\ LocalTypes
  BY DEF Moves, github, Truth
<1>2. Reports(r) /\ result'[r] = "none" /\ job'[r].noted = 0
  BY DEF Truth, Reports
<1>3. \A f : OnGitHub(f)' <=> OnGitHub(f)
  BY <1>1 DEF OnGitHub, Id
<1>4. ReviewsBy(r)' = ReviewsBy(r) /\ (Posted(r)' <=> Posted(r))
  BY <1>1 DEF ReviewsBy, Posted
<1>5. pc'[r] \in Publishes \/ Posted(r)' => Journalled(r, "github_publication_started")'
  BY <1>1, <1>2, <1>4, JournalGrows DEF Reports
<1>6. "none" \notin Complete /\ "none" \notin Accounted
  BY DEF Complete, Accounted
<1>7. Reports(r)'
  BY <1>2, <1>3, <1>4, <1>5, <1>6 DEF Reports
<1> QED BY <1>7, Acting

\* The command stops before anything was posted.
LEMMA Stopped ==
    ASSUME IInv, IInv', Truth, NEW r \in Runs, NEW from \in BeforeList, Stop(r, from),
           UNCHANGED github, LocalStep, Notes
    PROVE  Truth'
<1>1. /\ Moves(r) /\ pc'[r] = "done" /\ job'[r] = NoJob /\ result'[r] = "not_published"
      /\ pc[r] = from /\ UNCHANGED <<timing, comments, reviews, late>>
  <2>1. "done" \in PcStates /\ "not_published" \in Statuses /\ NoJob \in Job
    BY ReviewSets DEF PcStates, Statuses
  <2> QED BY <2>1, Moving DEF IInv, Stop, Goto, With
<1>2. pc[r] \in Before /\ ~Posted(r)
  BY <1>1 DEF Before, IInv, PostedOK
<1>3. ~Posted(r)' /\ ReviewsBy(r)' = {}
  BY <1>1, <1>2 DEF Posted, ReviewsBy
<1>4. ASSUME NEW f \in Findings PROVE Id(f)' \notin NoJob.seen
  BY DEF NoJob
<1>5. Knows(r)'
  BY <1>1, <1>4 DEF Knows, NoJob
<1>6. Reports(r)'
  BY <1>1, <1>3 DEF Reports, NoJob, Complete, Accounted, Publishes
<1> QED BY <1>1, <1>2, <1>5, <1>6, Acting

\* publish returns a status that is so.
LEMMA Returned ==
    ASSUME IInv, IInv', Truth, NEW r \in Runs, NEW from \in Promoted \ {"record"},
           NEW status \in Statuses, NEW skipped \in SUBSET Findings,
           Return(r, from, status, skipped), from \in Publishes,
           UNCHANGED <<github, local, journal>>,
           \A f \in skipped : OnGitHub(f),
           status \in Complete => \A f \in job[r].items : OnGitHub(f),
           status \in Accounted => ReviewsBy(r) \subseteq {job[r].review},
           status = "failed" \/ from \in Before \cup {"readback", "confirm"}
    PROVE  Truth'
<1>1. PICK j \in Job : /\ j = [job[r] EXCEPT !.skipped = skipped]
                       /\ j.skipped = skipped /\ j.seen = job[r].seen /\ j.items = job[r].items
                       /\ j.published = job[r].published /\ j.review = job[r].review
                       /\ j.noted = job[r].noted
  <2>1. job[r] \in Job
    BY DEF IInv, Types
  <2> DEFINE j == [job[r] EXCEPT !.skipped = skipped]
  <2>2. /\ j \in Job
        /\ j.skipped = skipped /\ j.seen = job[r].seen /\ j.items = job[r].items
        /\ j.published = job[r].published /\ j.review = job[r].review
        /\ j.noted = job[r].noted
    BY <2>1 DEF Job
  <2> QED BY <2>2
<1>2. /\ Moves(r) /\ pc'[r] = "record" /\ job'[r] = j /\ result'[r] = status
      /\ pc[r] = from /\ UNCHANGED <<timing, comments, reviews, late>>
  <2>1. "record" \in PcStates
    BY DEF PcStates
  <2> QED BY ZenonT(60), <1>1, <2>1, Moving DEF IInv, Return, Goto, With
<1>3. LocalTypes /\ Reports(r) /\ Knows(r) /\ UNCHANGED journal
  BY DEF Truth
<1>4. \A f : OnGitHub(f)' <=> OnGitHub(f)
  BY <1>2 DEF OnGitHub, Id
<1>5. ReviewsBy(r)' = ReviewsBy(r) /\ (Posted(r)' <=> Posted(r))
  BY <1>2 DEF ReviewsBy, Posted
<1>6. \A pair : InReviewOf(r, pair)' <=> InReviewOf(r, pair)
  BY <1>2, <1>5 DEF InReviewOf
<1>7. Knows(r)'
  BY <1>1, <1>2, <1>3, <1>4, <1>5, <1>6 DEF Knows, Id
<1>8. j.noted = 0 /\ Journalled(r, "github_publication_started")'
  <2>1. from \notin {"record", "done"}
    BY DEF Promoted
  <2>2. Journalled(r, "github_publication_started")
    BY <1>2, <1>3 DEF Reports
  <2> QED BY <1>1, <1>2, <1>3, <2>1, <2>2 DEF Reports, Journalled
<1>9. Len(Events(r)') \in Nat
  <2>1. IsFiniteSet(j.published)
    BY <1>1, <1>3, PublishedFinite DEF IInv
  <2>2. EventsOf(r, j, status) \in Seq(DueOf(r, j))
    BY <2>1, EventsAreDue
  <2> QED BY <1>2, <2>2, EventsThen
<1>10. Reports(r)'
  BY <1>1, <1>2, <1>4, <1>5, <1>8, <1>9 DEF Reports
<1>11. LocalStep /\ Notes
  BY DEF LocalStep, Notes, local, Truth, LocalTypes
<1> QED BY <1>2, <1>7, <1>10, <1>11, Acting

LEMMA StillWorking ==
    ASSUME IInv, IInv', Truth, NEW r \in Runs, UNCHANGED github, LocalStep, Notes,
           pc[r] \notin {"record", "done"}, NEW to \in PcStates \ {"record", "done"},
           pc' = [pc EXCEPT ![r] = to],
           NEW j \in Job, job' = [job EXCEPT ![r] = j] \/ (job' = job /\ j = job[r]),
           result' = result, SameMemory(j, job[r]),
           to \in {"readback", "confirm"} =>
               pc[r] \in {"readback", "confirm"} /\ j.items = job[r].items,
           to \in Publishes =>
               pc[r] \in Publishes \/ Journalled(r, "github_publication_started")'
    PROVE  Truth'
<1>1. Moves(r) /\ pc'[r] = to /\ job'[r] = j /\ result'[r] = result[r]
  <2>1. /\ pc \in [Runs -> PcStates] /\ job \in [Runs -> Job] /\ result \in [Runs -> Statuses]
    BY DEF IInv, Types
  <2>2. job' \in [Runs -> Job] /\ job'[r] = j /\ \A q \in Runs \ {r} : job'[q] = job[q]
    BY <2>1
  <2> QED BY <2>1, <2>2 DEF Moves
<1>2. Knows(r)'
  BY <1>1, MemoryKept DEF Truth
<1> QED BY <1>1, <1>2, Working DEF SameMemory

LEMMA Quiet ==
    ASSUME Truth, UNCHANGED <<local, journal>>
    PROVE  LocalStep /\ Notes
BY DEF LocalStep, Notes, local, Truth, LocalTypes

LEMMA ResolveTruth == ASSUME IInv, Truth, NEW r \in Runs, Resolve(r) PROVE Truth'
<1> DEFINE j == [NoJob EXCEPT !.pull = pull]
<1>1. /\ j \in Job /\ j.seen = {} /\ j.skipped = {} /\ j.published = {} /\ j.review = 0
      /\ j.noted = 0
  BY ReviewSets DEF IInv, Types, Job, NoJob
<1>2. /\ Moves(r) /\ pc'[r] = "checkout" /\ job'[r] = j /\ result'[r] = result[r]
      /\ pc[r] = "idle"
  <2>1. "checkout" \in PcStates /\ result[r] \in Statuses
    BY DEF PcStates, IInv, Types
  <2> QED BY <1>1, <2>1, Moving DEF IInv, Resolve, Goto, With
<1> HIDE DEF j
<1>3. Knows(r)' /\ job[r].noted = 0
  BY <1>1, <1>2 DEF Knows, Truth, Reports
<1>4. LocalStep /\ Notes /\ IInv'
  BY Quiet, ResolveKeeps DEF Resolve
<1> QED BY <1>1, <1>2, <1>3, <1>4, Working DEF Publishes

LEMMA EarlyStates ==
    /\ {"checkout", "diff", "unchanged", "review", "verify", "promote", "adopt", "refuse",
        "plan", "announce"} \subseteq (BeforeList \cap PcStates) \ (Publishes \cup {"record", "done"})
    /\ {"readback", "confirm"} \cap BeforeList = {}
    /\ "head" \in (BeforeList \cap PcStates) \ {"record", "done"}
BY DEF BeforeList, PcStates, Publishes

LEMMA SnapshotTruth ==
    ASSUME IInv, Truth, NEW r \in Runs,
           CheckCheckout(r) \/ FetchDiff(r) \/ CheckUnchanged(r) \/ SourceFails(r)
    PROVE  Truth'
<1>1. IInv' /\ UNCHANGED <<github, local, journal>> /\ job[r] \in Job
  BY SnapshotKeeps DEF CheckCheckout, FetchDiff, CheckUnchanged, SourceFails, IInv, Types
<1>2. LocalStep /\ Notes
  BY <1>1, Quiet
<1>3. CASE \E from \in {"checkout", "diff", "unchanged", "review"} : Stop(r, from)
  BY <1>1, <1>2, <1>3, EarlyStates, Stopped
<1>4. ASSUME NEW from \in {"checkout", "unchanged"}, NEW to \in {"diff", "review"},
             Goto(r, from, to), UNCHANGED <<job, result>>
      PROVE  Truth'
  BY <1>1, <1>2, <1>4, EarlyStates, StillWorking DEF Goto, SameMemory
<1>5. CASE FetchDiff(r)
  <2> DEFINE j == [job[r] EXCEPT !.diff = pull]
  <2>1. j \in Job /\ SameMemory(j, job[r])
    BY <1>1 DEF Job, SameMemory, IInv, Types
  <2>2. /\ pc[r] = "diff" /\ pc' = [pc EXCEPT ![r] = "unchanged"]
        /\ job' = [job EXCEPT ![r] = j] /\ result' = result
    BY <1>5 DEF FetchDiff, With, Goto
  <2> HIDE DEF j
  <2> QED BY <1>1, <1>2, <2>1, <2>2, EarlyStates, StillWorking
<1> QED BY <1>3, <1>4, <1>5 DEF CheckCheckout, CheckUnchanged, SourceFails

LEMMA ReviewTruth ==
    ASSUME IInv, Truth, NEW r \in Runs, Review(r) \/ Verify(r) \/ Promote(r) \/ Adopt(r)
    PROVE  Truth'
<1>1. IInv' /\ UNCHANGED <<github, checkout, edits, journal>> /\ job[r] \in Job /\ IInv
  BY ReviewKeeps DEF Review, Verify, Promote, Adopt, IInv, Types, local
<1>2. LocalTypes
  BY DEF Truth
<1>3. files' \in [Runs -> [Artifacts -> {"absent", "whole", "altered"}]]
  <2>1. files \in [Runs -> [Artifacts -> {"absent", "whole", "altered"}]]
    BY <1>2 DEF LocalTypes
  <2>2. CASE UNCHANGED files
    BY <2>1, <2>2
  <2>3. CASE files' = [files EXCEPT ![r] = [a \in Artifacts |-> IF a = "promoted" THEN "absent" ELSE "whole"]]
    BY <2>1, <2>3
  <2>4. CASE files' = [files EXCEPT ![r]["promoted"] = "whole"]
    BY <2>1, <2>4 DEF Artifacts
  <2> QED BY <2>2, <2>3, <2>4 DEF Review, Verify, Promote, Adopt, local
<1>4. LocalStep /\ Notes
  BY <1>1, <1>2, <1>3 DEF LocalStep, LocalTypes, Notes
<1>5. CASE Stop(r, "adopt")
  BY <1>1, <1>4, <1>5, EarlyStates, Stopped
<1>6. ASSUME NEW from \in {"review", "verify", "promote", "adopt"},
             NEW to \in {"verify", "promote", "adopt", "plan", "refuse"}, Goto(r, from, to),
             NEW j \in Job, job' = [job EXCEPT ![r] = j] \/ (job' = job /\ j = job[r]),
             result' = result, SameMemory(j, job[r])
      PROVE  Truth'
  BY <1>1, <1>4, <1>6, EarlyStates, StillWorking DEF Goto
<1>7. ASSUME NEW from \in {"review", "verify", "promote", "adopt"},
             NEW to \in {"verify", "promote", "adopt", "plan", "refuse"}, Goto(r, from, to),
             UNCHANGED <<job, result>>
      PROVE  Truth'
  BY <1>1, <1>6, <1>7 DEF SameMemory
<1>8. ASSUME NEW items \in SUBSET Findings
      PROVE  /\ [job[r] EXCEPT !.items = items] \in Job
             /\ SameMemory([job[r] EXCEPT !.items = items], job[r])
  <2> DEFINE j == [job[r] EXCEPT !.items = items]
  <2>1. /\ j \in Job /\ j.seen = job[r].seen /\ j.skipped = job[r].skipped
        /\ j.published = job[r].published /\ j.review = job[r].review /\ j.noted = job[r].noted
    BY <1>1, <1>8 DEF Job
  <2> QED BY <2>1 DEF SameMemory
<1>9. \A a : Said(r, a, job[r].answer) \in SUBSET Findings /\ Said(r, a, job[r].items) \in SUBSET Findings
  BY <1>1 DEF Said, Job
<1>10. CASE Review(r)
  <2>1. ASSUME NEW answer \in SUBSET Findings, NEW attempts \in 1..2, Goto(r, "review", "verify"),
               With(r, [job[r] EXCEPT !.answer = answer, !.attempts = attempts])
        PROVE  Truth'
    <3> DEFINE j == [job[r] EXCEPT !.answer = answer, !.attempts = attempts]
    <3>1. /\ j \in Job /\ j.seen = job[r].seen /\ j.skipped = job[r].skipped
          /\ j.published = job[r].published /\ j.review = job[r].review /\ j.noted = job[r].noted
      <4>1. attempts \in 0..2
        OBVIOUS
      <4> QED BY <1>1, <4>1 DEF Job
    <3>2. job' = [job EXCEPT ![r] = j] /\ result' = result
      BY <1>10, <2>1 DEF With, Review
    <3> HIDE DEF j
    <3> QED BY <1>6, <2>1, <3>1, <3>2 DEF SameMemory
  <2> QED BY <1>7, <1>10, <2>1 DEF Review
<1>11. CASE Verify(r)
  <2>1. PICK to \in {"promote", "refuse"} : Goto(r, "verify", to)
    BY <1>11 DEF Verify
  <2> QED BY <1>7, <1>11, <2>1 DEF Verify
<1>12. CASE Promote(r)
  <2>1. ASSUME Goto(r, "promote", "adopt"),
               With(r, [job[r] EXCEPT !.items = Said(r, "response", job[r].answer)])
        PROVE  Truth'
    <3>1. PICK items \in SUBSET Findings : items = Said(r, "response", job[r].answer)
      BY <1>9
    <3>2. job' = [job EXCEPT ![r] = [job[r] EXCEPT !.items = items]] /\ result' = result
      BY <1>12, <2>1, <3>1 DEF With, Promote
    <3> QED BY <1>6, <1>8, <2>1, <3>2
  <2> QED BY <1>7, <1>12, <2>1 DEF Promote
<1>13. CASE Adopt(r)
  <2>1. ASSUME NEW to \in {"plan", "refuse"}, Goto(r, "adopt", to), UNCHANGED result,
               NEW items \in SUBSET Findings, With(r, [job[r] EXCEPT !.items = items])
        PROVE  Truth'
    <3>1. job' = [job EXCEPT ![r] = [job[r] EXCEPT !.items = items]]
      BY <2>1 DEF With
    <3> QED BY <1>6, <1>8, <2>1, <3>1
  <2>2. [job[r] EXCEPT !.items = Said(r, "promoted", @)]
            = [job[r] EXCEPT !.items = Said(r, "promoted", job[r].items)]
    OBVIOUS
  <2>3. {} \in SUBSET Findings
    OBVIOUS
  <2> QED BY <1>5, <1>9, <1>13, <2>1, <2>2, <2>3 DEF Adopt
<1> QED BY <1>10, <1>11, <1>12, <1>13

\* Event of a kind that claims nothing of GitHub.
LEMMA PlainEvent ==
    ASSUME NEW r \in Runs, NEW what \in What,
           NEW kind \in {"github_publication_planned", "github_publication_started"}
    PROVE  Event(r, kind, what) \in EventType /\ Truthful(Event(r, kind, what))
BY DEF Event, EventType, Kinds, Truthful

LEMMA PlanTruth ==
    ASSUME IInv, Truth, NEW r \in Runs, Refuse(r) \/ Plan(r) \/ Announce(r)
    PROVE  Truth'
<1>1. IInv' /\ UNCHANGED github /\ UNCHANGED local
  BY PlanKeeps DEF Refuse, Plan, Announce
<1>2. LocalTypes /\ LocalStep
  BY <1>1 DEF Truth, LocalStep, local, LocalTypes
<1>3. PICK kind \in {"github_publication_planned", "github_publication_started"}, what \in BOOLEAN :
          /\ journal' = Append(journal, Event(r, kind, what))
          /\ Announce(r) => kind = "github_publication_started"
  BY DEF Refuse, Plan, Announce, Goto
<1>4. Event(r, kind, what) \in EventType /\ Truthful(Event(r, kind, what))
  BY PlainEvent DEF What
<1>5. Notes
  BY <1>3, <1>4 DEF Notes
<1>6. CASE Stop(r, "refuse") \/ Stop(r, "plan")
  BY <1>1, <1>2, <1>5, <1>6, EarlyStates, Stopped
<1>7. SameMemory(job[r], job[r]) /\ job[r] \in Job
  BY DEF SameMemory, IInv, Types
<1>8. CASE Goto(r, "plan", "announce") /\ UNCHANGED <<job, result>>
  BY <1>1, <1>2, <1>5, <1>7, <1>8, EarlyStates, StillWorking DEF Goto
<1>9. CASE Announce(r)
  <2>1. Journalled(r, "github_publication_started")'
    <3>1. /\ Len(journal) \in Nat
          /\ Len(journal') = Len(journal) + 1
          /\ journal'[Len(journal) + 1] = Event(r, kind, what)
      BY <1>2, <1>3, <1>4, Appending DEF LocalTypes
    <3>2. Event(r, kind, what).run = r /\ Event(r, kind, what).kind = "github_publication_started"
      BY <1>3, <1>9 DEF Event
    <3>3. Len(journal) + 1 \in 1..Len(journal')
      BY <3>1
    <3> QED BY <3>1, <3>2, <3>3 DEF Journalled
  <2> QED BY <1>1, <1>2, <1>5, <1>7, <1>9, <2>1, EarlyStates, StillWorking DEF Announce, Goto
<1> QED BY <1>6, <1>8, <1>9 DEF Refuse, Plan

LEMMA PublishStates ==
    /\ {"head", "list", "recheck", "readback", "confirm"} \subseteq (Promoted \cap Publishes) \ {"record", "done"}
    /\ {"list", "recheck", "post", "readback", "confirm"} \subseteq (PcStates \cap Publishes) \ {"record", "done"}
    /\ {"head", "list", "recheck", "post"} \subseteq Before
    /\ {"list", "recheck", "post"} \cap {"readback", "confirm"} = {}
BY DEF Promoted, Publishes, PcStates, Before, BeforeList

\* The items that a run has seen on GitHub are there.
LEMMA SkippedAreThere ==
    ASSUME IInv, NEW r \in Runs, Knows(r)
    PROVE  \A f \in Skipped(r) : OnGitHub(f)
<1>1. job[r].items \subseteq Findings
  BY DEF IInv, Types, Job
<1> QED BY <1>1 DEF Skipped, Pending, Knows

\* A run that has not posted yet has no review.
LEMMA NoReviewYet ==
    ASSUME IInv, NEW r \in Runs, pc[r] \in Before
    PROVE  ReviewsBy(r) = {} /\ ~Posted(r)
BY DEF IInv, PostedOK, Posted, ReviewsBy

LEMMA CheckHeadTruth == ASSUME IInv, Truth, NEW r \in Runs, CheckHead(r), UNCHANGED <<local, journal>> PROVE Truth'
<1>1. IInv' /\ UNCHANGED github /\ pc[r] = "head" /\ job[r] \in Job
  BY CheckHeadKeeps DEF CheckHead, IInv, Types
<1>2. LocalStep /\ Notes /\ ReviewsBy(r) = {}
  BY <1>1, Quiet, NoReviewYet, PublishStates
<1>3. CASE \E status \in {"no_findings", "stale_head"} : Return(r, "head", status, {})
  <2>1. {"no_findings", "stale_head"} \subseteq Statuses \ Complete /\ {} \in SUBSET Findings
    BY DEF Statuses, Complete
  <2> QED BY <1>1, <1>2, <1>3, <2>1, PublishStates, Returned
<1>4. CASE Goto(r, "head", "list") /\ UNCHANGED <<job, result>>
  BY <1>1, <1>2, <1>4, PublishStates, StillWorking DEF Goto, SameMemory
<1> QED BY <1>3, <1>4 DEF CheckHead

LEMMA ListTruth == ASSUME IInv, Truth, NEW r \in Runs, List(r), UNCHANGED <<local, journal>> PROVE Truth'
<1> DEFINE entries == Listing(r)
           seen == job[r].seen \cup UNION {entries[i].markers : i \in PageOf(entries, job[r].read)}
           j == [job[r] EXCEPT !.seen = seen]
<1>1. IInv' /\ UNCHANGED github /\ pc[r] = "list" /\ job[r] \in Job /\ Types /\ Knows(r)
  BY ListKeeps DEF List, IInv, Types, Truth
<1>2. LocalStep /\ Notes /\ ReviewsBy(r) = {}
  BY <1>1, Quiet, NoReviewYet, PublishStates
<1>3. entries = comments \/ entries = reviews
  BY DEF Listing
<1>4. seen \in SUBSET Findings /\ \A f \in Findings : Id(f) \in seen => OnGitHub(f)
  <2>1. \A i \in 1..Len(comments) : comments[i].markers \subseteq Findings
    <3>1. \A i \in 1..Len(comments) : comments[i] \in CommentType
      BY <1>1 DEF Types
    <3> QED BY <3>1 DEF CommentType
  <2>2. \A i \in 1..Len(reviews) : reviews[i].markers \subseteq Findings
    <3>1. \A i \in 1..Len(reviews) : reviews[i] \in ReviewType
      BY <1>1 DEF Types
    <3> QED BY <3>1 DEF ReviewType
  <2>3. \A i \in 1..Len(entries) : /\ entries[i].markers \subseteq Findings
                                   /\ \A f \in Findings : Id(f) \in entries[i].markers => OnGitHub(f)
    BY <1>3, <2>1, <2>2 DEF OnGitHub
  <2> HIDE DEF entries
  <2> QED BY <1>1, <2>3 DEF PageOf, Job, Knows
<1> HIDE DEF seen
<1>5. /\ j \in Job /\ j.seen = seen /\ j.listing = job[r].listing
      /\ j.skipped = job[r].skipped /\ j.published = job[r].published
      /\ j.review = job[r].review /\ j.noted = job[r].noted /\ j.page = job[r].page
      /\ j.read = job[r].read
  BY <1>1, <1>4 DEF Job
\* A step to the next page or to the next listing.
<1>6. ASSUME NEW k \in Job, k.seen = seen, k.skipped = job[r].skipped, k.published = job[r].published,
             k.review = job[r].review, k.noted = job[r].noted,
             job' = [job EXCEPT ![r] = k], result' = result,
             NEW to \in {"list", "recheck"}, pc' = [pc EXCEPT ![r] = to]
      PROVE  Truth'
  <2>1. Moves(r) /\ pc'[r] = to /\ job'[r] = k /\ result'[r] = result[r]
    <3>1. result[r] \in Statuses /\ to \in PcStates
      BY <1>1 DEF Types, PcStates
    <3>2. result' = [result EXCEPT ![r] = result[r]] \/ (result' = result /\ result[r] = result[r])
      BY <1>6
    <3> QED BY <1>1, <1>6, <3>1, <3>2, Moving
  <2>2. Knows(r)'
    <3>1. UNCHANGED <<timing, comments, reviews>>
      BY <1>1 DEF github
    <3>2. /\ \A f \in Findings : Id(f)' \in k.seen => OnGitHub(f)'
      BY <1>4, <1>6, <3>1 DEF OnGitHub, Id
    <3>3. /\ \A f \in k.skipped : OnGitHub(f)'
          /\ \A pair \in k.published : InReviewOf(r, pair)'
          /\ k.review # 0 => k.review \in ReviewsBy(r)'
      BY <1>1, <1>6, <3>1 DEF Knows, OnGitHub, Id, InReviewOf, ReviewsBy
    <3> QED BY <2>1, <3>2, <3>3 DEF Knows
  <2> QED BY <1>1, <1>2, <1>6, <2>1, <2>2, PublishStates, Working
<1>7. pc = [pc EXCEPT ![r] = "list"]
  BY <1>1 DEF Types
<1>8. MaxPages \in Nat /\ PageSize \in Nat /\ 1 \in 1..MaxPages
  BY PublisherAssumption
<1>9. CASE Short(entries, job[r].read) /\ job[r].listing = "comments"
  <2> DEFINE k == Turned(j, "reviews", 1, 0)
  <2>1. /\ k \in Job /\ k.seen = seen /\ k.skipped = job[r].skipped
        /\ k.published = job[r].published /\ k.review = job[r].review /\ k.noted = job[r].noted
    <3> HIDE DEF j
    <3> QED BY <1>5, <1>8 DEF Job, Turned
  <2>2. job' = [job EXCEPT ![r] = k] /\ pc' = pc /\ result' = result
    BY <1>9 DEF List, With, seen, Turned
  <2> HIDE DEF k
  <2> QED BY <1>6, <1>7, <2>1, <2>2
<1>10. CASE Short(entries, job[r].read) /\ job[r].listing # "comments"
  <2>1. job' = [job EXCEPT ![r] = j] /\ pc' = [pc EXCEPT ![r] = "recheck"] /\ result' = result
    BY <1>5, <1>10 DEF List, With, Goto, seen
  <2> HIDE DEF j
  <2> QED BY <1>5, <1>6, <2>1
<1>11. CASE ~Short(entries, job[r].read) /\ job[r].page = MaxPages
  <2>1. Return(r, "list", "reconciliation_incomplete", {})
    BY <1>1, <1>11 DEF List, Job
  <2>2. "reconciliation_incomplete" \in Statuses \ Complete /\ {} \in SUBSET Findings
    BY DEF Statuses, Complete
  <2> QED BY <1>1, <1>2, <2>1, <2>2, PublishStates, Returned
<1>12. CASE ~Short(entries, job[r].read) /\ job[r].page # MaxPages
  <2> DEFINE k == NextPage(j)
  <2>1. /\ k \in Job /\ k.seen = seen /\ k.skipped = job[r].skipped
        /\ k.published = job[r].published /\ k.review = job[r].review /\ k.noted = job[r].noted
    <3>1. j.page + 1 \in 1..MaxPages /\ j.read + PageSize \in Nat
      BY <1>1, <1>5, <1>8, <1>12 DEF Job
    <3> HIDE DEF j
    <3> QED BY <1>5, <3>1 DEF Job, NextPage
  <2>2. job' = [job EXCEPT ![r] = k] /\ pc' = pc /\ result' = result
    BY <1>5, <1>12 DEF List, With, seen, NextPage
  <2> HIDE DEF k
  <2> QED BY <1>6, <1>7, <2>1, <2>2
<1> QED BY <1>9, <1>10, <1>11, <1>12

LEMMA RecheckTruth == ASSUME IInv, Truth, NEW r \in Runs, Recheck(r), UNCHANGED <<local, journal>> PROVE Truth'
<1>1. IInv' /\ UNCHANGED github /\ pc[r] = "recheck" /\ job[r] \in Job /\ Knows(r)
  BY RecheckKeeps DEF Recheck, IInv, Types, Truth
<1>2. LocalStep /\ Notes /\ ReviewsBy(r) = {} /\ \A f \in Skipped(r) : OnGitHub(f)
  BY <1>1, Quiet, NoReviewYet, PublishStates, SkippedAreThere
<1>3. Skipped(r) \in SUBSET Findings /\ {"skipped_duplicate", "stale_head"} \subseteq Statuses
  BY PendingTypes DEF Statuses
<1>4. CASE Pending(r) = {} /\ Return(r, "recheck", "skipped_duplicate", Skipped(r))
  <2>1. \A f \in job[r].items : OnGitHub(f)
    BY <1>2, <1>4 DEF Skipped
  <2> QED BY <1>1, <1>2, <1>3, <1>4, <2>1, PublishStates, Returned
<1>5. CASE Return(r, "recheck", "stale_head", Skipped(r))
  BY <1>1, <1>2, <1>3, <1>5, PublishStates, Returned DEF Complete
<1>6. CASE Goto(r, "recheck", "post") /\ UNCHANGED <<job, result>>
  BY <1>1, <1>2, <1>6, PublishStates, StillWorking DEF Goto, SameMemory
<1> QED BY <1>4, <1>5, <1>6 DEF Recheck

LEMMA ReadBackTruth == ASSUME IInv, Truth, NEW r \in Runs, ReadBack(r), UNCHANGED <<local, journal>> PROVE Truth'
<1>1. /\ IInv' /\ UNCHANGED github /\ pc[r] = "readback" /\ job[r] \in Job /\ Knows(r) /\ Types
      /\ Reports(r)
  BY ReadBackKeeps DEF ReadBack, IInv, Types, Truth
<1>2. LocalStep /\ Notes /\ \A f \in Skipped(r) : OnGitHub(f)
  BY <1>1, Quiet, SkippedAreThere
<1>3. Skipped(r) \in SUBSET Findings /\ {"reconciliation_incomplete", "failed"} \subseteq Statuses \ Complete
  BY PendingTypes DEF Statuses, Complete
<1>4. CASE \E status \in {"reconciliation_incomplete", "failed"} : Return(r, "readback", status, Skipped(r))
  BY <1>1, <1>2, <1>3, <1>4, PublishStates, Returned DEF Reports
<1>5. CASE /\ With(r, [job[r] EXCEPT !.published = CommentsOf(job[r].review)])
           /\ Goto(r, "readback", "confirm") /\ UNCHANGED result
  <2> DEFINE j == [job[r] EXCEPT !.published = CommentsOf(job[r].review)]
  <2>1. CommentsOf(job[r].review) \in SUBSET (Findings \X Nat)
    BY <1>1, CommentPairs
  <2>2. /\ j \in Job /\ j.seen = job[r].seen /\ j.skipped = job[r].skipped
        /\ j.published = CommentsOf(job[r].review) /\ j.review = job[r].review
        /\ j.noted = job[r].noted /\ j.items = job[r].items
    BY <1>1, <2>1 DEF Job
  <2>3. job' = [job EXCEPT ![r] = j] /\ pc' = [pc EXCEPT ![r] = "confirm"] /\ result' = result
    BY <1>5 DEF With, Goto
  <2> HIDE DEF j
  <2>4. Moves(r) /\ pc'[r] = "confirm" /\ job'[r] = j /\ result'[r] = result[r]
    <3>1. result[r] \in Statuses /\ "confirm" \in PcStates
      BY <1>1 DEF Types, PcStates
    <3>2. result' = [result EXCEPT ![r] = result[r]] \/ (result' = result /\ result[r] = result[r])
      BY <2>3
    <3> QED BY <1>1, <2>2, <2>3, <3>1, <3>2, Moving
  <2>5. \A pair \in CommentsOf(job[r].review) : InReviewOf(r, pair)
    <3>1. job[r].review \in ReviewsBy(r)
      BY <1>1 DEF Reports, Knows
    <3>2. ASSUME NEW pair \in CommentsOf(job[r].review)
          PROVE  /\ pair[2] \in 1..Len(comments) /\ pair[1] \in comments[pair[2]].markers
                 /\ comments[pair[2]].review = job[r].review
      BY <3>2 DEF CommentsOf
    <3> QED BY <2>1, <3>1, <3>2 DEF InReviewOf
  <2>6. Knows(r)'
    <3>1. UNCHANGED <<timing, comments, reviews>>
      BY <1>1 DEF github
    <3> QED BY <1>1, <2>2, <2>4, <2>5, <3>1 DEF Knows, OnGitHub, Id, InReviewOf, ReviewsBy
  <2> QED BY <1>1, <1>2, <2>2, <2>4, <2>6, PublishStates, Working
<1>6. CASE /\ job[r].page # MaxPages
           /\ With(r, [job[r] EXCEPT !.page = @ + 1, !.read = @ + PageSize])
           /\ UNCHANGED <<pc, result>>
  <2> DEFINE j == NextPage(job[r])
  <2>1. j \in Job
    BY <1>1, <1>6, TurnedOn
  <2>2. SameMemory(j, job[r]) /\ j.items = job[r].items
    BY <1>1 DEF NextPage, SameMemory, Job
  <2>3. job' = [job EXCEPT ![r] = j] /\ pc' = [pc EXCEPT ![r] = "readback"] /\ result' = result
    BY <1>1, <1>6 DEF With, NextPage, Types
  <2> HIDE DEF j
  <2> QED BY <1>1, <1>2, <2>1, <2>2, <2>3, PublishStates, StillWorking
<1> QED BY <1>4, <1>5, <1>6 DEF ReadBack

LEMMA ConfirmTruth == ASSUME IInv, Truth, NEW r \in Runs, Confirm(r), UNCHANGED <<local, journal>> PROVE Truth'
<1>1. IInv' /\ UNCHANGED github /\ pc[r] = "confirm" /\ Knows(r) /\ Reports(r)
  BY ConfirmKeeps DEF Confirm, Return, Goto, Truth
<1>2. Skipped(r) \in SUBSET Findings /\ \A f \in Skipped(r) : OnGitHub(f)
  BY <1>1, PendingTypes, SkippedAreThere
<1>3. PICK status \in {"published", "stale_head_race"} : Return(r, "confirm", status, Skipped(r))
  BY DEF Confirm
<1>4. status \in Statuses \ Accounted
  BY DEF Statuses, Accounted
<1> QED BY <1>1, <1>2, <1>3, <1>4, PublishStates, Returned DEF Reports

LEMMA CallFailsTruth == ASSUME IInv, Truth, NEW r \in Runs, CallFails(r), UNCHANGED <<local, journal>> PROVE Truth'
<1>1. IInv' /\ UNCHANGED github /\ Knows(r) /\ Reports(r)
  BY CallFailsKeeps DEF CallFails, Truth
<1>2. PICK from \in {"head", "list", "recheck", "readback", "confirm"},
           status \in {"failed", "reconciliation_incomplete"}, skipped \in {{}, Skipped(r)} :
               Return(r, from, status, skipped)
  BY DEF CallFails
<1>3. skipped \in SUBSET Findings /\ \A f \in skipped : OnGitHub(f)
  BY <1>1, PendingTypes, SkippedAreThere
<1>4. status \in Statuses \ Complete /\ pc[r] = from
  BY <1>2 DEF Statuses, Complete, Return, Goto
<1>5. ReviewsBy(r) \subseteq {job[r].review}
  <2>1. CASE from \in {"readback", "confirm"}
    BY <1>1, <1>4, <2>1 DEF Reports
  <2>2. CASE from \in {"head", "list", "recheck"}
    BY <1>4, <2>2, PublishStates, NoReviewYet
  <2> QED BY <2>1, <2>2
<1> QED BY <1>1, <1>2, <1>3, <1>4, <1>5, PublishStates, Returned

-----------------------------------------------------------------------------
(* The end of a command, and what it reports.                              *)

LEMMA KeptMemory ==
    ASSUME IInv, NEW r \in Runs
    PROVE  /\ Kept(r).seen = {} /\ Kept(r).skipped = {} /\ Kept(r).published = {}
           /\ Kept(r).items = job[r].items
           /\ Kept(r).review = IF job[r].items = {} THEN 0 ELSE job[r].review
<1>1. job[r] \in Job
  BY DEF IInv, Types
<1>2. CASE job[r].items = {}
  BY <1>2 DEF Kept, NoJob
<1>3. CASE job[r].items # {}
  BY <1>1, <1>3 DEF Kept, NoJob
<1> QED BY <1>2, <1>3

LEMMA EndTruth ==
    ASSUME IInv, IInv', Truth, NEW r \in Runs, UNCHANGED <<github, local, journal>>, Active(r),
           pc' = [pc EXCEPT ![r] = "done"], With(r, Kept(r)),
           NEW res \in Statuses, result' = [result EXCEPT ![r] = res],
           res = "killed" \/ res = result[r],
           res # "killed" /\ job[r].review # 0 => Journalled(r, "github_summary_published")
    PROVE  Truth'
<1>1. /\ Moves(r) /\ pc'[r] = "done" /\ job'[r] = Kept(r) /\ result'[r] = res
      /\ UNCHANGED <<timing, comments, reviews, late>>
  <2>1. "done" \in PcStates /\ Types
    BY DEF PcStates, IInv
  <2>2. PICK j \in Job : j = Kept(r)
    BY KeptJob
  <2>3. job' = [job EXCEPT ![r] = j]
    BY <2>2 DEF With
  <2> QED BY <2>1, <2>2, <2>3 DEF Types, Moves, github
<1>2. Reports(r) /\ LocalStep /\ Notes /\ UNCHANGED journal
  BY Quiet DEF Truth
<1>3. Knows(r)'
  <2>1. Kept(r).review # 0 => Kept(r).review \in ReviewsBy(r)
    BY KeptMemory DEF Truth, Knows
  <2>2. \A f \in Findings : Id(f)' \notin Kept(r).seen
    BY KeptMemory
  <2>3. ReviewsBy(r)' = ReviewsBy(r)
    BY <1>1 DEF ReviewsBy
  <2> QED BY <1>1, <2>1, <2>2, <2>3, KeptMemory DEF Knows
<1>4. job[r].items = {} => ReviewsBy(r) = {}
  BY DEF IInv, PostedOK, ReviewOK, Backed, ReviewsBy
<1>5. Reports(r)'
  <2>1. ReviewsBy(r)' = ReviewsBy(r) /\ (Posted(r)' <=> Posted(r))
    BY <1>1 DEF ReviewsBy, Posted
  <2>2. \A f : OnGitHub(f)' <=> OnGitHub(f)
    BY <1>1 DEF OnGitHub, Id
  <2>3. \A kind : Journalled(r, kind)' <=> Journalled(r, kind)
    BY <1>2 DEF Journalled
  <2>4. "killed" \notin Complete /\ "killed" \notin Accounted /\ "done" \notin Publishes
    BY DEF Complete, Accounted, Publishes
  <2>5. res \in Complete => \A f \in Kept(r).items : OnGitHub(f)
    BY <1>2, <2>4, KeptMemory DEF Reports
  <2>6. res \in Accounted => ReviewsBy(r) \subseteq {Kept(r).review}
    BY <1>2, <1>4, <2>4, KeptMemory DEF Reports
  <2>7. Posted(r) => Journalled(r, "github_publication_started")
    BY <1>2 DEF Reports
  <2>8. res # "killed" /\ Kept(r).review # 0 => Journalled(r, "github_summary_published")
    BY KeptMemory
  <2> QED BY <1>1, <2>1, <2>2, <2>3, <2>4, <2>5, <2>6, <2>7, <2>8 DEF Reports
<1> QED BY <1>1, <1>2, <1>3, <1>5, Acting

LEMMA CrashTruth == ASSUME IInv, Truth, NEW r \in Runs, Crash(r) PROVE Truth'
<1>1. IInv' /\ "killed" \in Statuses /\ Active(r)
  BY CrashKeeps DEF Statuses, Crash, Active
<1> QED BY <1>1, EndTruth DEF Crash

\* The events a run has journalled, once it has journalled all of them.
LEMMA AllJournalled ==
    ASSUME IInv, Truth, NEW r \in Runs, pc[r] = "record", job[r].noted = Len(Events(r)),
           job[r].review # 0
    PROVE  Journalled(r, "github_summary_published")
<1>1. job[r] \in Job /\ result[r] \in Statuses /\ Knows(r) /\ Reports(r) /\ Types
  BY DEF IInv, Types, Truth
<1>2. /\ Events(r) \in Seq(DueOf(r, job[r]))
      /\ \E k \in 1..Len(Events(r)) : Events(r)[k].kind = "github_summary_published"
  BY <1>1, PublishedFinite, EventsAreDue, EventsThen
<1>3. PICK k \in 1..Len(Events(r)) : Events(r)[k].kind = "github_summary_published"
  BY <1>2
<1>4. PICK i \in 1..Len(journal) : journal[i] = Events(r)[k]
  BY <1>1, <1>3 DEF Reports
<1>5. Events(r)[k] \in DueOf(r, job[r])
  BY <1>2, <1>3
<1> QED BY <1>3, <1>4, <1>5 DEF DueOf, Journalled

LEMMA DueIsTruthful ==
    ASSUME NEW r \in Runs, Knows(r), NEW e \in DueOf(r, job[r])
    PROVE  e \in EventType /\ Truthful(e)
BY DEF Knows, DueOf, Truthful

LEMMA RecordTruth == ASSUME IInv, Truth, NEW r \in Runs, Record(r) PROVE Truth'
<1>1. /\ IInv' /\ UNCHANGED github /\ UNCHANGED local /\ pc[r] = "record" /\ result' = result
      /\ job[r] \in Job /\ Types /\ result[r] \in Statuses /\ Knows(r) /\ Reports(r) /\ LocalTypes
  BY RecordKeeps DEF Record, IInv, Types, Truth
<1>2. /\ Events(r) \in Seq(DueOf(r, job[r])) /\ Len(Events(r)) \in Nat
      /\ job[r].noted \in Nat /\ job[r].noted <= Len(Events(r))
  <2>1. Events(r) \in Seq(DueOf(r, job[r]))
    BY <1>1, PublishedFinite, EventsAreDue, EventsThen
  <2> QED BY <1>1, <2>1 DEF Reports, Job
<1>3. CASE /\ job[r].noted = Len(Events(r))
           /\ Goto(r, "record", "done") /\ With(r, Kept(r)) /\ UNCHANGED journal
  <2>1. Active(r) /\ pc' = [pc EXCEPT ![r] = "done"]
    BY <1>1, <1>3 DEF Active, Goto
  <2>2. result' = [result EXCEPT ![r] = result[r]]
    BY <1>1 DEF Types
  <2>3. job[r].review # 0 => Journalled(r, "github_summary_published")
    BY <1>1, <1>3, AllJournalled
  <2> QED BY <1>1, <1>3, <2>1, <2>2, <2>3, EndTruth
<1>4. CASE /\ job[r].noted # Len(Events(r))
           /\ journal' = Append(journal, Events(r)[job[r].noted + 1])
           /\ With(r, [job[r] EXCEPT !.noted = @ + 1]) /\ UNCHANGED pc
  <2> DEFINE j == [job[r] EXCEPT !.noted = @ + 1]
             n == job[r].noted + 1
             e == Events(r)[n]
  <2>1. n \in 1..Len(Events(r))
    BY <1>2, <1>4
  <2>2. e \in EventType /\ Truthful(e)
    <3>1. e \in DueOf(r, job[r])
      BY <1>2, <2>1
    <3> QED BY <1>1, <3>1, DueIsTruthful
  <2>3. Notes /\ LocalStep
    BY <1>1, <1>4, <2>2 DEF Notes, LocalStep, local, LocalTypes
  <2>4. /\ j \in Job /\ j.seen = job[r].seen /\ j.skipped = job[r].skipped
        /\ j.published = job[r].published /\ j.review = job[r].review
        /\ j.items = job[r].items /\ j.noted = n
    BY SMTT(60), <1>1, <1>2 DEF Job
  <2>5. job' = [job EXCEPT ![r] = j] /\ pc' = pc
    BY <1>4 DEF With
  <2> HIDE DEF j
  <2>6. /\ Moves(r) /\ pc'[r] = "record" /\ job'[r] = j /\ result'[r] = result[r]
        /\ UNCHANGED <<timing, comments, reviews, late>>
    BY <1>1, <2>4, <2>5 DEF Moves, Types, github
  <2>7. Knows(r)'
    BY <1>1, <2>4, <2>6 DEF Knows, OnGitHub, Id, InReviewOf, ReviewsBy
  <2>8. Events(r)' = Events(r)
    BY <2>4, <2>6, EventsSame
  <2>9. \A k \in 1..n : \E i \in 1..Len(journal') : journal'[i] = Events(r)[k]
    <3>1. /\ Len(journal) \in Nat /\ Len(journal') = Len(journal) + 1
          /\ \A i \in 1..Len(journal) : journal'[i] = journal[i]
          /\ journal'[Len(journal) + 1] = e
      BY <1>1, <1>4, <2>2, Appending DEF LocalTypes
    <3>2. ASSUME NEW k \in 1..n PROVE \E i \in 1..Len(journal') : journal'[i] = Events(r)[k]
      <4>1. CASE k = n
        <5>1. Len(journal) + 1 \in 1..Len(journal')
          BY <3>1
        <5> QED BY <3>1, <4>1, <5>1
      <4>2. CASE k # n
        <5>1. k \in 1..job[r].noted
          BY <1>2, <4>2
        <5>2. PICK i \in 1..Len(journal) : journal[i] = Events(r)[k]
          BY <1>1, <5>1 DEF Reports
        <5> QED BY <3>1, <5>2
      <4> QED BY <4>1, <4>2
    <3> QED BY <3>2
  <2> HIDE DEF e, n
  <2>10. Reports(r)'
    <3>1. \A kind : Journalled(r, kind) => Journalled(r, kind)'
      BY <1>1, <2>3, JournalGrows
    <3>2. \A f : OnGitHub(f)' <=> OnGitHub(f)
      BY <2>6 DEF OnGitHub, Id
    <3>3. ReviewsBy(r)' = ReviewsBy(r) /\ (Posted(r)' <=> Posted(r))
      BY <2>6 DEF ReviewsBy, Posted
    <3>4. n <= Len(Events(r))
      BY <1>2, <2>1
    <3> QED BY <1>1, <2>4, <2>6, <2>8, <2>9, <3>1, <3>2, <3>3, <3>4 DEF Reports
  <2> QED BY <1>1, <2>3, <2>6, <2>7, <2>10, Acting
<1> QED BY <1>3, <1>4 DEF Record

-----------------------------------------------------------------------------
(* GitHub changes, and what the runs report stays so.                      *)

\* What a POST brings to GitHub is there.
LEMMA ApplyMarks ==
    ASSUME Types, NEW post \in PostType, Apply(post), timing' = timing
    PROVE  \A f \in post.items : OnGitHub(f)'
<1> DEFINE set == post.items \cap Inline
           n == Cardinality(set)
           new == [i \in DOMAIN Order(set) |-> [review |-> Len(reviews) + 1, markers |-> {Id(Order(set)[i])}]]
           Comment == [review : {Len(reviews) + 1}, markers : SUBSET {Id(f) : f \in set}]
<1>1. IsFiniteSet(set)
  BY FS_Subset, PublisherAssumption DEF PostType
<1>2. /\ n \in Nat /\ Order(set) \in [1..n -> set]
      /\ \A f \in set : \E i \in 1..n : Order(set)[i] = f
  BY <1>1, OrderOfFinite
<1>3. comments' = comments \o new
  BY DEF Apply
<1>4. new \in [1..n -> Comment]
  BY <1>2
<1>5. \A i \in 1..n : new[i].markers = {Id(Order(set)[i])}
  BY <1>2
<1> HIDE DEF new, n, Comment
<1>6. Len(new) = n /\ Len(comments) \in Nat /\ Len(comments') = Len(comments) + n
      /\ \A i \in 1..n : comments'[Len(comments) + i] = new[i]
  <2>1. comments \in Seq(CommentType)
    BY DEF Types
  <2>2. new \in Seq(Comment) /\ Len(new) = n
    BY <1>2, <1>4, FunctionsAreSequences
  <2>3. Len(comments \o new) = Len(comments) + Len(new)
    BY <2>1, <2>2
  <2>4. \A i \in 1..Len(new) : (comments \o new)[Len(comments) + i] = new[i]
    BY <2>1, <2>2
  <2> QED BY <1>3, <2>1, <2>2, <2>3, <2>4
<1>7. ASSUME NEW f \in set PROVE OnGitHub(f)'
  <2>1. PICK i \in 1..n : Order(set)[i] = f
    BY <1>2
  <2>2. Len(comments) + i \in 1..Len(comments')
    BY <1>2, <1>6
  <2>3. Id(f) \in comments'[Len(comments) + i].markers
    BY <1>5, <1>6, <2>1
  <2> QED BY <2>2, <2>3 DEF OnGitHub, Id
<1>8. ASSUME NEW f \in post.items \ Inline PROVE OnGitHub(f)'
  <2>1. /\ Len(reviews') = Len(reviews) + 1
        /\ reviews'[Len(reviews) + 1] = [by |-> post.by, commit |-> post.commit, head |-> pull.head,
                                         markers |-> Ids(post.items \ Inline)]
    BY ApplyAdds
  <2>2. Id(f) \in reviews'[Len(reviews) + 1].markers
    BY <2>1 DEF Ids
  <2>3. Len(reviews) + 1 \in 1..Len(reviews')
    <3>1. Len(reviews) \in Nat
      BY DEF Types
    <3> QED BY <2>1, <3>1
  <2> QED BY <2>2, <2>3 DEF OnGitHub, Id
<1> QED BY <1>7, <1>8

\* A POST adds a review of its run, and takes nothing away.
LEMMA ApplyGrows ==
    ASSUME Types, NEW post \in PostType, Apply(post), UNCHANGED <<timing, journal>>, LocalTypes
    PROVE  /\ Grown
           /\ \A q : q # post.by => ReviewsBy(q)' = ReviewsBy(q)
           /\ ReviewsBy(post.by)' = ReviewsBy(post.by) \cup {Len(reviews) + 1}
           /\ Len(reviews) \in Nat
<1>1. /\ Len(reviews') = Len(reviews) + 1 /\ Len(reviews) \in Nat
      /\ \A i \in 1..Len(reviews) : reviews'[i] = reviews[i]
      /\ reviews'[Len(reviews) + 1].by = post.by
      /\ Len(comments') \in Nat /\ Len(comments) <= Len(comments')
      /\ \A k \in 1..Len(comments) : comments'[k] = comments[k]
  <2>1. /\ Len(reviews') = Len(reviews) + 1
        /\ \A i \in 1..Len(reviews) : reviews'[i] = reviews[i]
        /\ reviews'[Len(reviews) + 1] = [by |-> post.by, commit |-> post.commit, head |-> pull.head,
                                         markers |-> Ids(post.items \ Inline)]
    BY ApplyAdds
  <2>2. /\ Len(comments') \in Nat /\ Len(comments) <= Len(comments')
        /\ \A k \in 1..Len(comments) : comments'[k] = comments[k]
    BY ApplyAdds
  <2> QED BY <2>1, <2>2, Lengths
<1>2. Grown
  BY <1>1, Lengths DEF Grown, Extends
<1>3. 1..Len(reviews') = 1..Len(reviews) \cup {Len(reviews) + 1}
  BY <1>1
<1> QED BY <1>1, <1>2, <1>3 DEF ReviewsBy

\* Nobody but GitHub, or those who write to it, takes a step.
LEMMA Around ==
    ASSUME IInv, IInv', Truth, UNCHANGED <<runs, journal>>, LocalStep, remarks' \in Nat, Grown,
           late' \subseteq late,
           \A q \in Runs :
               /\ Posted(q)' => Posted(q)
               /\ pc[q] \in {"readback", "confirm"} \/ result[q] \in Accounted =>
                      ReviewsBy(q)' \subseteq ReviewsBy(q)
    PROVE  Truth'
<1>1. Types /\ Types' /\ LocalTypes /\ LocalTypes' /\ UNCHANGED <<pc, job, result>>
  BY DEF IInv, Truth, LocalTypes, LocalStep, runs
<1>2. \A q \in Runs : Knows(q)' /\ Reports(q)'
  BY <1>1, OthersKeep DEF Truth
<1>3. JournalTruthful'
  BY <1>1, GrownKeeps DEF Truth, JournalTruthful
<1>4. GivenUp'
  BY <1>1 DEF Truth, GivenUp
<1> QED BY <1>1, <1>2, <1>3, <1>4 DEF Truth

LEMMA PushTruth == ASSUME IInv, Truth, Push, UNCHANGED <<local, journal>> PROVE Truth'
<1>1. IInv' /\ UNCHANGED <<timing, comments, reviews, late, remarks, runs, journal>>
  BY PushKeeps DEF Push
<1>2. Grown /\ LocalStep /\ remarks' \in Nat
  BY <1>1, Lengths, Quiet DEF Grown, Extends, Truth, IInv, LocalTypes
<1>3. \A q \in Runs : ReviewsBy(q)' = ReviewsBy(q) /\ (Posted(q)' => Posted(q))
  BY <1>1 DEF ReviewsBy, Posted
<1> QED BY <1>1, <1>2, <1>3, Around

LEMMA RemarkTruth == ASSUME IInv, Truth, Remark, UNCHANGED <<local, journal>> PROVE Truth'
<1>1. IInv' /\ UNCHANGED <<timing, late, runs, journal>> /\ remarks' = remarks + 1
  BY RemarkKeeps DEF Remark
<1>2. Types /\ LocalTypes /\ LocalStep /\ remarks' \in Nat
  BY <1>1, Quiet DEF Truth, IInv, LocalTypes
<1>3. /\ comments \in Seq(CommentType) /\ reviews \in Seq(ReviewType)
      /\ Len(comments) \in Nat /\ Len(reviews) \in Nat /\ pull.head \in Nat
  BY <1>2 DEF Types, Pulls
<1>4. Grown /\ \A q \in Runs : ReviewsBy(q)' = ReviewsBy(q)
  <2>1. CASE /\ comments' = Append(comments, [review |-> 0, markers |-> {}]) /\ UNCHANGED reviews
    <3>1. [review |-> 0, markers |-> {}] \in CommentType
      BY DEF CommentType
    <3>2. Extends(comments, comments') /\ Extends(reviews, reviews')
      BY <1>3, <2>1, <3>1, Appending DEF Extends
    <3> QED BY <1>1, <1>2, <2>1, <3>2, Lengths DEF Grown, Extends, ReviewsBy
  <2>2. CASE /\ reviews' = Append(reviews, [by |-> "people", commit |-> pull.head,
                                            head |-> pull.head, markers |-> {}])
             /\ UNCHANGED comments
    <3> DEFINE review == [by |-> "people", commit |-> pull.head, head |-> pull.head, markers |-> {}]
    <3>1. review \in ReviewType /\ review.by = "people"
      BY <1>3 DEF ReviewType
    <3> HIDE DEF review
    <3>2. /\ Len(reviews') = Len(reviews) + 1 /\ reviews'[Len(reviews) + 1] = review
          /\ \A i \in 1..Len(reviews) : reviews'[i] = reviews[i]
      BY <1>3, <2>2, <3>1, Appending DEF review
    <3>3. Grown
      BY <1>1, <1>2, <1>3, <2>2, <3>2, Lengths DEF Grown, Extends
    <3>4. ASSUME NEW q \in Runs PROVE ReviewsBy(q)' = ReviewsBy(q)
      <4>1. q # "people"
        BY PublisherAssumption
      <4>2. 1..Len(reviews') = 1..Len(reviews) \cup {Len(reviews) + 1}
        BY <1>3, <3>2
      <4> QED BY <3>1, <3>2, <4>1, <4>2 DEF ReviewsBy
    <3> QED BY <3>3, <3>4
  <2> QED BY <2>1, <2>2 DEF Remark
<1>5. \A q \in Runs : Posted(q)' => Posted(q)
  <2>1. \A q : Posted(q) <=> (ReviewsBy(q) # {} \/ \E post \in late : post.by = q)
    BY DEF Posted, ReviewsBy
  <2>2. \A q : Posted(q)' <=> (ReviewsBy(q)' # {} \/ \E post \in late : post.by = q)
    BY <1>1 DEF Posted, ReviewsBy
  <2> QED BY <1>4, <2>1, <2>2
<1> QED BY <1>1, <1>2, <1>4, <1>5, Around

LEMMA LandTruth == ASSUME IInv, Truth, Land, UNCHANGED <<local, journal>> PROVE Truth'
<1>1. IInv' /\ UNCHANGED <<timing, pull, remarks, runs, journal>>
  BY LandKeeps DEF Land
<1>2. PICK post \in late : Apply(post) /\ late' = late \ {post}
  BY DEF Land
<1>3. Types /\ LocalTypes /\ LocalStep /\ remarks' \in Nat /\ post \in PostType /\ post.by \in Runs
  BY <1>1, Quiet DEF Truth, IInv, LocalTypes, Types, PostType
<1>4. /\ Grown
      /\ \A q : q # post.by => ReviewsBy(q)' = ReviewsBy(q)
  BY <1>1, <1>2, <1>3, ApplyGrows
<1>5. pc[post.by] \notin {"readback", "confirm"} /\ result[post.by] \in {"failed", "killed"}
  BY DEF IInv, PostedOK, LateOK, Truth, GivenUp
<1>6. result[post.by] \notin Accounted
  BY <1>5 DEF Accounted
<1>7. \A q \in Runs : Posted(q)' => Posted(q)
  <2>1. \A q : Posted(q) <=> (ReviewsBy(q) # {} \/ \E p \in late : p.by = q)
    BY DEF Posted, ReviewsBy
  <2>2. \A q : Posted(q)' <=> (ReviewsBy(q)' # {} \/ \E p \in late' : p.by = q)
    BY DEF Posted, ReviewsBy
  <2> QED BY <1>2, <1>4, <2>1, <2>2
<1> QED BY <1>1, <1>2, <1>3, <1>4, <1>5, <1>6, <1>7, Around

\* Somebody checks out another commit or alters an artifact, or nothing happens.
LEMMA LocalTruth ==
    ASSUME IInv, IInv', Truth, Checkout \/ Alter \/ UNCHANGED vars
    PROVE  Truth'
<1>1. UNCHANGED <<timing, pull, comments, reviews, late, remarks, runs, journal>>
  BY DEF Checkout, Alter, vars, github
<1>2. LocalTypes /\ Types
  BY DEF Truth, IInv
<1>3. LocalStep
  <2>1. CASE Checkout
    <3>1. pull.head \in Nat
      BY <1>2 DEF Types, Pulls
    <3> QED BY <1>2, <2>1, <3>1 DEF Checkout, LocalStep, LocalTypes
  <2>2. CASE Alter
    <3>1. edits' \in Nat /\ checkout' \in Nat
      BY <1>2, <2>2 DEF Alter, LocalTypes
    <3>2. PICK r \in Runs, a \in Artifacts : files' = [files EXCEPT ![r][a] = "altered"]
      BY <2>2 DEF Alter
    <3>3. files' \in [Runs -> [Artifacts -> {"absent", "whole", "altered"}]]
      BY <1>2, <3>2 DEF LocalTypes
    <3> QED BY <3>1, <3>3 DEF LocalStep
  <2>3. CASE UNCHANGED vars
    BY <1>2, <2>3 DEF vars, local, LocalStep, LocalTypes
  <2> QED BY <2>1, <2>2, <2>3
<1>4. Grown /\ remarks' \in Nat
  BY <1>1, <1>2, Lengths DEF Grown, Extends, LocalTypes
<1>5. \A q \in Runs : ReviewsBy(q)' = ReviewsBy(q) /\ (Posted(q)' => Posted(q))
  BY <1>1 DEF ReviewsBy, Posted
<1> QED BY <1>1, <1>3, <1>4, <1>5, Around

\* The POST of run r ends in no answer: it has been applied, is still to be, or neither.
LEMMA PostFails ==
    ASSUME IInv, IInv', Truth, NEW r \in Runs, pc[r] = "post", Grown, LocalTypes',
           Return(r, "post", "failed", Skipped(r)), UNCHANGED journal
    PROVE  /\ Knows(r)' /\ Reports(r)' /\ result'[r] = "failed"
           /\ \A q \in Runs \ {r} : pc'[q] = pc[q] /\ job'[q] = job[q] /\ result'[q] = result[q]
<1>1. Types /\ Types' /\ LocalTypes /\ Knows(r) /\ Reports(r) /\ job[r] \in Job
  BY DEF IInv, Truth, Types
<1>2. PICK j \in Job : /\ j = [job[r] EXCEPT !.skipped = Skipped(r)]
                       /\ j.skipped = Skipped(r) /\ j.seen = job[r].seen
                       /\ j.published = job[r].published /\ j.review = job[r].review
                       /\ j.noted = job[r].noted
  <2> DEFINE j == [job[r] EXCEPT !.skipped = Skipped(r)]
  <2>1. /\ j \in Job
        /\ j.skipped = Skipped(r) /\ j.seen = job[r].seen
        /\ j.published = job[r].published /\ j.review = job[r].review
        /\ j.noted = job[r].noted
    BY <1>1, PendingTypes DEF Job
  <2> QED BY <2>1
<1>3. /\ pc'[r] = "record" /\ job'[r] = j /\ result'[r] = "failed"
      /\ \A q \in Runs \ {r} : pc'[q] = pc[q] /\ job'[q] = job[q] /\ result'[q] = result[q]
  BY <1>1, <1>2 DEF Return, Goto, With, Types
<1>4. Knows(r)'
  <2>1. \A f \in Skipped(r) : OnGitHub(f)
    BY <1>1, SkippedAreThere
  <2>2. \A f \in Findings : Id(f)' = Id(f)
    BY DEF Id, Grown
  <2>3. /\ \A f \in Findings : Id(f)' \in j.seen => OnGitHub(f)'
        /\ \A f \in j.skipped : OnGitHub(f)'
        /\ \A pair \in j.published : InReviewOf(r, pair)'
        /\ j.review # 0 => j.review \in ReviewsBy(r)'
    BY <1>1, <1>2, <2>1, <2>2, GrownKeeps DEF Knows
  <2> QED BY <1>3, <2>3 DEF Knows
<1>5. Len(Events(r)') \in Nat
  <2>1. IsFiniteSet(j.published)
    BY <1>1, <1>2, PublishedFinite
  <2>2. EventsOf(r, j, "failed") \in Seq(DueOf(r, j))
    BY <2>1, EventsAreDue DEF Statuses
  <2> QED BY <1>3, <2>2, EventsThen
<1>6. Reports(r)'
  <2>1. Journalled(r, "github_publication_started")'
    BY <1>1, GrownKeeps DEF Reports, Publishes
  <2>2. j.noted = 0 /\ "failed" \notin Complete /\ "failed" \notin Accounted
    BY <1>1, <1>2 DEF Reports, Complete, Accounted
  <2> QED BY <1>3, <1>5, <2>1, <2>2 DEF Reports
<1> QED BY <1>3, <1>4, <1>6

\* The other runs are what they were when run r posts.
LEMMA AroundPost ==
    ASSUME IInv, IInv', Truth, NEW r \in Runs, Grown, UNCHANGED <<local, remarks, journal>>,
           \A q \in Runs \ {r} : /\ pc'[q] = pc[q] /\ job'[q] = job[q] /\ result'[q] = result[q]
                                 /\ ReviewsBy(q)' = ReviewsBy(q) /\ (Posted(q)' => Posted(q)),
           Knows(r)', Reports(r)',
           \A post \in late' : \/ post \in late /\ post.by # r
                               \/ post.by = r /\ result'[r] = "failed"
    PROVE  Truth'
<1>1. Types /\ Types' /\ LocalTypes /\ LocalTypes'
  BY DEF IInv, Truth, LocalTypes, local
<1>2. \A q \in Runs : Knows(q)' /\ Reports(q)'
  BY <1>1, OthersKeep DEF Truth
<1>3. JournalTruthful'
  BY <1>1, GrownKeeps DEF Truth, JournalTruthful
<1>4. GivenUp'
  <2>1. ASSUME NEW post \in late' PROVE result'[post.by] \in {"failed", "killed"}
    <3>1. CASE post \in late /\ post.by # r
      <4>1. post.by \in Runs /\ result[post.by] \in {"failed", "killed"}
        BY <1>1, <3>1 DEF Truth, GivenUp, Types, PostType
      <4> QED BY <3>1, <4>1
    <3>2. CASE post.by = r /\ result'[r] = "failed"
      BY <3>2
    <3> QED BY <3>1, <3>2
  <2> QED BY <2>1 DEF GivenUp
<1> QED BY <1>1, <1>2, <1>3, <1>4 DEF Truth

LEMMA PostTruth == ASSUME IInv, Truth, NEW r \in Runs, Post(r), UNCHANGED <<local, journal>> PROVE Truth'
<1>1. /\ IInv' /\ pc[r] = "post" /\ UNCHANGED <<timing, pull, remarks>> /\ job[r] \in Job
      /\ Types /\ LocalTypes /\ LocalTypes' /\ Knows(r) /\ Reports(r)
  BY PostKeeps DEF Post, IInv, Types, Truth, LocalTypes, local
<1>2. PICK post \in PostType : post = Posting(r) /\ post.by = r /\ post.items = Pending(r)
  BY <1>1, PostingIsBacked
<1>3. ReviewsBy(r) = {} /\ ~Posted(r) /\ \A p \in late : p.by # r
  BY <1>1, PublishStates, NoReviewYet DEF Posted
<1>4. \A q : /\ Posted(q) <=> (ReviewsBy(q) # {} \/ \E p \in late : p.by = q)
             /\ Posted(q)' <=> (ReviewsBy(q)' # {} \/ \E p \in late' : p.by = q)
  BY DEF Posted, ReviewsBy
<1>5. ASSUME Apply(post)
      PROVE  /\ Grown /\ \A q : q # r => ReviewsBy(q)' = ReviewsBy(q)
             /\ ReviewsBy(r)' = {Len(reviews) + 1} /\ Len(reviews) \in Nat
             /\ \A f \in post.items : OnGitHub(f)'
  BY <1>1, <1>2, <1>3, <1>5, ApplyGrows, ApplyMarks
<1>6. CASE /\ Apply(Posting(r)) /\ Goto(r, "post", "readback")
           /\ With(r, [job[r] EXCEPT !.review = Len(reviews) + 1, !.page = 1, !.read = 0])
           /\ UNCHANGED <<late, result>>
  <2> DEFINE j == [job[r] EXCEPT !.review = Len(reviews) + 1, !.page = 1, !.read = 0]
  <2>1. /\ Grown /\ \A q : q # r => ReviewsBy(q)' = ReviewsBy(q)
        /\ ReviewsBy(r)' = {Len(reviews) + 1} /\ Len(reviews) \in Nat
        /\ \A f \in post.items : OnGitHub(f)'
    BY <1>2, <1>5, <1>6
  <2>2. /\ j \in Job /\ j.seen = job[r].seen /\ j.skipped = job[r].skipped
        /\ j.published = job[r].published /\ j.review = Len(reviews) + 1
        /\ j.items = job[r].items /\ j.noted = job[r].noted
    <3>1. Len(reviews) + 1 \in Nat /\ 1 \in 1..MaxPages
      BY <2>1, PublisherAssumption
    <3> QED BY <1>1, <3>1 DEF Job
  <2>3. job' = [job EXCEPT ![r] = j] /\ pc' = [pc EXCEPT ![r] = "readback"]
    BY <1>6 DEF With, Goto
  <2> HIDE DEF j
  <2>4. /\ pc'[r] = "readback" /\ job'[r] = j /\ result'[r] = result[r]
        /\ \A q \in Runs \ {r} : pc'[q] = pc[q] /\ job'[q] = job[q] /\ result'[q] = result[q]
    BY <1>1, <1>6, <2>2, <2>3 DEF Types
  <2>5. Knows(r)'
    <3>1. \A f \in Findings : Id(f)' = Id(f)
      BY <2>1 DEF Id, Grown
    <3>2. /\ \A f \in Findings : Id(f)' \in j.seen => OnGitHub(f)'
          /\ \A f \in j.skipped : OnGitHub(f)'
          /\ \A pair \in j.published : InReviewOf(r, pair)'
          /\ j.review # 0 => j.review \in ReviewsBy(r)'
      BY <1>1, <2>1, <2>2, <3>1, GrownKeeps DEF Knows, IInv
    <3> QED BY <2>4, <3>2 DEF Knows
  <2>6. \A f \in j.items : OnGitHub(f)'
    <3>1. \A f \in Skipped(r) : OnGitHub(f)
      BY <1>1, SkippedAreThere
    <3>2. job[r].items \subseteq Pending(r) \cup Skipped(r)
      BY DEF Skipped
    <3> QED BY <1>1, <1>2, <2>1, <2>2, <3>1, <3>2, GrownKeeps DEF IInv
  <2>7. Reports(r)'
    <3>1. Journalled(r, "github_publication_started")'
      BY <1>1, <2>1, GrownKeeps DEF Reports, Publishes, IInv
    <3>2. result[r] = "none" /\ j.noted = 0 /\ j.review # 0
      BY <1>1, <2>1, <2>2 DEF Reports
    <3> QED BY <2>1, <2>2, <2>4, <2>6, <3>1, <3>2 DEF Reports
  <2>8. \A q \in Runs \ {r} : Posted(q)' => Posted(q)
    BY <1>4, <1>6, <2>1
  <2> QED BY <1>1, <1>3, <1>6, <2>1, <2>4, <2>5, <2>7, <2>8, AroundPost
<1>7. CASE Apply(Posting(r)) /\ UNCHANGED late /\ Return(r, "post", "failed", Skipped(r))
  <2>1. /\ Grown /\ \A q : q # r => ReviewsBy(q)' = ReviewsBy(q)
    BY <1>2, <1>5, <1>7
  <2>2. /\ Knows(r)' /\ Reports(r)' /\ result'[r] = "failed"
        /\ \A q \in Runs \ {r} : pc'[q] = pc[q] /\ job'[q] = job[q] /\ result'[q] = result[q]
    BY <1>1, <1>7, <2>1, PostFails
  <2>3. \A q \in Runs \ {r} : Posted(q)' => Posted(q)
    BY <1>4, <1>7, <2>1
  <2> QED BY <1>1, <1>3, <1>7, <2>1, <2>2, <2>3, AroundPost
<1>8. CASE UNCHANGED <<comments, reviews, late>> /\ Return(r, "post", "failed", Skipped(r))
  <2>1. Grown /\ \A q : ReviewsBy(q)' = ReviewsBy(q)
    BY <1>1, <1>8, Lengths DEF Grown, Extends, ReviewsBy
  <2>2. /\ Knows(r)' /\ Reports(r)' /\ result'[r] = "failed"
        /\ \A q \in Runs \ {r} : pc'[q] = pc[q] /\ job'[q] = job[q] /\ result'[q] = result[q]
    BY <1>1, <1>8, <2>1, PostFails
  <2>3. \A q \in Runs \ {r} : Posted(q)' => Posted(q)
    BY <1>4, <1>8, <2>1
  <2> QED BY <1>1, <1>3, <1>8, <2>1, <2>2, <2>3, AroundPost
<1>9. CASE /\ timing.late /\ late' = late \cup {Posting(r)} /\ UNCHANGED <<comments, reviews>>
           /\ Return(r, "post", "failed", Skipped(r))
  <2>1. Grown /\ \A q : ReviewsBy(q)' = ReviewsBy(q)
    BY <1>1, <1>9, Lengths DEF Grown, Extends, ReviewsBy
  <2>2. /\ Knows(r)' /\ Reports(r)' /\ result'[r] = "failed"
        /\ \A q \in Runs \ {r} : pc'[q] = pc[q] /\ job'[q] = job[q] /\ result'[q] = result[q]
    BY <1>1, <1>9, <2>1, PostFails
  <2>3. \A q \in Runs \ {r} : Posted(q)' => Posted(q)
    BY <1>2, <1>4, <1>9, <2>1
  <2> QED BY <1>1, <1>2, <1>3, <1>9, <2>1, <2>2, <2>3, AroundPost
<1> QED BY <1>6, <1>7, <1>8, <1>9 DEF Post

LEMMA StepTruth == ASSUME IInv, Truth, NEW r \in Runs, Step(r) PROVE Truth'
BY ResolveTruth, SnapshotTruth, ReviewTruth, PlanTruth, CheckHeadTruth, ListTruth, RecheckTruth,
   PostTruth, ReadBackTruth, ConfirmTruth, CallFailsTruth, RecordTruth DEF Step, Publish

LEMMA TruthAlways == Spec => []Truth
<1>1. Init => Truth
  <2> SUFFICES ASSUME Init PROVE Truth
    OBVIOUS
  <2>1. LocalTypes
    BY DEF Init, LocalTypes, EventType
  <2>2. Len(comments) = 0 /\ Len(reviews) = 0 /\ Len(journal) = 0 /\ late = {}
    BY DEF Init
  <2>3. ASSUME NEW r \in Runs PROVE Knows(r) /\ Reports(r)
    BY <2>2 DEF Init, Knows, Reports, NoJob, Complete, Accounted, Publishes, Posted, ReviewsBy
  <2> QED BY <2>1, <2>2, <2>3 DEF Truth, JournalTruthful, GivenUp
<1>2. IInv /\ IInv' /\ Truth /\ [Next]_vars => Truth'
  <2> SUFFICES ASSUME IInv, IInv', Truth, [Next]_vars PROVE Truth'
    OBVIOUS
  <2>1. CASE \E r \in Runs : Step(r) \/ Crash(r)
    BY <2>1, StepTruth, CrashTruth
  <2>2. CASE (Push \/ Remark \/ Land) /\ UNCHANGED <<local, journal>>
    BY <2>2, PushTruth, RemarkTruth, LandTruth
  <2>3. CASE Checkout \/ Alter \/ Finished \/ UNCHANGED vars
    BY <2>3, LocalTruth DEF Finished
  <2> QED BY <2>1, <2>2, <2>3 DEF Next
<1> QED BY <1>1, <1>2, Invariance, PTL DEF Spec

\* Every variable keeps the type its comment says, and the journal holds events of the
\* kinds that project_cli.py journals.
THEOREM Typed == Spec => []TypeOK
<1>1. IInv /\ Truth => TypeOK
  <2> SUFFICES ASSUME IInv, Truth PROVE TypeOK
    OBVIOUS
  <2>1. Types /\ LocalTypes
    BY DEF IInv, Truth
  <2>2. \A i \in 1..Len(journal) : journal[i].kind \in Kinds /\ journal[i].run \in Runs
    <3>1. \A i \in 1..Len(journal) : journal[i] \in EventType
      BY <2>1 DEF LocalTypes
    <3> QED BY <3>1 DEF EventType
  <2> QED BY <2>1, <2>2 DEF Types, LocalTypes, TypeOK, CommentType, ReviewType, PostType
<1> QED BY <1>1, Invariance, TruthAlways, PTL

\* What a run reports is true of GitHub and is journalled, and the journal claims nothing
\* that is not there, whoever pushes or remarks, whichever POST comes late, and wherever
\* a run fails or is killed (github_publisher.py, publish; project_cli.py,
\* _record_github_publication_events).
THEOREM HonestReports == Spec => []ReportsAreTrue
<1>1. IInv /\ Truth => ReportsAreTrue
  <2> SUFFICES ASSUME IInv, Truth PROVE ReportsAreTrue
    OBVIOUS
  <2>1. ASSUME NEW r \in Runs
        PROVE  /\ result[r] \in {"published", "skipped_duplicate", "stale_head_race"} =>
                      \A f \in job[r].items : OnGitHub(f)
               /\ result[r] \in {"stale_head", "skipped_duplicate", "no_findings",
                                 "reconciliation_incomplete", "not_published"} =>
                      \A i \in ReviewsBy(r) : i = job[r].review
               /\ pc[r] = "done" /\ result[r] # "killed" /\ job[r].review # 0 =>
                      Journalled(r, "github_summary_published")
    BY DEF Truth, Reports, Complete, Accounted
  <2>2. ASSUME NEW k \in 1..Len(journal)
        PROVE  LET e == journal[k]
               IN  /\ e.kind = "github_comment_published" =>
                          /\ e.what[1] \in comments[e.what[2]].markers
                          /\ comments[e.what[2]].review \in ReviewsBy(e.run)
                   /\ e.kind = "github_comment_skipped_duplicate" => OnGitHub(e.what)
                   /\ e.kind = "github_summary_published" => e.what \in ReviewsBy(e.run)
    BY DEF Truth, JournalTruthful, Truthful, InReviewOf
  <2>3. ASSUME NEW i \in 1..Len(reviews), reviews[i].by # "people"
        PROVE  Journalled(reviews[i].by, "github_publication_started")
    <3>1. reviews[i].by \in Runs
      <4>1. reviews[i] \in ReviewType
        BY DEF IInv, Types
      <4> QED BY <2>3, <4>1 DEF ReviewType
    <3>2. Posted(reviews[i].by)
      BY DEF Posted
    <3> QED BY <3>1, <3>2 DEF Truth, Reports
  <2> QED BY <2>1, <2>2, <2>3 DEF ReportsAreTrue
<1> QED BY <1>1, Invariance, TruthAlways, PTL
=============================================================================
