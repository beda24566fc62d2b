---------------------------- MODULE RangeReview ----------------------------
(***************************************************************************)
(* Reviewing a frozen range (src/src/reviewctl/cli.py, run_range_review;   *)
(* range_review.py, build_range_aggregate and verify_range_aggregate).     *)
(*                                                                         *)
(* A driver runs one reviewctl run after the other, a child process for    *)
(* each chunk of the manifest, finds the receipt the child left under the  *)
(* artifact root by what has changed there, and writes an aggregate of     *)
(* what the receipts say.  Everybody else may write below that root too:   *)
(* other drivers, with the same review id even, other reviews, and the     *)
(* child of a driver that was killed, which lives on in its own session.   *)
(* Manifest and receipts are plain files that somebody may change.         *)
(***************************************************************************)
EXTENDS RangeManifest, FiniteSets

CONSTANTS
    Drivers,        \* the invocations of range-review --manifest
    Requests,       \* what they may be asked for: [id, out]
    Settings        \* what the environment may do, see Setting

\* A receipt has the findings of its accepted attempt, from which its verdict follows,
\* and those that an earlier attempt reported and no later one confirmed, which only
\* its consolidated view holds.
Outcome == [result : {"accepted", "unavailable"}, findings : SUBSET STRING,
            unconfirmed : SUBSET STRING]

\* The range, the drivers that are started, how a child may review a chunk, and two
\* bounds: receipts of other reviews, and changes to the manifest or a receipt.
Setting == [range : Ranges, drivers : SUBSET Drivers, outcomes : SUBSET Outcome,
            strangers : Nat, edits : Nat]

\* "other" is how the models call everybody who is no driver.
ASSUME RangeReviewAssumption == Settings \subseteq Setting /\ "other" \notin Drivers

VARIABLES
    setting,    \* what the environment may do
    receipts,   \* the receipts under the artifact root, each at a path of its own
    aggregates, \* --aggregate-output -> that file
    child,      \* driver -> its child process
    pc,         \* driver -> where it is in run_range_review
    job,        \* driver -> the local variables of run_range_review
    exit,       \* driver -> its exit: 0 for "accepted", 1 for "incomplete", or an "error"
    edits       \* changes by others so far

shared == <<receipts, aggregates>>
own    == <<child, pc, job, exit>>
vars   == <<setting, manifestVars, shared, own, edits>>

-----------------------------------------------------------------------------
(* Receipts, records and aggregates.                                       *)

Outputs == {request.out : request \in Requests}

Absent == [file |-> "absent"]
Half   == [file |-> "half"]
Written(d, aggregate) == [file |-> "whole", by |-> d, aggregate |-> aggregate]

Whole(f) == f.file = "whole"

\* A range's chunk, and a review that has nothing to do with a range.
ChunkId(id, index) == [id |-> id, index |-> index]
Stranger == ChunkId("stranger", 0)

\* by: the child that wrote it; manifest and index: extension.rangeReview; payload: the
\* digest of its source file; altered: its bytes are not those its run wrote.
Receipt(by, task, outcome) ==
    [by |-> by, id |-> ChunkId(task.id, task.index), manifest |-> task.manifest,
     index |-> task.index, payload |-> task.payload, result |-> outcome.result,
     findings |-> outcome.findings, unconfirmed |-> outcome.unconfirmed, altered |-> FALSE]

NoReceipt == 0

\* _range_chunk_record, for the receipt at a path or for none.  The contents of the
\* receipt stand for the two digests of it.
RecordOf(m, id, index, path) ==
    LET chunk == m.chunks[index + 1]
    IN  IF path = NoReceipt
        THEN [index |-> index, payload |-> chunk.payload, id |-> ChunkId(id, index),
              receipt |-> NoReceipt, digest |-> {}, result |-> "missing", findings |-> {}]
        ELSE [index |-> index, payload |-> chunk.payload, id |-> ChunkId(id, index),
              receipt |-> path, digest |-> {receipts[path]},
              result |-> receipts[path].result, findings |-> receipts[path].findings]

\* What is said of a child that did not exit with 0.
Unavailable(record) == [record EXCEPT !.result = "unavailable", !.findings = {}]

FindingsOf(records) ==
    UNION {{<<records[k].index, f>> : f \in records[k].findings} : k \in 1..Len(records)}

\* Its manifest stands for the digest and the identity of the range.
Aggregate(m, id, records, result) ==
    [manifest |-> m, id |-> id, records |-> records, result |-> result,
     findings |-> FindingsOf(records),
     approved |-> result = "accepted" /\ FindingsOf(records) = {}]

\* Seeded fault: a receipt is known by its path, whatever is in it now.
RecordHoldsByPath(m, id, record, index) ==
    /\ record.index = index
    /\ record.receipt \in 1..Len(receipts)
    /\ receipts[record.receipt].id = ChunkId(id, index)
    /\ record.result = "accepted"

\* The k-th record is that of chunk k - 1, and its receipt is where it says, is what it
\* was, and is an accepted review of that chunk's bytes for this manifest.
RecordHolds(m, id, record, index) ==
    LET chunk == m.chunks[index + 1]
    IN  /\ record.index = index
        /\ record.payload = chunk.payload
        /\ record.id = ChunkId(id, index)
        /\ record.receipt \in 1..Len(receipts)
        /\ LET receipt == receipts[record.receipt]
           IN  /\ record.digest = {receipt}
               /\ receipt.id = record.id
               /\ receipt.manifest = m /\ receipt.index = index
               /\ receipt.payload = chunk.payload
               /\ receipt.result = "accepted" /\ record.result = "accepted"
               /\ record.findings = receipt.findings

\* What the aggregate says as a whole follows from its records.
Sums(a) ==
    /\ a.result = "accepted"
    /\ a.findings = FindingsOf(a.records)
    /\ a.approved = (a.findings = {})

\* verify_range_aggregate has no violation to report.  An incomplete aggregate always
\* has one.
Verified(m, a) ==
    /\ ValidManifest(m)
    /\ a.manifest = m
    /\ m.chunks # << >> /\ Len(a.records) = Len(m.chunks)
    /\ \A k \in 1..Len(a.records) : RecordHolds(m, a.id, a.records[k], k - 1)
    /\ Sums(a)

\* build_range_aggregate verifies what it built before it calls it accepted.
Build(m, id, records) ==
    LET complete == Aggregate(m, id, records, "accepted")
    IN  IF /\ \A k \in 1..Len(records) : records[k].result = "accepted"
           /\ Verified(m, complete)
        THEN complete ELSE Aggregate(m, id, records, "incomplete")

-----------------------------------------------------------------------------
NoChild == [status |-> "none"]
NoJob   == [out |-> "none"]

Init ==
    /\ ManifestInit
    /\ setting \in Settings /\ setting.range = range
    /\ receipts = << >>
    /\ aggregates = [out \in Outputs |-> Absent]
    /\ child = [d \in Drivers |-> NoChild]
    /\ pc = [d \in Drivers |-> "idle"]
    /\ job = [d \in Drivers |-> NoJob]
    /\ exit = [d \in Drivers |-> "none"]
    /\ edits = 0

Goto(d, from, to) ==
    /\ pc[d] = from
    /\ pc' = [pc EXCEPT ![d] = to]

Exits(d, from, code) ==
    /\ Goto(d, from, "done")
    /\ exit' = [exit EXCEPT ![d] = code]

ChunksOf(d) == job[d].manifest.chunks

\* before: the receipts when the child was started.  began and failed are not kept by
\* the code: how many receipts there were at the very start, and whether a child did
\* not exit with 0.
Start(d) ==
    /\ phase = "written"
    /\ \E request \in Requests :
           IF ValidManifest(file) /\ file.chunks # << >>
           THEN /\ Goto(d, "idle", "next")
                /\ job' = [job EXCEPT ![d] =
                             [id |-> request.id, out |-> request.out, manifest |-> file,
                              records |-> << >>, before |-> << >>, draft |-> {},
                              began |-> Len(receipts), failed |-> FALSE]]
                /\ UNCHANGED exit
           ELSE Exits(d, "idle", "error") /\ UNCHANGED job
    /\ UNCHANGED <<manifestVars, shared, child, edits>>

\* Seeded fault: the receipts are only looked at before the first child.
LaunchOnly(d) ==
    LET index == Len(job[d].records)
    IN  /\ pc[d] = "next" /\ index < Len(ChunksOf(d))
        /\ Goto(d, "next", "waiting")
        /\ UNCHANGED job
        /\ child' = [child EXCEPT ![d] =
                       [status |-> "running", code |-> 0, id |-> job[d].id,
                        manifest |-> job[d].manifest, index |-> index,
                        payload |-> ChunksOf(d)[index + 1].payload]]
        /\ UNCHANGED <<manifestVars, shared, exit, edits>>

\* The next chunk: its patch and context are written to a private directory, the
\* receipts below the root are fingerprinted, and reviewctl run is started.
Launch(d) ==
    LET index == Len(job[d].records)
    IN  /\ pc[d] = "next" /\ index < Len(ChunksOf(d))
        /\ Goto(d, "next", "waiting")
        /\ job' = [job EXCEPT ![d].before = receipts]
        /\ child' = [child EXCEPT ![d] =
                       [status |-> "running", code |-> 0, id |-> job[d].id,
                        manifest |-> job[d].manifest, index |-> index,
                        payload |-> ChunksOf(d)[index + 1].payload]]
        /\ UNCHANGED <<manifestVars, shared, exit, edits>>

\* Between two children the driver gives up: the patch of the next chunk is too large for
\* reviewctl run, or a private file or the artifact root cannot be written or read.
GiveUp(d) ==
    /\ Exits(d, "next", "error")
    /\ job' = [job EXCEPT ![d] = NoJob]
    /\ UNCHANGED <<manifestVars, shared, child, edits>>

-----------------------------------------------------------------------------
(* The child, which is reviewctl run on one chunk (FormalRun).             *)

\* It writes its receipt, whatever the review came to.
ChildReports(d) ==
    /\ child[d].status = "running"
    /\ \E outcome \in setting.outcomes :
           /\ receipts' = Append(receipts, Receipt(<<d, child[d].index>>, child[d], outcome))
           /\ child' = [child EXCEPT ![d].status = "reported",
                                     ![d].code = IF outcome.result = "accepted" THEN 0 ELSE 1]
    /\ UNCHANGED <<manifestVars, aggregates, pc, job, exit, edits>>

ChildExits(d) ==
    /\ child[d].status = "reported"
    /\ child' = [child EXCEPT ![d].status = "exited"]
    /\ UNCHANGED <<manifestVars, shared, pc, job, exit, edits>>

\* It ends without a receipt: its request is refused, or a file cannot be written.
ChildFails(d) ==
    /\ child[d].status = "running"
    /\ child' = [child EXCEPT ![d].status = "exited", ![d].code = 2]
    /\ UNCHANGED <<manifestVars, shared, pc, job, exit, edits>>

\* Seeded fault: a child that has written its receipt is waited for without a limit.
TimeoutUnlessReported(d) ==
    /\ pc[d] = "waiting"
    /\ child[d].status = "running"
    /\ child' = [child EXCEPT ![d].status = "exited", ![d].code = 124]
    /\ UNCHANGED <<manifestVars, shared, pc, job, exit, edits>>

\* The driver that waits kills the child's process group ten seconds after the timeout,
\* in its first attempt or a later one.  A child that said more than fits, which is 502,
\* is no different: its receipt is there, and its exit code is not 0.
Timeout(d) ==
    /\ pc[d] = "waiting"
    /\ child[d].status \in {"running", "reported"}
    /\ child' = [child EXCEPT ![d].status = "exited", ![d].code = 124]
    /\ UNCHANGED <<manifestVars, shared, pc, job, exit, edits>>

-----------------------------------------------------------------------------
(* The rest of the driver.                                                 *)

\* Seeded fault: of several changed receipts the last one of the right review is taken.
SelectedLast(before, id) ==
    LET changed == {p \in 1..Len(receipts) : p > Len(before) /\ receipts[p].id = id}
    IN  IF changed = {} THEN NoReceipt
        ELSE CHOOSE p \in changed : \A q \in changed : q <= p

\* tournament_receipt_path: the one receipt that is new or has changed, if there is
\* exactly one and it is of this review.
Selected(before, id) ==
    LET changed == {p \in 1..Len(receipts) : p > Len(before) \/ receipts[p] # before[p]}
    IN  IF \E p \in changed : changed = {p} /\ receipts[p].id = id
        THEN CHOOSE p \in changed : TRUE
        ELSE NoReceipt

\* The child has ended; its chunk gets a record.
Collect(d) ==
    LET j      == job[d]
        index  == Len(j.records)
        path   == Selected(j.before, ChunkId(j.id, index))
        record == RecordOf(j.manifest, j.id, index, path)
    IN  /\ pc[d] = "waiting"
        /\ child[d].status = "exited"
        /\ Goto(d, "waiting", "next")
        /\ job' = [job EXCEPT
                     ![d].records = Append(@, IF child[d].code = 0 THEN record
                                              ELSE Unavailable(record)),
                     ![d].failed  = @ \/ child[d].code # 0,
                     ![d].before  = << >>]
        /\ child' = [child EXCEPT ![d] = NoChild]
        /\ UNCHANGED <<manifestVars, shared, exit, edits>>

\* Every chunk has a record: the receipts are read once more, and verified.
Conclude(d) ==
    LET j == job[d]
    IN  /\ pc[d] = "next" /\ Len(j.records) = Len(ChunksOf(d))
        /\ Goto(d, "next", "write")
        /\ job' = [job EXCEPT ![d].draft = {Build(j.manifest, j.id, j.records)},
                              ![d].records = << >>]
        /\ UNCHANGED <<manifestVars, shared, child, exit, edits>>

\* Seeded fault: the aggregate replaces what is at its path.
WriteAggregateReplacing(d) ==
    LET out == job[d].out
    IN  /\ pc[d] = "write"
        /\ \/ \E draft \in job[d].draft :
                 /\ aggregates' = [aggregates EXCEPT ![out] = Written(d, draft)]
                 /\ Goto(d, "write", "print")
                 /\ UNCHANGED <<exit, job>>
           \/ /\ aggregates' = [aggregates EXCEPT ![out] = Half]
              /\ Exits(d, "write", "error")
              /\ job' = [job EXCEPT ![d] = NoJob]
        /\ UNCHANGED <<manifestVars, receipts, child, edits>>

\* write_private_exclusive.  A file that is there makes it fail; so may the disk, which
\* leaves a part of the file.
WriteAggregate(d) ==
    LET out == job[d].out
    IN  /\ pc[d] = "write"
        /\ \/ /\ aggregates[out] = Absent
              /\ \E draft \in job[d].draft :
                     aggregates' = [aggregates EXCEPT ![out] = Written(d, draft)]
              /\ Goto(d, "write", "print")
              /\ UNCHANGED <<exit, job>>
           \/ /\ IF aggregates[out] = Absent
                 THEN aggregates' = [aggregates EXCEPT ![out] = Half]
                 ELSE UNCHANGED aggregates
              /\ Exits(d, "write", "error")
              /\ job' = [job EXCEPT ![d] = NoJob]
        /\ UNCHANGED <<manifestVars, receipts, child, edits>>

\* The aggregate is there.  Its path is printed, which may fail, and the driver exits
\* with what it knows the aggregate to say.
PrintSummary(d) ==
    /\ pc[d] = "print"
    /\ \E draft \in job[d].draft : \E code \in {draft.result, "error"} :
           Exits(d, "print", code)
    /\ UNCHANGED <<manifestVars, shared, child, job, edits>>

\* The driver is killed.  Its child has a session of its own and goes on; what the
\* driver was writing is half written, and what it has written stays.
Kill(d) ==
    /\ pc[d] \in {"next", "waiting", "write", "print"}
    /\ Goto(d, pc[d], "killed")
    /\ \/ UNCHANGED aggregates
       \/ /\ pc[d] = "write" /\ aggregates[job[d].out] = Absent
          /\ aggregates' = [aggregates EXCEPT ![job[d].out] = Half]
    /\ job' = IF pc[d] = "print" THEN job ELSE [job EXCEPT ![d] = NoJob]
    /\ UNCHANGED <<manifestVars, receipts, child, exit, edits>>

-----------------------------------------------------------------------------
(* Everybody else.                                                         *)

Strangers == {p \in 1..Len(receipts) : receipts[p].id = Stranger}

\* Another review leaves its receipt under the same root.
OtherReview ==
    /\ phase = "written"
    /\ Cardinality(Strangers) < setting.strangers
    /\ \E outcome \in setting.outcomes :
           receipts' = Append(receipts, Receipt(<<"other", 0>>,
               [id |-> "stranger", index |-> 0, manifest |-> NoManifest,
                payload |-> Run(0, 0)], outcome))
    /\ UNCHANGED <<manifestVars, aggregates, own, edits>>

\* The manifest without its last chunk, with and without a new digest of the diff, and
\* with its chunks the other way round, renumbered or not.
Tampered(m) ==
    LET n       == Len(m.chunks)
        less    == SubSeq(m.chunks, 1, n - 1)
        turned  == [k \in 1..n |-> m.chunks[n + 1 - k]]
    IN  IF n < 2 THEN {}
        ELSE {Manifest(less, m.diff),
              Manifest(less, Run(m.diff.first, less[n - 1].payload.last)),
              Manifest(turned, m.diff),
              Manifest([k \in 1..n |-> Chunk(k - 1, turned[k].payload)], m.diff)}

\* Somebody changes the manifest, or a receipt.
Edit ==
    /\ phase = "written" /\ edits < setting.edits
    /\ edits' = edits + 1
    /\ \/ file' \in Tampered(file) /\ UNCHANGED receipts
       \/ /\ \E p \in 1..Len(receipts) : receipts' = [receipts EXCEPT ![p].altered = TRUE]
          /\ UNCHANGED file
    /\ UNCHANGED <<builder, aggregates, own>>

\* What a driver does, and what its clock does for it.
Step(d) ==
    /\ \/ Launch(d) \/ GiveUp(d) \/ Timeout(d) \/ Collect(d)
       \/ Conclude(d) \/ WriteAggregate(d) \/ PrintSummary(d)
    /\ UNCHANGED setting

Finished ==
    /\ phase = "refused" \/ \A d \in setting.drivers : pc[d] \in {"done", "killed"}
    /\ UNCHANGED vars

Next ==
    /\ \/ Freeze /\ UNCHANGED <<shared, own, edits>>
       \/ \E d \in setting.drivers :
              \/ Start(d) \/ Step(d) \/ Kill(d)
              \/ ChildReports(d) \/ ChildExits(d) \/ ChildFails(d)
       \/ OtherReview \/ Edit
       \/ Finished
    /\ UNCHANGED setting

\* A driver that runs goes on, and kills a child that does not end.
Spec == Init /\ [][Next]_vars /\ \A d \in Drivers : WF_vars(Step(d))
-----------------------------------------------------------------------------
(* Properties.                                                             *)

\* Every variable has the type its comment says.
TypeOK ==
    /\ range \in Ranges /\ phase \in {"packing", "write", "written", "refused"}
    /\ first \in Nat /\ next \in Nat /\ size \in Nat
    /\ \A p \in 1..Len(receipts) :
           /\ receipts[p].result \in {"accepted", "unavailable"}
           /\ receipts[p].altered \in BOOLEAN
    /\ \A out \in Outputs :
           Whole(aggregates[out]) =>
               /\ aggregates[out].by \in Drivers
               /\ aggregates[out].aggregate.result \in {"accepted", "incomplete"}
    /\ \A d \in Drivers :
           /\ child[d].status \in {"none", "running", "reported", "exited"}
           /\ pc[d] \in {"idle", "next", "waiting", "write", "print", "done", "killed"}
           /\ pc[d] \in {"next", "waiting", "write", "print"} =>
                  \A k \in 1..Len(job[d].records) :
                      job[d].records[k].result \in {"accepted", "unavailable", "missing"}
           /\ exit[d] \in {"none", "accepted", "incomplete", "error"}
    /\ edits \in 0..setting.edits

WholeAggregates == {out \in Outputs : Whole(aggregates[out])}

\* The reviews of RangePromise are the accepted receipts, altered or not: that somebody
\* changes a receipt does not undo the review.
ReviewOf(receipt) ==
    [by |-> receipt.by[1], sections |-> receipt.payload.first..receipt.payload.last,
     findings |-> receipt.findings]

AcceptedReviews ==
    {ReviewOf(receipts[p]) : p \in {q \in 1..Len(receipts) : receipts[q].result = "accepted"}}

\* The verdict of RangePromise that a file is.
VerdictIn(f) ==
    CASE f = Absent -> [by |-> "nobody", sections |-> {}, findings |-> {}, result |-> "none"]
      [] f = Half   -> [by |-> "nobody", sections |-> {}, findings |-> {}, result |-> "lost"]
      [] OTHER      ->
           LET a == f.aggregate
           IN  [by       |-> f.by,
                sections |-> a.manifest.diff.first..a.manifest.diff.last,
                findings |-> {finding[2] : finding \in a.findings},
                result   |-> IF a.approved THEN "approved" ELSE a.result]

Verdicts == [out \in Outputs |-> VerdictIn(aggregates[out])]

Promise == INSTANCE RangePromise WITH reviewed <- AcceptedReviews, verdict <- Verdicts

\* Whatever the drivers, their children and everybody else do in whatever order: each
\* output path gets one verdict, which stays; and when an accepted one is given, its
\* author's own children had reviewed every section of the diff it is about, none twice,
\* and it has their findings (run_range_review, write_private_exclusive).
RefinesPromise == Promise!Spec

\* An accepted aggregate names, for every chunk of its manifest, the receipt of the
\* child its own driver ran for that chunk, and it is approved only if none of them has
\* a finding; whoever else reviews under the same root, or the same review id, and
\* whatever they leave there (tournament_receipt_path, verify_range_aggregate).
AcceptedIsReviewed ==
    \A out \in WholeAggregates :
        LET a == aggregates[out].aggregate
        IN  a.result = "accepted" =>
            /\ Reassembles(a.manifest.chunks, a.manifest.diff)
            /\ \A k \in 1..Len(a.manifest.chunks) :
                   LET receipt == receipts[a.records[k].receipt]
                   IN  /\ receipt.by = <<aggregates[out].by, k - 1>>
                       /\ receipt.manifest = a.manifest
                       /\ receipt.payload = a.manifest.chunks[k].payload
                       /\ receipt.result = "accepted"
                       /\ a.approved => receipt.findings = {}

\* An aggregate verifies exactly if it is accepted and neither the manifest nor a
\* receipt it names has changed since, whatever became of its driver; and a driver that
\* exited with 0 or 1 has left an aggregate of its own that says so, whoever else was to
\* write that file.
SuccessVerifies ==
    /\ \A out \in WholeAggregates :
           LET a == aggregates[out].aggregate
           IN  Verified(file, a) <=>
                   /\ a.result = "accepted"
                   /\ file = a.manifest
                   /\ \A k \in 1..Len(a.records) : a.records[k].digest = {receipts[a.records[k].receipt]}
    /\ \A d \in Drivers : exit[d] \in {"accepted", "incomplete"} =>
           \E out \in WholeAggregates :
               /\ out = job[d].out /\ aggregates[out].by = d
               /\ aggregates[out].aggregate.result = exit[d]

\* What somebody may make of the records of an aggregate: leave out the last one, swap
\* or repeat the first, or name another receipt in the place of one.
EditedRecords(a) ==
    LET r == a.records
        n == Len(r)
    IN  {r, SubSeq(r, 1, n - 1)}
            \cup {[k \in 1..n |-> r[n + 1 - k]], [k \in 1..n |-> r[1]]}
            \cup {[r EXCEPT ![k] = RecordOf(a.manifest, a.id, k - 1, p)] :
                     k \in 1..n, p \in {q \in 1..Len(receipts) : ~receipts[q].altered}}

\* Edited aggregates, signed again, that claim to be accepted and perhaps approved.
EditedAggregates(a) ==
    {[a EXCEPT !.records = r, !.result = "accepted", !.findings = f, !.approved = (f = {})] :
         r \in EditedRecords(a), f \in {{}, a.findings}}

\* However the aggregate is edited, if it verifies then each chunk of the manifest has
\* an accepted receipt of that very chunk and review id, and if it says approved that
\* receipt has no finding: "Any missing, duplicated, reordered, changed, or mixed chunk
\* causes a violation" (verify_range_aggregate).
EditsAreFound ==
    \A out \in WholeAggregates : \A a \in EditedAggregates(aggregates[out].aggregate) :
        Verified(file, a) =>
            \A k \in 1..Len(file.chunks) : \E p \in 1..Len(receipts) :
                /\ receipts[p].id = ChunkId(a.id, k - 1)
                /\ receipts[p].manifest = file
                /\ receipts[p].payload = file.chunks[k].payload
                /\ receipts[p].result = "accepted"
                /\ a.approved => receipts[p].findings = {}

\* The verifier is right about an aggregate: about the one a driver wrote, and about
\* whatever somebody makes of its records.
VerifierIsRight == SuccessVerifies /\ EditsAreFound

\* An aggregate is incomplete for a cause: a child did not exit with 0, or the receipts
\* of others came or changed while the driver ran.  Chunks that are all accepted are
\* never lost to the driver itself.
FailsForACause ==
    \A out \in WholeAggregates :
        LET d == aggregates[out].by
        IN  aggregates[out].aggregate.result = "incomplete" =>
            \/ job[d].failed
            \/ \E p \in 1..Len(receipts) : p > job[d].began /\ receipts[p].by[1] # d
            \/ \E p \in 1..Len(receipts) : receipts[p].altered

\* An approved range has no finding that a reviewer reported and nobody disputed: "The
\* consolidated view preserves partial or unconfirmed findings with provenance; approval
\* is stricter because any such finding prevents the consolidated view from claiming
\* approval" (docs/ARCHITECTURE.md).
ApprovalKeepsFindings ==
    \A out \in WholeAggregates :
        LET a == aggregates[out].aggregate
        IN  a.approved /\ Verified(file, a) =>
                \A k \in 1..Len(a.records) : receipts[a.records[k].receipt].unconfirmed = {}

Reviewing == {d \in Drivers : pc[d] \in {"next", "waiting", "write", "print"}}

\* A range review that began ends: no child is waited for without a limit, and no chunk
\* is reviewed twice.  Each driver starts once, so when none of them reviews any more,
\* each that began has ended.
EveryRangeEnds == Reviewing # {} ~> Reviewing = {}
=============================================================================
