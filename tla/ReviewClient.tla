---------------------------- MODULE ReviewClient ----------------------------
(***************************************************************************)
(* A project review (src/src/reviewctl/api.py, ReviewClient.review, and    *)
(* the review command of project_cli.py that verifies what it returns).    *)
(*                                                                         *)
(* A review leaves its evidence in two places that no transaction joins:   *)
(* exclusive artifacts under .reviewctl/reviews/<review id> (packet.json,  *)
(* attempt-NN/response.md, receipt.json) and events in the project         *)
(* journal.  Any number of processes review at once, some under one review *)
(* id; each may be killed or meet a failing write between any two steps.   *)
(*                                                                         *)
(* The journal is the sequence of its events: ProjectJournal shows that an *)
(* append takes one place in one order or fails.  A failed append usually  *)
(* leaves nothing, but its rollback may fail as well and leave the event,  *)
(* or half a line that no process gets past.                               *)
(***************************************************************************)
EXTENDS Naturals, Sequences, FiniteSets

CONSTANTS
    Clients,        \* the processes
    ReviewIds,      \* the review ids they are asked to use
    Findings,       \* the finding ids reviewers may report
    Evaluations,    \* what contract.evaluate may answer, see Evaluation
    Failures,       \* how an attempt may end without a response, see FailureCodes
    Attempts,       \* the most attempts a review may make: routes times max_attempts
    Workloads,      \* what the processes may be asked to do, see Workload
    MaxFaults,      \* bound: failing writes in a behaviour
    MaxCrashes      \* bound: processes killed in a behaviour

\* Only an incomplete or complete response has findings, and an incomplete one has
\* at least one (FindingsJsonContract.evaluate).
Evaluation ==
    [status : {"complete"}, findings : SUBSET Findings]
        \cup [status : {"incomplete"}, findings : SUBSET Findings \ {{}}]
        \cup [status : {"invalid"}, findings : {{}}]

\* Why there is no response to evaluate: no such transport, an exception, answers
\* without valid metadata; exit code 124; nothing said.
FailureCodes == {"transport_unavailable", "timeout", "empty_response"}

\* The review ids the processes are given, and the attempts their profile allows.
Workload == [ids : SUBSET ReviewIds, attempts : 1..Attempts]

ASSUME ReviewAssumption ==
    /\ Workloads \subseteq Workload
    /\ Evaluations \subseteq Evaluation
    /\ Failures \subseteq FailureCodes
    /\ Attempts \in Nat \ {0}
    /\ MaxFaults \in Nat /\ MaxCrashes \in Nat

VARIABLES
    workload,   \* what the processes are asked to do
    journal,    \* the events of the project journal
    ends,       \* how the journal file ends: "newline", "unterminated" or "torn"
    disk,       \* review id -> its directory
    pc,         \* process -> where it is in review()
    job,        \* process -> the local variables of review()
    result,     \* process -> what its review ended with
    faults,     \* failing writes so far
    crashes     \* processes killed so far

vars == <<workload, journal, ends, disk, pc, job, result, faults, crashes>>

-----------------------------------------------------------------------------
(* The directory of a review.  A file is absent, half written or holds its *)
(* contents; O_EXCL makes the first writer the only one.                   *)

Absent == [file |-> "absent"]
Half   == [file |-> "half"]
Holding(contents) == [file |-> "whole", contents |-> contents]

Whole(f) == f.file = "whole"

NoDirectory == [exists |-> FALSE, packet |-> Absent, receipt |-> Absent,
                responses |-> [k \in 1..Attempts |-> Absent]]

\* Seeded fault: an attempt is recorded under the contract's own word for it.
StatusAsEvaluated(evaluation) == evaluation.status

\* What an evaluation is called in attempts[].status.
StatusOf(evaluation) ==
    CASE evaluation.status = "complete"   -> "accepted"
      [] evaluation.status = "incomplete" -> "partial"
      [] OTHER                            -> "contract_failed"

NoEvaluation == [status |-> "none", findings |-> {}]

\* The local variables of review() before it does anything.
NoJob == [review |-> "none", attempts |-> << >>, fallbacks |-> << >>, retained |-> {},
          outcome |-> NoEvaluation, status |-> "none", todo |-> {}, head |-> 0]

\* status once review() has decided it; todo: findings it has yet to journal;
\* head: the journalSequence for the receipt.

Init ==
    /\ workload \in Workloads
    /\ journal = << >>
    /\ ends = "newline"
    /\ disk = [r \in ReviewIds |-> NoDirectory]
    /\ pc = [c \in Clients |-> "idle"]
    /\ job = [c \in Clients |-> NoJob]
    /\ result = [c \in Clients |-> "none"]
    /\ faults = 0
    /\ crashes = 0

Goto(c, from, to) ==
    /\ pc[c] = from
    /\ pc' = [pc EXCEPT ![c] = to]
    /\ UNCHANGED workload

\* review() returns or raises: its local variables are gone.
Return(c, from, code) ==
    /\ Goto(c, from, "done")
    /\ result' = [result EXCEPT ![c] = code]
    /\ job' = [job EXCEPT ![c] = NoJob]

With(c, j) == job' = [job EXCEPT ![c] = j]

NoFault == UNCHANGED <<faults, crashes>>
Quiet   == UNCHANGED <<journal, ends>>

Mine(c) == disk[job[c].review]

Event(c, kind, what) ==
    [kind |-> kind, review |-> job[c].review, by |-> c, what |-> what]

\* append() on an unterminated last line succeeds and tears it (ProjectJournal).
AppendTo(c, kind, what) ==
    /\ journal' = Append(journal, Event(c, kind, what))
    /\ ends' = IF ends = "unterminated" THEN "torn" ELSE ends

\* c asks the journal for an event and goes on to its next step with the local
\* variables j.  When append() raises, review() raises with it: the event is usually
\* not there, and when the rollback failed too it is, with or without its newline, or
\* the journal is torn.
JournalThen(c, kind, what, from, to, j) ==
    \/ /\ ends # "torn"
       /\ AppendTo(c, kind, what)
       /\ Goto(c, from, to)
       /\ With(c, j)
       /\ UNCHANGED result /\ NoFault
    \/ /\ ends = "torn"
       /\ Return(c, from, "raised")
       /\ Quiet /\ NoFault
    \/ /\ ends # "torn"
       /\ faults < MaxFaults
       /\ faults' = faults + 1
       /\ Return(c, from, "raised")
       /\ \/ Quiet
          \/ AppendTo(c, kind, what)
          \/ /\ ends = "newline"
             /\ journal' = Append(journal, Event(c, kind, what))
             /\ ends' = "unterminated"
          \/ ends' = "torn" /\ UNCHANGED journal
       /\ UNCHANGED crashes

\* Seeded fault: the file is opened without O_EXCL.
WriteThenOver(c, file, full, half, from, to) ==
    /\ disk' = [disk EXCEPT ![job[c].review] = full]
    /\ Goto(c, from, to)
    /\ UNCHANGED <<job, result>> /\ NoFault

\* ArtifactStore.write_bytes turns the directory of c's review into full.  A file
\* that is there already raises, and so does a failing write, which leaves half.
WriteThen(c, file, full, half, from, to) ==
    \/ /\ file = Absent
       /\ disk' = [disk EXCEPT ![job[c].review] = full]
       /\ Goto(c, from, to)
       /\ UNCHANGED <<job, result>> /\ NoFault
    \/ /\ file # Absent
       /\ Return(c, from, "raised")
       /\ UNCHANGED disk /\ NoFault
    \/ /\ file = Absent
       /\ faults < MaxFaults
       /\ faults' = faults + 1
       /\ Return(c, from, "raised")
       /\ disk' = [disk EXCEPT ![job[c].review] = half]
       /\ UNCHANGED crashes

WithPacket(d, f)      == [d EXCEPT !.packet = f]
WithReceipt(d, f)     == [d EXCEPT !.receipt = f]
WithResponse(d, k, f) == [d EXCEPT !.responses[k] = f]

-----------------------------------------------------------------------------
(* The steps of review().                                                  *)

\* The request passes the checks that read no shared state; the review id must not
\* have a directory yet.
CheckId(c, r) ==
    /\ pc[c] = "idle"
    /\ IF disk[r].exists
       THEN Return(c, "idle", "invalid_request")
       ELSE /\ Goto(c, "idle", "mkdir")
            /\ With(c, [NoJob EXCEPT !.review = r])
            /\ UNCHANGED result
    /\ Quiet /\ NoFault
    /\ UNCHANGED disk

\* Sources were read meanwhile.  ArtifactStore opens the directory or makes it; one
\* that appears between its open and its mkdir makes it raise.  Then the response
\* contract is prepared, which an unknown contract name makes impossible.
MakeDirectory(c) ==
    /\ pc[c] = "mkdir"
    /\ disk' = [disk EXCEPT ![job[c].review].exists = TRUE]
    /\ \/ Goto(c, "mkdir", "packet") /\ UNCHANGED <<job, result>>
       \/ /\ Goto(c, "mkdir", "head")
          /\ With(c, [job[c] EXCEPT !.status = "contract_failed"])
          /\ UNCHANGED result
       \/ Mine(c).exists /\ Return(c, "mkdir", "raised")
    /\ Quiet /\ NoFault

\* Seeded fault: packet.json of another process is written over.
WritePacketOver(c) ==
    /\ Goto(c, "packet", "start")
    /\ disk' = [disk EXCEPT ![job[c].review].packet = Holding(c)]
    /\ Quiet /\ NoFault
    /\ UNCHANGED <<job, result>>

WritePacket(c) ==
    /\ pc[c] = "packet"
    /\ WriteThen(c, Mine(c).packet, WithPacket(Mine(c), Holding(c)),
                 WithPacket(Mine(c), Half), "packet", "start")
    /\ Quiet

Start(c) ==
    /\ pc[c] = "start"
    /\ JournalThen(c, "review_started", "none", "start", "attempt", job[c])
    /\ UNCHANGED disk

\* The transport of the next route runs, or there is none, or it raises, times out,
\* answers nothing or something whose metadata is not valid; then no response is
\* kept.
Attempt(c) ==
    /\ \E answer \in Evaluations \cup [status : Failures, findings : {{}}] :
           /\ With(c, [job[c] EXCEPT !.outcome = answer])
           /\ Goto(c, "attempt", IF answer.status \in FailureCodes THEN "record" ELSE "respond")
    /\ Quiet /\ NoFault
    /\ UNCHANGED <<disk, result>>

Number(c) == Len(job[c].attempts) + 1

\* attempt-NN/response.md; its contents stand for the bytes of this very answer.
WriteResponse(c) ==
    /\ pc[c] = "respond"
    /\ LET k == Number(c)
       IN  WriteThen(c, Mine(c).responses[k],
                     WithResponse(Mine(c), k, Holding(<<c, k, job[c].outcome>>)),
                     WithResponse(Mine(c), k, Half), "respond", "record")
    /\ Quiet

\* _merge_findings, as far as finding ids go.
Merge(retained, found) == retained \cup found

\* Seeded fault: the status of an exhausted review is that of its last attempt.
ExhaustedStatusOfLast(attempts) == attempts[Len(attempts)].status

\* The status after the last attempt: partial once any attempt retained findings,
\* else the code of the last diagnostic.
ExhaustedStatus(attempts) ==
    IF \E i \in 1..Len(attempts) : attempts[i].status = "partial"
    THEN "partial" ELSE attempts[Len(attempts)].status

\* Seeded fault: an attempt without a response is made again and not recorded.
RecordResponses(c) ==
    /\ job[c].outcome.status \in FailureCodes
    /\ Goto(c, "record", "attempt")
    /\ With(c, [job[c] EXCEPT !.outcome = NoEvaluation])
    /\ Quiet /\ NoFault
    /\ UNCHANGED <<disk, result>>

\* record_attempt, and what follows it in the loop: an accepted attempt ends it,
\* any other one is followed by the next attempt and a fallback relationship.
Record(c) ==
    LET found    == job[c].outcome.findings
        status   == IF job[c].outcome.status \in FailureCodes
                    THEN job[c].outcome.status ELSE StatusOf(job[c].outcome)
        attempt  == [attempt |-> Number(c), status |-> status]
        attempts == Append(job[c].attempts, attempt)
        retained == Merge(job[c].retained, found)
        over     == status = "accepted" \/ Number(c) = workload.attempts
    IN  /\ pc[c] = "record"
        /\ JournalThen(c, "review_attempt", attempt, "record",
               IF over THEN "observe" ELSE "attempt",
               [job[c] EXCEPT
                  !.attempts  = attempts,
                  !.retained  = retained,
                  !.outcome   = IF over THEN @ ELSE NoEvaluation,
                  !.fallbacks = IF over THEN @
                                ELSE Append(@, [from |-> Number(c), reason |-> status]),
                  !.status    = IF status = "accepted" THEN "accepted"
                                ELSE IF over THEN ExhaustedStatus(attempts) ELSE @,
                  !.todo      = IF over THEN retained ELSE @])
        /\ UNCHANGED disk

\* _record_findings journals one finding after the other.
Observe(c) ==
    /\ pc[c] = "observe"
    /\ \/ /\ job[c].todo = {}
          /\ Goto(c, "observe", "head")
          /\ Quiet /\ NoFault
          /\ UNCHANGED <<job, result>>
       \/ \E f \in job[c].todo :
              JournalThen(c, "finding_observed", f, "observe", "observe",
                          [job[c] EXCEPT !.todo = @ \ {f}])
    /\ UNCHANGED disk

\* _write_receipt asks the journal for its head first, which raises on a torn one.
ReadHead(c) ==
    /\ pc[c] = "head"
    /\ IF ends = "torn"
       THEN Return(c, "head", "raised")
       ELSE /\ Goto(c, "head", "receipt")
            /\ With(c, [job[c] EXCEPT !.head = Len(journal)])
            /\ UNCHANGED result
    /\ Quiet /\ NoFault
    /\ UNCHANGED disk

\* _write_receipt.  An accepted receipt is bound to the digest of its response.
Receipt(c) ==
    [status |-> job[c].status, findings |-> job[c].retained, attempts |-> job[c].attempts,
     fallbacks |-> job[c].fallbacks, head |-> job[c].head,
     response |-> IF job[c].status = "accepted"
                  THEN <<c, Len(job[c].attempts), job[c].outcome>> ELSE << >>]

\* Seeded fault: a receipt that cannot be written does not stop the review.
WriteReceiptIfPossible(c) ==
    /\ Goto(c, "receipt", IF job[c].attempts = << >> THEN "return" ELSE "finish")
    /\ disk' \in {[disk EXCEPT ![job[c].review].receipt = f] : f \in {Half, Holding(Receipt(c))}}
    /\ Quiet /\ NoFault
    /\ UNCHANGED <<job, result>>

\* A review whose contract could not be prepared returns after its receipt and
\* leaves no event in the journal.
WriteReceipt(c) ==
    /\ pc[c] = "receipt"
    /\ WriteThen(c, Mine(c).receipt, WithReceipt(Mine(c), Holding(Receipt(c))),
                 WithReceipt(Mine(c), Half), "receipt",
                 IF job[c].attempts = << >> THEN "return" ELSE "finish")
    /\ Quiet

Finish(c) ==
    /\ pc[c] = "finish"
    /\ JournalThen(c, "review_finished", job[c].status, "finish", "return", job[c])
    /\ UNCHANGED disk

\* verify_project_receipt has no diagnostic for the receipt of this directory.
Verifies(d) ==
    /\ Whole(d.receipt)
    /\ d.receipt.contents.status = "accepted" =>
           LET receipt  == d.receipt.contents
               accepted == {i \in 1..Len(receipt.attempts) :
                                receipt.attempts[i].status = "accepted"}
           IN  /\ Cardinality(accepted) = 1
               /\ \A i \in accepted : d.responses[i] = Holding(receipt.response)

\* review() returns; the review command verifies an accepted receipt it was given,
\* and that it is the very receipt this review wrote.
Conclude(c) ==
    /\ Return(c, "return",
              IF job[c].status = "accepted"
                 /\ ~(Verifies(Mine(c)) /\ Mine(c).receipt = Holding(Receipt(c)))
              THEN "receipt_invalid" ELSE job[c].status)
    /\ Quiet /\ NoFault
    /\ UNCHANGED disk

Killed(c) ==
    /\ pc[c] \notin {"idle", "done"}
    /\ crashes < MaxCrashes
    /\ crashes' = crashes + 1
    /\ Return(c, pc[c], "killed")
    /\ UNCHANGED <<journal, faults>>

\* The process is killed between two steps.
Crash(c) == Killed(c) /\ UNCHANGED <<disk, ends>>

\* It is killed while it fills a file.
CrashInWrite(c) ==
    /\ Killed(c)
    /\ LET d == Mine(c)
       IN  \E half \in
               IF pc[c] = "packet" /\ d.packet = Absent THEN {WithPacket(d, Half)}
               ELSE IF pc[c] = "receipt" /\ d.receipt = Absent THEN {WithReceipt(d, Half)}
               ELSE IF pc[c] = "respond" /\ d.responses[Number(c)] = Absent
                    THEN {WithResponse(d, Number(c), Half)} ELSE {} :
               disk' = [disk EXCEPT ![job[c].review] = half]
    /\ UNCHANGED ends

\* It is killed while it appends: half the line is there, or all of it, which
\* journal already has, but the newline.
CrashInAppend(c) ==
    /\ Killed(c)
    /\ \/ /\ pc[c] \in {"start", "record", "observe", "finish"}
          /\ ends # "torn"
          /\ ends' = "torn"
       \/ /\ pc[c] \in {"attempt", "observe", "head", "return"}
          /\ ends = "newline"
          /\ journal # << >> /\ journal[Len(journal)].by = c
          /\ ends' = "unterminated"
    /\ UNCHANGED disk

\* What a process does once its review is under way.
Step(c) ==
    \/ MakeDirectory(c) \/ WritePacket(c) \/ Start(c) \/ Attempt(c) \/ WriteResponse(c)
    \/ Record(c) \/ Observe(c) \/ ReadHead(c) \/ WriteReceipt(c) \/ Finish(c) \/ Conclude(c)

\* Every process has made its review.
Finished ==
    /\ \A c \in Clients : pc[c] = "done"
    /\ UNCHANGED vars

Next ==
    \/ \E c \in Clients :
           \/ \E r \in workload.ids : CheckId(c, r)
           \/ Step(c)
           \/ Crash(c) \/ CrashInWrite(c) \/ CrashInAppend(c)
    \/ Finished

Spec == Init /\ [][Next]_vars

\* A review that began keeps running; every transport ends, at the latest when its
\* timeout does.  Nothing says that a write fails or that a process is killed.
FairSpec == Spec /\ \A c \in Clients : WF_vars(Step(c))
-----------------------------------------------------------------------------
(* Properties.                                                             *)

PcStates == {"idle", "mkdir", "packet", "start", "attempt", "respond", "record", "observe",
             "head", "receipt", "finish", "return", "done"}

Statuses == {"none", "accepted", "partial", "contract_failed"} \cup FailureCodes

AttemptRecord == [attempt : 1..Attempts, status : Statuses]

Job == [review : ReviewIds \cup {"none"}, attempts : Seq(AttemptRecord),
        fallbacks : Seq([from : 1..Attempts, reason : Statuses]),
        retained : SUBSET Findings,
        outcome : {NoEvaluation} \cup Evaluation \cup [status : FailureCodes, findings : {{}}],
        status : Statuses, todo : SUBSET Findings, head : Nat]

\* Every variable has the type its comment says.
TypeOK ==
    /\ workload \in Workloads
    /\ \A i \in 1..Len(journal) :
           /\ journal[i].kind \in {"review_started", "review_attempt", "finding_observed",
                                   "review_finished"}
           /\ journal[i].review \in ReviewIds
           /\ journal[i].by \in Clients
    /\ ends \in {"newline", "unterminated", "torn"}
    /\ \A r \in ReviewIds :
           /\ disk[r].exists \in BOOLEAN
           /\ \A file \in {disk[r].packet, disk[r].receipt} : file.file \in {"absent", "half", "whole"}
    /\ pc \in [Clients -> PcStates]
    /\ job \in [Clients -> Job]
    /\ result \in [Clients -> Statuses \cup {"invalid_request", "raised", "killed",
                                             "receipt_invalid"}]
    /\ faults \in 0..MaxFaults
    /\ crashes \in 0..MaxCrashes

\* However many processes are started under one review id, the journal tells of one
\* run: one process, one start before everything else, attempts in order, findings
\* after the attempts, nothing after the end (attempt_root.exists(), O_EXCL).
OneRunPerReview ==
    \A j \in 1..Len(journal) :
        /\ journal[j].kind # "review_started" =>
               \E i \in 1..(j - 1) :
                   journal[i].kind = "review_started" /\ journal[i].review = journal[j].review
        /\ \A i \in 1..(j - 1) : journal[i].review = journal[j].review =>
               /\ journal[i].by = journal[j].by
               /\ journal[j].kind # "review_started"
               /\ journal[i].kind # "review_finished"
               /\ journal[j].kind = "review_attempt" =>
                      /\ journal[i].kind \in {"review_started", "review_attempt"}
                      /\ journal[i].kind = "review_attempt" =>
                             journal[i].what.attempt < journal[j].what.attempt

Receipts == {r \in ReviewIds : Whole(disk[r].receipt)}

\* A receipt verifies, and by the journal sequence it names the journal already held
\* every attempt it lists and every finding it reports (_write_receipt).
ReceiptIsBacked ==
    \A r \in Receipts :
        LET receipt == disk[r].receipt.contents
            Before(kind, what) ==
                \E i \in 1..receipt.head : /\ journal[i].review = r
                                           /\ journal[i].kind = kind
                                           /\ journal[i].what = what
        IN  /\ Verifies(disk[r])
            /\ \A f \in receipt.findings : Before("finding_observed", f)
            /\ \A k \in 1..Len(receipt.attempts) :
                   Before("review_attempt", receipt.attempts[k])

\* The order of the evidence, whatever dies between two writes of it: attempts and
\* findings in the journal, then a receipt that has them all, then review_finished with
\* the status of that receipt.  A crash never leaves a finished review without one.
EvidenceInOrder ==
    /\ ReceiptIsBacked
    /\ \A i \in 1..Len(journal) : journal[i].kind = "review_finished" =>
        LET r == journal[i].review
        IN  /\ r \in Receipts
            /\ disk[r].receipt.contents.status = journal[i].what
            /\ disk[r].receipt.contents.head < i

\* What a receipt says of its run: it is accepted exactly when its last attempt was
\* and then no other is, partial exactly when it is not accepted and an attempt
\* retained findings; it reports every finding that is valid in any response.md of
\* the run and no other; and it has one fallback relationship from each attempt that
\* was followed by one.
ReceiptTellsTheRun ==
    \A r \in Receipts :
        LET receipt  == disk[r].receipt.contents
            attempts == receipt.attempts
            last     == Len(attempts)
        IN  attempts # << >> =>
            /\ \A k \in 1..last :
                   attempts[k].status = "accepted" <=> k = last /\ receipt.status = "accepted"
            /\ receipt.status = "partial" <=>
                   /\ receipt.status # "accepted"
                   /\ \E k \in 1..last : attempts[k].status = "partial"
            /\ receipt.findings = UNION {disk[r].responses[k].contents[3].findings :
                                           k \in {i \in 1..last : Whole(disk[r].responses[i])}}
            /\ receipt.fallbacks =
                   [k \in 1..(last - 1) |-> [from |-> k, reason |-> attempts[k].status]]

\* No process ever changes an artifact another one, or it itself, has written: not
\* a second run under the same review id, and not a retry.
ArtifactsAreFinal ==
    [][\A r \in ReviewIds :
           /\ Whole(disk[r].packet) => disk'[r].packet = disk[r].packet
           /\ Whole(disk[r].receipt) => disk'[r].receipt = disk[r].receipt
           /\ \A k \in 1..Attempts :
                  Whole(disk[r].responses[k]) => disk'[r].responses[k] = disk[r].responses[k]]_vars

\* A review that began ends, with a status or an exception.
EveryReviewEnds == \A c \in Clients : pc[c] \notin {"idle", "done"} ~> pc[c] = "done"
=============================================================================
