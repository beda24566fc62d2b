------------------------ MODULE ReviewClient_proofs ------------------------
(***************************************************************************)
(* Proofs about ReviewClient, for every set of processes, review ids and   *)
(* findings, any number of attempts and any bounds on faults and kills.    *)
(*                                                                         *)
(* The argument: only the process whose packet.json is in the directory of *)
(* a review (Owning) appends events of that review, writes its responses   *)
(* and leaves a receipt that has attempts.  What others do to its evidence *)
(* is therefore little (Interference), and what it has recorded so far can *)
(* be described step by step (Recorded).                                   *)
(***************************************************************************)
EXTENDS ReviewClient, FiniteSetTheorems, TLAPS

-----------------------------------------------------------------------------
(* Types.                                                                  *)

Outcome == {NoEvaluation} \cup Evaluation \cup [status : FailureCodes, findings : {{}}]

\* The bytes of response.md.
Answer == Clients \X (1..Attempts) \X Outcome

Fallback == [from : 1..Attempts, reason : Statuses]

ReceiptRecord ==
    [status : Statuses, findings : SUBSET Findings, attempts : Seq(AttemptRecord),
     fallbacks : Seq(Fallback), head : Nat, response : {<< >>} \cup (Clients \X Nat \X Outcome)]

Files(S) == {Absent, Half} \cup {Holding(x) : x \in S}

Directory == [exists : BOOLEAN, packet : Files(Clients), receipt : Files(ReceiptRecord),
              responses : [1..Attempts -> Files(Answer)]]

What == {"none"} \cup AttemptRecord \cup Findings \cup Statuses

\* An attempt's event says which one it was.
JournalEvent ==
    [kind : {"review_attempt"}, review : ReviewIds, by : Clients, what : AttemptRecord]
        \cup [kind : {"review_started", "finding_observed", "review_finished"},
              review : ReviewIds, by : Clients, what : What]

\* The loop over the attempts, and the way to it.
Trying == {"attempt", "respond", "record"}
Opening == {"mkdir", "packet", "start"}

\* What review() has before its first attempt, and before it begins.
Blank(c) == [NoJob EXCEPT !.review = job[c].review]

Placed(c) ==
    /\ pc[c] \in {"idle", "done"} => job[c] = NoJob
    /\ pc[c] \notin {"idle", "done"} => job[c].review \in ReviewIds
    /\ pc[c] \in Opening => job[c] = Blank(c)
    /\ pc[c] \in Trying => Len(job[c].attempts) < workload.attempts
    /\ pc[c] \in {"respond", "record"} => job[c].outcome # NoEvaluation
    /\ pc[c] = "respond" => job[c].outcome.status \notin FailureCodes

TypeInv ==
    /\ TypeOK
    /\ journal \in Seq(JournalEvent)
    /\ disk \in [ReviewIds -> Directory]
    /\ \A c \in Clients : Placed(c)

-----------------------------------------------------------------------------
(* Whose review it is.                                                     *)

\* c has written packet.json and not left review().
Owning(c) == pc[c] \in {"start"} \cup Trying \/ job[c].attempts # << >>

\* Its packet is there, and every event of a review is of the process whose packet it is.
Owned ==
    /\ \A c \in Clients : Owning(c) => Mine(c).packet = Holding(c)
    /\ \A i \in 1..Len(journal) : disk[journal[i].review].packet = Holding(journal[i].by)

-----------------------------------------------------------------------------
(* What the process has recorded.  These are about a journal, the place of *)
(* a process c, its local variables j and the directory D of its review.   *)

\* The first n events tell of a review r that something of a kind happened.
Told(log, n, r, kind, what) ==
    \E i \in 1..n : log[i].review = r /\ log[i].kind = kind /\ log[i].what = what

\* The events of r begin with a start, and all of them are of these kinds.
Under(log, r, kinds) ==
    /\ \E i \in 1..Len(log) : log[i].review = r /\ log[i].kind = "review_started"
    /\ \A i \in 1..Len(log) : log[i].review = r => log[i].kind \in kinds

Journaled(log, at, j) ==
    /\ at = "start" => \A i \in 1..Len(log) : log[i].review # j.review
    /\ at \in Trying =>
           /\ Under(log, j.review, {"review_started", "review_attempt"})
           /\ \A i \in 1..Len(log) :
                  log[i].review = j.review /\ log[i].kind = "review_attempt" =>
                      log[i].what.attempt <= Len(j.attempts)
    /\ at \in {"observe", "head", "receipt", "finish"} =>
           Under(log, j.review, {"review_started", "review_attempt", "finding_observed"})

\* The journal's first n events have the attempts, and the findings but those to do.
Backed(log, j, n) ==
    /\ \A k \in 1..Len(j.attempts) : Told(log, n, j.review, "review_attempt", j.attempts[k])
    /\ \A f \in j.retained \ j.todo : Told(log, n, j.review, "finding_observed", f)

\* The attempts alone, while there are more to come.
BackedSoFar(log, j) ==
    \A k \in 1..Len(j.attempts) :
        Told(log, Len(log), j.review, "review_attempt", j.attempts[k])

\* What a response.md reports.
FindingsIn(responses, n) ==
    UNION {responses[k].contents[3].findings : k \in {i \in 1..n : Whole(responses[i])}}

FallbacksOf(attempts, n) == [k \in 1..n |-> [from |-> k, reason |-> attempts[k].status]]

\* status is what the attempts of an ended loop come to.
Decided(status, attempts) ==
    LET last == Len(attempts)
    IN  /\ \A k \in 1..last :
               attempts[k].status = "accepted" <=> k = last /\ status = "accepted"
        /\ status = "partial" <=>
               status # "accepted" /\ \E k \in 1..last : attempts[k].status = "partial"

\* While it tries.
Tried(at, j, D, c) ==
    LET n == Len(j.attempts)
    IN  /\ \A k \in 1..n : j.attempts[k].status # "accepted"
        /\ j.fallbacks = FallbacksOf(j.attempts, n)
        /\ \A k \in (n + 2)..Attempts : D.responses[k] = Absent
        /\ D.responses[n + 1] = IF at = "record" /\ j.outcome.status \notin FailureCodes
                                THEN Holding(<<c, n + 1, j.outcome>>) ELSE Absent

\* And when its attempts are over.
Ended(log, at, j, D, c) ==
    LET n == Len(j.attempts)
    IN  /\ n \in 1..Attempts
        /\ j.fallbacks = FallbacksOf(j.attempts, n - 1)
        /\ Decided(j.status, j.attempts)
        /\ j.status = "accepted" => D.responses[n] = Holding(<<c, n, j.outcome>>)
        /\ at # "observe" => j.todo = {}
        /\ Backed(log, j, Len(log))
        /\ at \in {"receipt", "finish", "return"} =>
               j.head \in 0..Len(log) /\ Backed(log, j, j.head)

ReceiptOf(c, j) ==
    [status |-> j.status, findings |-> j.retained, attempts |-> j.attempts,
     fallbacks |-> j.fallbacks, head |-> j.head,
     response |-> IF j.status = "accepted" THEN <<c, Len(j.attempts), j.outcome>> ELSE << >>]

Kept(log, at, j, D, c) ==
    /\ at # "start" => j.retained = FindingsIn(D.responses, Len(j.attempts))
    /\ at = "start" => \A k \in 1..Attempts : D.responses[k] = Absent
    /\ at \in Trying => Tried(at, j, D, c) /\ BackedSoFar(log, j)
    /\ at \notin Trying \cup {"start"} => Ended(log, at, j, D, c)
    /\ at \notin {"finish", "return"} /\ Whole(D.receipt) => D.receipt.contents.attempts = << >>
    /\ at = "finish" => D.receipt = Holding(ReceiptOf(c, j))

Recorded ==
    \A c \in Clients : Owning(c) =>
        /\ Journaled(journal, pc[c], job[c])
        /\ Kept(journal, pc[c], job[c], Mine(c), c)

\* A review whose contract was not prepared has nothing to say.
Unprepared ==
    \A c \in Clients :
        pc[c] \in {"observe", "head", "receipt", "finish", "return"} /\ job[c].attempts = << >> =>
            /\ pc[c] \in {"head", "receipt", "return"}
            /\ job[c].status = "contract_failed" /\ job[c].retained = {}
            /\ job[c].head \in 0..Len(journal)

\* A response is written, and a receipt that has attempts, only after packet.json.
AfterPacket ==
    \A r \in ReviewIds :
        /\ \A k \in 1..Attempts : disk[r].responses[k] # Absent => Whole(disk[r].packet)
        /\ Whole(disk[r].receipt) /\ disk[r].receipt.contents.attempts # << >> =>
               Whole(disk[r].packet)

\* What a receipt in the directory D of r says is true of the log and of D.
Stands(log, r, D) ==
    Whole(D.receipt) =>
        LET receipt == D.receipt.contents
        IN  /\ receipt.head \in 0..Len(log) /\ Len(receipt.attempts) \in 0..Attempts
            /\ Verifies(D)
            /\ \A f \in receipt.findings : Told(log, receipt.head, r, "finding_observed", f)
            /\ \A k \in 1..Len(receipt.attempts) :
                   Told(log, receipt.head, r, "review_attempt", receipt.attempts[k])

Tells(D) ==
    Whole(D.receipt) /\ D.receipt.contents.attempts # << >> =>
        LET receipt == D.receipt.contents
            last    == Len(receipt.attempts)
        IN  /\ Decided(receipt.status, receipt.attempts)
            /\ receipt.findings = FindingsIn(D.responses, last)
            /\ receipt.fallbacks = FallbacksOf(receipt.attempts, last - 1)

Standing == \A r \in ReviewIds : Stands(journal, r, disk[r]) /\ Tells(disk[r])

\* A finished review has its receipt, which was there before the event.
FinishedWithReceipt ==
    \A i \in 1..Len(journal) : journal[i].kind = "review_finished" =>
        LET D == disk[journal[i].review]
        IN  /\ Whole(D.receipt)
            /\ D.receipt.contents.status = journal[i].what
            /\ D.receipt.contents.head < i

IInv ==
    /\ TypeInv /\ Owned /\ Recorded /\ Unprepared /\ AfterPacket
    /\ OneRunPerReview /\ Standing /\ FinishedWithReceipt

-----------------------------------------------------------------------------
(* What a step does.                                                       *)

\* Files are written one at a time.
LEMMA Fields ==
    ASSUME NEW D \in Directory, NEW f
    PROVE  /\ WithPacket(D, f).packet = f /\ WithPacket(D, f).receipt = D.receipt
           /\ WithPacket(D, f).responses = D.responses
           /\ WithReceipt(D, f).receipt = f /\ WithReceipt(D, f).packet = D.packet
           /\ WithReceipt(D, f).responses = D.responses
           /\ f \in Files(Clients) => WithPacket(D, f) \in Directory
           /\ f \in Files(ReceiptRecord) => WithReceipt(D, f) \in Directory
  BY DEF Directory, WithPacket, WithReceipt

LEMMA ResponseFields ==
    ASSUME NEW D \in Directory, NEW f, NEW k \in 1..Attempts
    PROVE  /\ WithResponse(D, k, f).packet = D.packet
           /\ WithResponse(D, k, f).receipt = D.receipt
           /\ WithResponse(D, k, f).responses[k] = f
           /\ \A i \in 1..Attempts \ {k} : WithResponse(D, k, f).responses[i] = D.responses[i]
           /\ f \in Files(Answer) => WithResponse(D, k, f) \in Directory
  BY DEF Directory, WithResponse

\* A file that is absent, half written and whole are three things.
LEMMA ThreeStates ==
    ASSUME NEW x
    PROVE  /\ Absent # Half /\ Absent # Holding(x) /\ Half # Holding(x)
           /\ ~Whole(Absent) /\ ~Whole(Half) /\ Whole(Holding(x))
           /\ Holding(x).contents = x
  BY DEF Absent, Half, Holding, Whole

\* Two whole files with the same contents.
LEMMA SameContents ==
    ASSUME NEW x, NEW y, Holding(x) = Holding(y)
    PROVE  x = y
  BY ThreeStates

\* A whole file holds its contents.
LEMMA WholeIs ==
    ASSUME NEW S, NEW f \in Files(S)
    PROVE  /\ f = Absent \/ f = Half \/ (f = Holding(f.contents) /\ f.contents \in S)
           /\ Whole(f) <=> f = Holding(f.contents)
           /\ Whole(f) => f.contents \in S
  BY ThreeStates DEF Files

\* Only process c does anything to its place and its local variables.
Frame(c) ==
    /\ workload' = workload
    /\ \A d \in Clients \ {c} : pc'[d] = pc[d] /\ job'[d] = job[d]

Moves(c, to, j) == pc'[c] = to /\ job'[c] = j

Leaves(c) == Moves(c, "done", NoJob)

\* The variables but journal and disk keep their types.
Scalars ==
    /\ workload' \in Workloads
    /\ ends' \in {"newline", "unterminated", "torn"}
    /\ pc' \in [Clients -> PcStates]
    /\ job' \in [Clients -> Job]
    /\ result' \in [Clients -> Statuses \cup {"invalid_request", "raised", "killed",
                                              "receipt_invalid"}]
    /\ faults' \in 0..MaxFaults
    /\ crashes' \in 0..MaxCrashes

Records(c, kind, what) == journal' = Append(journal, Event(c, kind, what))

Replaces(c, D) == disk' = [disk EXCEPT ![job[c].review] = D]

LEMMA NoJobTyped == NoJob \in Job
  BY DEF NoJob, Job, NoEvaluation, Statuses

\* A step that leaves review().
LEMMA ReturnEffect ==
    ASSUME TypeInv, NEW c \in Clients, NEW from, NEW code, Return(c, from, code),
           code \in Statuses \cup {"invalid_request", "raised", "killed", "receipt_invalid"}
    PROVE  /\ pc[c] = from /\ Frame(c) /\ Leaves(c)
           /\ pc' \in [Clients -> PcStates]
           /\ job' \in [Clients -> Job]
           /\ result' \in [Clients -> Statuses \cup {"invalid_request", "raised", "killed",
                                                     "receipt_invalid"}]
  BY NoJobTyped DEF TypeInv, TypeOK, Return, Goto, Frame, Leaves, Moves, PcStates

\* A step that goes on.
LEMMA GoEffect ==
    ASSUME TypeInv, NEW c \in Clients, NEW from, NEW to \in PcStates, NEW j \in Job,
           Goto(c, from, to), With(c, j) \/ (UNCHANGED job /\ j = job[c])
    PROVE  /\ pc[c] = from /\ Frame(c) /\ Moves(c, to, j)
           /\ pc' \in [Clients -> PcStates]
           /\ job' \in [Clients -> Job]
  BY DEF TypeInv, TypeOK, Goto, With, Frame, Moves, PcStates

\* A step that asks the journal for an event.
LEMMA JournalEffect ==
    ASSUME TypeInv, NEW c \in Clients, NEW kind, NEW what, NEW from, NEW to \in PcStates,
           NEW j \in Job, JournalThen(c, kind, what, from, to, j)
    PROVE  /\ pc[c] = from /\ Frame(c) /\ Scalars
           /\ \/ Records(c, kind, what) /\ Moves(c, to, j)
              \/ Leaves(c) /\ (journal' = journal \/ Records(c, kind, what))
  <1> USE DEF Scalars, Records, TypeInv, TypeOK
  <1>1. CASE /\ ends # "torn"
             /\ AppendTo(c, kind, what)
             /\ Goto(c, from, to)
             /\ With(c, j)
             /\ UNCHANGED result /\ NoFault
    BY <1>1, GoEffect DEF AppendTo, NoFault, Goto
  <1>2. CASE /\ ends = "torn"
             /\ Return(c, from, "raised")
             /\ Quiet /\ NoFault
    BY <1>2, ReturnEffect DEF NoFault, Quiet, Return, Goto
  <1>3. CASE /\ ends # "torn"
             /\ faults < MaxFaults
             /\ faults' = faults + 1
             /\ Return(c, from, "raised")
             /\ \/ Quiet
                \/ AppendTo(c, kind, what)
                \/ /\ ends = "newline"
                   /\ journal' = Append(journal, Event(c, kind, what))
                   /\ ends' = "unterminated"
                \/ ends' = "torn" /\ UNCHANGED journal
             /\ UNCHANGED crashes
    <2>1. faults' \in 0..MaxFaults
      BY <1>3, ReviewAssumption
    <2>2. /\ ends' \in {"newline", "unterminated", "torn"}
          /\ journal' = journal \/ journal' = Append(journal, Event(c, kind, what))
      BY <1>3 DEF Quiet, AppendTo
    <2> QED BY <1>3, <2>1, <2>2, ReturnEffect DEF Return, Goto
  <1> QED BY <1>1, <1>2, <1>3 DEF JournalThen

\* A step that creates a file.
LEMMA WriteEffect ==
    ASSUME TypeInv, NEW c \in Clients, NEW file, NEW full, NEW half, NEW from,
           NEW to \in PcStates, WriteThen(c, file, full, half, from, to), Quiet
    PROVE  /\ pc[c] = from /\ Frame(c) /\ Scalars /\ journal' = journal
           /\ \/ file = Absent /\ Replaces(c, full) /\ Moves(c, to, job[c])
              \/ Leaves(c) /\ disk' = disk
              \/ file = Absent /\ Leaves(c) /\ Replaces(c, half)
  <1> USE DEF Scalars, Replaces, TypeInv, TypeOK, Quiet
  <1>0. job[c] \in Job
    OBVIOUS
  <1>1. CASE /\ file = Absent
             /\ disk' = [disk EXCEPT ![job[c].review] = full]
             /\ Goto(c, from, to)
             /\ UNCHANGED <<job, result>> /\ NoFault
    BY <1>0, <1>1, GoEffect DEF NoFault, Goto
  <1>2. CASE /\ file # Absent
             /\ Return(c, from, "raised")
             /\ UNCHANGED disk /\ NoFault
    BY <1>2, ReturnEffect DEF NoFault, Return, Goto
  <1>3. CASE /\ file = Absent
             /\ faults < MaxFaults
             /\ faults' = faults + 1
             /\ Return(c, from, "raised")
             /\ disk' = [disk EXCEPT ![job[c].review] = half]
             /\ UNCHANGED crashes
    <2>1. faults' \in 0..MaxFaults
      BY <1>3, ReviewAssumption
    <2> QED BY <1>3, <2>1, ReturnEffect DEF Return, Goto
  <1> QED BY <1>1, <1>2, <1>3 DEF WriteThen

-----------------------------------------------------------------------------
(* The effect of each action.                                              *)

Still == disk' = disk

\* What Record makes of the local variables.
EntryStatus(c) ==
    IF job[c].outcome.status \in FailureCodes
    THEN job[c].outcome.status ELSE StatusOf(job[c].outcome)

Entry(c) == [attempt |-> Number(c), status |-> EntryStatus(c)]

Over(c) == EntryStatus(c) = "accepted" \/ Number(c) = workload.attempts

AfterRecord(c) ==
    LET attempts == Append(job[c].attempts, Entry(c))
        retained == job[c].retained \cup job[c].outcome.findings
    IN  [job[c] EXCEPT
            !.attempts  = attempts,
            !.retained  = retained,
            !.outcome   = IF Over(c) THEN job[c].outcome ELSE NoEvaluation,
            !.fallbacks = IF Over(c) THEN job[c].fallbacks
                          ELSE Append(job[c].fallbacks,
                                      [from |-> Number(c), reason |-> EntryStatus(c)]),
            !.status    = IF EntryStatus(c) = "accepted" THEN "accepted"
                          ELSE IF Over(c) THEN ExhaustedStatus(attempts) ELSE job[c].status,
            !.todo      = IF Over(c) THEN retained ELSE job[c].todo]

\* The directory of c's review at the next state.
MineNext(c) == disk'[job[c].review]

\* A review id is checked.
CheckIdDoes(c, r) ==
    /\ pc[c] = "idle" /\ journal' = journal /\ Still
    /\ Leaves(c) \/ Moves(c, "mkdir", [NoJob EXCEPT !.review = r])

LEMMA CheckIdEffect ==
    ASSUME TypeInv, NEW c \in Clients, NEW r \in ReviewIds, CheckId(c, r)
    PROVE  Frame(c) /\ Scalars /\ CheckIdDoes(c, r)
  <1> USE DEF CheckIdDoes, Still, Quiet, NoFault, CheckId, Scalars
  <1>1. CASE disk[r].exists
    BY <1>1, ReturnEffect DEF Return, Goto, TypeInv, TypeOK
  <1>2. CASE ~disk[r].exists
    <2>1. [NoJob EXCEPT !.review = r] \in Job
      BY NoJobTyped DEF Job
    <2>2. With(c, [NoJob EXCEPT !.review = r]) /\ Goto(c, "idle", "mkdir")
      BY <1>2
    <2> QED BY <1>2, <2>1, <2>2, GoEffect DEF Goto, TypeInv, TypeOK, PcStates
  <1> QED BY <1>1, <1>2

MakeDirectoryDoes(c) ==
    /\ pc[c] = "mkdir" /\ journal' = journal
    /\ Replaces(c, [Mine(c) EXCEPT !.exists = TRUE])
    /\ \/ Leaves(c)
       \/ Moves(c, "packet", job[c])
       \/ Moves(c, "head", [job[c] EXCEPT !.status = "contract_failed"])

LEMMA MakeDirectoryEffect ==
    ASSUME TypeInv, NEW c \in Clients, MakeDirectory(c)
    PROVE  Frame(c) /\ Scalars /\ MakeDirectoryDoes(c)
  <1> USE DEF MakeDirectoryDoes, Quiet, NoFault, Scalars
  <1>0. job[c] \in Job /\ job[c].review \in ReviewIds
    BY DEF TypeInv, TypeOK, Placed, MakeDirectory
  <1>1. Replaces(c, [Mine(c) EXCEPT !.exists = TRUE])
    BY <1>0 DEF Replaces, Mine, MakeDirectory, TypeInv
  <1>2. pc[c] = "mkdir" /\ Quiet /\ NoFault
    BY DEF MakeDirectory
  <1>3. CASE Goto(c, "mkdir", "packet") /\ UNCHANGED <<job, result>>
    BY <1>0, <1>1, <1>2, <1>3, GoEffect DEF Goto, TypeInv, TypeOK, PcStates
  <1>4. CASE /\ Goto(c, "mkdir", "head")
             /\ With(c, [job[c] EXCEPT !.status = "contract_failed"])
             /\ UNCHANGED result
    <2>1. [job[c] EXCEPT !.status = "contract_failed"] \in Job
      BY <1>0 DEF Job, Statuses
    <2> QED BY <2>1, <1>1, <1>2, <1>4, GoEffect DEF Goto, TypeInv, TypeOK, PcStates
  <1>5. CASE Mine(c).exists /\ Return(c, "mkdir", "raised")
    BY <1>1, <1>2, <1>5, ReturnEffect DEF Return, Goto, TypeInv, TypeOK
  <1> QED BY <1>3, <1>4, <1>5 DEF MakeDirectory

WritePacketDoes(c) ==
    /\ pc[c] = "packet" /\ journal' = journal
    /\ \/ /\ Mine(c).packet = Absent
          /\ \/ Replaces(c, WithPacket(Mine(c), Holding(c))) /\ Moves(c, "start", job[c])
             \/ Replaces(c, WithPacket(Mine(c), Half)) /\ Leaves(c)
       \/ Still /\ Leaves(c)

LEMMA WritePacketEffect ==
    ASSUME TypeInv, NEW c \in Clients, WritePacket(c)
    PROVE  Frame(c) /\ Scalars /\ WritePacketDoes(c)
  BY WriteEffect DEF WritePacket, WritePacketDoes, Still, PcStates

StartDoes(c) ==
    /\ pc[c] = "start" /\ Still
    /\ \/ Records(c, "review_started", "none") /\ Moves(c, "attempt", job[c])
       \/ Leaves(c) /\ (journal' = journal \/ Records(c, "review_started", "none"))

LEMMA StartEffect ==
    ASSUME TypeInv, NEW c \in Clients, Start(c)
    PROVE  Frame(c) /\ Scalars /\ StartDoes(c)
  <1>1. job[c] \in Job /\ "attempt" \in PcStates
    BY DEF TypeInv, TypeOK, PcStates
  <1> QED BY <1>1, JournalEffect DEF Start, StartDoes, Still

AttemptDoes(c) ==
    /\ pc[c] = "attempt" /\ journal' = journal /\ Still
    /\ \E answer \in Evaluation \cup [status : FailureCodes, findings : {{}}] :
           Moves(c, IF answer.status \in FailureCodes THEN "record" ELSE "respond",
                 [job[c] EXCEPT !.outcome = answer])

LEMMA AttemptEffect ==
    ASSUME TypeInv, NEW c \in Clients, Attempt(c)
    PROVE  Frame(c) /\ Scalars /\ AttemptDoes(c)
  <1>1. PICK answer \in Evaluations \cup [status : Failures, findings : {{}}] :
           /\ With(c, [job[c] EXCEPT !.outcome = answer])
           /\ Goto(c, "attempt", IF answer.status \in FailureCodes THEN "record" ELSE "respond")
    BY DEF Attempt
  <1>2. answer \in Evaluation \cup [status : FailureCodes, findings : {{}}]
    BY ReviewAssumption
  <1>3. [job[c] EXCEPT !.outcome = answer] \in Job
    <2>1. job[c] \in Job
      BY DEF TypeInv, TypeOK
    <2> QED BY <1>2, <2>1 DEF Job
  <1>4. (IF answer.status \in FailureCodes THEN "record" ELSE "respond") \in PcStates
    BY DEF PcStates
  <1>5. /\ pc[c] = "attempt" /\ Frame(c)
        /\ Moves(c, IF answer.status \in FailureCodes THEN "record" ELSE "respond",
                 [job[c] EXCEPT !.outcome = answer])
        /\ pc' \in [Clients -> PcStates] /\ job' \in [Clients -> Job]
    BY <1>1, <1>3, <1>4, GoEffect
  <1>6. journal' = journal /\ Still /\ workload' = workload /\ ends' = ends
        /\ result' = result /\ faults' = faults /\ crashes' = crashes
    BY <1>1 DEF Attempt, Quiet, NoFault, Still, Goto
  <1> QED BY <1>2, <1>5, <1>6 DEF AttemptDoes, Scalars, TypeInv, TypeOK

WriteResponseDoes(c) ==
    LET k == Number(c)
    IN  /\ pc[c] = "respond" /\ journal' = journal
        /\ \/ /\ Mine(c).responses[k] = Absent
              /\ \/ /\ Replaces(c, WithResponse(Mine(c), k, Holding(<<c, k, job[c].outcome>>)))
                    /\ Moves(c, "record", job[c])
                 \/ Replaces(c, WithResponse(Mine(c), k, Half)) /\ Leaves(c)
           \/ Still /\ Leaves(c)

LEMMA WriteResponseEffect ==
    ASSUME TypeInv, NEW c \in Clients, WriteResponse(c)
    PROVE  Frame(c) /\ Scalars /\ WriteResponseDoes(c)
  <1>1. "record" \in PcStates
    BY DEF PcStates
  <1> QED BY <1>1, WriteEffect DEF WriteResponse, WriteResponseDoes, Still

\* An entry that c makes is one of its types.
LEMMA EntryTyped ==
    ASSUME TypeInv, NEW c \in Clients, pc[c] = "record"
    PROVE  /\ Number(c) \in 1..Attempts /\ Number(c) <= workload.attempts
           /\ EntryStatus(c) \in Statuses
           /\ Entry(c) \in AttemptRecord
           /\ Append(job[c].attempts, Entry(c)) \in Seq(AttemptRecord)
           /\ AfterRecord(c) \in Job
           /\ Entry(c) \in What
  <1>0. job[c] \in Job /\ job[c].review \in ReviewIds
    BY DEF TypeInv, TypeOK, Placed
  <1>1. workload.attempts \in 1..Attempts /\ Len(job[c].attempts) < workload.attempts
    BY ReviewAssumption DEF TypeInv, TypeOK, Placed, Trying, Workload
  <1>2. job[c].attempts \in Seq(AttemptRecord) /\ job[c].fallbacks \in Seq(Fallback)
        /\ job[c].retained \in SUBSET Findings /\ job[c].todo \in SUBSET Findings
        /\ job[c].outcome \in Outcome /\ job[c].status \in Statuses /\ job[c].head \in Nat
    BY <1>0 DEF Job, Fallback, Outcome
  <1>3. Number(c) \in 1..Attempts /\ Number(c) <= workload.attempts
    BY <1>1, <1>2, ReviewAssumption DEF Number
  <1>4. EntryStatus(c) \in Statuses
    BY DEF EntryStatus, StatusOf, Statuses
  <1>5. Entry(c) \in AttemptRecord
    BY <1>3, <1>4 DEF Entry, AttemptRecord
  <1>6. Append(job[c].attempts, Entry(c)) \in Seq(AttemptRecord)
    BY <1>2, <1>5
  <1>7. ExhaustedStatus(Append(job[c].attempts, Entry(c))) \in Statuses
    <2>1. Append(job[c].attempts, Entry(c))[Len(Append(job[c].attempts, Entry(c)))] = Entry(c)
      BY <1>2, <1>5
    <2> QED BY <2>1, <1>4 DEF ExhaustedStatus, Entry, Statuses
  <1>8. job[c].outcome.findings \in SUBSET Findings
    BY <1>2 DEF Outcome, NoEvaluation, Evaluation
  <1>9. Append(job[c].fallbacks, [from |-> Number(c), reason |-> EntryStatus(c)]) \in Seq(Fallback)
    BY <1>2, <1>3, <1>4 DEF Fallback
  <1>10. /\ (IF Over(c) THEN job[c].outcome ELSE NoEvaluation) \in Outcome
         /\ (IF EntryStatus(c) = "accepted" THEN "accepted"
             ELSE IF Over(c) THEN ExhaustedStatus(Append(job[c].attempts, Entry(c)))
             ELSE job[c].status) \in Statuses
         /\ job[c].retained \cup job[c].outcome.findings \in SUBSET Findings
    BY <1>2, <1>7, <1>8 DEF Outcome, Statuses
  <1>11. AfterRecord(c) \in Job
    BY <1>0, <1>2, <1>6, <1>9, <1>10 DEF AfterRecord, Job, Outcome, Fallback
  <1> QED BY <1>3, <1>4, <1>5, <1>6, <1>11 DEF What

RecordDoes(c) ==
    /\ pc[c] = "record" /\ Still
    /\ \/ /\ Records(c, "review_attempt", Entry(c))
          /\ Moves(c, IF Over(c) THEN "observe" ELSE "attempt", AfterRecord(c))
       \/ Leaves(c) /\ (journal' = journal \/ Records(c, "review_attempt", Entry(c)))

LEMMA RecordEffect ==
    ASSUME TypeInv, NEW c \in Clients, Record(c)
    PROVE  Frame(c) /\ Scalars /\ RecordDoes(c)
  <1> DEFINE to == IF Over(c) THEN "observe" ELSE "attempt"
  <1>1. /\ pc[c] = "record" /\ Still
        /\ JournalThen(c, "review_attempt", Entry(c), "record", to, AfterRecord(c))
    BY DEF Record, EntryStatus, Entry, Over, Still, Merge, AfterRecord
  <1>2. to \in PcStates
    BY DEF PcStates
  <1>3. AfterRecord(c) \in Job
    BY <1>1, EntryTyped
  <1> HIDE DEF to
  <1>4. /\ Frame(c) /\ Scalars
        /\ \/ Records(c, "review_attempt", Entry(c)) /\ Moves(c, to, AfterRecord(c))
           \/ Leaves(c) /\ (journal' = journal \/ Records(c, "review_attempt", Entry(c)))
    BY <1>1, <1>2, <1>3, JournalEffect
  <1> QED BY <1>1, <1>4 DEF RecordDoes, to

ObserveDoes(c) ==
    /\ pc[c] = "observe" /\ Still
    /\ \/ job[c].todo = {} /\ journal' = journal /\ Moves(c, "head", job[c])
       \/ \E f \in job[c].todo :
              \/ /\ Records(c, "finding_observed", f)
                 /\ Moves(c, "observe", [job[c] EXCEPT !.todo = @ \ {f}])
              \/ Leaves(c) /\ (journal' = journal \/ Records(c, "finding_observed", f))

LEMMA ObserveEffect ==
    ASSUME TypeInv, NEW c \in Clients, Observe(c)
    PROVE  Frame(c) /\ Scalars /\ ObserveDoes(c)
  <1>0. job[c] \in Job /\ "head" \in PcStates /\ "observe" \in PcStates
    BY DEF TypeInv, TypeOK, PcStates
  <1>1. pc[c] = "observe" /\ Still
    BY DEF Observe, Still
  <1>2. CASE /\ job[c].todo = {}
             /\ Goto(c, "observe", "head")
             /\ Quiet /\ NoFault
             /\ UNCHANGED <<job, result>>
    <2>1. /\ Frame(c) /\ Moves(c, "head", job[c])
          /\ pc' \in [Clients -> PcStates] /\ job' \in [Clients -> Job]
      BY <1>0, <1>2, GoEffect
    <2> QED BY <1>1, <1>2, <2>1
            DEF ObserveDoes, Scalars, TypeInv, TypeOK, Quiet, NoFault, Goto
  <1>3. CASE \E f \in job[c].todo :
                 JournalThen(c, "finding_observed", f, "observe", "observe",
                             [job[c] EXCEPT !.todo = @ \ {f}])
    <2>1. PICK f \in job[c].todo :
              JournalThen(c, "finding_observed", f, "observe", "observe",
                          [job[c] EXCEPT !.todo = @ \ {f}])
      BY <1>3
    <2>2. [job[c] EXCEPT !.todo = @ \ {f}] \in Job
      BY <1>0 DEF Job
    <2>3. /\ Frame(c) /\ Scalars
          /\ \/ /\ Records(c, "finding_observed", f)
                /\ Moves(c, "observe", [job[c] EXCEPT !.todo = @ \ {f}])
             \/ Leaves(c) /\ (journal' = journal \/ Records(c, "finding_observed", f))
      BY <1>0, <2>1, <2>2, JournalEffect
    <2> QED BY <1>1, <2>3 DEF ObserveDoes
  <1> QED BY <1>2, <1>3 DEF Observe

ReadHeadDoes(c) ==
    /\ pc[c] = "head" /\ Still /\ journal' = journal
    /\ Leaves(c) \/ Moves(c, "receipt", [job[c] EXCEPT !.head = Len(journal)])

LEMMA ReadHeadEffect ==
    ASSUME TypeInv, NEW c \in Clients, ReadHead(c)
    PROVE  Frame(c) /\ Scalars /\ ReadHeadDoes(c)
  <1> USE DEF ReadHead, Quiet, NoFault, Still, Scalars, ReadHeadDoes
  <1>1. CASE ends = "torn"
    BY <1>1, ReturnEffect DEF Return, Goto, TypeInv, TypeOK
  <1>2. CASE ends # "torn"
    <2>1. job[c] \in Job /\ Len(journal) \in Nat
      BY DEF TypeInv, TypeOK
    <2>2. [job[c] EXCEPT !.head = Len(journal)] \in Job /\ "receipt" \in PcStates
      BY <2>1 DEF Job, PcStates
    <2>3. /\ With(c, [job[c] EXCEPT !.head = Len(journal)])
          /\ Goto(c, "head", "receipt") /\ result' = result
      BY <1>2
    <2> QED BY <2>2, <2>3, GoEffect DEF Goto, TypeInv, TypeOK
  <1> QED BY <1>1, <1>2

WriteReceiptDoes(c) ==
    /\ pc[c] = "receipt" /\ journal' = journal
    /\ \/ /\ Mine(c).receipt = Absent
          /\ \/ /\ Replaces(c, WithReceipt(Mine(c), Holding(Receipt(c))))
                /\ Moves(c, IF job[c].attempts = << >> THEN "return" ELSE "finish", job[c])
             \/ Replaces(c, WithReceipt(Mine(c), Half)) /\ Leaves(c)
       \/ Still /\ Leaves(c)

LEMMA WriteReceiptEffect ==
    ASSUME TypeInv, NEW c \in Clients, WriteReceipt(c)
    PROVE  Frame(c) /\ Scalars /\ WriteReceiptDoes(c)
  <1> DEFINE to == IF job[c].attempts = << >> THEN "return" ELSE "finish"
  <1>1. to \in PcStates
    BY DEF PcStates
  <1>2. /\ WriteThen(c, Mine(c).receipt, WithReceipt(Mine(c), Holding(Receipt(c))),
                     WithReceipt(Mine(c), Half), "receipt", to)
        /\ Quiet
    BY DEF WriteReceipt
  <1> HIDE DEF to
  <1>3. /\ pc[c] = "receipt" /\ Frame(c) /\ Scalars /\ journal' = journal
        /\ \/ /\ Mine(c).receipt = Absent
              /\ Replaces(c, WithReceipt(Mine(c), Holding(Receipt(c)))) /\ Moves(c, to, job[c])
           \/ Leaves(c) /\ disk' = disk
           \/ /\ Mine(c).receipt = Absent
              /\ Leaves(c) /\ Replaces(c, WithReceipt(Mine(c), Half))
    BY <1>1, <1>2, WriteEffect
  <1> QED BY <1>3 DEF WriteReceiptDoes, Still, to

FinishDoes(c) ==
    /\ pc[c] = "finish" /\ Still
    /\ \/ Records(c, "review_finished", job[c].status) /\ Moves(c, "return", job[c])
       \/ Leaves(c) /\ (journal' = journal \/ Records(c, "review_finished", job[c].status))

LEMMA FinishEffect ==
    ASSUME TypeInv, NEW c \in Clients, Finish(c)
    PROVE  Frame(c) /\ Scalars /\ FinishDoes(c)
  <1>1. job[c] \in Job /\ "return" \in PcStates
    BY DEF TypeInv, TypeOK, PcStates
  <1> QED BY <1>1, JournalEffect DEF Finish, FinishDoes, Still

ConcludeDoes(c) == pc[c] = "return" /\ Still /\ journal' = journal /\ Leaves(c)

LEMMA ConcludeEffect ==
    ASSUME TypeInv, NEW c \in Clients, Conclude(c)
    PROVE  Frame(c) /\ Scalars /\ ConcludeDoes(c)
  <1> DEFINE code == IF job[c].status = "accepted"
                        /\ ~(Verifies(Mine(c)) /\ Mine(c).receipt = Holding(Receipt(c)))
                     THEN "receipt_invalid" ELSE job[c].status
  <1>1. code \in Statuses \cup {"invalid_request", "raised", "killed", "receipt_invalid"}
    BY DEF TypeInv, TypeOK, Job
  <1>2. Return(c, "return", code) /\ Quiet /\ NoFault /\ UNCHANGED disk
    BY DEF Conclude
  <1> HIDE DEF code
  <1> QED BY <1>1, <1>2, ReturnEffect
          DEF ConcludeDoes, Scalars, Still, Quiet, NoFault, Return, Goto, TypeInv, TypeOK

\* A kill leaves everything as it is but for half a file, or how the journal ends.
CrashDoes(c) ==
    /\ pc[c] \notin {"idle", "done"} /\ journal' = journal /\ Leaves(c)
    /\ \/ Still
       \/ /\ pc[c] = "packet" /\ Mine(c).packet = Absent
          /\ Replaces(c, WithPacket(Mine(c), Half))
       \/ /\ pc[c] = "receipt" /\ Mine(c).receipt = Absent
          /\ Replaces(c, WithReceipt(Mine(c), Half))
       \/ /\ pc[c] = "respond" /\ Mine(c).responses[Number(c)] = Absent
          /\ Replaces(c, WithResponse(Mine(c), Number(c), Half))

LEMMA CrashEffect ==
    ASSUME TypeInv, NEW c \in Clients, Crash(c) \/ CrashInWrite(c) \/ CrashInAppend(c)
    PROVE  Frame(c) /\ Scalars /\ CrashDoes(c)
  <1>1. Killed(c) /\ ends' \in {"newline", "unterminated", "torn"}
    BY DEF Crash, CrashInWrite, CrashInAppend, TypeInv, TypeOK
  <1>2. /\ pc[c] \notin {"idle", "done"} /\ journal' = journal /\ faults' = faults
        /\ crashes' \in 0..MaxCrashes /\ Return(c, pc[c], "killed")
    BY <1>1, ReviewAssumption DEF Killed, TypeInv, TypeOK
  <1>3. /\ Frame(c) /\ Leaves(c)
        /\ pc' \in [Clients -> PcStates] /\ job' \in [Clients -> Job]
        /\ result' \in [Clients -> Statuses \cup {"invalid_request", "raised", "killed",
                                                  "receipt_invalid"}]
    BY <1>2, ReturnEffect
  <1>4. Scalars
    BY <1>1, <1>2, <1>3 DEF Scalars, TypeInv, TypeOK, Return, Goto
  <1>5. \/ Still
        \/ /\ pc[c] = "packet" /\ Mine(c).packet = Absent
           /\ Replaces(c, WithPacket(Mine(c), Half))
        \/ /\ pc[c] = "receipt" /\ Mine(c).receipt = Absent
           /\ Replaces(c, WithReceipt(Mine(c), Half))
        \/ /\ pc[c] = "respond" /\ Mine(c).responses[Number(c)] = Absent
           /\ Replaces(c, WithResponse(Mine(c), Number(c), Half))
    BY DEF Crash, CrashInWrite, CrashInAppend, Still, Replaces
  <1> QED BY <1>2, <1>3, <1>4, <1>5 DEF CrashDoes

\* Everything a process may do.
Does(c) ==
    \/ \E r \in ReviewIds : CheckIdDoes(c, r)
    \/ MakeDirectoryDoes(c) \/ WritePacketDoes(c) \/ StartDoes(c) \/ AttemptDoes(c)
    \/ WriteResponseDoes(c) \/ RecordDoes(c) \/ ObserveDoes(c) \/ ReadHeadDoes(c)
    \/ WriteReceiptDoes(c) \/ FinishDoes(c) \/ ConcludeDoes(c) \/ CrashDoes(c)

\* A step is one of these things, done by one process, or nothing.
LEMMA StepEffect ==
    ASSUME TypeInv, [Next]_vars
    PROVE  (\E c \in Clients : Frame(c) /\ Scalars /\ Does(c)) \/ UNCHANGED vars
  <1>1. workload.ids \subseteq ReviewIds
    BY ReviewAssumption DEF TypeInv, TypeOK, Workload
  <1>2. CASE UNCHANGED vars \/ Finished
    BY <1>2 DEF Finished
  <1>3. CASE \E c \in Clients :
                 \/ \E r \in workload.ids : CheckId(c, r)
                 \/ Step(c)
                 \/ Crash(c) \/ CrashInWrite(c) \/ CrashInAppend(c)
    <2>1. PICK c \in Clients :
                 \/ \E r \in workload.ids : CheckId(c, r)
                 \/ Step(c)
                 \/ Crash(c) \/ CrashInWrite(c) \/ CrashInAppend(c)
      BY <1>3
    <2>2. Frame(c) /\ Scalars /\ Does(c)
      BY <1>1, <2>1, CheckIdEffect, MakeDirectoryEffect, WritePacketEffect, StartEffect,
         AttemptEffect, WriteResponseEffect, RecordEffect, ObserveEffect, ReadHeadEffect,
         WriteReceiptEffect, FinishEffect, ConcludeEffect, CrashEffect, Zenon
         DEF Step, Does
    <2> QED BY <2>2
  <1> QED BY <1>2, <1>3 DEF Next

-----------------------------------------------------------------------------
(* Types are kept.                                                         *)

\* Only the process that took the step has to be looked at.
LEMMA TypedStep ==
    ASSUME TypeInv, NEW c \in Clients, Frame(c), Scalars, Placed(c)',
           journal' \in Seq(JournalEvent), disk' \in [ReviewIds -> Directory]
    PROVE  TypeInv'
  <1>1. TypeOK'
    <2>1. \A i \in 1..Len(journal') :
              /\ journal'[i].kind \in {"review_started", "review_attempt", "finding_observed",
                                       "review_finished"}
              /\ journal'[i].review \in ReviewIds
              /\ journal'[i].by \in Clients
      <3>1. \A i \in 1..Len(journal') : journal'[i] \in JournalEvent
        OBVIOUS
      <3> QED BY <3>1 DEF JournalEvent
    <2>2. \A S : \A f \in Files(S) : f.file \in {"absent", "half", "whole"}
      BY DEF Files, Absent, Half, Holding
    <2>3. \A r \in ReviewIds :
              /\ disk'[r].exists \in BOOLEAN
              /\ disk'[r].packet \in Files(Clients)
              /\ disk'[r].receipt \in Files(ReceiptRecord)
      BY DEF Directory
    <2>4. \A r \in ReviewIds : \A f \in {disk'[r].packet, disk'[r].receipt} :
              f.file \in {"absent", "half", "whole"}
      BY <2>2, <2>3, Zenon
    <2> QED BY <2>1, <2>3, <2>4 DEF TypeOK, Scalars
  <1>2. \A d \in Clients \ {c} : Placed(d)'
    BY DEF Frame, Placed, TypeInv, Blank
  <1> QED BY <1>1, <1>2 DEF TypeInv

LEMMA RecordsTyped ==
    ASSUME TypeInv, NEW c \in Clients, pc[c] \notin {"idle", "done"}, NEW what \in What,
           NEW kind \in {"review_started", "review_attempt", "finding_observed",
                         "review_finished"},
           kind = "review_attempt" => what \in AttemptRecord,
           journal' = journal \/ Records(c, kind, what)
    PROVE  journal' \in Seq(JournalEvent)
  <1>1. Event(c, kind, what) \in JournalEvent
    BY DEF Event, JournalEvent, TypeInv, Placed
  <1> QED BY <1>1 DEF Records, TypeInv

LEMMA ReplacesTyped ==
    ASSUME TypeInv, NEW c \in Clients, pc[c] \notin {"idle", "done"}, NEW D \in Directory,
           Replaces(c, D)
    PROVE  /\ disk' \in [ReviewIds -> Directory]
           /\ MineNext(c) = D
           /\ \A r \in ReviewIds \ {job[c].review} : disk'[r] = disk[r]
  BY DEF Replaces, TypeInv, Placed, MineNext

LEMMA MineTyped ==
    ASSUME TypeInv, NEW c \in Clients, pc[c] \notin {"idle", "done"}
    PROVE  /\ job[c].review \in ReviewIds /\ Mine(c) \in Directory
           /\ job[c] \in Job
           /\ Mine(c).packet \in Files(Clients)
           /\ Mine(c).receipt \in Files(ReceiptRecord)
           /\ Mine(c).responses \in [1..Attempts -> Files(Answer)]
  BY DEF TypeInv, TypeOK, Placed, Mine, Directory

LEMMA ReceiptTyped ==
    ASSUME NEW c \in Clients, job[c] \in Job
    PROVE  Receipt(c) \in ReceiptRecord
  <1>1. Len(job[c].attempts) \in Nat /\ job[c].outcome \in Outcome
    BY DEF Job, Outcome
  <1> QED BY <1>1 DEF Receipt, ReceiptRecord, Job, Fallback

\* A process that leaves is placed.
LEMMA LeavesPlaced ==
    ASSUME NEW c \in Clients, Leaves(c)
    PROVE  Placed(c)'
  BY DEF Leaves, Moves, Placed, Opening, Trying

\* What each thing a process may do makes of its place, the journal and the disk.
LEMMA OpeningTyped ==
    ASSUME TypeInv, NEW c \in Clients, Frame(c), Scalars,
           \/ \E r \in ReviewIds : CheckIdDoes(c, r)
           \/ MakeDirectoryDoes(c) \/ WritePacketDoes(c) \/ StartDoes(c)
    PROVE  TypeInv'
  <1>1. ASSUME NEW r \in ReviewIds, CheckIdDoes(c, r) PROVE TypeInv'
    <2>1. Placed(c)'
      <3>1. CASE Moves(c, "mkdir", [NoJob EXCEPT !.review = r])
        BY <3>1 DEF Moves, Placed, NoJob, Blank, Opening, Trying
      <3> QED BY <3>1, <1>1, LeavesPlaced DEF CheckIdDoes
    <2> QED BY <1>1, <2>1, TypedStep DEF CheckIdDoes, Still, TypeInv
  <1>2. CASE MakeDirectoryDoes(c)
    <2>0. pc[c] = "mkdir"
      BY <1>2 DEF MakeDirectoryDoes
    <2>1. Placed(c)'
      <3>1. CASE Moves(c, "packet", job[c])
        BY <2>0, <3>1, MineTyped DEF Moves, Placed, Opening, Trying, Blank, TypeInv
      <3>2. CASE Moves(c, "head", [job[c] EXCEPT !.status = "contract_failed"])
        <4>1. [job[c] EXCEPT !.status = "contract_failed"].review = job[c].review
          BY <2>0, MineTyped DEF Job
        <4> QED BY <2>0, <3>2, <4>1, MineTyped DEF Moves, Placed, Opening, Trying
      <3> QED BY <3>1, <3>2, <1>2, LeavesPlaced DEF MakeDirectoryDoes
    <2>2. [Mine(c) EXCEPT !.exists = TRUE] \in Directory
      BY <2>0, MineTyped DEF Directory
    <2>3. disk' \in [ReviewIds -> Directory]
      BY <1>2, <2>0, <2>2, ReplacesTyped DEF MakeDirectoryDoes
    <2> QED BY <1>2, <2>1, <2>3, TypedStep DEF MakeDirectoryDoes, TypeInv
  <1>3. CASE WritePacketDoes(c)
    <2>0. pc[c] = "packet"
      BY <1>3 DEF WritePacketDoes
    <2>1. Placed(c)'
      <3>1. CASE Moves(c, "start", job[c])
        BY <2>0, <3>1, MineTyped DEF Moves, Placed, Opening, Trying, Blank, TypeInv
      <3> QED BY <3>1, <1>3, LeavesPlaced DEF WritePacketDoes
    <2>2. /\ WithPacket(Mine(c), Holding(c)) \in Directory
          /\ WithPacket(Mine(c), Half) \in Directory
      BY <2>0, MineTyped, Fields DEF Files
    <2>3. disk' \in [ReviewIds -> Directory]
      BY <1>3, <2>0, <2>2, ReplacesTyped DEF WritePacketDoes, Still, TypeInv
    <2> QED BY <1>3, <2>1, <2>3, TypedStep DEF WritePacketDoes, TypeInv
  <1>4. CASE StartDoes(c)
    <2>0. pc[c] = "start"
      BY <1>4 DEF StartDoes
    <2>1. Placed(c)'
      <3>1. CASE Moves(c, "attempt", job[c])
        <4>1. job[c] = Blank(c) /\ workload \in Workload
          BY <2>0, ReviewAssumption DEF TypeInv, TypeOK, Placed, Opening
        <4>2. job[c].attempts = << >> /\ workload.attempts \in 1..Attempts
          BY <4>1 DEF Blank, NoJob, Workload
        <4>3. Len(job[c].attempts) < workload'.attempts
          BY <4>2, ReviewAssumption DEF Frame
        <4> QED BY <2>0, <3>1, <4>3, MineTyped DEF Moves, Placed, Opening, Trying
      <3> QED BY <3>1, <1>4, LeavesPlaced DEF StartDoes
    <2>2. journal' \in Seq(JournalEvent)
      BY <1>4, <2>0, RecordsTyped DEF StartDoes, What
    <2> QED BY <1>4, <2>1, <2>2, TypedStep DEF StartDoes, Still, TypeInv
  <1> QED BY <1>1, <1>2, <1>3, <1>4

LEMMA LoopTyped ==
    ASSUME TypeInv, NEW c \in Clients, Frame(c), Scalars,
           AttemptDoes(c) \/ WriteResponseDoes(c) \/ RecordDoes(c)
    PROVE  TypeInv'
  <1>1. CASE AttemptDoes(c)
    <2>0. pc[c] = "attempt"
      BY <1>1 DEF AttemptDoes
    <2>1. PICK answer \in Evaluation \cup [status : FailureCodes, findings : {{}}] :
              Moves(c, IF answer.status \in FailureCodes THEN "record" ELSE "respond",
                    [job[c] EXCEPT !.outcome = answer])
      BY <1>1 DEF AttemptDoes
    <2>2. /\ job'[c].outcome = answer /\ job'[c].review = job[c].review
          /\ job'[c].attempts = job[c].attempts
      BY <2>0, <2>1, MineTyped DEF Moves, Job
    <2>3. answer # NoEvaluation
      BY DEF NoEvaluation, Evaluation, FailureCodes
    <2>4. Placed(c)'
      BY <2>0, <2>1, <2>2, <2>3, MineTyped DEF Moves, Placed, Opening, Trying, Frame, TypeInv
    <2> QED BY <1>1, <2>4, TypedStep DEF AttemptDoes, Still, TypeInv
  <1>2. CASE WriteResponseDoes(c)
    <2> DEFINE k == Number(c)
    <2>0. pc[c] = "respond"
      BY <1>2 DEF WriteResponseDoes
    <2>1. Placed(c)'
      <3>1. CASE Moves(c, "record", job[c])
        BY <2>0, <3>1, MineTyped DEF Moves, Placed, Opening, Trying, Frame, TypeInv
      <3> QED BY <3>1, <1>2, LeavesPlaced DEF WriteResponseDoes
    <2>2. k \in 1..Attempts
      <3>1. /\ Len(job[c].attempts) < workload.attempts /\ workload.attempts \in 1..Attempts
            /\ Len(job[c].attempts) \in Nat
        BY <2>0, ReviewAssumption, MineTyped DEF TypeInv, TypeOK, Placed, Trying, Workload, Job
      <3> QED BY <3>1, ReviewAssumption DEF Number
    <2>3. job[c].outcome \in Outcome
      BY <2>0, MineTyped DEF Job, Outcome
    <2>4. <<c, k, job[c].outcome>> \in Answer
      BY <2>2, <2>3 DEF Answer
    <2> HIDE DEF k
    <2>5. /\ WithResponse(Mine(c), k, Holding(<<c, k, job[c].outcome>>)) \in Directory
          /\ WithResponse(Mine(c), k, Half) \in Directory
      BY <2>0, <2>2, <2>4, MineTyped, ResponseFields DEF Files
    <2>6. disk' \in [ReviewIds -> Directory]
      BY <1>2, <2>0, <2>5, ReplacesTyped DEF WriteResponseDoes, Still, TypeInv, k
    <2> QED BY <1>2, <2>1, <2>6, TypedStep DEF WriteResponseDoes, TypeInv
  <1>3. CASE RecordDoes(c)
    <2>0. pc[c] = "record"
      BY <1>3 DEF RecordDoes
    <2>1. Placed(c)'
      <3>1. CASE Moves(c, IF Over(c) THEN "observe" ELSE "attempt", AfterRecord(c))
        <4>1. /\ job'[c].review = job[c].review
              /\ job'[c].attempts = Append(job[c].attempts, Entry(c))
          BY <2>0, <3>1, MineTyped DEF Moves, Job, AfterRecord
        <4>2. Len(job'[c].attempts) = Number(c)
          BY <2>0, <4>1, MineTyped, EntryTyped DEF Job, Number
        <4>3. ~Over(c) => Len(job'[c].attempts) < workload'.attempts
          <5>1. workload.attempts \in Nat
            BY ReviewAssumption DEF TypeInv, TypeOK, Workload
          <5> QED BY <2>0, <4>2, <5>1, EntryTyped DEF Over, Frame
        <4> QED BY <2>0, <3>1, <4>1, <4>3, MineTyped DEF Moves, Placed, Opening, Trying
      <3> QED BY <3>1, <1>3, LeavesPlaced DEF RecordDoes
    <2>2. journal' \in Seq(JournalEvent)
      BY <1>3, <2>0, RecordsTyped, EntryTyped DEF RecordDoes
    <2> QED BY <1>3, <2>1, <2>2, TypedStep DEF RecordDoes, Still, TypeInv
  <1> QED BY <1>1, <1>2, <1>3

LEMMA ClosingTyped ==
    ASSUME TypeInv, NEW c \in Clients, Frame(c), Scalars,
           \/ ObserveDoes(c) \/ ReadHeadDoes(c) \/ WriteReceiptDoes(c) \/ FinishDoes(c)
           \/ ConcludeDoes(c) \/ CrashDoes(c)
    PROVE  TypeInv'
  <1> USE DEF Placed, Opening, Trying, Moves
  <1>1. CASE ObserveDoes(c)
    <2>0. pc[c] = "observe"
      BY <1>1 DEF ObserveDoes
    <2>1. Placed(c)'
      <3>1. CASE Moves(c, "head", job[c])
        BY <2>0, <3>1, MineTyped
      <3>2. CASE \E f \in job[c].todo : Moves(c, "observe", [job[c] EXCEPT !.todo = @ \ {f}])
        <4>1. job'[c].review = job[c].review
          BY <2>0, <3>2, MineTyped DEF Job
        <4> QED BY <2>0, <3>2, <4>1, MineTyped
      <3> QED BY <3>1, <3>2, <1>1, LeavesPlaced DEF ObserveDoes
    <2>2. journal' \in Seq(JournalEvent)
      <3>1. \A f \in job[c].todo : f \in What
        BY <2>0, MineTyped DEF Job, What
      <3> QED BY <1>1, <2>0, <3>1, RecordsTyped DEF ObserveDoes, TypeInv
    <2> QED BY <1>1, <2>1, <2>2, TypedStep DEF ObserveDoes, Still, TypeInv
  <1>2. CASE ReadHeadDoes(c)
    <2>0. pc[c] = "head"
      BY <1>2 DEF ReadHeadDoes
    <2>1. Placed(c)'
      <3>1. CASE Moves(c, "receipt", [job[c] EXCEPT !.head = Len(journal)])
        <4>1. job'[c].review = job[c].review
          BY <2>0, <3>1, MineTyped DEF Job
        <4> QED BY <2>0, <3>1, <4>1, MineTyped
      <3> QED BY <3>1, <1>2, LeavesPlaced DEF ReadHeadDoes
    <2> QED BY <1>2, <2>1, TypedStep DEF ReadHeadDoes, Still, TypeInv
  <1>3. CASE WriteReceiptDoes(c)
    <2>0. pc[c] = "receipt"
      BY <1>3 DEF WriteReceiptDoes
    <2>1. Placed(c)'
      <3>1. CASE Moves(c, IF job[c].attempts = << >> THEN "return" ELSE "finish", job[c])
        BY <2>0, <3>1, MineTyped
      <3> QED BY <3>1, <1>3, LeavesPlaced DEF WriteReceiptDoes
    <2>2. Holding(Receipt(c)) \in Files(ReceiptRecord) /\ Half \in Files(ReceiptRecord)
      BY <2>0, MineTyped, ReceiptTyped DEF Files
    <2>3. /\ WithReceipt(Mine(c), Holding(Receipt(c))) \in Directory
          /\ WithReceipt(Mine(c), Half) \in Directory
      BY <2>0, <2>2, MineTyped, Fields
    <2>4. disk' \in [ReviewIds -> Directory]
      BY <1>3, <2>0, <2>3, ReplacesTyped DEF WriteReceiptDoes, Still, TypeInv
    <2> QED BY <1>3, <2>1, <2>4, TypedStep DEF WriteReceiptDoes, TypeInv
  <1>4. CASE FinishDoes(c)
    <2>0. pc[c] = "finish"
      BY <1>4 DEF FinishDoes
    <2>1. Placed(c)'
      <3>1. CASE Moves(c, "return", job[c])
        BY <2>0, <3>1, MineTyped
      <3> QED BY <3>1, <1>4, LeavesPlaced DEF FinishDoes
    <2>2. journal' \in Seq(JournalEvent)
      <3>1. job[c].status \in What
        BY <2>0, MineTyped DEF Job, What
      <3> QED BY <1>4, <2>0, <3>1, RecordsTyped DEF FinishDoes
    <2> QED BY <1>4, <2>1, <2>2, TypedStep DEF FinishDoes, Still, TypeInv
  <1>5. CASE ConcludeDoes(c)
    BY <1>5, LeavesPlaced, TypedStep DEF ConcludeDoes, Still, TypeInv
  <1>6. CASE CrashDoes(c)
    <2>0. pc[c] \notin {"idle", "done"}
      BY <1>6 DEF CrashDoes
    <2>1. /\ WithPacket(Mine(c), Half) \in Directory
          /\ WithReceipt(Mine(c), Half) \in Directory
      BY <2>0, MineTyped, Fields DEF Files
    <2>2. pc[c] = "respond" => WithResponse(Mine(c), Number(c), Half) \in Directory
      <3>1. pc[c] = "respond" => Number(c) \in 1..Attempts
        <4>1. /\ workload.attempts \in 1..Attempts
              /\ Len(job[c].attempts) \in Nat
          BY SMTT(60), <2>0, ReviewAssumption, MineTyped DEF TypeInv, TypeOK, Workload, Job
        <4>2. pc[c] = "respond" => Len(job[c].attempts) < workload.attempts
          BY DEF TypeInv
        <4> QED BY <4>1, <4>2, ReviewAssumption DEF Number
      <3> QED BY <2>0, <3>1, MineTyped, ResponseFields DEF Files
    <2>3. disk' \in [ReviewIds -> Directory]
      BY <1>6, <2>0, <2>1, <2>2, ReplacesTyped DEF CrashDoes, Still, TypeInv
    <2> QED BY <1>6, <2>3, LeavesPlaced, TypedStep DEF CrashDoes, TypeInv
  <1> QED BY <1>1, <1>2, <1>3, <1>4, <1>5, <1>6

LEMMA TypeInit == Init => TypeInv
  <1> SUFFICES ASSUME Init PROVE TypeInv
    OBVIOUS
  <1>1. NoDirectory \in Directory
    BY DEF NoDirectory, Directory, Files
  <1>2. TypeOK
    <2>1. Len(journal) = 0 /\ 1..0 = {}
      BY DEF Init
    <2>2. \A r \in ReviewIds :
              /\ disk[r].exists \in BOOLEAN
              /\ \A f \in {disk[r].packet, disk[r].receipt} : f.file \in {"absent", "half", "whole"}
      <3>1. NoDirectory.exists = FALSE /\ NoDirectory.packet = Absent
            /\ NoDirectory.receipt = Absent
        BY DEF NoDirectory
      <3>2. Absent.file = "absent"
        BY DEF Absent
      <3> QED BY <3>1, <3>2 DEF Init
    <2>3. pc \in [Clients -> PcStates] /\ job \in [Clients -> Job]
      BY NoJobTyped DEF Init, PcStates
    <2>4. result \in [Clients -> Statuses \cup {"invalid_request", "raised", "killed",
                                               "receipt_invalid"}]
      BY DEF Init, Statuses
    <2>5. faults \in 0..MaxFaults /\ crashes \in 0..MaxCrashes
      BY ReviewAssumption DEF Init
    <2>6. workload \in Workloads /\ ends \in {"newline", "unterminated", "torn"}
      BY DEF Init
    <2> QED BY <2>1, <2>2, <2>3, <2>4, <2>5, <2>6 DEF TypeOK
  <1>3. journal \in Seq(JournalEvent) /\ disk \in [ReviewIds -> Directory]
    BY <1>1 DEF Init
  <1>4. \A c \in Clients : Placed(c)
    BY DEF Init, Placed, Opening, Trying
  <1> QED BY <1>2, <1>3, <1>4 DEF TypeInv

LEMMA TypeStep ==
    ASSUME TypeInv, NEW c \in Clients, Frame(c), Scalars, Does(c)
    PROVE  TypeInv'
  BY OpeningTyped, LoopTyped, ClosingTyped, Zenon DEF Does

LEMMA TypeStutter ==
    ASSUME TypeInv, UNCHANGED vars
    PROVE  TypeInv'
  BY DEF TypeInv, TypeOK, vars, Placed, Blank

\* Every variable has its type in every state (ReviewClient's TypeOK).
THEOREM TypeCorrect == Spec => []TypeOK
  <1>1. TypeInv /\ [Next]_vars => TypeInv'
    BY StepEffect, TypeStep, TypeStutter
  <1>2. TypeInv => TypeOK
    BY DEF TypeInv
  <1> QED BY TypeInit, <1>1, <1>2, PTL DEF Spec

-----------------------------------------------------------------------------
(* What others see of a step of c.                                         *)

\* Events that c may append where it is.
OwnEvent(c, kind, what) ==
    \/ pc[c] = "start" /\ kind = "review_started" /\ what = "none"
    \/ pc[c] = "record" /\ kind = "review_attempt" /\ what = Entry(c)
    \/ pc[c] = "observe" /\ kind = "finding_observed" /\ what \in job[c].todo
    \/ pc[c] = "finish" /\ kind = "review_finished" /\ what = job[c].status

JournalSeen(c) ==
    \/ journal' = journal
    \/ \E kind, what : OwnEvent(c, kind, what) /\ Records(c, kind, what)

PacketSeen(c) ==
    \/ MineNext(c).packet = Mine(c).packet
    \/ /\ pc[c] = "packet" /\ Mine(c).packet = Absent
       /\ \/ MineNext(c).packet = Half /\ Leaves(c)
          \/ MineNext(c).packet = Holding(c) /\ Moves(c, "start", job[c])

ResponsesSeen(c) ==
    \A k \in 1..Attempts :
        \/ MineNext(c).responses[k] = Mine(c).responses[k]
        \/ /\ pc[c] = "respond" /\ k = Number(c) /\ Mine(c).responses[k] = Absent
           /\ \/ MineNext(c).responses[k] = Half /\ Leaves(c)
              \/ /\ MineNext(c).responses[k] = Holding(<<c, k, job[c].outcome>>)
                 /\ Moves(c, "record", job[c])

ReceiptSeen(c) ==
    \/ MineNext(c).receipt = Mine(c).receipt
    \/ /\ pc[c] = "receipt" /\ Mine(c).receipt = Absent
       /\ \/ MineNext(c).receipt = Half /\ Leaves(c)
          \/ /\ MineNext(c).receipt = Holding(Receipt(c))
             /\ Moves(c, IF job[c].attempts = << >> THEN "return" ELSE "finish", job[c])

\* The events it appends, and its files, which only come into being.
Seen(c) ==
    /\ Frame(c) /\ JournalSeen(c)
    /\ \/ pc[c] \in {"idle", "done"} /\ Still
       \/ /\ pc[c] \notin {"idle", "done"}
          /\ \A r \in ReviewIds \ {job[c].review} : disk'[r] = disk[r]
          /\ PacketSeen(c) /\ ResponsesSeen(c) /\ ReceiptSeen(c)

\* A step that leaves the disk alone.
LEMMA StillSeen ==
    ASSUME TypeInv, NEW c \in Clients, pc[c] \notin {"idle", "done"}, Frame(c), Still,
           JournalSeen(c)
    PROVE  Seen(c)
  BY DEF Seen, Still, PacketSeen, ResponsesSeen, ReceiptSeen, MineNext, Mine

LEMMA StepSeen ==
    ASSUME TypeInv, NEW c \in Clients, Frame(c), Scalars, Does(c)
    PROVE  Seen(c)
  <1>1. CASE \E r \in ReviewIds : CheckIdDoes(c, r)
    BY <1>1 DEF CheckIdDoes, Seen, JournalSeen
  <1>2. CASE MakeDirectoryDoes(c)
    <2>0. pc[c] = "mkdir" /\ Mine(c) \in Directory
      BY <1>2, MineTyped DEF MakeDirectoryDoes
    <2> DEFINE D == [Mine(c) EXCEPT !.exists = TRUE]
    <2>1. /\ D \in Directory /\ D.packet = Mine(c).packet /\ D.receipt = Mine(c).receipt
          /\ D.responses = Mine(c).responses
      BY <2>0 DEF Directory
    <2>2. Replaces(c, D) /\ journal' = journal
      BY <1>2 DEF MakeDirectoryDoes
    <2> HIDE DEF D
    <2>3. MineNext(c) = D /\ \A r \in ReviewIds \ {job[c].review} : disk'[r] = disk[r]
      BY <2>0, <2>1, <2>2, ReplacesTyped
    <2> QED BY <2>0, <2>1, <2>2, <2>3
            DEF Seen, JournalSeen, PacketSeen, ResponsesSeen, ReceiptSeen
  <1>3. ASSUME NEW f, pc[c] = "packet", Mine(c).packet = Absent, f \in {Half, Holding(c)},
               f = Half => Leaves(c), f = Holding(c) => Moves(c, "start", job[c]),
               Replaces(c, WithPacket(Mine(c), f)), journal' = journal
        PROVE  Seen(c)
    <2>0. Mine(c) \in Directory /\ f \in Files(Clients)
      BY <1>3, MineTyped DEF Files
    <2>1. /\ WithPacket(Mine(c), f) \in Directory
          /\ WithPacket(Mine(c), f).packet = f
          /\ WithPacket(Mine(c), f).receipt = Mine(c).receipt
          /\ WithPacket(Mine(c), f).responses = Mine(c).responses
      BY <2>0, Fields
    <2>2. /\ MineNext(c) = WithPacket(Mine(c), f)
          /\ \A r \in ReviewIds \ {job[c].review} : disk'[r] = disk[r]
      BY <1>3, <2>1, ReplacesTyped
    <2> QED BY <1>3, <2>1, <2>2
            DEF Seen, JournalSeen, PacketSeen, ResponsesSeen, ReceiptSeen
  <1>4. ASSUME NEW f, pc[c] = "receipt", Mine(c).receipt = Absent, f \in {Half, Holding(Receipt(c))},
               f = Half => Leaves(c),
               f = Holding(Receipt(c)) =>
                   Moves(c, IF job[c].attempts = << >> THEN "return" ELSE "finish", job[c]),
               Replaces(c, WithReceipt(Mine(c), f)), journal' = journal
        PROVE  Seen(c)
    <2>0. Mine(c) \in Directory /\ f \in Files(ReceiptRecord)
      BY <1>4, MineTyped, ReceiptTyped DEF Files
    <2>1. /\ WithReceipt(Mine(c), f) \in Directory
          /\ WithReceipt(Mine(c), f).receipt = f
          /\ WithReceipt(Mine(c), f).packet = Mine(c).packet
          /\ WithReceipt(Mine(c), f).responses = Mine(c).responses
      BY <2>0, Fields
    <2>2. /\ MineNext(c) = WithReceipt(Mine(c), f)
          /\ \A r \in ReviewIds \ {job[c].review} : disk'[r] = disk[r]
      BY <1>4, <2>1, ReplacesTyped
    <2> QED BY <1>4, <2>1, <2>2
            DEF Seen, JournalSeen, PacketSeen, ResponsesSeen, ReceiptSeen
  <1>5. ASSUME NEW f, pc[c] = "respond", Mine(c).responses[Number(c)] = Absent,
               f \in {Half, Holding(<<c, Number(c), job[c].outcome>>)},
               f = Half => Leaves(c),
               f = Holding(<<c, Number(c), job[c].outcome>>) => Moves(c, "record", job[c]),
               Replaces(c, WithResponse(Mine(c), Number(c), f)), journal' = journal
        PROVE  Seen(c)
    <2>0. Number(c) \in 1..Attempts
      <3>1. /\ workload.attempts \in 1..Attempts
            /\ Len(job[c].attempts) \in Nat
        BY SMTT(60), <1>5, ReviewAssumption, MineTyped DEF TypeInv, TypeOK, Workload, Job
      <3>2. Len(job[c].attempts) < workload.attempts
        BY <1>5 DEF TypeInv, Placed, Trying
      <3> QED BY <3>1, <3>2, ReviewAssumption DEF Number
    <2>1. <<c, Number(c), job[c].outcome>> \in Answer
      BY <1>5, <2>0, MineTyped DEF Answer, Job, Outcome
    <2>2. Mine(c) \in Directory /\ f \in Files(Answer)
      BY <1>5, <2>1, MineTyped DEF Files
    <2> DEFINE D == WithResponse(Mine(c), Number(c), f)
    <2>3. /\ D \in Directory /\ D.packet = Mine(c).packet /\ D.receipt = Mine(c).receipt
          /\ D.responses[Number(c)] = f
          /\ \A i \in 1..Attempts \ {Number(c)} : D.responses[i] = Mine(c).responses[i]
      BY <2>0, <2>2, ResponseFields
    <2>4. Replaces(c, D)
      BY <1>5
    <2> HIDE DEF D
    <2>5. MineNext(c) = D /\ \A r \in ReviewIds \ {job[c].review} : disk'[r] = disk[r]
      BY <1>5, <2>3, <2>4, ReplacesTyped
    <2>6. ResponsesSeen(c)
      BY <1>5, <2>0, <2>3, <2>5 DEF ResponsesSeen
    <2> QED BY <1>5, <2>3, <2>5, <2>6
            DEF Seen, JournalSeen, PacketSeen, ReceiptSeen
  <1>6. CASE WritePacketDoes(c)
    <2>1. Half # Holding(c)
      BY ThreeStates
    <2> QED BY <1>3, <1>6, <2>1, StillSeen DEF WritePacketDoes, JournalSeen
  <1>7. CASE WriteReceiptDoes(c)
    <2>1. Half # Holding(Receipt(c))
      BY ThreeStates
    <2> QED BY <1>4, <1>7, <2>1, StillSeen DEF WriteReceiptDoes, JournalSeen
  <1>8. CASE WriteResponseDoes(c)
    <2>1. Half # Holding(<<c, Number(c), job[c].outcome>>)
      BY ThreeStates
    <2> QED BY <1>5, <1>8, <2>1, StillSeen DEF WriteResponseDoes, JournalSeen
  <1>9. CASE CrashDoes(c)
    <2>1. /\ Half # Holding(<<c, Number(c), job[c].outcome>>)
          /\ Half # Holding(Receipt(c)) /\ Half # Holding(c)
      BY ThreeStates
    <2> QED BY <1>3, <1>4, <1>5, <1>9, <2>1, StillSeen DEF CrashDoes, JournalSeen
  <1>10. CASE StartDoes(c) \/ RecordDoes(c) \/ ObserveDoes(c) \/ FinishDoes(c)
    <2>1. pc[c] \notin {"idle", "done"} /\ Still /\ JournalSeen(c)
      BY <1>10, Zenon DEF StartDoes, RecordDoes, ObserveDoes, FinishDoes, JournalSeen, OwnEvent
    <2> QED BY <2>1, StillSeen
  <1>11. CASE AttemptDoes(c) \/ ReadHeadDoes(c) \/ ConcludeDoes(c)
    BY <1>11, StillSeen DEF AttemptDoes, ReadHeadDoes, ConcludeDoes, JournalSeen
  <1> QED BY <1>1, <1>2, <1>6, <1>7, <1>8, <1>9, <1>10, <1>11 DEF Does

\* No process ever changes an artifact that is there (ReviewClient's ArtifactsAreFinal).
THEOREM FinalArtifacts == Spec => ArtifactsAreFinal
  <1> DEFINE Final ==
          \A r \in ReviewIds :
           /\ Whole(disk[r].packet) => disk'[r].packet = disk[r].packet
           /\ Whole(disk[r].receipt) => disk'[r].receipt = disk[r].receipt
           /\ \A k \in 1..Attempts :
                  Whole(disk[r].responses[k]) => disk'[r].responses[k] = disk[r].responses[k]
  <1>1. TypeInv /\ [Next]_vars => TypeInv'
    BY StepEffect, TypeStep, TypeStutter
  <1>2. ASSUME TypeInv, [Next]_vars PROVE Final
    <2>1. CASE UNCHANGED vars
      BY <2>1 DEF vars
    <2>2. ASSUME NEW c \in Clients, Seen(c) PROVE Final
      <3>1. ~Whole(Absent)
        BY ThreeStates
      <3>2. CASE pc[c] \in {"idle", "done"}
        BY <2>2, <3>2 DEF Seen, Still
      <3>3. CASE pc[c] \notin {"idle", "done"}
        <4>1. \A r \in ReviewIds \ {job[c].review} : disk'[r] = disk[r]
          BY <2>2, <3>3 DEF Seen
        <4>2. /\ Whole(Mine(c).packet) => MineNext(c).packet = Mine(c).packet
              /\ Whole(Mine(c).receipt) => MineNext(c).receipt = Mine(c).receipt
          BY <2>2, <3>1, <3>3 DEF Seen, PacketSeen, ReceiptSeen
        <4>3. \A k \in 1..Attempts : Whole(Mine(c).responses[k]) =>
                  MineNext(c).responses[k] = Mine(c).responses[k]
          BY <2>2, <3>1, <3>3 DEF Seen, ResponsesSeen
        <4> QED BY <4>1, <4>2, <4>3 DEF MineNext, Mine
      <3> QED BY <3>2, <3>3
    <2> QED BY <1>2, <2>1, <2>2, StepEffect, StepSeen
  <1>3. TypeInv /\ [Next]_vars => [Final]_vars
    BY <1>2
  <1> HIDE DEF Final
  <1>4. Spec => [][Final]_vars
    BY TypeInit, <1>1, <1>3, PTL DEF Spec
  <1> QED BY <1>4 DEF ArtifactsAreFinal, Final

-----------------------------------------------------------------------------
(* Ownership.                                                              *)

\* The journal only grows.
Longer ==
    /\ Len(journal') \in Nat /\ Len(journal) \in Nat /\ Len(journal) <= Len(journal')
    /\ \A i \in 1..Len(journal) : i \in 1..Len(journal') /\ journal'[i] = journal[i]

LEMMA GrowsOnly ==
    ASSUME TypeInv, NEW c \in Clients, JournalSeen(c)
    PROVE  Longer
  <1>1. journal \in Seq(JournalEvent)
    BY DEF TypeInv
  <1>2. CASE journal' = journal
    BY <1>1, <1>2 DEF Longer
  <1>3. ASSUME NEW e, journal' = Append(journal, e)
        PROVE  Longer
    BY <1>1, <1>3 DEF Longer
  <1> QED BY <1>2, <1>3 DEF JournalSeen, Records

\* The last event is the only new one.
LEMMA NewEvent ==
    ASSUME TypeInv, NEW e, journal' = Append(journal, e)
    PROVE  /\ Len(journal') = Len(journal) + 1 /\ Len(journal) \in Nat
           /\ journal'[Len(journal) + 1] = e
           /\ \A i \in 1..Len(journal) : journal'[i] = journal[i]
           /\ \A i \in 1..Len(journal') : i \in 1..Len(journal) \/ i = Len(journal) + 1
  BY DEF TypeInv

\* Only an owner appends events, and they are its own.
LEMMA OwnersAppend ==
    ASSUME TypeInv, Unprepared, NEW c \in Clients, NEW kind, NEW what, OwnEvent(c, kind, what)
    PROVE  /\ Owning(c) /\ pc[c] \notin {"idle", "done"} /\ job[c].review \in ReviewIds
           /\ pc[c] # "packet" /\ pc[c] # "receipt" /\ pc[c] # "respond"
           /\ Event(c, kind, what).review = job[c].review
           /\ Event(c, kind, what).by = c
           /\ Event(c, kind, what).kind = kind
           /\ Event(c, kind, what).what = what
  BY DEF OwnEvent, Owning, Trying, Unprepared, TypeInv, Placed, Event

\* An owner has written its packet and has its review.
LEMMA OwnersAre ==
    ASSUME TypeInv, NEW c \in Clients, Owning(c)
    PROVE  pc[c] \notin {"idle", "done", "mkdir", "packet"} /\ job[c].review \in ReviewIds
  <1>1. NoJob.attempts = << >> /\ Blank(c).attempts = << >>
    BY DEF NoJob, Blank
  <1>2. /\ pc[c] \in {"idle", "done"} => job[c] = NoJob
        /\ pc[c] \notin {"idle", "done"} => job[c].review \in ReviewIds
        /\ pc[c] \in {"mkdir", "packet", "start"} => job[c] = Blank(c)
    BY DEF TypeInv, Placed, Opening
  <1> QED BY <1>1, <1>2 DEF Owning, Trying

\* What a step of another process does to the evidence of the owner c.
Around(c) ==
    /\ pc'[c] = pc[c] /\ job'[c] = job[c]
    /\ MineNext(c).packet = Mine(c).packet
    /\ MineNext(c).responses = Mine(c).responses
    /\ \/ MineNext(c).receipt = Mine(c).receipt
       \/ /\ Mine(c).receipt = Absent
          /\ Whole(MineNext(c).receipt) => MineNext(c).receipt.contents.attempts = << >>
    /\ \/ journal' = journal
       \/ \E e : journal' = Append(journal, e) /\ e.review # job[c].review

LEMMA SameFunction ==
    ASSUME NEW S, NEW T, NEW f \in [S -> T], NEW g \in [S -> T], \A x \in S : f[x] = g[x]
    PROVE  f = g
  OBVIOUS

LEMMA Interference ==
    ASSUME TypeInv, TypeInv', Owned, Unprepared,
           NEW d \in Clients, NEW c \in Clients \ {d}, Owning(c), Seen(d)
    PROVE  Around(c)
  <1>0. /\ pc'[c] = pc[c] /\ job'[c] = job[c] /\ workload' = workload
        /\ pc[c] \notin {"idle", "done"} /\ job[c].review \in ReviewIds
    BY OwnersAre DEF Seen, Frame
  <1>1. CASE pc[d] \in {"idle", "done"}
    <2>1. disk' = disk /\ journal' = journal
      BY <1>1 DEF Seen, Still, JournalSeen, OwnEvent
    <2> QED BY <1>0, <2>1 DEF Around, Mine, MineNext
  <1>2. CASE pc[d] \notin {"idle", "done"} /\ job[d].review # job[c].review
    <2>1. disk'[job[c].review] = disk[job[c].review]
      BY <1>0, <1>2 DEF Seen
    <2>2. journal' = journal \/ \E e : journal' = Append(journal, e) /\ e.review # job[c].review
      <3>1. CASE journal' = journal
        BY <3>1
      <3>2. ASSUME NEW kind, NEW what, Records(d, kind, what)
            PROVE  \E e : journal' = Append(journal, e) /\ e.review # job[c].review
        <4>1. Event(d, kind, what).review # job[c].review
          BY <1>2 DEF Event
        <4> QED BY <3>2, <4>1 DEF Records
      <3>3. JournalSeen(d)
        BY DEF Seen
      <3> QED BY <3>1, <3>2, <3>3 DEF JournalSeen
    <2> QED BY <1>0, <2>1, <2>2 DEF Around, Mine, MineNext
  <1>3. CASE pc[d] \notin {"idle", "done"} /\ job[d].review = job[c].review
    <2>1. Mine(c).packet = Holding(c) /\ Mine(d) = Mine(c) /\ MineNext(d) = MineNext(c)
      BY <1>3 DEF Owned, Mine, MineNext
    <2>2. ~Owning(d)
      BY <2>1, SameContents DEF Owned
    <2>3. journal' = journal
      BY <2>2, OwnersAppend DEF Seen, JournalSeen
    <2>4. PacketSeen(d) /\ ResponsesSeen(d) /\ ReceiptSeen(d)
      BY <1>3 DEF Seen
    <2>5. MineNext(d).packet = Mine(d).packet
      BY <2>1, <2>4, ThreeStates DEF PacketSeen
    <2>6. \A k \in 1..Attempts : MineNext(d).responses[k] = Mine(d).responses[k]
      BY <2>2, <2>4 DEF ResponsesSeen, Owning, Trying
    <2>7. MineNext(d).responses = Mine(d).responses
      <3>1. /\ Mine(d).responses \in [1..Attempts -> Files(Answer)]
            /\ MineNext(d).responses \in [1..Attempts -> Files(Answer)]
        BY <1>0, <1>3 DEF TypeInv, Directory, Mine, MineNext
      <3>2. PICK S, T : S = 1..Attempts /\ T = Files(Answer)
        OBVIOUS
      <3>3. /\ Mine(d).responses \in [S -> T] /\ MineNext(d).responses \in [S -> T]
            /\ \A k \in S : Mine(d).responses[k] = MineNext(d).responses[k]
        BY <2>6, <3>1, <3>2
      <3> QED BY <3>3, SameFunction
    <2>8. \/ MineNext(d).receipt = Mine(d).receipt
          \/ /\ Mine(d).receipt = Absent
             /\ Whole(MineNext(d).receipt) => MineNext(d).receipt.contents.attempts = << >>
      <3>1. Holding(Receipt(d)).contents = Receipt(d) /\ ~Whole(Half)
        BY ThreeStates
      <3>2. Receipt(d).attempts = << >>
        BY <2>2 DEF Receipt, Owning
      <3> QED BY <2>4, <3>1, <3>2 DEF ReceiptSeen
    <2> QED BY <1>0, <2>1, <2>3, <2>5, <2>7, <2>8 DEF Around
  <1> QED BY <1>1, <1>2, <1>3

\* How a process becomes an owner, and remains one.
LEMMA OwnersStep ==
    ASSUME TypeInv, NEW c \in Clients, Does(c), Owning(c)'
    PROVE  /\ job'[c].review = job[c].review
           /\ \/ Owning(c)
              \/ /\ pc[c] = "packet" /\ WritePacketDoes(c)
                 /\ Moves(c, "start", job[c])
                 /\ Replaces(c, WithPacket(Mine(c), Holding(c)))
  <1> USE DEF Owning, Trying, Moves
  <1>0. ~Leaves(c)
    BY DEF Leaves, NoJob
  <1>1. CASE \E r \in ReviewIds : CheckIdDoes(c, r)
    BY <1>0, <1>1 DEF CheckIdDoes, NoJob
  <1>2. CASE MakeDirectoryDoes(c)
    <2>0. job[c] \in Job /\ job[c].attempts = << >>
      BY <1>2 DEF MakeDirectoryDoes, TypeInv, TypeOK, Placed, Opening, Blank, NoJob
    <2>1. [job[c] EXCEPT !.status = "contract_failed"].attempts = << >>
      BY <2>0 DEF Job
    <2> QED BY <1>0, <1>2, <2>0, <2>1 DEF MakeDirectoryDoes
  <1>3. CASE WritePacketDoes(c)
    BY <1>0, <1>3 DEF WritePacketDoes
  <1>4. CASE StartDoes(c) \/ AttemptDoes(c) \/ WriteResponseDoes(c) \/ RecordDoes(c)
    <2>1. Owning(c) /\ job[c] \in Job
      BY <1>4 DEF StartDoes, AttemptDoes, WriteResponseDoes, RecordDoes, TypeInv, TypeOK
    <2>2. AfterRecord(c).review = job[c].review
          /\ \A o : [job[c] EXCEPT !.outcome = o].review = job[c].review
      BY <2>1 DEF AfterRecord, Job
    <2> QED BY <1>0, <1>4, <2>1, <2>2 DEF StartDoes, AttemptDoes, WriteResponseDoes, RecordDoes
  <1>5. CASE ObserveDoes(c)
    <2>0. job[c] \in Job
      BY DEF TypeInv, TypeOK
    <2>1. \A t : /\ [job[c] EXCEPT !.todo = t].review = job[c].review
                 /\ [job[c] EXCEPT !.todo = t].attempts = job[c].attempts
      BY <2>0 DEF Job
    <2> QED BY <1>0, <1>5, <2>1 DEF ObserveDoes
  <1>6. CASE ReadHeadDoes(c)
    <2>0. job[c] \in Job
      BY DEF TypeInv, TypeOK
    <2>1. \A t : /\ [job[c] EXCEPT !.head = t].review = job[c].review
                 /\ [job[c] EXCEPT !.head = t].attempts = job[c].attempts
      BY <2>0 DEF Job
    <2> QED BY <1>0, <1>6, <2>1 DEF ReadHeadDoes
  <1>7. CASE WriteReceiptDoes(c) \/ FinishDoes(c)
    BY <1>0, <1>7 DEF WriteReceiptDoes, FinishDoes
  <1>8. CASE ConcludeDoes(c) \/ CrashDoes(c)
    BY <1>0, <1>8 DEF ConcludeDoes, CrashDoes
  <1> QED BY <1>1, <1>2, <1>3, <1>4, <1>5, <1>6, <1>7, <1>8 DEF Does

\* A whole packet stays.
LEMMA PacketsStay ==
    ASSUME TypeInv, NEW c \in Clients, Seen(c), NEW r \in ReviewIds, Whole(disk[r].packet)
    PROVE  disk'[r].packet = disk[r].packet
  <1>1. ~Whole(Absent)
    BY ThreeStates
  <1>2. CASE pc[c] \in {"idle", "done"}
    BY <1>2 DEF Seen, Still
  <1>3. CASE pc[c] \notin {"idle", "done"}
    BY <1>1, <1>3 DEF Seen, PacketSeen, MineNext, Mine
  <1> QED BY <1>2, <1>3

LEMMA OwnedStep ==
    ASSUME TypeInv, TypeInv', Owned, Unprepared, NEW c \in Clients, Seen(c), Does(c)
    PROVE  Owned'
  <1>1. ASSUME NEW d \in Clients, Owning(d)'
        PROVE  Mine(d)'.packet = Holding(d)
    <2>1. CASE d # c
      <3>1. pc'[d] = pc[d] /\ job'[d] = job[d]
        BY <2>1 DEF Seen, Frame
      <3>2. Owning(d)
        BY <1>1, <3>1 DEF Owning
      <3> QED BY <2>1, <3>1, <3>2, Interference DEF Around, Owned, Mine, MineNext
    <2>2. CASE d = c /\ Owning(c)
      <3>1. Whole(Mine(c).packet) /\ job[c].review \in ReviewIds /\ Mine(c).packet = Holding(c)
        BY <2>2, OwnersAre, ThreeStates DEF Owned
      <3> QED BY <1>1, <2>2, <3>1, PacketsStay, OwnersStep DEF Mine
    <2>3. CASE d = c /\ ~Owning(c)
      <3>1. /\ job'[c].review = job[c].review /\ pc[c] = "packet"
            /\ Replaces(c, WithPacket(Mine(c), Holding(c)))
        BY <1>1, <2>3, OwnersStep
      <3>2. /\ Mine(c) \in Directory /\ WithPacket(Mine(c), Holding(c)) \in Directory
            /\ WithPacket(Mine(c), Holding(c)).packet = Holding(c)
        BY <3>1, MineTyped, Fields DEF Files
      <3>3. MineNext(c).packet = Holding(c)
        BY <3>1, <3>2, ReplacesTyped
      <3> QED BY <2>3, <3>1, <3>3 DEF Mine, MineNext
    <2> QED BY <2>1, <2>2, <2>3
  <1>2. \A i \in 1..Len(journal) :
            /\ journal[i].review \in ReviewIds
            /\ disk'[journal[i].review].packet = Holding(journal[i].by)
    <2>1. \A i \in 1..Len(journal) : journal[i].review \in ReviewIds
      BY DEF TypeInv, TypeOK
    <2> QED BY <2>1, PacketsStay, ThreeStates DEF Owned
  <1>3. \A i \in 1..Len(journal') : disk'[journal'[i].review].packet = Holding(journal'[i].by)
    <2>1. CASE journal' = journal
      BY <1>2, <2>1
    <2>2. ASSUME NEW kind, NEW what, OwnEvent(c, kind, what), Records(c, kind, what)
          PROVE  \A i \in 1..Len(journal') :
                     disk'[journal'[i].review].packet = Holding(journal'[i].by)
      <3>1. /\ Owning(c) /\ job[c].review \in ReviewIds
            /\ Event(c, kind, what).review = job[c].review /\ Event(c, kind, what).by = c
        BY <2>2, OwnersAppend
      <3>2. disk'[job[c].review].packet = Holding(c)
        BY <3>1, PacketsStay, ThreeStates DEF Owned, Mine
      <3> QED BY <1>2, <2>2, <3>1, <3>2, NewEvent DEF Records
    <2> QED BY <2>1, <2>2 DEF Seen, JournalSeen
  <1> QED BY <1>1, <1>3 DEF Owned

-----------------------------------------------------------------------------
(* What an owner has recorded, while others take a step.                   *)

LEMMA ToldOn ==
    ASSUME Longer, NEW n \in 0..Len(journal), NEW m \in Nat, n <= m,
           NEW r, NEW kind, NEW what, Told(journal, n, r, kind, what)
    PROVE  Told(journal', m, r, kind, what)
  BY DEF Longer, Told

\* More is told of what was backed.
LEMMA BackedOn ==
    ASSUME Longer, NEW n \in 0..Len(journal), NEW m \in Nat, n <= m,
           NEW j, Backed(journal, j, n)
    PROVE  Backed(journal', j, m)
  BY ToldOn DEF Backed

LEMMA BackedSoFarOn ==
    ASSUME Longer, NEW j, BackedSoFar(journal, j)
    PROVE  BackedSoFar(journal', j)
  <1>1. Len(journal) \in 0..Len(journal) /\ Len(journal') \in Nat /\ Len(journal) <= Len(journal')
    BY DEF Longer
  <1> QED BY <1>1, ToldOn DEF BackedSoFar

\* An event of another review disturbs nothing.
LEMMA JournaledOn ==
    ASSUME TypeInv, NEW at, NEW j, Journaled(journal, at, j),
           journal' = journal \/ \E e : journal' = Append(journal, e) /\ e.review # j.review
    PROVE  Journaled(journal', at, j)
  <1>1. CASE journal' = journal
    BY <1>1
  <1>2. ASSUME NEW e, journal' = Append(journal, e), e.review # j.review
        PROVE  Journaled(journal', at, j)
    <2>1. /\ Len(journal') = Len(journal) + 1 /\ Len(journal) \in Nat
          /\ \A i \in 1..Len(journal) : journal'[i] = journal[i] /\ i \in 1..Len(journal')
          /\ \A i \in 1..Len(journal') :
                 journal'[i].review = j.review => i \in 1..Len(journal)
      BY <1>2, NewEvent
    <2>2. ASSUME NEW kinds, Under(journal, j.review, kinds)
          PROVE  Under(journal', j.review, kinds)
      <3>1. PICK i \in 1..Len(journal) :
                journal[i].review = j.review /\ journal[i].kind = "review_started"
        BY <2>2 DEF Under
      <3>2. \E k \in 1..Len(journal') :
                journal'[k].review = j.review /\ journal'[k].kind = "review_started"
        BY <2>1, <3>1
      <3>3. \A k \in 1..Len(journal') : journal'[k].review = j.review => journal'[k].kind \in kinds
        BY <2>1, <2>2 DEF Under
      <3> QED BY <3>2, <3>3 DEF Under
    <2>3. at = "start" => \A i \in 1..Len(journal') : journal'[i].review # j.review
      BY <2>1 DEF Journaled
    <2>4. at \in Trying =>
              \A i \in 1..Len(journal') :
                  journal'[i].review = j.review /\ journal'[i].kind = "review_attempt" =>
                      journal'[i].what.attempt <= Len(j.attempts)
      BY <2>1 DEF Journaled
    <2> QED BY <2>2, <2>3, <2>4 DEF Journaled
  <1> QED BY <1>1, <1>2

\* Nor does a directory whose responses stay and where only a receipt comes that has no
\* attempts.
LEMMA KeptOn ==
    ASSUME Longer, NEW at, NEW j, NEW D, NEW E, NEW c, Kept(journal, at, j, D, c),
           E.responses = D.responses,
           \/ E.receipt = D.receipt
           \/ /\ D.receipt = Absent
              /\ Whole(E.receipt) => E.receipt.contents.attempts = << >>
    PROVE  Kept(journal', at, j, E, c)
  <1>1. at \in Trying => Tried(at, j, E, c) /\ BackedSoFar(journal', j)
    BY BackedSoFarOn DEF Kept, Tried
  <1>2. Ended(journal, at, j, D, c) => Ended(journal', at, j, E, c)
    <2>1. /\ Len(journal) \in 0..Len(journal) /\ Len(journal') \in Nat
          /\ Len(journal) <= Len(journal')
          /\ \A h \in 0..Len(journal) : h \in 0..Len(journal') /\ h \in Nat /\ h <= h
      BY DEF Longer
    <2> QED BY <2>1, BackedOn DEF Ended
  <1>3. at = "finish" => E.receipt = Holding(ReceiptOf(c, j))
    BY ThreeStates DEF Kept
  <1>4. at \notin {"finish", "return"} /\ Whole(E.receipt) => E.receipt.contents.attempts = << >>
    BY DEF Kept
  <1> QED BY <1>1, <1>2, <1>3, <1>4 DEF Kept

LEMMA RecordedAround ==
    ASSUME TypeInv, Recorded, Longer, NEW c \in Clients, Owning(c), Around(c)
    PROVE  /\ Journaled(journal', pc'[c], job'[c])
           /\ Kept(journal', pc'[c], job'[c], Mine(c)', c)
  <1>1. /\ Journaled(journal, pc[c], job[c])
        /\ Kept(journal, pc[c], job[c], Mine(c), c)
    BY DEF Recorded
  <1>2. /\ pc'[c] = pc[c] /\ job'[c] = job[c] /\ Mine(c)' = MineNext(c)
    BY DEF Around, Mine, MineNext
  <1>3. Journaled(journal', pc[c], job[c])
    BY <1>1, JournaledOn DEF Around
  <1>4. Kept(journal', pc[c], job[c], MineNext(c), c)
    BY <1>1, KeptOn DEF Around
  <1> QED BY <1>2, <1>3, <1>4

-----------------------------------------------------------------------------
(* And while it takes one itself.                                          *)

LEMMA FindingsGrow ==
    ASSUME NEW R, NEW n \in Nat
    PROVE  /\ FindingsIn(R, 0) = {}
           /\ Whole(R[n + 1]) =>
                  FindingsIn(R, n + 1) = FindingsIn(R, n) \cup R[n + 1].contents[3].findings
           /\ ~Whole(R[n + 1]) => FindingsIn(R, n + 1) = FindingsIn(R, n)
  <1>1. FindingsIn(R, 0) = {}
    BY DEF FindingsIn
  <1>2. \A i : i \in 1..(n + 1) <=> i \in 1..n \/ i = n + 1
    OBVIOUS
  <1>3. \A x : x \in FindingsIn(R, n) <=>
            \E i \in 1..n : Whole(R[i]) /\ x \in R[i].contents[3].findings
    BY DEF FindingsIn
  <1>4. \A x : x \in FindingsIn(R, n + 1) <=>
            \E i \in 1..(n + 1) : Whole(R[i]) /\ x \in R[i].contents[3].findings
    BY DEF FindingsIn
  <1>5. \A x : x \in FindingsIn(R, n + 1) <=>
            x \in FindingsIn(R, n) \/ (Whole(R[n + 1]) /\ x \in R[n + 1].contents[3].findings)
    BY <1>2, <1>3, <1>4
  <1> QED BY <1>1, <1>5

\* Responses beyond the n-th do not count.
LEMMA FindingsOf ==
    ASSUME NEW R, NEW S, NEW n \in Nat, \A i \in 1..n : R[i] = S[i]
    PROVE  FindingsIn(R, n) = FindingsIn(S, n)
  <1>1. \A x : x \in FindingsIn(R, n) <=>
            \E i \in 1..n : Whole(R[i]) /\ x \in R[i].contents[3].findings
    BY DEF FindingsIn
  <1>2. \A x : x \in FindingsIn(S, n) <=>
            \E i \in 1..n : Whole(S[i]) /\ x \in S[i].contents[3].findings
    BY DEF FindingsIn
  <1>3. \A x : x \in FindingsIn(R, n) <=> x \in FindingsIn(S, n)
    BY <1>1, <1>2
  <1> QED BY <1>3

\* A packet is written: nothing is known of the review before.
LEMMA PacketRecorded ==
    ASSUME IInv, TypeInv', NEW c \in Clients, Does(c), pc[c] = "packet", WritePacketDoes(c),
           Moves(c, "start", job[c]), Replaces(c, WithPacket(Mine(c), Holding(c)))
    PROVE  /\ Journaled(journal', pc'[c], job'[c])
           /\ Kept(journal', pc'[c], job'[c], Mine(c)', c)
  <1>1. TypeInv /\ Owned /\ AfterPacket
    BY DEF IInv
  <1>2. Mine(c).packet = Absent
    <2>1. ~Leaves(c) /\ Half # Holding(c)
      BY ThreeStates DEF Moves, Leaves
    <2> QED BY <2>1 DEF WritePacketDoes
  <1>3. ~Whole(Mine(c).packet)
    BY <1>2, ThreeStates
  <1>4. /\ Mine(c) \in Directory /\ WithPacket(Mine(c), Holding(c)) \in Directory
        /\ WithPacket(Mine(c), Holding(c)).receipt = Mine(c).receipt
        /\ WithPacket(Mine(c), Holding(c)).responses = Mine(c).responses
        /\ job[c].review \in ReviewIds
    BY <1>1, MineTyped, Fields DEF Files
  <1>5. /\ Mine(c)' = MineNext(c) /\ MineNext(c).receipt = Mine(c).receipt
        /\ MineNext(c).responses = Mine(c).responses
    BY <1>1, <1>4, ReplacesTyped DEF Mine, MineNext, Moves
  <1>6. \A i \in 1..Len(journal) : journal[i].review # job[c].review
    BY <1>1, <1>3, ThreeStates DEF Owned, Mine
  <1>7. /\ \A k \in 1..Attempts : Mine(c).responses[k] = Absent
        /\ Whole(Mine(c).receipt) => Mine(c).receipt.contents.attempts = << >>
    BY <1>1, <1>3, <1>4 DEF AfterPacket, Mine
  <1>8. journal' = journal /\ pc'[c] = "start" /\ job'[c] = job[c]
    BY DEF WritePacketDoes, Moves
  <1> QED BY <1>5, <1>6, <1>7, <1>8 DEF Journaled, Kept, Trying

\* The first event.
LEMMA StartRecorded ==
    ASSUME IInv, NEW c \in Clients, StartDoes(c), ~Leaves(c)
    PROVE  /\ Journaled(journal', pc'[c], job'[c])
           /\ Kept(journal', pc'[c], job'[c], Mine(c)', c)
  <1>1. TypeInv /\ Recorded
    BY DEF IInv
  <1>2. pc[c] = "start" /\ disk' = disk /\ pc'[c] = "attempt" /\ job'[c] = job[c]
        /\ journal' = Append(journal, Event(c, "review_started", "none"))
    BY DEF StartDoes, Still, Moves, Records
  <1>3. /\ Journaled(journal, "start", job[c])
        /\ Kept(journal, "start", job[c], Mine(c), c)
    BY <1>1, <1>2 DEF Recorded, Owning
  <1>4. Mine(c)' = Mine(c)
    BY <1>2 DEF Mine
  <1>5. /\ job[c].attempts = << >> /\ job[c].retained = {} /\ job[c].fallbacks = << >>
    BY <1>1, <1>2 DEF TypeInv, Placed, Opening, Blank, NoJob
  <1>6. Journaled(journal', "attempt", job[c])
    <2>1. /\ Event(c, "review_started", "none").review = job[c].review
          /\ Event(c, "review_started", "none").kind = "review_started"
      BY DEF Event
    <2>2. \A i \in 1..Len(journal') : journal'[i].review = job[c].review => i = Len(journal) + 1
      BY <1>1, <1>2, <1>3, NewEvent DEF Journaled
    <2>3. Len(journal) + 1 \in 1..Len(journal')
          /\ journal'[Len(journal) + 1] = Event(c, "review_started", "none")
      BY <1>1, <1>2, NewEvent
    <2>4. Under(journal', job[c].review, {"review_started", "review_attempt"})
      BY <2>1, <2>2, <2>3 DEF Under
    <2> QED BY <2>1, <2>2, <2>3, <2>4 DEF Journaled, Trying
  <1>7. Kept(journal', "attempt", job[c], Mine(c), c)
    <2>1. Len(job[c].attempts) = 0
      BY <1>5
    <2>2. job[c].retained = FindingsIn(Mine(c).responses, 0)
      BY <1>5, FindingsGrow
    <2>3. job[c].fallbacks = FallbacksOf(job[c].attempts, 0)
      BY <1>5 DEF FallbacksOf
    <2>4. Tried("attempt", job[c], Mine(c), c)
      BY <1>3, <2>1, <2>3, ReviewAssumption DEF Tried, Kept
    <2>5. BackedSoFar(journal', job[c])
      BY <2>1 DEF BackedSoFar
    <2> QED BY <1>3, <2>1, <2>2, <2>4, <2>5 DEF Kept, Trying
  <1> QED BY <1>2, <1>4, <1>6, <1>7

LEMMA AttemptRecorded ==
    ASSUME IInv, NEW c \in Clients, AttemptDoes(c)
    PROVE  /\ Journaled(journal', pc'[c], job'[c])
           /\ Kept(journal', pc'[c], job'[c], Mine(c)', c)
  <1>1. TypeInv /\ Recorded
    BY DEF IInv
  <1>2. pc[c] = "attempt" /\ disk' = disk /\ journal' = journal
    BY DEF AttemptDoes, Still
  <1>3. PICK answer \in Evaluation \cup [status : FailureCodes, findings : {{}}] :
            Moves(c, IF answer.status \in FailureCodes THEN "record" ELSE "respond",
                  [job[c] EXCEPT !.outcome = answer])
    BY DEF AttemptDoes
  <1>4. /\ Journaled(journal, "attempt", job[c])
        /\ Kept(journal, "attempt", job[c], Mine(c), c)
    BY <1>1, <1>2 DEF Recorded, Owning, Trying
  <1>5. job[c] \in Job
    BY <1>1 DEF TypeInv, TypeOK
  <1>6. /\ job'[c].outcome = answer /\ job'[c].review = job[c].review
        /\ job'[c].attempts = job[c].attempts /\ job'[c].fallbacks = job[c].fallbacks
        /\ job'[c].retained = job[c].retained
        /\ pc'[c] = IF answer.status \in FailureCodes THEN "record" ELSE "respond"
    BY <1>3, <1>5 DEF Moves, Job
  <1>7. Mine(c)' = Mine(c)
    BY <1>2, <1>6 DEF Mine
  <1>8. Journaled(journal', pc'[c], job'[c])
    BY <1>2, <1>4, <1>6 DEF Journaled, Trying
  <1>9. Tried(pc'[c], job'[c], Mine(c), c)
    <2>1. Tried("attempt", job[c], Mine(c), c)
      BY <1>4 DEF Kept, Trying
    <2> QED BY <1>6, <2>1 DEF Tried
  <1>10. BackedSoFar(journal', job'[c])
    BY <1>2, <1>4, <1>6 DEF Kept, BackedSoFar, Trying
  <1> QED BY <1>4, <1>6, <1>7, <1>8, <1>9, <1>10 DEF Kept, Trying

LEMMA ResponseRecorded ==
    ASSUME IInv, NEW c \in Clients, WriteResponseDoes(c), ~Leaves(c)
    PROVE  /\ Journaled(journal', pc'[c], job'[c])
           /\ Kept(journal', pc'[c], job'[c], Mine(c)', c)
  <1> DEFINE n == Len(job[c].attempts)
             D == WithResponse(Mine(c), n + 1, Holding(<<c, n + 1, job[c].outcome>>))
  <1>1. TypeInv /\ Recorded
    BY DEF IInv
  <1>2. /\ pc[c] = "respond" /\ journal' = journal /\ Replaces(c, D)
        /\ pc'[c] = "record" /\ job'[c] = job[c]
    BY DEF WriteResponseDoes, Moves, Number
  <1>3. /\ Journaled(journal, "respond", job[c])
        /\ Kept(journal, "respond", job[c], Mine(c), c)
    BY <1>1, <1>2 DEF Recorded, Owning, Trying
  <1>4. /\ job[c] \in Job /\ n \in Nat /\ n + 1 \in 1..Attempts
        /\ job[c].outcome \in Outcome /\ job[c].outcome.status \notin FailureCodes
    <2>1. job[c] \in Job
      BY <1>1 DEF TypeInv, TypeOK
    <2>2. n \in Nat /\ job[c].outcome \in Outcome
      BY <2>1 DEF Job, Outcome
    <2>3. n < workload.attempts /\ workload.attempts \in 1..Attempts
      BY <1>1, <1>2, ReviewAssumption DEF TypeInv, TypeOK, Placed, Trying, Workload
    <2>4. job[c].outcome.status \notin FailureCodes
      BY <1>1, <1>2 DEF TypeInv, Placed
    <2> QED BY <2>1, <2>2, <2>3, <2>4, ReviewAssumption
  <1>5. Mine(c) \in Directory /\ <<c, n + 1, job[c].outcome>> \in Answer
    BY <1>1, <1>2, <1>4, MineTyped DEF Answer
  <1>6. /\ D \in Directory /\ D.packet = Mine(c).packet /\ D.receipt = Mine(c).receipt
        /\ D.responses[n + 1] = Holding(<<c, n + 1, job[c].outcome>>)
        /\ \A i \in 1..Attempts \ {n + 1} : D.responses[i] = Mine(c).responses[i]
    BY SMTT(60), <1>4, <1>5, ResponseFields DEF Files
  <1> HIDE DEF D
  <1>7. Mine(c)' = D
    BY <1>1, <1>2, <1>6, ReplacesTyped DEF Mine, MineNext
  <1>8. job[c].retained = FindingsIn(D.responses, n)
    <2>1. job[c].retained = FindingsIn(Mine(c).responses, n)
      BY <1>3 DEF Kept
    <2>2. \A i \in 1..n : D.responses[i] = Mine(c).responses[i]
      BY <1>4, <1>6, ReviewAssumption
    <2> QED BY <1>4, <2>1, <2>2, FindingsOf
  <1>9. Tried("record", job[c], D, c)
    <2>1. Tried("respond", job[c], Mine(c), c)
      BY <1>3 DEF Kept, Trying
    <2> QED BY <1>4, <1>6, <2>1, ReviewAssumption DEF Tried
  <1> QED BY <1>2, <1>3, <1>6, <1>7, <1>8, <1>9 DEF Journaled, Kept, Trying

\* What an attempt comes to.
LEMMA EntryIs ==
    ASSUME TypeInv, NEW c \in Clients, pc[c] = "record"
    PROVE  /\ EntryStatus(c) = "accepted" <=> job[c].outcome.status = "complete"
           /\ job[c].outcome.status \in FailureCodes => job[c].outcome.findings = {}
           /\ Entry(c).status = EntryStatus(c) /\ Entry(c).attempt = Number(c)
  <1>1. job[c].outcome \in Evaluation \cup [status : FailureCodes, findings : {{}}]
    BY DEF TypeInv, TypeOK, Placed, Job
  <1>2. /\ job[c].outcome.status \in FailureCodes => job[c].outcome.findings = {}
        /\ job[c].outcome.status \in {"complete", "incomplete", "invalid"} \cup FailureCodes
    BY <1>1 DEF Evaluation, FailureCodes
  <1>3. EntryStatus(c) = "accepted" <=> job[c].outcome.status = "complete"
    <2>1. CASE job[c].outcome.status \in FailureCodes
      BY <2>1 DEF EntryStatus, FailureCodes
    <2>2. CASE job[c].outcome.status \notin FailureCodes
      BY <1>2, <2>2 DEF EntryStatus, StatusOf
    <2> QED BY <2>1, <2>2
  <1> QED BY <1>2, <1>3 DEF Entry

\* The fallbacks of one attempt more.
LEMMA FallbacksGrow ==
    ASSUME NEW A \in Seq(AttemptRecord), NEW e \in AttemptRecord
    PROVE  /\ FallbacksOf(Append(A, e), Len(A)) = FallbacksOf(A, Len(A))
           /\ Append(FallbacksOf(A, Len(A)), [from |-> Len(A) + 1, reason |-> e.status])
                  = FallbacksOf(Append(A, e), Len(A) + 1)
  <1> DEFINE n == Len(A)
             B == Append(A, e)
  <1>1. n \in Nat /\ Len(B) = n + 1 /\ B[n + 1] = e /\ \A k \in 1..n : B[k] = A[k]
    OBVIOUS
  <1> HIDE DEF n, B
  <1>2. FallbacksOf(B, n) = FallbacksOf(A, n)
    BY <1>1 DEF FallbacksOf
  <1>3. FallbacksOf(A, n) \in Seq({[from |-> k, reason |-> A[k].status] : k \in 1..n})
    BY <1>1 DEF FallbacksOf
  <1>4. Len(FallbacksOf(A, n)) = n
    BY <1>1 DEF FallbacksOf
  <1>5. Append(FallbacksOf(A, n), [from |-> n + 1, reason |-> e.status]) = FallbacksOf(B, n + 1)
    BY <1>1, <1>3, <1>4 DEF FallbacksOf
  <1> QED BY <1>2, <1>5 DEF n, B

\* The status of a review whose last attempt has ended its loop.
LEMMA StatusDecided ==
    ASSUME NEW A \in Seq(AttemptRecord), NEW e \in AttemptRecord,
           \A k \in 1..Len(A) : A[k].status # "accepted"
    PROVE  Decided(IF e.status = "accepted" THEN "accepted" ELSE ExhaustedStatus(Append(A, e)),
                   Append(A, e))
  <1> DEFINE n == Len(A)
             B == Append(A, e)
  <1>1. n \in Nat /\ Len(B) = n + 1 /\ B[n + 1] = e /\ \A k \in 1..n : B[k] = A[k]
    OBVIOUS
  <1> HIDE DEF B
  <1>2. CASE e.status = "accepted"
    BY <1>1, <1>2 DEF Decided
  <1>3. CASE e.status # "accepted"
    BY <1>1, <1>3 DEF Decided, ExhaustedStatus
  <1> QED BY <1>2, <1>3 DEF B

LEMMA AttemptsRecorded ==
    ASSUME IInv, NEW c \in Clients, RecordDoes(c), ~Leaves(c)
    PROVE  /\ Journaled(journal', pc'[c], job'[c])
           /\ Kept(journal', pc'[c], job'[c], Mine(c)', c)
  <1> DEFINE A == job[c].attempts
             n == Len(job[c].attempts)
             B == Append(job[c].attempts, Entry(c))
             D == Mine(c)
             r == job[c].review
             j == job'[c]
  <1>1. TypeInv /\ Recorded
    BY DEF IInv
  <1>2. /\ pc[c] = "record" /\ disk' = disk
        /\ journal' = Append(journal, Event(c, "review_attempt", Entry(c)))
        /\ pc'[c] = IF Over(c) THEN "observe" ELSE "attempt"
        /\ job'[c] = AfterRecord(c)
    BY DEF RecordDoes, Still, Records, Moves
  <1>3. /\ Journaled(journal, "record", job[c])
        /\ Kept(journal, "record", job[c], D, c)
        /\ Tried("record", job[c], D, c) /\ BackedSoFar(journal, job[c])
    BY <1>1, <1>2 DEF Recorded, Owning, Trying, Kept
  <1>4. /\ job[c] \in Job /\ A \in Seq(AttemptRecord) /\ n \in Nat
        /\ Entry(c) \in AttemptRecord /\ n + 1 = Number(c) /\ n + 1 \in 1..Attempts
    <2>1. job[c] \in Job
      BY <1>1 DEF TypeInv, TypeOK
    <2>2. A \in Seq(AttemptRecord) /\ n \in Nat
      BY <2>1 DEF Job
    <2>3. Number(c) \in 1..Attempts /\ Entry(c) \in AttemptRecord
      BY <1>1, <1>2, EntryTyped
    <2> QED BY <2>1, <2>2, <2>3 DEF Number
  <1>5. /\ B \in Seq(AttemptRecord) /\ Len(B) = n + 1 /\ B[n + 1] = Entry(c)
        /\ \A k \in 1..n : B[k] = A[k]
        /\ \A k \in 1..(n + 1) : k \in 1..n \/ k = n + 1
    BY <1>4
  <1>6. /\ EntryStatus(c) = "accepted" <=> job[c].outcome.status = "complete"
        /\ job[c].outcome.status \in FailureCodes => job[c].outcome.findings = {}
        /\ Entry(c).status = EntryStatus(c) /\ Entry(c).attempt = n + 1
    BY <1>1, <1>2, <1>4, EntryIs
  <1>7. /\ j.review = r /\ j.attempts = B
        /\ j.retained = job[c].retained \cup job[c].outcome.findings
        /\ ~Over(c) => j.fallbacks = Append(job[c].fallbacks,
                                            [from |-> n + 1, reason |-> Entry(c).status])
        /\ Over(c) => /\ j.fallbacks = job[c].fallbacks /\ j.outcome = job[c].outcome
                      /\ j.todo = j.retained
                      /\ j.status = IF Entry(c).status = "accepted" THEN "accepted"
                                    ELSE ExhaustedStatus(B)
    BY <1>2, <1>4, <1>6 DEF AfterRecord, Job
  <1> HIDE DEF j, B
  <1>8. Mine(c)' = D
    BY <1>2, <1>7 DEF Mine, j
  <1>9. /\ Len(journal') = Len(journal) + 1 /\ Len(journal) \in Nat
        /\ \A i \in 1..Len(journal) : journal'[i] = journal[i] /\ i \in 1..Len(journal')
        /\ \A i \in 1..Len(journal') : i \in 1..Len(journal) \/ i = Len(journal) + 1
        /\ Len(journal) + 1 \in 1..Len(journal')
        /\ journal'[Len(journal) + 1].review = r
        /\ journal'[Len(journal) + 1].kind = "review_attempt"
        /\ journal'[Len(journal) + 1].what = Entry(c)
    BY <1>1, <1>2, NewEvent DEF Event
  <1>10. Longer
    BY <1>9 DEF Longer
  <1>11. Journaled(journal', pc'[c], j)
    <2>1. /\ \E i \in 1..Len(journal) :
                 journal[i].review = r /\ journal[i].kind = "review_started"
          /\ \A i \in 1..Len(journal) : journal[i].review = r =>
                 /\ journal[i].kind \in {"review_started", "review_attempt"}
                 /\ journal[i].kind = "review_attempt" => journal[i].what.attempt <= n
      BY <1>3 DEF Journaled, Under, Trying
    <2>2. \E i \in 1..Len(journal') :
                 journal'[i].review = r /\ journal'[i].kind = "review_started"
      BY <1>9, <2>1
    <2>3. \A i \in 1..Len(journal') : journal'[i].review = r =>
                 journal'[i].kind \in {"review_started", "review_attempt"}
      BY <1>9, <2>1
    <2>4. \A i \in 1..Len(journal') :
                 journal'[i].review = r /\ journal'[i].kind = "review_attempt" =>
                     journal'[i].what.attempt <= n + 1
      <3>1. \A i \in 1..Len(journal) :
                 journal'[i].review = r /\ journal'[i].kind = "review_attempt" =>
                     /\ journal'[i].what.attempt <= n
                     /\ journal'[i].what.attempt \in Nat
        <4>1. \A i \in 1..Len(journal) :
                 journal[i].review = r /\ journal[i].kind = "review_attempt" =>
                     journal[i].what \in AttemptRecord
          <5>1. \A i \in 1..Len(journal) : journal[i] \in JournalEvent
            BY <1>1 DEF TypeInv
          <5> QED BY <5>1 DEF JournalEvent
        <4>2. \A e \in AttemptRecord : e.attempt \in Nat
          BY DEF AttemptRecord
        <4> QED BY <1>9, <2>1, <4>1, <4>2
      <3>2. journal'[Len(journal) + 1].what.attempt <= n + 1
        BY <1>4, <1>6, <1>9
      <3>3. \A i \in 1..Len(journal) :
                 journal'[i].review = r /\ journal'[i].kind = "review_attempt" =>
                     journal'[i].what.attempt <= n + 1
        BY <1>4, <3>1
      <3> QED BY <1>9, <3>2, <3>3
    <2>5. Under(journal', r, {"review_started", "review_attempt", "finding_observed"})
          /\ Under(journal', r, {"review_started", "review_attempt"})
      BY <2>2, <2>3 DEF Under
    <2> QED BY <1>2, <1>5, <1>7, <2>4, <2>5 DEF Journaled, Trying
  <1>12. \A k \in 1..(n + 1) : Told(journal', Len(journal'), r, "review_attempt", B[k])
    <2>1. ASSUME NEW k \in 1..n
          PROVE  Told(journal', Len(journal'), r, "review_attempt", B[k])
      <3>1. Told(journal, Len(journal), r, "review_attempt", B[k])
        BY <1>3, <1>5 DEF BackedSoFar
      <3>2. Len(journal) \in 0..Len(journal) /\ Len(journal') \in Nat
            /\ Len(journal) <= Len(journal')
        BY <1>9
      <3> QED BY <1>10, <3>1, <3>2, ToldOn
    <2>2. Told(journal', Len(journal'), r, "review_attempt", B[n + 1])
      BY <1>5, <1>9 DEF Told
    <2> QED BY <1>5, <2>1, <2>2
  <1>13. j.retained = FindingsIn(D.responses, n + 1)
    <2>1. job[c].retained = FindingsIn(D.responses, n)
      BY <1>3 DEF Kept
    <2>2. CASE job[c].outcome.status \in FailureCodes
      <3>1. ~Whole(D.responses[n + 1])
        BY <1>3, <2>2, ThreeStates DEF Tried
      <3>2. FindingsIn(D.responses, n + 1) = FindingsIn(D.responses, n)
        BY <1>4, <3>1, FindingsGrow
      <3>3. j.retained = job[c].retained
        BY <1>6, <1>7, <2>2
      <3> QED BY <2>1, <3>2, <3>3
    <2>3. CASE job[c].outcome.status \notin FailureCodes
      <3>1. D.responses[n + 1] = Holding(<<c, n + 1, job[c].outcome>>)
        BY <1>3, <2>3 DEF Tried
      <3>2. Whole(D.responses[n + 1])
            /\ D.responses[n + 1].contents[3] = job[c].outcome
        BY <3>1, ThreeStates
      <3>3. FindingsIn(D.responses, n + 1)
                = FindingsIn(D.responses, n) \cup D.responses[n + 1].contents[3].findings
        BY <1>4, <3>2, FindingsGrow
      <3>4. j.retained = job[c].retained \cup job[c].outcome.findings
        BY <1>7
      <3> QED BY <2>1, <3>2, <3>3, <3>4
    <2> QED BY <2>2, <2>3
  <1>14. Whole(D.receipt) => D.receipt.contents.attempts = << >>
    BY <1>3 DEF Kept
  <1>15. CASE Over(c)
    <2>1. j.fallbacks = FallbacksOf(B, n)
      BY <1>3, <1>4, <1>7, <1>15, FallbacksGrow DEF Tried, B
    <2>2. Decided(j.status, B)
      <3>1. \A k \in 1..n : A[k].status # "accepted"
        BY <1>3 DEF Tried
      <3> QED BY <1>4, <1>7, <1>15, <3>1, StatusDecided DEF B
    <2>3. j.status = "accepted" => D.responses[n + 1] = Holding(<<c, n + 1, j.outcome>>)
      <3>1. j.status = "accepted" => Entry(c).status = "accepted"
        BY <1>5, <2>2 DEF Decided
      <3>2. "complete" \notin FailureCodes
        BY DEF FailureCodes
      <3> QED BY <1>3, <1>6, <1>7, <1>15, <3>1, <3>2 DEF Tried
    <2>4. Backed(journal', j, Len(journal'))
      BY <1>5, <1>7, <1>12, <1>15 DEF Backed
    <2>5. Ended(journal', "observe", j, D, c)
      <3>1. /\ Len(j.attempts) = n + 1 /\ Len(j.attempts) - 1 = n /\ j.attempts = B
            /\ n + 1 \in 1..Attempts
        BY <1>4, <1>5, <1>7
      <3> QED BY <2>1, <2>2, <2>3, <2>4, <3>1 DEF Ended
    <2>6. Kept(journal', "observe", j, D, c)
      BY <1>5, <1>7, <1>13, <1>14, <2>5 DEF Kept, Trying
    <2> QED BY <1>2, <1>8, <1>11, <1>15, <2>6 DEF j
  <1>16. CASE ~Over(c)
    <2>1. n + 2 \in 1..Attempts
      <3>1. n + 1 # workload.attempts /\ n + 1 <= workload.attempts
            /\ workload.attempts \in 1..Attempts
        BY <1>1, <1>2, <1>4, <1>16, EntryTyped, ReviewAssumption
           DEF Over, TypeInv, TypeOK, Workload
      <3> QED BY <1>4, <3>1, ReviewAssumption
    <2>2. Tried("attempt", j, D, c)
      <3>1. \A k \in 1..(n + 1) : B[k].status # "accepted"
        BY <1>3, <1>5, <1>6, <1>16 DEF Tried, Over
      <3>2. j.fallbacks = FallbacksOf(B, n + 1)
        BY <1>3, <1>4, <1>7, <1>16, FallbacksGrow DEF Tried, B
      <3>3. \A k \in (n + 2)..Attempts : D.responses[k] = Absent
        BY <1>3 DEF Tried
      <3>4. D.responses[n + 2] = Absent /\ \A k \in (n + 3)..Attempts : D.responses[k] = Absent
        BY <1>4, <2>1, <3>3, ReviewAssumption
      <3>5. (n + 1) + 1 = n + 2 /\ (n + 1) + 2 = n + 3
        BY <1>4
      <3> QED BY <1>5, <1>7, <3>1, <3>2, <3>4, <3>5 DEF Tried
    <2>3. BackedSoFar(journal', j)
      BY <1>5, <1>7, <1>12 DEF BackedSoFar
    <2>4. Kept(journal', "attempt", j, D, c)
      BY <1>5, <1>7, <1>13, <1>14, <2>2, <2>3 DEF Kept, Trying
    <2> QED BY <1>2, <1>8, <1>11, <1>16, <2>4 DEF j
  <1> QED BY <1>15, <1>16

LEMMA ObserveRecorded ==
    ASSUME IInv, NEW c \in Clients, ObserveDoes(c), ~Leaves(c), Owning(c)
    PROVE  /\ Journaled(journal', pc'[c], job'[c])
           /\ Kept(journal', pc'[c], job'[c], Mine(c)', c)
  <1> DEFINE D == Mine(c)
             r == job[c].review
             n == Len(job[c].attempts)
  <1>1. TypeInv /\ Recorded
    BY DEF IInv
  <1>2. pc[c] = "observe" /\ disk' = disk
    BY DEF ObserveDoes, Still
  <1>3. /\ Journaled(journal, "observe", job[c])
        /\ Kept(journal, "observe", job[c], D, c)
        /\ Ended(journal, "observe", job[c], D, c)
    BY <1>1, <1>2 DEF Recorded, Kept, Trying
  <1>4. job[c] \in Job
    BY <1>1 DEF TypeInv, TypeOK
  <1>5. CASE job[c].todo = {} /\ journal' = journal /\ Moves(c, "head", job[c])
    <2>1. pc'[c] = "head" /\ job'[c] = job[c] /\ journal' = journal /\ Mine(c)' = D
      BY <1>2, <1>5 DEF Moves, Mine
    <2>2. Journaled(journal, "head", job[c])
      BY <1>3 DEF Journaled, Trying
    <2>3. Ended(journal, "head", job[c], D, c)
      BY <1>3, <1>5 DEF Ended
    <2>4. Kept(journal, "head", job[c], D, c)
      BY <1>3, <2>3 DEF Kept, Trying
    <2> QED BY <2>1, <2>2, <2>4
  <1>6. ASSUME NEW f \in job[c].todo, Records(c, "finding_observed", f),
               Moves(c, "observe", [job[c] EXCEPT !.todo = @ \ {f}])
        PROVE  /\ Journaled(journal', pc'[c], job'[c])
               /\ Kept(journal', pc'[c], job'[c], Mine(c)', c)
    <2> DEFINE j == job'[c]
    <2>1. /\ j.review = r /\ j.attempts = job[c].attempts /\ j.retained = job[c].retained
          /\ j.fallbacks = job[c].fallbacks /\ j.status = job[c].status
          /\ j.outcome = job[c].outcome /\ j.todo = job[c].todo \ {f}
      BY <1>4, <1>6 DEF Moves, Job
    <2>2. pc'[c] = "observe"
          /\ journal' = Append(journal, Event(c, "finding_observed", f))
      BY <1>6 DEF Moves, Records
    <2> HIDE DEF j
    <2>3. Mine(c)' = D
      BY <1>2, <2>1 DEF Mine, j
    <2>4. /\ Len(journal') = Len(journal) + 1 /\ Len(journal) \in Nat
          /\ \A i \in 1..Len(journal) : journal'[i] = journal[i] /\ i \in 1..Len(journal')
          /\ \A i \in 1..Len(journal') : i \in 1..Len(journal) \/ i = Len(journal) + 1
          /\ Len(journal) + 1 \in 1..Len(journal')
          /\ journal'[Len(journal) + 1].review = r
          /\ journal'[Len(journal) + 1].kind = "finding_observed"
          /\ journal'[Len(journal) + 1].what = f
      BY <1>1, <2>2, NewEvent DEF Event
    <2>5. Longer
      BY <2>4 DEF Longer
    <2>6. Journaled(journal', "observe", j)
      <3>1. /\ \E i \in 1..Len(journal) :
                   journal[i].review = r /\ journal[i].kind = "review_started"
            /\ \A i \in 1..Len(journal) : journal[i].review = r =>
                   journal[i].kind \in {"review_started", "review_attempt", "finding_observed"}
        BY <1>3 DEF Journaled, Under
      <3>2. \E i \in 1..Len(journal') :
                   journal'[i].review = r /\ journal'[i].kind = "review_started"
        BY <2>4, <3>1
      <3>3. \A i \in 1..Len(journal') : journal'[i].review = r =>
                   journal'[i].kind \in {"review_started", "review_attempt", "finding_observed"}
        BY <2>4, <3>1
      <3> QED BY <2>1, <3>2, <3>3 DEF Journaled, Under, Trying
    <2>7. Backed(journal', j, Len(journal'))
      <3>1. Len(journal) \in 0..Len(journal) /\ Len(journal') \in Nat
            /\ Len(journal) <= Len(journal')
        BY <2>4
      <3>2. Backed(journal', job[c], Len(journal'))
        BY <1>3, <2>5, <3>1, BackedOn DEF Ended
      <3>3. Told(journal', Len(journal'), r, "finding_observed", f)
        BY <2>4 DEF Told
      <3> QED BY <2>1, <3>2, <3>3 DEF Backed
    <2>8. Ended(journal', "observe", j, D, c)
      BY <1>3, <2>1, <2>7 DEF Ended
    <2>9. Kept(journal', "observe", j, D, c)
      BY <1>3, <2>1, <2>8 DEF Kept, Trying
    <2> QED BY <2>2, <2>3, <2>6, <2>9 DEF j
  <1> QED BY <1>5, <1>6 DEF ObserveDoes

LEMMA HeadRecorded ==
    ASSUME IInv, NEW c \in Clients, ReadHeadDoes(c), ~Leaves(c), Owning(c)
    PROVE  /\ Journaled(journal', pc'[c], job'[c])
           /\ Kept(journal', pc'[c], job'[c], Mine(c)', c)
  <1> DEFINE D == Mine(c)
             j == job'[c]
  <1>1. TypeInv /\ Recorded
    BY DEF IInv
  <1>2. /\ pc[c] = "head" /\ disk' = disk /\ journal' = journal
        /\ pc'[c] = "receipt" /\ job'[c] = [job[c] EXCEPT !.head = Len(journal)]
    BY DEF ReadHeadDoes, Still, Moves
  <1>3. /\ Journaled(journal, "head", job[c])
        /\ Kept(journal, "head", job[c], D, c)
        /\ Ended(journal, "head", job[c], D, c)
    BY <1>1, <1>2 DEF Recorded, Kept, Trying
  <1>4. job[c] \in Job /\ Len(journal) \in 0..Len(journal)
    BY <1>1 DEF TypeInv, TypeOK
  <1>5. /\ j.review = job[c].review /\ j.attempts = job[c].attempts
        /\ j.retained = job[c].retained
        /\ j.fallbacks = job[c].fallbacks /\ j.status = job[c].status
        /\ j.outcome = job[c].outcome /\ j.todo = job[c].todo /\ j.head = Len(journal)
    BY <1>2, <1>4 DEF Job
  <1> HIDE DEF j
  <1>6. Mine(c)' = D
    BY <1>2, <1>5 DEF Mine, j
  <1>7. Journaled(journal, "receipt", j)
    BY <1>3, <1>5 DEF Journaled, Trying
  <1>8. Backed(journal, j, Len(journal))
    BY <1>3, <1>5 DEF Ended, Backed
  <1>9. Ended(journal, "receipt", j, D, c)
    BY <1>3, <1>4, <1>5, <1>8 DEF Ended
  <1>10. Kept(journal, "receipt", j, D, c)
    BY <1>3, <1>5, <1>9 DEF Kept, Trying
  <1> QED BY <1>2, <1>6, <1>7, <1>10 DEF j

LEMMA ReceiptRecorded ==
    ASSUME IInv, NEW c \in Clients, WriteReceiptDoes(c), ~Leaves(c), Owning(c)
    PROVE  /\ Journaled(journal', pc'[c], job'[c])
           /\ Kept(journal', pc'[c], job'[c], Mine(c)', c)
  <1> DEFINE D == WithReceipt(Mine(c), Holding(Receipt(c)))
  <1>1. TypeInv /\ Recorded
    BY DEF IInv
  <1>2. /\ pc[c] = "receipt" /\ journal' = journal /\ Replaces(c, D)
        /\ pc'[c] = "finish" /\ job'[c] = job[c]
    BY DEF WriteReceiptDoes, Moves, Owning, Trying
  <1>3. /\ Journaled(journal, "receipt", job[c])
        /\ Kept(journal, "receipt", job[c], Mine(c), c)
        /\ Ended(journal, "receipt", job[c], Mine(c), c)
    BY <1>1, <1>2 DEF Recorded, Kept, Trying
  <1>4. /\ D \in Directory /\ D.receipt = Holding(Receipt(c))
        /\ D.responses = Mine(c).responses
    BY <1>1, <1>2, MineTyped, ReceiptTyped, Fields DEF Files
  <1> HIDE DEF D
  <1>5. Mine(c)' = D
    BY <1>1, <1>2, <1>4, ReplacesTyped DEF Mine, MineNext
  <1>6. Receipt(c) = ReceiptOf(c, job[c])
    BY DEF Receipt, ReceiptOf
  <1>7. Journaled(journal, "finish", job[c])
    BY <1>3 DEF Journaled, Trying
  <1>8. Ended(journal, "finish", job[c], D, c)
    BY <1>3, <1>4 DEF Ended
  <1>9. Kept(journal, "finish", job[c], D, c)
    BY <1>3, <1>4, <1>6, <1>8 DEF Kept, Trying
  <1> QED BY <1>2, <1>5, <1>7, <1>9

LEMMA FinishRecorded ==
    ASSUME IInv, NEW c \in Clients, FinishDoes(c), ~Leaves(c), Owning(c)
    PROVE  /\ Journaled(journal', pc'[c], job'[c])
           /\ Kept(journal', pc'[c], job'[c], Mine(c)', c)
  <1>1. TypeInv /\ Recorded
    BY DEF IInv
  <1>2. /\ pc[c] = "finish" /\ disk' = disk /\ pc'[c] = "return" /\ job'[c] = job[c]
        /\ journal' = Append(journal, Event(c, "review_finished", job[c].status))
    BY DEF FinishDoes, Still, Moves, Records
  <1>3. /\ Kept(journal, "finish", job[c], Mine(c), c)
        /\ Ended(journal, "finish", job[c], Mine(c), c)
    BY <1>1, <1>2 DEF Recorded, Kept, Trying
  <1>4. Mine(c)' = Mine(c)
    BY <1>2 DEF Mine
  <1>5. Longer /\ Len(journal) \in Nat
    BY <1>1, <1>2, GrowsOnly DEF JournalSeen, OwnEvent, Records, Longer
  <1>6. Journaled(journal', "return", job[c])
    BY DEF Journaled, Trying
  <1>7. Ended(journal', "return", job[c], Mine(c), c)
    <2>1. /\ Len(journal) \in 0..Len(journal) /\ Len(journal') \in Nat
          /\ Len(journal) <= Len(journal')
          /\ \A h \in 0..Len(journal) : h \in 0..Len(journal') /\ h \in Nat /\ h <= h
      BY <1>5 DEF Longer
    <2> QED BY <1>3, <1>5, <2>1, BackedOn DEF Ended
  <1>8. Kept(journal', "return", job[c], Mine(c), c)
    BY <1>3, <1>7 DEF Kept, Trying
  <1> QED BY <1>2, <1>4, <1>6, <1>8

LEMMA RecordedStep ==
    ASSUME IInv, TypeInv', NEW c \in Clients, Seen(c), Does(c)
    PROVE  Recorded'
  <1>0. TypeInv /\ Owned /\ Unprepared /\ Recorded
    BY DEF IInv
  <1>1. Longer
    BY <1>0, GrowsOnly DEF Seen
  <1>2. ASSUME NEW d \in Clients \ {c}, Owning(d)'
        PROVE  /\ Journaled(journal', pc'[d], job'[d])
               /\ Kept(journal', pc'[d], job'[d], Mine(d)', d)
    <2>1. Owning(d)
      BY <1>2 DEF Seen, Frame, Owning
    <2>2. Around(d)
      BY <1>0, <1>2, <2>1, Interference
    <2> QED BY <1>0, <1>1, <2>1, <2>2, RecordedAround
  <1>3. ASSUME Owning(c)'
        PROVE  /\ Journaled(journal', pc'[c], job'[c])
               /\ Kept(journal', pc'[c], job'[c], Mine(c)', c)
    <2>1. ~Leaves(c)
      BY <1>3 DEF Leaves, Moves, Owning, NoJob, Trying
    <2>2. CASE ~Owning(c)
      BY <1>0, <1>3, <2>2, OwnersStep, PacketRecorded
    <2>3. CASE Owning(c)
      <3>1. pc[c] \notin {"idle", "done", "mkdir", "packet"}
        BY <1>0, <2>3, OwnersAre
      <3>2. /\ \A r \in ReviewIds : ~CheckIdDoes(c, r)
            /\ ~MakeDirectoryDoes(c) /\ ~WritePacketDoes(c)
            /\ ~ConcludeDoes(c) /\ ~CrashDoes(c)
        BY <2>1, <3>1
           DEF CheckIdDoes, MakeDirectoryDoes, WritePacketDoes, ConcludeDoes, CrashDoes
      <3>3. \/ StartDoes(c) \/ AttemptDoes(c) \/ WriteResponseDoes(c) \/ RecordDoes(c)
            \/ ObserveDoes(c) \/ ReadHeadDoes(c) \/ WriteReceiptDoes(c) \/ FinishDoes(c)
        BY <3>2, Zenon DEF Does
      <3> QED BY <2>1, <2>3, <3>3, StartRecorded, AttemptRecorded, ResponseRecorded,
                 AttemptsRecorded, ObserveRecorded, HeadRecorded, ReceiptRecorded,
                 FinishRecorded
    <2> QED BY <2>2, <2>3
  <1> QED BY <1>2, <1>3 DEF Recorded

LEMMA UnpreparedStep ==
    ASSUME IInv, NEW c \in Clients, Seen(c), Does(c)
    PROVE  Unprepared'
  <1>0. TypeInv /\ Unprepared
    BY DEF IInv
  <1>1. Longer /\ \A h \in 0..Len(journal) : h \in 0..Len(journal')
    BY <1>0, GrowsOnly DEF Seen, Longer
  <1>2. \A d \in Clients \ {c} : pc'[d] = pc[d] /\ job'[d] = job[d]
    BY DEF Seen, Frame
  <1> DEFINE Closing == {"observe", "head", "receipt", "finish", "return"}
             Nothing(p, j, log) == /\ p \in {"head", "receipt", "return"}
                                   /\ j.status = "contract_failed" /\ j.retained = {}
                                   /\ j.head \in 0..Len(log)
  <1>3. job[c] \in Job
    BY <1>0 DEF TypeInv, TypeOK
  <1>4. ASSUME pc'[c] \in Closing, job'[c].attempts = << >>
        PROVE  Nothing(pc'[c], job'[c], journal')
    <2>1. ~Leaves(c)
      BY <1>4 DEF Leaves, Moves
    <2>2. ~\E r \in ReviewIds : CheckIdDoes(c, r)
      BY <1>4, <2>1 DEF CheckIdDoes, Moves
    <2>3. CASE MakeDirectoryDoes(c)
      <3>1. pc'[c] = "head" /\ job'[c] = [job[c] EXCEPT !.status = "contract_failed"]
        BY <1>4, <2>1, <2>3 DEF MakeDirectoryDoes, Moves
      <3>2. job[c].retained = {} /\ job[c].head = 0
        BY <1>0, <2>3 DEF MakeDirectoryDoes, TypeInv, Placed, Opening, Blank, NoJob
      <3>3. /\ job'[c].status = "contract_failed" /\ job'[c].retained = {} /\ job'[c].head = 0
        BY <1>3, <3>1, <3>2 DEF Job
      <3>4. 0 \in 0..Len(journal')
        BY <1>1 DEF Longer
      <3> QED BY <3>1, <3>3, <3>4
    <2>4. ~WritePacketDoes(c) /\ ~StartDoes(c) /\ ~AttemptDoes(c) /\ ~WriteResponseDoes(c)
      BY <1>4, <2>1 DEF WritePacketDoes, StartDoes, AttemptDoes, WriteResponseDoes, Moves
    <2>5. ~RecordDoes(c)
      <3>1. ASSUME RecordDoes(c) PROVE FALSE
        <4>1. job'[c] = AfterRecord(c) /\ pc[c] = "record"
          BY <2>1, <3>1 DEF RecordDoes, Moves
        <4>2. job'[c].attempts = Append(job[c].attempts, Entry(c))
          BY <1>3, <4>1 DEF AfterRecord, Job
        <4>3. job[c].attempts \in Seq(AttemptRecord) /\ Entry(c) \in AttemptRecord
          BY <1>0, <1>3, <4>1, EntryTyped DEF Job
        <4> QED BY <1>4, <4>2, <4>3
      <3> QED BY <3>1
    <2>6. CASE ObserveDoes(c)
      <3>1. pc[c] = "observe" /\ job'[c].attempts = job[c].attempts
        <4>1. CASE Moves(c, "head", job[c])
          BY <2>6, <4>1 DEF ObserveDoes, Moves
        <4>2. CASE \E f \in job[c].todo : Moves(c, "observe", [job[c] EXCEPT !.todo = @ \ {f}])
          BY <1>3, <2>6, <4>2 DEF ObserveDoes, Moves, Job
        <4> QED BY <2>1, <2>6, <4>1, <4>2 DEF ObserveDoes
      <3> QED BY <1>0, <1>4, <3>1 DEF Unprepared
    <2>7. CASE ReadHeadDoes(c)
      <3>1. /\ pc[c] = "head" /\ pc'[c] = "receipt" /\ journal' = journal
            /\ job'[c] = [job[c] EXCEPT !.head = Len(journal)]
        BY <2>1, <2>7 DEF ReadHeadDoes, Moves
      <3>2. /\ job'[c].status = job[c].status /\ job'[c].retained = job[c].retained
            /\ job'[c].head = Len(journal) /\ job'[c].attempts = job[c].attempts
        BY <1>3, <3>1 DEF Job
      <3>3. Len(journal) \in 0..Len(journal')
        BY <1>1 DEF Longer
      <3> QED BY <1>0, <1>4, <3>1, <3>2, <3>3 DEF Unprepared
    <2>8. CASE WriteReceiptDoes(c)
      BY <1>0, <1>1, <1>4, <2>1, <2>8 DEF WriteReceiptDoes, Moves, Unprepared
    <2>9. CASE FinishDoes(c)
      BY <1>0, <1>4, <2>1, <2>9 DEF FinishDoes, Moves, Unprepared
    <2>10. ~ConcludeDoes(c) /\ ~CrashDoes(c)
      BY <2>1 DEF ConcludeDoes, CrashDoes
    <2> HIDE DEF Closing, Nothing
    <2> QED BY <2>2, <2>3, <2>4, <2>5, <2>6, <2>7, <2>8, <2>9, <2>10 DEF Does
  <1>5. ASSUME NEW d \in Clients, pc'[d] \in Closing, job'[d].attempts = << >>
        PROVE  Nothing(pc'[d], job'[d], journal')
    BY <1>0, <1>1, <1>2, <1>4, <1>5 DEF Unprepared
  <1> QED BY <1>5 DEF Unprepared

LEMMA AfterPacketStep ==
    ASSUME IInv, TypeInv', NEW c \in Clients, Seen(c)
    PROVE  AfterPacket'
  <1>0. TypeInv /\ AfterPacket /\ Owned /\ Unprepared
    BY DEF IInv
  <1> SUFFICES ASSUME NEW r \in ReviewIds
               PROVE  /\ \A k \in 1..Attempts :
                             disk'[r].responses[k] # Absent => Whole(disk'[r].packet)
                      /\ Whole(disk'[r].receipt) /\ disk'[r].receipt.contents.attempts # << >> =>
                             Whole(disk'[r].packet)
    BY DEF AfterPacket
  <1>1. Whole(disk[r].packet) => Whole(disk'[r].packet)
    BY <1>0, PacketsStay
  <1>2. CASE disk'[r] = disk[r]
    BY <1>0, <1>2 DEF AfterPacket
  <1>3. CASE disk'[r] # disk[r]
    <2>1. /\ r = job[c].review /\ pc[c] \notin {"idle", "done"}
          /\ ResponsesSeen(c) /\ ReceiptSeen(c)
          /\ disk[r] = Mine(c) /\ disk'[r] = MineNext(c)
      BY <1>3 DEF Seen, Still, Mine, MineNext
    <2>2. Owning(c) => Whole(disk[r].packet)
      BY <1>0, <2>1, ThreeStates DEF Owned
    <2>3. ASSUME NEW k \in 1..Attempts, disk'[r].responses[k] # Absent
          PROVE  Whole(disk'[r].packet)
      <3>1. CASE disk'[r].responses[k] = disk[r].responses[k]
        BY <1>0, <1>1, <2>3, <3>1 DEF AfterPacket
      <3>2. CASE pc[c] = "respond"
        BY <1>1, <2>2, <3>2 DEF Owning, Trying
      <3> QED BY <2>1, <3>1, <3>2 DEF ResponsesSeen
    <2>4. ASSUME Whole(disk'[r].receipt), disk'[r].receipt.contents.attempts # << >>
          PROVE  Whole(disk'[r].packet)
      <3>1. CASE disk'[r].receipt = disk[r].receipt
        BY <1>0, <1>1, <2>4, <3>1 DEF AfterPacket
      <3>2. CASE disk'[r].receipt = Holding(Receipt(c))
        <4>1. disk'[r].receipt.contents.attempts = job[c].attempts
          BY <3>2, ThreeStates DEF Receipt
        <4> QED BY <1>1, <2>2, <2>4, <4>1 DEF Owning
      <3> QED BY <2>1, <2>4, <3>1, <3>2, ThreeStates DEF ReceiptSeen
    <2> QED BY <2>3, <2>4
  <1> QED BY <1>2, <1>3

-----------------------------------------------------------------------------
(* One run under each review id.                                           *)

LEMMA OneRunStep ==
    ASSUME IInv, NEW c \in Clients, Seen(c)
    PROVE  OneRunPerReview'
  <1>0. TypeInv /\ Unprepared /\ Owned /\ Recorded /\ OneRunPerReview
    BY DEF IInv
  <1>1. CASE journal' = journal
    BY <1>0, <1>1 DEF OneRunPerReview
  <1>2. ASSUME NEW kind, NEW what, OwnEvent(c, kind, what), Records(c, kind, what)
        PROVE  OneRunPerReview'
    <2> DEFINE N == Len(journal) + 1
               r == job[c].review
               n == Len(job[c].attempts)
    <2>1. /\ Len(journal') = N /\ Len(journal) \in Nat
          /\ \A i \in 1..Len(journal) : journal'[i] = journal[i] /\ i \in 1..Len(journal')
          /\ \A i \in 1..Len(journal') : i \in 1..Len(journal) \/ i = N
          /\ journal'[N] = Event(c, kind, what)
      BY <1>0, <1>2, NewEvent DEF Records
    <2>2. /\ Owning(c) /\ journal'[N].review = r /\ journal'[N].by = c
          /\ journal'[N].kind = kind /\ journal'[N].what = what
      BY <1>0, <1>2, <2>1, OwnersAppend
    <2>3. Journaled(journal, pc[c], job[c])
      BY <1>0, <2>2 DEF Recorded
    <2>4. \A i \in 1..Len(journal) : journal[i].review = r => journal[i].by = c
      BY <1>0, <2>2, SameContents DEF Owned, Mine
    <2>7. \A k \in 1..Len(journal) :
              /\ journal'[k].kind # "review_started" =>
                     \E i \in 1..(k - 1) : journal'[i].kind = "review_started"
                                           /\ journal'[i].review = journal'[k].review
              /\ \A i \in 1..(k - 1) : journal'[i].review = journal'[k].review =>
                     /\ journal'[i].by = journal'[k].by
                     /\ journal'[k].kind # "review_started"
                     /\ journal'[i].kind # "review_finished"
                     /\ journal'[k].kind = "review_attempt" =>
                            /\ journal'[i].kind \in {"review_started", "review_attempt"}
                            /\ journal'[i].kind = "review_attempt" =>
                                   journal'[i].what.attempt < journal'[k].what.attempt
      <3>1. \A k \in 1..Len(journal) : \A i \in 1..(k - 1) : i \in 1..Len(journal)
        BY <2>1
      <3> QED BY <1>0, <2>1, <3>1 DEF OneRunPerReview
    <2>5. CASE pc[c] = "start"
      <3>1. kind = "review_started" /\ \A i \in 1..Len(journal) : journal[i].review # r
        BY <1>2, <2>3, <2>5 DEF OwnEvent, Journaled
      <3>2. \A i \in 1..(N - 1) : i \in 1..Len(journal)
        BY <2>1
      <3>3. \A i \in 1..(N - 1) : journal'[i].review # journal'[N].review
        BY <2>1, <2>2, <3>1, <3>2
      <3>4. journal'[N].kind = "review_started"
        BY <2>2, <3>1
      <3> HIDE DEF N, r
      <3> QED BY <2>1, <2>7, <3>3, <3>4 DEF OneRunPerReview
    <2>6. CASE pc[c] # "start"
      <3>1. /\ kind \in {"review_attempt", "finding_observed", "review_finished"}
            /\ kind = "review_attempt" <=> pc[c] = "record"
            /\ pc[c] \in {"record", "observe", "finish"}
        BY <1>2, <2>6 DEF OwnEvent
      <3>2. /\ \E i \in 1..Len(journal) :
                   journal[i].review = r /\ journal[i].kind = "review_started"
            /\ \A i \in 1..Len(journal) :
                   journal[i].review = r => journal[i].kind # "review_finished"
        BY <2>3, <3>1 DEF Journaled, Under, Trying
      <3>3. ASSUME kind = "review_attempt", NEW i \in 1..Len(journal), journal[i].review = r
            PROVE  /\ journal[i].kind \in {"review_started", "review_attempt"}
                   /\ journal[i].kind = "review_attempt" =>
                          journal[i].what.attempt < what.attempt
        <4>1. /\ journal[i].kind \in {"review_started", "review_attempt"}
              /\ journal[i].kind = "review_attempt" => journal[i].what.attempt <= n
          BY <2>3, <3>1, <3>3 DEF Journaled, Under, Trying
        <4>2. journal[i].kind = "review_attempt" => journal[i].what.attempt \in Nat
          <5>1. journal[i] \in JournalEvent
            BY <1>0 DEF TypeInv
          <5> QED BY <5>1 DEF JournalEvent, AttemptRecord
        <4>3. what.attempt = n + 1 /\ n \in Nat
          <5>1. what = Entry(c) /\ job[c].attempts \in Seq(AttemptRecord)
            BY <1>0, <1>2, <3>1, <3>3 DEF OwnEvent, TypeInv, TypeOK, Job
          <5> QED BY <1>0, <3>1, <3>3, <5>1, EntryIs DEF Number
        <4> QED BY <4>1, <4>2, <4>3
      <3>4. \A i \in 1..(N - 1) : i \in 1..Len(journal)
        BY <2>1
      <3>5. \A i \in 1..Len(journal) : i \in 1..(N - 1)
        BY <2>1
      <3>6. journal'[N].kind # "review_started" =>
                \E i \in 1..(N - 1) :
                    journal'[i].kind = "review_started" /\ journal'[i].review = journal'[N].review
        BY <2>1, <2>2, <3>2, <3>5
      <3>7. \A i \in 1..(N - 1) : journal'[i].review = journal'[N].review =>
                /\ journal'[i].by = journal'[N].by
                /\ journal'[N].kind # "review_started"
                /\ journal'[i].kind # "review_finished"
                /\ journal'[N].kind = "review_attempt" =>
                       /\ journal'[i].kind \in {"review_started", "review_attempt"}
                       /\ journal'[i].kind = "review_attempt" =>
                              journal'[i].what.attempt < journal'[N].what.attempt
        BY <2>1, <2>2, <2>4, <3>1, <3>2, <3>3, <3>4
      <3> HIDE DEF N
      <3> QED BY <2>1, <2>7, <3>6, <3>7 DEF OneRunPerReview
    <2> QED BY <2>5, <2>6
  <1> QED BY <1>1, <1>2 DEF Seen, JournalSeen

-----------------------------------------------------------------------------
(* Receipts.                                                               *)

\* A receipt that was there stays and stands.
LEMMA StandingOn ==
    ASSUME IInv, TypeInv', NEW c \in Clients, Seen(c), NEW r \in ReviewIds,
           Whole(disk[r].receipt)
    PROVE  /\ disk'[r].receipt = disk[r].receipt
           /\ Stands(journal', r, disk'[r]) /\ Tells(disk'[r])
  <1> DEFINE D == disk[r]
             E == disk'[r]
             receipt == D.receipt.contents
  <1>0. TypeInv /\ Owned /\ Recorded /\ Standing
    BY DEF IInv
  <1>1. Longer
    BY <1>0, GrowsOnly DEF Seen
  <1>2. CASE E = D
    <2>1. /\ receipt.head \in 0..Len(journal') /\ receipt.head \in 0..Len(journal)
          /\ receipt.head \in Nat /\ receipt.head <= receipt.head
      BY <1>0, <1>1 DEF Longer, Standing, Stands
    <2>2. Stands(journal, r, D) /\ Tells(D)
      BY <1>0 DEF Standing
    <2>3. Stands(journal', r, D)
      BY <1>1, <2>1, <2>2, ToldOn DEF Stands
    <2> QED BY <1>2, <2>2, <2>3
  <1>3. CASE E # D
    <2>1. /\ r = job[c].review /\ pc[c] \notin {"idle", "done"}
          /\ ResponsesSeen(c) /\ ReceiptSeen(c) /\ D = Mine(c) /\ E = MineNext(c)
      BY <1>3 DEF Seen, Still, Mine, MineNext
    <2>2. E.receipt = D.receipt
      BY <2>1, ThreeStates DEF ReceiptSeen
    <2>3. receipt.attempts # << >> =>
              \A k \in 1..Attempts : E.responses[k] = D.responses[k]
      <3>1. ASSUME receipt.attempts # << >> PROVE pc[c] # "respond"
        <4>1. ASSUME pc[c] = "respond" PROVE FALSE
          <5>1. Kept(journal, "respond", job[c], Mine(c), c)
            BY <1>0, <4>1 DEF Recorded, Owning, Trying
          <5> QED BY <2>1, <3>1, <5>1 DEF Kept
        <4> QED BY <4>1
      <3> QED BY <2>1, <3>1 DEF ResponsesSeen
    <2>4. \A k \in 1..Attempts : \A x : D.responses[k] = Holding(x) => E.responses[k] = Holding(x)
      <3>1. \A x : Absent # Holding(x)
        BY ThreeStates
      <3> QED BY <2>1, <3>1 DEF ResponsesSeen
    <2>5. /\ Stands(journal, r, D) /\ Tells(D)
      BY <1>0 DEF Standing
    <2>6. /\ Whole(E.receipt) /\ E.receipt.contents = receipt
          /\ Len(receipt.attempts) \in 0..Attempts
          /\ \A i \in 1..Len(receipt.attempts) : i \in 1..Attempts
      BY <2>2, <2>5, ReviewAssumption DEF Stands
    <2>7. Verifies(E)
      <3>1. Verifies(D)
        BY <2>5 DEF Stands
      <3> QED BY <2>4, <2>6, <3>1 DEF Verifies
    <2>8. Stands(journal', r, E)
      <3>1. /\ receipt.head \in 0..Len(journal') /\ receipt.head \in 0..Len(journal)
            /\ receipt.head \in Nat /\ receipt.head <= receipt.head
        BY <1>1, <2>5 DEF Longer, Stands
      <3>2. /\ \A f \in receipt.findings :
                   Told(journal', receipt.head, r, "finding_observed", f)
            /\ \A k \in 1..Len(receipt.attempts) :
                   Told(journal', receipt.head, r, "review_attempt", receipt.attempts[k])
        BY <1>1, <2>5, <3>1, ToldOn DEF Stands
      <3> QED BY <2>6, <2>7, <3>1, <3>2 DEF Stands
    <2>9. Tells(E)
      <3>1. CASE receipt.attempts = << >>
        BY <2>6, <3>1 DEF Tells
      <3>2. CASE receipt.attempts # << >>
        <4>1. FindingsIn(E.responses, Len(receipt.attempts))
                  = FindingsIn(D.responses, Len(receipt.attempts))
          BY <2>3, <2>6, <3>2, FindingsOf
        <4> QED BY <2>5, <2>6, <3>2, <4>1 DEF Tells
      <3> QED BY <3>1, <3>2
    <2> QED BY <2>2, <2>8, <2>9
  <1> QED BY <1>2, <1>3

\* The receipt c has just written.
LEMMA StandingNew ==
    ASSUME IInv, TypeInv', NEW c \in Clients, Seen(c), pc[c] = "receipt",
           MineNext(c).receipt = Holding(Receipt(c))
    PROVE  Stands(journal', job[c].review, MineNext(c)) /\ Tells(MineNext(c))
  <1> DEFINE D == Mine(c)
             E == MineNext(c)
             j == job[c]
             n == Len(job[c].attempts)
  <1>0. TypeInv /\ Owned /\ Recorded /\ Unprepared
    BY DEF IInv
  <1>1. journal' = journal /\ \A k \in 1..Attempts : E.responses[k] = D.responses[k]
    BY DEF Seen, JournalSeen, OwnEvent, ResponsesSeen
  <1>2. /\ Whole(E.receipt) /\ E.receipt.contents = Receipt(c)
        /\ Receipt(c) = ReceiptOf(c, j)
    BY ThreeStates DEF Receipt, ReceiptOf
  <1>3. j \in Job /\ j.attempts \in Seq(AttemptRecord)
    BY <1>0 DEF TypeInv, TypeOK, Job
  <1>4. CASE j.attempts = << >>
    <2>1. j.status = "contract_failed" /\ j.retained = {} /\ j.head \in 0..Len(journal)
      BY <1>0, <1>4 DEF Unprepared
    <2>2. /\ Receipt(c).status = "contract_failed" /\ Receipt(c).findings = {}
          /\ Receipt(c).attempts = << >> /\ Receipt(c).head \in 0..Len(journal)
      BY <1>4, <2>1 DEF Receipt
    <2>3. Verifies(E)
      BY <1>2, <2>2 DEF Verifies
    <2>4. 0 \in 0..Attempts /\ Len(<< >>) = 0
      BY ReviewAssumption
    <2> QED BY <1>1, <1>2, <2>2, <2>3, <2>4 DEF Stands, Tells
  <1>5. CASE j.attempts # << >>
    <2>1. /\ Kept(journal, "receipt", j, D, c)
          /\ Ended(journal, "receipt", j, D, c)
      BY <1>0, <1>5 DEF Recorded, Owning, Kept, Trying
    <2>2. /\ n \in 1..Attempts /\ j.fallbacks = FallbacksOf(j.attempts, n - 1)
          /\ Decided(j.status, j.attempts)
          /\ j.status = "accepted" => D.responses[n] = Holding(<<c, n, j.outcome>>)
          /\ j.todo = {} /\ j.head \in 0..Len(journal) /\ Backed(journal, j, j.head)
          /\ j.retained = FindingsIn(D.responses, n)
      BY <2>1 DEF Ended, Kept
    <2>3. /\ Receipt(c).status = j.status /\ Receipt(c).findings = j.retained
          /\ Receipt(c).attempts = j.attempts /\ Receipt(c).head = j.head
          /\ Receipt(c).fallbacks = j.fallbacks
          /\ j.status = "accepted" => Receipt(c).response = <<c, n, j.outcome>>
      BY DEF Receipt
    <2>4. Verifies(E)
      <3>1. CASE j.status # "accepted"
        BY <1>2, <2>3, <3>1 DEF Verifies
      <3>2. CASE j.status = "accepted"
        <4>1. {i \in 1..n : j.attempts[i].status = "accepted"} = {n}
          BY SMTT(60), <2>2, <3>2 DEF Decided
        <4>2. Cardinality({n}) = 1
          BY FS_Singleton
        <4>3. E.responses[n] = Holding(Receipt(c).response)
          BY <1>1, <2>2, <2>3, <3>2
        <4>4. /\ E.receipt.contents.attempts = j.attempts
              /\ E.receipt.contents.status = "accepted"
              /\ E.receipt.contents.response = Receipt(c).response
          BY <1>2, <2>3, <3>2
        <4>5. Len(E.receipt.contents.attempts) = n
          BY <4>4
        <4>6. {i \in 1..Len(E.receipt.contents.attempts) :
                   E.receipt.contents.attempts[i].status = "accepted"} = {n}
          BY <4>1, <4>4, <4>5
        <4> HIDE DEF E, n
        <4> QED BY <1>2, <4>2, <4>3, <4>4, <4>6 DEF Verifies
      <3> QED BY <3>1, <3>2
    <2>5. Stands(journal', j.review, E)
      <3>1. n \in 0..Attempts /\ j.retained \ j.todo = j.retained
        BY <2>2, ReviewAssumption
      <3> QED BY <1>1, <1>2, <2>2, <2>3, <2>4, <3>1 DEF Stands, Backed
    <2>6. Tells(E)
      <3>1. \A i \in 1..n : E.responses[i] = D.responses[i]
        BY <1>1, <2>2, ReviewAssumption
      <3>2. FindingsIn(E.responses, n) = FindingsIn(D.responses, n)
        BY SMTT(60), <2>2, <3>1, FindingsOf
      <3> QED BY <1>2, <2>2, <2>3, <3>2 DEF Tells
    <2> QED BY <2>5, <2>6
  <1> QED BY <1>4, <1>5

LEMMA StandingStep ==
    ASSUME IInv, TypeInv', NEW c \in Clients, Seen(c)
    PROVE  Standing'
  <1>1. ASSUME NEW r \in ReviewIds
        PROVE  Stands(journal', r, disk'[r]) /\ Tells(disk'[r])
    <2>1. CASE Whole(disk[r].receipt)
      BY <2>1, StandingOn
    <2>2. CASE ~Whole(disk'[r].receipt)
      BY <2>2 DEF Stands, Tells
    <2>3. CASE ~Whole(disk[r].receipt) /\ Whole(disk'[r].receipt)
      <3>1. /\ r = job[c].review /\ pc[c] \notin {"idle", "done"} /\ ReceiptSeen(c)
            /\ disk[r] = Mine(c) /\ disk'[r] = MineNext(c)
        BY <2>3 DEF Seen, Still, Mine, MineNext
      <3>2. pc[c] = "receipt" /\ MineNext(c).receipt = Holding(Receipt(c))
        BY <2>3, <3>1, ThreeStates DEF ReceiptSeen
      <3> QED BY <3>1, <3>2, StandingNew
    <2> QED BY <2>1, <2>2, <2>3
  <1> QED BY <1>1 DEF Standing

LEMMA FinishedStep ==
    ASSUME IInv, TypeInv', NEW c \in Clients, Seen(c)
    PROVE  FinishedWithReceipt'
  <1>0. TypeInv /\ Unprepared /\ Recorded /\ FinishedWithReceipt
    BY DEF IInv
  <1>1. ASSUME NEW i \in 1..Len(journal), journal[i].kind = "review_finished"
        PROVE  LET D == disk'[journal[i].review]
               IN  /\ Whole(D.receipt)
                   /\ D.receipt.contents.status = journal[i].what
                   /\ D.receipt.contents.head < i
    <2>1. journal[i].review \in ReviewIds
      BY <1>0 DEF TypeInv, TypeOK
    <2> QED BY <1>0, <1>1, <2>1, StandingOn DEF FinishedWithReceipt
  <1>2. CASE journal' = journal
    BY <1>1, <1>2 DEF FinishedWithReceipt
  <1>3. ASSUME NEW kind, NEW what, OwnEvent(c, kind, what), Records(c, kind, what)
        PROVE  FinishedWithReceipt'
    <2> DEFINE N == Len(journal) + 1
               D == MineNext(c)
    <2>1. /\ Len(journal) \in Nat
          /\ \A i \in 1..Len(journal) : journal'[i] = journal[i]
          /\ \A i \in 1..Len(journal') : i \in 1..Len(journal) \/ i = N
          /\ journal'[N] = Event(c, kind, what)
      BY <1>0, <1>3, NewEvent DEF Records
    <2>2. /\ Owning(c) /\ journal'[N].review = job[c].review
          /\ journal'[N].kind = kind /\ journal'[N].what = what /\ job[c].review \in ReviewIds
      BY <1>0, <1>3, <2>1, OwnersAppend
    <2>3. ASSUME kind = "review_finished"
          PROVE  Whole(D.receipt) /\ D.receipt.contents.status = what
                 /\ D.receipt.contents.head < N
      <3>1. pc[c] = "finish" /\ what = job[c].status
        BY <1>3, <2>3 DEF OwnEvent
      <3>2. /\ Mine(c).receipt = Holding(ReceiptOf(c, job[c]))
            /\ job[c].head \in 0..Len(journal)
        BY <1>0, <2>2, <3>1 DEF Recorded, Kept, Ended, Trying
      <3>3. D.receipt = Mine(c).receipt
        BY <2>2, <3>2, StandingOn, ThreeStates DEF Mine, MineNext
      <3>4. /\ Whole(D.receipt) /\ D.receipt.contents.status = job[c].status
            /\ D.receipt.contents.head = job[c].head
        BY <3>2, <3>3, ThreeStates DEF ReceiptOf
      <3> QED BY <2>1, <3>1, <3>2, <3>4
    <2> QED BY <1>1, <2>1, <2>2, <2>3 DEF FinishedWithReceipt, MineNext
  <1> QED BY <1>2, <1>3 DEF Seen, JournalSeen

-----------------------------------------------------------------------------
(* The invariant, and what follows from it.                                *)

LEMMA InvInit == Init => IInv
  <1> SUFFICES ASSUME Init PROVE IInv
    OBVIOUS
  <1>1. /\ journal = << >> /\ Len(journal) = 0 /\ 1..0 = {}
        /\ \A c \in Clients : pc[c] = "idle" /\ job[c] = NoJob
        /\ \A r \in ReviewIds : disk[r] = NoDirectory
    BY DEF Init
  <1>2. \A c \in Clients : ~Owning(c)
    BY <1>1 DEF Owning, Trying, NoJob
  <1>3. /\ NoDirectory.receipt = Absent
        /\ \A k \in 1..Attempts : NoDirectory.responses[k] = Absent
    BY DEF NoDirectory
  <1>4. Owned /\ Recorded /\ OneRunPerReview /\ FinishedWithReceipt
    BY <1>1, <1>2 DEF Owned, Recorded, OneRunPerReview, FinishedWithReceipt
  <1>5. Unprepared
    BY <1>1 DEF Unprepared
  <1>6. AfterPacket /\ Standing
    BY <1>1, <1>3, ThreeStates DEF AfterPacket, Standing, Stands, Tells
  <1> QED BY <1>4, <1>5, <1>6, TypeInit DEF IInv

LEMMA InvStep == IInv /\ [Next]_vars => IInv'
  <1> SUFFICES ASSUME IInv, [Next]_vars PROVE IInv'
    OBVIOUS
  <1>0. TypeInv /\ Owned /\ Unprepared
    BY DEF IInv
  <1>1. CASE UNCHANGED vars
    <2>1. TypeInv'
      BY <1>0, <1>1, TypeStutter
    <2>2. /\ journal' = journal /\ disk' = disk /\ pc' = pc /\ job' = job
      BY <1>1 DEF vars
    <2>3. Owned' /\ Unprepared' /\ AfterPacket'
      BY <2>2 DEF IInv, Owned, Unprepared, AfterPacket, Owning, Mine
    <2>4. Recorded'
      BY <2>2 DEF IInv, Recorded, Owning, Mine
    <2>5. OneRunPerReview' /\ Standing' /\ FinishedWithReceipt'
      BY <2>2 DEF IInv, OneRunPerReview, Standing, FinishedWithReceipt
    <2> QED BY <2>1, <2>3, <2>4, <2>5 DEF IInv
  <1>2. ASSUME NEW c \in Clients, Frame(c), Scalars, Does(c)
        PROVE  IInv'
    <2>1. TypeInv' /\ Seen(c)
      BY <1>0, <1>2, TypeStep, StepSeen
    <2> QED BY <1>0, <1>2, <2>1, OwnedStep, RecordedStep, UnpreparedStep, AfterPacketStep,
               OneRunStep, StandingStep, FinishedStep DEF IInv
  <1> QED BY <1>0, <1>1, <1>2, StepEffect

\* The inductive invariant of review(): ownership, what is recorded at each of its steps,
\* and what the receipts on disk say.
THEOREM Invariance == Spec => []IInv
  BY InvInit, InvStep, PTL DEF Spec

\* However many processes are started under one review id, the journal tells of one run
\* (ReviewClient's OneRunPerReview).
THEOREM OnlyOneRun == Spec => []OneRunPerReview
  <1>1. IInv => OneRunPerReview
    BY DEF IInv
  <1> QED BY Invariance, <1>1, PTL

\* A receipt verifies and comes after what it reports, and a review is finished only
\* after its receipt, whatever fails or is killed in between (ReviewClient's
\* EvidenceInOrder).
THEOREM EvidenceComesInOrder == Spec => []EvidenceInOrder
  <1>1. IInv => EvidenceInOrder
    <2> SUFFICES ASSUME IInv PROVE EvidenceInOrder
      OBVIOUS
    <2>1. ReceiptIsBacked
      BY SMTT(60) DEF IInv, Standing, Stands, Told, ReceiptIsBacked, Receipts
    <2>2. \A i \in 1..Len(journal) : journal[i].review \in ReviewIds
      BY DEF IInv, TypeInv, TypeOK
    <2> QED BY <2>1, <2>2 DEF IInv, FinishedWithReceipt, EvidenceInOrder, Receipts
  <1> QED BY Invariance, <1>1, PTL

\* A receipt tells its run as it was (ReviewClient's ReceiptTellsTheRun).
THEOREM ReceiptsTellTheRun == Spec => []ReceiptTellsTheRun
  <1>1. IInv => ReceiptTellsTheRun
    <2> SUFFICES ASSUME IInv, NEW r \in Receipts,
                        disk[r].receipt.contents.attempts # << >>
                 PROVE  LET receipt  == disk[r].receipt.contents
                            attempts == receipt.attempts
                            last     == Len(attempts)
                        IN  /\ \A k \in 1..last :
                                   attempts[k].status = "accepted"
                                       <=> k = last /\ receipt.status = "accepted"
                            /\ receipt.status = "partial" <=>
                                   /\ receipt.status # "accepted"
                                   /\ \E k \in 1..last : attempts[k].status = "partial"
                            /\ receipt.findings =
                                   UNION {disk[r].responses[k].contents[3].findings :
                                           k \in {i \in 1..last : Whole(disk[r].responses[i])}}
                            /\ receipt.fallbacks =
                                   [k \in 1..(last - 1) |->
                                        [from |-> k, reason |-> attempts[k].status]]
      BY DEF ReceiptTellsTheRun
    <2>1. Whole(disk[r].receipt) /\ Tells(disk[r])
      BY DEF IInv, Standing, Receipts
    <2> QED BY <2>1 DEF Tells, Decided, FindingsIn, FallbacksOf
  <1> QED BY Invariance, <1>1, PTL

=============================================================================
