------------------------ MODULE JournalHistory_proofs -----------------------
(***************************************************************************)
(* What the journal promises over time, for every set of processes,        *)
(* findings and identities and for every bound: what was read stays, what  *)
(* was acknowledged is there once and in order, and no corruption is       *)
(* reported that is not there.  And what that makes of the journal for its *)
(* callers: an implementation of FindingLifecycle, in which the loop of    *)
(* _project finds the statuses the writers check against.                  *)
(*                                                                         *)
(* The argument: what is committed changes in three ways only (Same, Tears *)
(* and Grows), and it grows by an event whose number its process has not   *)
(* used before.  HInv adds that to the invariant of ProjectJournal_proofs. *)
(***************************************************************************)
EXTENDS ProjectJournal_proofs

\* fsync comes after the whole line.
SentOK == \A p \in Procs : pc[p] = "sync" => sent = 3

\* A process appends an event with the number of its operation.
IdsOK ==
    \A p \in Procs : pc[p] \notin {"idle", "read"} => pending[p].id = <<p, ops[p] - 1>>

\* Every committed event has a number its process has used, and not for the operation it
\* is in.
UsedOK ==
    Committed.ends # "torn" =>
        \A i \in 1..Len(Committed.lines) :
            LET id == Committed.lines[i].id
            IN  /\ id[2] < ops[id[1]]
                /\ pc[id[1]] # "idle" => id[2] < ops[id[1]] - 1

HInv ==
    SentOK /\ IdsOK /\ UsedOK /\ ReadsAreFinal /\ AckedOnceInOrder

-----------------------------------------------------------------------------
(* What a step of one process does.                                        *)

Same == Committed' = Committed /\ acked' = acked

Tears == Committed.ends # "torn" /\ Committed'.ends = "torn"

\* The append of p is committed, and perhaps acknowledged.
Grows(p) ==
    /\ Committed.ends # "torn"
    /\ Committed'.lines = Append(Committed.lines, pending[p])
    /\ acked' \subseteq acked \cup {pending[p].id}
    /\ pending[p] \in Event
    /\ pc[p] \notin {"idle", "read"} /\ pc'[p] = "idle"

OthersUnchanged(p) ==
    \A q \in Procs \ {p} :
        /\ pc'[q] = pc[q] /\ pending'[q] = pending[q] /\ seen'[q] = seen[q]
        /\ outcome'[q] = outcome[q] /\ ops'[q] = ops[q]
        /\ pc[q] = "sync" => sent' = sent

\* The parts of an effect, for process p.
Numbers(p) ==
    /\ \/ pc[p] = "idle" /\ ops'[p] = ops[p] + 1
       \/ pc[p] # "idle" /\ ops'[p] = ops[p]
    /\ pc'[p] \notin {"idle", "read"} => pending'[p].id = <<p, ops'[p] - 1>>
    /\ pc'[p] = "sync" => sent' = 3

Learns(p) ==
    /\ seen'[p] = seen[p] \/ (Same /\ seen'[p] = Committed.lines)
    /\ outcome'[p] = "journal_corrupt" =>
           \/ outcome[p] = "journal_corrupt" \/ faults' # faults
           \/ Same /\ (Committed.ends = "torn" \/ ~OneIdentity(Committed.lines, IdentityOf[p]))

Effect(p) == OthersUnchanged(p) /\ Numbers(p) /\ Learns(p) /\ (Same \/ Tears \/ Grows(p))

\* A step of p that leaves the file alone, between states in which p does not write.
LEMMA CommittedStays ==
    ASSUME NEW p \in Procs, FileUnchanged, ~Writing(p), ~Writing(p)',
           \A q \in Procs \ {p} : pc'[q] = pc[q]
    PROVE  Committed' = Committed
<1>1. (\E q \in Procs : Writing(q))' <=> \E q \in Procs : Writing(q)
  BY DEF Writing
<1> QED BY <1>1 DEF Committed, FileUnchanged

\* While nobody else can write, the file is what is committed.
LEMMA NobodyWrites ==
    ASSUME IInv, \A p \in Procs : pc[p] \in {"write", "sync", "rollback"} => holder # p
    PROVE  Committed = file
BY DEF IInv, LockOK, Committed, Writing

\* What is committed when a writer ends with k pieces of its line in the file.
LEMMA WriterEnds ==
    ASSUME IInv, NEW p \in Procs, Writing(p), pc'[p] = "idle",
           \A q \in Procs \ {p} : pc'[q] = pc[q],
           NEW k \in Pieces, file' = Written(base, pending[p], k)
    PROVE  /\ Committed = base /\ Committed' = Written(base, pending[p], k)
           /\ Committed.ends # "torn" /\ pending[p] \in Event
           /\ k = 0 => Committed' = Committed
           /\ \/ Committed' = Committed
              \/ Committed'.ends = "torn"
              \/ Committed'.lines = Append(Committed.lines, pending[p])
<1>1. Committed = base
  BY DEF Committed
<1>2. \A q \in Procs : ~Writing(q)'
  <2>1. \A q \in Procs \ {p} : ~Writing(q)
    BY DEF IInv, LockOK, Writing
  <2> QED BY <2>1 DEF Writing
<1>3. Committed' = Written(base, pending[p], k)
  BY <1>2 DEF Committed
<1>4. base.ends # "torn" /\ pending[p] \in Event
  BY DEF IInv, WriteOK
<1>5. k = 0 => Written(base, pending[p], k) = base
  BY DEF Written
<1>6. \/ Written(base, pending[p], k) = base
      \/ Written(base, pending[p], k).ends = "torn"
      \/ Written(base, pending[p], k).lines = Append(base.lines, pending[p])
  <2>1. base = [lines |-> base.lines, ends |-> base.ends]
    BY DEF IInv, TypeOK, File
  <2> QED BY <2>1 DEF Written
<1> QED BY <1>1, <1>3, <1>4, <1>5, <1>6

\* A call gives its process a new number and leaves the file alone.
LEMMA CallEffect ==
    ASSUME IInv, NEW p \in Procs, BeginAppend(p) \/ BeginChange(p) \/ BeginRead(p)
    PROVE  Effect(p)
<1>1. PICK entry \in {"lock", "choose", "read"}, event \in Event \cup {NoEvent} :
          /\ Call(p, entry, event)
          /\ entry # "read" => event.id = <<p, ops[p]>>
  <2>0. TypeOK /\ JournalAssumption
    BY JournalAssumption DEF IInv
  <2>1. CASE BeginAppend(p)
    <3>1. PICK f \in Findings, s \in ObservedAs, kind \in {"observed", "other"} :
              Call(p, "lock", NewEvent(p, kind, f, s))
      BY <2>1 DEF BeginAppend
    <3>2. NewEvent(p, kind, f, s) \in Event /\ NewEvent(p, kind, f, s).id = <<p, ops[p]>>
      BY <2>0, NewEventIsTyped DEF NewEvent, JournalAssumption
    <3> QED BY <3>1, <3>2
  <2>2. CASE BeginChange(p)
    <3>1. PICK f \in Findings, s \in Targets : Call(p, "choose", NewEvent(p, "changed", f, s))
      BY <2>2 DEF BeginChange
    <3>2. NewEvent(p, "changed", f, s) \in Event /\ NewEvent(p, "changed", f, s).id = <<p, ops[p]>>
      BY <2>0, NewEventIsTyped DEF NewEvent, JournalAssumption
    <3> QED BY <3>1, <3>2
  <2>3. CASE BeginRead(p)
    BY <2>3 DEF BeginRead
  <2> QED BY <2>1, <2>2, <2>3
<1>2. FileUnchanged /\ UNCHANGED <<seen, acked>>
  BY DEF BeginAppend, BeginChange, BeginRead
<1>3. /\ pc \in [Procs -> PcStates] /\ pending \in [Procs -> Event \cup {NoEvent}]
      /\ ops \in [Procs -> 0..MaxOps] /\ ops[p] \in Nat
      /\ outcome \in [Procs -> Outcomes]
  BY JournalAssumption DEF IInv, TypeOK
<1>4. /\ pc[p] = "idle" /\ pc'[p] = entry /\ pending'[p] = event /\ outcome'[p] = "none"
      /\ ops'[p] = ops[p] + 1
  BY <1>1, <1>3 DEF Call, Goto
<1>5. OthersUnchanged(p)
  BY <1>1, <1>2, <1>3 DEF Call, Goto, OthersUnchanged, FileUnchanged
<1>6. Same
  <2>1. ~Writing(p) /\ ~Writing(p)'
    BY <1>4 DEF Writing
  <2> QED BY <1>2, <1>5, <2>1, CommittedStays DEF Same, OthersUnchanged
<1>7. Numbers(p)
  BY <1>1, <1>3, <1>4 DEF Numbers
<1> QED BY <1>2, <1>4, <1>5, <1>6, <1>7 DEF Effect, Learns

\* A read under LOCK_SH sees what is committed, and finds fault with nothing else.
LEMMA ReadEffect ==
    ASSUME IInv, IdsOK, NEW p \in Procs, Read(p) \/ ChooseSource(p) \/ PreValidate(p)
    PROVE  Effect(p)
<1>1. /\ pc \in [Procs -> PcStates] /\ pending \in [Procs -> Event \cup {NoEvent}]
      /\ outcome \in [Procs -> Outcomes]
      /\ seen \in [Procs -> Seq(Event)]
  BY DEF IInv, TypeOK
<1>2. Committed = file
  <2>1. holder = NoProc /\ NoProc \notin Procs
    BY JournalAssumption DEF Read, ChooseSource, PreValidate, SharedLock
  <2> QED BY <2>1, NobodyWrites
<1>3. /\ FileUnchanged /\ UNCHANGED <<acked, ops>> /\ pc[p] \in {"read", "choose", "validate"}
      /\ pc[p] # "read" => pending[p] \in Event /\ pending[p].id = <<p, ops[p] - 1>>
  BY DEF Read, ChooseSource, PreValidate, IdsOK, IInv, PendingOK
<1>4. /\ \/ Return(p, "ok")
         \/ Return(p, "journal_corrupt") /\ ~Legible(p)
         \/ Return(p, "refused")
         \/ /\ pc' = [pc EXCEPT ![p] = "validate"] /\ UNCHANGED outcome /\ pc[p] # "read"
            /\ \E s \in Statuses : pending' = [pending EXCEPT ![p].from = s]
         \/ pc' = [pc EXCEPT ![p] = "lock"] /\ UNCHANGED <<outcome, pending>> /\ pc[p] # "read"
      /\ seen' = seen \/ seen' = [seen EXCEPT ![p] = file.lines]
  <2>1. CASE Read(p)
    BY <2>1 DEF Read
  <2>2. CASE ChooseSource(p)
    <3>1. StatusIn(file.lines, pending[p].finding) \in Statuses \cup {Unobserved}
      BY CurrentStatusIsTyped DEF IInv
    <3> QED BY <2>2, <3>1 DEF ChooseSource, Goto
  <2>3. CASE PreValidate(p)
    BY <2>3 DEF PreValidate, Goto
  <2> QED BY <2>1, <2>2, <2>3
<1>5. OthersUnchanged(p)
  BY <1>1, <1>3, <1>4 DEF OthersUnchanged, Return, FileUnchanged
<1>6. Same
  <2>1. ~Writing(p) /\ ~Writing(p)'
    BY <1>1, <1>3, <1>4 DEF Writing, Return
  <2> QED BY <1>3, <1>5, <2>1, CommittedStays DEF Same, OthersUnchanged
<1>7. Numbers(p)
  <2>1. CASE pc'[p] = "idle"
    BY <1>3, <2>1 DEF Numbers
  <2>2. CASE /\ pc' = [pc EXCEPT ![p] = "validate"] /\ pc[p] # "read"
             /\ \E s \in Statuses : pending' = [pending EXCEPT ![p].from = s]
    <3>1. PICK s \in Statuses : pending' = [pending EXCEPT ![p].from = s]
      BY <2>2
    <3>2. pending'[p].id = pending[p].id
      BY <1>1, <1>3, <2>2, <3>1 DEF Event, EventOver
    <3> QED BY <1>1, <1>3, <2>2, <3>2 DEF Numbers
  <2>3. CASE pc' = [pc EXCEPT ![p] = "lock"] /\ UNCHANGED pending /\ pc[p] # "read"
    BY <1>1, <1>3, <2>3 DEF Numbers
  <2> QED BY <1>1, <1>4, <2>1, <2>2, <2>3 DEF Return
<1>8. Learns(p)
  <2>1. seen'[p] = seen[p] \/ (Same /\ seen'[p] = Committed.lines)
    BY <1>1, <1>2, <1>4, <1>6
  <2>2. ASSUME outcome'[p] = "journal_corrupt", outcome[p] # "journal_corrupt"
        PROVE  Committed.ends = "torn" \/ ~OneIdentity(Committed.lines, IdentityOf[p])
    <3>1. ~Legible(p)
      BY <1>1, <1>4, <2>2 DEF Return
    <3>2. CASE file.ends # "torn"
      <4>1. Verified(file.lines, NoIdentity)
        <5>1. \A q \in Procs : ~Writing(q)
          BY JournalAssumption
          DEF IInv, LockOK, Writing, Read, ChooseSource, PreValidate, SharedLock
        <5> QED BY <3>2, <5>1 DEF IInv, QuietOK
      <4> QED BY <1>2, <3>1, <3>2, <4>1 DEF Legible, Readable, Verified
    <3> QED BY <1>2, <3>2
  <2> QED BY <1>6, <2>1, <2>2 DEF Learns
<1> QED BY <1>5, <1>6, <1>7, <1>8 DEF Effect

\* The steps that leave the file alone and move a process that is not writing.
LEMMA QuietEffect ==
    ASSUME IInv, IdsOK, NEW p \in Procs, FileUnchanged, ~Writing(p),
           UNCHANGED <<seen, ops, acked>>,
           \/ /\ pc[p] # "idle" /\ faults' # faults
              /\ \E result \in Outcomes : Return(p, result)
           \/ /\ pc[p] # "idle" /\ Return(p, "none")
           \/ Goto(p, "lock", "check") /\ UNCHANGED <<pending, outcome>>
    PROVE  Effect(p)
<1>1. /\ pc \in [Procs -> PcStates] /\ pending \in [Procs -> Event \cup {NoEvent}]
      /\ outcome \in [Procs -> Outcomes]
  BY DEF IInv, TypeOK
<1>2. OthersUnchanged(p)
  BY <1>1 DEF OthersUnchanged, Return, Goto, FileUnchanged
<1>3. Same
  <2>1. ~Writing(p)'
    BY <1>1 DEF Writing, Return, Goto
  <2> QED BY <1>2, <2>1, CommittedStays DEF Same, OthersUnchanged
<1>4. Numbers(p)
  <2>1. CASE pc'[p] = "idle" /\ pc[p] # "idle"
    BY <2>1 DEF Numbers
  <2>2. CASE Goto(p, "lock", "check") /\ UNCHANGED pending
    BY <1>1, <2>2 DEF Numbers, Goto, IdsOK
  <2> QED BY <1>1, <2>1, <2>2 DEF Return
<1>5. outcome'[p] = "journal_corrupt" => outcome[p] = "journal_corrupt" \/ faults' # faults
  BY <1>1 DEF Return
<1> QED BY <1>2, <1>3, <1>4, <1>5 DEF Effect, Learns

\* Under the exclusive lock the event gets its envelope and keeps its number.
LEMMA StampEffect ==
    ASSUME IInv, IdsOK, NEW p \in Procs, CheckAndStamp(p)
    PROVE  Effect(p)
<1> DEFINE stamped == WithEnvelope(pending[p], file.lines, IdentityOf[p])
<1>1. /\ pc \in [Procs -> PcStates] /\ pending \in [Procs -> Event \cup {NoEvent}]
      /\ outcome \in [Procs -> Outcomes]
  BY DEF IInv, TypeOK
<1>2. /\ \/ Return(p, "journal_corrupt") /\ ~Legible(p)
         \/ Return(p, "refused")
         \/ /\ pc' = [pc EXCEPT ![p] = "write"] /\ UNCHANGED outcome
            /\ pending' = [pending EXCEPT ![p] = stamped]
            /\ base' = file
            /\ Legible(p)
      /\ pc[p] = "check" /\ UNCHANGED <<file, seen, ops, acked>>
      /\ pending[p].id = <<p, ops[p] - 1>>
  BY DEF CheckAndStamp, Goto, IdsOK
<1>3. Legible(p) => stamped.id = pending[p].id
  <2>1. ASSUME Legible(p) PROVE OneIdentity(file.lines, IdentityOf[p])
    BY <2>1 DEF Legible, Readable, Verified
  <2>2. /\ file.lines \in Seq(EventOver(Procs \X Nat, Identities \cup {NoIdentity}))
        /\ IdentityOf[p] \in Identities \cup {NoIdentity}
        /\ pending[p] \in EventOver(Procs \X Nat, Identities \cup {NoIdentity})
    BY <1>2, JournalAssumption DEF IInv, TypeOK, File, PendingOK, Event
  <2> QED BY <2>1, <2>2, EnvelopeFacts
<1> HIDE DEF stamped
<1>4. /\ \A q \in Procs : ~Writing(q)
      /\ \A q \in Procs \ {p} : pc[q] \notin {"write", "sync", "rollback"}
  BY <1>2 DEF IInv, LockOK, Writing
<1>5. OthersUnchanged(p)
  BY <1>1, <1>2, <1>4 DEF OthersUnchanged, Return
<1>6. Committed = file /\ Committed' = file
  <2>1. Committed = file
    BY <1>4 DEF Committed
  <2>2. CASE pc'[p] = "idle"
    <3>1. \A q \in Procs : ~Writing(q)'
      BY <1>4, <1>5, <2>2 DEF Writing, OthersUnchanged
    <3> QED BY <1>2, <2>1, <3>1 DEF Committed
  <2>3. CASE base' = file
    BY <1>2, <2>1, <2>3 DEF Committed
  <2> QED BY <1>1, <1>2, <2>1, <2>2, <2>3 DEF Return
<1>7. Same
  BY <1>2, <1>6 DEF Same
<1>8. Numbers(p)
  <2>1. CASE pc'[p] = "idle"
    BY <1>2, <2>1 DEF Numbers
  <2>2. CASE /\ pc' = [pc EXCEPT ![p] = "write"] /\ Legible(p)
             /\ pending' = [pending EXCEPT ![p] = stamped]
    BY <1>1, <1>2, <1>3, <2>2 DEF Numbers
  <2> QED BY <1>1, <1>2, <2>1, <2>2 DEF Return
<1>9. ASSUME outcome'[p] = "journal_corrupt", outcome[p] # "journal_corrupt"
      PROVE  Committed.ends = "torn" \/ ~OneIdentity(Committed.lines, IdentityOf[p])
  <2>1. ~Legible(p)
    BY <1>1, <1>2, <1>9 DEF Return
  <2>2. CASE file.ends # "torn"
    <3>1. Verified(file.lines, NoIdentity)
      BY <1>4, <2>2 DEF IInv, QuietOK
    <3> QED BY <1>6, <2>1, <2>2, <3>1 DEF Legible, Readable, Verified
  <2> QED BY <1>6, <2>2
<1>10. Learns(p)
  BY <1>2, <1>7, <1>9 DEF Learns
<1> QED BY <1>5, <1>7, <1>8, <1>10 DEF Effect

\* A writer goes on writing, or finds that it cannot.
LEMMA WriteEffect ==
    ASSUME IInv, IdsOK, NEW p \in Procs, WriteSome(p) \/ WriteFails(p)
    PROVE  Effect(p)
<1>1. /\ pc \in [Procs -> PcStates] /\ Writing(p)
      /\ pc[p] \in {"write", "sync"}
      /\ UNCHANGED <<base, pending, seen, outcome, ops, acked>>
      /\ pending[p].id = <<p, ops[p] - 1>>
  BY DEF IInv, TypeOK, WriteSome, WriteFails, Writing, FileUnchanged, IdsOK
<1>2. \E to \in {"write", "sync", "rollback"} :
          pc' = [pc EXCEPT ![p] = to] /\ (to = "sync" => sent' = 3)
  BY DEF WriteSome, WriteFails, Goto
<1>3. \A q \in Procs \ {p} : pc[q] # "sync"
  BY <1>1 DEF IInv, LockOK, Writing
<1>4. OthersUnchanged(p)
  BY <1>1, <1>2, <1>3 DEF OthersUnchanged
<1>5. Same
  <2>1. Writing(p)'
    BY <1>1, <1>2 DEF Writing
  <2> QED BY <1>1, <2>1 DEF Same, Committed
<1>6. Numbers(p)
  BY <1>1, <1>2 DEF Numbers
<1> QED BY <1>1, <1>4, <1>5, <1>6 DEF Effect, Learns

\* A writer ends: it is done, it rolled back, it could not, or it was killed.
LEMMA EndEffect ==
    ASSUME IInv, SentOK, IdsOK, NEW p \in Procs, Writing(p),
           Sync(p) \/ RollBack(p) \/ RollBackFails(p) \/ Crash(p)
    PROVE  Effect(p)
<1>1. /\ pc \in [Procs -> PcStates] /\ pending \in [Procs -> Event \cup {NoEvent}]
      /\ outcome \in [Procs -> Outcomes]
      /\ sent \in Pieces
  BY DEF IInv, TypeOK
<1>2. \E result \in {"ok", "io_error", "none"} : Return(p, result)
  BY DEF Sync, RollBack, RollBackFails, Crash
<1>3. pc[p] \notin {"idle", "read"} /\ pc'[p] = "idle" /\ UNCHANGED <<seen, ops>>
  BY <1>1, <1>2 DEF Writing, Return, Sync, RollBack, RollBackFails, Crash
<1>4. \A q \in Procs \ {p} : pc[q] # "sync"
  BY DEF IInv, LockOK, Writing
<1>5. OthersUnchanged(p)
  BY <1>1, <1>2, <1>3, <1>4 DEF OthersUnchanged, Return
<1>6. PICK k \in Pieces :
          /\ file' = Written(base, pending[p], k)
          /\ acked' = acked \/ (k = 3 /\ acked' = acked \cup {pending[p].id})
  <2>1. file = Written(base, pending[p], sent)
    BY DEF IInv, WriteOK
  <2>2. CASE Sync(p)
    <3>1. sent = 3
      BY <2>2 DEF Sync, SentOK
    <3> QED BY <1>1, <2>1, <2>2, <3>1 DEF Sync, FileUnchanged
  <2>3. CASE RollBack(p)
    <3>1. 0 \in Pieces /\ Written(base, pending[p], 0) = base
      BY DEF Pieces, Written
    <3> QED BY <2>3, <3>1 DEF RollBack
  <2>4. CASE RollBackFails(p) \/ Crash(p)
    BY <1>1, <2>1, <2>4 DEF RollBackFails, Crash, FileUnchanged
  <2> QED BY <2>2, <2>3, <2>4
<1>7. /\ Committed = base /\ Committed' = Written(base, pending[p], k)
      /\ Committed.ends # "torn" /\ pending[p] \in Event
      /\ \/ Committed' = Committed
         \/ Committed'.ends = "torn"
         \/ Committed'.lines = Append(Committed.lines, pending[p])
  BY <1>3, <1>5, <1>6, WriterEnds DEF OthersUnchanged
<1>8. k = 3 => Committed' # Committed
  <2>1. ASSUME k = 3 PROVE \/ Committed'.ends = "torn"
                           \/ Committed'.lines = Append(Committed.lines, pending[p])
    BY <1>7, <2>1 DEF Written
  <2>2. base.lines \in Seq(Event)
    BY DEF IInv, TypeOK, File
  <2>3. Len(Append(base.lines, pending[p])) = Len(base.lines) + 1 /\ Len(base.lines) \in Nat
    BY <1>7, <2>2, AppendFacts
  <2> QED BY <1>7, <2>1, <2>3
<1>9. Same \/ Tears \/ Grows(p)
  BY <1>3, <1>6, <1>7, <1>8 DEF Same, Tears, Grows
<1>10. Numbers(p) /\ Learns(p)
  BY <1>1, <1>2, <1>3 DEF Numbers, Learns, Return
<1> QED BY <1>5, <1>9, <1>10 DEF Effect

\* Every step of the specification is a step of one process, and has its effect.
LEMMA StepEffect ==
    ASSUME IInv, SentOK, IdsOK, [Next]_vars
    PROVE  UNCHANGED vars \/ \E p \in Procs : Effect(p)
<1>1. ASSUME NEW p \in Procs, AcquireExclusive(p) PROVE Effect(p)
  <2>1. ~Writing(p)
    BY <1>1 DEF AcquireExclusive, Goto, Writing
  <2> QED BY <1>1, <2>1, QuietEffect DEF AcquireExclusive
<1>2. ASSUME NEW p \in Procs, SystemCallFails(p) PROVE Effect(p)
  <2>1. /\ ~Writing(p) /\ pc[p] # "idle"
        /\ FileUnchanged /\ UNCHANGED <<seen, ops, acked>>
        /\ faults' = faults + 1 /\ faults \in Nat
        /\ \E result \in Outcomes : Return(p, result)
    BY <1>2, JournalAssumption
    DEF SystemCallFails, OpenOrReadFails, LockFails, FchmodFails, FailsAt, Writing, Outcomes,
        IInv, TypeOK
  <2>2. faults' # faults
    BY <2>1
  <2> QED BY <2>1, <2>2, QuietEffect
<1>3. ASSUME NEW p \in Procs, Crash(p) PROVE Effect(p)
  <2>1. CASE Writing(p)
    BY <1>3, <2>1, EndEffect
  <2>2. CASE ~Writing(p)
    BY <1>3, <2>2, QuietEffect DEF Crash
  <2> QED BY <2>1, <2>2
<1>4. ASSUME NEW p \in Procs, Sync(p) \/ RollBack(p) \/ RollBackFails(p) PROVE Effect(p)
  <2>1. Writing(p)
    BY <1>4 DEF Sync, RollBack, RollBackFails, Writing
  <2> QED BY <1>4, <2>1, EndEffect
<1> QED
  BY <1>1, <1>2, <1>3, <1>4, CallEffect, ReadEffect, StampEffect, WriteEffect
  DEF Next, Step, Finished

-----------------------------------------------------------------------------
(* The invariant about the history is preserved.                           *)

\* What the lemmas below take for granted of a step of p.
LEMMA Typing ==
    ASSUME IInv
    PROVE  /\ Committed.lines \in Seq(Event) /\ Len(Committed.lines) \in Nat
           /\ seen \in [Procs -> Seq(Event)]
           /\ \A q \in Procs : ops[q] \in Nat /\ Len(seen[q]) \in Nat
           /\ \A i \in 1..Len(Committed.lines) :
                  /\ Committed.lines[i] \in Event
                  /\ Committed.lines[i].id[1] \in Procs /\ Committed.lines[i].id[2] \in Nat
<1>1. Committed \in File /\ seen \in [Procs -> Seq(Event)]
  BY DEF IInv, TypeOK, Committed
<1>2. Committed.lines \in Seq(Event)
  BY <1>1 DEF File
<1>3. \A q \in Procs : ops[q] \in Nat /\ Len(seen[q]) \in Nat
  BY <1>1, LenProperties, JournalAssumption DEF IInv, TypeOK
<1>4. ASSUME NEW i \in 1..Len(Committed.lines)
      PROVE  /\ Committed.lines[i] \in Event
             /\ Committed.lines[i].id[1] \in Procs /\ Committed.lines[i].id[2] \in Nat
  <2>1. Committed.lines[i] \in Event
    BY <1>2, ElementOfSeq
  <2>2. Committed.lines[i].id \in Procs \X Nat
    BY <2>1 DEF Event, EventOver
  <2> QED BY <2>1, <2>2
<1> QED BY <1>1, <1>2, <1>3, <1>4, LenProperties

\* What the committed lines are after a step that grows them.
LEMMA GrownLines ==
    ASSUME IInv, NEW p \in Procs, Grows(p)
    PROVE  /\ Len(Committed'.lines) = Len(Committed.lines) + 1
           /\ \A i \in 1..Len(Committed.lines) : Committed'.lines[i] = Committed.lines[i]
           /\ Committed'.lines[Len(Committed.lines) + 1] = pending[p]
BY Typing, AppendFacts DEF Grows

\* Processes keep appending under the number of their operation.
LEMMA NumbersStep ==
    ASSUME IInv, HInv, NEW p \in Procs, Effect(p)
    PROVE  SentOK' /\ IdsOK'
<1>1. SentOK'
  BY DEF HInv, SentOK, Effect, OthersUnchanged, Numbers
<1>2. IdsOK'
  BY DEF HInv, IdsOK, Effect, OthersUnchanged, Numbers
<1> QED BY <1>1, <1>2

\* Committed numbers stay behind the operations under way.
LEMMA UsedStep ==
    ASSUME IInv, HInv, NEW p \in Procs, Effect(p)
    PROVE  UsedOK'
<1> SUFFICES ASSUME Committed'.ends # "torn", NEW i \in 1..Len(Committed'.lines)
             PROVE  LET id == Committed'.lines[i].id
                    IN  /\ id[2] < ops'[id[1]]
                        /\ pc'[id[1]] # "idle" => id[2] < ops'[id[1]] - 1
  BY DEF UsedOK
<1>1. \A q \in Procs : \/ pc'[q] = pc[q] /\ ops'[q] = ops[q]
                       \/ pc[q] = "idle" /\ ops'[q] = ops[q] + 1
                       \/ pc[q] # "idle" /\ ops'[q] = ops[q]
  BY DEF Effect, OthersUnchanged, Numbers
<1>2. ASSUME NEW j \in 1..Len(Committed.lines), Committed.ends # "torn"
      PROVE  LET id == Committed.lines[j].id
             IN  /\ id[2] < ops'[id[1]]
                 /\ pc'[id[1]] # "idle" => id[2] < ops'[id[1]] - 1
  <2>1. PICK q \in Procs, n \in Nat : q = Committed.lines[j].id[1] /\ n = Committed.lines[j].id[2]
    BY Typing
  <2>2. n < ops[q] /\ (pc[q] # "idle" => n < ops[q] - 1)
    BY <1>2, <2>1 DEF HInv, UsedOK
  <2>3. n < ops'[q] /\ (pc'[q] # "idle" => n < ops'[q] - 1)
    BY <1>1, <2>2, Typing
  <2> QED BY <2>1, <2>3
<1>3. CASE Same
  BY <1>2, <1>3 DEF Same
<1>4. CASE Grows(p)
  <2>1. CASE i \in 1..Len(Committed.lines)
    BY <1>2, <1>4, <2>1, GrownLines DEF Grows
  <2>2. CASE i = Len(Committed.lines) + 1
    <3>1. Committed'.lines[i].id = <<p, ops[p] - 1>>
      BY <1>4, <2>2, GrownLines DEF Grows, HInv, IdsOK
    <3>2. pc'[p] = "idle" /\ ops'[p] = ops[p] /\ ops[p] \in Nat
      BY <1>1, <1>4, Typing DEF Grows
    <3> QED BY <3>1, <3>2
  <2> QED BY <1>4, <2>1, <2>2, GrownLines, Typing
<1> QED BY <1>3, <1>4 DEF Effect, Tears

\* What was read stays.
LEMMA ReadsStep ==
    ASSUME IInv, HInv, NEW p \in Procs, Effect(p)
    PROVE  ReadsAreFinal'
<1> SUFFICES ASSUME Committed'.ends # "torn", NEW q \in Procs
             PROVE  /\ Len(seen'[q]) <= Len(Committed'.lines)
                    /\ seen'[q] = SubSeq(Committed'.lines, 1, Len(seen'[q]))
  BY DEF ReadsAreFinal
<1>1. seen'[q] = seen[q] \/ (Same /\ seen'[q] = Committed.lines)
  BY DEF Effect, OthersUnchanged, Learns
<1>2. CASE Same /\ seen'[q] = Committed.lines
  <2>1. Committed'.lines = Committed.lines
    BY <1>2 DEF Same
  <2>2. SubSeq(Committed.lines, 1, Len(Committed.lines)) = Committed.lines
    BY Typing, SubSeqFull
  <2> QED BY <1>2, <2>1, <2>2, Typing
<1>3. CASE Same /\ seen'[q] = seen[q]
  BY <1>3 DEF Same, HInv, ReadsAreFinal
<1>4. CASE Grows(p) /\ seen'[q] = seen[q]
  <2>1. Len(seen[q]) <= Len(Committed.lines) /\ seen[q] = SubSeq(Committed.lines, 1, Len(seen[q]))
    BY <1>4 DEF HInv, ReadsAreFinal, Grows
  <2>2. PICK n \in Nat : n = Len(seen[q])
    BY Typing
  <2>3. PICK old \in Seq(Event) : old = Committed.lines
    BY Typing
  <2>4. PICK new \in Event : new = pending[p]
    BY <1>4 DEF Grows
  <2>5. Len(old) \in Nat /\ n <= Len(old)
    BY <2>1, <2>2, <2>3, Typing
  <2>6. SubSeq(Append(old, new), 1, n) = SubSeq(old, 1, n)
    <3>1. Append(old, new) \in Seq(Event) /\ Len(Append(old, new)) = Len(old) + 1
      BY AppendFacts
    <3> QED BY <2>5, <3>1, SubSeqProperties, AppendFacts
  <2>7. Committed'.lines = Append(old, new)
    BY <1>4, <2>3, <2>4 DEF Grows
  <2> QED BY <1>4, <2>1, <2>2, <2>3, <2>5, <2>6, <2>7, GrownLines
<1> QED BY <1>1, <1>2, <1>3, <1>4 DEF Effect, Tears

\* What was acknowledged stays, and what is appended is new.
LEMMA AckedStep ==
    ASSUME IInv, HInv, NEW p \in Procs, Effect(p)
    PROVE  AckedOnceInOrder'
<1>1. CASE Committed'.ends = "torn"
  BY <1>1 DEF AckedOnceInOrder
<1>2. CASE Same
  BY <1>2 DEF Same, HInv, AckedOnceInOrder
<1>3. CASE Committed'.ends # "torn" /\ Grows(p)
  <2> DEFINE old == Committed.lines
             new == Committed'.lines
  <2>1. /\ \A id \in acked : \E i \in 1..Len(old) : old[i].id = id
        /\ \A i, j \in 1..Len(old) :
               i < j => old[i].id[1] # old[j].id[1] \/ old[i].id[2] < old[j].id[2]
    BY <1>3 DEF HInv, AckedOnceInOrder, Grows
  <2>2. /\ Len(new) = Len(old) + 1 /\ Len(old) \in Nat
        /\ \A i \in 1..Len(old) : new[i] = old[i]
        /\ new[Len(old) + 1] = pending[p]
    BY <1>3, GrownLines, Typing
  <2>3. pending[p].id = <<p, ops[p] - 1>> /\ pc[p] # "idle" /\ ops[p] \in Nat
    BY <1>3, Typing DEF Grows, HInv, IdsOK
  <2>4. \A i \in 1..Len(old) : old[i].id[1] = p => old[i].id[2] < ops[p] - 1
    BY <1>3, <2>3 DEF HInv, UsedOK, Grows
  <2>5. acked' \subseteq acked \cup {pending[p].id}
    BY <1>3 DEF Grows
  <2> HIDE DEF old, new
  <2>6. ASSUME NEW id \in acked' PROVE \E i \in 1..Len(new) : new[i].id = id
    <3>1. CASE id \in acked
      <4>1. PICK i \in 1..Len(old) : old[i].id = id
        BY <2>1, <3>1
      <4> QED BY <2>2, <4>1
    <3>2. CASE id = pending[p].id
      <4>1. PICK m \in 1..Len(new) : m = Len(old) + 1
        BY <2>2
      <4>2. new[m].id = id
        BY <2>2, <3>2, <4>1
      <4> QED BY <4>2
    <3> QED BY <2>5, <3>1, <3>2
  <2>7. ASSUME NEW i \in 1..Len(new), NEW j \in 1..Len(new), i < j
        PROVE  new[i].id[1] # new[j].id[1] \/ new[i].id[2] < new[j].id[2]
    <3>1. i \in 1..Len(old) /\ new[i] = old[i]
      BY <2>2, <2>7
    <3>2. CASE j \in 1..Len(old)
      BY <2>1, <2>2, <2>7, <3>1, <3>2
    <3>3. CASE j = Len(old) + 1
      <4>1. new[j].id = <<p, ops[p] - 1>>
        BY <2>2, <2>3, <3>3
      <4> QED BY <2>4, <3>1, <4>1
    <3> QED BY <2>2, <3>2, <3>3
  <2> QED BY <2>6, <2>7 DEF AckedOnceInOrder, new
<1> QED BY <1>1, <1>2, <1>3 DEF Effect, Tears

\* The history of an empty journal.
LEMMA HistoryInit == Init => HInv
<1> SUFFICES ASSUME Init PROVE HInv
  OBVIOUS
<1>1. Committed = EmptyFile
  BY DEF Init, Committed
<1>2. Committed.lines = << >> /\ Len(Committed.lines) = 0 /\ acked = {}
  BY <1>1, EmptySeq DEF EmptyFile, Init
<1>3. SentOK /\ IdsOK
  BY DEF Init, SentOK, IdsOK
<1>4. UsedOK /\ AckedOnceInOrder
  BY <1>2 DEF UsedOK, AckedOnceInOrder
<1>5. ReadsAreFinal
  <2>1. ASSUME NEW p \in Procs PROVE seen[p] = << >>
    BY DEF Init
  <2>2. SubSeq(<< >>, 1, 0) = << >> /\ Len(<< >>) = 0
    BY EmptySeq
  <2> HIDE DEF Init
  <2>3. ASSUME NEW p \in Procs
        PROVE  /\ Len(seen[p]) <= Len(Committed.lines)
               /\ seen[p] = SubSeq(Committed.lines, 1, Len(seen[p]))
    <3>1. seen[p] = << >> /\ Len(seen[p]) = 0
      BY <2>1, <2>2
    <3> QED BY <1>2, <2>2, <3>1
  <2> QED BY <2>3 DEF ReadsAreFinal
<1> QED BY <1>3, <1>4, <1>5 DEF HInv

\* Every step preserves the history.
LEMMA HistoryStep == IInv /\ HInv /\ [Next]_vars => HInv'
<1> SUFFICES ASSUME IInv, HInv, [Next]_vars PROVE HInv'
  OBVIOUS
<1>1. CASE UNCHANGED vars
  <2>1. Committed' = Committed
    BY <1>1 DEF vars, Committed, Writing
  <2>2. SentOK' /\ IdsOK' /\ UsedOK'
    BY <1>1, <2>1 DEF vars, HInv, SentOK, IdsOK, UsedOK
  <2>3. ReadsAreFinal' /\ AckedOnceInOrder'
    BY <1>1, <2>1 DEF vars, HInv, ReadsAreFinal, AckedOnceInOrder
  <2> QED BY <2>2, <2>3 DEF HInv
<1>2. CASE \E p \in Procs : Effect(p)
  BY <1>2, NumbersStep, UsedStep, ReadsStep, AckedStep DEF HInv
<1> QED BY <1>1, <1>2, StepEffect DEF HInv

-----------------------------------------------------------------------------
(* The theorems.                                                           *)

\* Every reachable state satisfies both invariants.
THEOREM HistoryInvariance == Spec => [](IInv /\ HInv)
<1>1. Init => IInv /\ HInv
  BY InitIInv, HistoryInit
<1>2. IInv /\ HInv /\ [Next]_vars => IInv' /\ HInv'
  BY TypeStep, ControlStep, FileStep, HistoryStep DEF IInv
<1> QED BY <1>1, <1>2, PTL DEF Spec

\* A line that somebody read stays where it was read, as long as the journal parses:
\* no rollback and no later append touches it.
THEOREM ReadsStayFinal == Spec => []ReadsAreFinal
<1>1. HInv => ReadsAreFinal
  BY DEF HInv
<1> QED BY <1>1, HistoryInvariance, PTL

\* What append() returned is in the journal once, in its process's order, whatever
\* fails, is killed or runs at the same time.
THEOREM AckedStays == Spec => []AckedOnceInOrder
<1>1. HInv => AckedOnceInOrder
  BY DEF HInv
<1> QED BY <1>1, HistoryInvariance, PTL

\* A call in which no system call failed is told journal_corrupt only of a journal that
\* does not parse or is not sound for its process, whatever others are writing.
THEOREM NoFalseAlarm == Spec => CorruptionIsReal
<1>1. IInv /\ HInv /\ [Next]_vars =>
          [\A p \in Procs :
               /\ outcome[p] # "journal_corrupt" /\ outcome'[p] = "journal_corrupt"
               /\ faults' = faults
               => \/ Committed'.ends = "torn"
                  \/ ~OneIdentity(Committed'.lines, IdentityOf[p])]_vars
  <2> SUFFICES ASSUME IInv, HInv, [Next]_vars,
                      NEW p \in Procs,
                      outcome[p] # "journal_corrupt", outcome'[p] = "journal_corrupt",
                      faults' = faults
               PROVE  \/ Committed'.ends = "torn"
                      \/ ~OneIdentity(Committed'.lines, IdentityOf[p])
    OBVIOUS
  <2>1. PICK q \in Procs : Effect(q)
    <3>1. ~UNCHANGED vars
      BY DEF vars
    <3> QED BY <3>1, StepEffect DEF HInv
  <2>2. q = p /\ Learns(p)
    BY <2>1 DEF Effect, OthersUnchanged
  <2>3. Same /\ (Committed.ends = "torn" \/ ~OneIdentity(Committed.lines, IdentityOf[p]))
    BY <2>2 DEF Learns
  <2> QED BY <2>3 DEF Same
<1> QED BY <1>1, HistoryInvariance, PTL DEF Spec, CorruptionIsReal

-----------------------------------------------------------------------------
(* The journal implements the finding lifecycle.                           *)

\* Reported first by this event, or moved by it: the event's status; otherwise what
\* the finding's status was.
LEMMA StatusGrows ==
    ASSUME NEW log \in Seq(Event), NEW e \in Event, NEW f, LegalReplay(log),
           Changes(e, f) => StatusIn(log, f) \in Statuses
    PROVE  StatusIn(Append(log, e), f) =
               IF Changes(e, f) \/ (Observes(e, f) /\ StatusIn(log, f) = Unobserved)
               THEN e.to ELSE StatusIn(log, f)
<1> DEFINE new == Append(log, e)
           n   == Len(log)
           S0  == {i \in 1..n : Observes(log[i], f)}
           C0  == {i \in 1..n : Changes(log[i], f)}
           S1  == {i \in 1..(n + 1) : Observes(new[i], f)}
           C1  == {i \in 1..(n + 1) : Changes(new[i], f)}
           Least(S)    == CHOOSE i \in S : \A j \in S : i <= j
           Greatest(S) == CHOOSE i \in S : \A j \in S : j <= i
<1>1. /\ n \in Nat /\ Len(new) = n + 1 /\ new[n + 1] = e
      /\ \A i \in 1..n : new[i] = log[i]
  BY AppendFacts
<1>2. StatusIn(log, f) = IF S0 = {} THEN Unobserved
                         ELSE IF C0 # {} THEN log[Greatest(C0)].to ELSE log[Least(S0)].to
  BY DEF StatusIn, StatusAt
<1>3. StatusIn(new, f) = IF S1 = {} THEN Unobserved
                         ELSE IF C1 # {} THEN new[Greatest(C1)].to ELSE new[Least(S1)].to
  BY <1>1 DEF StatusIn, StatusAt
<1>4. \A i \in 1..n : log[i].to \in Statuses
  <2>1. \A i \in 1..n : log[i] \in Event
    BY ElementOfSeq
  <2> QED BY <2>1 DEF Event, EventOver
<1>5. S0 = {} <=> StatusIn(log, f) = Unobserved
  BY <1>1, <1>4, StatusIsTyped DEF StatusIn
<1>6. C0 # {} => S0 # {}
  <2> SUFFICES ASSUME NEW i \in C0 PROVE S0 # {}
    OBVIOUS
  <2>1. StatusAt(log, i - 1, f) \in Statuses
    BY DEF LegalReplay, Admissible, Changes
  <2>2. PICK m \in Nat : m = i - 1 /\ m <= n
    BY <1>1
  <2>3. Unobserved \notin Statuses
    BY DEF Unobserved, Statuses
  <2>4. \E j \in 1..m : Observes(log[j], f)
    BY <1>1, <1>4, <2>1, <2>2, <2>3, StatusIsTyped
  <2> QED BY <1>1, <2>2, <2>4
<1>7. ~(Observes(e, f) /\ Changes(e, f))
  BY DEF Observes, Changes
<1>8. /\ S1 = IF Observes(e, f) THEN S0 \cup {n + 1} ELSE S0
      /\ C1 = IF Changes(e, f) THEN C0 \cup {n + 1} ELSE C0
  BY <1>1
<1>9. /\ S0 # {} => Least(S0) \in S0 /\ \A j \in S0 : Least(S0) <= j
      /\ C0 # {} => Greatest(C0) \in C0
  <2>1. S0 # {} => \E i \in S0 : \A j \in S0 : i <= j
    BY <1>1, LeastExists, S0 \subseteq Nat
  <2>2. C0 # {} => \E i \in C0 : \A j \in C0 : j <= i
    BY <1>1, GreatestExists, C0 \subseteq 1..n
  <2> QED BY <2>1, <2>2
<1>10. S0 \subseteq 1..n /\ C0 \subseteq 1..n
  OBVIOUS
<1>11. CASE Changes(e, f)
  <2>1. S1 # {} /\ C1 = C0 \cup {n + 1}
    <3>1. Unobserved \notin Statuses
      BY DEF Unobserved, Statuses
    <3> QED BY <1>5, <1>7, <1>8, <1>11, <3>1
  <2> HIDE DEF S0, C0, S1, C1
  <2>2. n + 1 \in C1 /\ \A j \in C1 : j <= n + 1
    BY <1>1, <1>10, <2>1
  <2>3. \A i \in C1 : (\A j \in C1 : j <= i) => i = n + 1
    BY <1>1, <1>10, <2>1
  <2>4. Greatest(C1) = n + 1
    BY <2>2, <2>3
  <2> QED BY <1>1, <1>3, <1>11, <2>1, <2>4 DEF new
<1>12. CASE ~Changes(e, f)
  <2>1. C1 = C0
    BY <1>8, <1>12
  <2>2. CASE ~Observes(e, f)
    <3>1. S1 = S0
      BY <1>8, <2>2
    <3> HIDE DEF S0, C0, S1, C1, Least, Greatest, new
    <3> QED BY <1>1, <1>2, <1>3, <1>9, <1>10, <1>12, <2>1, <2>2, <3>1 DEF new
  <2>3. CASE Observes(e, f) /\ S0 = {}
    <3>1. C1 = {} /\ S1 = {n + 1}
      BY <1>6, <1>8, <2>1, <2>3
    <3>2. Least(S1) = n + 1
      BY <1>1, <3>1
    <3> HIDE DEF S0, C0, S1, C1, Least, Greatest
    <3> QED BY <1>1, <1>3, <1>5, <2>3, <3>1, <3>2 DEF new
  <2>4. CASE Observes(e, f) /\ S0 # {}
    <3>1. S1 = S0 \cup {n + 1}
      BY <1>8, <2>4
    <3> HIDE DEF S0, C0, S1, C1
    <3>2. PICK k \in S0 : k = Least(S0) /\ \A j \in S0 : k <= j
      BY <1>9, <2>4
    <3>3. k \in S1 /\ \A j \in S1 : k <= j
      <4> HIDE DEF Least
      <4> QED BY <1>1, <1>10, <3>1, <3>2
    <3>4. \A i \in S1 : (\A j \in S1 : i <= j) => i = k
      <4> HIDE DEF Least
      <4> QED BY <1>1, <1>10, <3>1, <3>3
    <3>5. Least(S1) = Least(S0)
      BY <3>2, <3>3, <3>4
    <3> HIDE DEF Least, Greatest, new
    <3> QED BY <1>1, <1>2, <1>3, <1>5, <1>9, <1>10, <1>12, <2>1, <2>4, <3>1, <3>2, <3>5 DEF new
  <2> QED BY <2>2, <2>3, <2>4
<1> QED BY <1>11, <1>12

\* CommittedIsVerified of the next state.
LEMMA VerifiedNext ==
    IInv' => (Committed'.ends # "torn" => Verified(Committed'.lines, NoIdentity))
<1>1. IInv => (Committed.ends # "torn" => Verified(Committed.lines, NoIdentity))
  BY CommittedIsVerified
<1>2. (IInv => (Committed.ends # "torn" => Verified(Committed.lines, NoIdentity)))'
  BY <1>1, PTL
<1> QED BY <1>2

\* An event that a step commits could follow what was committed.
LEMMA GrownIsAdmissible ==
    ASSUME IInv, IInv', NEW p \in Procs, Grows(p), Committed'.ends # "torn"
    PROVE  /\ LegalReplay(Committed.lines)
           /\ Admissible(pending[p], Committed.lines, Len(Committed.lines))
<1>1. LegalReplay(Committed.lines)
  BY CommittedIsVerified DEF Grows, Verified
<1>2. LegalReplay(Committed'.lines)
  BY VerifiedNext DEF Verified
<1>3. Admissible(pending[p], Committed'.lines, Len(Committed.lines))
  <2>1. PICK m \in 1..Len(Committed'.lines) : m = Len(Committed.lines) + 1
    BY GrownLines, Typing
  <2>2. Committed'.lines[m] = pending[p] /\ m - 1 = Len(Committed.lines)
    BY <2>1, GrownLines, Typing
  <2> QED BY <1>2, <2>2 DEF LegalReplay
<1> QED BY <1>1, <1>3, GrownLines, Typing, AdmissibleIsLocal

\* What a step of the journal is to its callers: an observation, a change, the end of
\* the journal, or nothing.
LEMMA MapsToLifecycle ==
    ASSUME IInv, IInv', HInv, NEW p \in Procs, Effect(p)
    PROVE  [Lifecycle!Next]_(Lifecycle!vars)
<1> DEFINE status   == [f \in Findings |-> Findable(f)]
           readable == Committed.ends # "torn"
<1>0. /\ Lifecycle!Unobserved = Unobserved /\ Lifecycle!Statuses = Statuses
      /\ Lifecycle!FindingTransitions = FindingTransitions
  BY DEF Unobserved, Statuses, FindingTransitions, Lifecycle!Unobserved, Lifecycle!Statuses,
         Lifecycle!FindingTransitions
<1>1. CASE Same
  <2>1. status' = status /\ readable' = readable
    BY <1>1 DEF Same, Findable
  <2> QED BY <2>1 DEF Lifecycle!vars
<1>2. CASE Tears
  <2>1. readable /\ readable' = FALSE /\ status' = [f \in Findings |-> Unobserved]
    BY <1>2 DEF Tears, Findable
  <2> QED BY <1>0, <2>1 DEF Lifecycle!Next, Lifecycle!Corrupt
<1>3. CASE Grows(p) /\ Committed'.ends # "torn"
  <2>1. PICK e \in Event, log \in Seq(Event) :
            e = pending[p] /\ log = Committed.lines /\ Committed'.lines = Append(log, e)
    BY <1>3, Typing DEF Grows
  <2>2. LegalReplay(log) /\ Admissible(e, log, Len(log))
    BY <1>3, <2>1, GrownIsAdmissible
  <2>3. readable /\ readable' = readable
    BY <1>3 DEF Grows
  <2>4. \A f \in Findings : status[f] = StatusIn(log, f)
    BY <2>1, <2>3 DEF Findable
  <2>5. \A f \in Findings :
            status'[f] = IF Changes(e, f) \/ (Observes(e, f) /\ status[f] = Unobserved)
                         THEN e.to ELSE status[f]
    <3> SUFFICES ASSUME NEW f \in Findings
                 PROVE  status'[f] =
                            IF Changes(e, f) \/ (Observes(e, f) /\ status[f] = Unobserved)
                            THEN e.to ELSE status[f]
      OBVIOUS
    <3>1. Changes(e, f) => StatusIn(log, f) \in Statuses
      BY <2>2 DEF Admissible, Changes, StatusIn
    <3>2. status'[f] = StatusIn(Append(log, e), f)
      BY <1>3, <2>1 DEF Findable
    <3> QED BY <2>2, <2>4, <3>1, <3>2, StatusGrows
  <2>6. PICK g \in Findings, t \in Statuses : g = e.finding /\ t = e.to
    BY DEF Event, EventOver
  <2>7. /\ status = [f \in Findings |-> status[f]] /\ status' = [f \in Findings |-> status'[f]]
    OBVIOUS
  <2>8. CASE e.kind = "changed"
    <3>1. status[g] \in Statuses /\ t \in FindingTransitions[status[g]]
      BY <2>2, <2>4, <2>6, <2>8 DEF Admissible, StatusIn
    <3>2. status' = [status EXCEPT ![g] = t]
      <4> HIDE DEF status
      <4> QED BY <2>5, <2>6, <2>7, <2>8 DEF Changes, Observes
    <3> QED BY <1>0, <2>3, <3>1, <3>2 DEF Lifecycle!Next, Lifecycle!Change
  <2>9. CASE e.kind = "observed" /\ status[g] = Unobserved
    <3>1. status' = [status EXCEPT ![g] = t]
      <4> HIDE DEF status
      <4> QED BY <2>5, <2>6, <2>7, <2>9 DEF Changes, Observes
    <3> QED BY <1>0, <2>3, <2>9, <3>1 DEF Lifecycle!Next, Lifecycle!Observe
  <2>10. CASE ~(e.kind = "changed") /\ ~(e.kind = "observed" /\ status[g] = Unobserved)
    <3>1. status' = status
      <4> HIDE DEF status
      <4> QED BY <2>5, <2>6, <2>7, <2>10 DEF Changes, Observes
    <3> QED BY <2>3, <3>1 DEF Lifecycle!vars
  <2> QED BY <2>8, <2>9, <2>10
<1> QED BY <1>1, <1>2, <1>3 DEF Effect, Tears, Grows

\* Locks, byte writes, rollbacks, kills and re-reads implement the lifecycle: a
\* finding is first observed and then moves along the table, until the journal is
\* corrupt for good.
THEOREM ImplementsLifecycle == Spec => RefinesLifecycle
<1>1. Init => Lifecycle!Init
  <2> SUFFICES ASSUME Init PROVE Lifecycle!Init
    OBVIOUS
  <2>1. Committed.lines = << >> /\ Committed.ends = "newline"
    BY DEF Init, Committed, EmptyFile
  <2>2. \A f \in Findings : Findable(f) = Unobserved
    <3>1. Len(<< >>) = 0
      BY EmptySeq
    <3> QED BY <2>1, <3>1 DEF Findable, StatusIn, StatusAt
  <2> QED BY <2>1, <2>2 DEF Lifecycle!Init, Lifecycle!Unobserved, Unobserved
<1>2. IInv /\ IInv' /\ HInv /\ [Next]_vars => [Lifecycle!Next]_(Lifecycle!vars)
  <2> SUFFICES ASSUME IInv, IInv', HInv, [Next]_vars PROVE [Lifecycle!Next]_(Lifecycle!vars)
    OBVIOUS
  <2>1. CASE UNCHANGED vars
    BY <2>1 DEF vars, Committed, Writing, Findable, Lifecycle!vars
  <2> QED BY <2>1, StepEffect, MapsToLifecycle DEF HInv
<1> QED BY <1>1, <1>2, HistoryInvariance, PTL DEF Spec, RefinesLifecycle, Lifecycle!Spec

-----------------------------------------------------------------------------
(* The loop of _project yields what the statuses of the log say.           *)

\* The status after one more event, inside a log.
LEMMA StatusMovesOn ==
    ASSUME NEW log \in Seq(Event), NEW i \in 1..Len(log), NEW f,
           \A k \in 1..i : Admissible(log[k], log, k - 1)
    PROVE  StatusAt(log, i, f) =
               IF \/ Changes(log[i], f)
                  \/ Observes(log[i], f) /\ StatusAt(log, i - 1, f) = Unobserved
               THEN log[i].to ELSE StatusAt(log, i - 1, f)
<1>1. PICK m \in Nat : m = i - 1 /\ m <= Len(log)
  BY LenProperties
<1> DEFINE before == SubSeq(log, 1, m)
           after  == Append(before, log[i])
<1>2. /\ before \in Seq(Event) /\ Len(before) = m
      /\ \A k \in 1..m : before[k] = log[k]
  BY <1>1, SubSeqProperties, LenProperties
<1>3. log[i] \in Event
  BY ElementOfSeq
<1> HIDE DEF before
<1>4. /\ Len(after) = i /\ after[i] = log[i]
      /\ \A k \in 1..m : after[k] = log[k]
  BY <1>1, <1>2, <1>3, AppendFacts
<1>5. \A k \in 1..i : after[k] = log[k]
  BY <1>1, <1>4
<1>6. LegalReplay(before)
  <2> SUFFICES ASSUME NEW k \in 1..m PROVE Admissible(before[k], before, k - 1)
    BY <1>2 DEF LegalReplay
  <2>1. PICK j \in Nat : j = k - 1 /\ j <= m
    OBVIOUS
  <2>2. Admissible(log[k], log, j)
    BY <1>1, <2>1
  <2>3. \A l \in 1..j : log[l] = before[l]
    BY <1>2, <2>1
  <2>4. Admissible(log[k], before, j)
    BY <2>2, <2>3, AdmissibleIsLocal
  <2> QED BY <1>2, <2>1, <2>4
<1>7. StatusIn(before, f) = StatusAt(log, m, f)
  BY <1>2, StatusIsLocal DEF StatusIn
<1>8. StatusIn(after, f) = StatusAt(log, i, f)
  <2> HIDE DEF after
  <2> QED BY <1>4, <1>5, StatusIsLocal DEF StatusIn
<1>9. Changes(log[i], f) => StatusIn(before, f) \in Statuses
  <2>1. Admissible(log[i], log, m)
    BY <1>1
  <2> QED BY <1>7, <2>1 DEF Admissible, Changes
<1>10. StatusIn(after, f) = IF \/ Changes(log[i], f)
                               \/ Observes(log[i], f) /\ StatusIn(before, f) = Unobserved
                            THEN log[i].to ELSE StatusIn(before, f)
  BY <1>2, <1>3, <1>6, <1>9, StatusGrows
<1> QED BY <1>1, <1>7, <1>8, <1>10

\* How far a log can be replayed.
LEMMA ReplayStops ==
    ASSUME NEW log, Len(log) \in Nat
    PROVE  \E last \in 0..Len(log) :
               /\ \A k \in 1..last : Admissible(log[k], log, k - 1)
               /\ last < Len(log) => ~Admissible(log[last + 1], log, last)
               /\ LegalReplay(log) <=> last = Len(log)
<1> DEFINE n   == Len(log)
           bad == {k \in 1..n : ~Admissible(log[k], log, k - 1)}
<1>1. CASE bad = {}
  <2>1. \A k \in 1..n : Admissible(log[k], log, k - 1)
    BY <1>1
  <2>2. n \in 0..n /\ ~(n < n)
    OBVIOUS
  <2> QED BY <2>1, <2>2 DEF LegalReplay
<1>2. CASE bad # {}
  <2>1. PICK k \in bad : \A j \in bad : k <= j
    BY <1>2, LeastExists, bad \subseteq Nat
  <2>2. PICK last \in 0..n : k = last + 1
    BY <2>1
  <2>3. \A j \in 1..last : Admissible(log[j], log, j - 1)
    BY <2>1, <2>2
  <2>4. ~Admissible(log[last + 1], log, last)
    <3>1. k - 1 = last
      BY <2>2
    <3> QED BY <2>1, <2>2, <3>1
  <2>5. ~LegalReplay(log) /\ last # n
    BY <2>1, <2>2 DEF LegalReplay
  <2> QED BY <2>3, <2>4, <2>5
<1> QED BY <1>1, <1>2

\* What the loop knows after i events of a log it can follow for last events.
ViewAt(log, i, broken) ==
    [status |-> [f \in Findings |-> StatusAt(log, i, f)], broken |-> broken]

ViewAfter(log, last, i) ==
    IF i <= last THEN ViewAt(log, i, FALSE) ELSE ViewAt(log, last, TRUE)

\* A view that breaks keeps its statuses.
LEMMA ViewBreaks ==
    ASSUME NEW status
    PROVE  [[status |-> status, broken |-> FALSE] EXCEPT !.broken = TRUE]
               = [status |-> status, broken |-> TRUE]
<1> DEFINE view == [status |-> status, broken |-> FALSE]
           next == [view EXCEPT !.broken = TRUE]
<1>1. view \in [status : {status}, broken : BOOLEAN]
  OBVIOUS
<1>2. next \in [status : {status}, broken : BOOLEAN] /\ next.broken = TRUE
  BY <1>1
<1> HIDE DEF next
<1>3. next = [status |-> next.status, broken |-> next.broken] /\ next.status = status
  BY <1>2
<1> QED BY <1>2, <1>3 DEF next

\* A view with the status of one finding moved.
LEMMA ViewAssigned ==
    ASSUME NEW view, view = [status |-> view.status, broken |-> view.broken], NEW f, NEW s
    PROVE  [view EXCEPT !.status[f] = s]
               = [status |-> [view.status EXCEPT ![f] = s], broken |-> view.broken]
OBVIOUS

\* The view after one more event is what one round of the loop makes of it.
LEMMA ViewMovesOn ==
    ASSUME NEW log \in Seq(Event), NEW last \in 0..Len(log), NEW i \in 1..Len(log),
           \A k \in 1..last : Admissible(log[k], log, k - 1),
           last < Len(log) => ~Admissible(log[last + 1], log, last)
    PROVE  ViewAfter(log, last, i) = ReplayStep(ViewAfter(log, last, i - 1), log[i])
<1>0. Len(log) \in Nat
  BY LenProperties
<1>1. PICK m \in Nat : m = i - 1 /\ i = m + 1
  OBVIOUS
<1>2. log[i] \in Event
  BY ElementOfSeq
<1>3. PICK e \in Event : e = log[i]
  BY <1>2
<1>4. /\ e.kind \in {"observed", "changed", "other"} /\ e.finding \in Findings
      /\ e.to \in Statuses
  BY DEF Event, EventOver
<1>5. Unobserved \notin Statuses
  BY DEF Unobserved, Statuses
<1>6. CASE i > last + 1
  <2>1. ~(i <= last) /\ ~(m <= last) /\ i > last /\ m > last
    BY <1>0, <1>1, <1>6
  <2>2. /\ ViewAfter(log, last, i) = ViewAt(log, last, TRUE)
        /\ ViewAfter(log, last, m) = ViewAt(log, last, TRUE)
    BY <2>1 DEF ViewAfter
  <2>3. ViewAt(log, last, TRUE).broken
    BY DEF ViewAt
  <2> QED BY <1>1, <2>2, <2>3 DEF ReplayStep
<1>7. CASE i = last + 1
  <2>1. m = last /\ ~(i <= last) /\ i > last /\ m <= last /\ ~(m > last)
    BY <1>0, <1>1, <1>7
  <2> DEFINE now == [f \in Findings |-> StatusAt(log, last, f)]
  <2>2. /\ ViewAfter(log, last, m) = [status |-> now, broken |-> FALSE]
        /\ ViewAfter(log, last, i) = [status |-> now, broken |-> TRUE]
    <3>1. /\ ViewAfter(log, last, m) = ViewAt(log, last, FALSE)
          /\ ViewAfter(log, last, i) = ViewAt(log, last, TRUE)
      BY <2>1 DEF ViewAfter
    <3> QED BY <3>1 DEF ViewAt
  <2>3. ~Admissible(e, log, last)
    BY <1>0, <1>3, <1>7, <2>1
  <2>4. now[e.finding] = StatusAt(log, last, e.finding)
    BY <1>4
  <2>5. \/ StatusAt(log, last, e.finding) = Unobserved
        \/ StatusAt(log, last, e.finding) \in Statuses
    <3>1. \A k \in 1..last : log[k] \in Event
      BY <1>0, ElementOfSeq
    <3>2. \A k \in 1..last : log[k].to \in Statuses
      BY <3>1 DEF Event, EventOver
    <3> QED BY <3>2, StatusIsTyped
  <2>6. /\ e.kind = "changed"
        /\ ~ /\ now[e.finding] # Unobserved
             /\ e.from = now[e.finding]
             /\ e.to \in FindingTransitions[now[e.finding]]
    BY <2>3, <2>4, <2>5 DEF Admissible
  <2> HIDE DEF now
  <2> DEFINE view == [status |-> now, broken |-> FALSE]
  <2>7. ReplayStep(view, e) = [view EXCEPT !.broken = TRUE]
    <3>1. ~view.broken /\ view.status = now /\ e.kind # "other" /\ e.kind # "observed"
      BY <2>6
    <3> HIDE DEF view
    <3> QED BY <2>6, <3>1 DEF ReplayStep
  <2>8. [view EXCEPT !.broken = TRUE] = [status |-> now, broken |-> TRUE]
    BY ViewBreaks
  <2> QED BY <1>1, <1>3, <2>1, <2>2, <2>7, <2>8
<1>8. CASE i <= last
  <2>1. i <= last /\ ~(i > last) /\ m <= last /\ ~(m > last)
    BY <1>0, <1>1, <1>8
  <2> DEFINE old == [f \in Findings |-> StatusAt(log, m, f)]
             new == [f \in Findings |-> StatusAt(log, i, f)]
             view == [status |-> old, broken |-> FALSE]
  <2>2. /\ ViewAfter(log, last, m) = view
        /\ ViewAfter(log, last, i) = [status |-> new, broken |-> FALSE]
    <3>1. /\ ViewAfter(log, last, m) = ViewAt(log, m, FALSE)
          /\ ViewAfter(log, last, i) = ViewAt(log, i, FALSE)
      BY <2>1 DEF ViewAfter
    <3> QED BY <3>1 DEF ViewAt
  <2>3. \A k \in 1..i : Admissible(log[k], log, k - 1)
    BY <1>0, <2>1
  <2>4. \A f \in Findings :
            new[f] = IF Changes(e, f) \/ (Observes(e, f) /\ old[f] = Unobserved)
                     THEN e.to ELSE old[f]
    <3> SUFFICES ASSUME NEW f \in Findings
                 PROVE  StatusAt(log, i, f) =
                            IF \/ Changes(e, f)
                               \/ Observes(e, f) /\ StatusAt(log, m, f) = Unobserved
                            THEN e.to ELSE StatusAt(log, m, f)
      OBVIOUS
    <3> QED BY <1>1, <1>3, <2>3, StatusMovesOn
  <2>5. Admissible(e, log, m)
    BY <1>1, <1>3, <2>3
  <2>6. e.kind = "changed" => /\ old[e.finding] # Unobserved
                              /\ e.from = old[e.finding]
                              /\ e.to \in FindingTransitions[old[e.finding]]
    BY <1>4, <1>5, <2>5 DEF Admissible
  <2>7. PICK T : old \in [Findings -> T] /\ new \in [Findings -> T]
    <3>1. /\ old \in [Findings -> {old[f] : f \in Findings} \cup {new[f] : f \in Findings}]
          /\ new \in [Findings -> {old[f] : f \in Findings} \cup {new[f] : f \in Findings}]
      OBVIOUS
    <3> QED BY <3>1
  <2> HIDE DEF old, new
  <2>8. ~view.broken /\ view.status = old
        /\ view = [status |-> old, broken |-> FALSE]
    OBVIOUS
  <2> HIDE DEF view
  <2>9. CASE e.kind = "changed" \/ (e.kind = "observed" /\ old[e.finding] = Unobserved)
    <3>1. \A f \in Findings : new[f] = IF f = e.finding THEN e.to ELSE old[f]
      BY <2>4, <2>9 DEF Changes, Observes
    <3>2. \/ e.kind = "observed" /\ old[e.finding] = Unobserved
          \/ /\ e.kind = "changed"
             /\ old[e.finding] # Unobserved
             /\ e.from = old[e.finding]
             /\ e.to \in FindingTransitions[old[e.finding]]
      BY <2>6, <2>9
    <3>3. ReplayStep(view, e) = [status |-> new, broken |-> FALSE]
      <4>1. [view EXCEPT !.status[e.finding] = e.to]
                = [status |-> [view.status EXCEPT ![e.finding] = e.to], broken |-> view.broken]
        <5>1. view = [status |-> view.status, broken |-> view.broken]
          BY <2>8
        <5> QED BY ONLY <5>1, ViewAssigned
      <4>2. view.broken = FALSE /\ view.status = old
        BY <2>8
      <4>3. ReplayStep(view, e) = [view EXCEPT !.status[e.finding] = e.to]
        BY <3>2, <4>2 DEF ReplayStep
      <4>4. [old EXCEPT ![e.finding] = e.to] = new
        BY ONLY <1>4, <2>7, <3>1
      <4>5. [status |-> [view.status EXCEPT ![e.finding] = e.to], broken |-> view.broken]
                = [status |-> new, broken |-> FALSE]
        BY ONLY <4>2, <4>4
      <4> QED BY ONLY <4>1, <4>3, <4>5
    <3> QED BY <1>1, <1>3, <2>2, <3>3
  <2>10. CASE e.kind = "observed" /\ old[e.finding] # Unobserved
    <3>1. new = old
      BY <1>4, <2>4, <2>7, <2>10 DEF Changes, Observes
    <3> QED BY <1>1, <1>3, <2>2, <2>8, <2>10, <3>1 DEF ReplayStep
  <2>11. CASE e.kind = "other"
    <3>1. new = old
      BY <1>4, <2>4, <2>7, <2>11 DEF Changes, Observes
    <3> QED BY <1>1, <1>3, <2>2, <2>8, <2>11, <3>1 DEF ReplayStep
  <2> QED BY <1>4, <2>9, <2>10, <2>11
<1> QED BY <1>0, <1>6, <1>7, <1>8

\* The loop over any log of events: it raises exactly when the log is not a legal
\* replay, and otherwise ends with the status StatusIn reads off the log.
LEMMA ReplayIsTheLog ==
    ASSUME NEW log \in Seq(Event)
    PROVE  /\ Replay(log).broken = ~LegalReplay(log)
           /\ ~Replay(log).broken =>
                  Replay(log).status = [f \in Findings |-> StatusIn(log, f)]
<1> DEFINE n == Len(log)
           start == [status |-> [f \in Findings |-> Unobserved], broken |-> FALSE]
           view[i \in 0..n] ==
               IF i = 0 THEN start ELSE ReplayStep(view[i - 1], log[i])
<1>1. n \in Nat
  BY LenProperties
<1>2. PICK last \in 0..n :
          /\ \A k \in 1..last : Admissible(log[k], log, k - 1)
          /\ last < n => ~Admissible(log[last + 1], log, last)
          /\ LegalReplay(log) <=> last = n
  BY <1>1, ReplayStops
<1> DEFINE V == [i \in 0..n |-> ViewAfter(log, last, i)]
<1>3. ViewAfter(log, last, 0) = start
  <2>1. \A f \in Findings : StatusAt(log, 0, f) = Unobserved
    BY DEF StatusAt
  <2>2. ViewAfter(log, last, 0) = ViewAt(log, 0, FALSE)
    BY <1>2 DEF ViewAfter
  <2> QED BY <2>1, <2>2 DEF ViewAt
<1>4. \A i \in 1..n : ViewAfter(log, last, i) = ReplayStep(ViewAfter(log, last, i - 1), log[i])
  BY <1>2, ViewMovesOn
<1>5. V = [i \in 0..n |-> IF i = 0 THEN start ELSE ReplayStep(V[i - 1], log[i])]
  <2> HIDE DEF start
  <2>1. \A i \in 0..n : V[i] = IF i = 0 THEN start ELSE ReplayStep(V[i - 1], log[i])
    BY <1>1, <1>3, <1>4
  <2> HIDE DEF V
  <2>2. V = [i \in 0..n |-> V[i]]
    BY DEF V
  <2> QED BY <2>1, <2>2
<1>6. view = [i \in 0..n |-> IF i = 0 THEN start ELSE ReplayStep(view[i - 1], log[i])]
  <2> HIDE DEF start, V
  <2> QED BY <1>5
<1>7. Replay(log) = view[n]
  BY DEF Replay
<1> HIDE DEF view, start
<1>8. \A i \in 0..n : view[i] = ViewAfter(log, last, i)
  <2> DEFINE off == {i \in 0..n : view[i] # ViewAfter(log, last, i)}
  <2> SUFFICES ASSUME off # {} PROVE FALSE
    OBVIOUS
  <2>1. PICK i \in off : \A j \in off : i <= j
    BY LeastExists, off \subseteq Nat
  <2>2. i # 0
    BY <1>1, <1>3, <1>6, <2>1
  <2>3. i \in 1..n /\ i - 1 \in 0..n /\ i - 1 \notin off
    BY <1>1, <2>1, <2>2
  <2>4. view[i - 1] = ViewAfter(log, last, i - 1)
    BY <2>3
  <2>5. view[i] = ReplayStep(view[i - 1], log[i])
    BY <1>6, <2>2, <2>3
  <2>6. view[i] = ViewAfter(log, last, i)
    BY <1>4, <2>3, <2>4, <2>5
  <2> QED BY <2>1, <2>6
<1>9. Replay(log) = ViewAfter(log, last, n)
  BY <1>1, <1>7, <1>8
<1>10. CASE last = n
  <2>1. Replay(log) = ViewAt(log, n, FALSE)
    BY <1>1, <1>9, <1>10 DEF ViewAfter
  <2>2. /\ Replay(log).broken = FALSE
        /\ Replay(log).status = [f \in Findings |-> StatusIn(log, f)]
    BY <2>1 DEF ViewAt, StatusIn
  <2>3. LegalReplay(log)
    BY <1>2, <1>10
  <2> QED BY <2>2, <2>3
<1>11. CASE last # n
  <2>1. ~(n <= last)
    BY <1>1, <1>11
  <2>2. Replay(log) = ViewAt(log, last, TRUE)
    BY <1>9, <2>1 DEF ViewAfter
  <2>3. Replay(log).broken = TRUE
    BY <2>2 DEF ViewAt
  <2>4. ~LegalReplay(log)
    BY <1>2, <1>11
  <2> QED BY <2>3, <2>4
<1> QED BY <1>10, <1>11

\* The loop that builds every view of the journal and the statuses the writers check
\* against agree on everything that is ever committed.
THEOREM LoopAgrees == Spec => []ReplayAgrees
<1>1. IInv => ReplayAgrees
  BY Typing, ReplayIsTheLog DEF ReplayAgrees
<1> QED BY <1>1, Invariance, PTL
=============================================================================
