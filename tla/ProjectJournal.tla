--------------------------- MODULE ProjectJournal ---------------------------
(***************************************************************************)
(* The append-only project journal (src/src/reviewctl/journal.py): a JSONL *)
(* file that any number of reviewctl processes read under LOCK_SH and      *)
(* append to under LOCK_EX.  A process re-reads and re-verifies the whole  *)
(* file under its exclusive lock, stamps the envelope, writes the line in  *)
(* as many short writes as the kernel makes of it, fsyncs, and truncates   *)
(* back when anything fails.                                               *)
(*                                                                         *)
(* The bytes of a line are three pieces: a strict prefix of the JSON, the  *)
(* rest of the JSON, the newline.  A read under LOCK_SH is one step, since *)
(* no writer can run inside it.                                            *)
(***************************************************************************)
EXTENDS JournalEvents, FiniteSets

CONSTANTS
    Procs,          \* the processes that use the journal
    Identities,     \* the (projectId, originId) pairs
    IdentityOf,     \* process -> the identity it opens the journal with
    NoProc,         \* nobody holds the exclusive lock
    ObservedAs,     \* the statuses observations are reported with
    Targets,        \* the statuses callers ask for
    MaxOps,         \* bound: operations started by one process
    MaxFaults,      \* bound: failing system calls in a behaviour, rollbacks apart
    MaxCrashes      \* bound: processes killed in a behaviour

ASSUME JournalAssumption ==
    /\ NoIdentity \notin Identities
    /\ NoEvent \notin Procs \X Nat
    /\ NoProc \notin Procs
    /\ IdentityOf \in [Procs -> Identities \cup {NoIdentity}]
    /\ ObservedAs \subseteq Statuses /\ Targets \subseteq Statuses
    /\ MaxOps \in Nat /\ MaxFaults \in Nat /\ MaxCrashes \in Nat

VARIABLES
    file,       \* the journal file: its lines and how it ends
    holder,     \* the process that holds LOCK_EX, or NoProc
    base,       \* what the file was when the holder began to write (original_size)
    sent,       \* how many pieces of its line the holder has written
    pc,         \* process -> where it is in its operation
    pending,    \* process -> the event it is appending
    seen,       \* process -> the events its last successful read returned
    outcome,    \* process -> how its last operation ended
    ops,        \* process -> operations it has started
    acked,      \* history: ids of the events append() returned
    faults,     \* failing system calls so far, rollbacks apart
    crashes     \* crashes so far

vars == <<file, holder, base, sent, pc, pending, seen, outcome, ops, acked, faults, crashes>>

-----------------------------------------------------------------------------
(* The file.  lines are the events _parse_bytes returns.  It ends in       *)
(*   "newline"       the file is empty or its last line is complete        *)
(*   "unterminated"  the last line is a whole event without its newline    *)
(*   "torn"          bytes follow that do not parse: journal_corrupt       *)

Endings == {"newline", "unterminated", "torn"}
Pieces  == 0..3

Event == EventOver(Procs \X Nat, Identities \cup {NoIdentity})

File == [lines : Seq(Event), ends : Endings]

EmptyFile == [lines |-> << >>, ends |-> "newline"]

\* The file after the first k pieces of e's line were written at the end of f.
\* On an unterminated last line they extend that line, which then does not parse.
Written(f, e, k) ==
    IF k = 0 THEN f
    ELSE IF f.ends = "unterminated"
         THEN [lines |-> SubSeq(f.lines, 1, Len(f.lines) - 1), ends |-> "torn"]
         ELSE IF k = 1
              THEN [f EXCEPT !.ends = "torn"]
              ELSE [lines |-> Append(f.lines, e),
                    ends  |-> IF k = 2 THEN "unterminated" ELSE "newline"]

\* Seeded fault: the events before bytes that do not parse are good enough.
ReadableUpToTear(f, own) == Verified(f.lines, own)

\* read_with_diagnostic has no diagnostic for a process with this identity.
Readable(f, own) == f.ends # "torn" /\ Verified(f.lines, own)

Legible(p) == Readable(file, IdentityOf[p])

-----------------------------------------------------------------------------
Init ==
    /\ file = EmptyFile
    /\ holder = NoProc
    /\ base = EmptyFile
    /\ sent = 0
    /\ pc = [p \in Procs |-> "idle"]
    /\ pending = [p \in Procs |-> NoEvent]
    /\ seen = [p \in Procs |-> << >>]
    /\ outcome = [p \in Procs |-> "none"]
    /\ ops = [p \in Procs |-> 0]
    /\ acked = {}
    /\ faults = 0
    /\ crashes = 0

Goto(p, from, to) ==
    /\ pc[p] = from
    /\ pc' = [pc EXCEPT ![p] = to]

\* p is called.
Call(p, entry, event) ==
    /\ ops[p] < MaxOps
    /\ Goto(p, "idle", entry)
    /\ pending' = [pending EXCEPT ![p] = event]
    /\ outcome' = [outcome EXCEPT ![p] = "none"]
    /\ ops' = [ops EXCEPT ![p] = @ + 1]

\* The operation of p ends and reports result to its caller.
Return(p, result) ==
    /\ pc' = [pc EXCEPT ![p] = "idle"]
    /\ pending' = [pending EXCEPT ![p] = NoEvent]
    /\ outcome' = [outcome EXCEPT ![p] = result]

\* Seeded fault: an exception or a kill leaves the lock behind.
ReleaseForgotten(p) == holder' = holder

\* Leaving the with block (or dying) gives up the exclusive lock.
Release(p) == holder' = IF holder = p THEN NoProc ELSE holder

\* Seeded fault: readers do not lock.
ReadWithoutLock == TRUE

\* The kernel grants LOCK_SH while nobody holds LOCK_EX.
SharedLock == holder = NoProc

FileUnchanged == UNCHANGED <<file, base, sent>>

\* A fresh event as append() builds it before it takes the lock.
NewEvent(p, kind, f, s) ==
    [id |-> <<p, ops[p]>>, kind |-> kind, finding |-> f, from |-> s, to |-> s,
     identity |-> NoIdentity, seq |-> 0, prev |-> NoEvent]

\* append() of an observation or of an event of another type: _validate_event
\* needs no read, the process goes on to wait for the exclusive lock.
BeginAppend(p) ==
    /\ \E f \in Findings, s \in ObservedAs :
           \E kind \in {"observed", "other"} : Call(p, "lock", NewEvent(p, kind, f, s))
    /\ FileUnchanged
    /\ UNCHANGED <<holder, seen, acked, faults, crashes>>

\* append_status_change(f, s) is called.
BeginChange(p) ==
    /\ \E f \in Findings, s \in Targets :
           Call(p, "choose", NewEvent(p, "changed", f, s))
    /\ FileUnchanged
    /\ UNCHANGED <<holder, seen, acked, faults, crashes>>

\* read_with_diagnostic() and the views built on it (findings, head_sequence) are
\* called.
BeginRead(p) ==
    /\ Call(p, "read", NoEvent)
    /\ FileUnchanged
    /\ UNCHANGED <<holder, seen, acked, faults, crashes>>

Read(p) ==
    /\ pc[p] = "read"
    /\ SharedLock
    /\ IF Legible(p)
       THEN seen' = [seen EXCEPT ![p] = file.lines] /\ Return(p, "ok")
       ELSE UNCHANGED seen /\ Return(p, "journal_corrupt")
    /\ FileUnchanged
    /\ UNCHANGED <<holder, ops, acked, faults, crashes>>

\* append_status_change reads the finding under LOCK_SH, refuses an unknown
\* finding or a step the table forbids, and remembers the status as the source.
ChooseSource(p) ==
    /\ pc[p] = "choose"
    /\ SharedLock
    /\ LET current == StatusIn(file.lines, pending[p].finding)
       IN  \/ /\ ~Legible(p)
              /\ Return(p, "journal_corrupt")
              /\ UNCHANGED seen
           \/ /\ Legible(p)
              /\ \/ current = Unobserved
                 \/ current # Unobserved /\ pending[p].to \notin FindingTransitions[current]
              /\ Return(p, "refused")
              /\ seen' = [seen EXCEPT ![p] = file.lines]
           \/ /\ Legible(p)
              /\ current # Unobserved
              /\ pending[p].to \in FindingTransitions[current]
              /\ Goto(p, "choose", "validate")
              /\ pending' = [pending EXCEPT ![p].from = current]
              /\ seen' = [seen EXCEPT ![p] = file.lines]
              /\ UNCHANGED outcome
    /\ FileUnchanged
    /\ UNCHANGED <<holder, ops, acked, faults, crashes>>

\* append() validates the change against the finding, read once more under
\* LOCK_SH, before it asks for the exclusive lock.
PreValidate(p) ==
    /\ pc[p] = "validate"
    /\ SharedLock
    /\ \/ /\ ~Legible(p)
          /\ Return(p, "journal_corrupt")
          /\ UNCHANGED seen
       \/ /\ Legible(p)
          /\ seen' = [seen EXCEPT ![p] = file.lines]
          /\ IF Admissible(pending[p], file.lines, Len(file.lines))
             THEN Goto(p, "validate", "lock") /\ UNCHANGED <<pending, outcome>>
             ELSE Return(p, "refused")
    /\ FileUnchanged
    /\ UNCHANGED <<holder, ops, acked, faults, crashes>>

\* flock(LOCK_EX) is granted.
AcquireExclusive(p) ==
    /\ holder = NoProc
    /\ Goto(p, "lock", "check")
    /\ holder' = p
    /\ FileUnchanged
    /\ UNCHANGED <<pending, seen, outcome, ops, acked, faults, crashes>>

\* Seeded fault: what was validated before the lock is not validated again.
CheckAndStampTrusting(p) ==
    /\ Goto(p, "check", "write")
    /\ pending' = [pending EXCEPT ![p] = WithEnvelope(@, file.lines, IdentityOf[p])]
    /\ base' = file
    /\ sent' = 0
    /\ UNCHANGED <<file, holder, seen, outcome, ops, acked, faults, crashes>>

\* Under the lock: read, verify, validate again, stamp the envelope.
CheckAndStamp(p) ==
    /\ pc[p] = "check"
    /\ \/ /\ ~Legible(p)
          /\ Return(p, "journal_corrupt")
          /\ Release(p)
          /\ UNCHANGED <<base, sent>>
       \/ /\ Legible(p)
          /\ ~Admissible(pending[p], file.lines, Len(file.lines))
          /\ Return(p, "refused")
          /\ Release(p)
          /\ UNCHANGED <<base, sent>>
       \/ /\ Legible(p)
          /\ Admissible(pending[p], file.lines, Len(file.lines))
          /\ Goto(p, "check", "write")
          /\ pending' = [pending EXCEPT
                            ![p] = WithEnvelope(@, file.lines, IdentityOf[p])]
          /\ base' = file
          /\ sent' = 0
          /\ UNCHANGED <<holder, outcome>>
    /\ UNCHANGED <<file, seen, ops, acked, faults, crashes>>

\* One os.write of the loop: any number of the remaining bytes, at least one.
WriteSome(p) ==
    /\ pc[p] = "write"
    /\ \E k \in (sent + 1)..3 :
           /\ sent' = k
           /\ file' = Written(base, pending[p], k)
           /\ Goto(p, "write", IF k = 3 THEN "sync" ELSE "write")
    /\ UNCHANGED <<holder, base, pending, seen, outcome, ops, acked, faults, crashes>>

\* fsync succeeds, the lock is given up and append() returns the event.
Sync(p) ==
    /\ pc[p] = "sync"
    /\ Return(p, "ok")
    /\ Release(p)
    /\ acked' = acked \cup {pending[p].id}
    /\ FileUnchanged
    /\ UNCHANGED <<seen, ops, faults, crashes>>

\* os.write or os.fsync raises, or os.write returns 0.
WriteFails(p) ==
    /\ pc[p] \in {"write", "sync"}
    /\ faults < MaxFaults
    /\ faults' = faults + 1
    /\ pc' = [pc EXCEPT ![p] = "rollback"]
    /\ FileUnchanged
    /\ UNCHANGED <<holder, pending, seen, outcome, ops, acked, crashes>>

\* Seeded fault: the rollback truncates to nothing instead of to original_size.
RollBackToStart(p) ==
    /\ pc[p] = "rollback"
    /\ file' = EmptyFile
    /\ Return(p, "io_error")
    /\ Release(p)
    /\ UNCHANGED <<base, sent, seen, ops, acked, faults, crashes>>

\* ftruncate(original_size), whatever the fsync after it says; append() raises.
RollBack(p) ==
    /\ pc[p] = "rollback"
    /\ file' = base
    /\ Return(p, "io_error")
    /\ Release(p)
    /\ UNCHANGED <<base, sent, seen, ops, acked, faults, crashes>>

\* ftruncate fails too: the error is swallowed and the bytes stay.
RollBackFails(p) ==
    /\ pc[p] = "rollback"
    /\ Return(p, "io_error")
    /\ Release(p)
    /\ FileUnchanged
    /\ UNCHANGED <<seen, ops, acked, faults, crashes>>

\* A system call fails at one of these places, before anything is written: the call
\* of p ends with result and gives up whatever lock it holds.
FailsAt(p, places, result) ==
    /\ pc[p] \in places
    /\ faults < MaxFaults
    /\ faults' = faults + 1
    /\ Return(p, result)
    /\ Release(p)
    /\ FileUnchanged
    /\ UNCHANGED <<seen, ops, acked, crashes>>

\* open, fstat, read or close raises: reported as journal_corrupt, whatever the file
\* holds.
OpenOrReadFails(p) ==
    FailsAt(p, {"read", "choose", "validate", "lock", "check"}, "journal_corrupt")

\* flock raises, for either lock.
LockFails(p) == FailsAt(p, {"read", "choose", "validate", "lock"}, "journal_unavailable")

\* append() cannot fchmod the file it opened: the OSError goes to the caller.
FchmodFails(p) == FailsAt(p, {"lock"}, "io_error")

SystemCallFails(p) == OpenOrReadFails(p) \/ LockFails(p) \/ FchmodFails(p)

\* The process is killed; the kernel drops its lock, the file stays as it is.
Crash(p) ==
    /\ pc[p] # "idle"
    /\ crashes < MaxCrashes
    /\ crashes' = crashes + 1
    /\ Return(p, "none")
    /\ Release(p)
    /\ FileUnchanged
    /\ UNCHANGED <<seen, ops, acked, faults>>

\* What a process does once it has been called.
Step(p) ==
    \/ Read(p) \/ ChooseSource(p) \/ PreValidate(p) \/ AcquireExclusive(p) \/ CheckAndStamp(p)
    \/ WriteSome(p) \/ Sync(p) \/ RollBack(p)

\* Every bounded operation has been made and has ended.
Finished ==
    /\ \A p \in Procs : pc[p] = "idle" /\ ops[p] = MaxOps
    /\ UNCHANGED vars

Next ==
    \/ \E p \in Procs :
           \/ BeginAppend(p) \/ BeginChange(p) \/ BeginRead(p) \/ Step(p)
           \/ WriteFails(p) \/ RollBackFails(p) \/ SystemCallFails(p) \/ Crash(p)
    \/ Finished

Spec == Init /\ [][Next]_vars

\* A called process keeps running; nothing says that it is called, that a system
\* call fails, or that it is killed.
FairSpec == Spec /\ \A p \in Procs : WF_vars(Step(p))
-----------------------------------------------------------------------------
(* Properties.                                                             *)

PcStates == {"idle", "read", "choose", "validate", "lock", "check", "write", "sync",
             "rollback"}

Outcomes == {"none", "ok", "journal_corrupt", "journal_unavailable", "refused", "io_error"}

\* Every variable has the type its comment says.
TypeOK ==
    /\ file \in File /\ base \in File
    /\ holder \in Procs \cup {NoProc}
    /\ sent \in Pieces
    /\ pc \in [Procs -> PcStates]
    /\ pending \in [Procs -> Event \cup {NoEvent}]
    /\ seen \in [Procs -> Seq(Event)]
    /\ outcome \in [Procs -> Outcomes]
    /\ ops \in [Procs -> 0..MaxOps]
    /\ acked \subseteq Procs \X Nat
    /\ faults \in 0..MaxFaults
    /\ crashes \in 0..MaxCrashes

Writing(p) == pc[p] \in {"write", "sync", "rollback"}

\* The file as anyone but the holder will come to know it: without the bytes of an
\* append that is still under way.
Committed == IF \E p \in Procs : Writing(p) THEN base ELSE file

\* Whatever the interleaving, kills and I/O errors, a journal that parses is a
\* verified chain: legacy events first, one identity, contiguous sequences, each
\* event holding the digest of the one before it (_verify_events, _with_envelope).
ChainUnbroken ==
    Committed.ends # "torn" =>
        /\ LegacyPrefix(Committed.lines)
        /\ OneIdentity(Committed.lines, NoIdentity)
        /\ Chained(Committed.lines)

\* Every status change in a journal that parses starts from the status the finding
\* had there: of two processes that read the same status only one moves it, though
\* both checked it before they asked for the lock (append_status_change).
NoLostUpdate == Committed.ends # "torn" => LegalReplay(Committed.lines)

\* What a process once read stays there, in its place, as long as the journal
\* parses: nobody reads a line that a rollback then removes (LOCK_SH, ftruncate).
ReadsAreFinal ==
    Committed.ends # "torn" =>
        \A p \in Procs :
            /\ Len(seen[p]) <= Len(Committed.lines)
            /\ seen[p] = SubSeq(Committed.lines, 1, Len(seen[p]))

\* An event append() returned is in the journal exactly once, and the events of one
\* process stand in the order it appended them, as long as the journal parses.
AckedOnceInOrder ==
    Committed.ends # "torn" =>
        LET lines == Committed.lines
        IN  /\ \A id \in acked : \E i \in 1..Len(lines) : lines[i].id = id
            /\ \A i, j \in 1..Len(lines) :
                   i < j => \/ lines[i].id[1] # lines[j].id[1]
                            \/ lines[i].id[2] < lines[j].id[2]

\* journal_corrupt is no false alarm: unless a system call failed in it (open and read
\* errors bear the same code), a call that ends with it met bytes that do not parse, or
\* versioned events of an identity other than its own; never the half-written line of a
\* live process (read_with_diagnostic, append).
CorruptionIsReal ==
    [][\A p \in Procs :
           /\ outcome[p] # "journal_corrupt" /\ outcome'[p] = "journal_corrupt"
           /\ faults' = faults
           => \/ Committed'.ends = "torn"
              \/ ~OneIdentity(Committed'.lines, IdentityOf[p])]_vars

\* A journal that does not parse is frozen: no process writes to it any more, and
\* no append is acknowledged (append() re-reads and verifies under its lock).
TornIsFrozen ==
    [][Committed.ends = "torn" => /\ Committed' = Committed
                                  /\ acked' = acked]_vars

\* The journal does for its callers what the lifecycle promises them.
Findable(f) ==
    IF Committed.ends = "torn" THEN Unobserved ELSE StatusIn(Committed.lines, f)

Lifecycle == INSTANCE FindingLifecycle
                WITH status   <- [f \in Findings |-> Findable(f)],
                     readable <- Committed.ends # "torn"

RefinesLifecycle == Lifecycle!Spec

\* The loop of _project yields the statuses StatusIn reads off the log, and raises
\* exactly when the log is not a legal replay.
ReplayAgrees ==
    LET replay == Replay(Committed.lines)
    IN  /\ replay.broken = ~LegalReplay(Committed.lines)
        /\ ~replay.broken =>
               replay.status = [f \in Findings |-> StatusIn(Committed.lines, f)]

\* Every call returns: a process that dies or fails gives up its lock, and a writer
\* waits only for the finitely many operations of the others.
EveryCallReturns == \A p \in Procs : pc[p] # "idle" ~> pc[p] = "idle"

\* The plan of the envelope has append() "fsync the complete line before releasing
\* the lock" (docs/superpowers/plans/2026-08-23-journal-envelope-and-dimensions.md,
\* line 18): an append that returns has put its event where the next read finds it.
AppendTakesEffect ==
    [][\A id \in acked' \ acked :
           /\ Committed'.ends # "torn"
           /\ \E i \in 1..Len(Committed'.lines) : Committed'.lines[i].id = id]_vars
=============================================================================
