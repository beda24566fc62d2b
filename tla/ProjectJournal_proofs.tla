------------------------ MODULE ProjectJournal_proofs -----------------------
(***************************************************************************)
(* Proofs about ProjectJournal, for every set of processes, findings and   *)
(* identities and for every bound.  The inductive invariant says who may   *)
(* be writing and what the file then holds: the verified journal the       *)
(* writer found, followed by some pieces of an event that extends it to a  *)
(* verified journal.                                                       *)
(***************************************************************************)
EXTENDS ProjectJournal, SequenceTheorems, WellFoundedInduction, TLAPS

-----------------------------------------------------------------------------
(* Least and greatest elements, which the CHOOSEs of JournalEvents name.   *)

\* A nonempty set of naturals has a least element.
LEMMA LeastExists ==
    ASSUME NEW T, T \subseteq Nat, T # {}
    PROVE  \E x \in T : \A y \in T : x <= y
  <1>1. IsWellFoundedOn(OpToRel(<, Nat), Nat)
    BY NatLessThanWellFounded
  <1>2. PICK x \in T : \A y \in T : ~(<<y, x>> \in OpToRel(<, Nat))
    BY <1>1, WFMin
  <1>3. \A y \in T : ~(y < x)
    BY <1>2 DEF OpToRel
  <1>4. \A y \in T : x <= y
    BY <1>3, SMT
  <1> QED BY <1>4

\* A nonempty set of positions of a log has a greatest element.
LEMMA GreatestExists ==
    ASSUME NEW n \in Nat, NEW T, T \subseteq 1..n, T # {}
    PROVE  \E x \in T : \A y \in T : y <= x
  <1> DEFINE D == {n - i : i \in T}
  <1>1. \A i \in T : n - i \in Nat
    OBVIOUS
  <1>2. D \subseteq Nat
    BY <1>1
  <1>3. D # {}
    OBVIOUS
  <1> HIDE DEF D
  <1>4. PICK d \in D : \A e \in D : d <= e
    BY <1>2, <1>3, LeastExists, Zenon
  <1>5. PICK x \in T : d = n - x
    BY <1>4 DEF D
  <1>6. ASSUME NEW y \in T PROVE y <= x
    <2>1. n - y \in D
      BY DEF D
    <2>2. n - x <= n - y
      BY <2>1, <1>4, <1>5
    <2>3. x \in Nat /\ y \in Nat
      OBVIOUS
    <2> QED BY <2>2, <2>3
  <1> QED BY <1>6

-----------------------------------------------------------------------------
(* The projection.                                                         *)

\* The projected status is a status as soon as the finding was observed.
LEMMA StatusIsTyped ==
    ASSUME NEW log, NEW n \in Nat, NEW f,
           \A i \in 1..n : log[i].to \in Statuses
    PROVE  /\ StatusAt(log, n, f) \in Statuses \cup {Unobserved}
           /\ StatusAt(log, n, f) = Unobserved <=>
                  ~\E i \in 1..n : Observes(log[i], f)
  <1> DEFINE S == {i \in 1..n : Observes(log[i], f)}
             C == {i \in 1..n : Changes(log[i], f)}
             first == CHOOSE i \in S : \A j \in S : i <= j
             last  == CHOOSE i \in C : \A j \in C : j <= i
  <1>1. StatusAt(log, n, f) = IF S = {} THEN Unobserved
                              ELSE IF C # {} THEN log[last].to ELSE log[first].to
    BY DEF StatusAt
  <1>2. S # {} => first \in S
    <2>1. S # {} => \E i \in S : \A j \in S : i <= j
      BY LeastExists, S \subseteq Nat
    <2> QED BY <2>1
  <1>3. C # {} => last \in C
    <2>1. C # {} => \E i \in C : \A j \in C : j <= i
      BY GreatestExists, C \subseteq 1..n
    <2> QED BY <2>1
  <1>4. S # {} => StatusAt(log, n, f) \in Statuses
    BY <1>1, <1>2, <1>3
  <1>5. Unobserved \notin Statuses
    BY DEF Unobserved, Statuses
  <1>6. S = {} <=> ~\E i \in 1..n : Observes(log[i], f)
    OBVIOUS
  <1> QED BY <1>1, <1>4, <1>5, <1>6

\* The status after n events depends on these n events only.
LEMMA StatusIsLocal ==
    ASSUME NEW log, NEW other, NEW n \in Nat, NEW f,
           \A i \in 1..n : log[i] = other[i]
    PROVE  StatusAt(log, n, f) = StatusAt(other, n, f)
  <1> DEFINE S(l) == {i \in 1..n : Observes(l[i], f)}
             C(l) == {i \in 1..n : Changes(l[i], f)}
             first(l) == CHOOSE i \in S(l) : \A j \in S(l) : i <= j
             last(l)  == CHOOSE i \in C(l) : \A j \in C(l) : j <= i
  <1>1. S(log) = S(other) /\ C(log) = C(other)
    OBVIOUS
  <1>2. first(log) = first(other) /\ last(log) = last(other)
    BY <1>1
  <1>3. S(log) # {} => first(log) \in S(log)
    <2>1. S(log) # {} => \E i \in S(log) : \A j \in S(log) : i <= j
      BY LeastExists, S(log) \subseteq Nat
    <2> QED BY <2>1
  <1>4. C(log) # {} => last(log) \in C(log)
    <2>1. C(log) # {} => \E i \in C(log) : \A j \in C(log) : j <= i
      BY GreatestExists, C(log) \subseteq 1..n
    <2> QED BY <2>1
  <1>5. S(log) # {} => log[first(log)] = other[first(other)]
    BY <1>2, <1>3
  <1>6. C(log) # {} => log[last(log)] = other[last(other)]
    BY <1>2, <1>4
  <1>7. \A l : StatusAt(l, n, f) = IF S(l) = {} THEN Unobserved
                                   ELSE IF C(l) # {} THEN l[last(l)].to ELSE l[first(l)].to
    BY DEF StatusAt
  <1> HIDE DEF S, C, first, last
  <1> QED BY <1>1, <1>5, <1>6, <1>7

\* What may follow the first n events may follow them in any log that starts so.
LEMMA AdmissibleIsLocal ==
    ASSUME NEW log, NEW other, NEW n \in Nat, NEW e,
           \A i \in 1..n : log[i] = other[i]
    PROVE  Admissible(e, log, n) <=> Admissible(e, other, n)
  <1>1. StatusAt(log, n, e.finding) = StatusAt(other, n, e.finding)
    BY StatusIsLocal
  <1> QED BY <1>1 DEF Admissible

-----------------------------------------------------------------------------
(* Appending to a verified log.                                            *)

\* The four facts about Append that the lemmas below use.
LEMMA AppendFacts ==
    ASSUME NEW S, NEW log \in Seq(S), NEW e \in S
    PROVE  /\ Append(log, e) \in Seq(S)
           /\ Len(log) \in Nat
           /\ Len(Append(log, e)) = Len(log) + 1
           /\ \A i \in 1..Len(log) : Append(log, e)[i] = log[i]
           /\ Append(log, e)[Len(log) + 1] = e
  BY AppendProperties, LenProperties

\* An admissible event extends a legal replay to a legal replay.
LEMMA LegalReplayGrows ==
    ASSUME NEW S, NEW log \in Seq(S), NEW e \in S,
           LegalReplay(log), Admissible(e, log, Len(log))
    PROVE  LegalReplay(Append(log, e))
  <1> DEFINE new == Append(log, e)
             n   == Len(log)
  <1>1. /\ n \in Nat /\ Len(new) = n + 1
        /\ \A i \in 1..n : new[i] = log[i]
        /\ new[n + 1] = e
    BY AppendFacts
  <1> HIDE DEF new, n
  <1>2. ASSUME NEW i \in 1..Len(new)
        PROVE  Admissible(new[i], new, i - 1)
    <2>1. \A j \in 1..(i - 1) : log[j] = new[j]
      BY <1>1
    <2>2. Admissible(new[i], new, i - 1) <=> Admissible(new[i], log, i - 1)
      BY <1>1, <2>1, AdmissibleIsLocal, i - 1 \in Nat
    <2>3. CASE i \in 1..n
      BY <1>1, <2>2, <2>3 DEF LegalReplay, n
    <2>4. CASE i = n + 1
      BY <1>1, <2>2, <2>4 DEF n
    <2> QED BY <1>1, <2>3, <2>4
  <1> QED BY <1>2 DEF LegalReplay, new

\* The identity a journal already has is that of each of its versioned events.
LEMMA JournalIdentityIsCommon ==
    ASSUME NEW S, NEW log \in Seq(S), NEW own, OneIdentity(log, own)
    PROVE  \A i \in 1..Len(log) : Versioned(log[i]) =>
               /\ JournalIdentity(log, own) = log[i].identity
               /\ JournalIdentity(log, own) # NoIdentity
  <1> DEFINE V == {i \in 1..Len(log) : Versioned(log[i])}
             first == CHOOSE i \in 1..Len(log) :
                          /\ Versioned(log[i])
                          /\ \A j \in 1..(i - 1) : ~Versioned(log[j])
  <1> SUFFICES ASSUME NEW i \in 1..Len(log), Versioned(log[i])
               PROVE  /\ JournalIdentity(log, own) = log[i].identity
                      /\ JournalIdentity(log, own) # NoIdentity
    OBVIOUS
  <1>1. Len(log) \in Nat
    BY LenProperties
  <1>2. PICK k \in V : \A j \in V : k <= j
    BY <1>1, LeastExists, V \subseteq Nat, V # {}
  <1>3. /\ Versioned(log[k])
        /\ \A j \in 1..(k - 1) : ~Versioned(log[j])
    BY <1>1, <1>2
  <1>4. first \in 1..Len(log) /\ Versioned(log[first])
    BY <1>2, <1>3
  <1>5. JournalIdentity(log, own) = log[first].identity
    BY DEF JournalIdentity
  <1>6. log[first].identity = log[i].identity
    BY <1>4 DEF OneIdentity
  <1> QED BY <1>5, <1>6 DEF Versioned

\* Without a versioned event the journal takes the identity it is opened with.
LEMMA JournalIdentityIsOwn ==
    ASSUME NEW log, NEW own, \A i \in 1..Len(log) : ~Versioned(log[i])
    PROVE  JournalIdentity(log, own) = own
  BY DEF JournalIdentity

\* A nonempty log's identity comes from its events or from the opener.
LEMMA JournalIdentityIsTyped ==
    ASSUME NEW Ids, NEW Idents, NEW log \in Seq(EventOver(Ids, Idents)), NEW own \in Idents,
           OneIdentity(log, own)
    PROVE  JournalIdentity(log, own) \in Idents
  <1>1. CASE \E i \in 1..Len(log) : Versioned(log[i])
    <2>1. PICK i \in 1..Len(log) : Versioned(log[i])
      BY <1>1
    <2>2. JournalIdentity(log, own) = log[i].identity
      BY <2>1, JournalIdentityIsCommon
    <2>3. log[i] \in EventOver(Ids, Idents)
      BY ElementOfSeq
    <2> QED BY <2>2, <2>3 DEF EventOver
  <1>2. CASE ~\E i \in 1..Len(log) : Versioned(log[i])
    BY <1>2, JournalIdentityIsOwn
  <1> QED BY <1>1, <1>2

\* Stamping keeps what the event says and fills in the envelope.
LEMMA EnvelopeFacts ==
    ASSUME NEW Ids, NEW Idents, NEW log \in Seq(EventOver(Ids, Idents)), NEW own \in Idents,
           NEW e \in EventOver(Ids, Idents), OneIdentity(log, own)
    PROVE  LET x == WithEnvelope(e, log, own)
               n == Len(log)
           IN  /\ x \in EventOver(Ids, Idents)
               /\ x.id = e.id /\ x.kind = e.kind /\ x.finding = e.finding
               /\ x.from = e.from /\ x.to = e.to
               /\ JournalIdentity(log, own) = NoIdentity => x = e
               /\ JournalIdentity(log, own) # NoIdentity =>
                      /\ x.identity = JournalIdentity(log, own)
                      /\ x.seq = IF n > 0 /\ Versioned(log[n]) THEN log[n].seq + 1 ELSE 1
                      /\ x.prev = IF n > 0 THEN log[n].id ELSE NoEvent
  <1> DEFINE x == WithEnvelope(e, log, own)
             n == Len(log)
             who == JournalIdentity(log, own)
             sq == IF n > 0 /\ Versioned(log[n]) THEN log[n].seq + 1 ELSE 1
             pv == IF n > 0 THEN log[n].id ELSE NoEvent
  <1>1. who \in Idents
    BY JournalIdentityIsTyped
  <1>2. n \in Nat /\ (n > 0 => log[n] \in EventOver(Ids, Idents))
    BY LenProperties, ElementOfSeq
  <1>3. sq \in Nat /\ pv \in Ids \cup {NoEvent}
    BY <1>2 DEF EventOver
  <1>4. x = IF who = NoIdentity THEN e
            ELSE [e EXCEPT !.identity = who, !.seq = sq, !.prev = pv]
    BY DEF WithEnvelope
  <1> HIDE DEF x, sq, pv, who
  <1>5. CASE who = NoIdentity
    BY <1>4, <1>5 DEF x, who
  <1>6. CASE who # NoIdentity
    <2>1. x = [e EXCEPT !.identity = who, !.seq = sq, !.prev = pv]
      BY <1>4, <1>6
    <2>2. x \in EventOver(Ids, Idents)
      BY <2>1, <1>1, <1>3 DEF EventOver
    <2>3. /\ x.id = e.id /\ x.kind = e.kind /\ x.finding = e.finding
          /\ x.from = e.from /\ x.to = e.to
          /\ x.identity = who /\ x.seq = sq /\ x.prev = pv
      BY <2>1 DEF EventOver
    <2> QED BY <2>2, <2>3, <1>6 DEF x, who, sq, pv
  <1> QED BY <1>5, <1>6

\* The event append() stamps extends a verified journal to a verified journal,
\* whoever opened it: the heart of _verify_events and _with_envelope together.
THEOREM StampedEventVerifies ==
    ASSUME NEW Ids, NEW Idents, NEW log \in Seq(EventOver(Ids, Idents)), NEW own \in Idents,
           NEW e \in EventOver(Ids, Idents), e.identity = NoIdentity,
           Verified(log, own), Admissible(e, log, Len(log))
    PROVE  Verified(Append(log, WithEnvelope(e, log, own)), NoIdentity)
  <1> DEFINE x   == WithEnvelope(e, log, own)
             n   == Len(log)
             new == Append(log, x)
             who == JournalIdentity(log, own)
  <1>1. LegacyPrefix(log) /\ OneIdentity(log, own) /\ Chained(log) /\ LegalReplay(log)
    BY DEF Verified
  <1>2. /\ x \in EventOver(Ids, Idents)
        /\ x.kind = e.kind /\ x.finding = e.finding /\ x.from = e.from /\ x.to = e.to
        /\ who = NoIdentity => x = e
        /\ who # NoIdentity =>
               /\ x.identity = who
               /\ x.seq = IF n > 0 /\ Versioned(log[n]) THEN log[n].seq + 1 ELSE 1
               /\ x.prev = IF n > 0 THEN log[n].id ELSE NoEvent
    BY <1>1, EnvelopeFacts
  <1>3. /\ n \in Nat /\ Len(new) = n + 1
        /\ \A i \in 1..n : new[i] = log[i]
        /\ new[n + 1] = x
    BY <1>2, AppendFacts
  <1>4. \A i \in 1..n : Versioned(log[i]) => who = log[i].identity /\ who # NoIdentity
    BY <1>1, JournalIdentityIsCommon
  <1>5. Versioned(x) <=> who # NoIdentity
    BY <1>2 DEF Versioned
  <1>6. Admissible(x, log, n)
    BY <1>2 DEF Admissible
  <1> HIDE DEF x, n, new, who
  <1>7. LegacyPrefix(new)
    BY <1>1, <1>3, <1>4, <1>5 DEF LegacyPrefix, n
  <1>8. OneIdentity(new, NoIdentity)
    BY <1>1, <1>2, <1>3, <1>4, <1>5 DEF OneIdentity, n
  <1>9. Chained(new)
    <2> SUFFICES ASSUME NEW i \in 1..(n + 1), Versioned(new[i])
                 PROVE  IF i = 1 THEN new[i].seq = 1 /\ new[i].prev = NoEvent
                        ELSE /\ new[i].seq = IF Versioned(new[i - 1])
                                             THEN new[i - 1].seq + 1 ELSE 1
                             /\ new[i].prev = new[i - 1].id
      BY <1>3 DEF Chained
    <2>1. CASE i \in 1..n
      <3>1. i # 1 => i - 1 \in 1..n
        BY <2>1, <1>3
      <3> QED BY <1>1, <1>3, <2>1, <3>1 DEF Chained, n
    <2>2. CASE i = n + 1
      <3>1. who # NoIdentity
        BY <1>3, <1>5, <2>2
      <3>2. i # 1 => n \in 1..n /\ n > 0 /\ i - 1 = n
        BY <1>3, <2>2
      <3>3. i = 1 => ~(n > 0)
        BY <1>3, <2>2
      <3> QED BY <1>2, <1>3, <2>2, <3>1, <3>2, <3>3
    <2> QED BY <1>3, <2>1, <2>2
  <1>10. LegalReplay(new)
    BY <1>1, <1>2, <1>6, LegalReplayGrows DEF new, n
  <1> QED BY <1>7, <1>8, <1>9, <1>10 DEF Verified, x, new

\* A journal that verifies for one process verifies for an opener without identity.
LEMMA VerifiedForAnyone ==
    ASSUME NEW log, NEW own, Verified(log, own)
    PROVE  Verified(log, NoIdentity)
  BY DEF Verified, OneIdentity

-----------------------------------------------------------------------------
(* The inductive invariant.                                                *)

\* An operation that has not stamped its event yet holds an un-enveloped one.
PendingOK ==
    \A p \in Procs : pc[p] \in {"choose", "validate", "lock", "check"} =>
        pending[p] \in Event /\ pending[p].identity = NoIdentity

\* LOCK_EX is held exactly by the process that is past flock().
LockOK ==
    \A p \in Procs : holder = p <=> pc[p] \in {"check", "write", "sync", "rollback"}

\* While p writes, the file is what p found plus pieces of p's line.
WriteOK ==
    \A p \in Procs : Writing(p) =>
        /\ pending[p] \in Event
        /\ base.ends # "torn"
        /\ Verified(base.lines, NoIdentity)
        /\ Verified(Append(base.lines, pending[p]), NoIdentity)
        /\ file = Written(base, pending[p], sent)

\* With no writer at work, a file that parses is verified.
QuietOK ==
    (\A p \in Procs : ~Writing(p)) =>
        (file.ends # "torn" => Verified(file.lines, NoIdentity))

IInv == TypeOK /\ PendingOK /\ LockOK /\ WriteOK /\ QuietOK

-----------------------------------------------------------------------------
(* Pieces of a line.                                                       *)

LEMMA WrittenIsTyped ==
    ASSUME NEW f \in File, NEW e \in Event, NEW k \in Pieces, f.ends # "torn"
    PROVE  Written(f, e, k) \in File
  <1>1. /\ f.lines \in Seq(Event) /\ f.ends \in Endings
        /\ Len(f.lines) \in Nat
    BY LenProperties DEF File
  <1>2. SubSeq(f.lines, 1, Len(f.lines) - 1) \in Seq(Event)
    <2>1. \A i \in 1..(Len(f.lines) - 1) : f.lines[i] \in Event
      BY <1>1, ElementOfSeq
    <2> QED BY <1>1, <2>1, SubSeqProperties
  <1>3. Append(f.lines, e) \in Seq(Event)
    BY <1>1, AppendProperties
  <1> QED BY <1>1, <1>2, <1>3 DEF Written, File, Endings

\* Whatever part of a line was written, the file is verified or does not parse.
LEMMA WrittenVerifies ==
    ASSUME NEW f \in File, NEW e \in Event, NEW k \in Pieces,
           Verified(f.lines, NoIdentity), Verified(Append(f.lines, e), NoIdentity)
    PROVE  Written(f, e, k).ends # "torn" => Verified(Written(f, e, k).lines, NoIdentity)
  <1>1. f.ends \in Endings /\ f = [lines |-> f.lines, ends |-> f.ends]
    BY DEF File
  <1>2. CASE k = 0
    BY <1>2 DEF Written
  <1>3. CASE k # 0 /\ f.ends = "unterminated"
    BY <1>3 DEF Written
  <1>4. CASE k = 1 /\ f.ends # "unterminated"
    BY <1>1, <1>4 DEF Written, File
  <1>5. CASE k # 0 /\ k # 1 /\ f.ends # "unterminated"
    BY <1>5 DEF Written
  <1> QED BY <1>2, <1>3, <1>4, <1>5

\* A journal p can read has typed lines, and their last status is typed.
LEMMA CurrentStatusIsTyped ==
    ASSUME TypeOK, NEW f
    PROVE  /\ Len(file.lines) \in Nat
           /\ StatusIn(file.lines, f) \in Statuses \cup {Unobserved}
  <1>1. file.lines \in Seq(Event) /\ Len(file.lines) \in Nat
    BY LenProperties DEF TypeOK, File
  <1>2. \A i \in 1..Len(file.lines) : file.lines[i].to \in Statuses
    <2> SUFFICES ASSUME NEW i \in 1..Len(file.lines) PROVE file.lines[i].to \in Statuses
      OBVIOUS
    <2>1. file.lines[i] \in Event
      BY <1>1, ElementOfSeq
    <2> QED BY <2>1 DEF Event, EventOver
  <1> QED BY <1>1, <1>2, StatusIsTyped DEF StatusIn

\* What CheckAndStamp stamps is an event, and extends the file it was read from.
LEMMA StampedEvent ==
    ASSUME TypeOK, PendingOK, NEW p \in Procs, pc[p] = "check", Legible(p),
           Admissible(pending[p], file.lines, Len(file.lines))
    PROVE  LET x == WithEnvelope(pending[p], file.lines, IdentityOf[p])
           IN  /\ x \in Event
               /\ Verified(file.lines, NoIdentity)
               /\ Verified(Append(file.lines, x), NoIdentity)
  <1> DEFINE Ids    == Procs \X Nat
             Idents == Identities \cup {NoIdentity}
  <1>1. /\ file.lines \in Seq(EventOver(Ids, Idents))
        /\ pending[p] \in EventOver(Ids, Idents)
        /\ pending[p].identity = NoIdentity
        /\ IdentityOf[p] \in Idents
    BY JournalAssumption DEF TypeOK, PendingOK, File, Event
  <1>2. Verified(file.lines, IdentityOf[p])
    BY DEF Legible, Readable
  <1>3. OneIdentity(file.lines, IdentityOf[p])
    BY <1>2 DEF Verified
  <1>4. WithEnvelope(pending[p], file.lines, IdentityOf[p]) \in Event
    BY <1>1, <1>3, EnvelopeFacts DEF Event
  <1>5. Verified(Append(file.lines, WithEnvelope(pending[p], file.lines, IdentityOf[p])),
                 NoIdentity)
    BY <1>1, <1>2, StampedEventVerifies
  <1> QED BY <1>2, <1>4, <1>5, VerifiedForAnyone

-----------------------------------------------------------------------------
(* Each action preserves the invariant.                                    *)

LEMMA InitIInv == Init => IInv
  <1> SUFFICES ASSUME Init PROVE IInv
    OBVIOUS
  <1>1. EmptyFile \in File /\ << >> \in Seq(Event)
    BY EmptySeq DEF EmptyFile, File, Endings
  <1>2. TypeOK
    BY <1>1, JournalAssumption DEF Init, TypeOK, PcStates, Outcomes, Pieces
  <1>3. Verified(<< >>, NoIdentity)
    BY EmptySeq DEF Verified, LegacyPrefix, OneIdentity, Chained, LegalReplay
  <1> QED
    BY <1>2, <1>3, JournalAssumption
    DEF Init, IInv, PendingOK, LockOK, WriteOK, QuietOK, Writing, EmptyFile

\* A new event is typed.
LEMMA NewEventIsTyped ==
    ASSUME TypeOK, NEW p \in Procs, NEW f \in Findings, NEW s \in Statuses,
           NEW kind \in {"observed", "changed", "other"}
    PROVE  NewEvent(p, kind, f, s) \in Event /\ NewEvent(p, kind, f, s).identity = NoIdentity
  BY DEF NewEvent, Event, EventOver, TypeOK

\* Type correctness is preserved: the only step that needs more than types is the
\* writer's, which must know that it found the journal whole.
LEMMA TypeStep == IInv /\ [Next]_vars => TypeOK'
  <1> SUFFICES ASSUME IInv, [Next]_vars PROVE TypeOK'
    OBVIOUS
  <1> USE JournalAssumption
  <1>0. TypeOK /\ PendingOK /\ LockOK /\ WriteOK
    BY DEF IInv
  <1>f. file \in File /\ base \in File /\ file.lines \in Seq(Event) /\ EmptyFile \in File
    BY <1>0, EmptySeq DEF TypeOK, File, EmptyFile, Endings
  <1>1. ASSUME NEW p \in Procs, BeginAppend(p) PROVE TypeOK'
    <2>1. PICK f \in Findings, s \in ObservedAs :
              \E kind \in {"observed", "other"} : Call(p, "lock", NewEvent(p, kind, f, s))
      BY <1>1 DEF BeginAppend
    <2>2. PICK kind \in {"observed", "other"} : Call(p, "lock", NewEvent(p, kind, f, s))
      BY <2>1
    <2>3. s \in Statuses
      OBVIOUS
    <2>4. NewEvent(p, kind, f, s) \in Event
      BY <1>0, <2>3, NewEventIsTyped
    <2> QED BY <1>0, <1>1, <2>2, <2>4
       DEF BeginAppend, Call, Goto, FileUnchanged, TypeOK, PcStates, Outcomes
  <1>2. ASSUME NEW p \in Procs, BeginChange(p) PROVE TypeOK'
    <2>1. PICK f \in Findings, s \in Targets :
              Call(p, "choose", NewEvent(p, "changed", f, s))
      BY <1>2 DEF BeginChange
    <2>2. s \in Statuses
      OBVIOUS
    <2>3. NewEvent(p, "changed", f, s) \in Event
      BY <1>0, <2>2, NewEventIsTyped
    <2> QED BY <1>0, <1>2, <2>1, <2>3
       DEF BeginChange, Call, Goto, FileUnchanged, TypeOK, PcStates, Outcomes
  <1>3. ASSUME NEW p \in Procs, BeginRead(p) PROVE TypeOK'
    BY <1>0, <1>3 DEF BeginRead, Call, Goto, FileUnchanged, TypeOK, PcStates, Outcomes
  <1>4. ASSUME NEW p \in Procs, Read(p) PROVE TypeOK'
    BY <1>0, <1>f, <1>4 DEF Read, Return, FileUnchanged, TypeOK, PcStates, Outcomes
  <1>5. ASSUME NEW p \in Procs, ChooseSource(p) PROVE TypeOK'
    <2> DEFINE current == StatusIn(file.lines, pending[p].finding)
    <2>1. pending[p] \in Event
      BY <1>0, <1>5 DEF ChooseSource, PendingOK
    <2>2. current \in Statuses \cup {Unobserved}
      BY <1>0, CurrentStatusIsTyped
    <2>3. current # Unobserved => [pending[p] EXCEPT !.from = current] \in Event
      BY <2>1, <2>2 DEF Event, EventOver
    <2>4. \/ Return(p, "journal_corrupt") /\ UNCHANGED seen
          \/ Return(p, "refused") /\ seen' = [seen EXCEPT ![p] = file.lines]
          \/ /\ current # Unobserved
             /\ pc' = [pc EXCEPT ![p] = "validate"]
             /\ pending' = [pending EXCEPT ![p] = [pending[p] EXCEPT !.from = current]]
             /\ seen' = [seen EXCEPT ![p] = file.lines]
             /\ UNCHANGED outcome
      BY <1>5 DEF ChooseSource, Goto
    <2>5. UNCHANGED <<file, base, sent, holder, ops, acked, faults, crashes>>
      BY <1>5 DEF ChooseSource, FileUnchanged
    <2> HIDE DEF current
    <2>6. pending' \in [Procs -> Event \cup {NoEvent}]
      BY ZenonT(60), <1>0, <2>3, <2>4 DEF Return, TypeOK
    <2>7. seen' \in [Procs -> Seq(Event)]
      BY <1>0, <1>f, <2>4 DEF TypeOK
    <2>8. pc' \in [Procs -> PcStates]
      <3>1. \E where \in {"idle", "validate"} : pc' = [pc EXCEPT ![p] = where]
        BY <2>4 DEF Return
      <3> QED BY <1>0, <3>1 DEF TypeOK, PcStates
    <2>9. outcome' \in [Procs -> Outcomes]
      <3>1. \/ \E result \in {"journal_corrupt", "refused"} :
                  outcome' = [outcome EXCEPT ![p] = result]
            \/ UNCHANGED outcome
        BY <2>4 DEF Return
      <3> QED BY <1>0, <3>1 DEF TypeOK, Outcomes
    <2> QED BY <1>0, <2>5, <2>6, <2>7, <2>8, <2>9 DEF TypeOK
  <1>6. ASSUME NEW p \in Procs, PreValidate(p) PROVE TypeOK'
    BY ZenonT(60), <1>0, <1>f, <1>6
       DEF PreValidate, Goto, Return, FileUnchanged, TypeOK, PcStates, Outcomes
  <1>7. ASSUME NEW p \in Procs, AcquireExclusive(p) PROVE TypeOK'
    BY <1>0, <1>7 DEF AcquireExclusive, Goto, FileUnchanged, TypeOK, PcStates, Outcomes
  <1>8. ASSUME NEW p \in Procs, CheckAndStamp(p) PROVE TypeOK'
    <2>1. CASE Legible(p) /\ Admissible(pending[p], file.lines, Len(file.lines))
      <3>1. WithEnvelope(pending[p], file.lines, IdentityOf[p]) \in Event
        BY <1>0, <1>8, <2>1, StampedEvent DEF CheckAndStamp
      <3>2. /\ pc' = [pc EXCEPT ![p] = "write"]
            /\ pending' = [pending EXCEPT
                              ![p] = WithEnvelope(pending[p], file.lines, IdentityOf[p])]
            /\ base' = file /\ sent' = 0
            /\ UNCHANGED <<file, holder, outcome, seen, ops, acked, faults, crashes>>
        BY <1>8, <2>1 DEF CheckAndStamp, Goto
      <3> QED BY <1>0, <1>f, <3>1, <3>2 DEF TypeOK, PcStates, Outcomes, Pieces
    <2>2. CASE ~(Legible(p) /\ Admissible(pending[p], file.lines, Len(file.lines)))
      BY <1>0, <1>8, <2>2 DEF CheckAndStamp, Return, Release, TypeOK, PcStates, Outcomes
    <2> QED BY <2>1, <2>2
  <1>9. ASSUME NEW p \in Procs, WriteSome(p) PROVE TypeOK'
    <2>1. PICK k \in (sent + 1)..3 :
              /\ sent' = k
              /\ file' = Written(base, pending[p], k)
              /\ Goto(p, "write", IF k = 3 THEN "sync" ELSE "write")
      BY <1>9 DEF WriteSome
    <2>2. k \in Pieces
      BY <1>0 DEF TypeOK, Pieces
    <2>3. pending[p] \in Event /\ base.ends # "torn"
      BY <1>0, <1>9 DEF WriteSome, WriteOK, Writing
    <2>4. file' \in File
      BY <1>f, <2>1, <2>2, <2>3, WrittenIsTyped
    <2> QED BY <1>0, <1>9, <2>1, <2>2, <2>4 DEF WriteSome, Goto, TypeOK, PcStates, Outcomes
  <1>10. ASSUME NEW p \in Procs, Sync(p) PROVE TypeOK'
    <2>1. pending[p] \in Event
      BY <1>0, <1>10 DEF Sync, WriteOK, Writing
    <2>2. pending[p].id \in Procs \X Nat
      BY <2>1 DEF Event, EventOver
    <2> QED BY <1>0, <1>10, <2>2
       DEF Sync, Return, Release, FileUnchanged, TypeOK, PcStates, Outcomes
  <1>11. ASSUME NEW p \in Procs, RollBack(p) PROVE TypeOK'
    BY <1>0, <1>11 DEF RollBack, Return, Release, TypeOK, PcStates, Outcomes
  <1>12. ASSUME NEW p \in Procs, WriteFails(p) PROVE TypeOK'
    BY <1>0, <1>12 DEF WriteFails, FileUnchanged, TypeOK, PcStates, Outcomes
  <1>13. ASSUME NEW p \in Procs, RollBackFails(p) PROVE TypeOK'
    BY <1>0, <1>13 DEF RollBackFails, Return, Release, FileUnchanged, TypeOK, PcStates, Outcomes
  <1>14. ASSUME NEW p \in Procs, SystemCallFails(p) PROVE TypeOK'
    <2>1. /\ \E result \in Outcomes : Return(p, result)
          /\ Release(p) /\ FileUnchanged /\ UNCHANGED <<seen, ops, acked, crashes>>
          /\ faults < MaxFaults /\ faults' = faults + 1
      BY <1>14 DEF SystemCallFails, OpenOrReadFails, LockFails, FchmodFails, FailsAt, Outcomes
    <2>2. /\ pc' \in [Procs -> PcStates] /\ pending' \in [Procs -> Event \cup {NoEvent}]
          /\ outcome' \in [Procs -> Outcomes]
      BY <1>0, <2>1 DEF Return, TypeOK, PcStates
    <2> QED BY <1>0, <2>1, <2>2 DEF Release, FileUnchanged, TypeOK
  <1>15. ASSUME NEW p \in Procs, Crash(p) PROVE TypeOK'
    BY <1>0, <1>15 DEF Crash, Return, Release, FileUnchanged, TypeOK, PcStates, Outcomes
  <1>16. CASE UNCHANGED vars
    BY <1>0, <1>16 DEF vars, TypeOK
  <1> QED
    BY <1>1, <1>2, <1>3, <1>4, <1>5, <1>6, <1>7, <1>8, <1>9, <1>10, <1>11, <1>12, <1>13,
       <1>14, <1>15, <1>16
    DEF Next, Step, Finished

\* Pending events and the lock follow the program counter.
LEMMA ControlStep == IInv /\ [Next]_vars => PendingOK' /\ LockOK'
  <1> SUFFICES ASSUME IInv, [Next]_vars PROVE PendingOK' /\ LockOK'
    OBVIOUS
  <1> USE JournalAssumption DEF PendingOK, LockOK
  <1>0. TypeOK /\ PendingOK /\ LockOK
    BY DEF IInv
  <1>1. ASSUME NEW p \in Procs, BeginAppend(p) PROVE PendingOK' /\ LockOK'
    <2>1. PICK f \in Findings, s \in ObservedAs :
              \E kind \in {"observed", "other"} : Call(p, "lock", NewEvent(p, kind, f, s))
      BY <1>1 DEF BeginAppend
    <2>2. PICK kind \in {"observed", "other"} : Call(p, "lock", NewEvent(p, kind, f, s))
      BY <2>1
    <2>3. s \in Statuses
      OBVIOUS
    <2>4. NewEvent(p, kind, f, s) \in Event /\ NewEvent(p, kind, f, s).identity = NoIdentity
      BY <1>0, <2>3, NewEventIsTyped
    <2> QED BY <1>0, <1>1, <2>2, <2>4 DEF BeginAppend, Call, Goto, TypeOK
  <1>2. ASSUME NEW p \in Procs, BeginChange(p) PROVE PendingOK' /\ LockOK'
    <2>1. PICK f \in Findings, s \in Targets :
              Call(p, "choose", NewEvent(p, "changed", f, s))
      BY <1>2 DEF BeginChange
    <2>2. s \in Statuses
      OBVIOUS
    <2>3. /\ NewEvent(p, "changed", f, s) \in Event
          /\ NewEvent(p, "changed", f, s).identity = NoIdentity
      BY <1>0, <2>2, NewEventIsTyped
    <2> QED BY <1>0, <1>2, <2>1, <2>3 DEF BeginChange, Call, Goto, TypeOK
  <1>3. ASSUME NEW p \in Procs, BeginRead(p) PROVE PendingOK' /\ LockOK'
    BY <1>0, <1>3 DEF BeginRead, Call, Goto, TypeOK
  <1>4. ASSUME NEW p \in Procs, Read(p) PROVE PendingOK' /\ LockOK'
    <2>1. pc[p] = "read" /\ UNCHANGED holder
      BY <1>4 DEF Read
    <2>2. Return(p, "ok") \/ Return(p, "journal_corrupt")
      BY <1>4 DEF Read
    <2> QED BY ZenonT(60), <1>0, <2>1, <2>2 DEF Return, TypeOK
  <1>5. ASSUME NEW p \in Procs, ChooseSource(p) PROVE PendingOK' /\ LockOK'
    <2> DEFINE current == StatusIn(file.lines, pending[p].finding)
               aimed   == [pending[p] EXCEPT !.from = current]
    <2>1. pending[p] \in Event /\ pending[p].identity = NoIdentity
      BY <1>0, <1>5 DEF ChooseSource
    <2>2. current \in Statuses \cup {Unobserved}
      BY <1>0, CurrentStatusIsTyped
    <2>3. current # Unobserved => aimed \in Event /\ aimed.identity = NoIdentity
      BY <2>1, <2>2 DEF Event, EventOver
    <2>4. \/ Return(p, "journal_corrupt")
          \/ Return(p, "refused")
          \/ /\ current # Unobserved
             /\ pc' = [pc EXCEPT ![p] = "validate"]
             /\ pending' = [pending EXCEPT ![p] = aimed]
      BY <1>5 DEF ChooseSource, Goto
    <2>5. pc[p] = "choose" /\ UNCHANGED holder
      BY <1>5 DEF ChooseSource
    <2> HIDE DEF current, aimed
    <2> QED BY ZenonT(60), <1>0, <2>3, <2>4, <2>5 DEF Return, TypeOK
  <1>6. ASSUME NEW p \in Procs, PreValidate(p) PROVE PendingOK' /\ LockOK'
    <2>1. pc[p] = "validate" /\ UNCHANGED holder
      BY <1>6 DEF PreValidate
    <2>2. \/ Return(p, "journal_corrupt")
          \/ Return(p, "refused")
          \/ pc' = [pc EXCEPT ![p] = "lock"] /\ UNCHANGED pending
      BY <1>6 DEF PreValidate, Goto
    <2> QED BY ZenonT(60), <1>0, <2>1, <2>2 DEF Return, TypeOK
  <1>7. ASSUME NEW p \in Procs, AcquireExclusive(p) PROVE PendingOK' /\ LockOK'
    BY <1>0, <1>7 DEF AcquireExclusive, Goto, TypeOK
  <1>8. ASSUME NEW p \in Procs, CheckAndStamp(p) PROVE PendingOK' /\ LockOK'
    <2>1. CASE Return(p, "journal_corrupt") /\ Release(p)
      BY <1>0, <1>8, <2>1 DEF CheckAndStamp, Return, Release, TypeOK
    <2>2. CASE Return(p, "refused") /\ Release(p)
      BY <1>0, <1>8, <2>2 DEF CheckAndStamp, Return, Release, TypeOK
    <2>3. CASE /\ Goto(p, "check", "write")
               /\ UNCHANGED holder
               /\ pending' = [pending EXCEPT
                                 ![p] = WithEnvelope(@, file.lines, IdentityOf[p])]
      BY <1>0, <2>3 DEF Goto, TypeOK
    <2> QED BY <1>8, <2>1, <2>2, <2>3 DEF CheckAndStamp
  <1>9. ASSUME NEW p \in Procs, WriteSome(p) PROVE PendingOK' /\ LockOK'
    BY <1>0, <1>9 DEF WriteSome, Goto, TypeOK
  <1>10. ASSUME NEW p \in Procs, Sync(p) PROVE PendingOK' /\ LockOK'
    BY <1>0, <1>10 DEF Sync, Return, Release, TypeOK
  <1>11. ASSUME NEW p \in Procs, RollBack(p) PROVE PendingOK' /\ LockOK'
    BY <1>0, <1>11 DEF RollBack, Return, Release, TypeOK
  <1>12. ASSUME NEW p \in Procs, WriteFails(p) PROVE PendingOK' /\ LockOK'
    BY <1>0, <1>12 DEF WriteFails, TypeOK
  <1>13. ASSUME NEW p \in Procs, RollBackFails(p) PROVE PendingOK' /\ LockOK'
    BY <1>0, <1>13 DEF RollBackFails, Return, Release, TypeOK
  <1>14. ASSUME NEW p \in Procs, SystemCallFails(p) PROVE PendingOK' /\ LockOK'
    <2>1. \E result : Return(p, result) /\ Release(p)
      BY <1>14 DEF SystemCallFails, OpenOrReadFails, LockFails, FchmodFails, FailsAt
    <2> QED BY SMTT(60), <1>0, <2>1 DEF Return, Release, TypeOK
  <1>15. ASSUME NEW p \in Procs, Crash(p) PROVE PendingOK' /\ LockOK'
    BY <1>0, <1>15 DEF Crash, Return, Release, TypeOK
  <1>16. CASE UNCHANGED vars
    BY <1>0, <1>16 DEF vars
  <1> QED
    BY <1>1, <1>2, <1>3, <1>4, <1>5, <1>6, <1>7, <1>8, <1>9, <1>10, <1>11, <1>12, <1>13,
       <1>14, <1>15, <1>16
    DEF Next, Step, Finished

\* Only one process writes, and a process that does not hold the lock does not.
LEMMA OneWriter ==
    ASSUME LockOK, NEW p \in Procs, holder = p
    PROVE  \A q \in Procs : q # p => ~Writing(q)
  BY DEF LockOK, Writing

\* When the writer is done, with k pieces of its line in the file, the file parses
\* only if it is verified.
LEMMA ReleaseIsQuiet ==
    ASSUME TypeOK, WriteOK, NEW p \in Procs, Writing(p)
    PROVE  /\ file.ends # "torn" => Verified(file.lines, NoIdentity)
           /\ base.ends # "torn" => Verified(base.lines, NoIdentity)
  <1>1. /\ pending[p] \in Event /\ Verified(base.lines, NoIdentity)
        /\ Verified(Append(base.lines, pending[p]), NoIdentity)
        /\ file = Written(base, pending[p], sent)
    BY DEF WriteOK
  <1>2. base \in File /\ sent \in Pieces
    BY DEF TypeOK
  <1> QED BY <1>1, <1>2, WrittenVerifies

\* A step that leaves the file alone and sends p to where nobody writes.
LEMMA FileStepAway ==
    ASSUME IInv, NEW p \in Procs, ~Writing(p), ~Writing(p)',
           \A q \in Procs : q # p => pc'[q] = pc[q] /\ pending'[q] = pending[q],
           FileUnchanged
    PROVE  WriteOK' /\ QuietOK'
  BY DEF IInv, WriteOK, QuietOK, Writing, FileUnchanged

\* The file is what the invariant says after every step.
LEMMA FileStep == IInv /\ [Next]_vars => WriteOK' /\ QuietOK'
  <1> SUFFICES ASSUME IInv, [Next]_vars PROVE WriteOK' /\ QuietOK'
    OBVIOUS
  <1> USE JournalAssumption
  <1>0. TypeOK /\ PendingOK /\ LockOK /\ WriteOK /\ QuietOK
    BY DEF IInv
  <1>1. ASSUME NEW p \in Procs, BeginAppend(p) \/ BeginChange(p) \/ BeginRead(p)
        PROVE  WriteOK' /\ QuietOK'
    <2>1. \E entry \in {"lock", "choose", "read"} :
              pc[p] = "idle" /\ pc' = [pc EXCEPT ![p] = entry]
      BY <1>1 DEF BeginAppend, BeginChange, BeginRead, Call, Goto
    <2>2. FileUnchanged /\ \A q \in Procs : q # p => pending'[q] = pending[q]
      BY <1>0, <1>1 DEF BeginAppend, BeginChange, BeginRead, Call, TypeOK
    <2>3. ~Writing(p) /\ ~Writing(p)' /\ \A q \in Procs : q # p => pc'[q] = pc[q]
      BY <1>0, <2>1 DEF Writing, TypeOK
    <2> QED BY <2>2, <2>3, FileStepAway
  <1>2. ASSUME NEW p \in Procs, Read(p) \/ ChooseSource(p) \/ PreValidate(p)
        PROVE  WriteOK' /\ QuietOK'
    <2>1. /\ pc[p] \in {"read", "choose", "validate"}
          /\ \E where \in {"idle", "validate", "lock"} : pc' = [pc EXCEPT ![p] = where]
      BY <1>2 DEF Read, ChooseSource, PreValidate, Goto, Return
    <2>2. FileUnchanged
      BY <1>2 DEF Read, ChooseSource, PreValidate
    <2>3. \A q \in Procs : q # p => pending'[q] = pending[q]
      BY <1>0, <1>2 DEF Read, ChooseSource, PreValidate, Return, TypeOK
    <2>4. ~Writing(p) /\ ~Writing(p)' /\ \A q \in Procs : q # p => pc'[q] = pc[q]
      BY <1>0, <2>1 DEF Writing, TypeOK
    <2> QED BY <2>2, <2>3, <2>4, FileStepAway
  <1>3. ASSUME NEW p \in Procs, AcquireExclusive(p) PROVE WriteOK' /\ QuietOK'
    <2>1. pc[p] = "lock" /\ pc' = [pc EXCEPT ![p] = "check"] /\ FileUnchanged
      BY <1>3 DEF AcquireExclusive, Goto
    <2>2. ~Writing(p) /\ ~Writing(p)' /\ \A q \in Procs : q # p => pc'[q] = pc[q]
      BY <1>0, <2>1 DEF Writing, TypeOK
    <2>3. UNCHANGED pending
      BY <1>3 DEF AcquireExclusive
    <2> QED BY <2>1, <2>2, <2>3, FileStepAway
  <1>4. ASSUME NEW p \in Procs, SystemCallFails(p) PROVE WriteOK' /\ QuietOK'
    <2>1. /\ pc[p] \in {"read", "choose", "validate", "lock", "check"}
          /\ pc' = [pc EXCEPT ![p] = "idle"]
          /\ pending' = [pending EXCEPT ![p] = NoEvent]
          /\ FileUnchanged
      BY <1>4 DEF SystemCallFails, OpenOrReadFails, LockFails, FchmodFails, FailsAt, Return
    <2>2. /\ ~Writing(p) /\ ~Writing(p)'
          /\ \A q \in Procs : q # p => pc'[q] = pc[q] /\ pending'[q] = pending[q]
      BY <1>0, <2>1 DEF Writing, TypeOK
    <2> QED BY <2>1, <2>2, FileStepAway
  <1>5. ASSUME NEW p \in Procs, CheckAndStamp(p) PROVE WriteOK' /\ QuietOK'
    <2>1. holder = p /\ \A q \in Procs : q # p => ~Writing(q)
      BY <1>0, <1>5, OneWriter DEF CheckAndStamp, LockOK
    <2>2. CASE Legible(p) /\ Admissible(pending[p], file.lines, Len(file.lines))
      <3> DEFINE x == WithEnvelope(pending[p], file.lines, IdentityOf[p])
      <3>1. /\ x \in Event
            /\ Verified(file.lines, NoIdentity)
            /\ Verified(Append(file.lines, x), NoIdentity)
        BY <1>0, <1>5, <2>2, StampedEvent DEF CheckAndStamp
      <3>2. /\ pc' = [pc EXCEPT ![p] = "write"]
            /\ pending' = [pending EXCEPT ![p] = x]
            /\ base' = file /\ sent' = 0 /\ file' = file
        BY <1>5, <2>2 DEF CheckAndStamp, Goto
      <3>3. file.ends # "torn"
        BY <2>2 DEF Legible, Readable
      <3> HIDE DEF x
      <3>4. pending'[p] = x /\ pc'[p] = "write"
        BY <1>0, <3>2 DEF TypeOK
      <3>5. \A q \in Procs : q # p => ~Writing(q)'
        BY <1>0, <2>1, <3>2 DEF Writing, TypeOK
      <3>6. WriteOK'
        BY <3>1, <3>2, <3>3, <3>4, <3>5 DEF WriteOK, Written
      <3>7. QuietOK'
        BY <3>4 DEF QuietOK, Writing
      <3> QED BY <3>6, <3>7
    <2>3. CASE ~(Legible(p) /\ Admissible(pending[p], file.lines, Len(file.lines)))
      <3>1. /\ pc[p] = "check" /\ pc' = [pc EXCEPT ![p] = "idle"]
            /\ pending' = [pending EXCEPT ![p] = NoEvent]
            /\ FileUnchanged
        BY <1>5, <2>3 DEF CheckAndStamp, Return, FileUnchanged
      <3>2. /\ ~Writing(p) /\ ~Writing(p)'
            /\ \A q \in Procs : q # p => pc'[q] = pc[q] /\ pending'[q] = pending[q]
        BY <1>0, <3>1 DEF Writing, TypeOK
      <3> QED BY <3>1, <3>2, FileStepAway
    <2> QED BY <2>2, <2>3
  <1>6. ASSUME NEW p \in Procs, WriteSome(p) PROVE WriteOK' /\ QuietOK'
    <2>1. PICK k \in (sent + 1)..3 :
              /\ sent' = k
              /\ file' = Written(base, pending[p], k)
              /\ pc' = [pc EXCEPT ![p] = IF k = 3 THEN "sync" ELSE "write"]
      BY <1>6 DEF WriteSome, Goto
    <2>2. pc[p] = "write" /\ UNCHANGED <<holder, base, pending>>
      BY <1>6 DEF WriteSome
    <2>3. holder = p /\ \A q \in Procs : q # p => ~Writing(q)
      BY <1>0, <2>2, OneWriter DEF LockOK
    <2>4. \A q \in Procs : q # p => ~Writing(q)'
      BY <1>0, <2>1, <2>3 DEF Writing, TypeOK
    <2>5. Writing(p)'
      BY <1>0, <2>1 DEF Writing, TypeOK
    <2>6. /\ pending[p] \in Event /\ base.ends # "torn"
          /\ Verified(base.lines, NoIdentity)
          /\ Verified(Append(base.lines, pending[p]), NoIdentity)
      BY <1>0, <2>2 DEF WriteOK, Writing
    <2>7. WriteOK'
      BY <2>1, <2>2, <2>4, <2>6 DEF WriteOK
    <2> QED BY <2>5, <2>7 DEF QuietOK
  <1>7. ASSUME NEW p \in Procs, WriteFails(p) PROVE WriteOK' /\ QuietOK'
    <2>1. /\ pc[p] \in {"write", "sync"} /\ pc' = [pc EXCEPT ![p] = "rollback"]
          /\ UNCHANGED <<file, base, sent, pending>>
      BY <1>7 DEF WriteFails, FileUnchanged
    <2>2. \A q \in Procs : Writing(q)' <=> Writing(q)
      BY <1>0, <2>1 DEF Writing, TypeOK
    <2> QED BY <1>0, <2>1, <2>2 DEF WriteOK, QuietOK
  <1>8. ASSUME NEW p \in Procs, Sync(p) \/ RollBack(p) \/ RollBackFails(p)
        PROVE  WriteOK' /\ QuietOK'
    <2>1. /\ pc[p] \in {"sync", "rollback"} /\ pc' = [pc EXCEPT ![p] = "idle"]
          /\ file' = file \/ file' = base
      BY <1>8 DEF Sync, RollBack, RollBackFails, Return, FileUnchanged
    <2>2. Writing(p) /\ holder = p /\ \A q \in Procs : q # p => ~Writing(q)
      BY <1>0, <2>1, OneWriter DEF LockOK, Writing
    <2>3. \A q \in Procs : ~Writing(q)'
      BY <1>0, <2>1, <2>2 DEF Writing, TypeOK
    <2>4. file'.ends # "torn" => Verified(file'.lines, NoIdentity)
      BY <1>0, <2>1, <2>2, ReleaseIsQuiet
    <2> QED BY <2>3, <2>4 DEF WriteOK, QuietOK
  <1>9. ASSUME NEW p \in Procs, Crash(p) PROVE WriteOK' /\ QuietOK'
    <2>1. /\ pc' = [pc EXCEPT ![p] = "idle"]
          /\ pending' = [pending EXCEPT ![p] = NoEvent]
          /\ FileUnchanged
      BY <1>9 DEF Crash, Return
    <2>2. CASE Writing(p)
      <3>1. holder = p /\ \A q \in Procs : q # p => ~Writing(q)
        BY <1>0, <2>2, OneWriter DEF LockOK, Writing
      <3>2. \A q \in Procs : ~Writing(q)'
        BY <1>0, <2>1, <3>1 DEF Writing, TypeOK
      <3>3. file'.ends # "torn" => Verified(file'.lines, NoIdentity)
        BY <1>0, <2>1, <2>2, ReleaseIsQuiet DEF FileUnchanged
      <3> QED BY <3>2, <3>3 DEF WriteOK, QuietOK
    <2>3. CASE ~Writing(p)
      <3>1. /\ ~Writing(p)'
            /\ \A q \in Procs : q # p => pc'[q] = pc[q] /\ pending'[q] = pending[q]
        BY <1>0, <2>1 DEF Writing, TypeOK
      <3> QED BY <2>1, <2>3, <3>1, FileStepAway
    <2> QED BY <2>2, <2>3
  <1>10. CASE UNCHANGED vars
    BY <1>0, <1>10 DEF vars, WriteOK, QuietOK, Writing
  <1> QED
    BY <1>1, <1>2, <1>3, <1>4, <1>5, <1>6, <1>7, <1>8, <1>9, <1>10 DEF Next, Step, Finished

-----------------------------------------------------------------------------
(* The theorems.                                                           *)

\* Every reachable state satisfies the inductive invariant.
THEOREM Invariance == Spec => []IInv
  <1>1. Init => IInv
    BY InitIInv
  <1>2. IInv /\ [Next]_vars => IInv'
    BY TypeStep, ControlStep, FileStep DEF IInv
  <1> QED BY <1>1, <1>2, PTL DEF Spec

\* Type correctness of the journal.
THEOREM TypeCorrectness == Spec => []TypeOK
  <1>1. IInv => TypeOK
    BY DEF IInv
  <1> QED BY <1>1, Invariance, PTL

\* What is committed and parses is verified.
LEMMA CommittedIsVerified ==
    ASSUME IInv, Committed.ends # "torn"
    PROVE  Verified(Committed.lines, NoIdentity)
  <1>1. CASE \E p \in Procs : Writing(p)
    BY <1>1 DEF IInv, WriteOK, Committed
  <1>2. CASE ~\E p \in Procs : Writing(p)
    BY <1>2 DEF IInv, QuietOK, Committed
  <1> QED BY <1>1, <1>2

\* Legacy prefix, one identity, contiguous sequences and linked digests hold in
\* every journal that parses, after any interleaving, kill and I/O error.
THEOREM ChainNeverBreaks == Spec => []ChainUnbroken
  <1>1. IInv => ChainUnbroken
    BY CommittedIsVerified DEF ChainUnbroken, Verified
  <1> QED BY <1>1, Invariance, PTL

\* No status change is ever applied to a status other than the one its caller saw.
THEOREM NoUpdateIsLost == Spec => []NoLostUpdate
  <1>1. IInv => NoLostUpdate
    BY CommittedIsVerified DEF NoLostUpdate, Verified
  <1> QED BY <1>1, Invariance, PTL

\* A journal that does not parse is neither written to nor acknowledged from again.
THEOREM TornStaysFrozen == Spec => TornIsFrozen
  <1>1. ASSUME IInv, [Next]_vars, Committed.ends = "torn"
        PROVE  Committed' = Committed /\ acked' = acked
    <2> USE JournalAssumption
    <2>0. TypeOK /\ LockOK
      BY <1>1 DEF IInv
    <2>1. \A p \in Procs : ~Writing(p)
      BY <1>1 DEF IInv, WriteOK, Committed
    <2>2. Committed = file /\ file.ends = "torn"
      BY <1>1, <2>1 DEF Committed
    <2>3. SUFFICES (\A p \in Procs : ~Writing(p)') /\ UNCHANGED <<file, acked>>
      BY <2>2 DEF Committed
    <2>4. ASSUME NEW p \in Procs, BeginAppend(p) \/ BeginChange(p) \/ BeginRead(p)
          PROVE  (\A q \in Procs : ~Writing(q)') /\ UNCHANGED <<file, acked>>
      <3>1. \E entry \in {"lock", "choose", "read"} : pc' = [pc EXCEPT ![p] = entry]
        BY <2>4 DEF BeginAppend, BeginChange, BeginRead, Call, Goto
      <3>2. \A q \in Procs : ~Writing(q)'
        BY <2>0, <2>1, <3>1 DEF Writing, TypeOK
      <3> QED BY <2>4, <3>2 DEF BeginAppend, BeginChange, BeginRead, FileUnchanged
    <2>5. ASSUME NEW p \in Procs,
                 Read(p) \/ ChooseSource(p) \/ PreValidate(p) \/ AcquireExclusive(p)
                 \/ SystemCallFails(p) \/ Crash(p)
          PROVE  (\A q \in Procs : ~Writing(q)') /\ UNCHANGED <<file, acked>>
      <3>1. \E where \in {"idle", "validate", "lock", "check"} :
                pc' = [pc EXCEPT ![p] = where]
        BY <2>5 DEF Read, ChooseSource, PreValidate, AcquireExclusive, SystemCallFails,
                    OpenOrReadFails, LockFails, FchmodFails, FailsAt, Crash, Goto, Return
      <3>2. \A q \in Procs : ~Writing(q)'
        BY <2>0, <2>1, <3>1 DEF Writing, TypeOK
      <3> QED BY <2>5, <3>2
              DEF Read, ChooseSource, PreValidate, AcquireExclusive, SystemCallFails,
                  OpenOrReadFails, LockFails, FchmodFails, FailsAt, Crash, FileUnchanged
    <2>6. ASSUME NEW p \in Procs, CheckAndStamp(p)
          PROVE  (\A q \in Procs : ~Writing(q)') /\ UNCHANGED <<file, acked>>
      <3>1. ~Legible(p)
        BY <2>2 DEF Legible, Readable
      <3>2. pc' = [pc EXCEPT ![p] = "idle"]
        BY <2>6, <3>1 DEF CheckAndStamp, Return
      <3>3. \A q \in Procs : ~Writing(q)'
        BY <2>0, <2>1, <3>2 DEF Writing, TypeOK
      <3> QED BY <2>6, <3>3 DEF CheckAndStamp
    <2>7. ASSUME NEW p \in Procs,
                 WriteSome(p) \/ Sync(p) \/ RollBack(p) \/ WriteFails(p) \/ RollBackFails(p)
          PROVE  FALSE
      <3>1. Writing(p)
        BY <2>7 DEF WriteSome, Sync, RollBack, WriteFails, RollBackFails, Goto, Writing
      <3> QED BY <2>1, <3>1
    <2>8. CASE UNCHANGED vars
      BY <2>1, <2>8 DEF vars, Writing
    <2> QED BY <1>1, <2>4, <2>5, <2>6, <2>7, <2>8 DEF Next, Step, Finished
  <1>2. IInv /\ [Next]_vars =>
            [Committed.ends = "torn" => Committed' = Committed /\ acked' = acked]_vars
    BY <1>1
  <1> QED BY <1>2, Invariance, PTL DEF Spec, TornIsFrozen
=============================================================================
