---------------------------- MODULE JournalEvents ---------------------------
(***************************************************************************)
(* The pure half of src/src/reviewctl/journal.py: what a list of events    *)
(* projects to (_project), when it verifies (_verify_events), when an      *)
(* event may follow it (_validate_event) and which envelope the event gets *)
(* (_with_envelope).                                                       *)
(*                                                                         *)
(* An event is a record                                                    *)
(*   id        its eventId, standing for its digest: the id is unique and  *)
(*             the digest covers it                                        *)
(*   kind      "observed", "changed" or "other" (every other event type)   *)
(*   finding   the finding it is about                                     *)
(*   from, to  the statuses of a change; an observation's status is its to *)
(*   identity  (projectId, originId), NoIdentity in an un-enveloped event  *)
(*   seq, prev sequence and previousEventSha256                            *)
(*                                                                         *)
(* Everything is written without recursion over the log, so that the proof *)
(* system can use it; Replay is the loop of _project as the code runs it,  *)
(* and ReplayAgrees (ProjectJournal) says that the two agree.              *)
(***************************************************************************)
EXTENDS FindingStatuses, Naturals, Sequences

CONSTANTS Findings, NoIdentity, NoEvent

EventOver(ids, identities) ==
    [id : ids, kind : {"observed", "changed", "other"}, finding : Findings,
     from : Statuses, to : Statuses, identity : identities,
     seq : Nat, prev : ids \cup {NoEvent}]

Observes(e, f) == e.kind = "observed" /\ e.finding = f
Changes(e, f)  == e.kind = "changed" /\ e.finding = f
Versioned(e)   == e.identity # NoIdentity

-----------------------------------------------------------------------------
(* The projection.                                                         *)

\* The status of f after the first n events: the target of the last change,
\* or the status its first observation carried.
StatusAt(log, n, f) ==
    LET seen    == {i \in 1..n : Observes(log[i], f)}
        changed == {i \in 1..n : Changes(log[i], f)}
    IN  IF seen = {} THEN Unobserved
        ELSE IF changed # {}
             THEN log[CHOOSE i \in changed : \A j \in changed : j <= i].to
             ELSE log[CHOOSE i \in seen : \A j \in seen : i <= j].to

StatusIn(log, f) == StatusAt(log, Len(log), f)

\* Seeded fault: the source is checked against the table but not against the log.
AdmissibleFromAnywhere(e, log, n) ==
    e.kind = "changed" => /\ StatusAt(log, n, e.finding) \in Statuses
                          /\ e.to \in FindingTransitions[e.from]

\* e may follow the first n events: a change must name a known finding, start
\* from the finding's current status and follow the table.  This is the check of
\* _validate_event, and what _project raises on.
Admissible(e, log, n) ==
    e.kind = "changed" =>
        LET current == StatusAt(log, n, e.finding)
        IN  /\ current \in Statuses
            /\ e.from = current
            /\ e.to \in FindingTransitions[current]

\* Seeded fault: observing a finding again sets its status again.
ReplayStepResetting(view, e) ==
    IF view.broken \/ e.kind = "other" THEN view
    ELSE [view EXCEPT !.status[e.finding] = e.to]

\* One round of the loop of _project.  broken: the loop has raised.
ReplayStep(view, e) ==
    IF view.broken \/ e.kind = "other" THEN view
    ELSE LET current == view.status[e.finding]
             moved   == [view EXCEPT !.status[e.finding] = e.to]
         IN  CASE e.kind = "observed" -> IF current = Unobserved THEN moved ELSE view
               [] e.kind = "changed"  -> IF /\ current # Unobserved
                                            /\ e.from = current
                                            /\ e.to \in FindingTransitions[current]
                                         THEN moved
                                         ELSE [view EXCEPT !.broken = TRUE]

\* The loop of _project over a whole log.
Replay(log) ==
    LET view[i \in 0..Len(log)] ==
            IF i = 0
            THEN [status |-> [f \in Findings |-> Unobserved], broken |-> FALSE]
            ELSE ReplayStep(view[i - 1], log[i])
    IN  view[Len(log)]

-----------------------------------------------------------------------------
(* Verification.                                                           *)

\* A legacy event never follows a versioned one.
LegacyPrefix(log) ==
    \A i, j \in 1..Len(log) : i < j /\ Versioned(log[i]) => Versioned(log[j])

\* All versioned events carry one identity, the opener's own when it has one.
OneIdentity(log, own) ==
    \A i, j \in 1..Len(log) :
        Versioned(log[i]) /\ Versioned(log[j]) =>
            /\ log[i].identity = log[j].identity
            /\ own # NoIdentity => log[i].identity = own

\* Sequences count the versioned events from 1; each versioned event carries the
\* digest of the event before it, a legacy one included.
Chained(log) ==
    \A i \in 1..Len(log) : Versioned(log[i]) =>
        IF i = 1 THEN log[i].seq = 1 /\ log[i].prev = NoEvent
        ELSE /\ log[i].seq = IF Versioned(log[i - 1]) THEN log[i - 1].seq + 1 ELSE 1
             /\ log[i].prev = log[i - 1].id

LegalReplay(log) == \A i \in 1..Len(log) : Admissible(log[i], log, i - 1)

\* _verify_events returns no violation.
Verified(log, own) ==
    LegacyPrefix(log) /\ OneIdentity(log, own) /\ Chained(log) /\ LegalReplay(log)

-----------------------------------------------------------------------------
(* Appending.                                                              *)

\* _journal_identity: the identity already in the journal, or the opener's own.
JournalIdentity(log, own) ==
    IF \E i \in 1..Len(log) : Versioned(log[i])
    THEN log[CHOOSE i \in 1..Len(log) :
                 /\ Versioned(log[i])
                 /\ \A j \in 1..(i - 1) : ~Versioned(log[j])].identity
    ELSE own

\* Seeded fault: the sequence counts the legacy events too.
WithEnvelopeCountingLegacy(e, log, own) ==
    LET identity == JournalIdentity(log, own)
        n        == Len(log)
    IN  IF identity = NoIdentity THEN e
        ELSE [e EXCEPT !.identity = identity,
                       !.seq  = n + 1,
                       !.prev = IF n > 0 THEN log[n].id ELSE NoEvent]

\* _with_envelope.  A verified log has its versioned events last, so the last
\* versioned event, if there is one, is the last event.
WithEnvelope(e, log, own) ==
    LET identity == JournalIdentity(log, own)
        n        == Len(log)
    IN  IF identity = NoIdentity THEN e
        ELSE [e EXCEPT
                !.identity = identity,
                !.seq  = IF n > 0 /\ Versioned(log[n]) THEN log[n].seq + 1 ELSE 1,
                !.prev = IF n > 0 THEN log[n].id ELSE NoEvent]
=============================================================================
