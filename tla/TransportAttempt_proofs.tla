------------------------ MODULE TransportAttempt_proofs ------------------------
(***************************************************************************)
(* TransportAttempt for any limit, any amount of output and any pipe: a    *)
(* response that is let through is whole, a bounded capture stays bounded, *)
(* and nobody who should have been terminated is left.                     *)
(*                                                                         *)
(* At the moment of Collect, a fate of "ok" means that no flag was raised  *)
(* which the transport looks at.  What remains to be known is what the     *)
(* absence of a flag says of the capture: that a reader which is done has  *)
(* met the end of the output (Drained), that what it keeps is what it took *)
(* as long as that is within the limit (Retention), and that the           *)
(* supervisor does not collect before its reader is done (Awaited).        *)
(***************************************************************************)
EXTENDS TransportAttempt, TLAPS

\* What was written before the leader exited was written.
Order == said <= wrote

\* A reader within its limit keeps all it takes, and gemini's has no limit.
Retention ==
    /\ kind \in Bounded /\ kept <= Limit => kept = taken
    /\ kind = "gemini" => kept = taken

\* A reader that was not cut off ends when nobody can write any more.
Drained ==
    reader = "done" /\ "cut" \notin flags =>
        /\ Holders = {}
        /\ kind \in Piped => taken = wrote

\* kiro and gemini collect from a reader that is done, or from one they cut off; only
\* those who have threads join them.
Awaited ==
    /\ pc = "draining" => kind = "gemini"
    /\ pc \in {"joining", "closing"} => kind \in ByThread
    /\ kind = "gemini" /\ pc = "collecting" => reader = "done"
    /\ kind = "kiro" /\ pc \in {"closing", "collecting"} => reader = "done" \/ "cut" \in flags
    /\ kind # "kiro" => pc # "closing" /\ "cut" \notin flags

\* The answer is whole.
Whole ==
    /\ answer.got >= answer.said
    /\ kind # "gemini" => answer.got <= Limit
    /\ kind \in {"gemini", "kiro"} => answer.got = answer.of
    /\ kind \in ByThread \cup {"gemini"} => answer.ended

\* kiro's last command comes after an answer that is whole; only it ends well.
InTurn ==
    /\ command <= Commands
    /\ kind = "kiro" /\ command = 3 => Whole
    /\ pc = "returned" /\ Usable(result) => Whole

\* A leader is past its grace period only when it has exited or was killed; once a flag
\* is up, so is everybody of kiro's.
Terminated ==
    /\ pc \notin {"waiting", "grace"} => "leader" \notin alive \ killed
    /\ kind = "kiro" /\ flags # {} => alive \subseteq killed /\ pc # "starting"

Supervised ==
    Order /\ Retention /\ Drained /\ Awaited /\ InTurn /\ Terminated /\ CaptureIsBounded

IInv == TypeOK /\ Supervised

\* Collect, of a command whose capture holds this content.
CollectOf(content) ==
    LET r == ResultOf(kind, Raw(Judged(content)), Known)
    IN  /\ answer' = IF Answers
                     THEN [got |-> Captured, of |-> wrote, said |-> said,
                           ended |-> reader = "done", content |-> content]
                     ELSE answer
        /\ IF r.fate = "ok" /\ command < Commands
           THEN pc' = "starting" /\ command' = command + 1 /\ UNCHANGED result
           ELSE Finish(r) /\ UNCHANGED command

-----------------------------------------------------------------------------
(* What the transports make of a command.                                  *)

\* Every summary of a command has one of the fates.
LEMMA FatesAreFates ==
    ASSUME NEW k \in Kinds, NEW r \in Raws
    PROVE  FateOf(k, r) \in Fates
BY DEF FateOf, Kinds, Raws, Statuses, Contents, Fates, ByStatus, Parsed, KiroFate, GeminiFate,
       AgyFate, OpenRouterFate, LlmFate, PiFate, PiProjectFate, CodexFate, RangeFate

\* Nothing that wrote too much, nor what kiro cut off or timed out, ends well.
LEMMA WhatOkSays ==
    ASSUME NEW k \in Kinds, NEW r \in Raws, FateOf(k, r) = "ok"
    PROVE  /\ k # "gemini" => ~r.exceeded
           /\ k = "kiro" => ~r.cut /\ ~r.late
BY DEF FateOf, Kinds, Raws, Statuses, Contents, ByStatus, Parsed, KiroFate, GeminiFate,
       AgyFate, OpenRouterFate, LlmFate, PiFate, PiProjectFate, CodexFate, RangeFate

\* A result has the type of a result.
LEMMA ResultTypes ==
    ASSUME NEW k \in Kinds, NEW r \in Raws, NEW known \in BOOLEAN
    PROVE  ResultOf(k, r, known) \in [fate : Fates, answered : BOOLEAN, conversation : BOOLEAN]
BY FatesAreFates DEF ResultOf

\* What is captured is a number of units, and its summary a summary.
LEMMA CaptureTypes ==
    ASSUME TypeOK, NEW content \in Contents
    PROVE  /\ Captured \in Nat
           /\ Raw(content) \in Raws
           /\ Judged(content) \in Contents
           /\ Known \in BOOLEAN
<1>1. Captured \in Nat
  BY LimitAssumption DEF TypeOK, Captured, Filed, Piped, Bounded, Kinds, Least
<1>2. Raw(content) \in Raws
  BY <1>1, LimitAssumption DEF TypeOK, Raw, Raws, Statuses
<1>3. Judged(content) \in Contents
  BY DEF TypeOK, Judged, Contents
<1> QED BY <1>1, <1>2, <1>3 DEF Known

-----------------------------------------------------------------------------
(* Types.                                                                  *)

LEMMA CommandTypes == TypeOK /\ CommandStep => TypeOK'
<1> USE DEF TypeOK, world, capture, Members
<1>1. TypeOK /\ Write => TypeOK'
  BY DEF Write
<1>2. TypeOK /\ Fork => TypeOK'
  BY DEF Fork
<1>3. TypeOK /\ Deadline => TypeOK'
  BY DEF Deadline
<1>4. ASSUME NEW m \in Members, TypeOK, Exit(m) \/ Die(m)
      PROVE  TypeOK'
  <2>1. PICK status \in Statuses : Gone(m, status)
    BY <1>4 DEF Exit, Die, Statuses
  <2> QED BY <1>4, <2>1 DEF Gone
<1> QED BY <1>1, <1>2, <1>3, <1>4 DEF CommandStep

LEMMA ReaderTypes == TypeOK /\ ReaderStep => TypeOK'
<1> USE DEF TypeOK, world, capture, Members
<1>1. TypeOK /\ Drain => TypeOK'
  <2> SUFFICES ASSUME TypeOK, Drain PROVE TypeOK'
    OBVIOUS
  <2>1. taken' \in Nat /\ kept' \in Nat
    BY LimitAssumption DEF Drain, Retained, Least
  <2>2. /\ flags' \subseteq {"late", "exceeded", "cut"}
        /\ termed' \subseteq Members /\ killed' \subseteq Members
    BY DEF Drain, TermAndKill, TermGroup, KillGroup
  <2>3. UNCHANGED <<alive, helper, exit, wrote, said>>
    BY DEF Drain, TermAndKill
  <2> QED BY <2>1, <2>2, <2>3 DEF Drain
<1>2. TypeOK /\ Communicate => TypeOK'
  BY DEF Communicate
<1>3. TypeOK /\ EndOfOutput => TypeOK'
  BY DEF EndOfOutput
<1>4. TypeOK /\ ReadFails => TypeOK'
  BY DEF ReadFails, TermAndKill, TermGroup, KillGroup
<1>5. TypeOK /\ MonitorSees => TypeOK'
  BY DEF MonitorSees, TermGroup
<1>6. TypeOK /\ MonitorKills => TypeOK'
  BY DEF MonitorKills, KillGroup
<1> QED BY <1>1, <1>2, <1>3, <1>4, <1>5, <1>6 DEF ReaderStep

LEMMA SupervisorTypes == TypeOK /\ SupervisorStep => TypeOK'
<1> USE DEF TypeOK, world, capture, Members
<1>1. TypeOK /\ Spawn => TypeOK'
  BY DEF Spawn
<1>2. TypeOK /\ SpawnFails => TypeOK'
  <2> SUFFICES ASSUME TypeOK, SpawnFails PROVE TypeOK'
    OBVIOUS
  <2>1. result' \in [fate : Fates, answered : BOOLEAN, conversation : BOOLEAN]
    BY DEF SpawnFails, Finish, NotStarted, Fates
  <2> QED BY <2>1 DEF SpawnFails, Finish
<1>3. TypeOK /\ NoTimeLeft => TypeOK'
  BY DEF NoTimeLeft, Finish, Fates
<1>4. TypeOK /\ (CommandOver \/ Heeded \/ Reap \/ DrainOver \/ Joined \/ CloseOver) => TypeOK'
  BY DEF CommandOver, Heeded, Reap, DrainOver, Joined, CloseOver, AfterExit, AfterTermination
<1>5. TypeOK /\ TimeOut => TypeOK'
  BY DEF TimeOut, TermGroup, KillGroup
<1>6. TypeOK /\ Kill => TypeOK'
  BY DEF Kill, KillGroup
<1>7. TypeOK /\ WindowOver => TypeOK'
  BY DEF WindowOver, TermAndKill, TermGroup, KillGroup
<1>8. TypeOK /\ Collect => TypeOK'
  <2> SUFFICES ASSUME TypeOK, Collect PROVE TypeOK'
    OBVIOUS
  <2>1. PICK content \in Contents : CollectOf(content)
    BY DEF Collect, CollectOf
  <2>2. /\ Captured \in Nat
        /\ ResultOf(kind, Raw(Judged(content)), Known)
               \in [fate : Fates, answered : BOOLEAN, conversation : BOOLEAN]
    BY CaptureTypes, ResultTypes
  <2>3. answer' \in [got : Nat, of : Nat, said : Nat, ended : BOOLEAN, content : Contents]
    BY <2>1, <2>2 DEF CollectOf
  <2>4. /\ pc' \in {"starting", "returned"}
        /\ command' \in 1 .. 3
        /\ result' \in {NoResult} \cup [fate : Fates, answered : BOOLEAN, conversation : BOOLEAN]
    BY <2>1, <2>2 DEF CollectOf, Finish, Commands
  <2> QED BY <2>3, <2>4 DEF Collect
<1> QED BY <1>1, <1>2, <1>3, <1>4, <1>5, <1>6, <1>7, <1>8 DEF SupervisorStep

LEMMA TypeStep == TypeOK /\ [Next]_vars => TypeOK'
<1>1. TypeOK /\ UNCHANGED vars => TypeOK'
  BY DEF TypeOK, vars, world, capture
<1> QED BY <1>1, CommandTypes, ReaderTypes, SupervisorTypes DEF Next, Returned

LEMMA InitTypes == Init => TypeOK
<1>1. NoAnswer \in [got : Nat, of : Nat, said : Nat, ended : BOOLEAN, content : Contents]
  BY DEF NoAnswer, Contents
<1>2. Init => /\ alive \subseteq Members /\ termed \subseteq Members /\ killed \subseteq Members
              /\ flags \subseteq {"late", "exceeded", "cut"} /\ stubborn \subseteq Members
  BY DEF Init
<1>3. Init => /\ wrote \in Nat /\ said \in Nat /\ taken \in Nat /\ kept \in Nat
              /\ command \in 1 .. 3
  BY DEF Init
<1>4. Init => /\ late \in BOOLEAN /\ kind \in Kinds /\ reader \in {"reading", "done"}
              /\ exit \in Statuses \cup {"none"} /\ helper \in {"none", "holding", "detached"}
  BY DEF Init
<1> QED BY <1>1, <1>2, <1>3, <1>4 DEF Init, TypeOK

\* Every variable has the type its comment says, however many units are written.
THEOREM TypeCorrectness == Spec => []TypeOK
BY InitTypes, TypeStep, PTL DEF Spec

-----------------------------------------------------------------------------
(* What the absence of a flag says.                                        *)

LEMMA CommandKeeps == IInv /\ CommandStep => Supervised'
<1> SUFFICES ASSUME IInv, CommandStep PROVE Supervised'
  OBVIOUS
<1> USE LimitAssumption
    DEF IInv, TypeOK, Supervised, Order, Retention, Drained, Awaited, InTurn, Whole, Terminated,
        CaptureIsBounded, Commands, Usable, Holders, Running, world, capture, Members, Piped,
        Bounded, ByThread
<1>1. CASE Write
  <2>1. ~(reader = "done" /\ "cut" \notin flags)
    BY <1>1 DEF Write
  <2>2. UNCHANGED <<kind, pc, command, alive, helper, killed, said, kept, taken, reader, flags,
                    answer, result>> /\ wrote' = wrote + 1
    BY <1>1 DEF Write
  <2> QED BY <2>1, <2>2
<1>2. CASE Fork
  BY <1>2 DEF Fork
<1>3. CASE Deadline
  BY <1>3 DEF Deadline
<1>4. CASE \E m \in Members : Exit(m) \/ Die(m)
  <2>1. PICK m \in Members : Exit(m) \/ Die(m)
    BY <1>4
  <2>2. PICK status : Gone(m, status)
    BY <2>1 DEF Exit, Die
  <2>3. /\ UNCHANGED <<kind, pc, command, helper, killed, wrote, kept, taken, reader, flags, answer,
                       result>>
        /\ alive' = alive \ {m} /\ said' \in {said, wrote}
    BY <2>2 DEF Gone
  <2> QED BY <2>3
<1> QED BY <1>1, <1>2, <1>3, <1>4 DEF CommandStep

LEMMA ReaderKeeps == IInv /\ ReaderStep => Supervised'
<1> SUFFICES ASSUME IInv, ReaderStep PROVE Supervised'
  OBVIOUS
<1> USE LimitAssumption
    DEF IInv, TypeOK, Supervised, Order, Retention, Drained, Awaited, InTurn, Whole, Terminated,
        CaptureIsBounded, Commands, Usable, Holders, Running, world, capture, Members, Piped,
        Bounded, ByThread
<1>1. CASE Drain
  <2>1. PICK n \in 1 .. wrote - taken : taken' = taken + n /\ kept' = Retained(n)
    BY <1>1 DEF Drain
  <2>2. /\ kept' <= Limit + 1
        /\ kept' <= Limit => kept' = taken'
    BY <1>1, <2>1 DEF Drain, Retained, Least
  <2>3. /\ UNCHANGED <<kind, pc, command, alive, helper, wrote, said, reader, answer, result>>
        /\ kind \in Bounded /\ reader = "reading" /\ pc \notin {"starting", "returned"}
    BY <1>1 DEF Drain, TermAndKill
  <2>4. \/ UNCHANGED <<flags, killed>>
        \/ kind = "kiro" /\ flags' = flags \cup {"exceeded"} /\ killed' = killed \cup alive
    BY <1>1 DEF Drain, TermAndKill, KillGroup
  <2> QED BY <2>2, <2>3, <2>4
<1>2. CASE Communicate
  BY <1>2 DEF Communicate
<1>3. CASE EndOfOutput
  BY <1>3 DEF EndOfOutput
<1>4. CASE ReadFails
  BY <1>4 DEF ReadFails, TermAndKill, TermGroup, KillGroup
<1>5. CASE MonitorSees
  BY <1>5 DEF MonitorSees, TermGroup
<1>6. CASE MonitorKills
  BY <1>6 DEF MonitorKills, KillGroup
<1> QED BY <1>1, <1>2, <1>3, <1>4, <1>5, <1>6 DEF ReaderStep

\* What is captured when nothing was cut off or too much is all there was to capture.
LEMMA WholeCapture ==
    ASSUME IInv, pc = "collecting", Known, NEW content \in Contents,
           FateOf(kind, Raw(content)) = "ok"
    PROVE  /\ Captured >= said
           /\ kind # "gemini" => Captured <= Limit
           /\ kind \in {"gemini", "kiro"} => Captured = wrote
           /\ kind \in ByThread \cup {"gemini"} => reader = "done"
<1> USE LimitAssumption DEF IInv, TypeOK, Supervised
<1>1. /\ kind # "gemini" => Captured <= Limit
      /\ kind = "kiro" => "cut" \notin flags
      /\ Captured \in Nat
  <2>1. Captured \in Nat /\ Raw(content) \in Raws
    BY CaptureTypes
  <2>2. /\ kind # "gemini" => ~Raw(content).exceeded
        /\ kind = "kiro" => ~Raw(content).cut
    BY <2>1, WhatOkSays
  <2>3. kind # "gemini" => ~(Captured > Limit)
    BY <2>2 DEF Raw
  <2>4. kind = "kiro" => "cut" \notin flags
    BY <2>2 DEF Raw
  <2> HIDE DEF Supervised
  <2> QED BY <2>1, <2>3, <2>4
<1>2. kind \in ByThread \cup {"gemini"} => reader = "done"
  BY <1>1 DEF Awaited, Known, ByThread
<1>3. CASE kind \in Piped
  <2>1. Captured = kept
    BY <1>2, <1>3 DEF Captured, Piped, Bounded, Filed, ByThread, Kinds
  <2>2. taken = wrote /\ kept = taken
    BY <1>1, <1>2, <1>3, <2>1 DEF Drained, Retention, Awaited, Piped, Bounded, ByThread
  <2> QED BY <1>1, <1>2, <2>1, <2>2 DEF Order
<1>4. CASE kind \notin Piped
  <2>1. Captured = Least(wrote, Limit + 1)
    BY <1>4 DEF Captured, Filed, Piped, Bounded
  <2> QED BY <1>1, <1>2, <1>4, <2>1 DEF Order, Least, Piped, Bounded
<1> QED BY <1>3, <1>4

LEMMA SupervisorKeeps == IInv /\ SupervisorStep => Supervised'
<1> SUFFICES ASSUME IInv, SupervisorStep PROVE Supervised'
  OBVIOUS
<1> USE LimitAssumption
    DEF IInv, TypeOK, Supervised, Order, Retention, Drained, Awaited, InTurn, Whole, Terminated,
        CaptureIsBounded, Commands, Usable, Holders, Running, world, capture, Members, Piped,
        Bounded, ByThread
<1>1. CASE Spawn
  BY <1>1 DEF Spawn
<1>2. CASE SpawnFails
  <2>1. result'.fate # "ok" /\ pc' = "returned"
    BY <1>2 DEF SpawnFails, Finish, NotStarted
  <2> QED BY <1>2, <2>1 DEF SpawnFails
<1>3. CASE NoTimeLeft
  BY <1>3 DEF NoTimeLeft, Finish
<1>4. CASE CommandOver
  BY <1>4 DEF CommandOver, AfterExit, Over
<1>5. CASE TimeOut
  BY <1>5 DEF TimeOut, TermGroup, KillGroup
<1>6. CASE Heeded
  BY <1>6 DEF Heeded, AfterTermination, AfterExit
<1>7. CASE Kill
  BY <1>7 DEF Kill, KillGroup
<1>8. CASE Reap
  BY <1>8 DEF Reap, AfterTermination, AfterExit
<1>9. CASE DrainOver
  <2>1. pc = "draining" /\ pc' = "collecting" /\ Over
    BY <1>9 DEF DrainOver
  <2>2. UNCHANGED <<kind, command, world, capture, flags, answer, result>>
    BY <1>9 DEF DrainOver
  <2> QED BY <2>1, <2>2 DEF Over
<1>10. CASE Joined
  BY <1>10 DEF Joined
<1>11. CASE WindowOver
  <2>1. UNCHANGED <<kind, command, alive, helper, wrote, said, kept, taken, reader, answer, result>>
    BY <1>11 DEF WindowOver, TermAndKill
  <2>2. \/ /\ kind = "kiro" /\ pc' = "closing"
           /\ flags' = flags \cup {"cut"} /\ killed' = killed \cup alive
        \/ kind # "kiro" /\ pc' = "collecting" /\ UNCHANGED <<flags, killed>>
    BY <1>11 DEF WindowOver, TermAndKill, KillGroup
  <2>3. pc = "joining" /\ reader = "reading"
    BY <1>11 DEF WindowOver
  <2> QED BY <2>1, <2>2, <2>3
<1>12. CASE CloseOver
  BY <1>12 DEF CloseOver
<1>13. CASE Collect
  <2>1. PICK content \in Contents : CollectOf(content)
    BY <1>13 DEF Collect, CollectOf
  <2> DEFINE r == ResultOf(kind, Raw(Judged(content)), Known)
  <2>2. /\ r.fate = FateOf(kind, Raw(Judged(content)))
        /\ r.conversation => Known
        /\ kind = "kiro" => Known
        /\ Judged(content) \in Contents
    BY CaptureTypes DEF ResultOf, Known
  <2>3. /\ UNCHANGED <<kind, alive, helper, killed, wrote, said, kept, taken, reader, flags>>
        /\ pc = "collecting" /\ pc' \in {"starting", "returned"}
    BY <1>13, <2>1 DEF Collect, CollectOf, Finish
  <2>4. ASSUME r.fate = "ok", Known, Answers
        PROVE  Whole'
    <3>1. /\ Captured >= said
          /\ kind # "gemini" => Captured <= Limit
          /\ kind \in {"gemini", "kiro"} => Captured = wrote
          /\ kind \in ByThread \cup {"gemini"} => reader = "done"
      BY <2>2, <2>3, <2>4, WholeCapture
    <3>2. answer' = [got |-> Captured, of |-> wrote, said |-> said, ended |-> reader = "done",
                     content |-> content]
      BY <2>1, <2>4 DEF CollectOf
    <3> QED BY <2>3, <3>1, <3>2
  <2>5. CASE r.fate = "ok" /\ command < Commands
    <3>1. kind = "kiro" /\ pc' = "starting" /\ command' = command + 1
      BY <2>1, <2>5 DEF CollectOf
    <3>2. flags = {}
      <4>1. Raw(Judged(content)) \in Raws
        BY <2>2, CaptureTypes
      <4>2. /\ ~Raw(Judged(content)).exceeded
            /\ ~Raw(Judged(content)).cut
            /\ ~Raw(Judged(content)).late
        BY <2>2, <2>5, <3>1, <4>1, WhatOkSays
      <4> QED BY <4>2 DEF Raw
    <3>3. command' = 3 => Whole'
      BY <2>2, <2>4, <2>5, <3>1 DEF Answers
    <3> QED BY <2>3, <2>5, <3>1, <3>2, <3>3
  <2>6. CASE ~(r.fate = "ok" /\ command < Commands)
    <3>1. pc' = "returned" /\ result' = r /\ command' = command
      BY <2>1, <2>6 DEF CollectOf, Finish
    <3>2. kind = "kiro" /\ command = 3 => Whole'
      BY <2>1, <2>3 DEF CollectOf, Answers
    <3>3. r.fate = "ok" /\ Known => Whole'
      BY <2>4, <2>6, <3>2 DEF Answers
    <3> QED BY <2>2, <2>3, <3>1, <3>2, <3>3
  <2> QED BY <2>5, <2>6
<1> QED BY <1>1, <1>2, <1>3, <1>4, <1>5, <1>6, <1>7, <1>8, <1>9, <1>10, <1>11, <1>12, <1>13
        DEF SupervisorStep

-----------------------------------------------------------------------------
(* The theorems.                                                           *)

LEMMA Invariance == Spec => []IInv
<1>1. Init => IInv
  <2>1. Init => TypeOK
    BY InitTypes
  <2>2. Init => Supervised
    BY LimitAssumption
       DEF Init, Supervised, Order, Retention, Drained, Awaited, InTurn, Commands, Usable, Terminated,
           CaptureIsBounded, Holders, NoResult, ByThread, Bounded
  <2> QED BY <2>1, <2>2 DEF IInv
<1>2. IInv /\ [Next]_vars => IInv'
  <2>1. IInv /\ UNCHANGED vars => Supervised'
    BY DEF IInv, vars, world, capture, Supervised, Order, Retention, Drained, Awaited, InTurn,
           Whole, Commands, Usable, Terminated, CaptureIsBounded, Holders
  <2> QED BY <2>1, TypeStep, CommandKeeps, ReaderKeeps, SupervisorKeeps DEF Next, Returned, IInv
<1> QED BY <1>1, <1>2, PTL DEF Spec

\* However much a command writes and in whatever chunks it is read, the drain threads hold
\* at most one unit more than the limit.
THEOREM CapturesAreBounded == Spec => []CaptureIsBounded
<1>1. IInv => CaptureIsBounded
  BY DEF IInv, Supervised
<1> QED BY <1>1, Invariance, PTL

\* A response that the gates let through is all of what the command had written when it
\* exited, whatever was cut off, killed or still running.
THEOREM AnswersAreWhole == Spec => []UsableIsWhole
<1>1. IInv => UsableIsWhole
  BY DEF IInv, Supervised, InTurn, Whole, UsableIsWhole
<1> QED BY <1>1, Invariance, PTL

\* Whoever ignores SIGTERM, forks or holds the pipes: no leader is left that was not killed,
\* and nobody of kiro's.
THEOREM NobodySurvives == Spec => []NobodyIsLeft
<1>1. IInv => NobodyIsLeft
  BY DEF IInv, Supervised, Terminated, NobodyIsLeft
<1> QED BY <1>1, Invariance, PTL
=============================================================================
