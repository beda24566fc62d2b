-------------------------- MODULE TransportAttempt --------------------------
(* One attempt of one transport: the command it starts (three in turn for  *)
(* kiro), how its output is captured, the deadline, the termination of its *)
(* process group and the result.  The command is a leader and at most one  *)
(* descendant in its group, the helper, which may hold the leader's output *)
(* pipes open.  Either may ignore SIGTERM (stubborn).  Standard output and *)
(* standard error are one stream of units; what the leader writes to       *)
(* standard input never blocks the supervisor, which feeds it from a       *)
(* thread or from communicate().                                           *)
(*                                                                         *)
(* Transports capture in three ways: into files read after the leader's    *)
(* exit, through pipes drained by threads, through pipes drained by        *)
(* communicate().  For codex the unit stream is the final message file;    *)
(* its pipes, which carry the session id, matter only by their end.        *)
EXTENDS TransportResults, Naturals

CONSTANTS Limit,        \* units a capture may hold
          MaxWrites,    \* bound: units a command writes
          PipeRoom      \* units a pipe holds

ASSUME LimitAssumption == Limit \in Nat \ {0}
ASSUME MaxWritesAssumption == MaxWrites \in Nat
ASSUME PipeRoomAssumption == PipeRoom \in Nat \ {0}

VARIABLES
    kind,       \* the transport, fixed
    stubborn,   \* the members of the group that ignore SIGTERM, fixed
    pc,         \* where the supervisor is
    command,    \* the number of the current command
    alive,      \* members of the group that run
    helper,     \* "none" before the leader has forked, then "holding" or "detached"
    exit,       \* exit status of the leader, "none" before
    termed,     \* members that were sent SIGTERM
    killed,     \* members that were sent SIGKILL
    wrote,      \* units written
    said,       \* units written when the leader exited
    taken,      \* units read from the pipe
    kept,       \* units retained by the reader
    reader,     \* "reading" or, at the end of the output, "done"
    late,       \* the deadline has passed
    flags,      \* timed_out, output_exceeded and capture_incomplete: "late", "exceeded", "cut"
    answer,     \* the capture the response is made of
    result

world == <<alive, helper, exit, termed, killed, wrote, said>>
capture == <<taken, kept, reader>>
vars == <<kind, stubborn, pc, command, world, capture, late, flags, answer, result>>

Members == {"leader", "helper"}

ByThread == {"kiro", "codex", "range"}
Bounded  == {"kiro", "range"}             \* readers that retain at most Limit + 1 units
Piped    == Bounded \cup {"gemini"}
Filed    == Kinds \ Piped

Commands == IF kind = "kiro" THEN 3 ELSE 1

NoAnswer == [got |-> 0, of |-> 0, said |-> 0, ended |-> FALSE, content |-> "nothing"]
NoResult == [fate |-> "none"]

Init ==
    /\ kind \in Kinds
    /\ stubborn \in SUBSET Members
    /\ pc = "starting" /\ command = 1
    /\ alive = {} /\ helper = "none" /\ exit = "none" /\ termed = {} /\ killed = {}
    /\ wrote = 0 /\ said = 0
    /\ taken = 0 /\ kept = 0 /\ reader = "reading"
    /\ late = FALSE /\ flags = {}
    /\ answer = NoAnswer /\ result = NoResult
-----------------------------------------------------------------------------
(* The command.                                                            *)

Running == pc \notin {"starting", "returned"}

\* Who can write to the pipes.
Holders == alive \ (IF helper = "holding" THEN {} ELSE {"helper"})

\* A pipe takes what it has room for.  RLIMIT_FSIZE ends a captured file one unit past the
\* limit; that of pi and pi-project is far higher, and one unit stands for all that is
\* past theirs, an exceeded capture either way.  The final message of codex has no such
\* bound.
HasRoom ==
    CASE kind \in Piped            -> wrote - taken < PipeRoom
      [] kind \in Filed \ {"codex"} -> wrote <= Limit
      [] kind = "codex"            -> TRUE

Write ==
    /\ Running
    /\ Holders # {} /\ wrote < MaxWrites /\ HasRoom
    /\ wrote' = wrote + 1
    /\ UNCHANGED <<kind, stubborn, pc, command, alive, helper, exit, termed, killed, said, capture,
                   late, flags, answer, result>>

Fork ==
    /\ Running
    /\ "leader" \in alive \ killed /\ helper = "none" /\ kind # "openrouter"
    /\ alive' = alive \cup {"helper"}
    /\ helper' \in {"holding", "detached"}
    /\ UNCHANGED <<kind, stubborn, pc, command, exit, termed, killed, wrote, said, capture, late,
                   flags, answer, result>>

Gone(m, status) ==
    /\ alive' = alive \ {m}
    /\ exit' = IF m = "leader" THEN status ELSE exit
    /\ said' = IF m = "leader" THEN wrote ELSE said
    /\ UNCHANGED <<kind, stubborn, pc, command, helper, termed, killed, wrote, capture, late, flags,
                   answer, result>>

\* A member ends of itself.
Exit(m) == Running /\ m \in alive /\ \E status \in Statuses : Gone(m, status)

\* A signal takes effect.
Die(m) ==
    /\ Running
    /\ m \in alive /\ m \in killed \cup (termed \ stubborn)
    /\ Gone(m, "nonzero")

Deadline ==
    /\ Running /\ ~late
    /\ late' = TRUE
    /\ UNCHANGED <<kind, stubborn, pc, command, world, capture, flags, answer, result>>

TermGroup == termed' = termed \cup alive
KillGroup == killed' = killed \cup alive

\* terminate_process_group(process, grace_seconds=0)
TermAndKill == TermGroup /\ KillGroup /\ UNCHANGED <<alive, helper, exit, wrote, said>>
-----------------------------------------------------------------------------
(* The readers.                                                            *)

Least(a, b) == IF a < b THEN a ELSE b

\* Seeded fault: the whole chunk is retained whenever the limit was not passed before.
RetainedWholeChunk(n) == IF kept <= Limit THEN kept + n ELSE kept

\* retained.extend(chunk[: limit + 1 - len(retained)])
Retained(n) == IF kept <= Limit THEN kept + Least(n, Limit + 1 - kept) ELSE kept

\* One read() of the drain thread; past the limit, kiro's terminates the group (terminate_once).
Drain ==
    /\ Running /\ kind \in Bounded /\ reader = "reading"
    /\ \E n \in 1 .. wrote - taken :
        /\ taken' = taken + n
        /\ kept' = Retained(n)
    /\ IF kind = "kiro" /\ kept' > Limit
       THEN flags' = flags \cup {"exceeded"} /\ TermAndKill
       ELSE UNCHANGED <<flags, world>>
    /\ UNCHANGED <<kind, stubborn, pc, command, reader, late, answer, result>>

\* communicate() of gemini keeps everything; nobody reads during the grace period.
Communicate ==
    /\ pc \in {"waiting", "draining"} /\ kind = "gemini"
    /\ \E n \in 1 .. wrote - taken :
        /\ taken' = taken + n
        /\ kept' = kept + n
    /\ UNCHANGED <<kind, stubborn, pc, command, world, reader, late, flags, answer, result>>

\* The readers meet the end of the output: nobody holds the pipes and they are empty.
EndOfOutput ==
    /\ \/ Running /\ kind \in ByThread
       \/ pc \in {"waiting", "draining"} /\ kind = "gemini"
    /\ reader = "reading"
    /\ Holders = {}
    /\ kind \in Piped => taken = wrote
    /\ reader' = "done"
    /\ UNCHANGED <<kind, stubborn, pc, command, world, taken, kept, late, flags, answer, result>>

\* A read of kiro's fails: capture_failed.
ReadFails ==
    /\ Running /\ kind = "kiro" /\ reader = "reading"
    /\ reader' = "done"
    /\ flags' = flags \cup {"cut"}
    /\ TermAndKill
    /\ UNCHANGED <<kind, stubborn, pc, command, taken, kept, late, answer, result>>

\* monitor_response_file: the final message of codex has grown past the limit.
MonitorSees ==
    /\ pc \in {"waiting", "grace", "reaping", "joining"} /\ kind = "codex"
    /\ "exceeded" \notin flags
    /\ wrote > Limit
    /\ flags' = flags \cup {"exceeded"}
    /\ TermGroup
    /\ UNCHANGED <<kind, stubborn, pc, command, alive, helper, exit, killed, wrote, said, capture,
                   late, answer, result>>

\* The leader has not exited within the grace period of the monitor's SIGTERM.
MonitorKills ==
    /\ Running /\ kind = "codex"
    /\ "exceeded" \in flags /\ "leader" \in alive \ killed
    /\ KillGroup
    /\ UNCHANGED <<kind, stubborn, pc, command, alive, helper, exit, termed, wrote, said, capture,
                   late, flags, answer, result>>
-----------------------------------------------------------------------------
(* The supervisor.                                                         *)

Finish(r) == pc' = "returned" /\ result' = r

\* Start the next command; what is left of the one before is forgotten.
Spawn ==
    /\ pc = "starting" /\ ~late
    /\ pc' = "waiting"
    /\ alive' = {"leader"} /\ helper' = "none" /\ exit' = "none" /\ termed' = {} /\ killed' = {}
    /\ wrote' = 0 /\ said' = 0
    /\ taken' = 0 /\ kept' = 0 /\ reader' = "reading"
    /\ UNCHANGED <<kind, stubborn, command, late, flags, answer, result>>

SpawnFails ==
    /\ pc = "starting" /\ ~late
    /\ Finish(NotStarted(kind))
    /\ UNCHANGED <<kind, stubborn, command, world, capture, late, flags, answer>>

\* Nothing of the one deadline of kiro's commands is left for this one.
NoTimeLeft ==
    /\ pc = "starting" /\ late
    /\ Finish([fate |-> "timeout", answered |-> FALSE, conversation |-> FALSE])
    /\ UNCHANGED <<kind, stubborn, command, world, capture, late, flags, answer>>

\* What the supervisor waits for until the deadline.
Over == "leader" \notin alive /\ (kind = "gemini" => reader = "done")

\* After the leader, transports with threads join them.
AfterExit == IF kind \in ByThread THEN "joining" ELSE "collecting"

CommandOver ==
    /\ pc = "waiting" /\ Over
    /\ pc' = AfterExit
    /\ UNCHANGED <<kind, stubborn, command, world, capture, late, flags, answer, result>>

\* Seeded fault: kiro ends a command as the others do, with SIGTERM and a grace period.
TimeOutGently ==
    /\ pc = "waiting" /\ late /\ ~Over
    /\ flags' = flags \cup {"late"}
    /\ IF kind = "openrouter"
       THEN pc' = "reaping" /\ killed' = killed \cup {"leader"} /\ UNCHANGED termed
       ELSE pc' = "grace" /\ TermGroup /\ UNCHANGED killed
    /\ UNCHANGED <<kind, stubborn, command, alive, helper, exit, wrote, said, capture, late, answer,
                   result>>

\* TimeoutExpired.  kiro kills the group at once, subprocess.run of openrouter the leader; the
\* others give the group SIGTERM and the leader a grace period.
TimeOut ==
    /\ pc = "waiting" /\ late /\ ~Over
    /\ flags' = flags \cup {"late"}
    /\ CASE kind = "kiro"       -> pc' = "joining" /\ TermGroup /\ KillGroup
         [] kind = "openrouter" -> /\ pc' = "reaping"
                                   /\ killed' = killed \cup {"leader"} /\ UNCHANGED termed
         [] OTHER               -> pc' = "grace" /\ TermGroup /\ UNCHANGED killed
    /\ UNCHANGED <<kind, stubborn, command, alive, helper, exit, wrote, said, capture, late, answer,
                   result>>

\* gemini's second communicate() has no timeout.
AfterTermination == IF kind = "gemini" THEN "draining" ELSE AfterExit

\* The leader has exited in the grace period: nothing looks at the rest of the group.
Heeded ==
    /\ pc = "grace" /\ "leader" \notin alive
    /\ pc' = AfterTermination
    /\ UNCHANGED <<kind, stubborn, command, world, capture, late, flags, answer, result>>

Kill ==
    /\ pc = "grace" /\ "leader" \in alive
    /\ pc' = "reaping"
    /\ KillGroup
    /\ UNCHANGED <<kind, stubborn, command, alive, helper, exit, termed, wrote, said, capture, late,
                   flags, answer, result>>

\* The wait after SIGKILL is bounded, but for openrouter's and pi's.
Reap ==
    /\ pc = "reaping"
    /\ "leader" \in alive => kind \notin {"openrouter", "pi"}
    /\ pc' = AfterTermination
    /\ UNCHANGED <<kind, stubborn, command, world, capture, late, flags, answer, result>>

DrainOver ==
    /\ pc = "draining" /\ Over
    /\ pc' = "collecting"
    /\ UNCHANGED <<kind, stubborn, command, world, capture, late, flags, answer, result>>

\* The readers have finished within the window.
Joined ==
    /\ pc \in {"joining", "closing"} /\ reader = "done"
    /\ pc' = "collecting"
    /\ UNCHANGED <<kind, stubborn, command, world, capture, late, flags, answer, result>>

\* Seeded fault: only kiro's readers are joined with a timeout.
WindowOverForKiro ==
    /\ pc = "joining" /\ reader = "reading" /\ kind = "kiro"
    /\ pc' = "closing" /\ flags' = flags \cup {"cut"} /\ TermAndKill
    /\ UNCHANGED <<kind, stubborn, command, capture, late, answer, result>>

\* The window is over (at once after a timeout).  kiro marks the capture as interrupted and
\* terminates the group; codex and range go on without what the reader holds.
WindowOver ==
    /\ pc = "joining" /\ reader = "reading"
    /\ IF kind = "kiro"
       THEN pc' = "closing" /\ flags' = flags \cup {"cut"} /\ TermAndKill
       ELSE pc' = "collecting" /\ UNCHANGED <<flags, world>>
    /\ UNCHANGED <<kind, stubborn, command, capture, late, answer, result>>

\* The second join is bounded too.
CloseOver ==
    /\ pc = "closing" /\ reader = "reading"
    /\ pc' = "collecting"
    /\ UNCHANGED <<kind, stubborn, command, world, capture, late, flags, answer, result>>

\* What the supervisor holds: the file up to the limit, or what the reader retained; a reader
\* of range's that has not finished has handed over nothing.
Captured ==
    CASE kind \in Filed            -> Least(wrote, Limit + 1)
      [] kind \in {"gemini", "kiro"} -> kept
      [] kind = "range"            -> IF reader = "done" THEN kept ELSE 0

Known == kind \in {"codex", "range"} => reader = "done"

Raw(content) ==
    [late     |-> "late" \in flags,
     exceeded |-> "exceeded" \in flags \/ (kind # "gemini" /\ Captured > Limit),
     cut      |-> "cut" \in flags,
     status   |-> IF exit = "zero" THEN "zero" ELSE "nonzero",
     content  |-> content]

\* The content a fate is decided on: kiro judges the listings when they arrive and the chat
\* after the last of them.
Judged(content) ==
    CASE command = Commands /\ kind = "kiro" /\ content = "answer" -> answer.content
      [] command = 2                                              -> "answer"
      [] OTHER                                                    -> content

\* The response comes from the only command, or from kiro's second.
Answers == kind # "kiro" \/ command = 2

Collect ==
    /\ pc = "collecting"
    /\ \E content \in Contents :
        LET r == ResultOf(kind, Raw(Judged(content)), Known)
        IN  /\ answer' = IF Answers
                         THEN [got |-> Captured, of |-> wrote, said |-> said,
                               ended |-> reader = "done", content |-> content]
                         ELSE answer
            /\ IF r.fate = "ok" /\ command < Commands
               THEN pc' = "starting" /\ command' = command + 1 /\ UNCHANGED result
               ELSE Finish(r) /\ UNCHANGED command
    /\ UNCHANGED <<kind, stubborn, world, capture, late, flags>>

Returned == pc = "returned" /\ UNCHANGED vars

CommandStep == Write \/ Fork \/ Deadline \/ \E m \in Members : Exit(m) \/ Die(m)
ReaderStep == Drain \/ Communicate \/ EndOfOutput \/ ReadFails \/ MonitorSees \/ MonitorKills
SupervisorStep ==
    \/ Spawn \/ SpawnFails \/ NoTimeLeft \/ CommandOver \/ TimeOut \/ Heeded \/ Kill \/ Reap
    \/ DrainOver \/ Joined \/ WindowOver \/ CloseOver \/ Collect

Next == CommandStep \/ ReaderStep \/ SupervisorStep \/ Returned

Spec == Init /\ [][Next]_vars

\* Time passes, signals are delivered, threads run and the supervisor goes on.  Nothing says
\* that a command ever writes, exits or heeds a SIGTERM it ignores.
Fairness ==
    /\ WF_vars(SupervisorStep) /\ WF_vars(Deadline)
    /\ WF_vars(Drain \/ Communicate) /\ WF_vars(EndOfOutput) /\ WF_vars(MonitorKills)
    /\ \A m \in Members : WF_vars(Die(m))

FairSpec == Spec /\ Fairness
-----------------------------------------------------------------------------
(* Properties.                                                             *)

\* Every variable has the type its comment says.
TypeOK ==
    /\ kind \in Kinds /\ stubborn \subseteq Members
    /\ pc \in {"starting", "waiting", "grace", "reaping", "draining", "joining", "closing",
               "collecting", "returned"}
    /\ command \in 1 .. 3
    /\ alive \subseteq Members /\ termed \subseteq Members /\ killed \subseteq Members
    /\ helper \in {"none", "holding", "detached"}
    /\ exit \in Statuses \cup {"none"}
    /\ wrote \in Nat /\ said \in Nat /\ taken \in Nat /\ kept \in Nat
    /\ reader \in {"reading", "done"}
    /\ late \in BOOLEAN
    /\ flags \subseteq {"late", "exceeded", "cut"}
    /\ answer \in [got : Nat, of : Nat, said : Nat, ended : BOOLEAN, content : Contents]
    /\ result \in {NoResult} \cup [fate : Fates, answered : BOOLEAN, conversation : BOOLEAN]

\* A response that the gates let through is all of what the command had written when it exited,
\* and for kiro and gemini all of what anybody who held its pipes ever wrote, whatever was cut
\* off, truncated, killed or still running; and it comes with its conversation only from readers
\* that met the end of the output.
UsableIsWhole ==
    pc = "returned" /\ Usable(result) =>
        /\ answer.got >= answer.said
        /\ kind # "gemini" => answer.got <= Limit
        /\ kind \in {"gemini", "kiro"} => answer.got = answer.of
        /\ kind \in ByThread \cup {"gemini"} => answer.ended

\* However much a command writes and in whatever chunks it is read, the drain threads hold at
\* most one unit more than the limit.
CaptureIsBounded == kind \in Bounded => kept <= Limit + 1

\* An attempt that was not left to end by itself leaves no leader behind that was not killed;
\* kiro's leaves nobody of the group, whoever ignores SIGTERM or holds the pipes.
NobodyIsLeft ==
    pc = "returned" /\ flags # {} =>
        /\ "leader" \in alive => "leader" \in killed
        /\ kind = "kiro" => alive \subseteq killed

\* gemini after its deadline: its second communicate() waits for a descendant that outlived
\* the leader, because it ignores SIGTERM or was started after it, and that holds the pipes.
HeldOpen ==
    /\ kind = "gemini" /\ pc = "draining"
    /\ helper = "holding" /\ "helper" \in alive \ killed
    /\ "helper" \in termed => "helper" \in stubborn

\* Every attempt returns, whatever the command does: it may never exit, never stop writing or
\* fill its pipe, ignore SIGTERM, or leave a descendant that holds its pipes.  The one exception
\* is HeldOpen.
EveryAttemptReturns == <>[](pc = "returned" \/ HeldOpen)
=============================================================================
