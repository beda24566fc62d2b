-------------------------- MODULE TransportResults --------------------------
(* What each transport makes of a supervised command: invoke_* and         *)
(* execute_*_backend in cli.py, PiTransport.execute in pi_transport.py and *)
(* _range_child_process.  A command is summarised by                       *)
(*   late      the deadline passed before it was over,                     *)
(*   exceeded  more was written, or captured, than the limit,              *)
(*   cut       the capture was given up before the end of the output,      *)
(*   status    "zero" or "nonzero", its exit status,                       *)
(*   content   what the capture holds: an "answer", an answer of no        *)
(*             conversation ("anonymous"), no text ("nothing"), or         *)
(*             something the adapter cannot read ("malformed").            *)
(* The fate of an attempt is "ok" (exit code 0), "timeout" (124),          *)
(* "capture" or "rejected" (502, or the provider's own status), "failed"   *)
(* (the exit status of the command), "unavailable" (126, 127) or "raised"  *)
(* (an exception leaves the transport).                                    *)

Kinds == {"agy", "codex", "gemini", "kiro", "llm", "openrouter", "pi", "pi-project", "range"}

Contents == {"answer", "anonymous", "nothing", "malformed"}

Statuses == {"zero", "nonzero"}

Fates == {"ok", "timeout", "capture", "rejected", "failed", "unavailable", "raised"}

Raws == [late : BOOLEAN, exceeded : BOOLEAN, cut : BOOLEAN, status : Statuses,
         content : Contents]

ByStatus(r) == IF r.status = "zero" THEN "ok" ELSE "failed"

\* ByStatus for the adapters that parse what a successful command printed.
Parsed(r, unreadable) ==
    IF r.status = "zero" /\ r.content \in unreadable THEN "rejected" ELSE ByStatus(r)

\* Seeded fault: the drain that was cut off is not looked at.
KiroFateIgnoringCut(r) ==
    IF r.exceeded THEN "capture"
    ELSE IF r.late THEN "timeout"
    ELSE Parsed(r, {"anonymous", "malformed"})

\* run_process of invoke_kiro and the checks of its listings.
KiroFate(r) ==
    IF r.exceeded THEN "capture"
    ELSE IF r.late THEN "timeout"
    ELSE IF r.cut THEN "capture"
    ELSE Parsed(r, {"anonymous", "malformed"})

GeminiFate(r) == IF r.late THEN "timeout" ELSE Parsed(r, {"anonymous", "malformed"})

AgyFate(r) ==
    IF r.late THEN "timeout" ELSE IF r.exceeded THEN "capture" ELSE Parsed(r, {"malformed"})

\* A curl that gave up by itself (status 28) and an HTTP or provider error count as "failed".
OpenRouterFate(r) == AgyFate(r)

LlmFate(r) == IF r.late THEN "timeout" ELSE IF r.exceeded THEN "capture" ELSE ByStatus(r)

PiFate(r) == IF r.exceeded THEN "capture" ELSE IF r.late THEN "timeout" ELSE ByStatus(r)

\* pi_transport.py: a command that failed keeps its status when it also wrote too much.
PiProjectFate(r) ==
    IF r.late THEN "timeout"
    ELSE IF r.exceeded /\ r.status = "zero" THEN "capture"
    ELSE ByStatus(r)

\* The final message is read only when the command ended in time.
CodexFate(r) ==
    IF r.late THEN "timeout"
    ELSE IF r.exceeded THEN "capture"
    ELSE IF r.content = "malformed" THEN "rejected"
    ELSE ByStatus(r)

RangeFate(r) == IF r.exceeded THEN "capture" ELSE IF r.late THEN "timeout" ELSE ByStatus(r)

FateOf(kind, r) ==
    CASE kind = "agy"        -> AgyFate(r)
      [] kind = "codex"      -> CodexFate(r)
      [] kind = "gemini"     -> GeminiFate(r)
      [] kind = "kiro"       -> KiroFate(r)
      [] kind = "llm"        -> LlmFate(r)
      [] kind = "openrouter" -> OpenRouterFate(r)
      [] kind = "pi"         -> PiFate(r)
      [] kind = "pi-project" -> PiProjectFate(r)
      [] kind = "range"      -> RangeFate(r)

\* The fates with which a response may be handed on, when the capture holds one.  llm reads
\* the database whatever became of the command, and PiTransport the events that were captured.
Delivering(kind) ==
    CASE kind \in {"agy", "gemini", "kiro", "openrouter"} -> {"ok"}
      [] kind \in {"codex", "pi", "range"}                -> {"ok", "failed"}
      [] kind = "pi-project"                              -> {"ok", "failed", "timeout"}
      [] kind = "llm"                                     -> {"ok", "failed", "timeout", "capture"}

\* What the gates before the contract let through: exit code 0, a response that is not blank,
\* and the conversation it belongs to.
Usable(result) == result.fate = "ok" /\ result.answered /\ result.conversation

\* The result of an attempt whose response may also lack the conversation because the reader
\* of the standard output did not finish (known).
ResultOf(kind, r, known) ==
    [fate         |-> FateOf(kind, r),
     answered     |-> FateOf(kind, r) \in Delivering(kind) /\ r.content \in {"answer", "anonymous"},
     conversation |-> known /\ r.content = "answer"]

\* A command that could not be started: only some transports catch what Popen raises.
NotStarted(kind) ==
    [fate |-> IF kind \in {"codex", "llm", "pi-project", "range"} THEN "raised" ELSE "unavailable",
     answered |-> FALSE, conversation |-> FALSE]
=============================================================================
