------------------------------ MODULE FormalRun ------------------------------
(* One formal review with the findings-json contract (`reviewctl run`,     *)
(* run_review in cli.py): attempts over the routes in order, each answer   *)
(* put through the gates and the contract, the findings of incomplete      *)
(* answers promoted into the prompt of the next attempt, then one receipt, *)
(* written once and read back.  Each run has a directory of its own, so    *)
(* runs do not share state.  The process may be killed, or a write may     *)
(* fail, at any point (Crash), and the receipt may be altered on the disk  *)
(* before it is read back (Alter).                                         *)
(*                                                                         *)
(* A response is [exit, answered, model, provider, conversation, payload]: *)
(* what the transport returned, with payload as in FindingsContract or of  *)
(* shape "blank".                                                          *)
EXTENDS ReviewFlow

CONSTANTS RouteLists,     \* the routes a run may be given: sequences of transports
          MaxAttempts,    \* the largest --max-attempts; the code allows 1 to 3
          Sources,        \* where the text under review comes from
          Responses       \* what a transport may return

ASSUME MaxAttemptsAssumption == MaxAttempts \in 1 .. 3
ASSUME RouteListsAssumption == RouteLists \subseteq Seq(STRING) \ {<<>>}
ASSUME ResponsesAssumption ==
    \A r \in Responses : r.payload.items \in Seq(Findings \cup BadFindings)
ASSUME SourcesAssumption == Sources \subseteq {"files", "prompt-file", "inline"}

VARIABLES
    options,     \* [routes, max, declare, source, pinned], fixed when the run starts
    pc,
    route,       \* index of the current route
    tries,       \* attempts begun on it
    prompt,      \* the fragments the prompt of the current attempt carries
    attempts,    \* what each attempt's attempt.json records
    links,       \* fallback_relationships
    promoted,    \* promoted_fragments
    request,     \* the violation in the latest completion request
    gate,        \* previous_gate_result
    accepted,    \* number of the accepted attempt, 0 without one
    file,        \* "absent", "torn", "whole" or "altered": receipt.json
    receipt,     \* what was written to it
    exit

vars == <<options, pc, route, tries, prompt, attempts, links, promoted, request, gate,
          accepted, file, receipt, exit>>

RetriableResults ==
    {"timeout", "transport-failed", "missing-response", "empty", "missing-conversation",
     "incomplete"}

\* Descriptors without resolved_model_identity, and with resolved_provider_identity.
ModelUnresolved == {"kiro", "gemini"}
ProviderResolved == {"gemini", "llm", "openrouter", "pi"}

\* effective_reviewed_files: strict schemas need every field, so these transports ask for it.
Effective(routes, declare) == declare \/ Range(routes) \cap {"codex", "openrouter"} # {}

\* The options that pass the checks before the first attempt.  A run over OpenRouter pins its
\* provider (--provider-only); other runs cannot.
Options ==
    {o \in [routes : RouteLists, max : 1 .. MaxAttempts, declare : BOOLEAN,
            source : Sources, pinned : BOOLEAN] :
        /\ o.declare = Effective(o.routes, o.declare)
        /\ o.declare => o.source = "files"
        /\ o.pinned = ("openrouter" \in Range(o.routes))}

NoReceipt == [result |-> "none"]

Init ==
    /\ options \in Options
    /\ pc = "asking"
    /\ route = 1 /\ tries = 0
    /\ prompt = {} /\ attempts = <<>> /\ links = <<>>
    /\ promoted = {} /\ request = "none" /\ gate = "none"
    /\ accepted = 0
    /\ file = "absent" /\ receipt = NoReceipt
    /\ exit = "running"

Number == Len(attempts) + 1

\* Seeded fault: the reason is the persisted result of the attempt, not its gate.
LinkByResult ==
    [from |-> Number - 1, to |-> Number,
     kind |-> IF attempts[Number - 1].route = route THEN "retry" ELSE "route-fallback",
     reason |-> attempts[Number - 1].result,
     fragments |-> {p.fragment : p \in promoted}]

\* The relationship of the next attempt to the one before it.
Link ==
    [from |-> Number - 1, to |-> Number,
     kind |-> IF attempts[Number - 1].route = route THEN "retry" ELSE "route-fallback",
     reason |-> gate,
     fragments |-> {p.fragment : p \in promoted}]

\* Build the prompt, with the promoted fragments when there are any, and start the attempt.
Ask ==
    /\ pc = "asking"
    /\ promoted = {} \/ CompletionPossible(request, options.declare)
    /\ prompt' = {p.fragment : p \in promoted}
    /\ links' = IF attempts = <<>> THEN links ELSE Append(links, Link)
    /\ tries' = tries + 1
    /\ pc' = "answering"
    /\ UNCHANGED <<options, route, attempts, promoted, request, gate, accepted, file, receipt,
                   exit>>

\* build_completion_context raises a ValueError that nothing catches.
AskRaises ==
    /\ pc = "asking"
    /\ promoted # {}
    /\ ~CompletionPossible(request, options.declare)
    /\ pc' = "ended"
    /\ exit' = "raised"
    /\ UNCHANGED <<options, route, tries, prompt, attempts, links, promoted, request, gate,
                   accepted, file, receipt>>
-----------------------------------------------------------------------------
\* The first gate before the contract that a response does not pass.
PregateOf(r, transport) ==
    FirstFailed(<<
        <<"timeout",              r.exit # 124>>,
        <<"transport-failed",     r.exit = 0>>,
        <<"missing-response",     r.answered>>,
        <<"model-mismatch",       transport \in ModelUnresolved \/ r.model = "asked">>,
        <<"provider-mismatch",    \/ transport \notin ProviderResolved
                                  \/ options.pinned => r.provider = "asked">>,
        <<"empty",                r.payload.shape # "blank">>,
        <<"missing-conversation", r.conversation>> >>)

NotEvaluated == Rejected("none")

GateOf(pregate, evaluation) ==
    IF pregate # "none" THEN pregate
    ELSE CASE evaluation.status = "complete"   -> "accepted"
           [] evaluation.status = "incomplete" -> "contract-incomplete"
           [] evaluation.status = "invalid"    -> "contract-invalid"

\* Seeded fault: the gate is recorded as it is.
ResultAsGate(g) == g

\* contract-incomplete and contract-invalid are both recorded as "incomplete".
ResultOf(g) == IF g \in {"contract-incomplete", "contract-invalid"} THEN "incomplete" ELSE g

\* Seeded fault: the latest answer replaces what earlier ones reported.
PromotedLast(new) == IF new = {} THEN promoted ELSE new

\* promoted_fragments only grows.
PromotedWith(new) == promoted \cup new

\* Seeded fault: the attempts of the previous route are not forgotten.
GoOnCounting(result) ==
    IF result # "accepted" /\ result \in RetriableResults /\ tries < options.max
    THEN pc' = "asking" /\ UNCHANGED <<route, tries>>
    ELSE IF result # "accepted" /\ route < Len(options.routes)
    THEN pc' = "asking" /\ route' = route + 1 /\ UNCHANGED tries
    ELSE pc' = "writing" /\ UNCHANGED <<route, tries>>

\* The two loops around an attempt: try again, go to the next route, or stop.
GoOn(result) ==
    IF result # "accepted" /\ result \in RetriableResults /\ tries < options.max
    THEN pc' = "asking" /\ UNCHANGED <<route, tries>>
    ELSE IF result # "accepted" /\ route < Len(options.routes)
    THEN pc' = "asking" /\ route' = route + 1 /\ tries' = 0
    ELSE pc' = "writing" /\ UNCHANGED <<route, tries>>

\* The transport returns: judge the response, promote what it gives, record the attempt.
Answer(r) ==
    LET transport == options.routes[route]
        pregate == PregateOf(r, transport)
        evaluation == IF pregate = "none" THEN Evaluate(r.payload, options.declare)
                      ELSE NotEvaluated
        g == GateOf(pregate, evaluation)
        result == ResultOf(g)
        new == Promote(evaluation, g, options.declare, Number, route)
    IN  /\ pc = "answering"
        /\ attempts' = Append(attempts,
             [route |-> route, transport |-> transport, prompt |-> prompt,
              answered |-> r.answered, payload |-> r.payload, declare |-> options.declare,
              evaluated |-> pregate = "none", evaluation |-> evaluation, result |-> result,
              promoted |-> new, findings |-> evaluation.review.findings])
        /\ promoted' = PromotedWith(new)
        /\ request' = IF new = {} THEN request ELSE evaluation.violation
        /\ IF result = "accepted" THEN accepted' = Number /\ UNCHANGED gate
                                  ELSE gate' = g /\ UNCHANGED accepted
        /\ GoOn(result)
        /\ UNCHANGED <<options, prompt, links, file, receipt, exit>>
-----------------------------------------------------------------------------
\* The receipt; an inline prompt leaves its source entry without a path.
TheReceipt ==
    LET review == IF accepted = 0 THEN NoReview ELSE attempts[accepted].evaluation.review IN
    [result        |-> IF accepted = 0 THEN "unavailable" ELSE "accepted",
     accepted      |-> accepted,
     attempts      |-> attempts,
     routes        |-> options.routes,
     declare       |-> options.declare,
     pathKnown     |-> options.source # "inline",
     unqualified   |-> accepted # 0 /\ options.routes[route] = "kiro",
     relationships |-> links,
     consolidated  |-> Consolidate(review, promoted, accepted, options.declare),
     verdict       |-> review.verdict,
     findings      |-> review.findings]

Write(state) ==
    /\ pc = "writing"
    /\ file' = state
    /\ receipt' = TheReceipt
    /\ UNCHANGED <<options, route, tries, prompt, attempts, links, promoted, request, gate,
                   accepted>>

WriteReceipt == Write("whole") /\ pc' = "checking" /\ UNCHANGED exit

\* The exit status of a run whose receipt was written.
ExitStatus == IF file # "whole" THEN "receipt_invalid"
              ELSE IF accepted = 0 THEN "unavailable" ELSE "accepted"

\* persisted_receipt_valid reads the file back and compares digests.
CheckReceipt ==
    /\ pc = "checking"
    /\ exit' = ExitStatus
    /\ pc' = "ended"
    /\ UNCHANGED <<options, route, tries, prompt, attempts, links, promoted, request, gate,
                   accepted, file, receipt>>

\* Something else changes the file before it is read back.
Alter ==
    /\ pc = "checking" /\ file = "whole"
    /\ file' = "altered"
    /\ UNCHANGED <<options, pc, route, tries, prompt, attempts, links, promoted, request, gate,
                   accepted, receipt, exit>>

Crash ==
    /\ pc # "ended"
    /\ pc' = "ended" /\ exit' = "killed"
    /\ UNCHANGED <<options, route, tries, prompt, attempts, links, promoted, request, gate,
                   accepted, file, receipt>>

CrashInWrite == Write("torn") /\ pc' = "ended" /\ exit' = "killed"

Ended == pc = "ended" /\ UNCHANGED vars

Next == \/ Ask \/ AskRaises
        \/ \E r \in Responses : Answer(r)
        \/ WriteReceipt \/ CheckReceipt
        \/ Alter \/ Crash \/ CrashInWrite
        \/ Ended

Spec == Init /\ [][Next]_vars
-----------------------------------------------------------------------------
Written == file \in {"whole", "altered"}

Incomplete(i) == attempts[i].evaluation.status = "incomplete"

\* Each variable stays in its type.
TypeOK ==
    /\ options \in Options
    /\ pc \in {"asking", "answering", "writing", "checking", "ended"}
    /\ route \in DOMAIN options.routes
    /\ tries \in 0 .. options.max
    /\ DOMAIN attempts = 1 .. Len(attempts)
    /\ \A i \in DOMAIN attempts :
          attempts[i].result \in PregateResults \cup {"incomplete", "accepted"}
    /\ Len(links) <= Len(attempts)
    /\ request \in SemanticViolations \cup {"none"}
    /\ accepted \in 0 .. Len(attempts)
    /\ file \in {"absent", "torn", "whole", "altered"}
    /\ exit \in {"running", "accepted", "unavailable", "receipt_invalid", "raised", "killed"}

\* What a run writes, `reviewctl verify` accepts: every retry, fallback, promoted fragment and
\* consolidated finding of the receipt is the one that the verifier derives on its own from the
\* attempts.  Receipts of an inline prompt are left out: they never verify.
ReceiptVerifies ==
    Written /\ options.source # "inline" => ReceiptViolations(receipt) = {}

\* The prompt of an attempt carries every finding that any earlier attempt, on any route,
\* reported in an incomplete answer, and no other.
PromptCarriesEvidence ==
    \A i \in DOMAIN attempts :
        attempts[i].prompt =
            UNION {attempts[j].evaluation.fragments : j \in {k \in 1 .. i - 1 : Incomplete(k)}}

\* The attempts on the route of attempt i, up to it.
TriedUpTo(i) == Cardinality({j \in 1 .. i : attempts[j].route = attempts[i].route})

\* Nothing is left to try on the route of attempt i.
Spent(i) == attempts[i].result \notin RetriableResults \/ TriedUpTo(i) = options.max

\* Routes are used in order and none is skipped; a route is tried again only after a retriable
\* result and never beyond the limit; nothing follows an accepted attempt; and a run gives up
\* only when its last route has nothing left to try.
RouteDiscipline ==
    /\ \A i \in DOMAIN attempts : TriedUpTo(i) <= options.max
    /\ \A i \in 1 .. Len(attempts) - 1 :
          /\ attempts[i].result # "accepted"
          /\ attempts[i + 1].route = IF Spent(i) THEN attempts[i].route + 1
                                                 ELSE attempts[i].route
    /\ Written /\ receipt.result = "unavailable" =>
          /\ attempts[Len(attempts)].route = Len(options.routes)
          /\ Spent(Len(attempts))

\* The exit status tells what the receipt on the disk says: success only with an unaltered
\* receipt of an accepted review whose verdict is that of the last attempt.
ExitTellsReceipt ==
    /\ exit \in {"accepted", "unavailable"} => file = "whole" /\ receipt.result = exit
    /\ exit = "accepted" =>
          /\ receipt.consolidated.status = "accepted"
          /\ receipt.consolidated.verdict =
                attempts[Len(attempts)].evaluation.review.verdict

\* What a run leaves behind: a receipt that verifies, and an exit status that tells what
\* is in it, whenever the run is killed and whatever happens to the file meanwhile.
ReceiptHolds == ReceiptVerifies /\ ExitTellsReceipt

\* A run is an evidence ledger: before the receipt, the evidence is what the attempts reported;
\* afterwards it is what the consolidated review of the receipt holds.
Reported == UNION {FindingsOf(attempts[i].evaluation.fragments) : i \in DOMAIN attempts}

Ledger == INSTANCE EvidenceLedger WITH
    evidence <- IF Written THEN {c.finding : c \in receipt.consolidated.findings} ELSE Reported,
    decision <- IF ~Written THEN "open"
                ELSE IF receipt.consolidated.approved THEN "approved"
                ELSE IF receipt.result = "accepted" THEN "not approved" ELSE "unavailable"

RefinesLedger == Ledger!Spec

\* A run that is not killed leaves a receipt (docs/HELP-LLM.md: "A failed formal run normally
\* still prints its artifact directory and persists `receipt.json`").
FailedRunHasReceipt == pc = "ended" /\ exit # "killed" => Written
=============================================================================
