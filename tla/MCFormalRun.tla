---------------------------- MODULE MCFormalRun ----------------------------
(* FormalRun on answers that reach each status of the contract and each    *)
(* gate before it.                                                         *)
EXTENDS FormalRun

CONSTANTS f1, f2

ThePayload(verdict, items, files) ==
    [shape |-> "object", verdict |-> verdict, extra |-> FALSE, list |-> "list",
     items |-> items, files |-> files]

Unparsed(shape) ==
    [shape |-> shape, verdict |-> "none", extra |-> FALSE, list |-> "none", items |-> <<>>,
     files |-> "none"]

Delivered(payload) ==
    [exit |-> 0, answered |-> TRUE, model |-> "asked", provider |-> "asked",
     conversation |-> TRUE, payload |-> payload]

Approval == ThePayload("approved", <<>>, "all")

\* Complete and incomplete answers of which a completion prompt can be built.
Completable ==
    {Approval,
     ThePayload("changes-requested", <<f1, f1>>, "all"),
     ThePayload("changes-requested", <<f1, f2>>, "none"),
     [ThePayload("changes-requested", <<f1>>, "all") EXCEPT !.extra = TRUE],
     ThePayload("approved", <<f2, f1>>, "all"),
     ThePayload("odd", <<f1, "finding-value">>, "none")}

\* One valid finding beside an invalid one or beside a wrong declaration.
Mixed ==
    {ThePayload("changes-requested", <<"finding-path", f2>>, "all"),
     ThePayload("changes-requested", <<f1>>, "wrong")}

\* Answers with nothing to keep.
Hopeless ==
    {Unparsed("broken"), ThePayload("changes-requested", <<>>, "all"),
     [Approval EXCEPT !.list = "odd"]}

Undelivered ==
    {[Delivered(Unparsed("blank")) EXCEPT !.exit = 124, !.answered = FALSE],
     [Delivered(Approval) EXCEPT !.model = "other"],
     [Delivered(Approval) EXCEPT !.provider = "other"],
     [Delivered(Approval) EXCEPT !.conversation = FALSE]}

SomeResponses ==
    {Delivered(p) : p \in Completable \cup Mixed \cup Hopeless} \cup Undelivered

SomeRoutes == {<<"pi">>, <<"kiro", "openrouter">>, <<"pi", "kiro">>}

=============================================================================
