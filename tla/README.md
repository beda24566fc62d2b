# A formal model of reviewctl

reviewctl asks language models to review source files and keeps evidence of what they
answered: receipts that can be verified later, a project journal of findings, and,
on demand, a review published on a GitHub pull request. What it promises is about
evidence: nothing a reviewer reported is lost, nothing is approved that somebody
objected to, nothing is recorded twice, and a record once written is final, whatever
processes run at the same time, fail or are killed.

This directory holds TLA+ modules that model the parts of the program on which those
promises rest, configurations that let TLC check them on small instances, and TLAPS
proofs, for every instance, of all of them but those about what must happen in the end. Source paths below are relative to the
repository's `src/reviewctl/`. `PROJECT.json` maps every definition of a model to the
lines it stands for.

## 1. The system

| Part | State it keeps | Operations | Talks to |
|---|---|---|---|
| **Project journal** (`journal.py`) | `.reviewctl/journal.jsonl`, a digest-chained log | `append`, `append_status_change`, `findings`, `verify` | every project command, by `flock` on the file |
| **Project review client** (`api.py`, `artifacts.py`, `project_cli.py`) | a directory per review: `packet.json`, `attempt-NN/response.md`, `receipt.json` | `review`, receipt verification | journal, contract, a transport |
| **GitHub publication** (`github_publisher.py`, `github.py`, `project_cli.py`) | none of its own: the markers on GitHub; `github_*` journal events | plan, check head, list markers, post, read back, confirm | GitHub by `gh api`, journal |
| **Project identity and init** (`identity.py`, `project_cli.py`, `api.py`) | `reviewctl.toml`, `.reviewctl/identity.json`, `identity.lock` | `init [--force]`, `ensure`, open | every project command |
| **Formal run** (`cli.py` `run_review`) | one process: attempts, promoted fragments, relationships; `receipt.json` | the attempt loop over routes, receipt, check of what was written | transports, contract, review flow |
| **Findings contract** (`contracts.py`) | none | `evaluate`: complete, incomplete or invalid | formal run, client |
| **Review flow and receipts** (`review_flow.py`) | none | promotion, completion request, consolidation, `validate_v2_receipt` | formal run, `verify`, range review |
| **Range review** (`range_review.py`, `cli.py`) | manifest, one receipt per chunk, aggregate | build, run every chunk, aggregate, verify | formal run, as child processes |
| **GitHub snapshot** (`github.py`) | none; reads GitHub and the local repository | `resolve` | `gh`, `git` |
| **GitHub receipt promotion** (`github_receipt.py`) | one exclusive receipt file | `verify_project_receipt`, `write_github_v2_receipt`, reading the findings back | client's artifacts, snapshot |
| **Process supervision** (`cli.py` `invoke_*`, `pi_transport.py`, `codex_project_transport.py`) | a child and its group, its pipes or capture files, a deadline | start, drain, time out, terminate, reap, join, classify | external model programs |
| **Tournaments, council, explorations** (`cli.py`) | campaign files, drafts | plan, run, score, blind, assign | formal run |
| **Configuration, discovery, filesystem, dimensions, errors, policy, sealing** | none, or files read once | parsing, lookups, confinement | all |

What makes each of them right:

* *Journal*: a log that parses is a verified chain of one identity; every status change
  starts from the status its finding really had; what was read or acknowledged stays; a
  corrupt log is never written to, and an intact one is never called corrupt; every
  call returns.
* *Client*: one run per review id; artifacts are final; the receipt tells exactly what
  the run did and is backed by the journal; a finished review has its receipt; every
  review ends.
* *Publication*: a finding reaches the pull request at most once; what is posted was
  found on the very diff of its commit; statuses and journal events are true of GitHub; a
  review is called published only on the current head.
* *Identity*: made once, never changed, the same for everybody; the project stays
  usable whatever `init` is interrupted by.
* *Formal run*: every finding of every incomplete answer reaches every later prompt and
  the receipt; routes are used in order and within their limits; the receipt is one the
  verifier accepts; the exit status tells what the receipt says.
* *Range review*: the frozen chunks are the whole diff; an aggregate is accepted only
  with an accepted receipt of its own child for every chunk, verifies as long as nothing
  it stands on changes, and cannot be edited into another one that verifies.
* *Supervision*: an answer that is used is whole; a capture is bounded; nobody who was
  terminated is left behind; no child holds the supervisor for ever.

Hard to test, and the reason for the models: processes that interleave between a check
and its use (a status read under the shared lock and changed under the exclusive one,
`exists()` before `mkdir`, a head checked before a POST), writes that are cut short by
an error, a failed rollback or a kill, POSTs whose answer is lost, descendants that keep
a pipe open after their parent is gone, and attempt loops whose evidence is carried
through many variables updated at different places.
`PROJECT.json` lists these hazards one by one, each at its line, with the properties
that cover it or the reason why none does yet.

## 2. The modules

```
FindingStatuses <- FindingLifecycle (abstract)      EvidenceLedger (abstract)
       ^                   ^ refines                       ^ refines
JournalEvents <------ ProjectJournal      FindingsContract <- ReviewFlow <- FormalRun
                           ^
                     ProjectJournal_proofs <- JournalHistory_proofs

FormalRun        <- FormalRun_proofs      ReviewClient    <- ReviewClient_proofs
GitHubPublisher  <- GitHubReview      <- GitHubReview_proofs
TransportResults <- TransportAttempt  <- TransportAttempt_proofs
RangeManifest    <- RangeReview       <- RangeReview_proofs
RangePromise (abstract) <- refined by RangeReview
                   ProjectIdentity   <- ProjectIdentity_proofs
```

Each `MC<Module>` gives the constants of `<Module>` for TLC. Within a module, operators
whose comment begins with *Seeded fault* are variants of a definition as a plausible bug
would make it. They take no part in any specification: substituted for the definition
they vary, each makes TLC violate the property it is there for.

### JournalEvents, ProjectJournal

`JournalEvents` is the data: an event, its envelope (`WithEnvelope` for
`_with_envelope`), the chain check (`Verified` for `_verify_events`), the lifecycle check
of `append` (`Admissible`), and the projection of findings (`Replay` for `_project`).
An event's id stands for its digest, so digests of different events do not collide.

`ProjectJournal` is the file and its users. A line is three pieces: a strict part of
the JSON, the rest of it, the newline; `Written` says what a file that ends in a newline,
in a whole event without one, or in a torn one becomes when pieces are added to it. One
call is the sequence of actions `Read` (under `LOCK_SH`), `ChooseSource`, `PreValidate`,
`AcquireExclusive`, `CheckAndStamp` (the whole file again, under `LOCK_EX`), `WriteSome`,
`Sync`. The error paths are `WriteFails`, `RollBack`, `RollBackFails` and, before anything is
written, `OpenOrReadFails`, `LockFails` and `FchmodFails`, which the code reports as
`journal_corrupt`, `journal_unavailable` and the bare error. `Crash` is a kill anywhere. A read under the shared lock is one step because no writer can
run inside it.

`FindingLifecycle` is what callers are promised: each finding has one status, first
observed and then moved along the table only, until the journal is reported corrupt for
good. `RefinesLifecycle` shows that the locks, byte writes, rollbacks and kills implement it.

### ReviewClient

`ReviewClient.review` and the command around it: `CheckId` and `MakeDirectory` (two
steps, as in the code), `WritePacket`, `Start`, the loop `Attempt` / `WriteResponse` /
`Record`, `Observe` for each retained finding, `ReadHead`, `WriteReceipt`, `Finish`,
`Conclude`. Every artifact is created exclusively and may be absent, half written or
whole; every append may fail, and its rollback may fail too. Here the journal is the
sequence of its events: `ProjectJournal` shows that an append takes one place in one order
or fails. Journal reads that precede an append are part of it. `workload` is what the
processes are asked to do: one review id and three attempts, or two ids and one attempt.

### GitHubPublisher, GitHubReview

`GitHubPublisher` is `publish` against GitHub (external), which is two lists, of review
comments and of reviews, with the markers in their bodies, and the base and head of the
pull request. `Apply` is the effect of a POST; `Land` applies one whose caller gave up;
`Push` and `Remark` are other people, who act as far as the chosen `timing` lets them. A
publication is `CheckHead`, `List` (one page a step, full last pages and the page limit
included), `Recheck`, `Post`, `ReadBack`, `Confirm`, with `CallFails` wherever a call is
made. A finding's marker is its id, which leaves severity and evidence out (`names`).

`GitHubReview` composes it with what comes before and after it in
`reviewctl github review`: the snapshot (`Resolve`, `CheckCheckout`, `FetchDiff`,
`CheckUnchanged`, `SourceFails`), the review (`Review`, of which `ReviewClient` is the model
and here only the answer and the number of attempts are kept), its promotion (`Verify`,
`Promote`, `Adopt`) through four files that `Alter` may change between any two of these
steps, the plan (`Plan`, `Refuse`, `Announce`), and `Record`, one journal event a step.
`Checkout` and `Push` move the local and the remote side. `Crash` is a kill anywhere, or an
append to the journal that raises. A diff is the pair of commits it lies between.

### ProjectIdentity

What a command still has to do is a sequence of steps (`steps[p]`), because `init` and
opening a project share theirs: `Look` and `Peek` (is there a configuration, an identity),
`WriteConfig`, `Load`, `OpenRoot`, `MakeRoot`, `Lock`, `Read`, `WriteIdentity`. Fresh random
ids are told apart by the process that made them. Both files are replaced atomically, so
they are read whole. `ChangeConfig` is the user removing or editing `reviewctl.toml` or
bringing one of their own, at any time, also while commands run. The history variable `meddled`
notes that it happened while there was no identity yet and some command was to make one from
what it had seen before (`Unsettled`).

### FindingsContract, ReviewFlow, FormalRun

`FindingsContract` is `FindingsJsonContract.evaluate` over the *shape* of an answer: what
kind of JSON it is, its verdict, its items (well formed, or with the violation they
raise), its file declaration. `ReviewFlow` holds the rules over evaluations: which
coverage goes with which violation, when a completion request can be built, what is
promoted, how a review is consolidated and approved, and `ReceiptViolations`, the verifier's
own derivation of all that from the attempts of a receipt.

`FormalRun` is `run_review`'s loop. `Ask` builds a prompt from the promoted fragments,
`AskRaises` is the case in which none can be built, `Answer` is one whole iteration from
the transport's outcome to the gate, the attempt record, the promotion and the choice of
the next route (the loop body has no other observer, so it is one step);
`WriteReceipt`, `CheckReceipt` and `Alter` (somebody changes the file before it is read
back) end the run, `Crash` and `CrashInWrite` kill it. `EvidenceLedger` is the
promise: evidence only grows, and the run is decided once, approved only without evidence.

### RangeManifest, RangeReview, RangePromise

`RangeManifest` is `_chunks`, one action per iteration of its loop (`Refuse`,
`FlushAndAdd`, `Add`, then `FlushLast`), and the validation every consumer of a manifest
begins with (`ValidManifest`). A payload is the run of section numbers it consists of, so
the digest check of a manifest is `Reassembles`: the payloads follow each other from the
first section of the diff to the last.

`RangeReview` extends it with the drivers of `range-review --manifest`: `Start`, then for
each chunk `Launch` (fingerprint the artifact root, start the child) and `Collect` (find the
one receipt that is new or changed, by `Selected`), then `Conclude`, `WriteAggregate` and
`PrintSummary`, the last step, which may fail and gives the exit code; `GiveUp` is a driver that ends
between two children, because the next patch is too large for `reviewctl run` or a file cannot
be written or read. The
child (`ChildReports`, `ChildExits`, `ChildFails`) is `reviewctl run`, of which FormalRun is
the model and here only the outcome is kept. `Timeout` kills it at any point, also after it
wrote its receipt; `Kill` kills the driver and leaves its child, as `start_new_session` does,
and whatever of the aggregate is written: nothing, a part, or all of it before `PrintSummary`.
`OtherReview` and `Edit` are everybody else with access to the files. `Verified` is
`verify_range_aggregate`, used by the builder on what it built and by `range-verify`, which
changes nothing and is therefore an operator the properties apply to arbitrary edits.

`RangePromise` is what a reader of verdicts is promised, without chunks, children and files:
under each output path one verdict, for good, and an accepted one only if reviews that its
author had made show every section of the diff it is about, none of them twice, and have
together the verdict's findings. The reviews are the accepted receipts (`AcceptedReviews`;
that one is altered later does not undo the review), and the verdict is what a file says
(`VerdictIn`). That the diff is the one that was frozen is not promised: a manifest that
somebody shortened and signed again is a manifest.

### TransportResults, TransportAttempt

`TransportAttempt` is one attempt of any transport (`kind`), or one chunk's child of the
range driver: `Spawn`, the wait for the leader (`CommandOver`) or the deadline (`TimeOut`),
the grace period (`Heeded`, `Kill`, `Reap`), the readers (`Drain`, `Communicate`,
`EndOfOutput`, `ReadFails`, codex's `MonitorSees` and `MonitorKills`), the joins (`Joined`,
`WindowOver`, `CloseOver`) and `Collect`; kiro runs three commands under one deadline. The
command (external) is a leader and at most one descendant: it writes, forks, exits or not,
ignores `SIGTERM` or not, and its descendant may hold its pipes. The eight transports differ
in how they capture (a file bounded by `RLIMIT_FSIZE`, pipes drained by threads, pipes
drained by `communicate()`), in how they terminate, and in what they make of it:
`TransportResults` is that last part, one operator for each adapter.

## 3. The runs

| Run | Instance | Shows |
|---|---|---|
| `journal_calls` | 3 processes, one without an identity, 1 call each, 1 failing system call and its rollback, 1 kill, fair (74 k states) | `ChainUnbroken`, `NoLostUpdate`, `ReadsAreFinal`, `AckedOnceInOrder`, `ReplayAgrees`, `CorruptionIsReal`, `TornIsFrozen`, the refinement `RefinesLifecycle`, `EveryCallReturns` |
| `journal_unterminated` | 3 processes, 1 kill | **violation** of `AppendTakesEffect`, finding 1 |
| `review_workloads` | 2 processes under one review id with 3 attempts, or under 2 ids with 1; 1 failing write, 1 kill, fair (504 k) | `OneRunPerReview`, `ReceiptTellsTheRun`, `EvidenceInOrder`, `ArtifactsAreFinal`, `EveryReviewEnds` |
| `github_timings` | 2 runs of the whole command, 2 findings, pages of one; in turn with remarks, with a push, or with an altered artifact and two findings of one id; in turn or at once with late POSTs (1.3 M) | `OnceInTurn`, `PublishedIsCurrent`, `PostedIsReviewed`, `ReportsAreTrue` |
| `github_twins` | 2 runs in turn, answers with two findings of one id | **violation** of `AtMostOnce`, finding 2 |
| `identity_one_init` | 3 commands, one init at a time, 2 changes by the user at any time, with one project id of their own, kills, fair (458 k) | `OpenedAgree`, `StaysUsable`, `IdentityIsForever`, `EveryCommandEnds` |
| `identity_two_inits` | 2 inits at once | **violation** of `OverwritesOnlyByForce`, finding 3 |
| `formal_evidence` | route lists of one and two, 2 attempts a route, 15 kinds of answer (363 k) | `ReceiptHolds`, `PromptCarriesEvidence`, `RouteDiscipline`, the refinement `RefinesLedger` |
| `formal_failed_run` | the same | **violation** of `FailedRunHasReceipt`, finding 4 |
| `range_crowds` | six small ranges; 1 driver, 2 chunks, another review and an edit; 2 drivers with one review id at one chunk with an edit, or at two chunks, fair (327 k) | `FrozenIsTheDiff`, `AcceptedIsReviewed`, `VerifierIsRight`, `FailsForACause`, the refinement `RefinesPromise`, `EveryRangeEnds` |
| `range_retries` | 1 driver, 1 chunk, children that retry | **violation** of `ApprovalKeepsFindings`, finding 5 |
| `transport_commands` | every transport and every command, a limit of one unit, a pipe of two, three units of output, fair (720 k) | `UsableIsWhole`, `CaptureIsBounded`, `NobodyIsLeft`, `EveryAttemptReturns` |

Every passing run but `journal_calls`, `range_crowds` and `transport_commands` also checks its
module's type invariant; those three have it as a theorem. Together the passing runs fire every disjunct of
the next-state relations.

**Why the bounds are enough.** Every bound is a named constant. A lost update takes three
processes, one that reports a finding and two that read one status and move it; an
interleaved chain or a read of a line that is later removed takes two. One failing call plus
its failing rollback plus one kill reaches each ending of the file on every path; a second
fault on an already torn file changes nothing by `TornIsFrozen`. One call a process is
little for what one process does after another call of its own, such as the order of two of
its events in `AckedOnceInOrder`: the safety properties of that run are proved for any number
of processes and calls (section 5), and the run stays to show that each can fail, and for
liveness. The same goes for every other run. With pages of one entry and at most two pages, two
findings and two remarks are enough for a listing that ends before the limit, one whose full
last page asks for one more, and one that meets the limit. In the formal run the relationships
that differ are same route, next route and both in one run, which two routes and two attempts
on each give; the answers are one of each class of `evaluate` and of the gates before it. Two
findings are what it takes for one to be carried while another is lost. The proofs cover
every number of routes and attempts and every answer. The client's two workloads, beyond which
its safety is proved, and the publisher's six timings are chosen in the initial state, because
what one needs (retries; a second review that finishes; late POSTs; an altered file)
multiplies the states of the others and shows nothing more there. In the range review a second chunk is what an order
needs, a second driver with the same review id and output is the closest competitor there can
be, and its killed driver's child is the third; the sizes of the sections are those that fit
together, do not fit together, and exceed the limit, and the proofs cover the others, as they
cover more chunks, drivers, receipts of others and edits. A user's two changes (`MaxChanges`)
remove a configuration and bring another; one project id of their own (`UserIds`) is enough for
a configuration that disagrees with the identity, and the proofs cover any number of both.
With a limit of one unit and chunks of up to two a capture passes it in one read or in two, a
pipe of two can be full, and the third unit is the one that no longer fits; the proofs cover
every other limit, amount and pipe.

**Fairness.** Only the steps of a call that was made are weakly fair, per process: the
operating system runs a live process, and `flock` grants a free lock. Calls themselves,
faults, kills, answers of GitHub and users are never fair. For a transport, time passes
(`Deadline`), a signal that is not ignored takes effect (`Die`), threads run and the
supervisor goes on; that a command writes, exits or closes its pipes is never assumed. Under weak fairness one lock may
in principle be taken again and again by others; `EveryCallReturns` holds because the
others make finitely many calls, and the models say so with `MaxOps`. A killed process
releases its lock, as closing a descriptor does.

## 4. What the runs found

1. **Unterminated journal** (`journal.py:157`, `journal_unterminated`). A process killed
   between an event and its newline leaves a file that parses. The next `append` glues its
   line to that event, fsyncs and acknowledges; afterwards the journal does not parse and
   both events are unreadable. The plan of the envelope promises a complete line.
2. **Twin findings** (`github.py:429`, `github_twins`). A finding's id leaves its severity
   and evidence out, while the contract drops only findings equal in every field. An answer
   with two findings of one id makes two items with one marker; neither is on GitHub yet, one
   POST publishes both, and the run then cannot bind its comments to findings and ends in
   `publication_reconciliation_incomplete`. The roadmap promises no second inline thread.
3. **Two inits** (`project_cli.py:254`, `identity_two_inits`). Two inits that found no
   configuration replace each other's without `--force`, and may leave a configuration and
   an identity of different projects, which no later command opens.
4. **No receipt after an incomplete answer** (`cli.py:5467`, `formal_failed_run`). For four
   violations of the contract the completion request for the next attempt is rejected by its
   own coverage rule; the exception ends the run without the receipt that the help promises.
5. **Range approval forgets findings** (`range_review.py:571`, `range_retries`). The aggregate
   reads `verdict` and `findings` of each receipt, the view of the accepted attempt alone. A
   chunk whose first answer was incomplete with a valid finding and whose second approved has a
   consolidated view that refuses approval, and is approved all the same; `range-verify` agrees.
   ARCHITECTURE.md says that such a finding "prevents the consolidated view from claiming
   approval", EVIDENCE.md that such findings are not silently discarded. The consolidated view of
   that receipt does refuse; the range's approval leaves it out.

Met while modelling, with no run of their own:

* A failing `open`, `fstat` or read of the journal is reported as `journal_corrupt`
  (`journal.py:485-486`, and 191-194, 220-223), so after a passing I/O error an intact journal is
  called corrupt; the next call may read it well. The plan of the envelope
  (`docs/superpowers/plans/2026-08-23-journal-envelope-and-dimensions.md:20`) lists only what is
  wrong with the bytes. `CorruptionIsReal` is therefore about calls in which no system call
  failed, and `OpenOrReadFails` is the rest.
* Nothing stops a user from changing `reviewctl.toml` while commands run, and they read it and
  the identity at different times. A fresh clone has the configuration X and no identity, and a
  command loads X; the user removes the file, and an init finds neither and makes the id Z; the
  command binds X in the identity, and init writes Z into the configuration, which no later
  command opens. One init is enough, and so is a file of the user's own: an init that found no
  configuration replaces what came in between, without `--force` and without looking again
  (`project_cli.py:254`), although another command may have made the identity from it.
  `StaysUsable` leaves out runs in which that happened while the first identity was being made
  (`meddled`); once there is an identity, the user may change the file at any time.
* A range driver that is killed, or cannot print, after it wrote its aggregate leaves one that is
  whole and verifies, although it did not exit with 0 (`cli.py:1957-1959`). So the exit code tells
  of the file, and not the other way round, which is how `SuccessVerifies` puts it.
* A run with an inline `--prompt` and no file records a source entry without a path
  (`cli.py:5317`), which the verifier rejects (`review_flow.py:1048`): its receipts never
  verify. `ReceiptVerifies`, a part of `ReceiptHolds`, leaves such runs out and says so; the
  repository's README describes an empty file list instead.
* That README says routes change "only after a retriable delivery failure"; a model or
  provider mismatch, which is not retriable, moves to the next route as well
  (`cli.py:5851`). `RouteDiscipline` states what the code does.
* `range-verify`, which the operating modes call the fail-closed aggregate gate, does not
  look at `extension.mergeGateEligible`, which ARCHITECTURE.md wants every merge gate to
  reject when it is false.
* The range driver kills a child ten seconds after the timeout of one attempt
  (`cli.py:1926`) although the child may make up to three: retries after a timeout are cut
  short, and the aggregate is incomplete.
* A comment deleted between two pages of a listing hides the one after it, so a marker can
  be missed (`github_publisher.py:212`). Deletions are outside the model.
* A POST given up at its deadline may be applied after the next run listed the markers, which
  then posts the findings again (`github_publisher.py:427`); `OnceInTurn` excludes it by its
  premise. The publisher's plan (`docs/superpowers/plans/2026-08-24-github-comment-publisher.md:106`)
  leaves an ambiguous POST to the next run's reconciliation, which cannot see it yet.
* A review that is accepted in its second attempt is never published: the promotion wants
  exactly one attempt (`github_receipt.py`, `Promote`), and the plan is not executable.
* The promotion reads the checkpoint again after verifying it (`github_receipt.py:199`); a
  change between the two reads is one step in the model.
* After its deadline gemini calls `communicate()` a second time without a timeout
  (`cli.py:2956`): a descendant that survives the `SIGTERM` and holds the pipes keeps the run
  waiting, although the loop is documented to preserve "the same deadline across
  transports" (`cli.py:3042`). `EveryAttemptReturns` names this one exception (`HeldOpen`).
* `terminate_process_group` (`cli.py:2189`) escalates to `SIGKILL` only when the *leader*
  ignored the `SIGTERM`: a descendant that ignores it, or that its leader's handler starts,
  outlives every transport but kiro, which `NobodyIsLeft` states for kiro alone.
* gemini's output is not bounded at all, and after a timeout what was captured before it may
  appear twice; codex's final message file has no `RLIMIT_FSIZE`, and a monitor looks at its
  size instead.
* A program that is missing ends an attempt of most transports as unavailable, but raises
  out of the transport for llm, codex, the project's pi and the range driver's child.
* When codex's reader has not met the end of the output in time, what it captured is replaced
  by nothing and not flagged; the answer, which is read from a file, is used without a session id.
* A killed range driver leaves its child, and a killed child its own transport, running.

## 5. What is proved

| Module | Theorem | For all |
|---|---|---|
| `ProjectJournal_proofs` | `StampedEventVerifies` (an admissible event, stamped by `WithEnvelope` on a verified log, gives a verified log), `TypeCorrectness`, `Invariance`, `ChainNeverBreaks`, `NoUpdateIsLost`, `TornStaysFrozen` | processes, findings, identities, bounds |
| `JournalHistory_proofs` | `HistoryInvariance`, `ReadsStayFinal`, `AckedStays`, `NoFalseAlarm`, `LoopAgrees`, and the refinement `ImplementsLifecycle` | the same |
| `ReviewClient_proofs` | `TypeCorrect`, `FinalArtifacts`, `Invariance`, `OnlyOneRun`, `EvidenceComesInOrder`, `ReceiptsTellTheRun` | processes, review ids, findings, attempts, any number of faults and kills |
| `ProjectIdentity_proofs` | `TypeCorrectness`, `Invariance`, `EverybodyAgrees`, `MadeOnce`; `KeepsUsable` | processes, changes, any number of inits at once; `KeepsUsable` for one init at a time |
| `GitHubReview_proofs` | `NoFindingTwice`, `CurrentWhenPublished`, `ReviewedWhenPosted`, `Typed`, `HonestReports` | runs, findings, ids, page sizes and limits, timings |
| `RangeReview_proofs` | `ManifestInvariant`, `FrozenIsTheDiffAlways`, `TypeCorrect`, `Invariance`, `FrozenForDrivers`, `AcceptedIsReviewedAlways`, `VerifierIsRightAlways`, `FailsForACauseAlways`, and the refinement `KeepsThePromise` | ranges: any number of sections of any size, any limit; drivers, requests, and settings: outcomes of children, receipts of others, edits |
| `FormalRun_proofs` | `TypeCorrect`, `EvidenceIsCarried`, `RoutesInTurn`, `ReceiptIsRight`, and the refinement `KeepsTheLedger` | routes, attempt limits, answers, findings |
| `TransportAttempt_proofs` | `TypeCorrectness`, `AnswersAreWhole`, `CapturesAreBounded`, `NobodySurvives` | limits, pipes, amounts of output, every transport |

Assumptions are the named ones on the constants (`JournalAssumption`, `IdentityAssumption`,
`ReviewAssumption`; `PublisherAssumption`: finitely many findings, runs that are not called "people", and
findings of one id in one place; `RangeAssumption`: the sections start one after the other; `RangeReviewAssumption`: settings
are settings, and no driver has the name the others go by;
`RouteListsAssumption`, `ResponsesAssumption` and their companions: answers are answers of the
contract, and no finding is the mark of an item that is not one; `LimitAssumption` and its two
companions); TLC evaluates them in every run.

**Journal.** `ChainUnbroken` and `NoLostUpdate` are not inductive: they say nothing of
what a writer is in the middle of. `IInv` adds that the exclusive lock is held exactly by
the process past `flock` (`LockOK`); that an event not yet stamped carries no envelope
(`PendingOK`); that while somebody writes, the file is the verified journal it found plus
some pieces of an event that extends it to a verified one (`WriteOK`); and that with no
writer a file that parses is verified (`QuietOK`). The heart is
`StampedEventVerifies`: since `CheckAndStamp` re-reads under the lock, chain and
lifecycle are checked against the very file that is extended. `Written` then keeps the file
verified or makes it torn, whichever piece the writer got to. `TornStaysFrozen`
follows, since nobody gets past `CheckAndStamp` on a torn file.

**Journal over time.** What is committed changes in three ways only: not at all, by a tear,
or by one event more (`Same`, `Tears`, `Grows`), and each action of a process is shown to have
one of these effects. `ReadsStayFinal` follows, for a prefix of a log is a prefix of the
longer one. So does `NoFalseAlarm`: unless a system call fails, a process is told
`journal_corrupt` only in a step that changes nothing and has just looked at the committed bytes
(`Learns`), never at a line that somebody is still writing. `AckedStays` needs that the event is new: a process numbers its operations, and
whatever it has committed carries the number of an earlier one (`UsedOK`), for an append that
was committed has ended. `fsync` comes after the whole line (`SentOK`), so what is
acknowledged is in the file, or the file is torn. For `ImplementsLifecycle`, an event more is
an observation, a change or a stutter of the lifecycle, by the lemma that says what one
more event makes of a finding's status (`StatusGrows`), and admissible since the longer log
is verified too.

**The loop of `_project`.** `LoopAgrees` is about a recursive function, the loop, over every log
that can be committed. No induction rule can be instantiated, so the lemma `ReplayIsTheLog`
does without: a function that satisfies the loop's equation is written down explicitly
(`ViewAfter`, from `StatusAt` and the place where the log stops being a legal replay), which shows
that there is one; and the least index at which the loop's own function could differ from it
does not exist, since one more event moves both alike (`ViewMovesOn`).

**Client.** Everything rests on who owns a review: the one process whose `packet.json` is in
the directory, for it is created exclusively and before the first event or response (`Owning`, `Owned`).
Only the owner appends events of the review, writes its responses and leaves a receipt that has
attempts; the one thing others can still do to it (`Interference`) is to leave half a receipt,
or one without attempts, of a review whose contract could not be prepared (`Unprepared`), in
which case the owner's own receipt fails. So what the owner has done can be followed step by step against its local
variables (`Recorded`): the journal has the attempts so far and nothing of a later phase
(`Journaled`), the fallbacks and the retained findings are those of the attempts made and the
responses written (`Tried`), and from the end of the loop the journal head read by `ReadHead`
lies behind all of them (`Ended`). A receipt is made of these variables, hence true when it is
written; since journal and artifacts only grow, it stays true (`Standing`), and
`review_finished` finds it there (`FinishedWithReceipt`).

**Identity.** `IdentityIsForever` needs that whoever is about to write the identity has
seen, under the lock it still holds, that there is none (`WritesFirst`, `HoldsLock`).
`OpenedAgree` needs moreover that a process that goes by an origin will not load another
project id afterwards. That depends on the order of the steps it has left, so the
invariant describes that order (`Shape`): the identity is read right after the lock is
taken, written only in place of that read, and followed by steps that look at no
configuration. These theorems do not need `OneInit`: what two simultaneous inits
destroy is the configuration (finding 3), never the identity. `KeepsUsable` does: after two
inits configuration and identity may name different projects, and TLC shows how. With one, and
unless the user meddled, its invariant `Usable` says what each command that is under way knows (`Knows`): while an init
is going to write the configuration it found missing, there is none (`Early`), so nobody has
loaded one, and if there is an identity its project id is the one that will be written; a
command that has loaded a configuration and finds no identity carries the project id of the
configuration that is still there (`Loaded`); and an init with `--force` replaces the
configuration only after it agreed with the identity.

**Publication.** Base and head only move on, so two equal reads mean that nothing moved in
between, and that the diff fetched in between is of these commits (`RunOK`); the
artifacts, once whole, say what the review answered or do not verify, so what is posted is
the answer (`PostedOK`). `NoFindingTwice` counts: before a run that takes its turn posts, it has listed every
marker that is there, page by page, and nobody adds one meanwhile (`TurnOK`); the listing is
complete because it went on until a page was not full, or failed at the page limit.
`HonestReports` rests on comments, reviews and events never going away (`Grown`): what a run has
seen, skipped or published, and the review it posted, stay on GitHub (`Knows`); its status, and
the part of `Events` it has journalled, say no more than that (`Reports`); and so every event in
the journal stays true (`Truthful`). That a run which got no answer claims nothing needs one
fact about GitHub's side: a POST still to be applied belongs to a run that failed or was killed
(`GivenUp`).

**Formal run.** The verifier works from the recorded attempts alone, the run from local
variables that it carries through its loops. The invariant, called `Run`, says that the two
agree: `Tracked`, that the loops' counters are the attempts counted route by route; `Carried`,
that the promoted fragments, and the prompt that is out, are the evidence collected so far;
`Settled`, that the attempts, their links and the accepted one are what the verifier would
make of them; `Filed`, that receipt and exit status belong to that result. They rest on
`Sound`, which says what the contract makes of any answer at all and holds of each recorded
attempt (`Judged`): the coverage of an incomplete answer always matches its violation, so it
can be promoted (the four violations of finding 4 are those of invalid answers that nothing
assessed), and a normalized review is normalized to itself (`Renormalized`), so the
consolidation accepts what the attempts retained. `KeepsTheLedger` follows, since the
consolidated findings are those that valid answers reported.

**Packing.** `FrozenIsTheDiff` speaks of the end of the loop. `Packing` says of every iteration
that the closed chunks and the current one follow each other without a gap up to the section
the loop is at (`Contiguous`), that `current_size` is what the current chunk weighs (`Loop`),
and that the section which began the current chunk had not fitted into the one before
(`LastIsFull`). That any two chunks are disjoint, and not only neighbours, is part of the
invariant rather than derived from it, which would take an induction.

**Range review.** Receipts under the artifact root come, and are altered in ways that leave
them recognizable, but never go or turn into others (`Grown`, `Same`). So three things that are
true when a driver learns them stay true whatever the others do. While it waits for a child,
each receipt that was there at its launch is still there, and one that is new is its child's or a
stranger's (`Left`, `Waiting`); the record it has noted for a chunk is that of its own
child's receipt (`Noted`, `Doing`); what it has written says accepted only with such a
record for every chunk (`Reviewed`), and anything less only with a child that failed or a
receipt that others left in the meantime (`Justified`), which is `FailsForACause`. From the write
on, a driver does nothing more to its aggregate, whether it exits or is killed (`Decided`,
`Reported`), and an exit code repeats what its own file says (`Exited`). A step
of one driver is shown to disturb only its own child and locals (`Only`, `Foreign`), so
each action is examined for its own driver alone. `VerifierIsRight` then compares two
evaluations: what the verifier recomputes from the receipts, and what the builder did when
it wrote, chunk by chunk (`Vouched`).
For `KeepsThePromise`, the reviews that an accepted verdict rests on (`Rested`) are those of
its records' receipts. Two of them show no common section because a valid manifest has
disjoint chunks, and every section is shown: by the first chunk that does not end before it,
for the chunk before that one does, and the two adjoin (`EverySectionIsShown`). Only an
exclusive write gives a verdict, so each step is one of `RangePromise` or changes nothing it
speaks of (`PromiseStep`).

**Captures.** The invariant of `TransportAttempt` ties together what was written, what is
still in the pipe and what the reader retained (`wrote`, `taken`, `kept`): a reader that met
the end of the output has read all of it, a capture within the limit has dropped nothing,
and whatever ended before that is in `flags`, which every adapter but those that read a
file looks at. It also keeps the answer of kiro's second command true while the third runs.
`NobodySurvives` needs that a flag is never set without the signal that goes with it.

**Only model-checked.** Liveness, which the proof system does not reach: `EveryCallReturns`,
`EveryReviewEnds`, `EveryCommandEnds`, `EveryRangeEnds`, `EveryAttemptReturns`. Every invariant
and every action property of the passing runs, and all three refinements, are theorems.

## 6. Abstractions, and what is not modelled

* Names, prompts, findings and payloads are members of small sets. Digests and markers do
  not collide. Clocks and durations are left out: a deadline is a choice between answers.
* Durability: `fsync` either succeeds or is a fault; loss of power after it, and the fsync of
  directories, are not modelled. Failure to *release* a lock is not either.
* Confinement of paths, symbolic links and permissions (`filesystem.py`), and temporary copies
  of sources, which have one user.
* Half of `attempt.json` written counts as a kill before it: nothing reads that file.
* Response contracts other than findings-json, `seal`, waivers, policies, `--output-file`.
* GitHub deletes nothing and its pages come in order of creation; a force-push that brings a
  head back between two checks cannot be seen by the code and is not distinguished.
* What Git is asked for when a range is frozen, and the bounded capture of what it says;
  that a digest of a manifest or an aggregate is well formed; edits are taken to be signed
  again, as anybody can.
* The evidence files that transports write around a command, the staging of sources for the
  project's codex, and feeding standard input, which a thread does. `terminate_once`'s flag
  and its signal are one step.
* A receipt under the artifact root that cannot be read while the root is fingerprinted or the
  receipt selected (`cli.py:6345-6388`), because of its permissions or because it is a symbolic
  link; and a range review that is asked for with arguments that do not fit.
* Tournaments, the council and explorations (batch jobs of one process over finished
  receipts, or drafts outside the record), configuration, discovery, policies and the
  command line (functions of files and arguments): nothing in them interleaves, and what they
  yield enters the models as constants. See the notes in `PROJECT.json`.

## 7. Plan

Done, in this order: the journal with its lifecycle and proofs; the client on top of it;
publication; identity with proofs; contract, review flow and formal run with its ledger;
range review with the proof of its packing; supervision of transports with proofs; the
composition of snapshot, review, promotion, publication and journal with proofs; the
journal's history and its refinement proved; the formal run and its refinement proved; the
client proved; the range review and its refinement, the reports of a publication, the
usability of a project and the loop of the projection proved.

What is left, most important first:

1. **Campaigns**: the tournament's plan, runs and scores as one resumable job.
2. The two hazards without a property: a listing from which entries are deleted, and the
   diagnostic of a command that loses the race for the state directory.
