# Forge orchestration: TLA+ models and proofs

Forge turns an owner's idea into a built, tested and documented program. A
conversation, or the upload of an existing code base, ends in a locked vision;
from there a loop of stages, each one a call to a language model or a tool,
designs, specifies, builds, tests, reviews, documents and judges the program,
sends it back to the builder up to a cap, and stops at gates for the owner. The
models here are about what is persisted on that way, in which order, and what
holds when requests overlap, writes fail, or the server dies.

Paths below are relative to `code/src/` unless they start with `docs/` or name a
file of the repository root.

## The system

| Component | State it keeps | Operations | Talks to |
| --- | --- | --- | --- |
| Conversation graph (`runtime/orchestration/conversation_graph.js`) | none | transition table, `validateTransition`, `validateGraph` | read by the loop state and by boot checks |
| Loop directory (`loop_state.js`, `iteration_controller.js`, `approval_gates.js`, `runtime/tools/orchestration_tools.js`) | `graph.json`, `conversation_log.jsonl`, `escalation_<ts>.md` | `orchestration.start_loop`, `advance_state`, `respond`, `loop_back`, `abort` | writes through the `fs.*` tools |
| Stage handlers (`ai_os/conversationEngine.js`) | one report per stage, `build_manifest.json`, `best_attempt/` | `confirmIdea` to `finalizeDeliverable`, `respondGate` | the tools; models through `role.invoke`; the built-project harness |
| Materializer (`runtime/orchestration/materializerEngine.js`) | the files of the built project | `materialize` | `fs.write_file`, a smoke run |
| MVP loop (`ai_os/mvpLoopEngine.js` and the MVP branches of the handlers) | the block `mvp_loop` of `project_state.json`, scope, owner feedback and report of a slice | derive scope, enter owner review, accept, refine, re-engage | stage handlers, loop directories |
| Project runtime (`ai_os/projectRuntime.js`, `documentationBuildLoop.js`, `verificationLoop.js`, `ideationEngine.js`) | `project_state.json`, the draft, `execution_package.json` | intake, clarification, options, draft, approval, hand-off, confirmation | providers; the chat and the workspace write the same file |
| Intake and vision (`ai_os/intake_conversation_handler.js`, `runtime/tools/intake_tools.js`, `ai_os/visionEngine.js`) | `source/`, `intake_state.json`, `vision.md` | upload, infer, approve, edit, reject; lock | loops; the idea flow and the checkpoint of the chat lock the same file |
| Knowledge base (`runtime/kb/*`, `runtime/tools/{kb,research}_tools.js`) | a vector store, `sources.jsonl`, `chunks.jsonl`, `citations.jsonl` per project | ingest, search, retrieve, cite, validate, delete | embedding service, web search; `documentProject` |
| Permission layer (`runtime/permission/*`, `runtime/tools/_registry.js`) | mode and active project of the process, pending prompts, the audit log | `authorize`, `checkScope`, request, respond, cancel | every tool call |
| Agent budget (`runtime/agents/{budget_enforcer,cost_ledger}.js`, `providers/_contract/openAiAdapter.js`) | `cost_ledger.jsonl` | check before a call, append after it | `agent.invoke` |
| HTTP server (`workspace/apiServer.js`) | none | one endpoint per handler; no lock, no queue | handlers |
| Process (`ecosystem.config.js`) | none | pm2 restarts the server | everything in memory is lost |

Other parts (containers, environment detection, packages, shell, backup, HTTP
tools, providers, secrets, logging, doctor, the debate protocol, the scenario
runner, the web client) are listed under *Not modelled*.

### What makes it hard

* **Turns.** Node runs one turn of the event loop at a time. The tools use
  synchronous file access, and the awaits between them resolve as microtasks, so
  an `orchestration.*` call is never interleaved with another request. Handlers
  are different: they wait for a model (some raced against a timer of 150 s), a
  test run, an embedding, the web. They test what they depend on *before* that
  wait and rarely after it, so two requests both pass the same guard.
* **Stale saves.** `project_state.json` and `graph.json` are loaded whole and saved
  whole. A handler that waited puts back every field as it was.
* **Cuts.** A tool call is several writes. A write can fail, the server can die
  between two of them, and `fs.writeFileSync` truncates before it writes.
* **Unchecked writes.** Some handlers look at the result of a write and stop;
  others go on regardless.
* **Several flows over one file.** The vision has three writers, the project state
  four, the built project one per slice.
* **Check, wait, book.** Budgets, dedup checks and confirmations are tested in one
  turn and recorded in a later one.

## Modules

| Module | What it is | Composes |
| --- | --- | --- |
| `ConversationGraph` | the constant tables: states, edges, gates, cap | |
| `OrchestrationTools` | one loop's directory and every tool that changes it | `ConversationGraph` |
| `LoopPipeline` | the stage handlers over those tools | `OrchestrationTools` |
| `MvpLoop` | the owner's review loop over the loops of all slices | `OrchestrationTools`, one instance per loop |
| `WriteScope` | the project register of the permission policy under handlers of several projects | |
| `Approval` | what the policy expects of whoever it asks | |
| `Prompter` | the permission prompter | implements `Approval` |
| `AgentCalls` | `agent.invoke`: registry, policy, budget, prompter, ledger | `Prompter` |
| `IntakeVision` | the three flows that write a project's vision | |
| `OwnerPipeline` | `project_state.json` between runtime, chat, documentation loops and workspace | |
| `KnowledgeBase` | the sources of a project and the document that cites them | |
| `...Proofs` | the theorems about the module of that name; those about `Prompter` are in `AgentCallsProofs` | |
| `MC...` | instances for TLC | |

Throughout, an action is one turn of a handler: everything from a request, or
from the end of a wait, to the next wait or the reply, with the order and the
failure of its writes. What a model or the owner answers is a choice of the
shape the code accepts. Variables marked *history* are read by no guard;
`smooth`, `overlapped` and `failed` among them record whether requests have
overlapped or writes have failed, for the properties that hold only otherwise.

### OrchestrationTools

The variable `loop` is the directory: whether `graph.json` is absent, readable or
torn, its `current_state` and `iteration_count`, the last row of the log with the
number of its `LOOP_BACK` rows and whether it has an `ESCALATE` row, and whether
the escalation document exists. The log is kept as that digest, because no
property tells more of it apart.

A call is an operator that yields the *sequence of its writes*, each with the
directory as it is after the write (`Move`, `StartLoop`, `AdvanceState`, `Abort`,
`TriggerEscalation`, `TryAdvanceForLoopBack`, `Respond`). A step replaces the
directory by one of the call's `Outcomes`: completed; stopped after any proper
prefix (`"io"`, `"crash"`); or torn inside a write of `graph.json` (`"torn"`).
A refused call is the empty sequence. `Faults` says which of these happen.

`advance_state` moves to whichever state it is told: it does not consult
`validateTransition`, and neither does the model. Two restrictions are taken
from the callers: a loop is created under a fresh id, and `respondGate`, the only
caller of `orchestration.respond`, has tested that the loop is at the gate's host.

### LoopPipeline

One action per turn of a handler. `calls[c]` says what a call waits for and what
it read before it waited: the build under test or under review, and whether a
build is a rebuild. `Begin` is the first turn of every handler with its guard
(`AtHost`, `Needs`); `CommitSimple` is the later turn of the handlers that write
one report and move the loop; the builder, the test run, the reviews and the
documentation have actions of their own; `GiveUp` is every error return after
the wait; `Crash` forgets the calls in flight. The directory changes only by
`Outcomes` of a tool call. `Checked` names the handlers that stop when the write
of their report fails.

A build is an identity and a quality: 0 does not parse, `MaxQuality` passes the
tests, anything between fails with that score, compared as `_scoreGreater` does.
Identities are reused when nothing refers to them. The histories `tested`,
`approved` and `scores` record which build passed, which was approved, and which
scores test runs found.

Abstractions to know of: the test run is taken to see the files as they were when
the run began; the smoke run always happens; a file write of a build fails as
"part of the new build over the old one", which does not parse; the MVP flag is
off (see `MvpLoop`), and no client calls `orchestration.abort`, for which there is
no endpoint.

### MvpLoop

`mvp` is what `project_state.json` says of the MVP (status, loop, scope, slice
number, mark of failing tests), `orch` the loop directory of every slice, `disk`
the other artifacts of each, `files` the one project directory all slices build
into. A call keeps the block it read (`saved`) and puts it back when it saves:
`StatusAfter` is `assertTransition` of a status read before the wait. `DeriveScope`
and `NextScopes` accept what `validateScope` and `validateNextSliceScope` accept.
`OpenSlice` is the re-engagement: a new loop walked over five states and its
artifacts before the project names it, any of those writes failing
(`Abandoned`). What the reviewers and Gate 1 do to a slice's loop is included as
far as it moves the loop.

Of a specification only its acceptance criteria count, of a build the criteria it
was made for and the number of the owner's request it was given. `PatientClient`
says whether a client refrains from `runTests` while a review is pending: the code
does not stop it (`review_bypassed`), and what holds of patient clients only is
checked with it.

The project directory has three writers. A build that succeeds replaces it
(`FinishBuild`). A build that fails leaves what it wrote (`FailBuild`): nothing, all
of it, or some of the files of the old build and some of the new, which counts as
made for the criteria both were made for (`Mixed`, `Overwritten`). And
`_restoreBestAttempt` puts the kept attempt of the loop over it, after a rebuild that
does not parse (`RejectRebuild`) and when failing tests meet the cap (`Escalated`);
each of its writes may fail unnoticed. `_snapshotBestAttempt` keeps an attempt of a
loop in `best` whenever its tests fail: the first one, and a later one if its score is
better. Scores are left out, so either the old attempt or the new one may be the kept
one (`Snapshots`). A snapshot cut short, or one whose digest does not match, restores
nothing or part, which the failing writes of a restore include. What a model of this
kind cannot see is a file that is missing: a restore that deletes files and then
fails to write others leaves less than any build; "made for" says what the files
present were made for.

No client names another loop than the project's. The handlers take
`body.loop_id || state.loop_id` (`conversationEngine.js` lines 762, 1019, 2242, 2594 and
the other stages), the model always `mvp.loop`. The web interface, the tests and the
scripts of the repository pass on the `loop_id` they were last given. A client that
names an earlier slice's loop, or one an opening has abandoned, is outside the model
and outside every claim made here: a rejected rebuild of an earlier loop, say,
would put an attempt made for a smaller scope over what was accepted since.

### WriteScope

`buildProject` declares its project in the policy's `active_project`, one register
of the process, and clears it in a `finally` block. `Allowed` is what `authorize`
says of a write below some project: the caller's `active_project_id` counts
first, the register otherwise, nothing in `DANGER_FULL_ACCESS`. A build's own
writes carry its id. The moves of loops (`MoveLoop`) carry none, and are therefore
compared with whatever build has the register. `BeginBuild`, `FailBuild` and
`FinishBuild` are the turns of a build, `RefuseBuild` one that enters and leaves
the seam without a wait; `BeginStage` and `FinishStage` stand for the handler of
any other stage. `Restart` loses the register with the process. Of a loop only "a
build is due", "a test run is due" and "elsewhere" are kept.

### Approval, Prompter and AgentCalls

`Approval` says that a question that was put gets one answer, never revised, and
does not stay open; a crash forgets the open ones. `Prompter` is the code: the
pending map, the timers, the promises, and the rows each of the three callbacks
(timer, answer, `cancelAll`) writes before `settle` decides whether it was first.
`A == INSTANCE Approval WITH verdict <- Verdict` is the refinement.

`AgentCalls` puts the prompter behind the policy. `Invoke` is everything from
`registry.invoke` to the first wait: the rules (`Refusal`: vision lock and budget),
then `Authorize` by mode, then either a question or `Execute`. `Resume` runs after
the answer and checks nothing again. `Answer` books the cost of a call when it is
over: nothing for a failed call of an adapter, the reported price for a routed
one. `LegacyCall` is the metering of the older providers, which no policy sees.
The ledger is kept as sums; `since` is what the legacy rows came to at a
project's first row, which is all `_legacySpendSince` uses. A `mock` call that also
names a `provider_id` is a `mock` call here: the only caller that names one,
`reverse_vision_role`, hands the same provider on, and `reverseVisionProvider` then
answers from a table (at a fraction of a cent, which is rounded to nothing). A
caller that passed `mock` to the rule and something else to the module would
escape the budget; there is none. An unreadable ledger
lets a call through, recorded in `blind`.

`PROMPT` mode needs `prompt_respond_surface`, which only the scenario runner
passes to `createPolicy`; the production server starts in a data mode. The
instance checks both.

### IntakeVision

The flows are intake (`StartIntake` to `AskAgain`), idea (`CreateProject` to
`ReturnIdea`) and checkpoint (`BeginExpand` to `CancelCheckpoint`). A `content`
stands for all the owner can see of a vision; every inference, edit and summary
is a new one, `shown` is the one in the last reply of the intake, `ratified` those
the owner has approved. Each handler carries its `ok` choices: which of its
writes succeeded, and which results the code looks at. Vision amendments need
`PROMPT` mode and are out of reach in production.

### OwnerPipeline

`st` holds the fields of `project_state.json` that decide what some handler does.
A call carries in `save` the state it has read, with the changes it knows already;
its later turn saves that over whatever is there. `persistProjectState` of the
workspace is the exception: it reads again. `discovery` combines completeness and
open questions, because a provider may call requirements complete and ask on
("doubtful"), and handlers differ in which of the two they look at. Confirmations
of the runtime and of the chat share one field, with keys as numbers. `goal`
numbers what the owner asked for, so that a package, an approval and the current
goal can be compared.

### KnowledgeBase

A source is recorded in three places (`rows`, `index`, `export`), written in that
order with waits in between. `store` and `handle` are the cached connection and
whether each store object has found the table; a store without one creates it,
in overwrite mode (`Inserted`). A document is the set of its lines that make a
claim. `Search` to `NewResult` are the discovery of a claim that found nothing or
only weak chunks, under the cap on searches and the set of urls of the run;
`Audit` is `kb.validate_citations` with the move it decides. `Unlist` is the rest of a
deletion: the row, the export and the citations, in this order, any of which may
throw and leave out those after it; the one wait between them, for the deletion of
the source's own file, is merged into it. `Crash` may lose an
insert under way or not.

## Runs

| Run | Instance | Shows |
| --- | --- | --- |
| `tools_faulty` | cap 5, all faults | the log brackets the state; no rebuild goes uncharged; escalations are documented and earned; no charge is lost |
| `pipeline_serial` | 1 call, cap 2, 3 qualities, failed writes and crashes | what reaches documentation is the build on disk, tested and approved; reports precede moves; terminal states are final; the handlers implement `ToolSpec` |
| `pipeline_driven` | 1 call, cap 2, 4 qualities, fairness | a driven loop ends; if failing tests end it, it is left with its best failing build |
| `scope_overlap` | 3 projects, 3 operations, each data mode | the register never leaks, is right while builds do not overlap, and hinders only during another project's build |
| `mvp_serial` | 2 criteria, 2 slices, 2 loops, 4 changes, cap 3, patient client, fairness | the owner decides on every slice, sees what they asked for last, learns of failing tests after one silent repair, and is always reached |
| `mvp_faulty` | 3 criteria, 2 slices, 3 loops, 1 change, cap 1, failed and partial writes, one breaking hop, a client that calls anything | accepted criteria stay built, whatever is rebuilt or put back; a slice is opened whole or not at all; rebuilds have their ceiling; the status follows its transitions |
| `agent_calls` | 2 calls, 2 projects, 5 modes, failed and unreadable ledgers, crashes, fairness | prompts are settled once, as audited; nothing runs unauthorised; the overspend is bounded; new projects are not blocked; every call ends |
| `intake_overlap` | 2 calls, 3 contents, 2 loops, failed copies and writes | no loop without a vision; an approval locks what was shown, and it stays |
| `owner_overlap` | 2 calls, 2 goals, 1 key, failed writes | no review or hand-off with questions open; none without approval and package; no confirmation used twice |
| `knowledge_overlap` | 2 calls, a credible and a poor url, 2 lines, 1 search, 2 copies, failed writes and crashes | one row and one copy per url; what is found can be rebuilt; no source is lost; a passed document has one credible record per claim |
| `review_bypassed` | 1 call, no faults | refuted: a pending review holds the loop at `RUN_TESTS` |
| `unratified_lock` | 1 call, no faults | refuted: an inferred vision is locked only after its owner ratified it |

### Bounds

* Cap. The tool run uses the real one, 5. It is compared and counted in
  `TryAdvanceForLoopBack` only, and 2 gives a first build, a rebuild below the cap,
  one at it, and the escalation; 3 leaves room in `mvp_serial` for a silent repair
  and a request in one loop; 1 is enough where only the number of loops matters.
* Qualities. Three separate "does not parse", "fails" and "passes"; the fourth of
  `pipeline_driven` gives two failing scores to choose between.
* Overlap. Two calls are the smallest overlap and the one a double submission
  makes. What the theorems claim they claim for any number.
* Slices. `MVP_MAX_SLICES` is 3 in the code; 2 gives a first and a further slice
  and the refusal of a third. The third loop of `mvp_faulty` is the one an
  abandoned opening uses up, with three criteria a further slice can widen the
  scope and still leave something out. `BreakingHops` says which hop of the walk
  of a new loop may fail: the first one only, as each leaves a loop that no handler
  is ever called for again. The theorems hold for any set of hops.
* Money. A cap of twice the dearest call lets one call in, then two together,
  then none; the total may reach twice the cap.
* Contents, goals and keys count what is new. Three contents give an inference,
  an edit and a summary; two goals a pivot; one key is enough for its second
  use, as a confirmation that comes back brings its key with it.
* Knowledge base. Two copies let a third insert be seen as one too many; the
  search cap of 1 is met by the second claim of a document with two. A deletion
  that fails has made none or two of its three removals (`BrokenRemovals`), that
  is, left the row alone or the citations alone; the theorems cover the third case,
  a row gone before its export.

`owner_overlap` uses the view `Told`, which identifies stages that no guard and no
property tells apart, goals once calls have overlapped, and goals no state holds
any more; `knowledge_overlap` the view `Unfailed`, which forgets the failure flag
after an overlap, when no property asks for it. Symmetry is in the calls (in the
projects and operations, in the criteria), never together with liveness.

Deadlock is checked in `tools_faulty` and `scope_overlap`. Elsewhere the system may
stop: a completed or wedged loop, a client that makes no further request, or a
bound that is reached.

### Fairness

* `Driven` (`pipeline_driven`) and `MvpDriven` (`mvp_serial`). Somebody keeps
  submitting the stage that is due, and answers open gates (weak fairness); a
  stage that is tried for ever does not fail for ever (strong fairness of its
  later turn). The code gives no more: nothing in the server retries on its own.
  One assumption shows a gap in the cap: a rebuild that does not parse is rejected
  without being charged, so the builder must, tried often enough, write something
  that parses.
* `Fairness` (`agent_calls`). A set timer fires; a resolved promise resumes its
  caller; a model call ends, because every adapter has a timeout. No owner is
  assumed to answer.

`OwnerPipeline`, `IntakeVision` and `KnowledgeBase` have no liveness property: what
they wait for is the owner or an external service, and no handler retries.

### Disagreements found

Two runs refute what the documentation says:

* `review_bypassed`: `docs/12_ai_os/24_MVP_LOOP_CONTRACT.md` says the graph stays at
  `RUN_TESTS` while a review is pending. `runTests` holds back its advance only
  while the status is `BUILDING`, so a second test run during the review moves the
  loop to the reviewers, past the owner.
* `unratified_lock`: `docs/10_runtime/20_INTAKE_CONTRACT.md` forbids locking an
  inferred vision before the owner has ratified it. The confirmation of an
  ideation checkpoint locks whatever `vision.md` holds.

Seen while modelling, each visible in the actions, without a run of its own:

* In the loop: Gate 1 opens on arrival at `ENV_REPORT`, before its report;
  loop-backs from the tests and the review are not in the transition table; after
  an architect failure no handler can act on the loop; the write of `spec.json` is
  not checked before the advance; two overlapping calls of one stage can move an
  ended loop on; a build that passed and was sent back is not kept as an attempt,
  so a worse one may be restored at the cap, although the comment before
  `_bestAttemptDir` (`conversationEngine.js:2085`) says that a pass is always best and
  already on disk; a test run that overlaps a rebuild
  snapshots the new files under the old score.
* Between projects: the comments promise that the boundary stays inert for loops;
  a build of another project denies their moves, and the handler reports the move
  as made.
* MVP: a rejected Gate 1 of a further slice leaves the status `SCOPE_DERIVED` on an
  escalated loop; `validateMvpLoopBlock` is not called in production.
* Budget: `max_per_iteration_usd` is read and never compared, although
  `docs/10_runtime/17_AGENT_RUNTIME_CONTRACT.md` defines it; the 80 % warning is
  discarded; neither a search nor a retrieval asks for the knowledge base's
  budget, and its hard ceiling is not enforced.
* Intake: the size cap is checked while files are being written, though the
  contract says none are written; a failed intake leaves `source/` behind, and
  every later upload is refused with `TARGET_NOT_EMPTY`.
* Project runtime: the workspace lets a project in `IDEATION`, or one called
  complete with questions open, through without discovery, against
  `docs/12_ai_os/03_CONVERSATION_LAYER_CONTRACT.md`; a chat pivot that overlaps an
  approval hands off a goal nobody approved; `approveDocumentation` accepts the
  draft of an earlier goal; confirming a runtime operation through the chat loses
  the stage; the documentation build loop writes its draft over one written
  meanwhile; verification saves the state it read before its review; the transition
  table of `runtimeStateManager.js` is consulted by nobody.
* Workspace: `/api/ai-os/decision` and `/api/ai-os/active-project/switch` send the
  result of an async function without awaiting it; two writers of
  `active_project.json` disagree about its fields; listing the projects recomputes
  their documentation and package states.
* Knowledge base: the row of a source is written before its chunks are embedded,
  so a source whose embedding failed is known for good and never found; two first
  ingests both create the table, and the second loses the chunks of the first;
  `kb.validate_citations` goes by line number over all records of the project, so
  the audit of a second document counts the citations of the first, although
  `docs/12_ai_os/22_KNOWLEDGE_BASE_CONTRACT.md` allows no silent bypass; a discovery
  that finds a duplicate counts it as ingested.

## Proofs

Every safety invariant and every action property of a passing run is also a
theorem: it holds for every value of the constants. Most hold for any number of calls
in flight and any faults; where the property itself is about calls that do not
overlap or writes that succeed, a history says so (`overlapped`, `smooth`,
`failed`) and the theorem has no further condition. Two modules have no such
history, and their theorems state the condition as a hypothesis:

| Theorems | Hypotheses |
| --- | --- |
| `LoopPipeline`: `VerifiedDeliverable`, `TerminalStatesFinal` | one call at a time (`OneAtATime`) |
| `LoopPipeline`: `BestFailureKept` | one call at a time, no faults |
| `MvpLoop`: `AcceptedKept`, `FailingAcceptanceMarked`, `RebuildCeiling`, `StatusEdges` | one request at a time |
| `MvpLoop`: `FailingAcceptanceMarked` again | no failed write; any number of requests |
| `MvpLoop`: `SliceWhole` | one request at a time, no torn write |
| `MvpLoop`: `OwnerDecides`, `ChangesReachReview`, `OneSilentRepair` | one request at a time, no faults, a patient client (`Undisturbed`) |

Without their hypotheses these are false, by the behaviours listed under
*Disagreements found* or under *What makes it hard*: two overlapping calls of one
stage move an ended loop on, a stale block is saved over an acceptance, a test run
under a pending review passes its owner. The hypotheses are those of the runs.

### The loop and its handlers

`OrchestrationToolsProofs`: the type invariant (which bounds the persisted counter
by the cap), `AuditBracketsState`, `EscalationEarned`, `LoopBacksCharged` and
`CounterNeverDecreases`. None of the first four is inductive alone. An `ESCALATE`
row with the cap used up needs the counter bounded by the cap; a `LOOP_BACK` row
within its charge needs the row to be written after the charge; and `start_loop`
is harmless only because a directory without a graph is the empty one. `Good` is
their conjunction. The argument has two halves. For each sequence of writes,
every directory it passes through is `Good` and has no smaller counter
(`MoveSound`, `LoopBackSound` and so on, built with `WriteFirst`). And a call that
is cut short leaves one of those directories or a torn one, whatever the sequence
(`OutcomesGood`).

`LoopPipelineProofs`: every step of a handler is one tool call or leaves the loop
alone (`PipelineSpec => ToolSpec`), so the theorems above hold of the pipeline; and
`ReportsPrecedeMoves`. For the latter, what a call in flight has passed must be
part of the invariant: a call waiting in the documentation stage began after the
review report was written, and it is never asked again.

Then one call at a time. `Verified` says in each state of the loop what is known of
the build: from `RUN_TESTS` on the files are those of the manifest, from the review
on they have passed, after it they are approved; and that a waiting call still finds the
loop at the state it was admitted in, and sees the files that are on disk. The
invariant speaks of a readable graph only: a torn one stops every handler. For
`TerminalStatesFinal` nothing more is needed: a call that moves the loop waits at a
state that is not terminal. `Attempts` is for `BestFailureKept`: the kept attempt has the
best failing score among all recorded ones (`Ranked`), and a loop that its tests
escalated has it on disk. A step that neither restores nor scores is `Quiet`.

`MvpLoopProofs` has two invariants. `MvpInv` holds whatever fails and in whatever
order the client calls. A request saves the whole block it read before its wait, so a
waiting request must be known to hold the block that is on file (`Placed`); then
what was accepted lies in the scope of the block, the scope in the build as soon
as one was made for it and in every attempt kept for the loop in use, and
`mvp_scope.json` says what the block says (`BlockOK`). `AcceptedKept` alone is not
inductive. A rebuild covers the scope, and only that the scope covers what was
accepted keeps it. What a restore puts back covers the scope only because the
attempt was kept at a test run, when the files were made for it, and because the scope of a
loop never changes once there is an attempt: an inactive block, whose scope is
still to be derived, has its loop at the test design and nothing kept. And of files
that come from two builds only what both were made for is known, which is why the
build on disk and the kept attempt must both cover the scope (`OverwrittenKeeps`,
`RestoredKeeps`). For the ceiling, the loops charged so
far, with the one in use, are no more than the slice number (`LoopsOK`): counting
only the charged loops is not inductive, as the loop in use may be charged next.
`ReviewInv` adds what holds of an undisturbed review only: each status goes with
certain states of the loop; at its tests a slice has the build with the last
request; a failing run its owner has not seen was charged for; a waiting request
finds the loop where it left it (`Held`). `Walked` is a recursive function; its
recursion is unfolded to a finite solution (`WalkUnfolds`), so that every state of the walk
is known (`WalkedAt`).

One theorem of this module is about overlapping requests. A stale block saved over a
newer one can undo an acceptance, but not leave it without its mark:
`FailuresMarkedOverlapping` holds for any number of requests, because the turn that
signs an acceptance saves the mark with it and any other turn saves a block of another
status (`Saved`), given that a reply is waited for with a block under review
(`Reviewing`). It needs every write to succeed: of two overlapping replies, one to a
passing report and one to a failing report, the second may sign while its save fails,
and TLC finds the mark missing. A crash within a turn counts here as its later writes
failing.

`WriteScopeProofs`: the three properties of `scope_overlap`. `BoundaryArmed` is not
inductive: a second build could take the register. `OneBuild` (without an overlap
no two builds are in flight) closes it; `DeniedByAnother` then follows from
`RegisterOwned`, because a denial needs a register that names somebody else.

`AgentCallsProofs` begins with the prompter: the safety part of `Approval` is
implemented. `PInv` says that a call with a timer or an entry in the map has no
answer yet and no row saying how it ended, so whichever callback comes second
finds nothing to do. `AInv` extends it to the composed system: only `PROMPT` mode
makes a call wait for an answer (`AskingPrompts`, for `RanAuthorized`), and a
project without a row has spent nothing (for `NewProjectUnblocked`).
`OverspendBounded` is inductive with the types: either a step lets a call in, when
the ledger is below the threshold and at most `Cardinality(Calls)` slots can be
under way, or a row replaces a slot that was counted at `MaxCost` (`BoundKept`).

### The flows around it

`OwnerPipelineProofs`: `DiscoveryBeforeDocs`, `HandoffApproved` and `ConfirmedOnce`.
None is inductive about `project_state.json` alone, because a later turn puts an
older state back. `OwnerInv` therefore says the same of the state on file and of
every state a waiting call is going to save (`Sound`, `SoundCall`), in terms that no
other call can take back: approvals and packages only accumulate. What holds
without overlaps only (`Lawful`: a package of an approved goal, a confirmation that
is not used) is kept in a second layer, under `smooth`.

`IntakeVisionProofs`: `LoopHasVision` is inductive with the types. For
`ApprovalLocksReviewed` and `ApprovedVisionKept`, `Settled` ties together the reply
the owner has seen, the inferred vision in `intake_state.json`, `vision.md` and
`source/`, and `InStep` says that what a waiting call of the intake has read is
still so.

`KnowledgeBaseProofs`: `PassedIsCited` holds whatever overlaps, because only one call
cites the document and no line twice (`CitedOnce`). The other three need to know at
every step of a call what it relies on (`Relies`): that the row it appended is the
only trace of its source so far, that a deletion has seen whatever it must take
out of the export, and that the store object it holds has seen the table if there
is one. That a fresh store object exists is a count of those in use
(`FreshIsStore`).

Assumed of the constants: `IterationCap`, `MaxSlices`, `MaxLoops` and the bounds are
natural numbers, `Faults` names faults, `BreakingHops` hops of the walk,
`BrokenRemovals` removals of a deletion, `Calls` is finite where calls are counted,
`Criteria` is finite and not empty, `MaxQuality` is positive, `None` is no project,
inputs, modes and caps have their types, `Credible` urls are urls. Each is an
`ASSUME` of the model that TLC evaluates.

Only model-checked: liveness (`LoopEnds`, `OwnerConsulted`, `CallsAnswered` and the
liveness part of `Approval`), which is out of the prover's reach with `ENABLED`.

## Not modelled

* **Debate protocol.** `runDebate` is called by a check of the doctor only; it
  keeps no state.
* **Roles, adapters, providers.** Prompt building, network calls and the parsing
  of answers; their answers are choices, limited to what the handlers accept.
* **Built-project harness, containers, environment, packages, shell, backup,
  HTTP tools.** Each is one call to an external program, or one archive, without
  state that a later call depends on; their verdicts are choices. The deletion of
  `source/` or a loop by hand, and a restore over a running server, are outside.
* **Pattern rules and hard denials** of the permission policy, path checks of the
  file tools: string matching, which ends a call before anything here.
* **Schemas and envelopes** of the tool registry; the boot checks of the verifier
  registry, doctor, production guards, secrets, logging: pure I/O or start-up.
* **Refinement loop.** `refinementLoopOrchestrator` is called by the scenario
  runner only.
* **Delivery package.** `buildDeliveryPackage` writes `delivery_state`, which no
  modelled handler reads and the project list resets.
* **Memory, wording, layout.** Conversation memory and the text of replies decide
  nothing elsewhere.
* **The web client, tests, spikes, scripts, demos**, which are more than half of
  the repository's lines of code: the models let a client call any handler at any
  time, in `MvpLoop` on the loop the project names and on no other.

`PROJECT.json` maps every definition to the lines it stands for.

## Plan

1. **Proofs.** How the theorems for one call at a time fail with two: the states
   that an overlap of two given stages can still not reach.
2. **Debate verdict** as a function of the positions, checked against its
   definition over bounded inputs.
3. **Permission rules** as a function of tool, mode and path class.
4. **Composition** of `IntakeVision` and `LoopPipeline` over one project directory:
   a rejection deletes the loop a handler is working on.
