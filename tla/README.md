# Verification of the DeepReport runtime

TLA+ modules for the part of FinSight DeepReport++ that decides whether a report may be
trusted: the life of a report task, the orchestrators and the agents they run, the
artifacts a run leaves behind, the rework of sections and the delivery gate, the review
of claims and the package that is delivered. TLC checks the modules on small instances;
TLAPS proves most of the invariants for every value of the constants. All paths below
are relative to the repository root. `RT` is `src/services/report_task_service.py`, `LG`
`src/runtime/langgraph_report_runtime.py`, `RS` `src/runtime/report_run_state.py`, `RM`
`src/runtime/run_manifest.py`, `MO` `src/agents/multi_agent_orchestrator.py`.

## Inventory

| Component | State it keeps | Operations | Correct when |
|---|---|---|---|
| Report lifecycle (RS) | none: functions of `status`, `current_stage`, metadata | resolve, transition, checkpoint restore, delivery readiness | a row always spells one of eleven lifecycles; only legal moves; formal export only on a judged report |
| Report task service (RT) | `ReportTask` row, `metadata_json`, events | create, run, start, retry, cancel, archive, bulk archive, resume, checkpoint retry, restart recovery, node handlers | a running row has an executor and settles; archived is final; nothing moves the row from under the writer |
| Graph runtime (LG) | LangGraph checkpoint per task | invoke, resume, retry from checkpoint, two conditional routes, interrupt for human review | the checkpoint names the node in execution; no agent runs past a blocked gate |
| Run manifest (RM) | `run_manifest.json` | commit, validate | stale exactly when an artifact is not what its dependents were made from |
| Static orchestrator (MO) | phase files, evidence, claims, metrics, dossiers, report | six phases, each resumable | the report is written from the artifacts on disk; a rerun does not mix versions |
| Dynamic orchestrator (MO, `planning_agent.py`) | task graph, blackboard, files of the run | plan, dispatch in order, review before writing, three rework loops, delivery gate | the graph makes sense whatever the planner says; verdicts are of what is there; the run ends |
| Researcher (`deep_researcher_agent.py`, `react_loop.py`, `search_manager.py`) | conversation, observations, hits | tool calls with timeouts and budgets, search over engines, selection and merge | every call is answered; the task ends; the analyst gets the company's own rows |
| Canonical metrics (`canonical_metrics.py`) | raw metrics, tables, `financial_metrics.json`, `canonical_metrics.json` | arbitrate, project on tables, refresh | the best row wins and repeating changes nothing |
| Section verification, repair, gate, plan (`src/evaluation`) | verification, repair, review, gate and plan files | verify, rewrite, clean, review, gate, plan | what is delivered is sound; what is stopped is explained and routed |
| Artifact import (`artifact_importer.py`) | `report_claims`, links, evidence rows | delete and insert again | statuses follow the policy |
| Claim review (`claim_review_service.py`) | review status of claims, `review_records` | approve, reject, edit, regenerate, bulk approve | a decision stays with its claim and is on record |
| Export (`export_service.py`) | package files and `export_manifest.json` | build, write, reuse | the package is whole, grounded and described by its manifest |
| LLM harness, ingestion runs, PromptOps | call records; run rows; prompt versions | one guarded transaction or call each | see *Not modelled* |
| Data sources, retrieval, rendering, charts, quality scores, features, training, frontend | caches, indexes, files | network I/O, scoring, formatting | see *Not modelled* |

How they interact. FastAPI calls the service. Start and retry requests commit the row and
schedule `run_task` in the thread pool; the checkpoint retry runs in the pool itself (a
plain `def` endpoint); reviews and exports are `async` handlers that never await and so
run one at a time on the event loop. `run_task`, `resume_runtime` and
`retry_runtime_checkpoint` enter the graph; each node's handler opens its own transactions
on the row, calls the orchestrator (which writes files and calls back with agent
progress), commits artifact versions and returns a patch, after which LangGraph writes the
checkpoint. The orchestrator is static (phase by phase, one node each) or dynamic (one
node runs the task graph). Sections are verified, repaired and verified again; the
quality node has the report reviewed, passes the gate, writes the plan for a later run,
stores the verdict and validates the manifest; finalize turns the verdict into the task's
outcome. Every import replaces the claims that reviewers decide on and exports carry out.

Hard to test, and so what the properties aim at (each at its line in `PROJECT.json`):
requests and second executors between any two transactions; reads and commits that
overlap; exceptions, timeouts and crashes between a handler's effects and its checkpoint;
abandoned threads whose result is replaced by an empty one; verdicts, gates, phase files,
repair files and plans that survive into a later run; decisions caught between their read
and their commit by an import; figures arbitrated again and again from files the last
arbitration wrote; and dependencies, tool calls and section names that a model makes up.

## Modules

| Module | What it is |
|---|---|
| `ReportLifecycle` | pure operators for RS: table, restore, projection and its inverse, readiness |
| `TaskLifecycle` | abstract specification: what a task promises its consumers |
| `ReportTask` | row, checkpoint, executors and clients; refines `TaskLifecycle` |
| `TaskRowRaces` | the transactions of its requests and background calls with read and commit apart |
| `RunManifest` | pure operators for RM: commit and validation |
| `RunArtifacts` | files, phase files and manifest of the static orchestrator across crashes, retries and runs |
| `TaskGraph` | pure operators: from the planner's plan to the graph that is run |
| `DynamicRun` | one dynamic run on such a graph; extends `TaskGraph` |
| `ReactLoop` | the tool-calling loop |
| `SearchRound` | one search over several engines |
| `DeepResearch` | one task of the researcher: composes `ReactLoop` and `SearchRound` |
| `CanonicalMetrics` | the arbitration of figures along static and dynamic runs |
| `SectionContract` | pure operators: verification, gate, plan and the three vocabularies of section names |
| `SectionRework` | verify, repair, review, gate, plan, run after run; extends `SectionContract` |
| `ClaimPolicy` | pure operators: the statuses an import gives a claim |
| `ReviewDesk` | claim rows between importer and reviewers; extends `ClaimPolicy` |
| `ExportPackage` | packages built from the desk query by query; composes `ReviewDesk` and the readiness rules of `ReportLifecycle` |
| `ClaimRegister` | abstract register of claims, trail and deliveries, which `ExportPackage` implements |
| `*_proofs` | theorems about `ReportTask`, `TaskRowRaces`, `RunArtifacts`, `DynamicRun` (and `TaskGraph`), `DeepResearch` (and `ReactLoop`, `SearchRound`), `SectionRework`, `ExportPackage` (and `ReviewDesk`), `CanonicalMetrics` |
| `MC*` | instances for TLC |

**ReportTask.** `status`, `stage` and `started` are the columns; `gate` and `verdict` the
two results in `metadata_json` that routes and readiness read; `claims` the marks on the
imported claims; `report` the state of the report files; `ckpt` the pending node of the
checkpoint. Each worker has a node (`at`), a `phase` in it and the service call it is in
(`entry`): only `run_task` and the checkpoint retry have an exception handler. A handler
is cut where the code commits a transaction or writes files: *enter*, *work*, *import*,
*leave*; an exception, a crash, a request or another worker may come between any two.
`covered` is a history variable: the stored verdict was computed on the report now on
disk. `Static` chooses the orchestrator. Transactions are atomic here.

**TaskRowRaces.** The event loop and the pool threads open a transaction (`Read`), and
later commit it on what they read (`tx`): `_get_task_for_update` (RT l.1902-1914) is a plain
SELECT, the row has no version, and nothing at commit compares. As the ORM does, a commit
writes only the columns that differ from the values read, so a row may end up with the
status of one transaction and the stage of another. `overwrote` is a history variable: some
commit has written a row that had changed since it was read.

**RunArtifacts.** The content of a file is the record of what was read to make it, so
"the report was written from the evidence on disk" is an equality. Every phase from
normalization on passes through the phases before it: claims, metrics and dossiers are
answered from files whose phase file exists (`memo`), while filings and PDFs are fetched
again and merged into `evidence.json` (`Enriched`), so evidence may grow at each phase,
the writer's included, and a phase may die just after that (`PhaseDies`). A node that
commits does so in a second step, before which it may die (`DieBeforeCommit`), and every
node may be repeated because its checkpoint was not written (`Done`). `RunAgain` is a new
`run_task` on the same output directory.

**TaskGraph, DynamicRun.** A plan maps ids to tasks with any dependencies. `Graph` is what
`normalize_research_plan`, `prepare_dynamic_tasks` and `prepare_collaborative_tasks` make of
it: a lone verifier moved last, missing types added, dependencies on later types dropped,
those between the types added, role agents put between analysis and writing. `DynamicRun`
executes it: `todo` is what the current part still has to execute, `task` the graph task it
is for, `at` the part (tasks, objections, verification, gaps, delivery, files). Every agent
runs in a thread with a timeout; `AgentTimesOut` merges an empty output (`EmptyMerged`) in
place of the result, `AgentFails` ends the run except in the delivery rework. A report is its
number and the claims it was written from, a verdict names the report and claims it saw.

**ReactLoop, SearchRound, DeepResearch.** The model may make any of `Calls`: arguments that do
not parse or are incomplete, tools that were not offered or do not exist. A handler returns,
reports an error, raises, or exceeds its timeout and is abandoned while the next attempt
starts. An exception without a message leaves an empty error text, which the loop takes for
no error (`"silent"`). The search asks engines in order until the budget is spent, drops other companies'
hits, and selects: the best of each key (`Deduped`), reserved ones first (`ReservedHits`), then by rank
under the cap of a source (`Diverse`), then what fills `Topk` (`Selected`). `DeepResearch` runs the round, the search or both, as the
profile says, and merges what they found.

**CanonicalMetrics.** `Winners` is the arbitration, by one key made of source priority, fit of
the period and confidence. It is repeated by the analysis, by `build_canonical_metrics` and
by `prepare_write`, or, in a dynamic run, by the writing of files and the refresh after it;
the first node is chosen in `Init`, so one instance has both kinds of run. The tables are
replaced by a projection of the winners (`Projected`), which is what later arbitrations read.
`given`, `judged` and `seen` are history: what was found, on which evidence it was judged,
which rows took part.

**SectionContract, SectionRework.** A section's text is whether it is sound and what it cites.
A pack says which evidence a section must use and whether its claims are supported. The
contracts (`contracts`) are keyed by the names of `section_contracts.py`: the verification
looks a section up under its own name and so never finds those of the risks and of the
conclusion, and the gate makes one issue of all their blockers, a warning where there is one
or all disclose a boundary (`ContractIssue`).
The files are variables and no run removes one: a run that breaks off (`Rerun` at any node,
`PipelineRaises`) leaves the rest as the next one finds it. Failures travel as names: core
sections in the verification, the names of the plan, and the titles and keywords through
which the plan is read back from the wording of issues (`NamesIn`) and turned into sections
again (`SectionsOf`).

**ReviewDesk, ExportPackage.** A decision reads its claims and commits later; an import, in a
pool thread, may replace all rows in between. A record names a claim by row id without a
foreign key. SQLite, the default, gives a new row one more than the largest id present, so
after an import has deleted the claims of the task their ids may be handed out again;
PostgreSQL counts on, and other tasks may hold the top. `Floors` is what an import may start
from in any of these cases. `born`, not a column, tells two rows with one id apart; a record's
`on` says which row bore the id as it was written. An export queries the claims, then their
links, then evidence and records, each as it is at that moment (`ReadClaims`, `ReadLinks`,
`Assembled`), writes one file per format and the manifest last; imports may fall between any
two of these steps, and the process may die there. A request for the same package and
selection is answered from the files. (The artifact rows of the package, which the digest
covers, are made anew by every import and are not modelled; see *Abstractions*.)

**ClaimRegister.** What readers of the claims may rely on: slots, each with the claim that
holds it and where its review stands, a trail that only grows, deliveries that are the register
of one moment. A recorded word marks every slot that still holds its claim; a claim that has come
to the slot since may get it too, because a record names no more than a row id (`Marked`). Its
steps are atomic. The mapping (`Register` in `ExportPackage`) forgets rows, texts, evidence,
files and everything a handler holds between its read and its commit.

## Runs

Deadlock is checked in `task_single`, `races_overlap`, `sections` and `figures`, where some
step is always possible. Elsewhere it is off because what is modelled comes to an end: a run
or a research task that is over, an archived task, the bound on runs, imports or exports.

| Run | Instance | What it shows |
|---|---|---|
| `task_single` | 1 worker, all operations, static orchestrator | verdict freshness, evidence gate before agents, the row held while writing, no effect skipped, transition table, across exceptions, retries, resumes and crashes |
| `task_plain` | 1 fair worker, plain operations, the other orchestrator | a running row has an executor, settles, and the task implements `TaskLifecycle` |
| `races_overlap` | 2 threads, up to 2 scheduled calls, any overlap (6.1 million states) | until a commit overwrites a changed row one call executes and running rows have one; only such a commit revives an archived row |
| `artifact_reruns` | 2 record batches, 2 drafts, 2 runs | no false alarm, a report made from its inputs, a consistent ready manifest |
| `agents` | 5 plans, both modes, 3 profiles, any earlier summary | order, graph, verdicts and gate of a dynamic run; it ends |
| `round` | 6 calls, 2 steps, 3 tool calls, 2 attempts, 4 engines, 7 hits | the conversation, the round's status, the selection; the task ends |
| `figures` | 5 metrics, 3 market rows, 16 findings | arbitration loses nothing and settles |
| `sections` | 3 sections, 2 evidence ids, any number of runs | soundness, explanation, routing, repair; a run ends |
| `delivery` | 2 claims, 2 imports, 2 records, 2 exports, 1 crash, 1 foreign import, ids reused or not | decisions, records and packages, and that they implement `ClaimRegister` (4.0 million states) |

The bounds. A task is independent of other tasks except for evidence ids, so one is
modelled. One worker is what the service intends; `TaskRowRaces` has two pool
threads beside the event loop, as every race of it is between two transactions, and two
scheduled calls. Claim states stand for no claims,
undecided, approved and mixed claims, which is all the readiness rules tell apart; the clock
has the three values the recovery rule tells apart. In `RunArtifacts` two batches make
evidence grow twice (so an intermediate version exists), two drafts give reports that differ
in text only, two runs give every pair of "file from the earlier run, file from this run".
The plans of `agents` are a good one, one with its dependencies the wrong way round and
two tasks of a type, one that forgets everything but the end, one with a circle, one of a
single task; the profiles are the pairs of rework rounds
the code's profiles have. In `round`
the tool budget is exceeded in the middle of a response, attempts run out, reserved hits and
caps compete for three places, and one engine is unknown. `sections` has one section of
each kind the plan tells apart (found in any wording, in none, in one only); its reviews are
a clean one, a middling one with a remark, one that fails without a word and one with a
blocker. In `delivery` an import can hit every decision between its read and its commit, and every
export between any two of its queries and files; two imports are what it takes to reuse an id. Where there are proofs they remove the bounds.

The properties:

- `CompletedOnFreshVerdict`: a completed task passed the gate on the very report on disk.
- `GateBeforeAgents`: no agent, and no retryable checkpoint, past a missing or blocked gate.
- `WriterHoldsTask`: cancel, archive and retry are refused while the report is written, judged or imported.
  The rewrite by `repair_failed_sections` is not among these: a resume may reach that node on
  a row that does not say running, and the code has no guard there.
- `NoEffectSkipped`: whatever cut a handler off, no node is reached without the report and the
  verdict that the nodes before it leave. Effects come before the checkpoint moves, so a retry
  may repeat them but never leave them out.
- `LifecycleFollowsTable`, `ArchivedIsFinal`: how rows may move.
- `RunningHasExecutor`, `RunSettles`, `ImplementsTaskLifecycle`: running rows settle.
- `OverwritingStartsSecond`, `OverwritingOrphansRow`, `OverwritingRevives`: a second executor, an
  orphaned row and a revived archive are all traced to one cause, a commit that overwrites a row
  it has not read. The guards of the services leave no other way to them. (The shortest
  way to an orphaned row tears the columns twice: a commit leaves status queued beside the stage of
  another; a start that has read this writes the stage alone, onto a row that a call has meanwhile
  made running; and the evidence gate no longer finds it in evidence_checking.)
- `NoFalseAlarm`: as long as the evidence is the committed one, the final validation finds
  the manifest ready, whatever crashed and was repeated.
- `ReportReadItsInputs`: the report at the end was written from the evidence, metrics, claims
  and packs on disk, whichever run made them.
- `ReadyIsConsistent`: a ready manifest vouches for metrics arbitrated from, and packs cut
  from, the evidence on disk. Validation does not compare that: the packs' entry names the
  *committed* evidence while `prepare_write` may have changed the file in between. It holds
  because evidence only grows, so a file equal to the committed one was equal to it all along.
- `PipelineOrder`: nothing is executed while a task of an earlier type is open.
- `BlockedByPlanner`: a run that is stuck is held up by a circle between tasks of one type.
- `NothingLeftOut`: a run its deadline has not cut short has done a task of every type.
- `VerdictIsCurrent`: a verdict is of the report and claims in the files, whichever loop wrote last.
- `DeliveredIsVouchedFor`: the gate lets through only the report the run leaves, which its verifier
  passed; or the verifier gave no verdict and one on another report was found in its place.
- `EveryCallAnswered`: every tool call has its answer before the model is asked again.
- `DegradedExactlyIfTold`: a round the model ends is degraded exactly if some call in it ended in
  an error that has a text.
- `NobodyCrowdedOut`: a source exceeds its cap only if no source below its cap was left out.
- `NoForeignEvidence`: what reaches the analyst as the company's is the company's.
- `NothingBetterLost`, `FiguresSettle`: repeated arbitration loses no better row and changes
  no figure without new findings or evidence.
- `DeliveredIsSound`: what the gate lets through passes verification as it lies on disk, no review
  blocks it, and its contracts have one blocker at most or only such as disclose a boundary.
- `FailureIsExplained`: what it stops has an issue that blocks.
- `FailuresAreRouted`: the plan leads the next run to every failing section (the financial
  analysis excepted, whose title the plan does not recognise: this is how the code is).
- `RepairIsTrue`: the verification after a repair is of the cleaned text, and so is what a repair of
  this run says is left to repair.
- `LastWordCounts`: a claim has the status of its own last record, or the policy's if it has none;
  nothing is inherited from an earlier bearer of its row id.
- `ImplementsRegister`: decisions that read and commit apart, imports in between, crashes and
  exports of many files are, for every reader, single steps of `ClaimRegister`.
- `GroundsTravel`: what is exported as approved carries its own approval, whatever was imported
  between the queries of the export.
- `PackageIsWhole`, `ManifestTellsTheTruth`: packages are complete and, as their manifest is written,
  what it says.
- `RunEnds` (twice), `TaskEnds`: see *Fairness*.

Each has a mutant of the code (`PROJECT.json`) under which TLC finds it violated.

### Where the code and its documents disagree

Each of these runs checks one statement of the repository and TLC finds it violated.

| Run | Property | What happens |
|---|---|---|
| `retry_orphan` | `RunningHasExecutor` | a checkpoint retry restores the row to generating and then meets a blocked evidence gate, which moves rows only from evidence_checking: the graph ends, the row stays running and every request is refused |
| `stale_blame` | `StoppedForCause` | a run with nothing to repair leaves the repair file of the run before, and the gate stops a sound report for it |
| `two_figures` | `WriterUsesCanonical` | `prepare_write` arbitrates again from the raw rows and the projected tables; a row that won from a table the projection leaves out is gone, so the contracts carry another figure than `canonical_metrics.json` |

More of the same kind have no run of their own. Where a property is named it is defined in the
module, and TLC finds it violated as an invariant or property of that module's instance above,
with the constants as they are there unless others are named:

- `resume_runtime` has no exception handler: a resumed run that raises leaves the row running.
  A restart within the hour does too (`CrashRestart` with a recent start).
- A checkpoint retry is accepted while the run is in the graph: two executors on one row, one
  checkpoint and one directory (`SingleExecutor` of `ReportTask`, with two workers). Any other way
  to a second run is refused with "Task {task_id} is already running" (RT l.214).
- As the row is read without a lock, two background calls may read it queued and both execute
  (`SingleExecutor` of `TaskRowRaces`), a call that read it before it was archived moves it on
  afterwards (`ArchivedIsFinal`), although the table gives an archived task no successor (RS l.88),
  and a row may say running with nobody executing (`RunningHasExecutor`).
- A report whose verifier timed out is delivered on the "passed" of an earlier run's summary
  (`DeliveredWasVerified`). The gate's own formula has `verifier_passed` in it (`delivery_gate.py` l.128).
- A tool that was not offered runs with unchecked and unbound arguments, because the handlers of
  all registered tools are passed to the loop (`OnlyOfferedToolsRun`); `docs/architecture.md` l.47-48
  says that agents call only the subset granted to the task.
- A blocked contract of the conclusion or the risks is looked up under another name and fails no
  section, and the gate takes a single blocker for a warning: the report is delivered
  (`DeliveredMeetsContracts`), where README l.299 says that it becomes a draft.
- The history of a claim shows a decision on a deleted one whose row id it got
  (`RecordsNameTheirClaim`); `claim_review_service.py` l.20 speaks of audited decisions.
- An import between the query of the claims and that of their links delivers claims marked as
  supported without their citations (`CitedAsVerified`), where README l.39 promises one version.
- A crash leaves a newer file under an older manifest; when the package is again what that manifest
  says, the export answers with this file, as the digests of the files are not compared
  (`AnswersItsFiles`, with two imports of other tasks and one of this).
- A rerun has rewritten the report while the first run's verdict still opens formal export
  (`DeliverableReportIsJudged`); a task that failed after its gate passed is reviewable and
  is archived by the clean-up (`BulkArchiveSparesDeliverable`).
- A ready manifest vouches for claims drawn before the evidence grew
  (`ReadyClaimsAreCurrent`), and the writer's phase rewrites `evidence.json`
  (`WriterLeavesItsInputs`).
- A section that meets its contract is rewritten because an old plan names it
  (`PassedSectionsKept`; the repair's own summary says it is not).
- Files of formats an export does not select stay from an earlier package; the manifest does
  not list them.
- A timed-out rework of the report merges an empty one over it (`ReportSurvives`), a timed-out
  critic clears its objections (`ObjectionsStand`).
- A handler that raises without a message spoils nothing: the error text is empty, and the round
  ends completed (`react_loop.py` l.119; this is what "told" means in `DegradedExactlyIfTold`).
- A derived net margin competes with the next one like any other row and may stay when its
  inputs change (`RatiosAgree`).

## Fairness

- `ReportTask!FairSpec`: weak fairness of the steps of a worker that has started. Agent calls,
  tools and model calls are bounded by timeouts (MO, `_execute`), so a step ends or raises.
  Nothing is assumed of clients, crashes or the clock; `RunSettles` is checked where no
  process dies.
- `DynamicRun`: weak fairness of `RunStep`, the run's own thread, which includes that a
  timeout fires. No agent need ever return, so `RunEnds` says that the three loops are
  bounded whatever agents do.
- `DeepResearch`: weak fairness of the loop (`LoopStep`), of the search thread (an engine
  fails at its timeout at the latest) and of the steps between them. No handler and no engine
  need return, and the model may go on calling tools as long as it is asked.
- `SectionRework`: weak fairness of a node that has begun. Runs may be broken off and started
  again without end, so `RunEnds` leads from the verification to the end of the run or to a
  new one.

No liveness is claimed in `TaskRowRaces`, where a thread may lose its row again and again, in
`RunArtifacts` and `CanonicalMetrics`, whose nodes may be repeated for ever, nor in
`ExportPackage`, where everything waits for requests.

## Proofs

Each theorem holds for every value of the constants that meets the named assumptions; TLC
evaluates those in the runs.

`ReportTask_proofs`. `TypeCorrect` rests on lemmas that every lifecycle survives its
projection to two columns and that the edges stay in the graph. `ArchivedStays` holds for any
number of executors: every action that writes the row is guarded by a legal transition or by
a lifecycle other than archived, except the agent callback, which writes the stage only. For
one executor (`Single`), `SingleExecutorInvariant` proves `Inductive`, from which
`CompletedIsJudged`, `AgentsAreGated`, `WriterIsSafe`, `NoEffectIsSkipped` and
`TableIsFollowed` follow. Those properties are not inductive alone: that a completed task was
judged needs that the checkpoint is pending at or after finalize (`PendingWhere`), that the
quality node leaves a verdict on the current report (`VerdictStored`) and the evidence node a
gate (`GateStored`); that the writer holds the task needs `StartingRunHoldsTask`. With the
plain operations (`PlainOps`: no checkpoint retry, resume or crash) a second invariant,
`Plain`, says that a running row has its executor, a failed one has none, and where the graph
may end the row runs no more. It gives `RunningHasExecutorHolds`, and it closes the
refinement: `ImplementsTheTable` proves that every step of the detailed task is a step of
`TaskLifecycle` or leaves the lifecycle alone, since no handler then finds a row to restore.
`retry_orphan` shows why `PlainOps` is needed.

`TaskRowRaces_proofs`, for any number of threads and scheduled calls and with any overlap:
`OverwritingStartsSecondHolds`, `OverwritingOrphansRowHolds`, `OverwritingRevivesHolds`. Its
`Inductive` says of every open transaction that it is of the step its owner is at (`OwnStep`) and,
until a commit has overwritten a changed row, that the row fits the step of the one thread that
executes (`RowFits`) and that this thread's transaction has read the row as it is (`ReadsAsIs`):
while somebody executes, the row says running, and no request and no second call moves it then. `TypeCorrect`
adds to the types (`Typed`) that while the transaction of a request is open the bound leaves room for its call.

`RunArtifacts_proofs`. `ArtifactsStayInStep` proves `Inductive`: which manifest entries hold
when the graph reaches a node (`EntriesInStep`), which files a commit will find
(`FilesToCommit`), and between which bounds the evidence has moved since it was committed
(`EvidenceGrows`, `PacksAreCurrent`). `ValidationNeverCriesWolf`,
`ReportIsMadeFromItsInputs` and `ReadyMeansConsistent` are the properties.

`DynamicRun_proofs`, over any plans and profiles. `GraphIsSound`: whatever the plan, in either
mode, the graph has a task of every type, no dependency on itself, on a task that is not there
or against the order of the types, and every task waits, directly or through another, for those
of earlier types. The lemmas follow the stages of `Graph`. It needs `FreshAssumption`: no plan
uses the id that an added task gets. `Skeleton` (the graph stays sound, what was
executed was ready) gives `PipelineOrderHolds` and `BlockedByPlannerHolds`; `Bookkeeping`
relates the part, `todo` and what was written, and gives `NothingLeftOutHolds` and
`VerdictIsCurrentHolds`: a loop that leaves a new report or new claims still has the verifier
last in its `todo`, and a timed-out verifier takes the old verdict away. `Gatekeeping` gives `DeliveredIsVouchedForHolds`,
for any summary an earlier run left and any number of rounds: where the verifier gave no verdict,
the summary that spoke for the report is of an earlier run or, in a profile with more than one
delivery round, of an earlier round. The shipped profiles give 1, 0, 1 and 1
rounds (MO l.122-178); a profile without the key would get two.

`DeepResearch_proofs`. The invariant `Round` (types of the loop, `Dialogue`, `ToldRound`) gives
`EveryCallAnsweredHolds` and `DegradedExactlyIfToldHolds`. `Dialogue` says how many answers the
last response of the model still lacks: as many as calls are pending. The invariant `Evidence`
follows the rows from the tools and engines to the candidates: all of them are rows of the
company asked, once `merge` and the loop have dropped what is not. It gives
`NoForeignEvidenceHolds` and `TypeCorrect`, and needs `AnswersAssumption`, that a tool which was
offered returns rows of the company it was asked for, since the registry binds those tools to
that symbol (`src/src/tools/registry.py` l.230-248, 296-303), and that the others return none, since
evidence is read only from the two keys that the offered ones fill. `NobodyCrowdedOutHolds` needs of
the engines only `SearchAssumption`: ranks number the hits one by one. What the cap let in (`Diverse`) is
kept, and one hit beyond its cap is taken only where all within theirs are in already
(`FairSelection`).

`SectionRework_proofs`. `OfThisRun` says which file is of this run at which node: the
verification of the text on disk, the gate of the verification and the review, the plan of the
gate, what is left to repair of the last repair. From it `DeliveredIsSoundHolds`, `FailureIsExplainedHolds`, `FailuresAreRoutedHolds` and
`RepairIsTrueHolds`, for any sections, drafts, packs, contracts, rewrites and reviews. `TypeCorrect` needs
what the issues of the gate name (`Typed`): sections, parts of the plan or one of four reviews.

`ExportPackage_proofs`, whatever ids imports hand out again and whatever falls between two queries.
`ManifestTellsTheTruthHolds` rests on `Rendered`: a file that is not in
`todo` any more is of the package in progress. `LastWordCountsHolds` rests on `Audited`: that ids
and imports are numbered (`Stores`), that a row a decision has read is the stored one if id and
`born` agree (`OnDesk`), and that a claim that is approved without the policy has a record written
on this very row that approves it (`Explained`); a record is written on the row that bears its id then,
so a row just imported has none. `InHand` says of the claims an export has read that none failed verification, that each was
approved by the policy or by a record on the trail that was written on this very row, which stays
there whatever is imported, and that what it cites is stored; `Complete` that the files are
written from these with all their evidence and records. Both, with `Audited`, are part of
`Delivering`, from which `GroundsTravelHolds` and `PackageIsWholeHolds`. `RegisterIsImplemented`
proves the whole refinement `Spec => Register!Spec`, which has no fairness: `CommitEffect` and
`ImportEffect` say what a commit and an import do to rows and records (the rows a
commit is about are all there or all gone, so no batch is half applied), `ReadyIsWhole` that a package is prepared
only where every claim is approved, `PreparedStays` that no later query changes which claims it is of.
`TypeCorrect`: a link leads to stored evidence (`Linking`), as no decision changes links and
evidence is overwritten but never deleted.

`CanonicalMetrics_proofs`, for any metrics, findings, evidence and tables. That repeating the
arbitration is harmless is not inductive: it needs that the winners of a table replaced by the
projection of the winners are those of the original (`AsIfArbitratedOnce`, proved along any path
of runs in `AsIfArbitratedOnceHolds`), that what is in the files stands for all that was given
(`FilesStandForAll`), that one margin is derived (`OneMargin`) and that no row seen was better
than the one that won (`NoneSeenBetter`). Together they are the invariant `Settled`, from which
`NothingBetterLostHolds` and `FiguresSettleHolds`. `FiguresAssumption` says what
`FiguresTyped` needs of the constants, and the code gives it: what is extracted names its table
(`build_financial_metric_lineage`), and no extraction yields a net margin
(`_structured_evidence_candidates`).

*Bounded runs.* Liveness is out of the provers' reach, but that nothing is gone round for ever
is a safety property once a measure is named, and three modules prove it: a `StepsLeft` that is
a number up to a bound and that every step of the run lowers.

| Theorem | Bound on the steps | What it rests on |
|---|---|---|
| `DynamicRun_proofs!RunsAreBounded` | 12 per task of the graph, 3 per verifier rework, 7 per delivery rework of the profile, and 7 | `Skeleton`, and `Rounds`: no loop is entered past its limit. The critic may be asked about every final answer again (a timed-out review leaves no report), so its rounds count once for each open task; how many agents one rework executes is bounded by what the objections and repairs name (`ReworksAreShort`) |
| `DeepResearch_proofs!TasksAreBounded` | `MaxSteps` + (`MaxToolCalls` + 1)(`MaxAttempts` + 1) + `MaxAttempts` + the engines, and 4 | `Round`: the number of calls in one response of the model does not count, as the loop stops in the middle of a response at the budget |
| `SectionRework_proofs!RunsAreBounded` | 2 per section, and 9 | `Typed`, and `SecondAttempt`: a second answer is asked for only while somebody is to be repaired; every other node is passed once |

They are the part of `RunEnds` and `TaskEnds` that depends on the code's limits, for every value
of the constants; what TLC adds is that some scheduled step is enabled until the run is over.

Every invariant and action property of the passing runs is a theorem, and so is the `TypeOK` of
every module that is run (`TypeCorrect`; for the figures, in `FiguresTyped`), for which no run is needed. Only model-checked:
`RunSettles`, `RunEnds` (twice), `TaskEnds` and the fairness part of `ImplementsTaskLifecycle`,
as the provers have neither ENABLED nor the induction that liveness takes (*Bounded runs* is what
can be proved of `RunEnds` and `TaskEnds`; `RunSettles` has no such measure of its own, since
clients may start the task again and again). Induction over numbers
(a rank, a position in a list of lists) is replaced by the least counterexample (`NatMin`,
`NatInd` in `DeepResearch_proofs`); recursive functions (`At`, `Select`) are proved to exist by
it. No theorem rests on the value of a bound `Max...`: what the assumptions say of them is that
they are numbers.

## Abstractions

- Contents are abstracted to what was read to make them, or to what the decisions tell apart;
  a digest is injective.
- What agents, models, reviewers and sources return is a choice. That a source returns nothing,
  or less, is included: records already in `evidence.json` are merged with, never removed.
- Whether a text is good (numbers, wording, completeness) is one bit per section, chosen freely.
- `metadata_json` is kept to the gate and the verdict, written with the row. That whole
  documents overwrite each other is listed as a hazard without a property.
- Files are read and written atomically; a torn `run_manifest.json` is not modelled.
- `SectionRework` forgets what no later step reads (`ForgetUnread`), to have fewer states.
- An agent that is abandoned does not come back: that its thread may still write files is not
  modelled. A plan with one id twice, which loses a task, is left out.
- An import is one transaction; charts, metrics and trace rows of it are left out.
- An export also queries the artifact rows of the task, and the digest in its manifest covers
  them. They are not modelled, but as every import makes them anew, with their times, packages
  that different imports went into have different digests; in the model they differ in `born`.

## Not modelled

- **PromptOps** and **ingestion runs**: every handler runs on the event loop and is one guarded
  transaction, so no two interleave and nothing survives between them but rows.
- **LLM harness**: a bounded retry around one call, with its record. What it means to callers
  (an agent fails, times out or returns nothing) is in `DynamicRun` and `ReactLoop`.
- **Legacy pipeline** (`_run_task_legacy_pipeline`), taken only where LangGraph is switched off:
  the same handlers in a row, without checkpoints.
- **Data sources, retrieval, quality scores, valuation, rendering, charts, features, training,
  offline scripts, workbench and frontend**: network I/O, text extraction, scoring and
  formatting. They are most of the repository's lines and keep no state between steps that
  the modelled parts rely on, beyond the files modelled above.

Known and left out, as no property of the modules reaches them: dossiers reused by phase file
alone, a restart that recovers only rows an hour old and `started_at` kept over an implicit
retry, an export answered from files that exist but were changed, an edit that sets any review
status, one ensured citation where several are demanded, conflicts of an arbitration that
vanish at the next.

## Plan

Done, in this order: lifecycle, task, abstract task and its proofs; row races; manifest and
artifacts and their proofs; review desk and export; section rework; tool loop, search and
research task; task graph and dynamic run; canonical metrics; the claim register; the proofs of all of these;
both refinements, the first without its fairness. Next, in this order:

1. `metadata_json` as one value in `TaskRowRaces`: what two executors lose of each other's.
2. The abandoned agent that still writes, in `DynamicRun`: its late files against `VerdictIsCurrent`.
