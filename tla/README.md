# ProjectTown: TLA+ specifications

ProjectTown runs *Quests*: a user states a goal, the backend compiles it into a
plan of milestones, and a worker executes one tool action per milestone inside a
workspace, verifies the result, replans when verification fails and asks the user
when it may not go on. Everything a Quest did is kept in SQLite as an event ledger,
so that a Quest survives a crash of the process and can be resumed. Beside this
runtime the backend keeps a kernel for controlled writes of one reviewed file, local
workspace tasks that prepare such writes, two loopback surfaces for a browser, a
settings editor, a ledger of paid model calls, MCP tool sessions and a frozen v0.1
runtime.

This directory specifies the stateful parts of `src/backend/app`. It contains TLA+
modules translated from the code, TLC configurations, and proofs checked by TLAPS.

## 1. The system

### Components, their state and operations

| Component | State | Operations | What makes it hard |
| --- | --- | --- | --- |
| `v1/gateway.py` `ToolGateway` + `tools.py` | none of its own; the `v1_tool_actions` rows and the files of the workspace | `execute` = authorize, hash the file, prepare, reconcile or dispatch, run the tool, observe, commit / fail / mark unknown | a crash or an exception between any two of these steps; several callers of one action; files edited by others |
| `v1/storage.py` `V1Storage` | `v1_events`, the projection `v1_quests`, checkpoints, `v1_leases`, `v1_resource_leases`, `v1_tool_actions`, plan versions, decisions, reviews, model calls and costs | one SQLite transaction each; `append_event` is a compare-and-swap on `state_version` | every caller decides on an earlier read |
| `v1/service.py` `V1QuestService` | thread pool, one worker per submitted task, a heartbeat thread per worker | `start_quest`, `pause_quest`, `resume_quest`, `submit_decision`, `review_artifacts`, `_execute_quest`, `_recover_interrupted` | requests race workers; workers race each other after a lost lease; crash at any point |
| `v1/orchestration.py`, `runtime.py` | none | plan compilation, `replan_plan`, `EventReducer`, `ProgressWatchdog` | pure |
| `v1/verifier.py`, `v1/provenance.py` | evidence, snapshots, frozen manifests, review receipts | verify criteria, scan a workspace, classify where a file came from | reads files that change |
| `v1/model_runtime.py`, `v1/adapters` + `v1_model_*` tables | calls, attempts, token and cost reservations | prepare, dispatch, settle, retry, recover | late answers, retries, unknown outcomes that may have been billed |
| `v1/mcp_adapter.py` | one subprocess, reader thread and queue per call, the set of active sessions | install, call, time out, close, cancel all | timeouts, chatty servers, shutdown racing a call |
| `controlled_write.py`, `controlled_apply.py`, `executable_proposal.py` | create-only authorizations, event files, backups, a lock file beside the target | plan, propose, authorize, apply, reconcile, check, restore | crash between any two files; edits by others |
| `v3_loopback_service.py` | create-only intent and result records, sessions in memory | apply, restore, reconcile under an idempotency key | lost answers, several processes, record capacity |
| `local_workspace_task*.py`, `material_workflow.py` | create-only requests, intents, outputs, receipts, a binding, a handoff | draft, generate, export, recover, hand off | crash between link and unlink and between files; sources edited |
| `local_settings.py`, `provider_secrets.py` | provider file, token file, lock file, revision | start, get, put, close | two processes and a person on the same files |
| legacy `service.py`, `database.py`, `agent.py` | v0 quests and milestones | create, start, run, close | statements that are not one transaction |
| PDF export, retrieval, telemetry, study and release records, API shapes, UI | none, or create-only files written by hand | pure transformations | none of the above |

`PROJECT.json` lists every component with its sources and what is modelled of it,
and under `hazards` the places in this code that are hard to test, each with the
properties that watch it.

### How they interact

* A request thread reads the projection, checks the status, and appends an event at
  the version it read. If another thread appended in between, `append_event` raises
  `state version conflict`. What happens then depends on the place: a request fails,
  `_execute_milestone` returns to the head of the worker's loop, anything outside its
  `try` is an unexpected failure and ends the Quest with `RUNTIME_ERROR`.
* `start_quest` and `resume_quest` submit a task to the pool. The worker claims the
  execution lease in the same transaction that appends `ExecutionAdmitted`; a
  heartbeat renews the lease every third of its lifetime and sets `lease_lost` when it
  cannot, and the worker looks at that flag between its steps.
* The worker calls the gateway for each milestone, under a resource lease on the path
  when it writes; `resume_quest` calls the same gateway for every unresolved action,
  without one. Both depend on the receipt row only.
* A committed action appends `ToolCommitted` to the ledger at whatever version is
  current, which makes everybody else's read stale.
* A Quest whose last verification passed freezes its files, scans the workspace again,
  classifies each file and waits for a review. A discard deletes files after its intent
  is in the ledger; the next start of the service continues it.
* A planning model call reserves tokens and money, is sent under a process-wide lock
  and is settled against the version of the Quest it was made for.
* A workspace task produces the result a controlled write starts from; the loopback
  bridge calls the controlled write kernel on behalf of a browser. They meet only
  through files that are created once.
* At shutdown the lifespan cancels the MCP sessions, drains the workers and closes the
  settings plane; nothing else of those surfaces shares state.

### What makes each component correct

* Gateway: a receipt is settled once and for good; `committed` means the effect took
  place and the ledger says so; `failed` means nothing was left behind; anything else
  is ambiguous, is never repeated blindly, and is eventually settled or shown to the
  user.
* Quest execution: one executor at a time; a tool of a high-risk milestone runs only
  for the attempt that was approved; the recorded usage stays in the budget; a
  completed milestone stays completed and has a committed receipt; an ended Quest stays
  ended; a Quest in execution comes to rest.
* Event ledger: projection = replay of the events, from the start or a checkpoint.
* Artifact review: provenance never claims more than the evidence; retained means
  unchanged since the freeze; deleted only on a recorded decision, and then completely.
* Model calls: settled and held tokens and cost stay within the budget; one accepted
  answer per call; what was billed is counted.
* Controlled write: one effect per authorization, with a backup that can undo it; a
  receipt that tells the truth; every intent settled or shown to a person.
* Workspace tasks: each record is backed by the ones it names; recovery restores what
  can be restored.
* Loopback, settings, sessions, MCP, v0: at most one dispatch per key; no unseen change
  lost; the surface comes up again; every call and every shutdown ends.

## 2. Modules

| Module | What it is |
| --- | --- |
| `ActionReceipts` | The abstract promise of a receipt: opened once, touched only while open, then *done* with exactly one event, or *failed* and never touched. |
| `ToolGateway` | `ToolGateway.execute` with the receipt table, the workspace files, the executors and resume requests that call it, crashes, startup recovery, and edits by other programs. Implements `ActionReceipts` (`ImplementsReceipts`). |
| `QuestExecution` | The life of one Quest: requests, workers, leases, heartbeats, approvals, replanning, final verification, crashes, recovery. |
| `EventLedger` | Append, projection, checkpoint, replay. Extended by `ArtifactReview`. |
| `ArtifactReview` | Freeze, scan, classify, request a review, retain or discard. |
| `ModelCalls` | The ledger of planning calls and the coordinator over it. |
| `ControlledWrite` | The controlled write kernel, its plans, proposals and authorizations. |
| `WorkspaceTasks` | Authoring of one local workspace task up to the handoff. |
| `WorkspaceWrites` | Resource leases and the two steps of `write_file`, several Quests on one path. |
| `LocalSettings`, `LoopbackBridge`, `LoopbackSessions`, `LegacyQuests`, `McpSessions` | One surface each, beside the v1 runtime. |
| `LocalPlanes` | Composes the last five and `WorkspaceWrites`. |
| `...MC` | Instances for TLC. |
| `ToolGateway_proofs`, `QuestExecution_proofs`, `ArtifactReview_proofs`, `ModelCalls_proofs`, `ControlledWrite_proofs`, `WorkspaceTasks_proofs`, `LocalPlanes_proofs`, `WorkspaceWrites_proofs` | Theorems and their proofs. |

Next to some definitions stands a plausible wrong version of them, which no action uses;
`PROJECT.json` names under `mutants` the property that notices the difference.

### `ToolGateway`

`receipt[a]` is the row of action `a` in `v1_tool_actions`: its status, its
`pre_effect_hash`, its result and `committed_event_id`. A file is represented by its
content, so a hash is the content itself, `absent` or `not_file`. `call[c]` is the
control state of thread `c` inside `execute`, with the copy of the row it works on
(`snap`: the code decides on the row that `prepare_action` returned, not on the
current one). The atomic steps are SQLite transactions and single file operations:

| Action | Code |
| --- | --- |
| `Enter` | `_pre_effect_hash`, before the transaction |
| `PrepareFresh`, `PrepareConflict`, `PrepareKnown` | `prepare_action`: insert, conflict, existing row |
| `Reconcile` (`SafeRetry`, `Reconcilable`, `NotSafe`) | `_reconcile` |
| `Dispatch` | `mark_action_dispatched` |
| `ReadTool`, `WriteRefused`, `WriteTool`, `ToolFault` | the tool and `_dispatch`'s exception handlers; a lost response and an exception before the effect |
| `Commit` (`Observed`, `RecordCommit`, `CommitRefused`) | `_write_file_observation` and `commit_action_with_event` |
| `FailAction`, `MarkUnknown` (`Transition`) | `fail_action`, `mark_action_unknown` |
| `ExecutorStart`, `ExecutorReturn` | the call of the gateway in `_execute_milestone` |
| `ResumeBegin`, `ResumeExecute`, `ResumeReturn`, `ResumeNothing` | the reconciliation loop of `resume_quest` |
| `Crash`, `Restart` | process end; `mark_dispatched_actions_unknown` and `ProcessInterrupted` |
| `Edit` | another program writes, removes or replaces a file by a directory |

`ResumeReturn` appends `RecoveryNeedsUser` at the version its request began with
(`since`) and raises when a commit has moved it.

Two history variables record what no row records: how often an action replaced its
file (`effects`), and whether the file held the action's content at some moment since
it was prepared (`landed`).

Abstractions: an action is the only attempt of its milestone; only `ToolCommitted`
events are in `ledger`; the Quest's status is reduced to `mode`; a write is one step
(`WorkspaceWrites` separates the test for an existing file from `os.replace`).

### `QuestExecution`

`q` is the projection: status, pause flag, milestone statuses, plan version, usage,
pending approval. `receipt[m][p]` is the action of milestone `m` as plan version `p`
numbered it: a replan gives every milestone that is not completed a new identifier,
hence a new action; an approval lets the same action run. `fresh[t]` says that nothing
was appended since thread `t` last read; it replaces `state_version`: a
compare-and-swap succeeds exactly when it holds, and every append clears it for
everybody else. Each worker step ends where another thread can interfere: a read
followed by decisions, or one append.

| Actions | Code |
| --- | --- |
| `TakeTask` ... `Baseline` | `_execute_quest` up to the loop, `admit_execution`, `_record_execution_baseline` |
| `Loop`, `Exhaust`, `Pause` | the head of the loop, `_budget_reason`, `BudgetExhausted`, `QuestPaused` |
| `StartMilestone` ... `MilestoneVerified` | `_execute_milestone`, one action per append or read |
| `LoopRead`, `NeedUser`, `StartReplanning`, `PlanRead`, `StorePlan` | the watchdog, `_handle_replan`, `replan_plan`, `store_plan_version` |
| `Finalize` ... `FinalNeedsUser` | `_finalize_quest` |
| `UnexpectedFailure`, `FailQuest`, `Exit` | the outer `except`, `_fail_quest`, the `finally` block |
| `Expire`, `HeartbeatLost` | a stalled process; the heartbeat's `renew_lease` |
| `StartRead` ... `RecoveryCompleted` | `start_quest`, `pause_quest`, `resume_quest`, each split at its reads and appends |
| `Approve`, `Reject`, `Modify` | `submit_decision` and `apply_decision`, one transaction |
| `Crash`, `Restart` | process end; `_recover_interrupted` |

A worker goes on with the receipt the gateway handed it: with one in doubt it records
that (`InDoubt`, `ToolEffectUnknown`) even if another worker has settled the action
meanwhile; a settled one (`After`) never changes again.

A worker whose `lost` flag is set leaves at its next check; between the check and the
next append it may still act, as in the code.

Abstractions: one Quest; the tool is `Prepare` plus an outcome; verification and the
clock are nondeterministic; a resume reconciles the actions whose effect is unknown;
a modified contract compiles to the same milestones; startup recovery is one step
(each of its transactions can be repeated after another crash). Checkpoints, replay
and artifact review are in `ArtifactReview`, resource leases in `WorkspaceWrites`.

### `EventLedger` and `ArtifactReview`

`events` is the sequence of patches, `projection` their result, `checkpoints` the rows
of `v1_checkpoints`; `Version` is the number of events. `ReplayFrom` is a recursive
function, not the projection: `CheckpointsReplay` compares the two.

| Actions | Code |
| --- | --- |
| `WriteFile`, `FinalizeQuest` | committed writes with their observations; final verification |
| `FreezeArtifacts`, `ScanAndClassify`, `RequestReview` | `freeze_artifacts`, `scan_workspace`, `Classify` with its chain of observations, the review request's consistency checks |
| `PauseQuest`, `PauseWorker`, `ResumeQuest`, `LoseLease` | what may come between two of the worker's appends |
| `ReviewArtifacts`, `VerifyItem`, `BeginReview` | `review_artifacts` under `_artifact_review_lock`, file by file |
| `CheckItem`, `UnlinkItem`, `FinalizeDiscard` | the discard loop, one file operation per step |
| `ReadRow`, `StoreCheckpoint` | `save_checkpoint`, whose row is read before it is written |
| `ExternalEdit`, `CrashAndRestart` | other programs; process end and the discards continued at startup |

How the Quest came to its last verification is left to `QuestExecution`.

### `ModelCalls`

`call` and `attempts` are the rows by idempotency key and attempt number, with the cost
reservation of each attempt; `mutex` is `_MODEL_CALL_LOCK`; `billed` records what the
provider really charged. `Submit` to `RecordUnknown` are the coordinator's steps,
`RetryModelCall` is also open to an operator, who does not take the lock; `Outcomes`
is which wire failures and bodies an adapter turns into a known failure, an unknown
outcome or a response; `Advance` moves the Quest's version. `Crash` is a process end and
leaves open attempts as they are (`orphaned`); `RecoverModelCalls` is a step of its own,
which may follow a crash or never come, because nothing in the application calls
`recover_model_calls`. `unusable` are the attempts whose answer was billed and which the
adapter reported as a known failure. Prompts, response schemas and request bodies are
data.

### `ControlledWrite`

`target` is the file with its inode; `plan`, `proposal` and `auth` are the create-only
records; `ledger[o]` is what `_validate_chain` computes from the event files of
operation `o`; `lock` and `debris` are the files a dead process may leave. Each process
takes one step per file operation: `OpenLock`, `Flock`, `CheckApply` / `CheckRestore`,
`EnsureBackup`, `RecordManifest`, `RecordIntent`, `Stage`, `RecordDispatch`, `LastLook`,
`Replace` or `ReplaceFails`, `Observe`, `WriteReceipt`, `ReleaseLock`, and
`HandleFailure` for the exception paths; `Reconcile` settles or flags what another
process left. `Crash` may fall anywhere, `EditTarget` and `EditSources` are other
programs. `_validate_immediate_replace_state` and `os.replace` are two steps, and an edit
may fall between them; the history variable `missed` records the operations it happened
to. The post image is a function (`Compose`) of the content it was computed from.

### `WorkspaceTasks`

A document is the vector of the source versions it was made from, so freshness is a
comparison and generation is the identity on that vector. Every record is published by
link and unlink (`Linked`, `Unlink`; `torn` when a crash falls between them). Requests
go through `PublishRequest`, `PublishIntent`, `PublishOutput`, `PublishReceipt`,
`PublishBinding`; `RecoverAuthoringState` looks at what is there and either repairs
(`RepairReceipt`, `RepairBinding`) or reports `Attention`; `CreateControlledHandoff`
makes the record `controlled_write` starts from. The lock is per process, so two server
processes interleave between files.

### `LocalPlanes` and its parts

The surfaces run in one process and share no state, and each may lose its memory at any
moment; what one does among the others is therefore what it does by itself. A behaviour
of `LocalPlanes` picks one surface at its start (`plane`) and leaves the others at
rest, which keeps the state space the sum of the parts and not their product.

| Module | State and steps |
| --- | --- |
| `WorkspaceWrites` | the lease row, each worker's step in `write_file`, who wrote the file; acquire, retry by a resume without a lease, look, replace, release, lapse, intrusion, crash |
| `LocalSettings` | token file, container lock, provider file, each process' start / put / close split at its file operations, each panel's last revision, a person at the files, also with TOML that breaks the schema |
| `LoopbackBridge` | intent and result records, the kernel's state per operation (a call of `ControlledWrite` in one step), the requests each process serves; replay, reserve, publish, dispatch, answer, kill |
| `LoopbackSessions` | the session table with age and idle time; bootstrap, verify, tick, restart |
| `LegacyQuests` | quest and milestone rows, pool queue, claims; create statement by statement, claim, submit, run, close, crash; statements that fail in a create, after a claim or in a worker |
| `McpSessions` | per call the child process, pipe, queue and deadlines; the list of active sessions and the shutdown that cancels them |

## 3. Runs

Each run takes between a few seconds and about three minutes on two cores.

| Run | Question | Result |
| --- | --- | --- |
| `gateway_exclusive` | Does one executor with one resume at a time keep every promise of a receipt, through two crashes, a lost response and two edits made while the process is down? | `ImplementsReceipts`, `NoBlindRepeat`, `SettlesOrAsks` hold (21,439 states) |
| `gateway_overlap` | What is left when two executors are in the gateway after a lease ran out, with live edits? | `ReceiptLinked`, `CommittedWasOnDisk`, `SettledIsFinal` hold |
| `quest_core` | One client, two milestones, the first high-risk, pauses, a replan, a timeout, a crash | `QuietWhenStopped`, `ApprovedBeforeTool`, `TerminalStays`, `CompletedKept` hold |
| `quest_clients` | Two racing clients and a crash | `OneExecutor` holds |
| `quest_expiry` | A lease expires under its holder: two workers execute at once; a contract is modified | `BudgetKept`, `EvidenceComplete` (completed needs a receipt, no tool before the baseline) hold (952,070 states) |
| `quest_rests` | Does a Quest in execution always come to rest? | `ComesToRest` holds |
| `artifact_review` | Files are frozen, classified, retained or discarded while others edit them and the process crashes | `CheckpointsTrue`, `ProvenanceTrue`, `DeletedOnDecision`, `RetainedAsFrozen`, `DiscardFinishes` hold |
| `model_calls` | Two callers and an operator submit and retry two calls; answers are late, lost, malformed or stale; the process dies and is recovered or not | `BudgetHeld`, `OneAnswer`, `BilledIsCounted`, `CurrentWhenAccepted`, `AttemptsClose` hold (123,665 states) |
| `controlled_write` | Two processes apply, restore and reconcile through a crash or a failed system call and an edit | `OneBackedUpEffect`, `ReceiptTrue`, `RestoreUndoes`, `NeverRefused`, `IntentSettles` hold (316,668 states) |
| `workspace_tasks` | Two processes author one task, one dies, a source is edited | `RecordsHonest`, `ResultGetsBound` hold (453,072 states) |
| `local_planes` | The six surfaces, each by itself | `OneWriter`, `SeenBeforeReplaced`, `EditorReopens`, `TokenServesHolder`, `StartsAgain`, `DispatchedOnce`, `TableFreesUp`, `RunsOnceToAnEnd`, `CallsEnd` hold (412,315 states) |
| `quest_terminal_resumed` | Does an ended Quest stay ended when resumes overlap? | `TerminalStays` is violated: a slow resume revives a Quest that another resume's worker has ended |

### Bounds, and why they are enough

* Gateway: two actions on one path, so that one action's write is the other's
  obstacle; two contents; one refuses to overwrite (`gateway_exclusive`), one reads
  (`gateway_overlap`). Two crashes let recovery itself be interrupted; one fault is
  one lost response or one early exception; each bound is a conjunct of the action
  that uses it up (`MaxCrashes`, `MaxFaults`, `MaxEdits`).
* Quest: two milestones in a chain show readiness, completion and replanning of a
  later milestone; one is enough where the question is about threads. Two workers and
  two clients, because every race here is between two threads; `MaxPauses`,
  `MaxResumes`, `MaxModifies`, `MaxCrashes` and `MaxExpiries` bound the calls and
  failures. `MaxSteps` is small enough to be reached and large enough for a replan.
* Artifact review: two paths, so that a discard can be interrupted halfway and one file
  can be created by the Quest while the other was there before; two review requests;
  one write, edit, crash and pause each, which all pairs of them can combine;
  `MaxEvents` = 8 leaves room for the whole path to a finished discard with a pause
  and a resume, or a crash, on the way.
* Model calls: two keys compete for one token budget and one cost limit; two attempts
  make a retry; usages within and beyond the reservation; version 2 makes answers stale.
* Controlled write: one apply and the restore of it, so that the second operation
  depends on the first one's receipt; two processes, because the lock has two sides;
  one failure is a death, a failed `os.replace` or a failed `fsync`; one edit is enough
  to make every freshness check decide, and to fall between a last look and its
  `os.replace`.
* Workspace tasks: two sources, so that one can be edited that is not the target; two
  keys; one export format (formats differ in rendering only); three calls are a draft,
  a generation and one of recover, export or handoff.
* Local planes: two processes and one panel at the settings; two processes, three keys
  and room for two records at the bridge, so that the capacity is met; one session for
  two tabs; two v0 Quests of three milestones in a pool of one thread; three writers,
  so that a lapsed lease can change hands and the late release can meet a third; one
  MCP caller beside the installer, a queue of one item, one item of tolerated stderr.
* Workers and clients are symmetric in the two-client runs, which check invariants only.
* Deadlock is checked in `local_planes` only: elsewhere a closed Quest, a settled
  operation, or anything nobody calls has no next step.

### Fairness

| Specification | Fair | Why |
| --- | --- | --- |
| `QuestExecution!FairSpec` | pool threads, accepted requests, the restart of a stopped service (weak) | threads run; calling the API, deciding, crashing and expiry are nobody's duty |
| `ToolGateway!FairSpec` | threads, the restart, a resume request (weak) | the client of a paused Quest keeps asking to resume it; `SettlesOrAsks` says that no ambiguous receipt makes all further resumes futile |
| `ModelCalls!FairSpec` | each caller's steps (weak) | the adapter's deadline ends every request; a recovery is nobody's duty |
| `ArtifactReview!FairSpec` | accepted review requests and discard steps, at startup too (weak) | request threads and the startup sequence run |
| `ControlledWrite!FairSpec` | the steps of a running process (weak); `CallReconcile` (strong) | an operator who sees an unsettled intent keeps calling reconcile; a call refused by the lock is not the end of it |
| `WorkspaceTasks!FairSpec` | each process' steps, asking for the state of the task included (weak) | the page reads the state, which runs `recover_authoring_state` |
| `LocalPlanes!Spec` | server steps, the clock, pool threads, MCP calls, the shutdown (weak) | processes run and are started again; no request, person or crash is sure to come |

`quest_rests` assumes `Patient`: a resume is sent only after the old worker has wound
down; otherwise its worker may be refused admission by the lease of the old one and the
Quest stays active. It sets `MaxPauses = 0` because of the lost pause below.
`IntentSettles` exempts two things: processes that collide on the lock for ever, and
`NeedsPerson`, the states in which the code itself gives up (a target that is neither
the old nor the new content, a leftover temporary file, an empty lock file).
`AttemptsClose` exempts the attempts a crash has left open until a recovery closes them.
`ResultGetsBound` exempts `Cause`, the reasons for which recovery asks for a person.

## 4. Proofs

TLAPS checks every proof below to the last leaf; nothing is assumed but the named
assumptions on the constants, which TLC evaluates in every run. The theorems hold for
any number of threads, processes, actions, milestones, paths, keys and writers and for
any value of the bounds. Every safety property and every action property of a passing
run has its theorem; where a run fixes a constant because the property needs it (one
client, no modified contract), the theorem has the same condition as a hypothesis.

Each module proves one inductive invariant, a conjunction of named parts, and derives
the properties from it. A property alone is inductive only in a few places: it speaks of
records, and what keeps the records right is where each thread stands between two of
them.

`ToolGateway_proofs`, from `GatewayAssumption`:

| Theorem | Statement |
| --- | --- |
| `TypeCorrect` | `Spec => []TypeOK` |
| `ReceiptsAreLinked` | `Spec => []ReceiptLinked`: a committed receipt has exactly one `ToolCommitted` event, its own |
| `SettledReceiptsAreFinal` | `Spec => SettledIsFinal`: no step changes a committed or failed receipt |
| `CommittedWritesWereOnDisk` | `Spec => []CommittedWasOnDisk`: a committed write's content was in its file since it was prepared |
| `ReceiptsKeepTheirPromises` | `OneEach => (Spec => ImplementsReceipts)`: the gateway refines `ActionReceipts` |
| `WritesAreNotRepeatedBlindly` | `OneEach /\ ~LiveEdits => (Spec => NoBlindRepeat)` |

`ReceiptLinked` is inductive together with the types. `CommittedWasOnDisk` is not:
`Commit` looks at the file, not at the history, so the invariant adds `FileLanded`
(an action that was prepared and whose file holds its content has landed), which every
action that writes, edits or prepares has to keep: `DiskInv`.

The refinement maps every step of the gateway to a step of `ActionReceipts` or to a
stutter. What could break it is a step that settles a receipt on outdated knowledge, so
`GatewayInv` says what a thread inside `execute` may rely on: `StepInv`, what its row
can be at each of its steps (in particular that a thread about to fail a dispatched
receipt has left nothing behind), and `HeldInv`, that a dispatched receipt is in some
thread's hands and that a file is replaced only between dispatch and settlement. Both
rest on `TurnInv`, one thread at a time inside `execute`, and that is the hypothesis
`OneEach`: no overlap of executors after a lost lease and one resume request at a time.
`gateway_overlap` shows what is left without it, and section 5 has the two resumes.
`NoBlindRepeat` also needs that nobody edits a file between `_reconcile`'s look at it and
the write.

`QuestExecution_proofs`, from `QuestAssumption`:

| Theorem | Statement |
| --- | --- |
| `TypeCorrect` | `Spec => []TypeOK` |
| `BudgetIsKept` | `Spec => []BudgetKept`: the recorded steps and replans stay within the contract |
| `EvidenceIsComplete` | `Spec => []EvidenceComplete`: completed means a committed receipt, and no tool before the baseline |
| `RiskIsApproved` | `Spec => []ApprovedBeforeTool`: a high-risk tool runs only for the attempt that was approved |
| `OneExecutorPerLease` | `Spec => [](expiries = 0 => OneExecutor)`: one worker executes until a lease runs out under its holder |
| `StoppedQuestIsQuiet` | `OneClient => (Spec => []QuietWhenStopped)`: a stopped Quest has no tool running |
| `EndedQuestStaysEnded` | `OneClient => (Spec => TerminalStays)` |
| `CompletedMilestonesStay` | `OneClient /\ MaxModifies = 0 => (Spec => CompletedKept)` |

A worker checks the budget on a projection it read and spends a step or a replan later,
when others may have spent too. `BudgetInv` says why that is safe: as long as a worker's
read is fresh, the decision it holds still fits (`StepFits`, `ReplanFits`), and an
append, by anybody, makes all other reads stale. The type of the plan numbers needs the
budget in turn: `PlanPaid` says that every plan version but the first was paid for by a
replan or a modified contract, and that a worker that may still store a plan has paid in
advance. `DownStale` is needed by `Restart`, which appends without a read. Most actions
spend nothing and come to no decision: `PlainStep` disposes of them once they are shown
to have that shape (`QStep`, `Moved`); the ones that decide go through `DecisionStep`,
the ones that spend, reset or renumber through `SpendingStep`.

`EvidenceInv` adds what a worker is entitled to at each step (`Entitled`): one that is
about to record a milestone as verified holds a committed receipt of it, and one that
is about to run a high-risk tool on a fresh read holds the approval of that very
attempt. No lease is involved: the two theorems are unconditional, for overlapping
workers too, because every append of an overtaken worker fails.

The other four are about who is at work. `LeaseInv`: every executing worker holds the
lease, until one runs out. `SoloInv`: with one client there is at most one task, queued
or taken, and only while the status says so; what the client asked for was granted in a
status in which nobody was at work. It does not mention the lease: a Quest whose lease
lapsed is as quiet after it stopped as any other, as long as a single client drives it.
`OneClient` is needed: two clients refute `TerminalStays` in `quest_terminal_resumed`.
`OpenInv` (the milestone being worked on, or waiting for its approval, is not completed)
gives `CompletedKept`; `MaxModifies = 0` is needed, because a modified contract starts
all milestones again (section 5).

`ArtifactReview_proofs`, from `ReviewAssumption`:

| Theorem | Statement |
| --- | --- |
| `CheckpointsAreTrue` | `Spec => []CheckpointsTrue`: a checkpoint is the state its version had; replaying from it gives the projection |
| `ProvenanceIsTrue` | `Spec => []ProvenanceTrue`: the provenance of an item claims no more than happened |
| `DeletionIsDecided` | `Spec => []DeletedOnDecision`: files are deleted only on a recorded discard, and a discarded Quest has had each of its files dealt with |
| `RetainedFilesAreFrozen` | `Spec => RetainedAsFrozen`: each retained file had its frozen content during the review |

`ReviewInv` follows a file from the freeze to the decision: `TouchInv` says what the
chain of observations shows of outside changes (none, and the chain holds; exactly one,
and it is broken), `ClaimInv` that what was concluded from it was so at the scan,
`FrozenInv` that a frozen file that is gone was unlinked or tampered with, `ThreadInv`
that what a reviewing or discarding thread has not yet ticked off is still in its list,
`PhaseInv` and `LockInv` that no other thread decides meanwhile. `LedgerInv` is the
replay: appending an event appends its patch to every replay that starts earlier. That
is an induction over the events, and the library's induction theorems cannot be used
(their parameter is an operator); it is done by the least counterexample instead, `<`
being well-founded on the naturals (`NatLessThanWellFounded`, `WFMin`).

`ModelCalls_proofs`, from `ModelAssumption`:

| Theorem | Statement |
| --- | --- |
| `ModelTypes` | `Spec => []TypeOK` |
| `CallHasOneAnswer` | `Spec => []OneAnswer`: one open attempt, the latest; one accepted answer, which everyone is given |
| `BilledStaysCounted` | `Spec => []BilledIsCounted`: what was billed stays reserved or settled, but for answers the adapter found unusable |
| `CallersCloseAttempts` | `Spec => [](\A k \in Keys, n \in Numbers : OpenIsAttended(k, n))`: an open attempt is in a caller's hands or was left by a crash |
| `OrphansAreShut` | `Spec => OrphansStay`: a call with an attempt left by a crash is frozen until a recovery |
| `AcceptedWhenCurrent` | `Spec => CurrentWhenAccepted`: an answer is accepted for the version it was asked for |
| `ReservationsHoldBudget` | `Spec => []BudgetHeld`: tokens and money stay within the budget but for reported overruns |

`ModelInv` ties the rows of a call together: attempts without gaps (`NoGap`), an open
attempt is the latest and the call has no winner (`OpenIsLast`), a caller between
preparation and settlement works on an open attempt and no two on the same (`Apart`).
The last two theorems are the safety half of `AttemptsClose`; an orphaned attempt is the
latest of its call, which is why neither a retry nor a settlement can reach that call.
`NoGap` is what makes `COUNT(*)` and `MAX(attempt_number)` agree, on which a retry
relies. For the budget, each step replaces one attempt, or all of them at a recovery, by
attempts that are `Balanced` with them: they use no more, or the more is their overrun.
That the totals are then balanced is a fact about sums over a finite table
(`SumBalance`, `SumGain`), which the same induction by least counterexample gives, over
the cardinalities of the subsets. `RowBudget` is what makes a settlement balanced: an
attempt without an outcome has settled nothing.

`ControlledWrite_proofs`, from `ConstantsAssumption`:

| Theorem | Statement |
| --- | --- |
| `EffectIsSingleAndBackedUp` | `Spec => []OneBackedUpEffect`: an authorization changes the target once, after a backup of the authorized bytes; these are what it destroys, or an edit fell between the last look and `os.replace` |
| `ReceiptsTellTheTruth` | `Spec => []ReceiptTrue`: `COMMITTED` means one `os.replace`, `FAILED_NO_EFFECT` none |
| `RestoresUndoApplies` | `Spec => []RestoreUndoes`: a restore puts back what its apply was authorized to replace, and destroys that apply's result, or an edit fell into the same window |
| `WriterIsNeverRefused` | `Spec => []NeverRefused`: the next event of a writer passes the chain validation |

`WriteInv` has three layers: who holds the lock file (`LockInv`: the present file, by
inode, is held by one process, and a worker's lock file names its operation), what the
records of an operation say together (`OpInv`: order of the events, backup before
effect, effect against receipt), and what a worker knows between two of them (`WorkInv`,
one part per stretch of the write; between the last look and `os.replace` it knows the
authorized content is there only as long as `missed` is false). `OriginInv` adds that a restore was made from a
committed apply.

`WorkspaceTasks_proofs`, from `TasksAssumption`:

| Theorem | Statement |
| --- | --- |
| `RecordsAreHonest` | `Spec => []RecordsHonest`: receipts, bindings and handoffs are backed by what they name |

Records are created once, so nearly everything stays true once it is (`Grows`);
`TaskInv` adds what a process carries between two files (`Asked`, `Requested`) and that
a published output is the one its intent announced (`Published`).

`LocalPlanes_proofs`, from the named assumptions of the surfaces:

| Theorem | Statement |
| --- | --- |
| `BridgeDispatchesOnce` | `BridgeSpec => []DispatchedOnce`: one call of the kernel per key, bounded room for records |
| `TokenFileServesHolder` | `SettingsSpec => []TokenServesHolder` |
| `SavedDocumentsReopen` | `SettingsSpec => []EditorReopens` |
| `PutReplacesWhatWasSeen` | `SettingsSpec => SeenBeforeReplaced` |
| `SurfacesKeepPromises` | `Spec => [](DispatchedOnce /\ TokenServesHolder /\ EditorReopens)`: the composed specification keeps them |
| `LegacyQuestsRunInOrder` | `Spec => [](\A q \in LegacyIds : RanInOrder(q))`: the tools of a v0 Quest run once and in order |
| `McpSessionsLeaveNothing` | `Spec => []LeavesNothing`: no process and no session outlives the application |
| `SessionTableIsBounded` | `Spec => [](Cardinality(sessions) <= MaxSessions)` |

The bridge's invariant is per key (`OneClaim`: whoever got past the create-only intent is
the only one; `CalledOnce`; `ToldRecord`) and, for the capacity, a count of what each
process still owes the record directory (`RoomHeld`): a request that was let in has two records to create, and each
process other than the last one to reserve may have one such request too many. The
settings' is about the token (`TokenInv`: in a container the lock is the holder's,
outside it the token file itself is) and about revisions (`RevisionInv`: a revision
stands for one content; `PutInv`: a put under way edits what its panel saw).

The last three are the safety halves of `RunsOnceToAnEnd`, `CallsEnd` and
`TableFreesUp`. A v0 Quest runs once because a claim accepts planned Quests only and
a claimed one is in line once, with a client or in the pool's queue, until its worker
begins (`LineInv`); the worker then stands at the first milestone that is not completed
(`AtWork`). For MCP, `InPhase` says in which phase of the application who may be in a
call, and `SessionOK` that an outcome ends the requests of a session, so the server can
not run the tool after the fact.

`WorkspaceWrites_proofs`, from `WritesAssumption`:

| Theorem | Statement |
| --- | --- |
| `OneWriterAtATime` | `WritesSpec => []OneWriter`: two workers are inside the write of one file, or one destroys the other's file without being allowed to overwrite, only if one of them was left without its lease |

The worker looks for the file and replaces it two steps later, so what it saw must still
hold: `NothingToLose` says that a file a covered worker is about to replace without
permission was not there when it looked, and only an uncovered worker can have put it
there since. That needs `LeaseHeld`: a worker inside its write that was never left
uncovered is the holder of a live row, hence the only one. `WritesInv` joins the two
with the types and `LossExcused`.

### What the proofs found

* `WriteToken` of the settings plane kept its token when the file already existed; the
  proof of `TokenServesHolder` did not close, and the code refuses there
  (`local_settings.py:352-373`, now `TokenRefused`).
* A COMMITTED receipt is not the mark of one's own `os.replace` when another operation
  was authorized for the same post image: recovery sees the content it expects. The
  run of one apply and its restore is too small for it; `touched`, which `ReceiptTrue` excuses, now
  counts the writes of other operations as it counts those of persons.
* The tables of `OtherOutcome` and `Classify` were CASEs whose guards overlapped, which
  TLC reads from the top and the logic does not; they are chains now, like the code.
* `QuietWhenStopped` was thought to need a lease that does not run out. It does not.

### Only model-checked

The liveness properties, because fairness and ENABLED are outside the prover:
`SettlesOrAsks`, `ComesToRest`, `DiscardFinishes`, `AttemptsClose`, `IntentSettles`,
`ResultGetsBound`, `StartsAgain`, and the liveness halves of `TableFreesUp`,
`RunsOnceToAnEnd` and `CallsEnd`. After a lease has run out under its holder
`OneExecutor` is not claimed at all: two workers then execute at once, as in
`quest_expiry`.

## 5. Disagreements with the repository

One is kept as a run, because the code states the contrary itself:

* `quest_terminal_resumed`: `resume_quest` checks the status once
  (`v1/service.py:437`) and reads the projection twice more without checking it. A
  resume overtaken by another whose worker ends the Quest appends `RecoveryStarted` to
  it. The passing runs check `TerminalStays` with one client.

The others shape the models, and the properties above are stated around them:

* Two resumes of one paused Quest (`v1/service.py:462`): nothing serialises them; both
  find the file absent, both may retry, and the second write replaces the file of the
  first, where `docs/project-development-v2.0.md:208` has one reconciliation.
  `NoBlindRepeat` is therefore checked with one resume at a time.
* A stale before-hash (`v1/gateway.py:455`): prepared, crash, the file is edited,
  resume. The dispatch uses the hash of the first prepare, so the observation's
  before-hash is not the file that was replaced (`docs/architecture.md:35`).
* A read that can not be settled (`v1/gateway.py:251`): a read made ambiguous by a crash
  whose file is gone; `fail_action` does not accept `unknown_effect`, so every resume
  raises, although `v1/service.py:2235` treats reads as repeatable.
* A lost pause (`v1/service.py:1279`): a pause between `ExecutionAdmitted` and the
  baseline makes the worker leave silently; the Quest stays active without one
  (`tests/contract/test_v1_api.py:187-189` expects it to become paused).
* A resume accepted before the old worker has released its lease queues a worker that
  is refused admission, with the same result.
* A modified contract (`v1/service.py:636`) puts completed milestones back to `pending`
  (`docs/architecture.md:19`); `CompletedKept` is checked without modifications.
* An MCP tool whose answer breaks its output schema is reported with the code of
  refused arguments (`v1/mcp_adapter.py:133`), which the gateway counts among
  `KNOWN_NO_EFFECT_ERRORS` (`v1/gateway.py:22`): the tool did run (`misfit`).
* v0: `create_quest` inserts in autocommit mode (`database.py:109`), so a crash or a
  failing insert leaves a plan cut short that later runs and completes (`cut`); a trace
  that fails after `complete_quest` (`service.py:160`) turns a completed Quest into a
  failed one; a claim whose Quest can not be read back (`database.py:216`) is submitted
  by nobody, and nothing recovers a running Quest after a crash (`orphaned`).
* `recover_model_calls` (`v1/storage.py:3157`) has no caller in the application, while
  `docs/project-development-v2.0.md:675` has a call that was dispatched and got no
  response marked `unknown_outcome`. An attempt that is open at a crash stays open, its
  tokens and money reserved and its call neither answered nor retriable. What holds is
  that only a crash leaves one and that such a call is frozen (`AttemptsClose`,
  `orphaned`).
* A planning answer that was executed and billed but that its adapter finds malformed,
  incomplete or refused (`v1/openai_adapter.py:217-239`, `v1/qwen_adapter.py:225-232`) is
  raised as `KnownModelFailure` and settled at nothing; `BilledIsCounted` exempts it
  (`unusable`).
* The controlled write looks at its target and replaces it in two system calls
  (`controlled_write.py:1777-1788`, `2278-2289`): an edit in between is destroyed and is
  in no backup, for a restore as for an apply. `docs/v3-phase-3.md:134-136` says that no
  strict CAS against programs without the lock is claimed; `OneBackedUpEffect` and
  `RestoreUndoes` exempt that window (`missed`) and no other.
* The bridge reserves room for its records under a lock of one process, so each further
  process may overshoot `_MAX_RECORDS` by one request.
* A settings process whose start failed removes its token after giving up the lock and
  may take away the token of the next one (`robbed`).
* An empty lock file or a leftover temporary file of the controlled write kernel needs
  a person.

## 6. Not modelled

* `pdf_export.py`, `retrieval`, the document generation of `material_workflow.py`: pure
  functions of text and layout arithmetic; what they return is a value in the models.
* `evaluation` and the benchmark runner: offline simulations.
* Telemetry: failure-isolated recording that nothing reads back.
* Study, closeout and release records (`phase3e_release_candidate.py`,
  `usability_trials.py` and their kind): validators of immutable records that a person
  runs; no concurrency and no recovery.
* HTTP routes and pydantic shapes, the Godot client and the web pages: the requests they
  send are the actions of the modelled services.
* Schema migrations of `V1Storage`: each runs once, in one transaction, before anything
  is served.
* The older read-only navigation and search of workspace tasks.

Smaller omissions inside modelled components:

* The lock of the controlled write is released in the POSIX order; on Windows the code
  unlocks and closes before it compares and unlinks (`controlled_write.py:670-679`).
* The publication of a new file can be rolled back when its unlink or its last read
  fails (`material_workflow.py:3576-3613`), and a discard can meet a file it can not
  unlink, which ends it until the next start (`v1/service.py:1006`); in the models these
  steps succeed or the process dies.
* An MCP server takes its descendants with it, and writing to its stdin never blocks. In
  the code `_stop` kills the process group only while the leader lives
  (`v1/mcp_adapter.py:643-661`), so a descendant of a server that has exited keeps the
  pipe, and the write (`537-547`) has no deadline. `CallsEnd` holds under these two
  assumptions.
* `gateway_exclusive` has one resume at a time, `artifact_review` one write, and
  `local_planes` one panel and one MCP caller; the theorems cover any number wherever the
  table in section 4 has no hypothesis.

## 7. Plan

1. `PlanDag`: validation against acyclicity, `replan_plan` keeps completed nodes; proved
   with recursive functions and induction by least counterexample.
2. The pending part of gateway and execution: one composition in which the worker's
   milestone step is the gateway's `execute`, with the refinement to `ActionReceipts`
   under the lease of `QuestExecution` instead of `OneEach`.
3. Migrations of the database, and navigation and search of workspace tasks.
