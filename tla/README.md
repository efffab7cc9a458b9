# A formal model of the KimiSwarm research kernel

This directory holds TLA+ specifications of `kdrx`, the durable multi-agent
research kernel under `src/kdrx`, the TLC configurations that check them on small
instances, and TLAPS proofs of the theorems that should hold for every size.

All paths below are relative to the repository root; `store.py` means
`src/kdrx/runtime/store.py`.

## 1. The system

A *run* is a directory with a plan (a DAG of tasks) and its evidence. Its
authoritative state is one SQLite database beside the runs. Any number of
processes open it: `kdr run` and `kdr resume` (each with a pool of threads and one
lease-renewing thread per task), `kdr cancel`, `kdr patch`, `kdr seal`, hooks of the
agents' harness and notification consumers. They share nothing but the database and the files.

| Component | Code | State | Operations | What is hard |
|---|---|---|---|---|
| Task store | `runtime/store.py` | `tasks`, `attempts`, `artifacts`, `runs` (manifest) | `register_tasks`, `claim`, `heartbeat`, `finish`, `reconcile_expired`, `cancel_run`, `transition`, `load_manifest`, `save_manifest` | late, paused and duplicated workers; clocks read before the writer lock; stale manifest objects |
| Plan revisions | `runtime/plan_revisions.py` | `plan_revisions`, rows of affected tasks | `apply_patch`, `descendants`, `receipt_plan_matches` | dropping results that others are built on while schedulers remember them |
| Lease keeper | `runtime/leases.py` | a flag and a thread per lease | `_renew`, `check`, `stop` | loses the lease while the worker goes on |
| Execution kernel | `runner.py`, `application/checkpoints.py`, `application/service.py`, `cli.py` | locals of `execute_plan` | `cmd_run`, `resume_run`, `execute_plan`, `import_plan_into_run` | several kernels on one run, kills between any two transactions |
| Wave scheduler | `scheduler.py` | status and attempts of each task, the futures | `run`, `_run_task` | a scan that reads what threads change; errors of the event sink |
| Model budget | `store.py`, `integrations/model_cli.py`, `application/live.py` | `budgets`, `reservations` | `configure_budget`, `reserve`, `reconcile`, `infer` | settling twice, late or never |
| File projections | `store.py`, `state.py` | `file_projections`, the files | `project`, `flush_projections`, `rebuild_projections`, `write_text` | a crash between replacing a file and acknowledging it |
| Sealing and delivery | `runner.py`, `application/delivery.py`, `cli.py` | the seal and the hashes in the manifest, `delivery-manifest.json` | `cmd_seal`, `cmd_verify`, `seal_delivery`, `verify_snapshot`, `revoke_delivery`, `verify_delivery` | evidence that changes between verification and seal |
| Notifications, coordination | `runtime/notifications.py`, `runtime/blackboard.py` | `subscriptions`, `notifications`, `notification_inbox`, `coordination_*` | `configure`, `publish`, `request_help`, `subscribe`, `claim`, `consume`, `fail`, `enqueue_event` | redelivery, exhausted attempts, queue capacity, patches between claim and effect |
| Resource locks | `runtime/resources.py` | `resource_locks` | `acquire`, `check`, `release` | expiry under an attempt that goes on; fencing |
| Blobs, staging, collection | `runtime/blobs.py`, `runtime/staging.py`, `runtime/maintenance.py` | content-addressed files, attempt directories | `put`, `AttemptWorkspace`, `validate_boundary`, `collect_abandoned` | collecting what an attempt still needs; inputs edited under a worker |
| Migration | `runtime/migrations.py` | backups, imported runs | `migrate_run` | files that change while they are copied; crashes between backup and import |
| Sessions and hooks | `native_hooks.py`, `hooks.py`, `hook_dispatch.py` | `sessions` table, registry file | `bind`, `map_task`, one gate per event | every hook is a process; the file is replaced before the commit |
| DAG compiler, plan gate | `dag.py`, `planner.py` | none | `compile_dag`, `assign_waves`, `plan_gate` | orders of search and layering |
| Evidence and claims | `claims.py`, `corpus.py`, `retrieval.py`, `runner.py` | `claims/`, `evidence/` | `extract_claims`, `search_counterevidence`, `discover_contradiction_pairs`, `compute_standing`, `independence_families` | relations that must be symmetric, thresholds on rounded scores, identifiers built from content |
| Source trust | `verification.py` | the DOI cache | `source_trust_gate`, `DOIResolver.resolve`, `retraction_alerts` | cached answers, outages, retries, changes over rounds |
| Reporting | `reporting.py` | the report | `OutlineCouncil.convene`, `run_report_swarm`, `citation_integrity_gate` | the gate reads what the composers wrote themselves |
| Evaluation, adapters, plugins | `evals.py`, `adapters.py`, `extractors.py`, `analysis.py`, `src/plugins` | files | | no interleaving: from files to files, or from the network to files |

Every operation of the store is one `BEGIN IMMEDIATE` transaction
(`store.py:129`): SQLite serializes them, so one action per operation is exact
for the database. What is not atomic is everything between two transactions of a
process, and files, which are not transactional at all.

What makes the system correct, component by component:

* *store*: a task has one entitled attempt; a lost lease stays lost; what the
  manifest calls completed is committed in the rows, the artifacts and the
  attempt history; a cancellation is final;
* *kernel*: results are only built on committed results, also across patches,
  kills and several kernels; a run reported as succeeded is complete; every call
  returns;
* *scheduler*: nothing that could run is skipped or called blocked; the caller
  never finds a thread still at work;
* *budget*: the provider is never called more often than authorized;
* *outbox*: what is acknowledged is on disk, and tampering is never repaired
  silently;
* *delivery*: an eligible seal belongs to verified evidence of the bound plan, a
  revoked one stays revoked, and nothing else is accepted;
* *coordination*: an effect is committed once, in the plan it was handed out for; a
  request for help is one patch and one message or neither; nothing stays queued
  for ever;
* *locks, workspaces, migration*: an older holder of a lock is refused; the collector
  takes nothing that is named or may still be committed; what is imported is what
  was backed up;
* *sessions*: who is bound is gated by the run, and explicit bindings are not
  replaced by guesses;
* *plans*: the compiler accepts exactly the lists that can be scheduled, and a patch
  invalidates exactly what depends on the change;
* *findings*: support needs independent sources and no contradiction, a disagreement
  counts on both sides, the gate blocks nothing but evidence, and no retraction is
  covered up.

## 2. The modules

| Module | Models | Extends |
|---|---|---|
| `TaskCommit` | abstract: what the store promises about tasks | |
| `TaskLeases` | the task half of the store, and the leases and manifest objects in the hands of processes | |
| `TaskLeasesProofs` | proofs: its invariants, its action properties and the refinement of `TaskCommit` | `TaskLeases` |
| `Kernel` | `execute_plan` and `resume_run` calls on the store | `TaskLeases` |
| `KernelProofs` | proofs: its invariants and its action property | `Kernel`, `TaskLeasesProofs` |
| `ModelBudget` | budgets, reservations and inference threads on the store | `TaskLeases` |
| `ModelBudgetProofs` | proofs: its invariants and its action property | `ModelBudget`, `TaskLeasesProofs` |
| `Exports` | the outbox of files | |
| `WaveScheduler` | one `WaveScheduler.run` call with its pool | |
| `WaveSchedulerProofs` | proofs: its invariants | `WaveScheduler` |
| `Delivery` | verification, seal, revocation and replay of a run, and what consumers accept | |
| `DeliveryProofs` | proofs: its invariants | `Delivery` |
| `Coordination` | messages, help requests, subscriptions and notifications | |
| `CoordinationProofs` | proofs: its invariants and its action property | `Coordination` |
| `ResourceLocks` | exclusive resources of attempts | |
| `Workspaces` | workspaces, blobs, commits of a two-task plan, and the collector | |
| `Migration` | the import of a legacy run | |
| `Sessions` | the session registry and the native hooks | |
| `RuntimeProofs` | proofs: the invariants and action properties of the four above and of the outbox | `Exports`, `ResourceLocks`, `Workspaces`, `Migration`, `Sessions` |
| `PlanGraph` | the compilation of a plan and the closure of a patch | |
| `Standings` | the score and standing of a claim | |
| `Families` | independence families, and the standings that rest on them | `Standings` |
| `Findings` | one research run from documents to the gate on its report | `Standings` |
| `SourceTrust` | the source trust gate with the DOI cache and a changing registry | |
| `Retractions` | rounds of retraction alerts | |
| `ResearchProofs` | proofs: the invariants and the action property of the six above | `PlanGraph`, `Families`, `Findings`, `SourceTrust`, `Retractions` |
| `MCTaskLeases`, `MCResearch`, `MCScheduling`, `MCRuntime`, `MCDelivery`, `MCCoordination` | the instances of the passing runs | |
| `MCKernel`, `MCSessions`, `MCFindings` | instances of violations; `MCKernel` and `MCFindings` are part of passing runs too | |

`MCTaskLeases`, `MCResearch`, `MCScheduling` and `MCRuntime` hold instances of several
components that share no state. A variable `part`, chosen at the start and never
changed, names the one that runs; the others stay in one initial state. The states
of such a run are the sum of its components' states, and each property speaks of
the behaviours of its own component. Nothing is lost by that, since no action of
one reads a variable of another. Where components do interact (the kernel with the
store, the budget with the store, locks and workspaces with leases, hooks with
seals), the interaction is in the module itself. Two of the proof modules cover several
components as well, for the same reason; the theorems are about the specification of one
component each.

A set that the code computes by a loop until nothing is added (the tasks a patch
affects, the blobs that are reachable) or that a walk ends in (the root that `find`
returns) is defined as the least set that is closed, not as a number of rounds: it is
the same set on every instance, TLC evaluates it, and a proof can use it for any size.

### TaskLeases

`task[t]` is the row of `tasks` (status, fence, attempt, lease end, and the attempt
whose result it holds), `attempts[a]` the status in the history,
`artifacts[t]` the attempt whose artifact rows the table holds, `manifest` the
payload of `runs` (revision, status, bound plan, completed and failed lists, and
the receipts: `task_commits` with the hashes). Its `tasks` are those of the bound plan
and its `recorded` those of every plan in `plan_revisions`, which is written in the same
transactions: `register_tasks` names tasks of a plan that was bound, a patch adds only
tasks that no recorded plan names (`plan_revisions.py:136-146`) and affects only tasks of
the old and the new plan, and an import may name any (`runner.py:321-417` does not
consult the history). `leases` are all lease
dictionaries ever returned; a worker is nothing but a lease it may use at any
later time, any number of times, or never, so slow, paused, duplicated and dead
workers need no state of their own. `copy[k]` is the manifest object a process
holds between a load and a save. `ReadBefore` is the clock a transaction compares
with when it was read before the wait for the writer lock (`busy_timeout`).

One action stands for one operation: `RegisterTasks`, `Claim`, `Heartbeat`,
`FinishSuccess`, `FinishFailure`, `ReconcileExpired`, `CancelRun`, `Transition`,
`ApplyPatch`, `LoadManifest`, `SaveStatus`, `ImportPlan` (the last two through
`SaveManifest`). `ApplyPatch` updates the rows it affects whatever their status, as the
code does: a task that a patch removed, that an imported plan names again and that
another patch affects is pending again. `TaskCommit` has the same in the abstract: `Replan`
binds another plan and opens nothing, `Revise` may reopen what the plan names again, and
only in a run that is not `halted`. Events, files, reservations and resource locks written by the
same transactions belong to other modules. Data is abstracted: a result is the
attempt that produced it, a plan its revision number. Integrity errors of files
are refusals and no steps.

### Kernel

`pc[k]` is the main thread of process `k`, `work[k][t]` the progress of its
scheduler with task `t` (one thread per task), `tries`, `held` and `bound` its
memory: attempts made, `leases[task_id]`, and the plan it read. `Crash(k)` forgets
all of it at any point. `Run` is `kdr run`, which takes nothing as done; `Resume`
reads the checkpoint in the steps the code reads it in. The claims, commits and
saves are the actions of `TaskLeases`. Events that find another plan bound
(`Abandon`) end the call. The tasks of its plan stay the same: its patches invalidate, and those
that add or remove tasks, and imports, are in `TaskLeases`. The verification and the seal after the last save are
in `Delivery`.

### ModelBudget, Exports, WaveScheduler

`ModelBudget` follows the thread of each attempt through `infer` (`reserve`, start
of the CLI, `reconcile` in the `finally`) while the store's operations happen
around it; `reconcile_expired` settles reservations in the transaction that
expires their attempts, so it is one action there.

`Exports` gives a file the generation whose bytes it holds, or `Foreign`. A flush
is several actions because files change before its transaction commits; the
writer lock is `flushing`. `AbortFlush` is both an error of an export and the death
of the process.

`WaveScheduler` takes the scan task by task, because pool threads change statuses
under it. `FailTry(t, last)` is an error that allows (`last = FALSE`) or forbids another
attempt, `FailCommitted` a `ProjectionError`, `Disown` any other error of the sink
while `task_succeeded` is recorded.

### Delivery

`manifest` is the part of the payload that a delivery depends on: status, bound
plan, seal and `artifact_hashes`. `delivery` is the delivery manifest the database
holds, `published` the file in the run directory, which may be an older or a
marked one, or one that somebody wrote: no hash protects it (`runner.py:748`). `EditDelivery`
puts any of `Edits` there, an empty file, one that does not parse (`Unreadable`), or any
delivery manifest whose `own` is FALSE, complete or not; `Unmark` and `Revoke` then mark the
edited file, or fail or pass over what they cannot read, as the code does, and `Revoke`
commits it. `own` is history for the properties and is read by nothing else. `disk` is what
the files hold and `projected` what the last commits put there. Sources, spans, claims and report are one content, and `Sound` the contents
that pass the gates that look at nothing else; `ReportOf` tells contents apart that
a hash of the report does not.

The code of a command between two points where others matter is one action:
`Begin` loads the manifest, `Capture` reads the files, `Judge` looks up the
committed tasks, `Compare` hashes the files again, `SaveGate` and `Publish` save,
`Recheck` hashes once more, then `Withdraw` (and `Unmark`, the direct write of
`runner.py:709`) or `HashFiles` and `SaveHashes`; `BeginRevoke` and `Revoke` are
`revoke_delivery`. `mode` tells `kdr seal`, `kdr verify` and the publication of
`execute_plan` apart. `Resume` and `FinishSchedule` frame a schedule, whose tasks
are committed by `Commit`; `Replay` is the early return of `resume_run`. A process
ends at any point (`Crash`) and on every refused save (`Conflict`).

Which saves are refused is what matters. Instead of numbers the module keeps
`latest`, the processes whose manifest is the stored one: a change by anybody empties
the set, or leaves the one who made it. It is `state_revision` without a bound.
Two steps of the code with nothing but such a check between them are merged. The
exports of a transaction are flushed with it: the gap between is the subject of
`Exports`. `Deliverable` is `verify_delivery` for a consumer whom nobody
disturbs. Plan 0 is the first plan, whether scaffolded or imported: an import comes before
the results of a run and leaves the seal alone.

### Coordination

`messages`, `notes` (one per subscription and event), `inbox` and `subscription` are the
tables; `handed` are all deliveries that consumers were ever given, which they may
use at any later time and more than once, and `applied` the effects that were
committed. A claim raises the attempts of a notification and draws a token, so the
attempt number stands for both. `GrantHelp` and `RejectHelp` are `request_help`: the
patch and the message are one transaction, and the same id sent again is answered
from the table. Instants are the time left until them, taken down by the tick; that
keeps the state finite although the run never ends.

### ResourceLocks, Workspaces, Migration

`ResourceLocks` has the rows of `resource_locks`, the leases of attempts they are
capped by, and `bindings`, everything `acquire` ever returned. `check` must refuse
a binding as soon as its resource was taken again.

`Workspaces` follows an attempt from the copy of its input, over its work, the
boundary check and the `put` of its output, to the commit; the lease may be lost at
each point and the worker goes on. `Collect` moves any part of its candidates: which of
them are old enough, and where the process dies, is left open. The plan is one search and one report on it,
the smallest with an input that is a list of blobs. `WorkMentions` is what it assumes of
contents: a list mentions the texts it names with what these mention, and a report
mentions what its list does.

`Migration` reads the files one by one while they are edited, and asks at the end whether
they agree with the hashes the legacy manifest declares; backup and import are steps of their own.

### Sessions

Every hook and every command with a session is a process: `LoadRegistry`, `ListActive`
(the lazy binding), `ReplaceFile` and `CommitSession` (`_mutate_session`, with a crash
between), then `Gate`, the answer of one of the five hooks, and `EndHook`, when the
tool runs. `run` is what the gates read on disk: whether a run is active or sealed,
which results there are, and whether the sealed bytes are intact. `StartHook`
remembers in `bound` whether the session was bound then; that flag is history for
`BoundIsGated` and is read by nothing else.

### PlanGraph

Lists of tasks are sets: roots, dependencies and ready tasks are taken in every
order, which covers every order of the file. `_detect_cycle` goes step by step with its stack;
`assign_waves` counts and releases; `Compile` is `compile_dag` and `plan_gate` on the
result. `PatchCompiled` names what changes, and the two calls of `descendants` spread
it through dependencies and through files.

### Standings, Families, Findings

A score is an integer in units of 1/36000, so that no rounding of the model's own
comes in; the thresholds are the code's. `Families` is the union-find of
`independence_families`, find by find, with dependencies on ids that no record has (`Unknown`),
and then the standing of any claim on any
subset of the sources, all of the lowest or all of the highest quality. `Findings` is the
offline run from the directory to the gate: a sentence is what it is about, its numbers and whether it denies; a document a sequence of
sentences. What is read off regular expressions in the code (numbers, years,
negation, the same words otherwise) is decided on those three. The window that
retrieval takes from a text depends on the objective: any is possible, one for each source.
The quality of a source is 50 for all of them; a dated file scores 55, and no verdict on these
claims depends on the difference. Of the gates on the report only citation integrity is modelled, not the security gate.
`FindingsAssumption` says that texts are finite sequences of such sentences and that the title
of the disclosure ("Unresolved Claims", `reporting.py:785`) is one that asserts, which it does by
`_ASSERTION_RE` (`claims.py:50`). The means of `compute_standing` are sums over the support
(`SumOver`), not over a sequence of it, since their order is nothing the code depends on.

### SourceTrust, Retractions

`SourceTrust` has the registry, which changes, goes down and comes back, the cache with
the day of each entry, and the verification with its retries (same process, same
cache) and restarts (no cache). An answer of the cache that stands in for a registry that is
down is recorded in the verdict by the error together with `from_cache: true`; the flag
`cache_stale` is left out of it when there is an error (`verification.py:609-616`). `stale` in
the model stands for that pair. `lastSaid` remembers when the registry last said
what, for the property. `Retractions` has the rounds of `retraction_alerts` and who calls
them, who keeps the statuses of the last round and what was reported.

## 3. What TLC checks

Six runs pass, six show a violation. Every passing run explores its whole state space.

| Run | Instance | Distinct states | Properties |
|---|---|---|---|
| `task_leases` | store: 2 tasks, 3 attempts, 1 saver, clock to 2, revision to 4, any first plan; budget: the same with ceilings 1 and 2; plans: 1 attempt, no time, revision to 5 | 1.3 M | `LeaseExclusive`, `CommitAgreement`, `LostForever`, `CancelledIsFinal`, `KeepsPromise`; `Balanced`, `CallsWithinCeiling`, `NoRefund` |
| `research` | kernel: 2 kernels, chain of 2 tasks, 2 tries, 2 calls, 1 patch | 1.7 M | `DependenciesCommitted`, `DoneIsCommitted`, `SuccessIsComplete`, `ClaimsAreReady` |
| | plan: 4 ids, up to 4 tasks with 3 dependencies, 4 files, 2 inputs | | `CompilerIsExact`, `AffectedIsClosed` |
| | families: 4 sources and an unknown id, 3 declared dependencies | | `FamiliesAreComponents`, `SupportIsIndependent` |
| | findings: up to 3 documents of 9 texts | | `DisagreementIsMutual`, `OnlyKnownBlocks` |
| | trust: 2 records of one DOI, a cache of 1 day, 3 days | | `ConfirmedOrStale` |
| | retractions: 3 sources, 1 claim, 2 problems | | `InvalidatedIsTold` |
| `scheduling` | kernels: as above with 1 try; waves: chain of 2 tasks and a third, 2 threads, 2 tries, 1 deadline | 0.47 M | `CallsReturn`; `BlockedByFailure`, `CompletedIsClosed`, `RunEnds` |
| `delivery` | 2 processes, 2 contents of which 1 is sound, same report, 1 patch, 3 edits of the delivery manifest | 5.7 M | `CancelledIsRevoked`, `EligibleIsVerified`, `DeliverableIsSealed` |
| `runtime` | outbox: 3 files, 2 processes, 3 generations | 1.1 M | `AcknowledgedIsOnDisk`, `NeverOlder`, `TamperingStaysVisible` |
| | locks: 2 attempts, 2 resources, fences to 3 | | `LocksFenced` |
| | workspaces: 3 attempts, 5 contents, 1 list | | `NamedBytesSurvive`, `InputsAreCommitted` |
| | migration: 2 migrators, 2 files, 2 versions | | `ImportedIsBackedUp` |
| | sessions: 2 sessions, 2 runs, 2 processes at a time, 3 in all | | `BoundIsGated` |
| `coordination` | 2 tasks, 2 consumers, 2 message ids, 2 attempts, plan revisions to 2, queue of 1 | 0.50 M | `CoordTypeOK`, `EffectOnce`, `HelpIsAtomic`, `EffectsInPlan`, `NotificationsEnd` |
| `kernel_checkpoints` | the kernels of `scheduling` | violation | `CheckpointsNotLost` |
| `kernel_cancel` | the kernels of `scheduling` | violation | `NothingPublishedAfterCancel` |
| `delivery_replay` | as `delivery`, no symmetry and no view | violation | `ReplayedIsPublished` |
| `sessions` | the sessions of `runtime`, both runs with the same plan | violation | `ExplicitIsKept` |
| `findings_checkpoint` | the findings of `research` | violation | `RetrievalCommits` |
| `findings_report` | the findings of `research` | violation | `DisclosureSuffices` |

Why the bounds are enough for what the properties say:

* *store*: three attempts at two tasks allow a task to be claimed, lost, and claimed
  again while the other one runs, with the first worker still holding its lease;
  `LeaseTime = 1`, `BusyTime = 1` and a clock of 2 allow an expiry, a decision with an
  old clock, and an expiry of the second lease; revisions to 4 (a run starts at 2)
  allow two manifest changes, so a save by an object loaded before a commit or a
  patch. The behaviours of plans have a third change, so that a patch removes a task, a plan
  that names it is imported and a second patch affects it; TLC reaches the revival of its
  row there. All these properties are also proved without bounds (section 5).
* *kernel*: two calls cover a run beside a run, a resume beside a run and a resume
  after a kill; a chain of two tasks is the shortest plan with a dependency to
  lose. `MaxRevision` and `MaxAttempts` are out of reach there: no behaviour is cut.
* *plan*: four tasks with three dependencies hold every cycle of up to three, two paths
  of different length between two tasks, and dangling ids; two inputs let a change
  spread through a file, through a dependency after a file, and through the plan file.
* *outbox*: three generations let a flush of the first race two later ones.
* *delivery*: two processes let a publication race a verification, another publication
  or a revocation; one patch gives the files and seals of an old plan a new one to be
  mistaken for; two contents with one report allow an edit that the hash of the
  report does not show. The delivery manifest is emptied, damaged or replaced by a complete
  one at any time; an incomplete edited one comes from marking that. `View` identifies states
  that differ only in what nothing reads: a task status short of succeeded and cancelled,
  and what an incomplete delivery manifest names.
* *workspaces*: three attempts are one at each task and one that comes after a patch
  or a lost lease; a forged list and a blank file are the edits that could get into a result.
* *sessions*: a command and two hooks are what it takes to bind, to write from an older copy, and to
  be gated by what is left.
* *families and findings*: four sources have a chain of three links and two pairs;
  three documents have a three-way disagreement, two copies beside a third, and a
  claim in the middle; the nine texts are in `MCFindings`.
* *trust*: three days are longer than an entry of one day lives, and an outage fits in.
* *coordination*: two attempts are one that is lost and one that is the last; a queue of one is full at once.

`MaxTime`, `MaxRevision`, `MaxSessions`, `MaxPlan`, `MaxGeneration`, `MaxTasks`, `MaxDeps`,
`MaxReads`, `MaxDeclared`, `MaxDocuments`, `MaxDay`, `MaxFence`, `WaitTime`, `BusyTime`,
`MaxStarts`, `MaxEvents` and `Edits` are the only bounds of the models; they appear in
guards or initial states and are named as such.

`CHECK_DEADLOCK FALSE` is set where the modelled system really stops: bounded
clocks and revisions in the store, finished calls, compilations, reports and
hooks. `delivery` and `coordination` never stop, and that is checked. Symmetry is
used where ids are interchangeable and no liveness is checked.

### What the runs show, in words

* `LeaseExclusive`, `LostForever`: no order of expiry, takeover, heartbeat,
  cancellation and finish leaves two entitled workers, or one that comes back.
* `CommitAgreement`: a process that saves an old manifest object is always
  refused, so the store's own operations never make the checkpoint and the rows
  disagree. (In `Kernel` they do; see the findings.)
* `CancelledIsFinal`: a cancelled run stays as it is. A row that a patch cancelled in a run
  that goes on comes back in one way: a plan that names the task again is imported (into a run
  that is pending without results), and a patch then affects it. It is pending then, without
  its result, and nobody held a task. The import alone does not bring it back.
* `KeepsPromise`: the store implements `TaskCommit`, with the running attempt of a
  row as the holder, the manifest's receipts as the outcomes, and the tasks it binds as the plan.
* `DependenciesCommitted`, `ClaimsAreReady`: a scheduler acts on memory, but the plan
  revision in `claim` and `assert_lease` makes that memory good enough.
* `CallsWithinCeiling`: although a reservation never looks at the lease, late workers
  cannot overspend, since reserved and spent calls both count.
* `TamperingStaysVisible`: replaying the outbox on every load does not repair files.
* `BlockedByFailure`: the unlocked reads of the scan lose no task.
* `RunEnds`: a call of the scheduler ends and leaves no thread at work, also when
  an error of the sink comes out of a future.
* `CancelledIsRevoked`, `EligibleIsVerified`: a verification loads the manifest before it
  reads anything and `seal_delivery` saves that same object, so what was verified
  still holds when the seal is committed, or the save is refused. The second
  eligible save of `cmd_seal` repeats what its first one established.
* `DeliverableIsSealed`: `delivery-manifest.json` is an ordinary file that anybody may
  write, restore or leave behind, and what it says of itself is believed. It is the seal in
  the manifest of the run that decides: after a revocation, a withdrawal, a cancellation or a
  patch no file brings the delivery back before it is sealed again. Under an eligible
  seal `EligibleIsVerified` holds whatever the file says, and a file that nobody edited is the
  committed one. An edited one may be accepted: under an eligible seal when the
  files it names and the gates pass, and without a seal in a run whose tasks are all committed and
  that nobody published, patched or revoked.
* `EffectOnce`, `EffectsInPlan`: the token and the plan are compared in the transaction
  of the effect, so late, repeated and outdated answers have none.
* `NotificationsEnd`: a consumer that keeps asking also buries what nobody can
  deliver; without a later claim an exhausted notification would stay open.
* `LocksFenced`: the fence grows with every change of hands, so of two bindings of a
  resource at most the newer passes `check`.
* `NamedBytesSurvive`: the collector moves blobs only while no attempt runs, and looks
  for attempts in the transaction in which it moves; that is why a `put` of bytes
  that exist already, which makes them no newer, is not a race.
* `InputsAreCommitted`: a worker reads an editable directory, but the commit compares
  the digests of its inputs with the committed ones again.
* `BoundIsGated`: a stale copy of the registry can add bindings it remembers but not
  remove one, because the table is read again; a crash leaves a file with more than
  the table has, never with less.
* `CompilerIsExact`: verdicts and waves do not depend on the order of the list.
* `AffectedIsClosed`: the second call of `descendants`, for the tasks that read
  `plan.json`, does not have to start from the result of the first: the union of two
  closures is closed.
* `SupportIsIndependent`: a single contradicting edge takes a third of the score and with
  it "supported"; the threshold on families keeps dependent sources from adding up.
* `DisagreementIsMutual`: pairs are entered on both sides.
* `OnlyKnownBlocks`: the gate blocks the report of the swarm for two reasons only. A
  title of a section is a word that asserts ("claims", "reports"), so that the
  transition to it reads like a claim of its own; or a contradicted claim is cited
  with a window whose polarity is another, because a neighbouring sentence in it denies
  something else. Every claim has a section.
* `ConfirmedOrStale`: an expired entry is used only when the registry does not answer, and then
  the verdict says so.
* `InvalidatedIsTold`: the last source to go is the one that reports the claim.

### Findings

1. *A final save erases other kernels' commits from the checkpoint*
   (`kernel_checkpoints`, `runner.py:665`). `execute_plan` ends with
   `manifest.completed_tasks = list(result.completed)`. A second kernel, refused at
   `claim` because the task is taken or done, counts it as failed and overwrites
   the lists, which it has just reloaded, so that the revision check passes. The
   rows stay succeeded; `validate_task_receipts` then refuses every resume
   ("task checkpoint disagrees with committed database results"). Killing nothing
   is needed: `kdr run` twice is enough. `tests/test_recoverable_publication.py:254`
   states the opposite for commits of distinct processes.
2. *A cancellation between the first save and the registration is lost*
   (`kernel_cancel`, `runner.py:491-492`). No row exists yet, `cancel_run` cancels
   none, `register_tasks` inserts them as pending, and nobody looks at the
   manifest's status again: the tasks run and commit. `docs/EXECUTION.md:83` and
   `application/service.py:118` say that nothing can be published after a cancel.
3. *An interrupted publication may only be replayed* (`delivery_replay`,
   `runner.py:894`). `execute_plan` saves SUCCEEDED before the transaction that
   publishes. A process that ends in between leaves a run that `resume_run` should
   finalize (`runner.py:891-892`), but it takes any non-empty
   `delivery-manifest.json` for the publication, and a run that was published
   before a patch has one. The consumer refuses that delivery, whose seal the patch
   revoked; only `kdr seal` gets the run published.
4. *A guess replaces an explicit binding* (`sessions`, `native_hooks.py:317`).
   `resolve_session` decides that a session is unbound from the registry it loaded,
   and binds it lazily in a later transaction that overwrites the run of whatever
   binding the table has by then. If `kdr plan` binds the session to its own run in between, the
   session ends bound to the other one. `native_hooks.py:304-306` says that
   ambiguity is never resolved by a guess. The session stays gated, by the wrong run.
5. *Retrieval cannot load its own evidence* (`findings_checkpoint`, `runner.py:1354`).
   The id of an edge is built from a claim and a span. If a claim contradicts two
   claims that one window supports, or a contradicting text occurs twice among the
   documents or in one of them, two edges have the same id, and
   `checkpoints.py:37-41` refuses the attempt, on every retry. `runner.py:960-964`
   says that identical copies collapse, `verification.py:883` that a three-way
   disagreement is one cluster.
6. *The disclosure of open claims blocks the run* (`findings_report`,
   `reporting.py:721`). An unresolved claim adds the section "Unresolved Claims"; the
   transition before it, "The next section moves from ... to unresolved claims.", is a
   sentence with the word "claims" and without a citation, which the gate takes for
   an unregistered claim. `reporting.py:275-276` says that such claims are
   governed by their disclosure.

### Observations

Met while modelling; no run is about them, and no doc says otherwise unless noted.

* `recompute_standings` (`claims.py:543`) looks for no counterevidence, although its
  docstring says that it mirrors the runner.
* `OutlineCouncil.convene` puts a claim into every elected theme one councillor sees
  it in, not only into its best one.
* Saturation can never stop a retrieval: the unresolved blockers it is given are the
  nodes of the query graph (`runner.py`), which are never none.
* `retraction_alerts` looks at changed sources only: a claim that loses its last good
  support because the *claim* changed is not reported.
* `native_subagent_stop` judges an agent by the first mapped task of its session that
  has a result, whoever made it.
* The DOI cache lives in one process: a resume asks the registry again.
* `cmd_monitor` (`cli.py:1271`) reads, changes and writes its state file without a lock;
  two at a time lose one of the changes. It is left out, since nothing else reads it.
* A plan that is imported after a patch may name a task that the patch removed. Its row stays
  cancelled, and every claim of it is refused ("task unavailable"), until another patch
  invalidates the task.
* A run that was never published is accepted by `verify_delivery` with a delivery manifest
  written by hand, if its gates pass: only an explicit `eligible: false` is refused
  (`delivery.py:238`). What is missing then is the publication, not a verification.
* `claim` and `cancel_run` end an attempt without settling its reservation
  (`store.py:455`): if its process has died, the call stays reserved. It is counted,
  so the ceiling holds, but it is not given back.

## 4. Fairness

Safety specifications have none. `KernelFairness` is weak fairness of each main
thread and of each task thread of a live process: they are threads the operating
system schedules, every wait in them has a timeout (`busy_timeout`, the model
process's deadline) or is for another such thread. Nothing makes an operator
cancel or patch, a lease be renewed, the clock advance or a process die, so
`CallsReturn` does not lean on them. `WaveFairness` assumes the same of its
threads and so that executors return; a wall-clock deadline is not assumed to
pass, and the code does not interrupt an executor when it does.
`CoordFairness` assumes that time passes and that every consumer keeps asking, which
is what a consumer is: a loop around `claim`. It does not assume that a consumer ever
answers. In a run of several components the one at rest has no enabled step, so that
its fairness asks nothing of the others.

## 5. What is proved

Every safety invariant and every action property that a passing run checks is also a
theorem: TLAPS proves it for every value of the constants that meets the assumptions
declared in the modules. These say that sets of tasks, sources and names are finite,
that the values that stand for "none" are not among the others, that limits and instants
are naturals, and what the code guarantees of its data (`WorkMentions`,
`FindingsAssumption`: section 2). The bounds of the models occur in the theorems only as
guards of actions, and are any number.

Each proof has the same shape: an inductive invariant, defined in the module of the component
under "Why it holds", checked by TLC on the instance of the runs before it was proved; a
lemma for the initial states; a lemma for each action; one theorem for the
invariant and one for each property that follows. Type invariants are part of them, and
those that no run checks separately (`TypeOK`, `BudgetTypeOK`, `KernelTypeOK`) hold by
these theorems. What each property needs beyond itself:

**The store** (`TaskLeasesProofs`). `LeaseExclusive` and `CommitAgreement` are not
inductive. A finish preserves `LeaseExclusive` only if the lease it uses belongs to
the row it changes, and a claim only if a fresh attempt occurs in no row and no lease:
`LeaseLog`. `CommitAgreement` survives a save only if a saver that passes the
revision check holds the very manifest that is stored: `RevisionIdentifies`. So
`IInv = TypeOK /\ LeaseLog /\ LeaseExclusive /\ CommitAgreement /\ RevisionIdentifies`
(`Inductive`), from which `TypeCorrect`, `OneOwner` and `CheckpointsAgree` follow, and
`NeverHonouredAgain` (fences and plans only grow, a closed attempt is never current again,
and time passes), `CancellationIsFinal`, and the refinement `StoreKeepsPromise`, which maps each
action to an action of `TaskCommit` or a stutter. A second invariant, `RowsAreRecorded` (`RowsRecorded`),
says that every row is that of a task some recorded plan names: hence what a patch adds
has no row, and a row that a patch brings back is that of a task the bound plan named already, by an
import.

**The kernel** (`KernelProofs`). `DependenciesCommitted` is lost by a commit unless the
task that commits had committed dependencies while it *ran*: `RunningIsReady`. That is kept
by a claim only if what the scheduler remembers as done is committed, which is true
only while the plan it read is the run's: `CallInv`, one conjunct per place of a call
(what it may rely on before it has scheduled, while it does, and when it saves). A patch
moves the plan on, so that nothing is claimed of the calls that read the old one, and it
runs beside no attempt, so that `RunningIsReady` survives. `SuccessIsComplete` needs that the
saver's copy was loaded under the plan it scheduled and that the revision
identifies the manifest. The invariants of the store's own proof are not used except
for `RevisionIdentifies`: `CommitAgreement` is false here (finding 1). The lemmas sort the
transactions of the store by what they conserve, so that each is looked at once and not once
per conjunct. `ClaimsAreOnCommitted` is the action property that carries all of it.

**The scheduler** (`WaveSchedulerProofs`). The scan reads statuses one at a time while
threads change them, so that its intermediate results say nothing -- unless nothing runs:
`NothingIsSkipped` says that a scan with no future sees every status as it is.
`FuturesAreWaitedFor` ties the futures to the threads (a task that has no future has no thread at
work), and `SubmittedWasReady` keeps what was true when a task was submitted, up to
successes that the sink disowned.

**The budget** (`ModelBudgetProofs`). `BudgetIInv = TypeOK /\ BudgetTypeOK /\ Balanced /\ Covered`.
`Covered` (a call is made under a reservation of its own, and the charges fit the ceiling)
carries `BoundedCalls`: the attempts called are among the reserved and spent ones, whose number
`Balanced` ties to the counters.

**The outbox** (`RuntimeProofs`). `ExportsIInv = TypeOK /\ FlushLog /\ AcknowledgedIsOnDisk`.
`FlushLog` says that one flush is open at a time and that the rows it selected are still
the newest: the reason for holding the writer lock over the export.

**The delivery** (`DeliveryProofs`). A save may make a seal eligible only because its process
verified the run earlier. `Informed` says what a process whose manifest is the stored one
still knows at each phase, `Passed` that `cmd_seal` publishes only what passed,
`OneDelivery` that a complete file nobody edited is the committed delivery, and that a run without
a seal has none. The theorems hold for any `Edits` (`EditsAssumption`). Every change of the manifest
empties `latest`, so that only the process that made it has something to show.

**Coordination** (`CoordinationProofs`). `EffectOnce` and `HelpIsAtomic` are nearly
inductive. `HandedOut` says that a delivery names a notification, and that while its plan is
the run's, its consumer's task is in the plan: that gives `EffectsInPlan`. `AskedOnce` and
`OneCause` say that two messages of one request are of one revision, and that a revision has one
cause. The capacity of a queue is a fact about a cardinality, for any capacity.

**Locks** (`RuntimeProofs`). `FenceIsLast`: the fence of a resource is the last that was
given, and it was given to the owner. Hence any two bindings differ, and the older one is refused.

**Workspaces** (`RuntimeProofs`). The collector takes what is not reachable while no attempt
runs. What must be there is therefore what a commit adds (`OneRunner`: a task is run
by one attempt, and its output follows from its input) and what is named already
(`CommittedInOrder`). Lemmas show that the least closed set of named bytes is closed and grows
only by what a commit names; this is where `WorkMentions` is needed.

**Migration and sessions** (`RuntimeProofs`). `ReadIsWhole`: what a migrator keeps is
complete and agrees with itself. For the registry, `ProcessTypeOK` and `OneWriter`: whoever replaced
the file is alone until it commits, and the file holds every session that the table has, also
after a crash between the two.

**Plans** (`ResearchProofs`). The search is exact because its stack is a path (`StackIsPath`) and
because what is finished leads nowhere else and has no cycle (`Explored`): a cycle among the finished
tasks would have to pass through the one that was finished last. When the search ends without a
cycle, everything is finished. The layering counts what is left (`ReleasedAre`), and
the waves of released tasks are the earliest ones; that all tasks are released follows from
acyclicity, applied to the set of those that are not. `SpreadIsNeeded` says that a call of
`descendants` reaches nothing that every closed set would not hold.
Acyclicity is stated over sets (a set whose members all depend on members has no
beginning), never by induction over paths, so that it is in reach of the provers for any list.

**Families and standings** (`ResearchProofs`). That `find` ends in a root, and halving
loses no one, is a fact about walks of any length. It is stated with sets as
well: `IsForest` (a set that holds the parents of its members has a root), and two
equivalences, `Tied` (no set that declared dependencies respect separates two
sources) and `Joined` (no union of whole trees does). Linking two roots and halving a path
keep sources tied to their parents; a pair that was united is joined; and at the end joined
sources have one root. `SupportIsIndependent` needs a bound on a sum over any number of sources.
`SumIsBounded` gets it without induction: the cells under the values of a set are a finite set, whose
cardinality is the sum, and a least counterexample (`WFMin` over the subset order) refutes
a difference. The arithmetic of the thresholds is then left to the SMT solver: one
family takes so much of the independence and the agreement from the score that it stays below, and any
contradicting evidence takes a third of it.

**Findings** (`ResearchProofs`). What a handler wrote stays what its inputs make it
(`FindingsInv`). `DisagreementIsMutual` rests on the symmetry of `Disagree` and on the
counting of distinct identifiers on both sides; `OnlyKnownBlocks` on the gate's own cases:
everything else it looks for was put there by the composers.

**Trust and retractions** (`ResearchProofs`). `EntriesWereSaid`: an entry of the cache says
what the registry has said on its day or later, so that its age bounds the age of the
answer. `RetractionsInv` is `InvalidatedIsTold` at every time, for what the last round saw.

Only model-checked: the liveness properties `CallsReturn`, `RunEnds` and `NotificationsEnd`,
since fairness and ENABLED are out of the prover's reach. The six violations are
counterexamples of TLC, and there is nothing to prove about them.

Writing the proofs changed the models in four ways. `SUBSET S \ {{}}` is
`SUBSET (S \ {{}})`, the subsets with the empty one among them, and where the non-empty ones
were meant there are parentheses now. Overlapping guards of a CASE, which leave the choice to the
reader, became conditions in the code's order (`Relation`, the gates of `Sessions`). Closures and roots became least sets.
The assumptions on constants that TLC never needs were added.

## 6. What is not modelled, and the plan

Left out for good: ranking, fetching and parsing of documents, web adapters, wording of
reports, schemas, the analysis of tables, the evaluation harness, argument parsing,
plugins and scripts. They compute from files to files in one thread, keep no state that
another process changes, and have no order of events to get wrong. The contents of
provider answers, and wall-clock durations beyond the comparison of an instant with a clock,
are left out too; so are checks that only advise, since nothing depends on them.

Left out of modelled parts: the integrity checks of a patch's content and of files read
by the store (refusals and no steps); the stop of a running model process when its
lease is lost; which file system links a workspace refuses; the deliveries table, which only
the collector reads. Known gaps of what is modelled, listed as hazards without a
property: a resume that hashes files against a manifest another kernel has moved on
from (it reports tampering that never happened and is refused, so nothing wrong is
committed), and a directory that changes between the hashing of `cmd_seal` and its save
(the sealed hashes then refuse the delivery).

Done, in this order: the store and its promise, the kernel, the budget, the outbox, the
scheduler, the delivery; then coordination, locks, workspaces, migration, sessions,
the plan compiler, standings and families, findings, source trust and retractions.

Proved, in this order: the store with its refinement, the budget, the outbox and the delivery; then the
kernel, the scheduler, coordination, locks, workspaces, migration, sessions, plans, families,
standings, findings, trust and retractions.

Next, in this order:

1. An abstract mutex with expiry that `ResourceLocks` implements, and an at-most-once effect
   that `Coordination` implements, with the refinements proved.
2. The kernel as an implementation of a run that commits its tasks in an order that the
   dependencies allow, apart from findings 1 and 2.
3. Action properties that the invariants make cheap: a fence of a lock, an acknowledged
   notification and an archived manifest never go back.
