------------------------------- MODULE Kernel -------------------------------
(***************************************************************************)
(* Processes that execute one run: each is an execute_plan or resume_run   *)
(* call with its wave scheduler, working on the store of TaskLeases while  *)
(* other kernels work on the same run, an operator cancels it or patches   *)
(* its plan, time passes, and any process may be killed between two steps. *)
(* What a kernel remembers -- the plan it read, what it takes as done, the *)
(* leases it holds -- is its own; the rest is the store's.                 *)
(*                                                                         *)
(* The threads of the scheduler's pool are the entries of work[k]: each    *)
(* moves on its own.  A lifecycle event that finds another plan bound      *)
(* raises out of the scheduler; Abandon stands for all of them.  Files,    *)
(* exports and the seal that follows the last save are left out.           *)
(***************************************************************************)
EXTENDS TaskLeases

CONSTANTS
    Deps,          \* the dependencies of each task
    MaxTries,      \* retry_policy.max_retries + 1
    MaxSessions,   \* bound: execute_plan and resume_run calls, all together
    MaxPlan        \* bound: plan revisions

ASSUME DepsAssumption == Deps \in [Tasks -> SUBSET Tasks]
ASSUME TriesAssumption == MaxTries \in Nat \ {0}
ASSUME BoundsAssumption == MaxSessions \in Nat /\ MaxPlan \in Nat

VARIABLES
    pc,         \* where each kernel's main thread is
    bound,      \* the plan revision each kernel read
    work,       \* how far each kernel's scheduler is with each task
    tries,      \* attempts each scheduler has made at each task
    held,       \* leases[task_id] of execute_plan
    sessions    \* calls made so far

kernelVars == <<pc, bound, work, tries, held, sessions>>
allVars == <<vars, kernelVars>>

Kernels == Savers

NoHold == [task |-> NoAttempt]

Phases == {"idle", "resuming", "checking", "loading", "starting", "registering",
           "scheduling", "saving"}

Progress == {"waiting", "leased", "committed", "exhausting", "done", "lost"}

KernelTypeOK ==
    /\ TypeOK
    /\ pc \in [Kernels -> Phases]
    /\ bound \in [Kernels -> 0..MaxPlan]
    /\ work \in [Kernels -> [Tasks -> Progress]]
    /\ tries \in [Kernels -> [Tasks -> 0..MaxTries]]
    /\ held \in [Kernels -> [Tasks -> Lease \cup {NoHold}]]
    /\ sessions \in 0..MaxSessions

-----------------------------------------------------------------------------
(* Helpers.                                                                *)

Done(k) == {t \in Tasks : work[k][t] = "done"}
Lost(k) == {t \in Tasks : work[k][t] = "lost"}

(* The uuid of the next claim.                                             *)
FreshAttempt == CHOOSE a \in Attempts : attempts[a] = "unused"

(* descendants: the tasks of S and everything that depends on them, the    *)
(* least set its loop stops at.  A task that reads what another one writes *)
(* counts as depending on it.                                              *)
OnlyNamed(S) == S

HoldsDependents(S) == \A t \in Tasks : Deps[t] \cap S # {} => t \in S

Affected(S) ==
    {t \in Tasks :
        \A C \in SUBSET Tasks : S \subseteq C /\ HoldsDependents(C) => t \in C}

(* _dependencies_satisfied                                                 *)
NoneLost(k, t) == Deps[t] \cap Lost(k) = {}

DependenciesSatisfied(k, t) == Deps[t] \subseteq Done(k)

(* validate_task_receipts: the loaded checkpoint and the committed rows    *)
(* name the same tasks, under the plan that is bound.                      *)
Unchecked(k) == TRUE

ReceiptsAgree(k) ==
    /\ copy[k].plan = manifest.plan
    /\ copy[k].completed = Rows({"succeeded"})

(* The status the last save publishes; a cancelled run stays cancelled.    *)
OutcomeOfDone(k) ==
    IF copy[k].status = "cancelled" THEN "cancelled"
    ELSE IF Done(k) # {} THEN "succeeded" ELSE "failed"

Outcome(k) ==
    IF copy[k].status = "cancelled" THEN "cancelled"
    ELSE IF Lost(k) = {} THEN "succeeded" ELSE "failed"

(* What a process that stopped leaves behind: nothing but the store.       *)
Forget(k) ==
    /\ pc' = [pc EXCEPT ![k] = "idle"]
    /\ bound' = [bound EXCEPT ![k] = 0]
    /\ work' = [work EXCEPT ![k] = [t \in Tasks |-> "waiting"]]
    /\ tries' = [tries EXCEPT ![k] = [t \in Tasks |-> 0]]
    /\ held' = [held EXCEPT ![k] = [t \in Tasks |-> NoHold]]
    /\ copy' = [copy EXCEPT ![k] = NoCopy]
    /\ UNCHANGED sessions

Goto(k, phase) == pc' = [pc EXCEPT ![k] = phase]

Advance(k, t, progress) == work' = [work EXCEPT ![k][t] = progress]

StoreRest == <<clock, task, attempts, artifacts, manifest, leases>>

-----------------------------------------------------------------------------
KernelInit ==
    /\ Init
    /\ manifest.tasks = Tasks
    /\ pc = [k \in Kernels |-> "idle"]
    /\ bound = [k \in Kernels |-> 0]
    /\ work = [k \in Kernels |-> [t \in Tasks |-> "waiting"]]
    /\ tries = [k \in Kernels |-> [t \in Tasks |-> 0]]
    /\ held = [k \in Kernels |-> [t \in Tasks |-> NoHold]]
    /\ sessions = 0

(* kdr run: the plan is read from plan.json and nothing is taken as done.  *)
Run(k) ==
    /\ pc[k] = "idle"
    /\ sessions < MaxSessions
    /\ sessions' = sessions + 1
    /\ Goto(k, "loading")
    /\ bound' = [bound EXCEPT ![k] = manifest.plan]
    /\ UNCHANGED <<vars, work, tries, held>>

(* resume_run: load, reconcile the expired leases, read the plan and the   *)
(* receipts of what the loaded manifest calls completed.                   *)
Resume(k) ==
    /\ pc[k] = "idle"
    /\ sessions < MaxSessions
    /\ sessions' = sessions + 1
    /\ Goto(k, "resuming")
    /\ copy' = [copy EXCEPT ![k] = manifest]
    /\ UNCHANGED <<StoreRest, bound, work, tries, held>>

Reconcile(k) ==
    /\ pc[k] = "resuming"
    /\ Goto(k, "checking")
    /\ \E now \in ReadBefore :
          \/ ReconcileExpired(now)
          \/ /\ \A t \in Rows({"running"}) : task[t].until > now
             /\ UNCHANGED vars
    /\ UNCHANGED <<bound, work, tries, held, sessions>>

CheckReceipts(k) ==
    /\ pc[k] = "checking"
    /\ ReceiptsAgree(k)
    /\ Goto(k, "loading")
    /\ bound' = [bound EXCEPT ![k] = manifest.plan]
    /\ work' = [work EXCEPT ![k] =
                  [t \in Tasks |-> IF t \in copy[k].completed THEN "done" ELSE "waiting"]]
    /\ UNCHANGED <<vars, tries, held, sessions>>

(* Receipts that disagree stop the resume; a run that was published whole  *)
(* is only read.                                                           *)
StopResume(k) ==
    /\ pc[k] = "checking"
    /\ \/ ~ReceiptsAgree(k)
       \/ copy[k].completed = Tasks /\ copy[k].status = "succeeded"
    /\ Forget(k)
    /\ UNCHANGED StoreRest

(* execute_plan loads the manifest and compares the plan with its own.     *)
Load(k) ==
    /\ pc[k] = "loading"
    /\ manifest.status # "cancelled"
    /\ manifest.plan = bound[k]
    /\ Goto(k, "starting")
    /\ copy' = [copy EXCEPT ![k] = manifest]
    /\ UNCHANGED <<StoreRest, bound, work, tries, held, sessions>>

RefuseLoad(k) ==
    /\ pc[k] = "loading"
    /\ manifest.status = "cancelled" \/ manifest.plan # bound[k]
    /\ Forget(k)
    /\ UNCHANGED StoreRest

Start(k) ==
    /\ pc[k] = "starting"
    /\ SaveStatus(k, "running")
    /\ Goto(k, "registering")
    /\ UNCHANGED <<bound, work, tries, held, sessions>>

(* save_manifest raises StateConflict when the run has moved on.           *)
LoseSave(k) ==
    /\ pc[k] \in {"starting", "saving"}
    /\ ~CurrentCopy(k)
    /\ Forget(k)
    /\ UNCHANGED StoreRest

Register(k) ==
    /\ pc[k] = "registering"
    /\ IF Rows({"absent"}) # {} THEN RegisterTasks(Tasks) ELSE UNCHANGED vars
    /\ Goto(k, "scheduling")
    /\ UNCHANGED <<bound, work, tries, held, sessions>>

-----------------------------------------------------------------------------
(* The scheduler.                                                          *)

(* Bound: there is an attempt id left.                                     *)
ClaimTask(k, t, now) ==
    /\ pc[k] = "scheduling"
    /\ UsedAttempts # Attempts
    /\ work[k][t] = "waiting"
    /\ DependenciesSatisfied(k, t)
    /\ LET a == FreshAttempt IN
       /\ Claim(t, a, now, bound[k])
       /\ held' = [held EXCEPT ![k][t] =
                     [task |-> t, attempt |-> a, fence |-> task[t].fence + 1,
                      plan |-> bound[k]]]
    /\ tries' = [tries EXCEPT ![k][t] = @ + 1]
    /\ Advance(k, t, "leased")
    /\ UNCHANGED <<pc, bound, sessions>>

(* "task unavailable or leased" is a state conflict: no retry follows.     *)
ClaimAwaited(k, t, now) ==
    /\ pc[k] = "scheduling"
    /\ work[k][t] = "waiting"
    /\ DependenciesSatisfied(k, t)
    /\ manifest.plan = bound[k]
    /\ ~Available(t, now)
    /\ UNCHANGED allVars

ClaimRefused(k, t, now) ==
    /\ pc[k] = "scheduling"
    /\ work[k][t] = "waiting"
    /\ DependenciesSatisfied(k, t)
    /\ manifest.plan = bound[k]
    /\ ~Available(t, now)
    /\ Advance(k, t, "exhausting")
    /\ UNCHANGED <<vars, pc, bound, tries, held, sessions>>

(* The keeper's heartbeat.                                                 *)
RenewLease(k, t) ==
    /\ pc[k] = "scheduling"
    /\ work[k][t] = "leased"
    /\ Heartbeat(held[k][t])
    /\ UNCHANGED kernelVars

(* validate_result: the outcome passes the checks and is committed.        *)
CommitTask(k, t) ==
    /\ pc[k] = "scheduling"
    /\ work[k][t] = "leased"
    /\ FinishSuccess(held[k][t])
    /\ Advance(k, t, "committed")
    /\ UNCHANGED <<pc, bound, tries, held, sessions>>

(* task_succeeded is emitted and the scheduler counts the task as done.    *)
CountDone(k, t) ==
    /\ pc[k] = "scheduling"
    /\ work[k][t] = "committed"
    /\ manifest.plan = bound[k]
    /\ Advance(k, t, "done")
    /\ UNCHANGED <<vars, pc, bound, tries, held, sessions>>

Retry(k, t) ==
    Advance(k, t, IF tries[k][t] < MaxTries THEN "waiting" ELSE "exhausting")

(* The executor raises, or its outputs are not valid; the codes of a       *)
(* policy error, a cancellation or a conflict allow no retry.              *)
FailTask(k, t) ==
    /\ pc[k] = "scheduling"
    /\ work[k][t] = "leased"
    /\ FinishFailure(held[k][t])
    /\ Retry(k, t) \/ Advance(k, t, "exhausting")
    /\ UNCHANGED <<pc, bound, tries, held, sessions>>

(* The lease is gone: publishing it is a state conflict, an executor that  *)
(* failed anyway is retried.                                               *)
LoseLease(k, t) ==
    /\ pc[k] = "scheduling"
    /\ work[k][t] = "leased"
    /\ ~Holds(held[k][t])
    /\ Retry(k, t) \/ Advance(k, t, "exhausting")
    /\ UNCHANGED <<vars, pc, bound, tries, held, sessions>>

(* The transition a task_exhausted or a task_blocked event makes.          *)
GiveUp(k, t) ==
    /\ manifest.plan = bound[k]
    /\ \/ Transition(t, bound[k])
       \/ /\ task[t].status \notin {"pending", "failed"} \/ t \in manifest.failed
          /\ UNCHANGED vars
    /\ Advance(k, t, "lost")
    /\ UNCHANGED <<pc, bound, tries, held, sessions>>

Exhaust(k, t) ==
    /\ pc[k] = "scheduling"
    /\ work[k][t] = "exhausting"
    /\ GiveUp(k, t)

(* Nothing runs and nothing can start: what is left is blocked.            *)
Block(k, t) ==
    /\ pc[k] = "scheduling"
    /\ \A u \in Tasks : \/ work[k][u] \in {"done", "lost"}
                        \/ work[k][u] = "waiting" /\ ~DependenciesSatisfied(k, u)
    /\ work[k][t] = "waiting"
    /\ GiveUp(k, t)

(* Some event finds another plan bound: StateConflict leaves the scheduler.*)
Abandon(k) ==
    /\ pc[k] = "scheduling"
    /\ manifest.plan # bound[k]
    /\ Forget(k)
    /\ UNCHANGED StoreRest

(* The scheduler is through: load the manifest, compare the plan.          *)
Finish(k) ==
    /\ pc[k] = "scheduling"
    /\ Done(k) \cup Lost(k) = Tasks
    /\ manifest.plan = bound[k]
    /\ Goto(k, "saving")
    /\ copy' = [copy EXCEPT ![k] = manifest]
    /\ UNCHANGED <<StoreRest, bound, work, tries, held, sessions>>

(* The last save: outcome, and the scheduler's lists in place of those     *)
(* that were loaded.                                                       *)
Publish(k) ==
    /\ pc[k] = "saving"
    /\ BelowBound
    /\ CurrentCopy(k)
    /\ manifest' = Bumped([copy[k] EXCEPT !.status = Outcome(k),
                                          !.completed = Done(k),
                                          !.failed = Lost(k)])
    /\ Forget(k)
    /\ UNCHANGED <<clock, task, attempts, artifacts, leases>>

-----------------------------------------------------------------------------
(* The rest of the world.                                                  *)

(* The process is killed.                                                  *)
Crash(k) ==
    /\ pc[k] # "idle"
    /\ Forget(k)
    /\ UNCHANGED StoreRest

(* Bound: a run is cancelled once; again only moves fences.                *)
Cancel ==
    /\ manifest.status # "cancelled"
    /\ CancelRun
    /\ UNCHANGED kernelVars

(* A patch invalidates some tasks and what depends on them.                *)
Patch(S) ==
    /\ manifest.plan < MaxPlan
    /\ S # {}
    /\ ApplyPatch(manifest.plan, Affected(S), {}, {})
    /\ UNCHANGED kernelVars

KernelTick == Tick /\ UNCHANGED kernelVars

MainStep(k) ==
    \/ Reconcile(k)
    \/ CheckReceipts(k)
    \/ StopResume(k)
    \/ Load(k)
    \/ RefuseLoad(k)
    \/ Start(k)
    \/ LoseSave(k)
    \/ Register(k)
    \/ Abandon(k)
    \/ Finish(k)
    \/ Publish(k)

WorkStep(k, t) ==
    \/ \E now \in ReadBefore : ClaimTask(k, t, now)
    \/ \E now \in ReadBefore : ClaimRefused(k, t, now)
    \/ CommitTask(k, t)
    \/ CountDone(k, t)
    \/ FailTask(k, t)
    \/ LoseLease(k, t)
    \/ Exhaust(k, t)
    \/ Block(k, t)

KernelNext ==
    \/ \E k \in Kernels : Run(k)
    \/ \E k \in Kernels : Resume(k)
    \/ \E k \in Kernels : MainStep(k)
    \/ \E k \in Kernels, t \in Tasks : WorkStep(k, t)
    \/ \E k \in Kernels, t \in Tasks : RenewLease(k, t)
    \/ \E k \in Kernels : Crash(k)
    \/ Cancel
    \/ \E S \in SUBSET Tasks : Patch(S)
    \/ KernelTick

(* Every thread of a live process is scheduled; nothing makes an operator  *)
(* cancel or patch, the clock advance or a process die.                    *)
KernelFairness ==
    /\ \A k \in Kernels : WF_allVars(MainStep(k))
    /\ \A k \in Kernels, t \in Tasks : WF_allVars(WorkStep(k, t))

KernelSpec == KernelInit /\ [][KernelNext]_allVars /\ KernelFairness

-----------------------------------------------------------------------------
(* Properties.                                                             *)

(* Whatever kernels, patches and cancellations do, a committed task has    *)
(* committed dependencies: no result outlives the results it was built on. *)
DependenciesCommitted ==
    \A t \in Rows({"succeeded"}) : Deps[t] \subseteq Rows({"succeeded"})

(* What a kernel takes as done -- resumed from a checkpoint it loaded      *)
(* earlier, or counted itself -- is committed in the store, as long as the *)
(* plan it works on is the bound one.                                      *)
DoneIsCommitted ==
    \A k \in Kernels :
        pc[k] \in {"scheduling", "saving"} /\ bound[k] = manifest.plan =>
            Done(k) \subseteq Rows({"succeeded"})

(* A run is only published as succeeded with every task committed, by      *)
(* whichever kernel finishes last.                                         *)
SuccessIsComplete ==
    manifest.status = "succeeded" => Rows({"succeeded"}) = Tasks

(* Why it holds: a task is claimed on committed dependencies, and a patch  *)
(* that takes one away runs beside no attempt.                             *)
RunningIsReady ==
    \A t \in Rows({"running", "succeeded"}) : Deps[t] \subseteq Rows({"succeeded"})

(* What a call of execute_plan or resume_run may rely on, whatever other   *)
(* calls, patches and cancellations did since it read the plan.            *)
CallInv(k) ==
    /\ bound[k] <= manifest.plan
    /\ bound[k] = manifest.plan =>
          \A t \in Tasks : work[k][t] \in {"committed", "done"} => t \in Rows({"succeeded"})
    /\ pc[k] \in {"idle", "resuming", "checking"} => \A t \in Tasks : work[k][t] = "waiting"
    /\ pc[k] \notin {"scheduling", "saving"} => \A t \in Tasks : tries[k][t] = 0
    /\ \A t \in Tasks : work[k][t] = "waiting" => tries[k][t] < MaxTries
    /\ \A t \in Tasks : work[k][t] = "leased" => held[k][t] \in leases /\ held[k][t].task = t
    /\ pc[k] = "saving" =>
          /\ copy[k].plan = bound[k]
          /\ Done(k) \cup Lost(k) = Tasks

(* The inductive invariant.                                                *)
KernelInv ==
    /\ KernelTypeOK
    /\ manifest.plan <= MaxPlan
    /\ RevisionIdentifies
    /\ RunningIsReady
    /\ SuccessIsComplete
    /\ \A k \in Kernels : CallInv(k)

(* A task runs only on committed dependencies: the claim is made on what   *)
(* the scheduler remembers, under the plan it remembers.                   *)
ClaimsAreReady ==
    [][\A t \in Tasks : task'[t].fence # task[t].fence /\ task'[t].status = "running" =>
          Deps[t] \subseteq Rows({"succeeded"})]_allVars

(* Every call returns, or its process dies.                                *)
CallsReturn == \A k \in Kernels : pc[k] # "idle" ~> pc[k] = "idle"

-----------------------------------------------------------------------------
(* What the repository says and the code does not keep.                    *)

(* tests/test_recoverable_publication.py: commits of distinct processes do *)
(* not lose checkpoints; validate_task_receipts refuses a run whose        *)
(* manifest does not name every committed row.                             *)
CheckpointsNotLost == Rows({"succeeded"}) \subseteq manifest.completed

(* docs/EXECUTION.md: after cancel, work already started may end, but      *)
(* fencing rejects its publication.                                        *)
NothingPublishedAfterCancel ==
    [][manifest.status = "cancelled" => manifest'.receipts = manifest.receipts]_allVars
=============================================================================
