----------------------------- MODULE TaskLeases -----------------------------
(***************************************************************************)
(* The task half of the SQLite run store: the rows of tasks, attempts and  *)
(* artifacts of one run, its manifest, and the leases workers keep in      *)
(* memory.  Every operation of the store is one BEGIN IMMEDIATE            *)
(* transaction, so each is one action; workers, savers and the operator    *)
(* who cancels or patches a run interleave between transactions.  A worker *)
(* may use any lease it was ever given, at any later time: a slow, paused, *)
(* duplicated or crashed worker is one that uses it late, twice or never.  *)
(*                                                                         *)
(* Model reservations, resource locks, exported files, events and          *)
(* notifications written by the same transactions are left to the modules  *)
(* that model those tables; worker names are dropped because the attempt   *)
(* id, unique per claim, tells the holders apart.                          *)
(***************************************************************************)
EXTENDS Naturals, FiniteSets

CONSTANTS
    Tasks,         \* task ids that the plans of the run ever name
    Attempts,      \* uuid4 attempt ids
    Savers,        \* processes that load, change and save the manifest
    NoAttempt,     \* NULL in an attempt column
    NoCopy,        \* a saver that has loaded nothing
    LeaseTime,     \* seconds a claim or a heartbeat grants
    BusyTime,      \* longest wait for the writer lock (busy_timeout)
    MaxTime,       \* bound of the clock
    MaxRevision    \* bound of the manifest revision

ASSUME TasksFinite == IsFiniteSet(Tasks)
ASSUME NullsDistinct == NoAttempt \notin Attempts
ASSUME TimesAssumption ==
    /\ LeaseTime \in Nat \ {0}
    /\ BusyTime \in Nat
    /\ MaxTime \in Nat
    /\ MaxRevision \in Nat

VARIABLES
    clock,      \* time.time()
    task,       \* the tasks table, one row per task id
    attempts,   \* the status column of the attempts table
    artifacts,  \* the attempt whose artifact rows the table holds
    manifest,   \* runs.payload
    leases,     \* every lease returned by a claim
    copy        \* the manifest object each saver has in memory

vars == <<clock, task, attempts, artifacts, manifest, leases, copy>>

-----------------------------------------------------------------------------
(* Types.                                                                  *)

MaybeAttempt == Attempts \cup {NoAttempt}

RowStatus == {"absent", "pending", "running", "succeeded", "failed", "cancelled"}

TaskRow == [status : RowStatus, fence : Nat, attempt : MaybeAttempt,
            until : Nat, result : MaybeAttempt]

AttemptStatus == {"unused", "running", "expired", "cancelled", "succeeded", "failed"}

RunStatus == {"pending", "running", "succeeded", "failed", "cancelled"}

(* receipts[t] is the attempt whose receipt and artifact hashes the        *)
(* manifest records under task_commits and artifact_hashes.  tasks are     *)
(* those of the plan that metadata.plan binds, recorded those of all the   *)
(* plan_revisions of the run, whose rows are only ever inserted by the     *)
(* transaction that writes the manifest binding them.                      *)
Manifest == [revision : Nat, status : RunStatus, plan : Nat,
             tasks : SUBSET Tasks, recorded : SUBSET Tasks,
             completed : SUBSET Tasks, failed : SUBSET Tasks,
             receipts : [Tasks -> MaybeAttempt]]

Lease == [task : Tasks, attempt : Attempts, fence : Nat, plan : Nat]

TypeOK ==
    /\ clock \in Nat
    /\ task \in [Tasks -> TaskRow]
    /\ \A t \in Tasks : task[t].status = "running" => task[t].attempt \in Attempts
    /\ attempts \in [Attempts -> AttemptStatus]
    /\ artifacts \in [Tasks -> MaybeAttempt]
    /\ manifest \in Manifest
    /\ leases \subseteq Lease
    /\ copy \in [Savers -> Manifest \cup {NoCopy}]

-----------------------------------------------------------------------------
(* Helpers.                                                                *)

Rows(S) == {t \in Tasks : task[t].status \in S}

(* lease_until = NULL.  Only running rows are ever compared with a time.   *)
NoLease == 0

AbsentRow == [status |-> "absent", fence |-> 0, attempt |-> NoAttempt,
              until |-> NoLease, result |-> NoAttempt]

(* UPDATE attempts SET status=s ... WHERE attempt_id IN ids AND running    *)
SettleNothing(ids, s) == attempts

Settle(ids, s) ==
    [a \in Attempts |->
        IF a \in ids /\ attempts[a] = "running" THEN s ELSE attempts[a]]

(* time.time() is read before the transaction that uses it has waited for  *)
(* the writer lock, so it may be up to BusyTime seconds old.               *)
ReadBefore == {now \in 0..clock : clock <= now + BusyTime}

BelowBound == manifest.revision < MaxRevision

Bumped(m) == [m EXCEPT !.revision = @ + 1]

(* assert_lease: the plan the lease was given under is still bound, and    *)
(* the row still names this attempt, under this fence, unexpired.          *)
HoldsExpired(l) ==
    /\ manifest.plan = l.plan
    /\ task[l.task].status = "running"
    /\ task[l.task].fence = l.fence
    /\ task[l.task].attempt = l.attempt

Holds(l) ==
    /\ manifest.plan = l.plan
    /\ task[l.task].status = "running"
    /\ task[l.task].fence = l.fence
    /\ task[l.task].attempt = l.attempt
    /\ clock < task[l.task].until

(* The rows a claim accepts.                                               *)
AvailableCancelled(t, now) ==
    /\ task[t].status \notin {"absent", "succeeded"}
    /\ task[t].status = "running" => task[t].until <= now

Available(t, now) ==
    /\ task[t].status \notin {"absent", "succeeded", "cancelled"}
    /\ task[t].status = "running" => task[t].until <= now

(* A row taken away from whoever holds a lease on it.                      *)
Revoked(row, s) ==
    [row EXCEPT !.status = s, !.fence = @ + 1, !.until = NoLease]

(* A row whose attempt a ended with status s and left its result.          *)
Finished(row, s, a) ==
    [row EXCEPT !.status = s, !.until = NoLease, !.result = a]

ClaimedRow(t, a, now) ==
    [task[t] EXCEPT !.status = "running", !.fence = @ + 1, !.attempt = a,
                    !.until = now + LeaseTime]

(* The manifest m when it binds the next plan, of the tasks of S.          *)
Binding(m, S) ==
    [m EXCEPT !.plan = @ + 1, !.tasks = S, !.recorded = @ \cup S]

(* save_manifest compares the revision of the saved object with the row's. *)
AnyCopy(k) == copy[k] # NoCopy

CurrentCopy(k) ==
    /\ copy[k] # NoCopy
    /\ copy[k].revision = manifest.revision

(* apply_patch refuses to run beside a running task.                       *)
Unguarded == TRUE

Quiescent == Rows({"running"}) = {}

-----------------------------------------------------------------------------
(* A run that prepare_run_dir has just scaffolded: the directory and then  *)
(* the plan of revision 0 were committed, and no task row exists.          *)
Init ==
    /\ clock = 0
    /\ task = [t \in Tasks |-> AbsentRow]
    /\ attempts = [a \in Attempts |-> "unused"]
    /\ artifacts = [t \in Tasks |-> NoAttempt]
    /\ \E S \in (SUBSET Tasks) \ {{}} :
          manifest = [revision |-> 2, status |-> "pending", plan |-> 0,
                      tasks |-> S, recorded |-> S,
                      completed |-> {}, failed |-> {},
                      receipts |-> [t \in Tasks |-> NoAttempt]]
    /\ leases = {}
    /\ copy = [k \in Savers |-> NoCopy]

(* register_tasks: INSERT OR IGNORE.  It does not look at the manifest;    *)
(* its callers read the tasks from a plan that was bound when they did.    *)
RegisterTasks(S) ==
    /\ S \subseteq manifest.recorded
    /\ S \cap Rows({"absent"}) # {}
    /\ task' = [t \in Tasks |-> IF t \in S \cap Rows({"absent"})
                               THEN [AbsentRow EXCEPT !.status = "pending"]
                               ELSE task[t]]
    /\ UNCHANGED <<clock, attempts, artifacts, manifest, leases, copy>>

(* claim: a new attempt under the next fence; a running attempt whose      *)
(* lease had run out is marked expired.  The lease returned to the worker  *)
(* carries the plan bound at that moment, which must be the caller's.      *)
Claim(t, a, now, expected) ==
    /\ manifest.plan = expected
    /\ Available(t, now)
    /\ attempts[a] = "unused"
    /\ task' = [task EXCEPT ![t] = ClaimedRow(t, a, now)]
    /\ attempts' = [Settle({task[t].attempt}, "expired") EXCEPT ![a] = "running"]
    /\ leases' = leases \cup {[task |-> t, attempt |-> a,
                               fence |-> task[t].fence + 1, plan |-> expected]}
    /\ UNCHANGED <<clock, artifacts, manifest, copy>>

(* heartbeat.                                                              *)
Heartbeat(l) ==
    /\ Holds(l)
    /\ task' = [task EXCEPT ![l.task].until = clock + LeaseTime]
    /\ UNCHANGED <<clock, attempts, artifacts, manifest, leases, copy>>

(* finish(success=True): artifact rows, receipt, manifest, task row and    *)
(* attempt row change together.  The result's identity and plan are those  *)
(* of the lease (validate_result checks them before).  The call also fails *)
(* when a committed input file changed meanwhile, which is no step here.   *)
FinishSuccess(l) ==
    LET t == l.task IN
    /\ BelowBound
    /\ Holds(l)
    /\ artifacts' = [artifacts EXCEPT ![t] = l.attempt]
    /\ manifest' = [Bumped(manifest) EXCEPT
                       !.completed = @ \cup {t},
                       !.failed = @ \ {t},
                       !.receipts[t] = l.attempt]
    /\ task' = [task EXCEPT ![t] = Finished(@, "succeeded", l.attempt)]
    /\ attempts' = [attempts EXCEPT ![l.attempt] = "succeeded"]
    /\ UNCHANGED <<clock, leases, copy>>

(* finish(success=False): the row keeps the error as its result.           *)
FinishFailure(l) ==
    /\ Holds(l)
    /\ task' = [task EXCEPT ![l.task] = Finished(@, "failed", l.attempt)]
    /\ attempts' = [attempts EXCEPT ![l.attempt] = "failed"]
    /\ UNCHANGED <<clock, artifacts, manifest, leases, copy>>

(* reconcile_expired, at the start of every resume.                        *)
ReconcileExpired(now) ==
    LET expired == {t \in Rows({"running"}) : task[t].until <= now} IN
    /\ expired # {}
    /\ task' = [t \in Tasks |->
                  IF t \in expired THEN Revoked(task[t], "pending") ELSE task[t]]
    /\ attempts' = Settle({task[t].attempt : t \in expired}, "expired")
    /\ UNCHANGED <<clock, artifacts, manifest, leases, copy>>

(* cancel_run.                                                             *)
CancelRun ==
    LET open == Rows({"pending", "running", "failed", "cancelled"}) IN
    /\ BelowBound
    /\ task' = [t \in Tasks |->
                  IF t \in open THEN Revoked(task[t], "cancelled") ELSE task[t]]
    /\ attempts' = Settle(Attempts, "cancelled")
    /\ manifest' = [Bumped(manifest) EXCEPT !.status = "cancelled"]
    /\ UNCHANGED <<clock, artifacts, leases, copy>>

(* transition of a task_exhausted or task_blocked event.                   *)
Transition(t, expected) ==
    /\ BelowBound
    /\ manifest.plan = expected
    /\ task[t].status \in {"pending", "failed"}
    /\ t \notin manifest.failed
    /\ manifest' = [Bumped(manifest) EXCEPT !.failed = @ \cup {t}]
    /\ UNCHANGED <<clock, task, attempts, artifacts, leases, copy>>

(* A row after a patch: the UPDATE of the affected tasks asks nothing of   *)
(* their rows, cancelled ones included, and comes before the INSERT OR     *)
(* IGNORE of the rows that the new plan still lacks.                       *)
PatchedRow(t, affected, removed, plan) ==
    IF task[t].status = "absent"
    THEN IF t \in plan THEN [AbsentRow EXCEPT !.status = "pending"] ELSE task[t]
    ELSE IF t \in affected
    THEN [Revoked(task[t], IF t \in removed THEN "cancelled" ELSE "pending")
            EXCEPT !.result = NoAttempt]
    ELSE task[t]

(* A task that a patch adds must not be named in the history; a removed or *)
(* invalidated one is named in the bound plan, whatever became of its row. *)
(* affected is the closure of what the patch changes, among the tasks of   *)
(* the two plans.                                                          *)
ApplyPatch(base, affected, removed, added) ==
    LET plan == (manifest.tasks \ removed) \cup added IN
    /\ BelowBound
    /\ manifest.status # "cancelled"
    /\ manifest.plan = base
    /\ Quiescent
    /\ removed \subseteq manifest.tasks \cap affected
    /\ added \cap manifest.recorded = {}
    /\ affected \subseteq manifest.tasks \cup added
    /\ plan # {}
    /\ task' = [t \in Tasks |-> PatchedRow(t, affected, removed, plan)]
    /\ artifacts' = [t \in Tasks |-> IF t \in affected THEN NoAttempt ELSE artifacts[t]]
    /\ manifest' = [Binding(Bumped(manifest), plan) EXCEPT
                       !.status = "pending",
                       !.completed = @ \ affected,
                       !.failed = @ \ affected,
                       !.receipts = [t \in Tasks |-> IF t \in affected
                                                     THEN NoAttempt ELSE @[t]]]
    /\ UNCHANGED <<clock, attempts, leases, copy>>

-----------------------------------------------------------------------------
(* Savers hold a manifest object between a load and a save.                *)

LoadManifest(k) ==
    /\ copy[k] # manifest
    /\ copy' = [copy EXCEPT ![k] = manifest]
    /\ UNCHANGED <<clock, task, attempts, artifacts, manifest, leases>>

(* save_manifest under its revision check; the saver's object takes the    *)
(* new revision.  The last save of execute_plan, which replaces the        *)
(* completed and failed lists by those of its scheduler, is an action of   *)
(* Kernel, where there is a scheduler.                                     *)
SaveManifest(k, changed) ==
    /\ BelowBound
    /\ CurrentCopy(k)
    /\ manifest' = Bumped(changed)
    /\ copy' = [copy EXCEPT ![k] = Bumped(changed)]
    /\ UNCHANGED <<clock, task, attempts, artifacts, leases>>

(* execute_plan refuses to start a cancelled run and leaves a cancelled    *)
(* status alone when it publishes the outcome.                             *)
SaveStatus(k, s) ==
    /\ copy[k] # NoCopy
    /\ copy[k].status # "cancelled"
    /\ SaveManifest(k, [copy[k] EXCEPT !.status = s])

(* import_plan_into_run: only into a pending run without executed tasks,   *)
(* which a run is again after a patch that left none.  The history is not  *)
(* consulted: a plan may name a task that a patch removed, and the rows    *)
(* stay as they are.                                                       *)
ImportPlan(k, S) ==
    /\ S # {}
    /\ copy[k] # NoCopy
    /\ copy[k].status = "pending"
    /\ copy[k].completed = {}
    /\ copy[k].failed = {}
    /\ SaveManifest(k, Binding(copy[k], S))

Tick ==
    /\ clock < MaxTime
    /\ clock' = clock + 1
    /\ UNCHANGED <<task, attempts, artifacts, manifest, leases, copy>>

Next ==
    \/ \E S \in SUBSET Tasks : RegisterTasks(S)
    \/ \E t \in Tasks, a \in Attempts, now \in ReadBefore, expected \in 0..MaxRevision :
          Claim(t, a, now, expected)
    \/ \E l \in leases : Heartbeat(l)
    \/ \E l \in leases : FinishSuccess(l)
    \/ \E l \in leases : FinishFailure(l)
    \/ \E now \in ReadBefore : ReconcileExpired(now)
    \/ CancelRun
    \/ \E t \in Tasks, expected \in 0..MaxRevision : Transition(t, expected)
    \/ \E base \in 0..MaxRevision :
          \E affected, removed, added \in SUBSET Tasks :
            ApplyPatch(base, affected, removed, added)
    \/ \E k \in Savers : LoadManifest(k)
    \/ \E k \in Savers, s \in {"running", "succeeded", "failed"} : SaveStatus(k, s)
    \/ \E k \in Savers, S \in SUBSET Tasks : ImportPlan(k, S)
    \/ Tick

Spec == Init /\ [][Next]_vars

-----------------------------------------------------------------------------
(* Properties.                                                             *)

(* The attempt history and the task rows tell one story: an attempt is     *)
(* running exactly when one row is running and names it, and every lease   *)
(* belongs to a recorded attempt of its own.  Whatever order claims,       *)
(* takeovers, reconciliations and cancellations come in, no attempt is     *)
(* left running for ever and no two attempts own one task.                 *)
LeaseExclusive ==
    /\ \A a \in Attempts :
          attempts[a] = "running" <=>
              \E t \in Tasks : task[t].status = "running" /\ task[t].attempt = a
    /\ \A t, u \in Tasks :
          task[t].attempt = task[u].attempt => t = u \/ task[t].attempt = NoAttempt

(* The manifest's completed list, the task rows, the artifact rows, the    *)
(* receipts and the attempt history agree on every committed task: what    *)
(* resume checks before it reuses a result (validate_task_receipts).       *)
CommitAgreement ==
    \A t \in Tasks :
        /\ t \in manifest.completed <=> task[t].status = "succeeded"
        /\ t \in manifest.completed <=> artifacts[t] # NoAttempt
        /\ manifest.receipts[t] = artifacts[t]
        /\ t \in manifest.completed =>
              /\ t \notin manifest.failed
              /\ artifacts[t] = task[t].attempt
              /\ task[t].result = task[t].attempt
              /\ attempts[artifacts[t]] = "succeeded"

(* What the agreement rests on: every lease names a used attempt of its    *)
(* own and a registered task, with a fence and a plan no newer than the    *)
(* current ones, and every row's attempt was leased for that row.          *)
LeaseLog ==
    /\ \A l \in leases :
          /\ attempts[l.attempt] # "unused"
          /\ task[l.task].status # "absent"
          /\ l.fence <= task[l.task].fence
          /\ l.plan <= manifest.plan
    /\ \A l, m \in leases : l.attempt = m.attempt => l = m
    /\ \A t \in Tasks : task[t].attempt # NoAttempt =>
          \E l \in leases : l.task = t /\ l.attempt = task[t].attempt

(* The revision identifies the manifest: a saver that passes the revision  *)
(* check saves a change of what is stored, whoever stored it.              *)
RevisionIdentifies ==
    \A k \in Savers : copy[k] # NoCopy =>
        /\ copy[k].revision <= manifest.revision
        /\ copy[k].revision = manifest.revision => copy[k] = manifest

(* The inductive invariant.                                                *)
IInv ==
    /\ TypeOK
    /\ LeaseLog
    /\ LeaseExclusive
    /\ CommitAgreement
    /\ RevisionIdentifies

(* A lease still entitles its worker: fence, attempt, plan and time.       *)
Entitled(l) ==
    /\ task[l.task].status = "running"
    /\ task[l.task].fence = l.fence
    /\ task[l.task].attempt = l.attempt
    /\ manifest.plan = l.plan
    /\ clock < task[l.task].until

(* A lease that was lost -- by time, takeover, cancellation, finish or a   *)
(* new plan -- is never honoured again: a late worker or a late heartbeat  *)
(* cannot bring it back.                                                   *)
LostForever == [][\A l \in leases : ~Entitled(l) => ~Entitled(l)']_vars

(* Every row is that of a task some plan of the run named, so that a patch *)
(* adds no task that has a row.                                            *)
RowsAreRecorded == Tasks \ Rows({"absent"}) \subseteq manifest.recorded

(* Cancellation is final.  In a cancelled run no cancelled row changes     *)
(* status again, and no old manifest object revives the run.  In another   *)
(* run a cancelled row is that of a task a patch removed: it only comes    *)
(* back when a later plan was imported that names the task again and then  *)
(* a patch affects it, as a pending row that forgot its result, while no   *)
(* task is held -- never by a claim, a registration, a late worker, a save *)
(* or the import itself.                                                   *)
CancelledIsFinal ==
    [][/\ manifest.status = "cancelled" => manifest'.status = "cancelled"
       /\ \A t \in Rows({"cancelled"}) :
            task'[t].status # "cancelled" =>
              /\ manifest.status # "cancelled"
              /\ t \in manifest.tasks /\ t \in manifest'.tasks
              /\ manifest'.plan > manifest.plan
              /\ task'[t].status = "pending" /\ task'[t].result = NoAttempt
              /\ Quiescent /\ Quiescent']_vars

(* Who holds each task, and the attempts that were ever handed one.        *)
HeldBy == [t \in Tasks |-> IF task[t].status = "running"
                           THEN task[t].attempt ELSE NoAttempt]

UsedAttempts == {a \in Attempts : attempts[a] # "unused"}

Promise == INSTANCE TaskCommit WITH
    holder <- HeldBy,
    outcome <- manifest.receipts,
    used <- UsedAttempts,
    closed <- Rows({"cancelled"}),
    planned <- manifest.tasks,
    halted <- manifest.status = "cancelled"

(* The store keeps the promise of TaskCommit.                              *)
KeepsPromise == Promise!Spec
=============================================================================
