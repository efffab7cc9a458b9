---------------------------- MODULE KernelProofs ----------------------------
(***************************************************************************)
(* Proofs about Kernel: any number of calls, tasks and attempts, any       *)
(* dependencies, and any interleaving of claims, retries, crashes,         *)
(* cancellations and patches.                                              *)
(***************************************************************************)
EXTENDS Kernel, TaskLeasesProofs

-----------------------------------------------------------------------------
(* What the transactions of the store do to the facts a call relies on.    *)

(* A step that neither takes a result away nor starts a task, nor          *)
(* publishes a success.                                                    *)
Conserves ==
    /\ leases \subseteq leases'
    /\ manifest'.plan = manifest.plan
    /\ Rows({"succeeded"}) \subseteq Rows({"succeeded"})'
    /\ Rows({"running", "succeeded"})' \subseteq Rows({"running", "succeeded"})
    /\ manifest'.status = "succeeded" => manifest.status = "succeeded"

(* Every change of the manifest is a new revision.                         *)
Revises == manifest' = manifest \/ manifest'.revision = manifest.revision + 1

(* A copy in memory is kept, dropped, or what the store holds now.         *)
CopiesFollow == \A j \in Kernels : copy'[j] \in {copy[j], NoCopy, manifest'}

(* Nothing moves but the call k.                                           *)
OnlyCall(k) ==
    \A j \in Kernels \ {k} :
        /\ pc'[j] = pc[j]
        /\ bound'[j] = bound[j]
        /\ work'[j] = work[j]
        /\ tries'[j] = tries[j]
        /\ held'[j] = held[j]
        /\ copy'[j] = copy[j]

LEMMA ConservesWhenStill ==
    ASSUME UNCHANGED <<task, manifest, leases>>
    PROVE  Conserves /\ Revises
  BY DEF Conserves, Revises, Rows

(* The same for a step after which every row is in a status as before but  *)
(* for some that are no longer running.                                    *)
LEMMA ConservesRows ==
    ASSUME \A t \in Tasks : \/ task'[t].status = task[t].status
                            \/ /\ task[t].status # "succeeded"
                               /\ task'[t].status \notin {"running", "succeeded"},
           leases' = leases,
           manifest'.plan = manifest.plan,
           manifest'.status = "succeeded" => manifest.status = "succeeded"
    PROVE  Conserves
  BY DEF Conserves, Rows

LEMMA RegisterConserves ==
    ASSUME TypeOK, NEW S \in SUBSET Tasks, RegisterTasks(S)
    PROVE  Conserves /\ Revises
  <1>1. \A t \in Tasks : \/ task'[t].status = task[t].status
                         \/ /\ task[t].status # "succeeded"
                            /\ task'[t].status \notin {"running", "succeeded"}
    BY DEF RegisterTasks, Rows, AbsentRow
  <1> QED
    BY <1>1, ConservesRows DEF RegisterTasks, Revises

LEMMA HeartbeatConserves ==
    ASSUME TypeOK, NEW l \in leases, Heartbeat(l)
    PROVE  Conserves /\ Revises /\ \A t \in Tasks : task'[t].fence = task[t].fence
  <1>1. \A t \in Tasks : /\ task'[t].status = task[t].status
                         /\ task'[t].fence = task[t].fence
    BY DEF TypeOK, Heartbeat, TaskRow, Lease
  <1> QED
    BY <1>1, ConservesRows DEF Heartbeat, Revises

(* What a finish does to the rows.                                         *)
LEMMA FinishedRows ==
    ASSUME TypeOK, NEW l \in leases, NEW s \in {"succeeded", "failed"}, Holds(l),
           task' = [task EXCEPT ![l.task] = Finished(@, s, l.attempt)]
    PROVE  /\ l.task \in Tasks
           /\ task[l.task].status = "running"
           /\ task'[l.task].status = s
           /\ \A t \in Tasks : task'[t].fence = task[t].fence
           /\ \A t \in Tasks \ {l.task} : task'[t] = task[t]
  <1>1. /\ l.task \in Tasks /\ l.attempt \in Attempts
        /\ task[l.task] \in TaskRow /\ task \in [Tasks -> TaskRow]
        /\ s \in RowStatus
    BY DEF TypeOK, Lease, RowStatus
  <1> DEFINE r == Finished(task[l.task], s, l.attempt)
  <1>2. r.status = s /\ r.fence = task[l.task].fence
    BY <1>1, FinishedFields
  <1> HIDE DEF r
  <1>3. task' = [task EXCEPT ![l.task] = r]
    BY DEF r
  <1> QED
    BY <1>1, <1>2, <1>3 DEF Holds

LEMMA SuccessConserves ==
    ASSUME TypeOK, NEW l \in leases, FinishSuccess(l)
    PROVE  /\ Conserves /\ Revises
           /\ l.task \in Rows({"succeeded"})'
           /\ \A t \in Tasks : task'[t].fence = task[t].fence
  <1>1. /\ l.task \in Tasks
        /\ task[l.task].status = "running"
        /\ task'[l.task].status = "succeeded"
        /\ \A t \in Tasks : task'[t].fence = task[t].fence
        /\ \A t \in Tasks \ {l.task} : task'[t] = task[t]
    BY FinishedRows DEF FinishSuccess
  <1>2. /\ manifest'.plan = manifest.plan
        /\ manifest'.status = manifest.status
        /\ manifest'.revision = manifest.revision + 1
    BY BumpedFields DEF TypeOK, FinishSuccess, Manifest
  <1>3. leases' = leases
    BY DEF FinishSuccess
  <1> QED
    BY <1>1, <1>2, <1>3 DEF Conserves, Revises, Rows

LEMMA FailureConserves ==
    ASSUME TypeOK, NEW l \in leases, FinishFailure(l)
    PROVE  /\ Conserves /\ Revises
           /\ \A t \in Tasks : task'[t].fence = task[t].fence
  <1>1. /\ l.task \in Tasks
        /\ task[l.task].status = "running"
        /\ task'[l.task].status = "failed"
        /\ \A t \in Tasks : task'[t].fence = task[t].fence
        /\ \A t \in Tasks \ {l.task} : task'[t] = task[t]
    BY FinishedRows DEF FinishFailure
  <1> QED
    BY <1>1, ConservesRows DEF FinishFailure, Revises

LEMMA ReconcileConserves ==
    ASSUME TypeOK, NEW now, ReconcileExpired(now)
    PROVE  Conserves /\ Revises
  <1>1. \A t \in Tasks : Revoked(task[t], "pending").status = "pending"
    BY RevokedFields DEF TypeOK, RowStatus
  <1>2. \A t \in Tasks : \/ task'[t].status = task[t].status
                         \/ /\ task[t].status # "succeeded"
                            /\ task'[t].status \notin {"running", "succeeded"}
    BY <1>1 DEF ReconcileExpired, Rows
  <1> QED
    BY <1>2, ConservesRows DEF ReconcileExpired, Revises

LEMMA CancelConserves ==
    ASSUME TypeOK, CancelRun
    PROVE  Conserves /\ Revises /\ CopiesFollow
  <1>1. \A t \in Tasks : Revoked(task[t], "cancelled").status = "cancelled"
    BY RevokedFields DEF TypeOK, RowStatus
  <1>2. \A t \in Tasks : \/ task'[t].status = task[t].status
                         \/ /\ task[t].status # "succeeded"
                            /\ task'[t].status \notin {"running", "succeeded"}
    BY <1>1 DEF CancelRun, Rows
  <1>3. /\ manifest'.plan = manifest.plan
        /\ manifest'.status = "cancelled"
        /\ manifest'.revision = manifest.revision + 1
    BY BumpedFields DEF TypeOK, CancelRun, Manifest
  <1> QED
    BY <1>2, <1>3, ConservesRows DEF CancelRun, Revises, CopiesFollow

LEMMA TransitionConserves ==
    ASSUME TypeOK, NEW t \in Tasks, NEW expected, Transition(t, expected)
    PROVE  Conserves /\ Revises
  <1>1. /\ manifest'.plan = manifest.plan
        /\ manifest'.status = manifest.status
        /\ manifest'.revision = manifest.revision + 1
    BY BumpedFields DEF TypeOK, Transition, Manifest
  <1> QED
    BY <1>1, ConservesRows DEF Transition, Revises

(* The first save of execute_plan.                                         *)
LEMMA StartConserves ==
    ASSUME TypeOK, RevisionIdentifies, NEW k \in Kernels, SaveStatus(k, "running")
    PROVE  Conserves /\ Revises /\ copy'[k] = manifest'
  <1>1. /\ copy[k] = manifest
        /\ UNCHANGED <<task, leases>>
        /\ manifest' = Bumped([manifest EXCEPT !.status = "running"])
        /\ copy' = [copy EXCEPT ![k] = manifest']
    BY DEF SaveStatus, SaveManifest, CurrentCopy, RevisionIdentifies, Kernels
  <1>2. /\ [manifest EXCEPT !.status = "running"] \in Manifest
        /\ [manifest EXCEPT !.status = "running"].status = "running"
        /\ [manifest EXCEPT !.status = "running"].plan = manifest.plan
        /\ [manifest EXCEPT !.status = "running"].revision = manifest.revision
    BY DEF TypeOK, Manifest, RunStatus
  <1>3. /\ manifest'.plan = manifest.plan
        /\ manifest'.status = "running"
        /\ manifest'.revision = manifest.revision + 1
    BY <1>1, <1>2, BumpedFields
  <1> QED
    BY <1>1, <1>3, ConservesRows DEF Revises, TypeOK, Kernels

-----------------------------------------------------------------------------
(* The pieces of the inductive invariant, whoever takes the step.          *)

LEMMA RevisionStays ==
    ASSUME TypeOK, RevisionIdentifies, Revises, CopiesFollow
    PROVE  RevisionIdentifies'
  <1> SUFFICES ASSUME NEW j \in Kernels, copy'[j] # NoCopy
               PROVE  /\ copy'[j].revision <= manifest'.revision
                      /\ copy'[j].revision = manifest'.revision => copy'[j] = manifest'
    BY DEF RevisionIdentifies, Kernels
  <1>1. manifest.revision \in Nat /\ manifest'.revision \in Nat
    BY DEF TypeOK, Manifest, Revises
  <1>2. CASE copy'[j] = manifest'
    BY <1>1, <1>2
  <1>3. CASE copy'[j] = copy[j]
    <2>1. /\ copy[j].revision <= manifest.revision
          /\ copy[j].revision = manifest.revision => copy[j] = manifest
          /\ copy[j].revision \in Nat
      BY <1>3 DEF RevisionIdentifies, TypeOK, Manifest, Kernels
    <2> QED
      BY <1>1, <1>3, <2>1 DEF Revises
  <1> QED
    BY <1>2, <1>3 DEF CopiesFollow

LEMMA RunningStaysReady ==
    ASSUME RunningIsReady, Conserves
    PROVE  RunningIsReady'
  BY DEF RunningIsReady, Conserves

LEMMA SuccessStaysComplete ==
    ASSUME SuccessIsComplete, Conserves
    PROVE  SuccessIsComplete'
  BY DEF SuccessIsComplete, Conserves, Rows

(* What another call may do, or a patch, leaves a call what it relies on.  *)
LEMMA OthersKeep ==
    ASSUME TypeOK, TypeOK', NEW j \in Kernels, bound[j] \in Nat, CallInv(j),
           pc'[j] = pc[j], bound'[j] = bound[j], work'[j] = work[j],
           tries'[j] = tries[j], held'[j] = held[j], copy'[j] = copy[j],
           leases \subseteq leases',
           manifest'.plan >= manifest.plan,
           manifest'.plan = manifest.plan =>
             Rows({"succeeded"}) \subseteq Rows({"succeeded"})'
    PROVE  CallInv(j)'
  <1>1. manifest.plan \in Nat /\ manifest'.plan \in Nat
    BY DEF TypeOK, Manifest
  <1>2. bound'[j] <= manifest'.plan
    BY <1>1 DEF CallInv
  <1>3. ASSUME bound'[j] = manifest'.plan
        PROVE  \A t \in Tasks :
                 work'[j][t] \in {"committed", "done"} => t \in Rows({"succeeded"})'
    <2>1. manifest'.plan = manifest.plan /\ bound[j] = manifest.plan
      BY <1>1, <1>3 DEF CallInv
    <2> QED
      BY <2>1 DEF CallInv
  <1>4. Done(j)' = Done(j) /\ Lost(j)' = Lost(j)
    BY DEF Done, Lost
  <1>5. /\ pc'[j] \in {"idle", "resuming", "checking"} =>
             \A t \in Tasks : work'[j][t] = "waiting"
        /\ pc'[j] \notin {"scheduling", "saving"} => \A t \in Tasks : tries'[j][t] = 0
        /\ \A t \in Tasks : work'[j][t] = "waiting" => tries'[j][t] < MaxTries
    BY DEF CallInv
  <1>6. \A t \in Tasks : work'[j][t] = "leased" =>
          held'[j][t] \in leases' /\ held'[j][t].task = t
    BY DEF CallInv
  <1>7. pc'[j] = "saving" =>
          /\ copy'[j].plan = bound'[j]
          /\ Done(j)' \cup Lost(j)' = Tasks
    BY <1>4 DEF CallInv
  <1> QED
    BY <1>2, <1>3, <1>5, <1>6, <1>7 DEF CallInv

(* A call's own transaction: what is left to show is about the call.       *)
LEMMA CallSteps ==
    ASSUME KernelInv, KernelTypeOK', NEW k \in Kernels, OnlyCall(k),
           Conserves, Revises, CopiesFollow, CallInv(k)'
    PROVE  KernelInv'
  <1>1. manifest'.plan <= MaxPlan
    BY DEF KernelInv, Conserves
  <1>2. RevisionIdentifies' /\ RunningIsReady' /\ SuccessIsComplete'
    BY RevisionStays, RunningStaysReady, SuccessStaysComplete DEF KernelInv, KernelTypeOK
  <1>3. ASSUME NEW j \in Kernels \ {k}
        PROVE  CallInv(j)'
    <2>1. bound[j] \in Nat /\ manifest.plan \in Nat
      BY BoundsAssumption DEF KernelInv, KernelTypeOK, TypeOK, Manifest
    <2>2. /\ leases \subseteq leases'
          /\ manifest'.plan = manifest.plan
          /\ manifest'.plan >= manifest.plan
          /\ Rows({"succeeded"}) \subseteq Rows({"succeeded"})'
      BY <2>1 DEF Conserves
    <2> QED
      BY <2>1, <2>2, OthersKeep DEF OnlyCall, KernelInv, KernelTypeOK
  <1> QED
    BY <1>1, <1>2, <1>3 DEF KernelInv

(* Forget, field by field.                                                 *)
LEMMA ForgetFields ==
    ASSUME KernelTypeOK, NEW k \in Kernels, Forget(k)
    PROVE  /\ pc'[k] = "idle" /\ bound'[k] = 0 /\ copy'[k] = NoCopy
           /\ \A t \in Tasks : work'[k][t] = "waiting" /\ tries'[k][t] = 0
           /\ pc' \in [Kernels -> Phases]
           /\ bound' \in [Kernels -> 0..MaxPlan]
           /\ work' \in [Kernels -> [Tasks -> Progress]]
           /\ tries' \in [Kernels -> [Tasks -> 0..MaxTries]]
           /\ held' \in [Kernels -> [Tasks -> Lease \cup {NoHold}]]
           /\ sessions' \in 0..MaxSessions
           /\ copy' \in [Kernels -> Manifest \cup {NoCopy}]
           /\ CopiesFollow
           /\ OnlyCall(k)
  <1>1. /\ pc' = [pc EXCEPT ![k] = "idle"] /\ "idle" \in Phases
        /\ bound' = [bound EXCEPT ![k] = 0] /\ 0 \in 0..MaxPlan
        /\ copy' = [copy EXCEPT ![k] = NoCopy]
        /\ sessions' = sessions
    BY BoundsAssumption DEF Forget, Phases
  <1>2. /\ work' = [work EXCEPT ![k] = [t \in Tasks |-> "waiting"]]
        /\ [t \in Tasks |-> "waiting"] \in [Tasks -> Progress]
    BY DEF Forget, Progress
  <1>3. /\ tries' = [tries EXCEPT ![k] = [t \in Tasks |-> 0]]
        /\ [t \in Tasks |-> 0] \in [Tasks -> 0..MaxTries]
    BY TriesAssumption DEF Forget
  <1>4. /\ held' = [held EXCEPT ![k] = [t \in Tasks |-> NoHold]]
        /\ [t \in Tasks |-> NoHold] \in [Tasks -> Lease \cup {NoHold}]
    BY DEF Forget
  <1>5. OnlyCall(k) /\ CopiesFollow
    BY <1>1, <1>2, <1>3, <1>4 DEF OnlyCall, CopiesFollow, KernelTypeOK, TypeOK, Kernels
  <1>6. work'[k] = [t \in Tasks |-> "waiting"] /\ tries'[k] = [t \in Tasks |-> 0]
    BY <1>2, <1>3 DEF KernelTypeOK
  <1>7. \A t \in Tasks : work'[k][t] = "waiting" /\ tries'[k][t] = 0
    BY <1>6
  <1> QED
    BY <1>1, <1>2, <1>3, <1>4, <1>5, <1>7 DEF KernelTypeOK, TypeOK, Kernels

(* Whatever the store does meanwhile, a call that is gone has nothing left *)
(* to rely on.                                                             *)
LEMMA ForgottenIsSafe ==
    ASSUME KernelTypeOK, KernelTypeOK', NEW k \in Kernels, Forget(k)
    PROVE  CallInv(k)'
  <1>1. /\ pc'[k] = "idle" /\ bound'[k] = 0
        /\ \A t \in Tasks : work'[k][t] = "waiting" /\ tries'[k][t] = 0
    BY ForgetFields
  <1>2. 0 <= manifest'.plan
    BY DEF KernelTypeOK, TypeOK, Manifest
  <1>3. 0 < MaxTries
    BY TriesAssumption
  <1> QED
    BY <1>1, <1>2, <1>3 DEF CallInv

(* StopResume, RefuseLoad, LoseSave, Abandon and a kill.                   *)
LEMMA ForgetKeeps ==
    ASSUME KernelInv, NEW k \in Kernels, Forget(k), UNCHANGED StoreRest
    PROVE  KernelInv'
  <1>1. KernelTypeOK'
    BY ForgetFields DEF KernelInv, KernelTypeOK, TypeOK, StoreRest, Kernels
  <1>2. Conserves /\ Revises
    BY ConservesWhenStill DEF StoreRest
  <1>3. CallInv(k)' /\ OnlyCall(k) /\ CopiesFollow
    BY <1>1, ForgottenIsSafe, ForgetFields DEF KernelInv
  <1> QED
    BY <1>1, <1>2, <1>3, CallSteps

-----------------------------------------------------------------------------
(* The main thread of a call.                                              *)

LEMMA RunKeeps ==
    ASSUME KernelInv, NEW k \in Kernels, Run(k)
    PROVE  KernelInv'
  <1> USE DEF KernelInv
  <1>1. /\ pc' = [pc EXCEPT ![k] = "loading"]
        /\ bound' = [bound EXCEPT ![k] = manifest.plan]
        /\ UNCHANGED <<vars, work, tries, held>>
        /\ pc[k] = "idle"
    BY DEF Run, Goto
  <1>2. manifest.plan \in 0..MaxPlan /\ sessions' \in 0..MaxSessions /\ "loading" \in Phases
    BY BoundsAssumption DEF KernelTypeOK, TypeOK, Manifest, Run, Phases
  <1>3. KernelTypeOK'
    BY <1>1, <1>2 DEF KernelTypeOK, TypeOK, vars
  <1>4. Conserves /\ Revises
    BY <1>1, ConservesWhenStill DEF vars
  <1>5. OnlyCall(k) /\ CopiesFollow
    BY <1>1 DEF OnlyCall, CopiesFollow, vars, KernelTypeOK
  <1>6. pc'[k] = "loading" /\ bound'[k] = manifest.plan
    BY <1>1 DEF KernelTypeOK
  <1>7. CallInv(k)'
    BY <1>1, <1>2, <1>6 DEF CallInv, vars
  <1> HIDE DEF KernelInv
  <1> QED
    BY <1>3, <1>4, <1>5, <1>7, CallSteps

(* A copy of what is stored is taken, and the main thread moves on; the    *)
(* rest of the call stays as it is.                                        *)
LEMMA CopyKeeps ==
    ASSUME KernelInv, NEW k \in Kernels, NEW phase \in Phases,
           Goto(k, phase),
           copy' = [copy EXCEPT ![k] = manifest],
           UNCHANGED <<StoreRest, bound, work, tries, held>>,
           sessions' \in 0..MaxSessions,
           phase \in {"idle", "resuming", "checking"} => \A t \in Tasks : work[k][t] = "waiting",
           phase \notin {"scheduling", "saving"} => \A t \in Tasks : tries[k][t] = 0,
           phase = "saving" =>
             manifest.plan = bound[k] /\ Done(k) \cup Lost(k) = Tasks
    PROVE  KernelInv'
  <1> USE DEF KernelInv
  <1>1. /\ pc' = [pc EXCEPT ![k] = phase]
        /\ pc'[k] = phase /\ copy'[k] = manifest /\ manifest' = manifest
        /\ UNCHANGED <<task, leases, clock, attempts, artifacts>>
    BY DEF Goto, KernelTypeOK, TypeOK, Kernels, StoreRest
  <1>2. KernelTypeOK'
    BY <1>1 DEF KernelTypeOK, TypeOK, Kernels
  <1>3. Conserves /\ Revises
    BY <1>1, ConservesWhenStill
  <1>4. OnlyCall(k) /\ CopiesFollow
    BY <1>1 DEF OnlyCall, CopiesFollow, KernelTypeOK, TypeOK, Kernels
  <1>5. Done(k)' = Done(k) /\ Lost(k)' = Lost(k) /\ Rows({"succeeded"})' = Rows({"succeeded"})
    BY <1>1 DEF Done, Lost, Rows
  <1>6. CallInv(k)'
    BY <1>1, <1>5 DEF CallInv, StoreRest
  <1> HIDE DEF KernelInv
  <1> QED
    BY <1>2, <1>3, <1>4, <1>6, CallSteps

LEMMA ResumeKeeps ==
    ASSUME KernelInv, NEW k \in Kernels, Resume(k)
    PROVE  KernelInv'
  <1>1. sessions' \in 0..MaxSessions /\ "resuming" \in Phases
    BY BoundsAssumption DEF KernelInv, KernelTypeOK, Resume, Phases
  <1>2. pc[k] = "idle" /\ CallInv(k)
    BY DEF Resume, KernelInv
  <1> QED
    BY <1>1, <1>2, CopyKeeps DEF Resume, CallInv

LEMMA LoadKeepsCall ==
    ASSUME KernelInv, NEW k \in Kernels, Load(k)
    PROVE  KernelInv'
  <1>1. sessions' \in 0..MaxSessions /\ "starting" \in Phases
    BY DEF KernelInv, KernelTypeOK, Load, Phases
  <1>2. pc[k] = "loading" /\ CallInv(k)
    BY DEF Load, KernelInv
  <1> QED
    BY <1>1, <1>2, CopyKeeps DEF Load, CallInv

LEMMA FinishKeeps ==
    ASSUME KernelInv, NEW k \in Kernels, Finish(k)
    PROVE  KernelInv'
  <1>1. sessions' \in 0..MaxSessions /\ "saving" \in Phases
    BY DEF KernelInv, KernelTypeOK, Finish, Phases
  <1> QED
    BY <1>1, CopyKeeps DEF Finish

(* The main thread moves on over a transaction that conserves.             *)
LEMMA GotoKeeps ==
    ASSUME KernelInv, TypeOK', NEW k \in Kernels, NEW phase \in Phases,
           Goto(k, phase),
           UNCHANGED <<bound, work, tries, held, sessions>>,
           Conserves, Revises, CopiesFollow,
           \A j \in Kernels \ {k} : copy'[j] = copy[j],
           phase \in {"idle", "resuming", "checking"} => \A t \in Tasks : work[k][t] = "waiting",
           phase \notin {"scheduling", "saving"} => \A t \in Tasks : tries[k][t] = 0,
           phase # "saving"
    PROVE  KernelInv'
  <1> USE DEF KernelInv
  <1>1. pc' = [pc EXCEPT ![k] = phase] /\ pc'[k] = phase
    BY DEF Goto, KernelTypeOK
  <1>2. KernelTypeOK'
    BY <1>1 DEF KernelTypeOK
  <1>3. OnlyCall(k)
    BY <1>1 DEF OnlyCall, KernelTypeOK
  <1>4. CallInv(k)'
    BY <1>1 DEF CallInv, Conserves
  <1> HIDE DEF KernelInv
  <1> QED
    BY <1>2, <1>3, <1>4, CallSteps

LEMMA ReconcileKeepsCall ==
    ASSUME KernelInv, NEW k \in Kernels, Reconcile(k)
    PROVE  KernelInv'
  <1>1. "checking" \in Phases /\ CallInv(k) /\ pc[k] = "resuming"
    BY DEF Phases, KernelInv, Reconcile
  <1>2. TypeOK' /\ Conserves /\ Revises /\ CopiesFollow /\ copy' = copy
    <2>1. ASSUME NEW now \in ReadBefore, ReconcileExpired(now)
          PROVE  TypeOK' /\ Conserves /\ Revises /\ CopiesFollow /\ copy' = copy
      <3>1. TypeOK'
        BY <2>1, TypeStep DEF Next, KernelInv, KernelTypeOK
      <3>2. Conserves /\ Revises
        BY <2>1, ReconcileConserves DEF KernelInv, KernelTypeOK
      <3> QED
        BY <2>1, <3>1, <3>2 DEF ReconcileExpired, CopiesFollow
    <2>2. CASE UNCHANGED vars
      <3>1. TypeOK'
        BY <2>2, TypeStep DEF KernelInv, KernelTypeOK
      <3> QED
        BY <2>2, <3>1, ConservesWhenStill DEF vars, CopiesFollow
    <2> QED
      BY <2>1, <2>2 DEF Reconcile
  <1> QED
    BY <1>1, <1>2, GotoKeeps DEF Reconcile, CallInv

LEMMA StartKeeps ==
    ASSUME KernelInv, NEW k \in Kernels, Start(k)
    PROVE  KernelInv'
  <1>1. "registering" \in Phases /\ CallInv(k) /\ pc[k] = "starting"
    BY DEF Phases, KernelInv, Start
  <1>2. TypeOK'
    BY TypeStep DEF Next, KernelInv, KernelTypeOK, Start, Kernels
  <1>3. Conserves /\ Revises /\ copy'[k] = manifest'
    BY StartConserves DEF KernelInv, KernelTypeOK, Start
  <1>4. \A j \in Kernels \ {k} : copy'[j] = copy[j]
    BY DEF Start, SaveStatus, SaveManifest, KernelInv, KernelTypeOK, TypeOK, Kernels
  <1>5. CopiesFollow
    BY <1>3, <1>4 DEF CopiesFollow
  <1> QED
    BY <1>1, <1>2, <1>3, <1>4, <1>5, GotoKeeps DEF Start, CallInv

LEMMA RegisterKeepsCall ==
    ASSUME KernelInv, NEW k \in Kernels, Register(k)
    PROVE  KernelInv'
  <1>1. "scheduling" \in Phases
    BY DEF Phases
  <1>2. TypeOK' /\ Conserves /\ Revises /\ copy' = copy
    <2>1. CASE RegisterTasks(Tasks)
      <3>1. TypeOK'
        BY <2>1, TypeStep DEF Next, KernelInv, KernelTypeOK
      <3> QED
        BY <2>1, <3>1, RegisterConserves DEF RegisterTasks, KernelInv, KernelTypeOK
    <2>2. CASE UNCHANGED vars
      <3>1. TypeOK'
        BY <2>2, TypeStep DEF KernelInv, KernelTypeOK
      <3> QED
        BY <2>2, <3>1, ConservesWhenStill DEF vars
    <2> QED
      BY <2>1, <2>2 DEF Register
  <1>3. CopiesFollow
    BY <1>2 DEF CopiesFollow
  <1> QED
    BY <1>1, <1>2, <1>3, GotoKeeps DEF Register

LEMMA CheckReceiptsKeeps ==
    ASSUME KernelInv, NEW k \in Kernels, CheckReceipts(k)
    PROVE  KernelInv'
  <1> USE DEF KernelInv
  <1> DEFINE resumed == [t \in Tasks |-> IF t \in copy[k].completed THEN "done" ELSE "waiting"]
  <1>1. /\ pc[k] = "checking"
        /\ pc' = [pc EXCEPT ![k] = "loading"] /\ "loading" \in Phases
        /\ bound' = [bound EXCEPT ![k] = manifest.plan] /\ manifest.plan \in 0..MaxPlan
        /\ work' = [work EXCEPT ![k] = resumed] /\ resumed \in [Tasks -> Progress]
        /\ UNCHANGED <<vars, tries, held, sessions>>
        /\ copy[k].completed = Rows({"succeeded"})
    BY BoundsAssumption
       DEF CheckReceipts, Goto, Phases, Progress, ReceiptsAgree, KernelTypeOK, TypeOK, Manifest
  <1>2. /\ pc'[k] = "loading" /\ bound'[k] = manifest.plan
        /\ \A t \in Tasks : work'[k][t] = IF t \in Rows({"succeeded"}) THEN "done" ELSE "waiting"
    BY <1>1 DEF KernelTypeOK
  <1> HIDE DEF resumed
  <1>3. KernelTypeOK'
    BY <1>1 DEF KernelTypeOK, TypeOK, vars
  <1>4. Conserves /\ Revises
    BY <1>1, ConservesWhenStill DEF vars
  <1>5. OnlyCall(k) /\ CopiesFollow
    BY <1>1 DEF OnlyCall, CopiesFollow, vars, KernelTypeOK
  <1>6. Rows({"succeeded"})' = Rows({"succeeded"}) /\ manifest' = manifest
    BY <1>1 DEF Rows, vars
  <1>7. 0 < MaxTries /\ \A t \in Tasks : tries'[k][t] = 0
    BY <1>1, TriesAssumption DEF CallInv
  <1>8. CallInv(k)'
    BY <1>1, <1>2, <1>6, <1>7 DEF CallInv
  <1> HIDE DEF KernelInv
  <1> QED
    BY <1>3, <1>4, <1>5, <1>8, CallSteps

(* The last save.  What the scheduler did is still true of the store when  *)
(* the revision has not moved.                                             *)
LEMMA PublishKeeps ==
    ASSUME KernelInv, NEW k \in Kernels, Publish(k)
    PROVE  KernelInv'
  <1> USE DEF KernelInv
  <1> DEFINE m == [copy[k] EXCEPT !.status = Outcome(k), !.completed = Done(k),
                                  !.failed = Lost(k)]
  <1>1. /\ copy[k] = manifest
        /\ manifest' = Bumped(m)
        /\ Forget(k)
        /\ UNCHANGED <<clock, task, attempts, artifacts, leases>>
        /\ bound[k] = manifest.plan
        /\ Done(k) \cup Lost(k) = Tasks
    BY DEF Publish, CurrentCopy, RevisionIdentifies, Kernels, CallInv
  <1>2. /\ m \in Manifest
        /\ m.revision = manifest.revision
        /\ m.plan = manifest.plan
        /\ m.status = Outcome(k)
    <2>1. Outcome(k) \in RunStatus
      BY DEF Outcome, RunStatus
    <2>2. Done(k) \in SUBSET Tasks /\ Lost(k) \in SUBSET Tasks
      BY DEF Done, Lost
    <2>3. manifest \in Manifest
      BY DEF KernelTypeOK, TypeOK
    <2> QED
      BY <1>1, <2>1, <2>2, <2>3 DEF Manifest
  <1> HIDE DEF m
  <1>3. /\ manifest' \in Manifest
        /\ manifest'.revision = manifest.revision + 1
        /\ manifest'.plan = manifest.plan
        /\ manifest'.status = Outcome(k)
    BY <1>1, <1>2, BumpedFields
  <1>4. KernelTypeOK'
    BY <1>1, <1>3, ForgetFields DEF KernelTypeOK, TypeOK, Kernels
  <1>5. Rows({"succeeded"})' = Rows({"succeeded"})
        /\ Rows({"running", "succeeded"})' = Rows({"running", "succeeded"})
    BY <1>1 DEF Rows
  <1>6. Done(k) \subseteq Rows({"succeeded"})
    BY <1>1 DEF CallInv, Done
  <1>7. manifest'.status = "succeeded" => Rows({"succeeded"}) = Tasks
    <2>1. Outcome(k) = "succeeded" => Lost(k) = {}
      BY DEF Outcome
    <2> QED
      BY <1>1, <1>3, <1>6, <2>1 DEF Rows
  <1>8. SuccessIsComplete' /\ RunningIsReady'
    BY <1>5, <1>7 DEF SuccessIsComplete, RunningIsReady
  <1>9. RevisionIdentifies'
    BY <1>1, <1>3, RevisionStays, ForgetFields DEF Revises, KernelTypeOK
  <1>10. ASSUME NEW j \in Kernels
         PROVE  CallInv(j)'
    <2>1. CASE j = k
      BY <1>1, <1>4, <2>1, ForgottenIsSafe
    <2>2. CASE j # k
      <3>1. bound[j] \in Nat /\ manifest.plan \in Nat
        BY BoundsAssumption DEF KernelTypeOK, TypeOK, Manifest
      <3>2. OnlyCall(k)
        BY <1>1, ForgetFields
      <3>3. /\ pc'[j] = pc[j] /\ bound'[j] = bound[j] /\ work'[j] = work[j]
            /\ tries'[j] = tries[j] /\ held'[j] = held[j] /\ copy'[j] = copy[j]
        BY <2>2, <3>2 DEF OnlyCall
      <3>4. leases \subseteq leases' /\ manifest'.plan >= manifest.plan
        BY <1>1, <1>3, <3>1
      <3> QED
        BY <1>4, <1>5, <3>1, <3>3, <3>4, OthersKeep DEF KernelTypeOK
    <2> QED
      BY <2>1, <2>2
  <1>11. manifest'.plan <= MaxPlan
    BY <1>3
  <1> QED
    BY <1>4, <1>8, <1>9, <1>10, <1>11

-----------------------------------------------------------------------------
(* The threads of a call.                                                  *)

(* One task of a call moves on over a transaction that conserves; done and *)
(* committed only with its row.                                            *)
LEMMA AdvanceKeeps ==
    ASSUME KernelInv, TypeOK', NEW k \in Kernels, NEW t \in Tasks, NEW p \in Progress,
           pc[k] = "scheduling",
           Advance(k, t, p),
           UNCHANGED <<pc, bound, tries, held, sessions, copy>>,
           Conserves, Revises,
           p # "leased",
           p \in {"committed", "done"} =>
             (bound[k] = manifest.plan => t \in Rows({"succeeded"})'),
           p = "waiting" => tries[k][t] < MaxTries
    PROVE  KernelInv'
  <1> USE DEF KernelInv
  <1>1. /\ work' \in [Kernels -> [Tasks -> Progress]]
        /\ work'[k][t] = p
        /\ \A u \in Tasks \ {t} : work'[k][u] = work[k][u]
        /\ \A j \in Kernels \ {k} : work'[j] = work[j]
    BY DEF Advance, KernelTypeOK
  <1>2. KernelTypeOK'
    BY <1>1 DEF KernelTypeOK
  <1>3. OnlyCall(k) /\ CopiesFollow
    BY <1>1 DEF OnlyCall, CopiesFollow
  <1>4. CallInv(k)
    OBVIOUS
  <1>5. ASSUME NEW u \in Tasks
        PROVE  /\ bound[k] = manifest.plan /\ work'[k][u] \in {"committed", "done"} =>
                    u \in Rows({"succeeded"})'
               /\ work'[k][u] = "waiting" => tries[k][u] < MaxTries
               /\ work'[k][u] = "leased" => held[k][u] \in leases' /\ held[k][u].task = u
    <2>1. CASE u = t
      BY <1>1, <2>1
    <2>2. CASE u # t
      BY <1>1, <1>4, <2>2 DEF CallInv, Conserves
    <2> QED
      BY <2>1, <2>2
  <1>6. CallInv(k)'
    BY <1>4, <1>5 DEF CallInv, Conserves
  <1> HIDE DEF KernelInv
  <1> QED
    BY <1>2, <1>3, <1>6, CallSteps

(* What a call counted is committed under its plan.                        *)
LEMMA DoneRows ==
    ASSUME KernelInv, NEW k \in Kernels, bound[k] = manifest.plan
    PROVE  Done(k) \subseteq Rows({"succeeded"})
  BY DEF KernelInv, CallInv, Done

(* The rows after a claim.                                                 *)
LEMMA ClaimedRows ==
    ASSUME TypeOK, NEW t \in Tasks, NEW a \in Attempts, NEW now \in ReadBefore,
           NEW expected, Claim(t, a, now, expected)
    PROVE  /\ task[t].status # "succeeded"
           /\ task'[t].status = "running"
           /\ \A u \in Tasks \ {t} : task'[u] = task[u]
           /\ Rows({"succeeded"})' = Rows({"succeeded"})
           /\ Rows({"running", "succeeded"})' = Rows({"running", "succeeded"}) \cup {t}
  <1>1. task'[t].status = "running" /\ \A u \in Tasks \ {t} : task'[u] = task[u]
    BY ClaimedFields DEF TypeOK, Claim
  <1>2. task[t].status # "succeeded"
    BY DEF Claim, Available
  <1> QED
    BY <1>1, <1>2 DEF Rows

(* An attempt id that is left is unused.                                   *)
LEMMA FreshIsUnused ==
    ASSUME UsedAttempts # Attempts
    PROVE  FreshAttempt \in Attempts /\ attempts[FreshAttempt] = "unused"
  BY DEF FreshAttempt, UsedAttempts

LEMMA ClaimKeepsCall ==
    ASSUME KernelInv, NEW k \in Kernels, NEW t \in Tasks, NEW now \in ReadBefore,
           ClaimTask(k, t, now)
    PROVE  /\ KernelInv'
           /\ Deps[t] \subseteq Rows({"succeeded"})
           /\ \A u \in Tasks \ {t} : task'[u] = task[u]
  <1> DEFINE a == FreshAttempt
             l == [task |-> t, attempt |-> a, fence |-> task[t].fence + 1,
                   plan |-> bound[k]]
  <1>1. a \in Attempts
    BY FreshIsUnused DEF ClaimTask
  <1>2. /\ pc[k] = "scheduling" /\ work[k][t] = "waiting"
        /\ DependenciesSatisfied(k, t)
        /\ Claim(t, a, now, bound[k])
        /\ held' = [held EXCEPT ![k][t] = l]
        /\ tries' = [tries EXCEPT ![k][t] = @ + 1]
        /\ work' = [work EXCEPT ![k][t] = "leased"]
        /\ UNCHANGED <<pc, bound, sessions>>
    BY DEF ClaimTask, Advance
  <1> HIDE DEF a
  <1>3. bound[k] = manifest.plan /\ manifest.plan \in Nat /\ bound[k] \in Nat
    BY <1>2 DEF Claim, KernelInv, KernelTypeOK, TypeOK, Manifest
  <1>4. TypeOK /\ TypeOK'
    BY <1>1, <1>2, <1>3, TypeClaim DEF KernelInv, KernelTypeOK
  <1>5. l \in Lease /\ leases' = leases \cup {l}
    BY <1>1, <1>2, <1>3, <1>4 DEF Claim, Lease, TypeOK, TaskRow
  <1>6. UNCHANGED <<manifest, copy>>
    BY <1>2 DEF Claim
  <1>7. /\ Deps[t] \subseteq Rows({"succeeded"})
    BY <1>2, <1>3, DoneRows DEF DependenciesSatisfied
  <1>8. /\ \A u \in Tasks \ {t} : task'[u] = task[u]
        /\ Rows({"succeeded"})' = Rows({"succeeded"})
        /\ Rows({"running", "succeeded"})' = Rows({"running", "succeeded"}) \cup {t}
    BY <1>1, <1>2, <1>4, ClaimedRows
  <1>9. tries[k][t] \in 0..MaxTries /\ tries[k][t] < MaxTries
    BY <1>2 DEF KernelInv, KernelTypeOK, CallInv
  <1> HIDE DEF l
  <1>10. /\ work' \in [Kernels -> [Tasks -> Progress]]
         /\ work'[k][t] = "leased"
         /\ \A u \in Tasks \ {t} : work'[k][u] = work[k][u]
         /\ \A j \in Kernels \ {k} : work'[j] = work[j]
    BY <1>2 DEF KernelInv, KernelTypeOK, Progress
  <1>11. /\ tries' \in [Kernels -> [Tasks -> 0..MaxTries]]
         /\ \A u \in Tasks \ {t} : tries'[k][u] = tries[k][u]
         /\ \A j \in Kernels \ {k} : tries'[j] = tries[j]
    <2>1. tries[k][t] + 1 \in 0..MaxTries
      BY <1>9, TriesAssumption
    <2> QED
      BY <1>2, <2>1 DEF KernelInv, KernelTypeOK
  <1>12. /\ held' \in [Kernels -> [Tasks -> Lease \cup {NoHold}]]
         /\ held'[k][t] = l
         /\ \A u \in Tasks \ {t} : held'[k][u] = held[k][u]
         /\ \A j \in Kernels \ {k} : held'[j] = held[j]
    BY <1>2, <1>5 DEF KernelInv, KernelTypeOK
  <1>13. KernelTypeOK'
    BY <1>2, <1>4, <1>10, <1>11, <1>12 DEF KernelInv, KernelTypeOK
  <1>14. RunningIsReady' /\ SuccessIsComplete' /\ RevisionIdentifies'
    BY <1>6, <1>7, <1>8
       DEF KernelInv, RunningIsReady, SuccessIsComplete, RevisionIdentifies
  <1>15. ASSUME NEW j \in Kernels
         PROVE  CallInv(j)'
    <2>1. CASE j # k
      <3>1. /\ bound[j] \in Nat /\ manifest'.plan >= manifest.plan
            /\ leases \subseteq leases'
        BY <1>3, <1>5, <1>6, BoundsAssumption DEF KernelInv, KernelTypeOK
      <3>2. /\ pc'[j] = pc[j] /\ bound'[j] = bound[j] /\ work'[j] = work[j]
            /\ tries'[j] = tries[j] /\ held'[j] = held[j] /\ copy'[j] = copy[j]
        BY <1>2, <1>6, <1>10, <1>11, <1>12, <2>1
      <3> QED
        BY <1>4, <1>8, <3>1, <3>2, OthersKeep DEF KernelInv
    <2>2. CASE j = k
      <3>1. CallInv(k)
        BY DEF KernelInv
      <3>2. \A u \in Tasks : /\ work'[k][u] \in {"committed", "done"} =>
                                  u \in Rows({"succeeded"})'
                             /\ work'[k][u] = "waiting" => tries'[k][u] < MaxTries
        BY <1>3, <1>8, <1>10, <1>11, <3>1 DEF CallInv
      <3>3. ASSUME NEW u \in Tasks, work'[k][u] = "leased"
            PROVE  held'[k][u] \in leases' /\ held'[k][u].task = u
        <4>1. CASE u = t
          BY <1>5, <1>12, <4>1 DEF l
        <4>2. CASE u # t
          BY <1>5, <1>10, <1>12, <3>1, <3>3, <4>2 DEF CallInv
        <4> QED
          BY <4>1, <4>2
      <3>4. bound'[k] <= manifest'.plan /\ pc'[k] = "scheduling"
        BY <1>2, <1>3, <1>6
      <3> QED
        BY <2>2, <3>2, <3>3, <3>4 DEF CallInv
    <2> QED
      BY <2>1, <2>2
  <1> QED
    BY <1>6, <1>7, <1>8, <1>13, <1>14, <1>15 DEF KernelInv

LEMMA RefusedKeeps ==
    ASSUME KernelInv, NEW k \in Kernels, NEW t \in Tasks, NEW now \in ReadBefore,
           ClaimRefused(k, t, now)
    PROVE  KernelInv'
  <1>1. TypeOK' /\ Conserves /\ Revises /\ copy' = copy
    BY TypeStep, ConservesWhenStill DEF KernelInv, KernelTypeOK, ClaimRefused, vars
  <1> QED
    BY <1>1, AdvanceKeeps DEF ClaimRefused, Progress

LEMMA CommitKeeps ==
    ASSUME KernelInv, NEW k \in Kernels, NEW t \in Tasks, CommitTask(k, t)
    PROVE  KernelInv' /\ \A u \in Tasks : task'[u].fence = task[u].fence
  <1>1. held[k][t] \in leases /\ held[k][t].task = t
    BY DEF KernelInv, CallInv, CommitTask
  <1>2. /\ TypeOK'
        /\ copy' = copy
    BY <1>1, TypeStep DEF KernelInv, KernelTypeOK, CommitTask, Next, FinishSuccess
  <1>3. /\ Conserves /\ Revises
        /\ t \in Rows({"succeeded"})'
        /\ \A u \in Tasks : task'[u].fence = task[u].fence
    BY <1>1, SuccessConserves DEF KernelInv, KernelTypeOK, CommitTask
  <1> QED
    BY <1>2, <1>3, AdvanceKeeps DEF CommitTask, Progress

LEMMA CountKeeps ==
    ASSUME KernelInv, NEW k \in Kernels, NEW t \in Tasks, CountDone(k, t)
    PROVE  KernelInv'
  <1>1. TypeOK' /\ Conserves /\ Revises /\ copy' = copy
    BY TypeStep, ConservesWhenStill DEF KernelInv, KernelTypeOK, CountDone, vars
  <1>2. t \in Rows({"succeeded"})'
    BY DEF KernelInv, CallInv, CountDone, Rows, vars
  <1> QED
    BY <1>1, <1>2, AdvanceKeeps DEF CountDone, Progress

(* FailTask and LoseLease go on to another try or to exhaustion.           *)
LEMMA RetryKeeps ==
    ASSUME KernelInv, NEW k \in Kernels, NEW t \in Tasks, TypeOK',
           pc[k] = "scheduling",
           Retry(k, t) \/ Advance(k, t, "exhausting"),
           UNCHANGED <<pc, bound, tries, held, sessions, copy>>,
           Conserves, Revises
    PROVE  KernelInv'
  <1>1. PICK p \in {"waiting", "exhausting"} :
          Advance(k, t, p) /\ (p = "waiting" => tries[k][t] < MaxTries)
    BY DEF Retry
  <1>2. p \in Progress
    BY DEF Progress
  <1> QED
    BY <1>1, <1>2, AdvanceKeeps

LEMMA FailKeeps ==
    ASSUME KernelInv, NEW k \in Kernels, NEW t \in Tasks, FailTask(k, t)
    PROVE  KernelInv' /\ \A u \in Tasks : task'[u].fence = task[u].fence
  <1>1. held[k][t] \in leases
    BY DEF KernelInv, CallInv, FailTask
  <1>2. TypeOK' /\ copy' = copy
    BY <1>1, TypeStep DEF KernelInv, KernelTypeOK, FailTask, Next, FinishFailure
  <1>3. Conserves /\ Revises /\ \A u \in Tasks : task'[u].fence = task[u].fence
    BY <1>1, FailureConserves DEF KernelInv, KernelTypeOK, FailTask
  <1> QED
    BY <1>2, <1>3, RetryKeeps DEF FailTask

LEMMA LoseKeeps ==
    ASSUME KernelInv, NEW k \in Kernels, NEW t \in Tasks, LoseLease(k, t)
    PROVE  KernelInv'
  <1>1. TypeOK' /\ Conserves /\ Revises /\ copy' = copy
    BY TypeStep, ConservesWhenStill DEF KernelInv, KernelTypeOK, LoseLease, vars
  <1> QED
    BY <1>1, RetryKeeps DEF LoseLease

(* Exhaust and Block.                                                      *)
LEMMA GiveUpKeeps ==
    ASSUME KernelInv, NEW k \in Kernels, NEW t \in Tasks,
           pc[k] = "scheduling", GiveUp(k, t)
    PROVE  KernelInv' /\ task' = task
  <1>1. TypeOK' /\ Conserves /\ Revises /\ copy' = copy /\ task' = task
    <2>1. CASE Transition(t, bound[k])
      <3>1. bound[k] \in Nat
        BY BoundsAssumption DEF KernelInv, KernelTypeOK
      <3> QED
        BY <2>1, <3>1, TypeTransition, TransitionConserves
           DEF KernelInv, KernelTypeOK, Transition
    <2>2. CASE UNCHANGED vars
      BY <2>2, TypeStep, ConservesWhenStill DEF KernelInv, KernelTypeOK, vars
    <2> QED
      BY <2>1, <2>2 DEF GiveUp
  <1> QED
    BY <1>1, AdvanceKeeps DEF GiveUp, Progress

LEMMA RenewKeeps ==
    ASSUME KernelInv, NEW k \in Kernels, NEW t \in Tasks, RenewLease(k, t)
    PROVE  KernelInv' /\ \A u \in Tasks : task'[u].fence = task[u].fence
  <1>1. held[k][t] \in leases
    BY DEF KernelInv, CallInv, RenewLease
  <1>2. TypeOK' /\ copy' = copy /\ UNCHANGED kernelVars
    BY <1>1, TypeStep DEF KernelInv, KernelTypeOK, RenewLease, Next, Heartbeat
  <1>3. Conserves /\ Revises /\ \A u \in Tasks : task'[u].fence = task[u].fence
    BY <1>1, HeartbeatConserves DEF KernelInv, KernelTypeOK, RenewLease
  <1>4. KernelTypeOK'
    BY <1>2 DEF KernelInv, KernelTypeOK, kernelVars
  <1>5. OnlyCall(k) /\ CopiesFollow
    BY <1>2 DEF OnlyCall, CopiesFollow, kernelVars
  <1>6. CallInv(k)'
    <2>1. CallInv(k) /\ Done(k)' = Done(k) /\ Lost(k)' = Lost(k)
      BY <1>2 DEF KernelInv, kernelVars, Done, Lost
    <2> QED
      BY <1>2, <1>3, <2>1 DEF CallInv, Conserves, kernelVars
  <1> QED
    BY <1>3, <1>4, <1>5, <1>6, CallSteps

-----------------------------------------------------------------------------
(* The rest of the world.                                                  *)

(* A step without a call, over a transaction that conserves.               *)
LEMMA WorldKeeps ==
    ASSUME KernelInv, TypeOK', UNCHANGED kernelVars, copy' = copy, Conserves, Revises
    PROVE  KernelInv'
  <1>1. KernelTypeOK'
    BY DEF KernelInv, KernelTypeOK, kernelVars
  <1>2. RevisionIdentifies' /\ RunningIsReady' /\ SuccessIsComplete'
    BY RevisionStays, RunningStaysReady, SuccessStaysComplete
       DEF KernelInv, KernelTypeOK, CopiesFollow
  <1>3. ASSUME NEW j \in Kernels
        PROVE  CallInv(j)'
    <2>1. bound[j] \in Nat /\ manifest'.plan >= manifest.plan
      BY BoundsAssumption DEF KernelInv, KernelTypeOK, TypeOK, Manifest, Conserves
    <2> QED
      BY <2>1, OthersKeep DEF KernelInv, KernelTypeOK, Conserves, kernelVars
  <1> QED
    BY <1>1, <1>2, <1>3 DEF KernelInv, Conserves

(* Everything that depends on an affected task is affected.                *)
LEMMA AffectedHoldsDependents ==
    ASSUME NEW S \in SUBSET Tasks
    PROVE  Affected(S) \in SUBSET Tasks /\ HoldsDependents(Affected(S))
  <1> SUFFICES ASSUME NEW t \in Tasks, NEW d \in Deps[t], d \in Affected(S),
                      NEW C \in SUBSET Tasks, S \subseteq C, HoldsDependents(C)
               PROVE  t \in C
    BY DEF Affected, HoldsDependents
  <1>1. d \in C
    BY DEF Affected
  <1> QED
    BY <1>1 DEF HoldsDependents

LEMMA PatchKeepsCalls ==
    ASSUME KernelInv, NEW S \in SUBSET Tasks, Patch(S)
    PROVE  KernelInv' /\ \A t \in Tasks : task'[t].status # "running"
  <1> DEFINE affected == Affected(S)
  <1>1. /\ ApplyPatch(manifest.plan, affected, {}, {})
        /\ UNCHANGED kernelVars
        /\ manifest.plan < MaxPlan
    BY DEF Patch
  <1>2. affected \in SUBSET Tasks /\ HoldsDependents(affected)
    BY AffectedHoldsDependents
  <1> HIDE DEF affected
  <1>3. TypeOK /\ manifest.plan \in Nat
    BY DEF KernelInv, KernelTypeOK, TypeOK, Manifest
  <1>4. TypeOK'
    BY <1>1, <1>2, <1>3, TypePatch
  <1>5. /\ manifest'.plan = manifest.plan + 1
        /\ manifest'.revision = manifest.revision + 1
        /\ manifest'.status = "pending"
        /\ UNCHANGED <<leases, copy>>
    <2>1. /\ manifest'.plan = manifest.plan + 1
          /\ manifest'.revision = manifest.revision + 1
          /\ manifest'.status = "pending"
      BY <1>1, <1>2, <1>3, PatchFields DEF TypeOK
    <2> QED
      BY <1>1, <2>1 DEF ApplyPatch
  <1>6. ASSUME NEW t \in Tasks
        PROVE  /\ task'[t].status # "running"
               /\ task'[t].status = "succeeded" <=>
                    t \notin affected /\ task[t].status = "succeeded"
    <2>1. task[t] \in TaskRow
      BY <1>3 DEF TypeOK
    <2> QED
      BY <1>1, <2>1, PatchRow
  <1>7. KernelTypeOK' /\ manifest'.plan <= MaxPlan
    BY <1>1, <1>3, <1>4, <1>5, BoundsAssumption DEF KernelInv, KernelTypeOK, kernelVars
  <1>8. RevisionIdentifies'
    BY <1>3, <1>5, RevisionStays DEF KernelInv, Revises, CopiesFollow
  <1>9. SuccessIsComplete'
    BY <1>5 DEF SuccessIsComplete
  <1>10. RunningIsReady'
    <2> SUFFICES ASSUME NEW t \in Tasks, task'[t].status \in {"running", "succeeded"},
                        NEW d \in Deps[t]
                 PROVE  d \in Tasks /\ task'[d].status = "succeeded"
      BY DEF RunningIsReady, Rows
    <2>1. t \notin affected /\ task[t].status = "succeeded"
      BY <1>6
    <2>2. d \notin affected
      BY <1>2, <2>1 DEF HoldsDependents
    <2>3. d \in Tasks /\ task[d].status = "succeeded"
      BY <2>1 DEF KernelInv, RunningIsReady, Rows
    <2> QED
      BY <1>6, <2>2, <2>3
  <1>11. ASSUME NEW j \in Kernels
         PROVE  CallInv(j)'
    <2>1. /\ bound[j] \in Nat
          /\ manifest'.plan >= manifest.plan
          /\ manifest'.plan # manifest.plan
          /\ leases \subseteq leases'
      BY <1>3, <1>5, BoundsAssumption DEF KernelInv, KernelTypeOK
    <2>2. /\ pc'[j] = pc[j] /\ bound'[j] = bound[j] /\ work'[j] = work[j]
          /\ tries'[j] = tries[j] /\ held'[j] = held[j] /\ copy'[j] = copy[j]
      BY <1>1, <1>5 DEF kernelVars
    <2> QED
      BY <1>3, <1>4, <2>1, <2>2, OthersKeep DEF KernelInv
  <1> QED
    BY <1>6, <1>7, <1>8, <1>9, <1>10, <1>11 DEF KernelInv

LEMMA CancelKeepsCalls ==
    ASSUME KernelInv, Cancel
    PROVE  KernelInv'
  <1>1. TypeOK'
    BY TypeStep DEF KernelInv, KernelTypeOK, Cancel, Next
  <1>2. Conserves /\ Revises /\ copy' = copy
    BY CancelConserves DEF KernelInv, KernelTypeOK, Cancel, CancelRun
  <1> QED
    BY <1>1, <1>2, WorldKeeps DEF Cancel

LEMMA TickKeepsCalls ==
    ASSUME KernelInv, KernelTick
    PROVE  KernelInv'
  <1>1. TypeOK'
    BY TypeStep DEF KernelInv, KernelTypeOK, KernelTick, Next
  <1>2. Conserves /\ Revises /\ copy' = copy
    BY ConservesWhenStill DEF KernelTick, Tick
  <1> QED
    BY <1>1, <1>2, WorldKeeps DEF KernelTick

-----------------------------------------------------------------------------
(* The theorems.                                                           *)

LEMMA KernelInvInit == KernelInit => KernelInv
  <1> SUFFICES ASSUME KernelInit PROVE KernelInv
    OBVIOUS
  <1>1. TypeOK
    BY TypeInit DEF KernelInit
  <1>2. KernelTypeOK
    BY <1>1, BoundsAssumption, TriesAssumption DEF KernelInit, KernelTypeOK, Phases, Progress
  <1>3. /\ manifest.plan = 0 /\ manifest.status = "pending"
        /\ \A t \in Tasks : task[t].status = "absent"
        /\ \A k \in Kernels : copy[k] = NoCopy
    BY DEF KernelInit, Init, AbsentRow, Kernels
  <1>4. RunningIsReady /\ SuccessIsComplete /\ RevisionIdentifies /\ manifest.plan <= MaxPlan
    BY <1>3, BoundsAssumption
       DEF RunningIsReady, SuccessIsComplete, RevisionIdentifies, Rows, Kernels
  <1>5. ASSUME NEW k \in Kernels
        PROVE  CallInv(k)
    <2>1. /\ pc[k] = "idle" /\ bound[k] = 0
          /\ \A t \in Tasks : work[k][t] = "waiting" /\ tries[k][t] = 0
      BY DEF KernelInit
    <2> QED
      BY <1>3, <2>1, TriesAssumption DEF CallInv
  <1> QED
    BY <1>2, <1>4, <1>5 DEF KernelInv

LEMMA MainStepKeeps ==
    ASSUME KernelInv, NEW k \in Kernels, MainStep(k)
    PROVE  KernelInv'
  <1>1. CASE Reconcile(k)
    BY <1>1, ReconcileKeepsCall
  <1>2. CASE CheckReceipts(k)
    BY <1>2, CheckReceiptsKeeps
  <1>3. CASE StopResume(k) \/ RefuseLoad(k) \/ LoseSave(k) \/ Abandon(k)
    BY <1>3, ForgetKeeps DEF StopResume, RefuseLoad, LoseSave, Abandon
  <1>4. CASE Load(k)
    BY <1>4, LoadKeepsCall
  <1>5. CASE Start(k)
    BY <1>5, StartKeeps
  <1>6. CASE Register(k)
    BY <1>6, RegisterKeepsCall
  <1>7. CASE Finish(k)
    BY <1>7, FinishKeeps
  <1>8. CASE Publish(k)
    BY <1>8, PublishKeeps
  <1> QED
    BY <1>1, <1>2, <1>3, <1>4, <1>5, <1>6, <1>7, <1>8 DEF MainStep

LEMMA WorkStepKeeps ==
    ASSUME KernelInv, NEW k \in Kernels, NEW t \in Tasks, WorkStep(k, t)
    PROVE  KernelInv'
  <1>1. ASSUME NEW now \in ReadBefore, ClaimTask(k, t, now)
        PROVE  KernelInv'
    BY <1>1, ClaimKeepsCall
  <1>2. ASSUME NEW now \in ReadBefore, ClaimRefused(k, t, now)
        PROVE  KernelInv'
    BY <1>2, RefusedKeeps
  <1>3. CASE CommitTask(k, t)
    BY <1>3, CommitKeeps
  <1>4. CASE CountDone(k, t)
    BY <1>4, CountKeeps
  <1>5. CASE FailTask(k, t)
    BY <1>5, FailKeeps
  <1>6. CASE LoseLease(k, t)
    BY <1>6, LoseKeeps
  <1>7. CASE Exhaust(k, t) \/ Block(k, t)
    BY <1>7, GiveUpKeeps DEF Exhaust, Block
  <1> QED
    BY <1>1, <1>2, <1>3, <1>4, <1>5, <1>6, <1>7 DEF WorkStep

LEMMA KernelInvStep == KernelInv /\ [KernelNext]_allVars => KernelInv'
  <1> SUFFICES ASSUME KernelInv, [KernelNext]_allVars PROVE KernelInv'
    OBVIOUS
  <1>1. ASSUME NEW k \in Kernels, Run(k) PROVE KernelInv'
    BY <1>1, RunKeeps
  <1>2. ASSUME NEW k \in Kernels, Resume(k) PROVE KernelInv'
    BY <1>2, ResumeKeeps
  <1>3. ASSUME NEW k \in Kernels, MainStep(k) PROVE KernelInv'
    BY <1>3, MainStepKeeps
  <1>4. ASSUME NEW k \in Kernels, NEW t \in Tasks, WorkStep(k, t) PROVE KernelInv'
    BY <1>4, WorkStepKeeps
  <1>5. ASSUME NEW k \in Kernels, NEW t \in Tasks, RenewLease(k, t) PROVE KernelInv'
    BY <1>5, RenewKeeps
  <1>6. ASSUME NEW k \in Kernels, Crash(k) PROVE KernelInv'
    BY <1>6, ForgetKeeps DEF Crash
  <1>7. CASE Cancel
    BY <1>7, CancelKeepsCalls
  <1>8. ASSUME NEW S \in SUBSET Tasks, Patch(S) PROVE KernelInv'
    BY <1>8, PatchKeepsCalls
  <1>9. CASE KernelTick
    BY <1>9, TickKeepsCalls
  <1>10. CASE UNCHANGED allVars
    <2>1. TypeOK' /\ Conserves /\ Revises /\ copy' = copy /\ UNCHANGED kernelVars
      BY <1>10, TypeStep, ConservesWhenStill DEF KernelInv, KernelTypeOK, allVars, vars
    <2> QED
      BY <2>1, WorldKeeps
  <1> QED
    BY <1>1, <1>2, <1>3, <1>4, <1>5, <1>6, <1>7, <1>8, <1>9, <1>10 DEF KernelNext

(* What calls, patches and cancellations may rely on, in every reachable   *)
(* state.                                                                  *)
THEOREM KernelInductive == KernelSpec => []KernelInv
  BY KernelInvInit, KernelInvStep, PTL DEF KernelSpec

(* Type correctness of the calls and the store under them.                 *)
THEOREM KernelTypeCorrect == KernelSpec => []KernelTypeOK
  <1>1. KernelInv => KernelTypeOK
    BY DEF KernelInv
  <1> QED
    BY <1>1, KernelInductive, PTL

(* No committed result outlives the results it was built on, whatever the  *)
(* calls that commit and the patches that take results away.               *)
THEOREM ResultsKeepTheirInputs == KernelSpec => []DependenciesCommitted
  <1>1. KernelInv => DependenciesCommitted
    BY DEF KernelInv, RunningIsReady, DependenciesCommitted, Rows
  <1> QED
    BY <1>1, KernelInductive, PTL

(* What a call takes as done is committed while its plan is the bound one, *)
(* though the checkpoint it came from was loaded earlier.                  *)
THEOREM CountedIsCommitted == KernelSpec => []DoneIsCommitted
  <1>1. KernelInv => DoneIsCommitted
    BY DoneRows DEF KernelInv, DoneIsCommitted
  <1> QED
    BY <1>1, KernelInductive, PTL

(* A run published as succeeded has every task committed.                  *)
THEOREM PublishedIsComplete == KernelSpec => []SuccessIsComplete
  <1>1. KernelInv => SuccessIsComplete
    BY DEF KernelInv
  <1> QED
    BY <1>1, KernelInductive, PTL

-----------------------------------------------------------------------------
(* Claims.                                                                 *)

(* A step that leaves no new attempt running.                              *)
StartsNothing ==
    \A t \in Tasks : task'[t].status = "running" => task'[t].fence = task[t].fence

LEMMA RevocationsStartNothing ==
    ASSUME TypeOK, CancelRun \/ \E now \in ReadBefore : ReconcileExpired(now)
    PROVE  StartsNothing
  <1>1. \A t \in Tasks : /\ Revoked(task[t], "pending").status = "pending"
                         /\ Revoked(task[t], "cancelled").status = "cancelled"
    BY RevokedFields DEF TypeOK, RowStatus
  <1> QED
    BY <1>1 DEF StartsNothing, CancelRun, ReconcileExpired

LEMMA MainStartsNothing ==
    ASSUME KernelInv, NEW k \in Kernels, MainStep(k)
    PROVE  StartsNothing
  <1>1. CASE Reconcile(k)
    BY <1>1, RevocationsStartNothing
       DEF Reconcile, KernelInv, KernelTypeOK, vars, StartsNothing
  <1>2. CASE Register(k)
    BY <1>2 DEF Register, RegisterTasks, AbsentRow, StartsNothing, vars
  <1>3. CASE Start(k)
    BY <1>3 DEF Start, SaveStatus, SaveManifest, StartsNothing
  <1>4. CASE ~(Reconcile(k) \/ Register(k) \/ Start(k))
    <2>1. task' = task
      BY <1>4 DEF MainStep, CheckReceipts, StopResume, Load, RefuseLoad, LoseSave, Abandon,
                  Finish, Publish, StoreRest, vars
    <2> QED
      BY <2>1 DEF StartsNothing
  <1> QED
    BY <1>1, <1>2, <1>3, <1>4

(* A task starts to run only with every dependency committed, whichever    *)
(* call claims it and however old what that call remembers.                *)
THEOREM ClaimsAreOnCommitted == KernelSpec => ClaimsAreReady
  <1> DEFINE Starts(t) == task'[t].fence # task[t].fence /\ task'[t].status = "running"
             Ready == \A t \in Tasks : Starts(t) => Deps[t] \subseteq Rows({"succeeded"})
  <1>1. ASSUME KernelInv, [KernelNext]_allVars
        PROVE  Ready
    <2>1. StartsNothing => Ready
      BY DEF StartsNothing
    <2>2. ASSUME NEW k \in Kernels, MainStep(k) PROVE Ready
      BY <1>1, <2>1, <2>2, MainStartsNothing
    <2>3. ASSUME NEW k \in Kernels, NEW t \in Tasks, WorkStep(k, t) PROVE Ready
      <3>1. ASSUME NEW now \in ReadBefore, ClaimTask(k, t, now) PROVE Ready
        BY <1>1, <3>1, ClaimKeepsCall
      <3>2. ASSUME NEW now \in ReadBefore, ClaimRefused(k, t, now) PROVE Ready
        BY <3>2 DEF ClaimRefused, vars
      <3>3. CASE CommitTask(k, t)
        BY <1>1, <3>3, CommitKeeps
      <3>4. CASE FailTask(k, t)
        BY <1>1, <3>4, FailKeeps
      <3>5. CASE CountDone(k, t) \/ LoseLease(k, t)
        BY <3>5 DEF CountDone, LoseLease, vars
      <3>6. CASE Exhaust(k, t) \/ Block(k, t)
        BY <1>1, <3>6, GiveUpKeeps DEF Exhaust, Block
      <3> QED
        BY <2>3, <3>1, <3>2, <3>3, <3>4, <3>5, <3>6 DEF WorkStep
    <2>4. ASSUME NEW k \in Kernels, NEW t \in Tasks, RenewLease(k, t) PROVE Ready
      BY <1>1, <2>4, RenewKeeps
    <2>5. CASE Cancel
      BY <1>1, <2>1, <2>5, RevocationsStartNothing DEF Cancel, KernelInv, KernelTypeOK
    <2>6. ASSUME NEW S \in SUBSET Tasks, Patch(S) PROVE Ready
      BY <1>1, <2>6, PatchKeepsCalls
    <2>7. ASSUME task' = task PROVE Ready
      BY <2>7
    <2>8. CASE (\E k \in Kernels : Run(k) \/ Resume(k) \/ Crash(k)) \/ KernelTick \/ UNCHANGED allVars
      <3>1. task' = task
        BY <2>8 DEF Run, Resume, Crash, KernelTick, Tick, StoreRest, vars, allVars
      <3> QED
        BY <2>7, <3>1
    <2> HIDE DEF Ready
    <2> QED
      BY <1>1, <2>2, <2>3, <2>4, <2>5, <2>6, <2>8 DEF KernelNext
  <1>2. KernelInv /\ [KernelNext]_allVars => [Ready]_allVars
    BY <1>1
  <1> QED
    BY <1>2, KernelInductive, PTL DEF KernelSpec, ClaimsAreReady
=============================================================================
