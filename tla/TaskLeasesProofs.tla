-------------------------- MODULE TaskLeasesProofs --------------------------
(***************************************************************************)
(* Proofs about TaskLeases, for any tasks, attempts, savers and times.     *)
(***************************************************************************)
EXTENDS TaskLeases, TLAPS

(* What UPDATE ... WHERE status='running' does to one attempt.             *)
LEMMA SettleOne ==
    ASSUME TypeOK, NEW ids, NEW s \in AttemptStatus
    PROVE  /\ Settle(ids, s) \in [Attempts -> AttemptStatus]
           /\ \A a \in Attempts :
                Settle(ids, s)[a] =
                  IF a \in ids /\ attempts[a] = "running" THEN s ELSE attempts[a]
  BY DEF Settle, TypeOK, AttemptStatus

(* The fields of the records the actions build.                            *)
LEMMA BumpedFields ==
    ASSUME NEW m \in Manifest
    PROVE  /\ Bumped(m) \in Manifest
           /\ Bumped(m).revision = m.revision + 1
           /\ Bumped(m).status = m.status
           /\ Bumped(m).plan = m.plan
           /\ Bumped(m).tasks = m.tasks
           /\ Bumped(m).recorded = m.recorded
           /\ Bumped(m).completed = m.completed
           /\ Bumped(m).failed = m.failed
           /\ Bumped(m).receipts = m.receipts
  <1>1. m.revision + 1 \in Nat
    BY DEF Manifest
  <1> QED
    BY <1>1 DEF Bumped, Manifest

LEMMA BindingFields ==
    ASSUME NEW m \in Manifest, NEW S \in SUBSET Tasks
    PROVE  /\ Binding(m, S) \in Manifest
           /\ Binding(m, S).revision = m.revision
           /\ Binding(m, S).status = m.status
           /\ Binding(m, S).plan = m.plan + 1
           /\ Binding(m, S).tasks = S
           /\ Binding(m, S).recorded = m.recorded \cup S
           /\ Binding(m, S).completed = m.completed
           /\ Binding(m, S).failed = m.failed
           /\ Binding(m, S).receipts = m.receipts
  <1>1. m.plan + 1 \in Nat
    BY DEF Manifest
  <1> QED
    BY <1>1 DEF Binding, Manifest

LEMMA RevokedFields ==
    ASSUME NEW row \in TaskRow, NEW s \in RowStatus
    PROVE  /\ Revoked(row, s) \in TaskRow
           /\ Revoked(row, s).status = s
           /\ Revoked(row, s).fence = row.fence + 1
           /\ Revoked(row, s).attempt = row.attempt
           /\ Revoked(row, s).result = row.result
  <1>1. row.fence + 1 \in Nat
    BY DEF TaskRow
  <1> QED
    BY <1>1 DEF Revoked, TaskRow, NoLease

LEMMA FinishedFields ==
    ASSUME NEW row \in TaskRow, NEW s \in RowStatus, NEW a \in Attempts
    PROVE  /\ Finished(row, s, a) \in TaskRow
           /\ Finished(row, s, a).status = s
           /\ Finished(row, s, a).fence = row.fence
           /\ Finished(row, s, a).attempt = row.attempt
           /\ Finished(row, s, a).result = a
  BY DEF Finished, TaskRow, NoLease, MaybeAttempt

LEMMA ClaimedFields ==
    ASSUME TypeOK, NEW t \in Tasks, NEW a \in Attempts, NEW now \in ReadBefore
    PROVE  /\ ClaimedRow(t, a, now) \in TaskRow
           /\ ClaimedRow(t, a, now).status = "running"
           /\ ClaimedRow(t, a, now).fence = task[t].fence + 1
           /\ ClaimedRow(t, a, now).attempt = a
           /\ ClaimedRow(t, a, now).result = task[t].result
  <1>1. task[t] \in TaskRow /\ task[t].fence + 1 \in Nat
    BY DEF TypeOK, TaskRow
  <1>2. now + LeaseTime \in Nat
    BY TimesAssumption DEF ReadBefore, TypeOK
  <1> QED
    BY <1>1, <1>2 DEF ClaimedRow, TaskRow, RowStatus, MaybeAttempt

(* What a patch makes of the manifest.                                     *)
LEMMA PatchFields ==
    ASSUME manifest \in Manifest, NEW base, NEW affected \in SUBSET Tasks,
           NEW removed \in SUBSET Tasks, NEW added \in SUBSET Tasks,
           ApplyPatch(base, affected, removed, added)
    PROVE  /\ manifest' \in Manifest
           /\ manifest'.revision = manifest.revision + 1
           /\ manifest'.status = "pending"
           /\ manifest'.plan = manifest.plan + 1
           /\ \A u \in Tasks :
                /\ u \in manifest'.tasks <=>
                     u \in added \/ (u \in manifest.tasks /\ u \notin removed)
                /\ u \in manifest'.recorded <=>
                     u \in manifest.recorded \/ u \in manifest'.tasks
                /\ u \in manifest'.completed <=> u \in manifest.completed /\ u \notin affected
                /\ u \in manifest'.failed <=> u \in manifest.failed /\ u \notin affected
                /\ manifest'.receipts[u] = IF u \in affected THEN NoAttempt
                                           ELSE manifest.receipts[u]
  <1> DEFINE plan == (manifest.tasks \ removed) \cup added
             m == Binding(Bumped(manifest), plan)
  <1>1. plan \in SUBSET Tasks
    BY DEF Manifest
  <1>2. Bumped(manifest) \in Manifest
    BY BumpedFields
  <1>3. /\ m \in Manifest
        /\ m.revision = manifest.revision + 1
        /\ m.plan = manifest.plan + 1
        /\ m.tasks = plan
        /\ m.recorded = manifest.recorded \cup plan
        /\ m.completed = manifest.completed
        /\ m.failed = manifest.failed
        /\ m.receipts = manifest.receipts
    <2> HIDE DEF plan
    <2> QED
      BY <1>1, <1>2, BumpedFields, BindingFields
  <1>4. manifest' = [m EXCEPT !.status = "pending",
                              !.completed = @ \ affected,
                              !.failed = @ \ affected,
                              !.receipts = [u \in Tasks |-> IF u \in affected
                                                            THEN NoAttempt ELSE @[u]]]
    BY DEF ApplyPatch
  <1> HIDE DEF plan, m
  <1>5. "pending" \in RunStatus /\ NoAttempt \in MaybeAttempt
    BY DEF RunStatus, MaybeAttempt
  <1> QED
    BY <1>3, <1>4, <1>5 DEF Manifest, plan

(* What a patch makes of a row.                                            *)
LEMMA PatchRow ==
    ASSUME NEW u \in Tasks, task[u] \in TaskRow, NEW base, NEW affected, NEW removed, NEW added,
           ApplyPatch(base, affected, removed, added)
    PROVE  /\ task[u].status # "running"
           /\ task'[u] \in TaskRow
           /\ \/ /\ task'[u] = task[u]
                 /\ u \notin affected \/ task[u].status = "absent"
              \/ /\ task[u].status = "absent"
                 /\ u \in (manifest.tasks \ removed) \cup added
                 /\ task'[u].status = "pending"
                 /\ task'[u].attempt = NoAttempt
              \/ /\ task[u].status # "absent"
                 /\ u \in affected
                 /\ task'[u].status = IF u \in removed THEN "cancelled" ELSE "pending"
                 /\ task'[u].fence = task[u].fence + 1
                 /\ task'[u].attempt = task[u].attempt
                 /\ task'[u].result = NoAttempt
  <1> DEFINE plan == (manifest.tasks \ removed) \cup added
             s == IF u \in removed THEN "cancelled" ELSE "pending"
  <1>1. task'[u] = PatchedRow(u, affected, removed, plan)
    BY DEF ApplyPatch
  <1>2. task[u].status # "running"
    BY DEF ApplyPatch, Quiescent, Rows
  <1>3. /\ [AbsentRow EXCEPT !.status = "pending"] \in TaskRow
        /\ [AbsentRow EXCEPT !.status = "pending"].status = "pending"
        /\ [AbsentRow EXCEPT !.status = "pending"].attempt = NoAttempt
    BY DEF AbsentRow, TaskRow, RowStatus, MaybeAttempt, NoLease
  <1>4. s \in RowStatus /\ NoAttempt \in MaybeAttempt
    BY DEF RowStatus, MaybeAttempt
  <1> HIDE DEF plan
  <1>5. CASE task[u].status = "absent" /\ u \in plan
    BY <1>1, <1>2, <1>3, <1>5 DEF PatchedRow, plan
  <1>6. CASE task[u].status = "absent" /\ u \notin plan
    BY <1>1, <1>2, <1>6 DEF PatchedRow
  <1>7. CASE task[u].status # "absent" /\ u \in affected
    <2>1. task'[u] = [Revoked(task[u], s) EXCEPT !.result = NoAttempt]
      BY <1>1, <1>7 DEF PatchedRow
    <2> HIDE DEF s
    <2>2. /\ Revoked(task[u], s) \in TaskRow
          /\ Revoked(task[u], s).status = s
          /\ Revoked(task[u], s).fence = task[u].fence + 1
          /\ Revoked(task[u], s).attempt = task[u].attempt
      BY <1>4, RevokedFields
    <2>3. /\ task'[u] \in TaskRow
          /\ task'[u].status = s
          /\ task'[u].fence = task[u].fence + 1
          /\ task'[u].attempt = task[u].attempt
          /\ task'[u].result = NoAttempt
      BY <1>4, <2>1, <2>2 DEF TaskRow
    <2> QED
      BY <1>2, <1>7, <2>3 DEF s
  <1>8. CASE task[u].status # "absent" /\ u \notin affected
    BY <1>1, <1>2, <1>8 DEF PatchedRow
  <1> QED
    BY <1>5, <1>6, <1>7, <1>8

-----------------------------------------------------------------------------
(* Every action keeps the types.                                           *)
LEMMA TypeInit == Init => TypeOK
  BY DEF Init, TypeOK, TaskRow, RowStatus, AbsentRow, NoLease, MaybeAttempt,
         AttemptStatus, Manifest, RunStatus

(* Whatever plan the caller of a claim or a transition expects.            *)
LEMMA TypeClaim ==
    ASSUME TypeOK, NEW t \in Tasks, NEW a \in Attempts, NEW now \in ReadBefore,
           NEW expected \in Nat, Claim(t, a, now, expected)
    PROVE  TypeOK'
  <1> USE DEF TypeOK
  <1>m. /\ Bumped(manifest) \in Manifest
        /\ \A u \in Tasks : task[u] \in TaskRow
    BY BumpedFields
  <1>1. task' \in [Tasks -> TaskRow]
    BY ClaimedFields DEF Claim
  <1>2. \A u \in Tasks : task'[u].status = "running" => task'[u].attempt \in Attempts
    BY ClaimedFields DEF Claim
  <1>3. attempts' \in [Attempts -> AttemptStatus]
    BY SettleOne DEF Claim, AttemptStatus
  <1>4. task[t].fence + 1 \in Nat
    BY <1>m DEF TaskRow
  <1>5. leases' \subseteq Lease
    BY <1>4 DEF Claim, Lease
  <1> QED
    BY <1>1, <1>2, <1>3, <1>5 DEF Claim

LEMMA TypeTransition ==
    ASSUME TypeOK, NEW t \in Tasks, NEW expected \in Nat, Transition(t, expected)
    PROVE  TypeOK'
  <1> USE DEF TypeOK
  <1>m. /\ Bumped(manifest) \in Manifest
        /\ \A u \in Tasks : task[u] \in TaskRow
    BY BumpedFields
  <1>1. manifest' \in Manifest
    BY <1>m DEF Transition, Manifest
  <1> QED
    BY <1>1 DEF Transition

LEMMA TypePatch ==
    ASSUME TypeOK, NEW base \in Nat, NEW affected \in SUBSET Tasks,
           NEW removed \in SUBSET Tasks, NEW added \in SUBSET Tasks,
           ApplyPatch(base, affected, removed, added)
    PROVE  TypeOK'
  <1> USE DEF TypeOK
  <1>1. manifest' \in Manifest
    BY PatchFields
  <1>2. \A t \in Tasks : task'[t] \in TaskRow /\ task'[t].status # "running"
    BY PatchRow
  <1>3. task' = [t \in Tasks |-> task'[t]]
    BY DEF ApplyPatch
  <1>4. artifacts' \in [Tasks -> MaybeAttempt]
    BY DEF ApplyPatch, MaybeAttempt
  <1>5. task' \in [Tasks -> TaskRow]
    BY <1>2, <1>3
  <1> QED
    BY <1>1, <1>2, <1>4, <1>5 DEF ApplyPatch

LEMMA TypeStep == TypeOK /\ [Next]_vars => TypeOK'
  <1> SUFFICES ASSUME TypeOK, [Next]_vars PROVE TypeOK'
    OBVIOUS
  <1> USE DEF TypeOK
  <1>m. /\ Bumped(manifest) \in Manifest
        /\ \A t \in Tasks : task[t] \in TaskRow
        /\ \A l \in leases : l.task \in Tasks /\ l.attempt \in Attempts
    BY BumpedFields DEF Lease
  <1>r. AbsentRow \in TaskRow /\ [AbsentRow EXCEPT !.status = "pending"] \in TaskRow
    BY DEF AbsentRow, TaskRow, RowStatus, MaybeAttempt, NoLease
  <1>1. ASSUME NEW S \in SUBSET Tasks, RegisterTasks(S)
        PROVE  TypeOK'
    BY <1>1, <1>r DEF RegisterTasks, AbsentRow
  <1>2. ASSUME NEW t \in Tasks, NEW a \in Attempts, NEW now \in ReadBefore,
               NEW expected \in 0..MaxRevision, Claim(t, a, now, expected)
        PROVE  TypeOK'
    <2> HIDE DEF TypeOK
    <2>1. expected \in Nat
      BY TimesAssumption
    <2> QED
      BY <1>2, <2>1, TypeClaim
  <1>3. ASSUME NEW l \in leases, Heartbeat(l)
        PROVE  TypeOK'
    <2>1. clock + LeaseTime \in Nat
      BY TimesAssumption
    <2>2. [task[l.task] EXCEPT !.until = clock + LeaseTime] \in TaskRow
      BY <1>m, <2>1 DEF TaskRow
    <2>3. task' \in [Tasks -> TaskRow]
      BY <1>3, <1>m, <2>2 DEF Heartbeat
    <2>4. \A u \in Tasks : /\ task'[u].status = task[u].status
                           /\ task'[u].attempt = task[u].attempt
      BY <1>3, <1>m DEF Heartbeat, TaskRow
    <2> QED
      BY <1>3, <2>3, <2>4 DEF Heartbeat
  <1>4. ASSUME NEW l \in leases, FinishSuccess(l)
        PROVE  TypeOK'
    <2>1. manifest' \in Manifest
      BY <1>4, <1>m DEF FinishSuccess, Manifest, MaybeAttempt
    <2>2. /\ Finished(task[l.task], "succeeded", l.attempt) \in TaskRow
          /\ Finished(task[l.task], "succeeded", l.attempt).status = "succeeded"
      BY <1>m, FinishedFields DEF RowStatus
    <2>3. task' \in [Tasks -> TaskRow]
      BY <1>4, <1>m, <2>2 DEF FinishSuccess
    <2>4. task'[l.task].status # "running"
      BY <1>4, <1>m, <2>2 DEF FinishSuccess
    <2>5. \A u \in Tasks \ {l.task} : task'[u] = task[u]
      BY <1>4, <1>m DEF FinishSuccess
    <2>6. attempts' \in [Attempts -> AttemptStatus] /\ artifacts' \in [Tasks -> MaybeAttempt]
      BY <1>4, <1>m DEF FinishSuccess, AttemptStatus, MaybeAttempt
    <2> QED
      BY <1>4, <2>1, <2>3, <2>4, <2>5, <2>6 DEF FinishSuccess
  <1>5. ASSUME NEW l \in leases, FinishFailure(l)
        PROVE  TypeOK'
    <2>2. /\ Finished(task[l.task], "failed", l.attempt) \in TaskRow
          /\ Finished(task[l.task], "failed", l.attempt).status = "failed"
      BY <1>m, FinishedFields DEF RowStatus
    <2>3. task' \in [Tasks -> TaskRow]
      BY <1>5, <1>m, <2>2 DEF FinishFailure
    <2>4. task'[l.task].status # "running"
      BY <1>5, <1>m, <2>2 DEF FinishFailure
    <2>5. \A u \in Tasks \ {l.task} : task'[u] = task[u]
      BY <1>5, <1>m DEF FinishFailure
    <2>6. attempts' \in [Attempts -> AttemptStatus]
      BY <1>5, <1>m DEF FinishFailure, AttemptStatus
    <2> QED
      BY <1>5, <2>3, <2>4, <2>5, <2>6 DEF FinishFailure
  <1>6. ASSUME NEW now \in ReadBefore, ReconcileExpired(now)
        PROVE  TypeOK'
    <2>1. \A t \in Tasks : Revoked(task[t], "pending") \in TaskRow
                           /\ Revoked(task[t], "pending").status = "pending"
      BY <1>m, RevokedFields DEF RowStatus
    <2>2. attempts' \in [Attempts -> AttemptStatus]
      BY <1>6, SettleOne DEF ReconcileExpired, AttemptStatus
    <2> QED
      BY <1>6, <2>1, <2>2 DEF ReconcileExpired
  <1>7. CASE CancelRun
    <2>1. \A t \in Tasks : Revoked(task[t], "cancelled") \in TaskRow
                           /\ Revoked(task[t], "cancelled").status = "cancelled"
      BY <1>m, RevokedFields DEF RowStatus
    <2>2. attempts' \in [Attempts -> AttemptStatus]
      BY <1>7, SettleOne DEF CancelRun, AttemptStatus
    <2>3. manifest' \in Manifest
      BY <1>7, <1>m DEF CancelRun, Manifest, RunStatus
    <2> QED
      BY <1>7, <2>1, <2>2, <2>3 DEF CancelRun
  <1>8. ASSUME NEW t \in Tasks, NEW expected \in 0..MaxRevision, Transition(t, expected)
        PROVE  TypeOK'
    <2> HIDE DEF TypeOK
    <2>1. expected \in Nat
      BY TimesAssumption
    <2> QED
      BY <1>8, <2>1, TypeTransition
  <1>9. ASSUME NEW base \in 0..MaxRevision, NEW affected \in SUBSET Tasks,
               NEW removed \in SUBSET Tasks, NEW added \in SUBSET Tasks,
               ApplyPatch(base, affected, removed, added)
        PROVE  TypeOK'
    <2> HIDE DEF TypeOK
    <2>1. base \in Nat
      BY TimesAssumption
    <2> QED
      BY <1>9, <2>1, TypePatch
  <1>10. ASSUME NEW k \in Savers, LoadManifest(k)
         PROVE  TypeOK'
    BY <1>10 DEF LoadManifest
  <1>11. ASSUME NEW k \in Savers, NEW changed \in Manifest, SaveManifest(k, changed)
         PROVE  TypeOK'
    BY <1>11, BumpedFields DEF SaveManifest
  <1>12. ASSUME NEW k \in Savers, NEW s \in {"running", "succeeded", "failed"},
                SaveStatus(k, s)
         PROVE  TypeOK'
    <2>1. [copy[k] EXCEPT !.status = s] \in Manifest
      BY <1>12 DEF SaveStatus, Manifest, RunStatus
    <2> QED
      BY <1>11, <1>12, <2>1 DEF SaveStatus
  <1>13. ASSUME NEW k \in Savers, NEW S \in SUBSET Tasks, ImportPlan(k, S)
         PROVE  TypeOK'
    <2>1. copy[k] \in Manifest
      BY <1>13 DEF ImportPlan
    <2>2. Binding(copy[k], S) \in Manifest
      BY <2>1, BindingFields
    <2> QED
      BY <1>11, <1>13, <2>2 DEF ImportPlan
  <1>14. CASE Tick
    BY <1>14 DEF Tick
  <1>15. CASE UNCHANGED vars
    BY <1>15 DEF vars
  <1> QED
    BY <1>1, <1>2, <1>3, <1>4, <1>5, <1>6, <1>7, <1>8, <1>9, <1>10, <1>12,
       <1>13, <1>14, <1>15 DEF Next

(* Type correctness, for every value of the constants.                     *)
THEOREM TypeCorrect == Spec => []TypeOK
  BY TypeInit, TypeStep, PTL DEF Spec
-----------------------------------------------------------------------------
(* The inductive invariant, one lemma per action that changes a row.       *)

LEMMA InvInit == Init => IInv
  <1> SUFFICES ASSUME Init PROVE IInv
    OBVIOUS
  <1>1. TypeOK
    BY TypeInit
  <1>2. LeaseLog
    BY DEF Init, LeaseLog, AbsentRow
  <1>3. LeaseExclusive
    BY DEF Init, LeaseExclusive, AbsentRow
  <1>4. CommitAgreement
    BY DEF Init, CommitAgreement, AbsentRow
  <1>5. RevisionIdentifies
    BY DEF Init, RevisionIdentifies
  <1> QED
    BY <1>1, <1>2, <1>3, <1>4, <1>5 DEF IInv

(* A row that was ever claimed has a lease, hence a used attempt.          *)
LEMMA RowAttemptUsed ==
    ASSUME TypeOK, LeaseLog, NEW t \in Tasks, task[t].attempt # NoAttempt
    PROVE  task[t].attempt \in Attempts /\ attempts[task[t].attempt] # "unused"
  BY DEF TypeOK, LeaseLog, Lease

LEMMA RegisterKeeps ==
    ASSUME IInv, TypeOK', NEW S \in SUBSET Tasks, RegisterTasks(S)
    PROVE  IInv'
  <1> DEFINE new == S \cap Rows({"absent"})
  <1>1. \A t \in new : /\ task[t].status = "absent"
                       /\ task'[t].status = "pending"
                       /\ task'[t].attempt = NoAttempt
    BY DEF RegisterTasks, Rows, AbsentRow
  <1>2. \A t \in Tasks \ new : task'[t] = task[t]
    BY DEF RegisterTasks
  <1>3. UNCHANGED <<attempts, artifacts, manifest, leases, copy>>
    BY DEF RegisterTasks
  <1> HIDE DEF new
  <1>4. \A l \in leases : l.task \in Tasks \ new
    BY <1>1 DEF IInv, TypeOK, LeaseLog, Lease
  <1>5. LeaseLog'
    BY <1>1, <1>2, <1>3, <1>4 DEF IInv, LeaseLog
  <1>6. \A t \in Tasks : \A a \in Attempts :
          task'[t].status = "running" /\ task'[t].attempt = a <=>
          task[t].status = "running" /\ task[t].attempt = a
    BY <1>1, <1>2
  <1>7. LeaseExclusive'
    BY <1>1, <1>2, <1>3, <1>6 DEF IInv, LeaseExclusive
  <1>8. CommitAgreement'
    BY <1>1, <1>2, <1>3 DEF IInv, CommitAgreement
  <1> QED
    BY <1>3, <1>5, <1>7, <1>8 DEF IInv, RevisionIdentifies

LEMMA ClaimKeeps ==
    ASSUME IInv, TypeOK', NEW t \in Tasks, NEW a \in Attempts,
           NEW now \in ReadBefore, NEW expected \in 0..MaxRevision,
           Claim(t, a, now, expected)
    PROVE  IInv'
  <1> DEFINE new == [task |-> t, attempt |-> a, fence |-> task[t].fence + 1,
                     plan |-> expected]
  <1>1. /\ task'[t].status = "running"
        /\ task'[t].fence = task[t].fence + 1
        /\ task'[t].attempt = a
        /\ \A u \in Tasks \ {t} : task'[u] = task[u]
    BY ClaimedFields DEF IInv, TypeOK, Claim
  <1>2. /\ attempts[a] = "unused"
        /\ attempts'[a] = "running"
        /\ \A b \in Attempts \ {a} :
             attempts'[b] = IF b = task[t].attempt /\ attempts[b] = "running"
                            THEN "expired" ELSE attempts[b]
    BY SettleOne DEF IInv, Claim, AttemptStatus
  <1>3. leases' = leases \cup {new}
    BY DEF Claim
  <1>4. UNCHANGED <<artifacts, manifest, copy>> /\ manifest.plan = expected
    BY DEF Claim
  <1>5. task[t].status \notin {"absent", "succeeded", "cancelled"}
    BY DEF Claim, Available
  <1>6. /\ \A l \in leases : l.attempt # a /\ l.attempt \in Attempts /\ l.task \in Tasks
        /\ \A u \in Tasks : task[u].attempt # a
        /\ \A u \in Tasks : task[u].fence \in Nat
    <2>1. \A l \in leases : l.attempt # a /\ l.attempt \in Attempts /\ l.task \in Tasks
      BY <1>2 DEF IInv, TypeOK, LeaseLog, Lease
    <2>2. \A u \in Tasks : task[u].attempt # a
      BY <1>2, RowAttemptUsed, NullsDistinct DEF IInv
    <2> QED
      BY <2>1, <2>2 DEF IInv, TypeOK, TaskRow
  <1>f. \A l \in leases : l.fence \in Nat
    BY DEF IInv, TypeOK, Lease
  <1>7. LeaseLog'
    <2>1. ASSUME NEW l \in leases'
          PROVE  /\ attempts'[l.attempt] # "unused"
                 /\ task'[l.task].status # "absent"
                 /\ l.fence <= task'[l.task].fence
                 /\ l.plan <= manifest'.plan
      <3>1. CASE l \in leases
        <4>1. /\ attempts'[l.attempt] # "unused"
              /\ task'[l.task].status # "absent"
              /\ l.plan <= manifest'.plan
          BY <1>1, <1>2, <1>4, <1>6, <3>1 DEF IInv, LeaseLog
        <4>2. l.fence <= task[l.task].fence
          BY <3>1 DEF IInv, LeaseLog
        <4>3. l.fence <= task'[l.task].fence
          BY <1>1, <1>6, <1>f, <3>1, <4>2
        <4> QED
          BY <4>1, <4>3
      <3>2. CASE l = new
        <4>1. manifest'.plan = expected /\ expected \in Nat
          BY <1>4, TimesAssumption
        <4> QED
          BY <1>1, <1>2, <1>6, <3>2, <4>1
      <3> QED
        BY <1>3, <3>1, <3>2
    <2>2. \A l, m \in leases' : l.attempt = m.attempt => l = m
      BY <1>3, <1>6 DEF IInv, LeaseLog
    <2>3. ASSUME NEW u \in Tasks, task'[u].attempt # NoAttempt
          PROVE  \E l \in leases' : l.task = u /\ l.attempt = task'[u].attempt
      <3>1. CASE u = t
        <4>1. new \in leases' /\ new.task = t /\ new.attempt = a
          BY <1>3
        <4> QED
          BY <1>1, <3>1, <4>1
      <3>2. CASE u # t
        BY <1>1, <1>3, <2>3, <3>2 DEF IInv, LeaseLog
      <3> QED
        BY <3>1, <3>2
    <2> QED
      BY <2>1, <2>2, <2>3 DEF LeaseLog
  <1>8. LeaseExclusive'
    <2>1. ASSUME NEW b \in Attempts
          PROVE  attempts'[b] = "running" <=>
                   \E u \in Tasks : task'[u].status = "running" /\ task'[u].attempt = b
      <3>1. CASE b = a
        BY <1>1, <1>2, <3>1
      <3>2. CASE b # a
        <4>1. attempts'[b] = "running" <=> attempts[b] = "running" /\ b # task[t].attempt
          BY <1>2, <3>2
        <4>2. attempts[b] = "running" <=>
                \E u \in Tasks : task[u].status = "running" /\ task[u].attempt = b
          BY DEF IInv, LeaseExclusive
        <4>3. \A u \in Tasks \ {t} : task[u].attempt = b => task[t].attempt # b
          BY NullsDistinct DEF IInv, LeaseExclusive
        <4> QED
          BY <1>1, <3>2, <4>1, <4>2, <4>3
      <3> QED
        BY <3>1, <3>2
    <2>2. ASSUME NEW u \in Tasks, NEW v \in Tasks, task'[u].attempt = task'[v].attempt
          PROVE  u = v \/ task'[u].attempt = NoAttempt
      BY <1>1, <1>6, <2>2 DEF IInv, LeaseExclusive
    <2> QED
      BY <2>1, <2>2 DEF LeaseExclusive
  <1>9. CommitAgreement'
    <2> SUFFICES ASSUME NEW u \in Tasks
                 PROVE  CommitAgreement!(u)'
      BY DEF CommitAgreement
    <2>1. CommitAgreement!(u)
      BY DEF IInv, CommitAgreement
    <2>2. CASE u = t
      BY <1>1, <1>4, <1>5, <2>1, <2>2
    <2>3. CASE u # t
      <3>1. u \in manifest.completed => artifacts[u] \in Attempts \ {a}
        BY <2>1, <1>6 DEF IInv, TypeOK, MaybeAttempt
      <3> QED
        BY <1>1, <1>2, <1>4, <2>1, <2>3, <3>1
    <2> QED
      BY <2>2, <2>3
  <1> QED
    BY <1>4, <1>7, <1>8, <1>9 DEF IInv, RevisionIdentifies

(* Rows keep status, fence, attempt and result; nothing else moves.        *)
LEMMA HeartbeatKeeps ==
    ASSUME IInv, TypeOK', NEW l \in leases, Heartbeat(l)
    PROVE  IInv'
  <1>1. \A u \in Tasks : /\ task'[u].status = task[u].status
                         /\ task'[u].fence = task[u].fence
                         /\ task'[u].attempt = task[u].attempt
                         /\ task'[u].result = task[u].result
    BY DEF IInv, TypeOK, Heartbeat, TaskRow, Lease
  <1>2. UNCHANGED <<attempts, artifacts, manifest, leases, copy>>
    BY DEF Heartbeat
  <1>3. \A m \in leases : m.task \in Tasks
    BY DEF IInv, TypeOK, Lease
  <1>4. LeaseLog' /\ LeaseExclusive'
    BY <1>1, <1>2, <1>3 DEF IInv, LeaseLog, LeaseExclusive
  <1>5. CommitAgreement'
    BY <1>1, <1>2 DEF IInv, CommitAgreement
  <1> QED
    BY <1>2, <1>4, <1>5 DEF IInv, RevisionIdentifies

(* Both finishes end a running attempt the same way but for its status.    *)
LEMMA FinishedKeepsLeases ==
    ASSUME IInv, TypeOK', NEW l \in leases, NEW s \in {"succeeded", "failed"},
           Holds(l),
           task' = [task EXCEPT ![l.task] = Finished(@, s, l.attempt)],
           attempts' = [attempts EXCEPT ![l.attempt] = s],
           manifest'.plan = manifest.plan,
           UNCHANGED leases
    PROVE  LeaseLog' /\ LeaseExclusive'
  <1>1. /\ l.task \in Tasks /\ l.attempt \in Attempts
        /\ task[l.task].status = "running"
        /\ task[l.task].attempt = l.attempt
    BY DEF IInv, TypeOK, Lease, Holds
  <1>a. task \in [Tasks -> TaskRow] /\ task[l.task] \in TaskRow
    BY <1>1 DEF IInv, TypeOK
  <1>s. s \in RowStatus
    BY DEF RowStatus
  <1> DEFINE r == Finished(task[l.task], s, l.attempt)
  <1>b. /\ r.status = s
        /\ r.fence = task[l.task].fence
        /\ r.attempt = task[l.task].attempt
        /\ r.result = l.attempt
    BY <1>1, <1>a, <1>s, FinishedFields
  <1>2. \A u \in Tasks : /\ task'[u].fence = task[u].fence
                         /\ task'[u].attempt = task[u].attempt
                         /\ u # l.task => task'[u] = task[u]
    BY <1>1, <1>a, <1>b
  <1>3. task'[l.task].status = s /\ s \notin {"running", "absent", "unused"}
    BY <1>1, <1>a, <1>b
  <1>4. /\ attempts'[l.attempt] = s
        /\ \A b \in Attempts \ {l.attempt} : attempts'[b] = attempts[b]
    BY <1>1 DEF IInv, TypeOK
  <1>5. \A m \in leases : m.task \in Tasks /\ m.attempt \in Attempts
    BY DEF IInv, TypeOK, Lease
  <1>6. LeaseLog'
    BY <1>2, <1>3, <1>4, <1>5 DEF IInv, LeaseLog
  <1>7. ASSUME NEW b \in Attempts
        PROVE  attempts'[b] = "running" <=>
                 \E u \in Tasks : task'[u].status = "running" /\ task'[u].attempt = b
    <2>1. attempts[b] = "running" <=>
            \E u \in Tasks : task[u].status = "running" /\ task[u].attempt = b
      BY DEF IInv, LeaseExclusive
    <2>2. \A u \in Tasks : task[u].attempt = l.attempt => u = l.task
      BY <1>1, NullsDistinct DEF IInv, LeaseExclusive
    <2>3. CASE b = l.attempt
      BY <1>2, <1>3, <1>4, <2>2, <2>3
    <2>4. CASE b # l.attempt
      BY <1>1, <1>2, <1>3, <1>4, <2>1, <2>4
    <2> QED
      BY <2>3, <2>4
  <1>8. LeaseExclusive'
    BY <1>2, <1>7 DEF IInv, LeaseExclusive
  <1> QED
    BY <1>6, <1>8

LEMMA FinishSuccessKeeps ==
    ASSUME IInv, TypeOK', NEW l \in leases, FinishSuccess(l)
    PROVE  IInv'
  <1> DEFINE t == l.task
  <1>1. /\ t \in Tasks /\ l.attempt \in Attempts
        /\ task[t].status = "running" /\ task[t].attempt = l.attempt
    BY DEF IInv, TypeOK, Lease, FinishSuccess, Holds
  <1>a. task \in [Tasks -> TaskRow] /\ task[t] \in TaskRow
    BY <1>1 DEF IInv, TypeOK
  <1>s. "succeeded" \in RowStatus
    BY DEF RowStatus
  <1> DEFINE r == Finished(task[t], "succeeded", l.attempt)
  <1>b. /\ r.status = "succeeded"
        /\ r.fence = task[t].fence
        /\ r.attempt = task[t].attempt
        /\ r.result = l.attempt
    BY <1>1, <1>a, <1>s, FinishedFields
  <1>2. /\ task'[t].status = "succeeded"
        /\ task'[t].attempt = l.attempt
        /\ task'[t].result = l.attempt
        /\ \A u \in Tasks \ {t} : task'[u] = task[u]
    BY <1>1, <1>a, <1>b DEF FinishSuccess
  <1>3. /\ manifest'.plan = manifest.plan
        /\ manifest'.revision = manifest.revision + 1
        /\ manifest'.completed = manifest.completed \cup {t}
        /\ manifest'.failed = manifest.failed \ {t}
        /\ manifest'.receipts = [manifest.receipts EXCEPT ![t] = l.attempt]
    BY BumpedFields DEF IInv, TypeOK, FinishSuccess, Manifest
  <1>4. /\ artifacts' = [artifacts EXCEPT ![t] = l.attempt]
        /\ attempts' = [attempts EXCEPT ![l.attempt] = "succeeded"]
        /\ UNCHANGED <<leases, copy>>
    BY DEF FinishSuccess
  <1>5. LeaseLog' /\ LeaseExclusive'
    BY <1>3, <1>4, FinishedKeepsLeases DEF FinishSuccess
  <1>6. CommitAgreement'
    <2> SUFFICES ASSUME NEW u \in Tasks
                 PROVE  CommitAgreement!(u)'
      BY DEF CommitAgreement
    <2>1. CommitAgreement!(u)
      BY DEF IInv, CommitAgreement
    <2>2. CASE u = t
      BY <1>1, <1>2, <1>3, <1>4, <2>2, NullsDistinct DEF IInv, TypeOK, Manifest
    <2>3. CASE u # t
      <3>1. /\ artifacts'[u] = artifacts[u]
            /\ manifest'.receipts[u] = manifest.receipts[u]
        BY <1>1, <1>3, <1>4, <2>3 DEF IInv, TypeOK, Manifest
      <3>2. u \in manifest.completed => attempts'[artifacts[u]] = "succeeded"
        BY <1>1, <1>4, <2>1 DEF IInv, TypeOK, MaybeAttempt
      <3> QED
        BY <1>2, <1>3, <2>1, <2>3, <3>1, <3>2
    <2> QED
      BY <2>2, <2>3
  <1>7. RevisionIdentifies'
    BY <1>3, <1>4 DEF IInv, TypeOK, Manifest, RevisionIdentifies
  <1> QED
    BY <1>5, <1>6, <1>7 DEF IInv

LEMMA FinishFailureKeeps ==
    ASSUME IInv, TypeOK', NEW l \in leases, FinishFailure(l)
    PROVE  IInv'
  <1>1. /\ l.task \in Tasks /\ l.attempt \in Attempts
        /\ task[l.task].status = "running" /\ task[l.task].attempt = l.attempt
        /\ attempts[l.attempt] = "running"
    BY DEF IInv, TypeOK, Lease, FinishFailure, Holds, LeaseExclusive
  <1>a. task \in [Tasks -> TaskRow] /\ task[l.task] \in TaskRow
    BY <1>1 DEF IInv, TypeOK
  <1>s. "failed" \in RowStatus
    BY DEF RowStatus
  <1> DEFINE r == Finished(task[l.task], "failed", l.attempt)
  <1>b. /\ r.status = "failed"
        /\ r.fence = task[l.task].fence
        /\ r.attempt = task[l.task].attempt
        /\ r.result = l.attempt
    BY <1>1, <1>a, <1>s, FinishedFields
  <1>2. /\ task'[l.task].status = "failed"
        /\ \A u \in Tasks \ {l.task} : task'[u] = task[u]
    BY <1>1, <1>a, <1>b DEF FinishFailure
  <1>3. /\ UNCHANGED <<artifacts, manifest, leases, copy>>
        /\ attempts' = [attempts EXCEPT ![l.attempt] = "failed"]
    BY DEF FinishFailure
  <1>4. LeaseLog' /\ LeaseExclusive'
    BY <1>3, FinishedKeepsLeases DEF FinishFailure
  <1>5. CommitAgreement'
    <2> SUFFICES ASSUME NEW u \in Tasks
                 PROVE  CommitAgreement!(u)'
      BY DEF CommitAgreement
    <2>1. CommitAgreement!(u)
      BY DEF IInv, CommitAgreement
    <2>2. u \in manifest.completed =>
            u # l.task /\ attempts'[artifacts[u]] = "succeeded"
      BY <1>1, <1>3, <2>1 DEF IInv, TypeOK, MaybeAttempt
    <2> QED
      BY <1>1, <1>2, <1>3, <2>1, <2>2
  <1> QED
    BY <1>3, <1>4, <1>5 DEF IInv, RevisionIdentifies

(* Revoking rows and settling exactly the attempts that ran on them.       *)
LEMMA RevokedKeepsLeases ==
    ASSUME IInv, NEW E \in SUBSET Tasks, NEW s \in {"pending", "cancelled"},
           NEW ids, NEW e \in {"expired", "cancelled"},
           \A t \in E : task[t].status \notin {"absent", "succeeded"},
           \A b \in Attempts : attempts[b] = "running" =>
              (b \in ids <=> \E t \in E : task[t].status = "running" /\ task[t].attempt = b),
           task' = [t \in Tasks |-> IF t \in E THEN Revoked(task[t], s) ELSE task[t]],
           attempts' = Settle(ids, e),
           UNCHANGED <<leases, artifacts>>,
           manifest'.plan = manifest.plan,
           manifest'.completed = manifest.completed,
           manifest'.failed = manifest.failed,
           manifest'.receipts = manifest.receipts
    PROVE  LeaseLog' /\ LeaseExclusive' /\ CommitAgreement'
  <1>s. s \in RowStatus /\ e \in AttemptStatus
    BY DEF RowStatus, AttemptStatus
  <1>a. \A t \in Tasks : task[t] \in TaskRow /\ task[t].fence \in Nat
    BY DEF IInv, TypeOK, TaskRow
  <1>1. \A t \in E : /\ task'[t].status = s
                     /\ task'[t].fence = task[t].fence + 1
                     /\ task'[t].attempt = task[t].attempt
    BY <1>s, <1>a, RevokedFields
  <1>2. \A t \in Tasks \ E : task'[t] = task[t]
    OBVIOUS
  <1>3. \A b \in Attempts :
          attempts'[b] = IF b \in ids /\ attempts[b] = "running" THEN e ELSE attempts[b]
    BY <1>s, SettleOne DEF IInv
  <1>4. \A m \in leases : m.task \in Tasks /\ m.attempt \in Attempts /\ m.fence \in Nat
    BY DEF IInv, TypeOK, Lease
  <1>5. LeaseLog'
    <2>1. ASSUME NEW m \in leases
          PROVE  /\ attempts'[m.attempt] # "unused"
                 /\ task'[m.task].status # "absent"
                 /\ m.fence <= task'[m.task].fence
                 /\ m.plan <= manifest'.plan
      <3>1. /\ attempts[m.attempt] # "unused"
            /\ task[m.task].status # "absent"
            /\ m.fence <= task[m.task].fence
            /\ m.plan <= manifest.plan
        BY DEF IInv, LeaseLog
      <3>2. m.fence \in Nat /\ task[m.task].fence \in Nat /\ m.task \in Tasks
        BY <1>4, <1>a
      <3>3. CASE m.task \in E
        <4>1. m.fence <= task'[m.task].fence
          BY <1>1, <3>1, <3>2, <3>3
        <4> QED
          BY <1>1, <1>3, <1>4, <3>1, <3>3, <4>1
      <3>4. CASE m.task \notin E
        BY <1>2, <1>3, <1>4, <3>1, <3>2, <3>4
      <3> QED
        BY <3>3, <3>4
    <2>2. \A l, m \in leases : l.attempt = m.attempt => l = m
      BY DEF IInv, LeaseLog
    <2>3. \A t \in Tasks : task'[t].attempt = task[t].attempt
      BY <1>1, <1>2
    <2>4. \A t \in Tasks : task[t].attempt # NoAttempt =>
            \E l \in leases : l.task = t /\ l.attempt = task[t].attempt
      BY DEF IInv, LeaseLog
    <2> QED
      BY <2>1, <2>2, <2>3, <2>4 DEF LeaseLog
  <1>6. LeaseExclusive'
    <2>1. ASSUME NEW b \in Attempts
          PROVE  attempts'[b] = "running" <=>
                   \E t \in Tasks : task'[t].status = "running" /\ task'[t].attempt = b
      <3>1. attempts[b] = "running" <=>
              \E t \in Tasks : task[t].status = "running" /\ task[t].attempt = b
        BY DEF IInv, LeaseExclusive
      <3>2. \A t, u \in Tasks : task[t].attempt = b /\ task[u].attempt = b => t = u
        BY NullsDistinct DEF IInv, LeaseExclusive
      <3>3. attempts'[b] = "running" <=> attempts[b] = "running" /\ b \notin ids
        BY <1>3
      <3>4. \A t \in Tasks : task'[t].status = "running" /\ task'[t].attempt = b <=>
                               t \notin E /\ task[t].status = "running" /\ task[t].attempt = b
        BY <1>1, <1>2
      <3> QED
        BY <3>1, <3>2, <3>3, <3>4
    <2>2. \A t, u \in Tasks :
            task'[t].attempt = task'[u].attempt => t = u \/ task'[t].attempt = NoAttempt
      BY <1>1, <1>2 DEF IInv, LeaseExclusive
    <2> QED
      BY <2>1, <2>2 DEF LeaseExclusive
  <1>7. CommitAgreement'
    <2> SUFFICES ASSUME NEW u \in Tasks
                 PROVE  CommitAgreement!(u)'
      BY DEF CommitAgreement
    <2>1. CommitAgreement!(u)
      BY DEF IInv, CommitAgreement
    <2>2. CASE u \in E
      BY <1>1, <2>1, <2>2
    <2>3. CASE u \notin E
      <3>1. u \in manifest.completed => artifacts[u] \in Attempts
        BY <2>1 DEF IInv, TypeOK, MaybeAttempt
      <3> QED
        BY <1>2, <1>3, <2>1, <2>3, <3>1
    <2> QED
      BY <2>2, <2>3
  <1> QED
    BY <1>5, <1>6, <1>7

LEMMA ReconcileKeeps ==
    ASSUME IInv, TypeOK', NEW now \in ReadBefore, ReconcileExpired(now)
    PROVE  IInv'
  <1> DEFINE E == {t \in Rows({"running"}) : task[t].until <= now}
             ids == {task[t].attempt : t \in E}
  <1>1. E \in SUBSET Tasks /\ \A t \in E : task[t].status = "running"
    BY DEF Rows
  <1>2. /\ task' = [t \in Tasks |-> IF t \in E THEN Revoked(task[t], "pending") ELSE task[t]]
        /\ attempts' = Settle(ids, "expired")
        /\ UNCHANGED <<artifacts, manifest, leases, copy>>
    BY DEF ReconcileExpired
  <1>3. \A b : b \in ids <=> \E t \in E : task[t].attempt = b
    OBVIOUS
  <1> HIDE DEF E, ids
  <1>4. \A b \in Attempts : attempts[b] = "running" =>
          (b \in ids <=> \E t \in E : task[t].status = "running" /\ task[t].attempt = b)
    BY <1>1, <1>3
  <1>5. LeaseLog' /\ LeaseExclusive' /\ CommitAgreement'
    BY <1>1, <1>2, <1>4, RevokedKeepsLeases
  <1> QED
    BY <1>2, <1>5 DEF IInv, RevisionIdentifies

LEMMA CancelKeeps ==
    ASSUME IInv, TypeOK', CancelRun
    PROVE  IInv'
  <1> DEFINE E == Rows({"pending", "running", "failed", "cancelled"})
  <1>1. /\ E \in SUBSET Tasks
        /\ \A t \in E : task[t].status \notin {"absent", "succeeded"}
        /\ \A t \in Tasks : task[t].status = "running" => t \in E
    BY DEF Rows
  <1>2. /\ task' = [t \in Tasks |-> IF t \in E THEN Revoked(task[t], "cancelled") ELSE task[t]]
        /\ attempts' = Settle(Attempts, "cancelled")
        /\ UNCHANGED <<artifacts, leases, copy>>
    BY DEF CancelRun
  <1>3. /\ manifest'.plan = manifest.plan
        /\ manifest'.revision = manifest.revision + 1
        /\ manifest'.completed = manifest.completed
        /\ manifest'.failed = manifest.failed
        /\ manifest'.receipts = manifest.receipts
    BY BumpedFields DEF IInv, TypeOK, CancelRun, Manifest
  <1> HIDE DEF E
  <1>4. \A b \in Attempts : attempts[b] = "running" =>
          (b \in Attempts <=> \E t \in E : task[t].status = "running" /\ task[t].attempt = b)
    BY <1>1 DEF IInv, LeaseExclusive
  <1>5. LeaseLog' /\ LeaseExclusive' /\ CommitAgreement'
    BY <1>1, <1>2, <1>3, <1>4, RevokedKeepsLeases
  <1>6. RevisionIdentifies'
    BY <1>2, <1>3 DEF IInv, TypeOK, Manifest, RevisionIdentifies
  <1> QED
    BY <1>5, <1>6 DEF IInv

LEMMA TransitionKeeps ==
    ASSUME IInv, TypeOK', NEW t \in Tasks, NEW expected \in 0..MaxRevision,
           Transition(t, expected)
    PROVE  IInv'
  <1>1. /\ manifest'.plan = manifest.plan
        /\ manifest'.revision = manifest.revision + 1
        /\ manifest'.completed = manifest.completed
        /\ manifest'.failed = manifest.failed \cup {t}
        /\ manifest'.receipts = manifest.receipts
    BY BumpedFields DEF IInv, TypeOK, Transition, Manifest
  <1>2. /\ UNCHANGED <<task, attempts, artifacts, leases, copy>>
        /\ task[t].status # "succeeded"
    BY DEF Transition
  <1>3. LeaseLog' /\ LeaseExclusive' /\ CommitAgreement'
    BY <1>1, <1>2 DEF IInv, LeaseLog, LeaseExclusive, CommitAgreement
  <1>4. RevisionIdentifies'
    BY <1>1, <1>2 DEF IInv, TypeOK, Manifest, RevisionIdentifies
  <1> QED
    BY <1>3, <1>4 DEF IInv

(* A patch runs beside no attempt, so it only moves settled rows.          *)
LEMMA PatchKeeps ==
    ASSUME IInv, TypeOK', NEW base \in 0..MaxRevision, NEW affected \in SUBSET Tasks,
           NEW removed \in SUBSET Tasks, NEW added \in SUBSET Tasks,
           ApplyPatch(base, affected, removed, added)
    PROVE  IInv'
  <1>1. /\ manifest'.plan = manifest.plan + 1 /\ manifest.plan \in Nat
        /\ manifest'.revision = manifest.revision + 1
        /\ \A u \in Tasks :
             /\ u \in manifest'.completed <=> u \in manifest.completed /\ u \notin affected
             /\ u \in manifest'.failed <=> u \in manifest.failed /\ u \notin affected
             /\ manifest'.receipts[u] =
                  IF u \in affected THEN NoAttempt ELSE manifest.receipts[u]
    <2>1. manifest \in Manifest /\ manifest.plan \in Nat
      BY DEF IInv, TypeOK, Manifest
    <2> QED
      BY <2>1, PatchFields
  <1>2. /\ UNCHANGED <<attempts, leases, copy>>
        /\ \A u \in Tasks : artifacts'[u] = IF u \in affected THEN NoAttempt ELSE artifacts[u]
    BY DEF ApplyPatch
  <1>a. \A u \in Tasks : task[u] \in TaskRow /\ task[u].fence \in Nat
    BY DEF IInv, TypeOK, TaskRow
  <1> DEFINE new == {u \in Tasks : task[u].status = "absent" /\ task'[u] # task[u]}
  <1>3. \A u \in Tasks : task[u].status # "running"
    BY <1>a, PatchRow
  <1>4. \A u \in new : /\ task[u].status = "absent"
                       /\ task'[u].status = "pending"
                       /\ task'[u].attempt = NoAttempt
    BY <1>a, PatchRow
  <1>5. ASSUME NEW u \in Tasks \ new, u \in affected, task[u].status # "absent"
        PROVE  /\ task'[u].status \in {"pending", "cancelled"}
               /\ task'[u].fence = task[u].fence + 1
               /\ task'[u].attempt = task[u].attempt
    BY <1>a, <1>5, PatchRow
  <1>6. ASSUME NEW u \in Tasks \ new, ~(u \in affected /\ task[u].status # "absent")
        PROVE  task'[u] = task[u]
    BY <1>a, <1>6, PatchRow
  <1> HIDE DEF new
  <1>7. \A m \in leases : m.task \in Tasks \ new /\ m.fence \in Nat /\ m.plan \in Nat
    BY <1>4 DEF IInv, TypeOK, LeaseLog, Lease
  <1>8. LeaseLog'
    <2>1. ASSUME NEW m \in leases
          PROVE  /\ attempts'[m.attempt] # "unused"
                 /\ task'[m.task].status # "absent"
                 /\ m.fence <= task'[m.task].fence
                 /\ m.plan <= manifest'.plan
      <3>1. /\ attempts[m.attempt] # "unused"
            /\ task[m.task].status # "absent"
            /\ m.fence <= task[m.task].fence
            /\ m.plan <= manifest.plan
        BY DEF IInv, LeaseLog
      <3>2. task'[m.task].status # "absent" /\ m.fence <= task'[m.task].fence
        BY <1>5, <1>6, <1>7, <1>a, <3>1
      <3>3. m.plan <= manifest'.plan
        BY <1>1, <1>7, <3>1
      <3> QED
        BY <1>2, <3>1, <3>2, <3>3
    <2>2. \A l, m \in leases' : l.attempt = m.attempt => l = m
      BY <1>2 DEF IInv, LeaseLog
    <2>3. \A u \in Tasks : task'[u].attempt \in {task[u].attempt, NoAttempt}
      BY <1>4, <1>5, <1>6
    <2>4. \A u \in Tasks : task[u].attempt # NoAttempt =>
            \E l \in leases : l.task = u /\ l.attempt = task[u].attempt
      BY DEF IInv, LeaseLog
    <2> QED
      BY <1>2, <2>1, <2>2, <2>3, <2>4 DEF LeaseLog
  <1>9. LeaseExclusive'
    <2>1. \A b \in Attempts : attempts'[b] # "running"
      BY <1>2, <1>3 DEF IInv, LeaseExclusive
    <2>2. \A u \in Tasks : task'[u].status # "running"
      BY <1>3, <1>4, <1>5, <1>6
    <2>3. \A u \in Tasks : task'[u].attempt \in {task[u].attempt, NoAttempt}
      BY <1>4, <1>5, <1>6
    <2> QED
      BY <2>1, <2>2, <2>3 DEF IInv, LeaseExclusive
  <1>10. CommitAgreement'
    <2> SUFFICES ASSUME NEW u \in Tasks
                 PROVE  CommitAgreement!(u)'
      BY DEF CommitAgreement
    <2>1. CommitAgreement!(u)
      BY DEF IInv, CommitAgreement
    <2>2. CASE u \in affected
      <3>1. task'[u].status # "succeeded"
        BY <1>4, <1>5, <1>6, <2>2
      <3> QED
        BY <1>1, <1>2, <2>2, <3>1
    <2>3. CASE u \notin affected
      <3>1. /\ artifacts'[u] = artifacts[u]
            /\ manifest'.receipts[u] = manifest.receipts[u]
            /\ u \in manifest'.completed <=> u \in manifest.completed
            /\ u \in manifest'.failed <=> u \in manifest.failed
        BY <1>1, <1>2, <2>3
      <3>2. CASE u \in new
        BY <1>4, <2>1, <3>1, <3>2
      <3>3. CASE u \notin new
        BY <1>2, <1>6, <2>1, <2>3, <3>1, <3>3
      <3> QED
        BY <3>2, <3>3
    <2> QED
      BY <2>2, <2>3
  <1>11. RevisionIdentifies'
    BY <1>1, <1>2 DEF IInv, TypeOK, Manifest, RevisionIdentifies
  <1> QED
    BY <1>8, <1>9, <1>10, <1>11 DEF IInv

(* A saver that passes the revision check holds the stored manifest.       *)
LEMMA CurrentCopyIsStored ==
    ASSUME IInv, NEW k \in Savers, CurrentCopy(k)
    PROVE  copy[k] = manifest
  BY DEF IInv, RevisionIdentifies, CurrentCopy

LEMMA SaveKeeps ==
    ASSUME IInv, TypeOK', NEW k \in Savers, NEW changed \in Manifest,
           SaveManifest(k, changed),
           changed.revision = manifest.revision,
           changed.plan >= manifest.plan,
           changed.completed = manifest.completed,
           changed.failed = manifest.failed,
           changed.receipts = manifest.receipts
    PROVE  IInv'
  <1>1. /\ manifest'.plan = changed.plan
        /\ manifest'.revision = manifest.revision + 1
        /\ manifest'.completed = manifest.completed
        /\ manifest'.failed = manifest.failed
        /\ manifest'.receipts = manifest.receipts
        /\ manifest.revision \in Nat /\ manifest.plan \in Nat /\ changed.plan \in Nat
    BY BumpedFields DEF IInv, TypeOK, SaveManifest, Manifest
  <1>2. /\ UNCHANGED <<task, attempts, artifacts, leases>>
        /\ \A j \in Savers : copy'[j] = IF j = k THEN manifest' ELSE copy[j]
    BY DEF IInv, TypeOK, SaveManifest
  <1>3. \A l \in leases : l.plan \in Nat
    BY DEF IInv, TypeOK, Lease
  <1>4. LeaseLog'
    BY <1>1, <1>2, <1>3 DEF IInv, LeaseLog
  <1>5. LeaseExclusive' /\ CommitAgreement'
    BY <1>1, <1>2 DEF IInv, LeaseExclusive, CommitAgreement
  <1>6. RevisionIdentifies'
    <2> SUFFICES ASSUME NEW j \in Savers, copy'[j] # NoCopy
                 PROVE  /\ copy'[j].revision <= manifest'.revision
                        /\ copy'[j].revision = manifest'.revision => copy'[j] = manifest'
      BY DEF RevisionIdentifies
    <2>1. CASE j = k
      BY <1>1, <1>2, <2>1
    <2>2. CASE j # k
      <3>1. copy[j] \in Manifest /\ copy[j].revision \in Nat
        BY <1>2, <2>2 DEF IInv, TypeOK, Manifest
      <3>2. copy[j].revision <= manifest.revision
        BY <1>2, <2>2 DEF IInv, RevisionIdentifies
      <3> QED
        BY <1>1, <1>2, <2>2, <3>1, <3>2
    <2> QED
      BY <2>1, <2>2
  <1> QED
    BY <1>4, <1>5, <1>6 DEF IInv

LEMMA SaveStatusKeeps ==
    ASSUME IInv, TypeOK', NEW k \in Savers, NEW s \in {"running", "succeeded", "failed"},
           SaveStatus(k, s)
    PROVE  IInv'
  <1>1. copy[k] = manifest /\ SaveManifest(k, [manifest EXCEPT !.status = s])
    BY CurrentCopyIsStored DEF SaveStatus, SaveManifest
  <1>2. manifest \in Manifest /\ s \in RunStatus /\ manifest.plan \in Nat
    BY DEF IInv, TypeOK, Manifest, RunStatus
  <1> DEFINE c == [manifest EXCEPT !.status = s]
  <1>3. /\ c \in Manifest
        /\ c.revision = manifest.revision
        /\ c.plan = manifest.plan
        /\ c.completed = manifest.completed
        /\ c.failed = manifest.failed
        /\ c.receipts = manifest.receipts
    BY <1>2 DEF Manifest
  <1>4. SaveManifest(k, c)
    BY <1>1
  <1> HIDE DEF c
  <1>5. c.plan >= manifest.plan
    BY <1>2, <1>3
  <1> QED
    BY <1>3, <1>4, <1>5, SaveKeeps

LEMMA ImportKeeps ==
    ASSUME IInv, TypeOK', NEW k \in Savers, NEW S \in SUBSET Tasks, ImportPlan(k, S)
    PROVE  IInv'
  <1>1. copy[k] = manifest /\ SaveManifest(k, Binding(manifest, S))
    BY CurrentCopyIsStored DEF ImportPlan, SaveManifest
  <1>2. manifest \in Manifest /\ manifest.plan \in Nat
    BY DEF IInv, TypeOK, Manifest
  <1> QED
    BY <1>1, <1>2, BindingFields, SaveKeeps

LEMMA LoadKeeps ==
    ASSUME IInv, TypeOK', NEW k \in Savers, LoadManifest(k)
    PROVE  IInv'
  <1>1. /\ UNCHANGED <<task, attempts, artifacts, manifest, leases>>
        /\ \A j \in Savers : copy'[j] = IF j = k THEN manifest ELSE copy[j]
    BY DEF IInv, TypeOK, LoadManifest
  <1>2. LeaseLog' /\ LeaseExclusive' /\ CommitAgreement'
    BY <1>1 DEF IInv, LeaseLog, LeaseExclusive, CommitAgreement
  <1>3. manifest.revision <= manifest.revision
    BY DEF IInv, TypeOK, Manifest
  <1>4. RevisionIdentifies'
    BY <1>1, <1>3 DEF IInv, RevisionIdentifies
  <1> QED
    BY <1>2, <1>4 DEF IInv

LEMMA StillKeeps ==
    ASSUME IInv, TypeOK',
           UNCHANGED <<task, attempts, artifacts, manifest, leases, copy>>
    PROVE  IInv'
  BY DEF IInv, LeaseLog, LeaseExclusive, CommitAgreement, RevisionIdentifies

LEMMA InvStep == IInv /\ [Next]_vars => IInv'
  <1> SUFFICES ASSUME IInv, [Next]_vars PROVE IInv'
    OBVIOUS
  <1>t. TypeOK'
    BY TypeStep DEF IInv
  <1>1. ASSUME NEW S \in SUBSET Tasks, RegisterTasks(S)
        PROVE  IInv'
    BY <1>t, <1>1, RegisterKeeps
  <1>2. ASSUME NEW t \in Tasks, NEW a \in Attempts, NEW now \in ReadBefore,
               NEW expected \in 0..MaxRevision, Claim(t, a, now, expected)
        PROVE  IInv'
    BY <1>t, <1>2, ClaimKeeps
  <1>3. ASSUME NEW l \in leases, Heartbeat(l)
        PROVE  IInv'
    BY <1>t, <1>3, HeartbeatKeeps
  <1>4. ASSUME NEW l \in leases, FinishSuccess(l)
        PROVE  IInv'
    BY <1>t, <1>4, FinishSuccessKeeps
  <1>5. ASSUME NEW l \in leases, FinishFailure(l)
        PROVE  IInv'
    BY <1>t, <1>5, FinishFailureKeeps
  <1>6. ASSUME NEW now \in ReadBefore, ReconcileExpired(now)
        PROVE  IInv'
    BY <1>t, <1>6, ReconcileKeeps
  <1>7. CASE CancelRun
    BY <1>t, <1>7, CancelKeeps
  <1>8. ASSUME NEW t \in Tasks, NEW expected \in 0..MaxRevision, Transition(t, expected)
        PROVE  IInv'
    BY <1>t, <1>8, TransitionKeeps
  <1>9. ASSUME NEW base \in 0..MaxRevision, NEW affected \in SUBSET Tasks,
               NEW removed \in SUBSET Tasks, NEW added \in SUBSET Tasks,
               ApplyPatch(base, affected, removed, added)
        PROVE  IInv'
    BY <1>t, <1>9, PatchKeeps
  <1>10. ASSUME NEW k \in Savers, LoadManifest(k)
         PROVE  IInv'
    BY <1>t, <1>10, LoadKeeps
  <1>11. ASSUME NEW k \in Savers, NEW s \in {"running", "succeeded", "failed"},
                SaveStatus(k, s)
         PROVE  IInv'
    BY <1>t, <1>11, SaveStatusKeeps
  <1>12. ASSUME NEW k \in Savers, NEW S \in SUBSET Tasks, ImportPlan(k, S)
         PROVE  IInv'
    BY <1>t, <1>12, ImportKeeps
  <1>13. CASE Tick
    BY <1>t, <1>13, StillKeeps DEF Tick
  <1>14. CASE UNCHANGED vars
    BY <1>t, <1>14, StillKeeps DEF vars
  <1> QED
    BY <1>1, <1>2, <1>3, <1>4, <1>5, <1>6, <1>7, <1>8, <1>9, <1>10, <1>11,
       <1>12, <1>13, <1>14 DEF Next

(* The inductive invariant holds in every reachable state.                 *)
THEOREM Inductive == Spec => []IInv
  BY InvInit, InvStep, PTL DEF Spec

(* No attempt is left running without its row, and no two attempts of the  *)
(* store own one task, however claims, takeovers, reconciliations,         *)
(* cancellations and patches interleave.                                   *)
THEOREM OneOwner == Spec => []LeaseExclusive
  <1>1. IInv => LeaseExclusive
    BY DEF IInv
  <1> QED
    BY <1>1, Inductive, PTL

(* The manifest's checkpoints, the task rows, the artifact rows and the    *)
(* attempt history agree on every commit, in every reachable state.        *)
THEOREM CheckpointsAgree == Spec => []CommitAgreement
  <1>1. IInv => CommitAgreement
    BY DEF IInv
  <1> QED
    BY <1>1, Inductive, PTL

-----------------------------------------------------------------------------
(* What a step of TaskLeases may never do, and that TaskLeases implements  *)
(* TaskCommit, for any tasks, attempts, savers and times.                  *)

(* Most steps leave the rows of other tasks alone; a row that keeps its    *)
(* status, fence, attempt and time keeps its leases entitled or not.       *)
LEMMA SameRowSameEntitlement ==
    ASSUME NEW l \in leases, task'[l.task] = task[l.task],
           manifest'.plan = manifest.plan, clock' = clock,
           Entitled(l)'
    PROVE  Entitled(l)
  BY DEF Entitled

(* No step gives back a lease that was lost.                               *)
LEMMA LostForeverStep ==
    ASSUME IInv, [Next]_vars, NEW l \in leases, Entitled(l)'
    PROVE  Entitled(l)
  <1>l. /\ l.task \in Tasks /\ l.attempt \in Attempts
        /\ task[l.task].status # "absent"
        /\ attempts[l.attempt] # "unused"
        /\ l.plan <= manifest.plan
    BY DEF IInv, TypeOK, Lease, LeaseLog
  <1>r. \A t \in Tasks : task[t] \in TaskRow
    BY DEF IInv, TypeOK
  <1>p. manifest.plan \in Nat /\ manifest \in Manifest
    BY DEF IInv, TypeOK, Manifest
  <1>b. Bumped(manifest) \in Manifest /\ Bumped(manifest).plan = manifest.plan
    BY <1>p, BumpedFields
  <1>e. /\ task'[l.task].status = "running"
        /\ task'[l.task].attempt = l.attempt
        /\ manifest'.plan = l.plan
        /\ clock' < task'[l.task].until
    BY DEF Entitled
  <1>1. ASSUME NEW S \in SUBSET Tasks, RegisterTasks(S)
        PROVE  Entitled(l)
    <2>1. task'[l.task] = task[l.task] /\ manifest' = manifest /\ clock' = clock
      BY <1>1, <1>l DEF RegisterTasks, Rows
    <2> QED
      BY <2>1, SameRowSameEntitlement
  <1>2. ASSUME NEW t \in Tasks, NEW a \in Attempts, NEW now \in ReadBefore,
               NEW expected \in 0..MaxRevision, Claim(t, a, now, expected)
        PROVE  Entitled(l)
    <2>1. task'[t].attempt = a /\ attempts[a] = "unused"
      BY <1>2, ClaimedFields DEF IInv, TypeOK, Claim
    <2>2. l.task # t
      BY <1>e, <1>l, <2>1
    <2>3. task'[l.task] = task[l.task] /\ manifest' = manifest /\ clock' = clock
      BY <1>2, <1>l, <2>2 DEF IInv, TypeOK, Claim
    <2> QED
      BY <2>3, SameRowSameEntitlement
  <1>3. ASSUME NEW m \in leases, Heartbeat(m)
        PROVE  Entitled(l)
    <2>1. m.task \in Tasks /\ task[m.task].attempt = m.attempt /\ Holds(m)
      BY <1>3 DEF IInv, TypeOK, Lease, Heartbeat, Holds
    <2>2. /\ task'[m.task].attempt = task[m.task].attempt
          /\ manifest' = manifest /\ clock' = clock
          /\ l.task # m.task => task'[l.task] = task[l.task]
      BY <1>3, <1>l, <1>r, <2>1 DEF IInv, TypeOK, Heartbeat, TaskRow
    <2>3. CASE l.task = m.task
      <3>1. l = m
        BY <1>e, <2>1, <2>2, <2>3 DEF IInv, LeaseLog
      <3> QED
        BY <2>1, <3>1 DEF Holds, Entitled
    <2>4. CASE l.task # m.task
      BY <2>2, <2>4, SameRowSameEntitlement
    <2> QED
      BY <2>3, <2>4
  <1>4. ASSUME NEW m \in leases, NEW s \in {"succeeded", "failed"},
               task' = [task EXCEPT ![m.task] = Finished(@, s, m.attempt)],
               manifest'.plan = manifest.plan, clock' = clock
        PROVE  Entitled(l)
    <2>1. m.task \in Tasks /\ m.attempt \in Attempts /\ s \in RowStatus
      BY DEF IInv, TypeOK, Lease, RowStatus
    <2>2. Finished(task[m.task], s, m.attempt).status = s
      BY <1>r, <2>1, FinishedFields
    <2>3. l.task # m.task
      BY <1>4, <1>e, <1>l, <2>1, <2>2 DEF IInv, TypeOK
    <2>4. task'[l.task] = task[l.task]
      BY <1>4, <1>l, <2>3 DEF IInv, TypeOK
    <2> QED
      BY <1>4, <2>4, SameRowSameEntitlement
  <1>5. ASSUME NEW m \in leases, FinishSuccess(m)
        PROVE  Entitled(l)
    <2>1. manifest'.plan = manifest.plan
      BY <1>5, <1>b, <1>p DEF FinishSuccess, Manifest
    <2> QED
      BY <1>4, <1>5, <2>1 DEF FinishSuccess
  <1>6. ASSUME NEW m \in leases, FinishFailure(m)
        PROVE  Entitled(l)
    BY <1>4, <1>6 DEF FinishFailure
  <1>7. ASSUME NEW E \in SUBSET Tasks, NEW s \in {"pending", "cancelled"},
               task' = [t \in Tasks |-> IF t \in E THEN Revoked(task[t], s) ELSE task[t]],
               manifest'.plan = manifest.plan, clock' = clock
        PROVE  Entitled(l)
    <2>0. s \in RowStatus
      BY DEF RowStatus
    <2>1. \A t \in Tasks : Revoked(task[t], s).status = s
      BY <1>r, <2>0, RevokedFields
    <2>2. task'[l.task] = task[l.task]
      BY <1>7, <1>e, <1>l, <2>1
    <2> QED
      BY <1>7, <2>2, SameRowSameEntitlement
  <1>8. ASSUME NEW now \in ReadBefore, ReconcileExpired(now)
        PROVE  Entitled(l)
    <2> DEFINE E == {t \in Rows({"running"}) : task[t].until <= now}
    <2>1. E \in SUBSET Tasks
      BY DEF Rows
    <2>2. /\ task' = [t \in Tasks |-> IF t \in E THEN Revoked(task[t], "pending") ELSE task[t]]
          /\ manifest' = manifest /\ clock' = clock
      BY <1>8 DEF ReconcileExpired
    <2> HIDE DEF E
    <2> QED
      BY <1>7, <2>1, <2>2
  <1>9. CASE CancelRun
    <2> DEFINE E == Rows({"pending", "running", "failed", "cancelled"})
    <2>1. E \in SUBSET Tasks
      BY DEF Rows
    <2>2. /\ task' = [t \in Tasks |-> IF t \in E THEN Revoked(task[t], "cancelled") ELSE task[t]]
          /\ clock' = clock
      BY <1>9 DEF CancelRun
    <2>3. manifest'.plan = manifest.plan
      BY <1>9, <1>b DEF CancelRun, Manifest
    <2> HIDE DEF E
    <2> QED
      BY <1>7, <2>1, <2>2, <2>3
  <1>10. ASSUME NEW t \in Tasks, NEW expected \in 0..MaxRevision, Transition(t, expected)
         PROVE  Entitled(l)
    <2>1. manifest'.plan = manifest.plan
      BY <1>10, <1>b DEF Transition, Manifest
    <2> QED
      BY <1>10, <2>1, SameRowSameEntitlement DEF Transition
  <1>11. ASSUME NEW base \in 0..MaxRevision, NEW affected \in SUBSET Tasks,
                NEW removed \in SUBSET Tasks, NEW added \in SUBSET Tasks,
                ApplyPatch(base, affected, removed, added)
         PROVE  Entitled(l)
    <2>1. manifest'.plan = manifest.plan + 1
      BY <1>11, <1>p, PatchFields
    <2> QED
      BY <1>e, <1>l, <1>p, <2>1 DEF IInv, TypeOK, Lease
  <1>12. ASSUME NEW k \in Savers, NEW changed \in Manifest, SaveManifest(k, changed),
                changed.plan = manifest.plan
         PROVE  Entitled(l)
    <2>1. manifest'.plan = manifest.plan /\ task' = task /\ clock' = clock
      BY <1>12, BumpedFields DEF SaveManifest
    <2> QED
      BY <2>1, SameRowSameEntitlement
  <1>13. ASSUME NEW k \in Savers, NEW s \in {"running", "succeeded", "failed"},
                SaveStatus(k, s)
         PROVE  Entitled(l)
    <2>1. copy[k] = manifest
      BY <1>13, CurrentCopyIsStored DEF SaveStatus, SaveManifest
    <2>2. /\ [manifest EXCEPT !.status = s] \in Manifest
          /\ [manifest EXCEPT !.status = s].plan = manifest.plan
      BY <1>p DEF Manifest, RunStatus
    <2> QED
      BY <1>12, <1>13, <2>1, <2>2 DEF SaveStatus
  <1>14. ASSUME NEW k \in Savers, NEW S \in SUBSET Tasks, ImportPlan(k, S)
         PROVE  Entitled(l)
    <2>1. copy[k] = manifest
      BY <1>14, CurrentCopyIsStored DEF ImportPlan, SaveManifest
    <2>2. manifest' = Bumped(Binding(manifest, S))
      BY <1>14, <2>1 DEF ImportPlan, SaveManifest
    <2>4. manifest'.plan = manifest.plan + 1
      BY <1>p, <2>2, BindingFields, BumpedFields
    <2> QED
      BY <1>e, <1>l, <1>p, <2>4 DEF IInv, TypeOK, Lease
  <1>15. ASSUME NEW k \in Savers, LoadManifest(k)
         PROVE  Entitled(l)
    BY <1>15, SameRowSameEntitlement DEF LoadManifest
  <1>16. CASE Tick
    <2>1. task' = task /\ manifest' = manifest /\ clock' = clock + 1
      BY <1>16 DEF Tick
    <2>2. clock \in Nat /\ task[l.task].until \in Nat
      BY <1>l, <1>r DEF IInv, TypeOK, TaskRow
    <2>3. clock < task[l.task].until
      BY <1>e, <2>1, <2>2
    <2> QED
      BY <2>1, <2>3 DEF Entitled
  <1>17. CASE UNCHANGED vars
    BY <1>17, SameRowSameEntitlement DEF vars
  <1> QED
    BY <1>1, <1>2, <1>3, <1>5, <1>6, <1>8, <1>9, <1>10, <1>11, <1>13, <1>14,
       <1>15, <1>16, <1>17 DEF Next

(* A lease lost by time, takeover, cancellation, finish or a new plan is   *)
(* never honoured again.                                                   *)
THEOREM NeverHonouredAgain == Spec => LostForever
  <1>1. IInv /\ [Next]_vars => [\A l \in leases : ~Entitled(l) => ~Entitled(l)']_vars
    BY LostForeverStep
  <1> QED
    BY <1>1, Inductive, PTL DEF Spec, LostForever

-----------------------------------------------------------------------------
(* Every row is that of a recorded task.                                   *)
LEMMA RecordedInit == Init => RowsAreRecorded
  BY DEF Init, RowsAreRecorded, Rows, AbsentRow

(* It is kept by every step that gives rows to recorded tasks only and     *)
(* drops nothing from the history.                                         *)
LEMMA RecordedKept ==
    ASSUME RowsAreRecorded, manifest.recorded \subseteq manifest'.recorded,
           \A t \in Tasks : task'[t].status # "absent" =>
              task[t].status # "absent" \/ t \in manifest'.recorded
    PROVE  RowsAreRecorded'
  BY DEF RowsAreRecorded, Rows

LEMMA RecordedStep ==
    ASSUME IInv, RowsAreRecorded, [Next]_vars
    PROVE  RowsAreRecorded'
  <1>m. /\ manifest \in Manifest
        /\ Bumped(manifest) \in Manifest
        /\ Bumped(manifest).recorded = manifest.recorded
    BY BumpedFields DEF IInv, TypeOK
  <1>r. \A t \in Tasks : task[t] \in TaskRow
    BY DEF IInv, TypeOK
  <1>1. ASSUME NEW S \in SUBSET Tasks, RegisterTasks(S)
        PROVE  RowsAreRecorded'
    BY <1>1, RecordedKept DEF RegisterTasks
  <1>2. ASSUME NEW u \in Tasks, NEW a \in Attempts, NEW now \in ReadBefore,
               NEW expected \in 0..MaxRevision, Claim(u, a, now, expected)
        PROVE  RowsAreRecorded'
    <2>1. \A t \in Tasks \ {u} : task'[t] = task[t]
      BY <1>2 DEF IInv, TypeOK, Claim
    <2> QED
      BY <1>2, <2>1, RecordedKept DEF Claim, Available
  <1>3. ASSUME NEW l \in leases, NEW row,
               task' = [task EXCEPT ![l.task] = row],
               task[l.task].status = "running",
               manifest'.recorded = manifest.recorded
        PROVE  RowsAreRecorded'
    <2>1. \A t \in Tasks \ {l.task} : task'[t] = task[t]
      BY <1>3 DEF IInv, TypeOK
    <2> QED
      BY <1>3, <2>1, RecordedKept
  <1>4. ASSUME NEW l \in leases, Heartbeat(l)
        PROVE  RowsAreRecorded'
    BY <1>3, <1>4 DEF Heartbeat, Holds
  <1>5. ASSUME NEW l \in leases, FinishSuccess(l)
        PROVE  RowsAreRecorded'
    <2>1. manifest'.recorded = manifest.recorded
      BY <1>5, <1>m DEF FinishSuccess, Manifest
    <2> QED
      BY <1>3, <1>5, <2>1 DEF FinishSuccess, Holds
  <1>6. ASSUME NEW l \in leases, FinishFailure(l)
        PROVE  RowsAreRecorded'
    BY <1>3, <1>6 DEF FinishFailure, Holds
  <1>7. ASSUME NEW now \in ReadBefore, ReconcileExpired(now)
        PROVE  RowsAreRecorded'
    BY <1>7, RecordedKept DEF ReconcileExpired, Rows
  <1>8. CASE CancelRun
    <2>1. manifest'.recorded = manifest.recorded
      BY <1>8, <1>m DEF CancelRun, Manifest
    <2> QED
      BY <1>8, <2>1, RecordedKept DEF CancelRun, Rows
  <1>9. ASSUME NEW t \in Tasks, NEW expected \in 0..MaxRevision, Transition(t, expected)
        PROVE  RowsAreRecorded'
    <2>1. manifest'.recorded = manifest.recorded
      BY <1>9, <1>m DEF Transition, Manifest
    <2> QED
      BY <1>9, <2>1, RecordedKept DEF Transition
  <1>10. ASSUME NEW base \in 0..MaxRevision, NEW affected \in SUBSET Tasks,
                NEW removed \in SUBSET Tasks, NEW added \in SUBSET Tasks,
                ApplyPatch(base, affected, removed, added)
         PROVE  RowsAreRecorded'
    <2>1. /\ manifest' \in Manifest
          /\ \A u \in Tasks :
               /\ u \in manifest'.tasks <=>
                    u \in added \/ (u \in manifest.tasks /\ u \notin removed)
               /\ u \in manifest'.recorded <=>
                    u \in manifest.recorded \/ u \in manifest'.tasks
      BY <1>10, <1>m, PatchFields
    <2>2. \A t \in Tasks : task'[t].status # "absent" =>
            task[t].status # "absent" \/ t \in manifest'.tasks
      BY <1>10, <1>r, <2>1, PatchRow
    <2>3. manifest.recorded \subseteq manifest'.recorded
      BY <1>m, <2>1 DEF Manifest
    <2> QED
      BY <2>1, <2>2, <2>3, RecordedKept
  <1>11. ASSUME NEW k \in Savers, NEW s \in {"running", "succeeded", "failed"},
                SaveStatus(k, s)
         PROVE  RowsAreRecorded'
    <2>1. copy[k] = manifest
      BY <1>11, CurrentCopyIsStored DEF SaveStatus, SaveManifest
    <2>2. /\ [manifest EXCEPT !.status = s] \in Manifest
          /\ [manifest EXCEPT !.status = s].recorded = manifest.recorded
      BY <1>m DEF Manifest, RunStatus
    <2>3. manifest'.recorded = manifest.recorded /\ task' = task
      BY <1>11, <2>1, <2>2, BumpedFields DEF SaveStatus, SaveManifest
    <2> QED
      BY <2>3, RecordedKept
  <1>12. ASSUME NEW k \in Savers, NEW S \in SUBSET Tasks, ImportPlan(k, S)
         PROVE  RowsAreRecorded'
    <2>1. copy[k] = manifest
      BY <1>12, CurrentCopyIsStored DEF ImportPlan, SaveManifest
    <2>2. manifest' = Bumped(Binding(manifest, S)) /\ task' = task
      BY <1>12, <2>1 DEF ImportPlan, SaveManifest
    <2>3. manifest'.recorded = manifest.recorded \cup S
      BY <1>m, <2>2, BindingFields, BumpedFields
    <2> QED
      BY <2>2, <2>3, RecordedKept
  <1>13. CASE (\E k \in Savers : LoadManifest(k)) \/ Tick \/ UNCHANGED vars
    BY <1>13, RecordedKept DEF LoadManifest, Tick, vars
  <1> QED
    BY <1>1, <1>2, <1>4, <1>5, <1>6, <1>7, <1>8, <1>9, <1>10, <1>11, <1>12, <1>13
       DEF Next

(* A patch adds no task that has a row.                                    *)
THEOREM RowsRecorded == Spec => []RowsAreRecorded
  BY RecordedInit, RecordedStep, Inductive, PTL DEF Spec

-----------------------------------------------------------------------------
(* A cancelled row outlives every step but a patch of its task, and a      *)
(* patch only affects it if the bound plan names the task.                 *)
LEMMA CancelledRowStep ==
    ASSUME IInv, RowsAreRecorded, [Next]_vars,
           NEW t \in Tasks, task[t].status = "cancelled",
           task'[t].status # "cancelled"
    PROVE  /\ manifest.status # "cancelled"
           /\ t \in manifest.tasks /\ t \in manifest'.tasks
           /\ manifest'.plan > manifest.plan
           /\ task'[t].status = "pending" /\ task'[t].result = NoAttempt
           /\ Quiescent /\ Quiescent'
  <1>r. \A u \in Tasks : task[u] \in TaskRow
    BY DEF IInv, TypeOK
  <1>1. ASSUME NEW S \in SUBSET Tasks, RegisterTasks(S)
        PROVE  task'[t] = task[t]
    BY <1>1 DEF RegisterTasks, Rows
  <1>2. ASSUME NEW u \in Tasks, NEW a \in Attempts, NEW now \in ReadBefore,
               NEW expected \in 0..MaxRevision, Claim(u, a, now, expected)
        PROVE  task'[t] = task[t]
    BY <1>2 DEF IInv, TypeOK, Claim, Available
  <1>3. ASSUME NEW l \in leases, Heartbeat(l)
        PROVE  task'[t] = task[t]
    BY <1>3 DEF IInv, TypeOK, Lease, Heartbeat, Holds
  <1>4. ASSUME NEW l \in leases, FinishSuccess(l) \/ FinishFailure(l)
        PROVE  task'[t] = task[t]
    BY <1>4 DEF IInv, TypeOK, Lease, FinishSuccess, FinishFailure, Holds
  <1>5. ASSUME NEW now \in ReadBefore, ReconcileExpired(now)
        PROVE  task'[t] = task[t]
    BY <1>5 DEF ReconcileExpired, Rows
  <1>6. ASSUME CancelRun
        PROVE  FALSE
    <2>1. "cancelled" \in RowStatus
      BY DEF RowStatus
    <2>2. Revoked(task[t], "cancelled").status = "cancelled"
      BY <1>r, <2>1, RevokedFields
    <2> QED
      BY <1>6, <2>2 DEF CancelRun, Rows
  <1>7. PICK base \in 0..MaxRevision :
          \E affected, removed, added \in SUBSET Tasks :
            ApplyPatch(base, affected, removed, added)
    BY <1>1, <1>2, <1>3, <1>4, <1>5, <1>6 DEF Next, Transition,
       LoadManifest, SaveManifest, SaveStatus, ImportPlan, Tick, vars
  <1>8. PICK affected, removed, added \in SUBSET Tasks :
          ApplyPatch(base, affected, removed, added)
    BY <1>7
  <1>9. /\ manifest \in Manifest
        /\ manifest.plan \in Nat
    BY DEF IInv, TypeOK, Manifest
  <1>10. /\ manifest'.plan = manifest.plan + 1
         /\ t \in manifest.tasks /\ t \notin removed => t \in manifest'.tasks
    <2>1. manifest'.plan = manifest.plan + 1
      BY <1>8, <1>9, PatchFields
    <2>2. t \in manifest.tasks /\ t \notin removed => t \in manifest'.tasks
      BY <1>8, <1>9, PatchFields
    <2> QED
      BY <2>1, <2>2
  <1>11. /\ t \in affected
         /\ task'[t].status = IF t \in removed THEN "cancelled" ELSE "pending"
         /\ task'[t].result = NoAttempt
    BY <1>8, <1>r, PatchRow
  <1>12. t \in manifest.recorded
    BY DEF RowsAreRecorded, Rows
  <1>13. t \in manifest.tasks /\ t \in manifest'.tasks
    BY <1>8, <1>10, <1>11, <1>12 DEF ApplyPatch
  <1>14. Quiescent /\ Quiescent'
    <2>1. \A u \in Tasks : task'[u].status # "running"
      BY <1>8, <1>r, PatchRow
    <2> QED
      BY <1>8, <2>1 DEF ApplyPatch, Quiescent, Rows
  <1>15. manifest.status # "cancelled"
    BY <1>8 DEF ApplyPatch
  <1> QED
    BY <1>9, <1>10, <1>11, <1>13, <1>14, <1>15

(* A cancelled run stays cancelled.                                        *)
LEMMA CancelledRunStep ==
    ASSUME IInv, [Next]_vars, manifest.status = "cancelled"
    PROVE  manifest'.status = "cancelled"
  <1>b. /\ Bumped(manifest) \in Manifest
        /\ Bumped(manifest).status = "cancelled"
    BY BumpedFields DEF IInv, TypeOK
  <1>1. ASSUME NEW l \in leases, FinishSuccess(l)
        PROVE  manifest'.status = "cancelled"
    BY <1>1, <1>b DEF FinishSuccess, Manifest
  <1>2. ASSUME CancelRun
        PROVE  manifest'.status = "cancelled"
    BY <1>2, <1>b DEF CancelRun, Manifest
  <1>3. ASSUME NEW t \in Tasks, NEW expected \in 0..MaxRevision, Transition(t, expected)
        PROVE  manifest'.status = "cancelled"
    BY <1>3, <1>b DEF Transition, Manifest
  <1>4. ASSUME NEW k \in Savers, NEW s \in {"running", "succeeded", "failed"},
               SaveStatus(k, s)
        PROVE  FALSE
    BY <1>4, CurrentCopyIsStored DEF SaveStatus, SaveManifest
  <1>5. ASSUME NEW k \in Savers, NEW S \in SUBSET Tasks, ImportPlan(k, S)
        PROVE  FALSE
    BY <1>5, CurrentCopyIsStored DEF ImportPlan, SaveManifest
  <1> QED
    BY <1>1, <1>2, <1>3, <1>4, <1>5 DEF Next, RegisterTasks, Claim, Heartbeat,
       FinishFailure, ReconcileExpired, ApplyPatch, LoadManifest, Tick, vars

(* A cancelled run is never revived, and a cancelled row only by a patch   *)
(* of a plan that names its task again.                                    *)
THEOREM CancellationIsFinal == Spec => CancelledIsFinal
  <1>1. IInv /\ RowsAreRecorded /\ [Next]_vars =>
          [/\ manifest.status = "cancelled" => manifest'.status = "cancelled"
           /\ \A t \in Rows({"cancelled"}) :
                task'[t].status # "cancelled" =>
                  /\ manifest.status # "cancelled"
                  /\ t \in manifest.tasks /\ t \in manifest'.tasks
                  /\ manifest'.plan > manifest.plan
                  /\ task'[t].status = "pending" /\ task'[t].result = NoAttempt
                  /\ Quiescent /\ Quiescent']_vars
    BY CancelledRowStep, CancelledRunStep DEF Rows
  <1> QED
    BY <1>1, Inductive, RowsRecorded, PTL DEF Spec, CancelledIsFinal

-----------------------------------------------------------------------------
(* The refinement: each step of the store is a step of the promise, or     *)
(* changes nothing the promise speaks of.                                  *)

LEMMA PromiseInit == Init => Promise!Init
  BY DEF Init, Promise!Init, Promise!Nobody, HeldBy, UsedAttempts, Rows, AbsentRow

(* A cancelled run, as a truth value.                                      *)
LEMMA SameHalt ==
    ASSUME manifest'.status = manifest.status
    PROVE  (manifest'.status = "cancelled") = (manifest.status = "cancelled")
  OBVIOUS

(* What the mapping reads of a row is its status and attempt.              *)
LEMMA PromiseStutters ==
    ASSUME IInv, IInv',
           \A t \in Tasks : \/ /\ task'[t].status = task[t].status
                               /\ task'[t].attempt = task[t].attempt
                            \/ /\ task[t].status \notin {"running", "cancelled"}
                               /\ task'[t].status \notin {"running", "cancelled"},
           manifest'.receipts = manifest.receipts,
           manifest'.tasks = manifest.tasks,
           manifest'.status = "cancelled" <=> manifest.status = "cancelled",
           attempts' = attempts
    PROVE  UNCHANGED Promise!vars
  <1>1. HeldBy' = HeldBy
    BY DEF HeldBy
  <1>2. Rows({"cancelled"})' = Rows({"cancelled"})
    BY DEF Rows
  <1>3. UsedAttempts' = UsedAttempts
    BY DEF UsedAttempts
  <1>4. (manifest'.status = "cancelled") = (manifest.status = "cancelled")
    OBVIOUS
  <1> QED
    BY <1>1, <1>2, <1>3, <1>4 DEF Promise!vars

LEMMA ClaimAcquires ==
    ASSUME IInv, IInv', NEW t \in Tasks, NEW a \in Attempts,
           NEW now \in ReadBefore, NEW expected \in 0..MaxRevision,
           Claim(t, a, now, expected)
    PROVE  Promise!Acquire(t, a)
  <1>1. /\ task'[t].status = "running" /\ task'[t].attempt = a
        /\ \A u \in Tasks \ {t} : task'[u] = task[u]
    BY ClaimedFields DEF IInv, TypeOK, Claim
  <1>2. /\ attempts[a] = "unused"
        /\ task[t].status \notin {"absent", "succeeded", "cancelled"}
        /\ manifest' = manifest
    BY DEF Claim, Available
  <1>3. /\ attempts'[a] # "unused"
        /\ \A b \in Attempts \ {a} : attempts'[b] = "unused" <=> attempts[b] = "unused"
    <2>1. \A b \in Attempts : Settle({task[t].attempt}, "expired")[b] =
            IF b \in {task[t].attempt} /\ attempts[b] = "running"
            THEN "expired" ELSE attempts[b]
      BY SettleOne DEF IInv, AttemptStatus
    <2>2. Settle({task[t].attempt}, "expired") \in [Attempts -> AttemptStatus]
      BY SettleOne DEF IInv, AttemptStatus
    <2> QED
      BY <2>1, <2>2 DEF Claim
  <1>4. manifest.receipts[t] = NoAttempt
    BY <1>2 DEF IInv, CommitAgreement, TypeOK
  <1>5. HeldBy' = [HeldBy EXCEPT ![t] = a]
    BY <1>1 DEF HeldBy
  <1>6. UsedAttempts' = UsedAttempts \cup {a}
    BY <1>3 DEF UsedAttempts
  <1>7. Rows({"cancelled"})' = Rows({"cancelled"}) /\ t \notin Rows({"cancelled"})
    BY <1>1, <1>2 DEF Rows
  <1>8. a \notin UsedAttempts
    BY <1>2 DEF UsedAttempts
  <1> QED
    BY <1>2, <1>4, <1>5, <1>6, <1>7, <1>8 DEF Promise!Acquire

LEMMA FinishCommits ==
    ASSUME IInv, IInv', NEW l \in leases, FinishSuccess(l)
    PROVE  Promise!Commit(l.task)
  <1> DEFINE t == l.task
  <1>1. /\ t \in Tasks /\ l.attempt \in Attempts
        /\ task[t].status = "running" /\ task[t].attempt = l.attempt
        /\ task[t] \in TaskRow
    BY DEF IInv, TypeOK, Lease, FinishSuccess, Holds
  <1>2. "succeeded" \in RowStatus
    BY DEF RowStatus
  <1>3. Finished(task[t], "succeeded", l.attempt).status = "succeeded"
    BY <1>1, <1>2, FinishedFields
  <1>4. task'[t].status = "succeeded" /\ \A u \in Tasks \ {t} : task'[u] = task[u]
    BY <1>1, <1>3 DEF IInv, TypeOK, FinishSuccess
  <1>5. /\ manifest'.receipts = [manifest.receipts EXCEPT ![t] = l.attempt]
        /\ manifest'.tasks = manifest.tasks
        /\ manifest'.status = manifest.status
    BY BumpedFields DEF IInv, TypeOK, FinishSuccess, Manifest
  <1>6. attempts[l.attempt] = "running"
    BY <1>1 DEF IInv, LeaseExclusive
  <1>7. \A b \in Attempts : attempts'[b] = "unused" <=> attempts[b] = "unused"
    BY <1>1, <1>6 DEF IInv, TypeOK, FinishSuccess
  <1>8. HeldBy[t] = l.attempt /\ HeldBy' = [HeldBy EXCEPT ![t] = NoAttempt]
    BY <1>1, <1>4 DEF HeldBy
  <1>9. manifest.receipts[t] = NoAttempt
    BY <1>1 DEF IInv, CommitAgreement
  <1>10. UsedAttempts' = UsedAttempts
    BY <1>7 DEF UsedAttempts
  <1>11. Rows({"cancelled"})' = Rows({"cancelled"})
    BY <1>1, <1>4 DEF Rows
  <1> QED
    BY <1>1, <1>5, <1>8, <1>9, <1>10, <1>11, NullsDistinct, SameHalt DEF Promise!Commit

LEMMA FailureReleases ==
    ASSUME IInv, IInv', NEW l \in leases, FinishFailure(l)
    PROVE  Promise!Release({l.task})
  <1> DEFINE t == l.task
  <1>1. /\ t \in Tasks /\ l.attempt \in Attempts
        /\ task[t].status = "running" /\ task[t].attempt = l.attempt
        /\ task[t] \in TaskRow
    BY DEF IInv, TypeOK, Lease, FinishFailure, Holds
  <1>2. "failed" \in RowStatus
    BY DEF RowStatus
  <1>3. Finished(task[t], "failed", l.attempt).status = "failed"
    BY <1>1, <1>2, FinishedFields
  <1>4. task'[t].status = "failed" /\ \A u \in Tasks \ {t} : task'[u] = task[u]
    BY <1>1, <1>3 DEF IInv, TypeOK, FinishFailure
  <1>6. attempts[l.attempt] = "running"
    BY <1>1 DEF IInv, LeaseExclusive
  <1>7. \A b \in Attempts : attempts'[b] = "unused" <=> attempts[b] = "unused"
    BY <1>1, <1>6 DEF IInv, TypeOK, FinishFailure
  <1>8. HeldBy' = [u \in Tasks |-> IF u \in {t} THEN NoAttempt ELSE HeldBy[u]]
    BY <1>1, <1>4 DEF HeldBy
  <1>9. UsedAttempts' = UsedAttempts
    BY <1>7 DEF UsedAttempts
  <1>10. Rows({"cancelled"})' = Rows({"cancelled"})
    BY <1>1, <1>4 DEF Rows
  <1>11. manifest' = manifest
    BY DEF FinishFailure
  <1> QED
    BY <1>8, <1>9, <1>10, <1>11 DEF Promise!Release

(* Revoked rows lose their holders; settled attempts stay used.            *)
LEMMA RevokedMapping ==
    ASSUME IInv, NEW E \in SUBSET Tasks, NEW s \in {"pending", "cancelled"},
           NEW ids, NEW e \in {"expired", "cancelled"},
           task' = [t \in Tasks |-> IF t \in E THEN Revoked(task[t], s) ELSE task[t]],
           attempts' = Settle(ids, e)
    PROVE  /\ HeldBy' = [t \in Tasks |-> IF t \in E THEN NoAttempt ELSE HeldBy[t]]
           /\ UsedAttempts' = UsedAttempts
           /\ \A t \in Tasks : task'[t].status = IF t \in E THEN s ELSE task[t].status
  <1>1. s \in RowStatus /\ e \in AttemptStatus
    BY DEF RowStatus, AttemptStatus
  <1>2. \A t \in Tasks : Revoked(task[t], s).status = s
    BY <1>1, RevokedFields DEF IInv, TypeOK
  <1>3. \A t \in Tasks : task'[t] = IF t \in E THEN Revoked(task[t], s) ELSE task[t]
    OBVIOUS
  <1>4. \A t \in Tasks : task'[t].status = IF t \in E THEN s ELSE task[t].status
    BY <1>2, <1>3
  <1>5. HeldBy' = [t \in Tasks |-> IF t \in E THEN NoAttempt ELSE HeldBy[t]]
    BY <1>3, <1>4 DEF HeldBy
  <1>6. UsedAttempts' = UsedAttempts
    BY <1>1, SettleOne DEF IInv, UsedAttempts
  <1> QED
    BY <1>4, <1>5, <1>6

LEMMA ReconcileReleases ==
    ASSUME IInv, NEW now \in ReadBefore, ReconcileExpired(now)
    PROVE  \E S \in SUBSET Tasks : Promise!Release(S)
  <1> DEFINE E == {t \in Rows({"running"}) : task[t].until <= now}
             ids == {task[t].attempt : t \in E}
  <1>1. E \in SUBSET Tasks /\ \A t \in E : task[t].status = "running"
    BY DEF Rows
  <1>2. /\ task' = [t \in Tasks |-> IF t \in E THEN Revoked(task[t], "pending") ELSE task[t]]
        /\ attempts' = Settle(ids, "expired")
        /\ manifest' = manifest
    BY DEF ReconcileExpired
  <1> HIDE DEF E, ids
  <1>3. /\ HeldBy' = [t \in Tasks |-> IF t \in E THEN NoAttempt ELSE HeldBy[t]]
        /\ UsedAttempts' = UsedAttempts
        /\ \A t \in Tasks : task'[t].status = IF t \in E THEN "pending" ELSE task[t].status
    BY <1>1, <1>2, RevokedMapping
  <1>4. Rows({"cancelled"})' = Rows({"cancelled"})
    BY <1>1, <1>3 DEF Rows
  <1> QED
    BY <1>1, <1>2, <1>3, <1>4 DEF Promise!Release

LEMMA CancelCloses ==
    ASSUME IInv, CancelRun
    PROVE  \E S \in SUBSET Tasks : Promise!Close(S)
  <1> DEFINE E == Rows({"pending", "running", "failed", "cancelled"})
  <1>1. E \in SUBSET Tasks /\ \A t \in E : task[t].status # "succeeded"
    BY DEF Rows
  <1>2. /\ task' = [t \in Tasks |-> IF t \in E THEN Revoked(task[t], "cancelled") ELSE task[t]]
        /\ attempts' = Settle(Attempts, "cancelled")
    BY DEF CancelRun
  <1>c. \A t \in Tasks : task[t].status = "cancelled" => t \in E
    BY DEF Rows
  <1>m. /\ manifest'.receipts = manifest.receipts
        /\ manifest'.tasks = manifest.tasks
        /\ manifest'.status = "cancelled"
    BY BumpedFields DEF IInv, TypeOK, CancelRun, Manifest, RunStatus
  <1> HIDE DEF E
  <1>3. /\ HeldBy' = [t \in Tasks |-> IF t \in E THEN NoAttempt ELSE HeldBy[t]]
        /\ UsedAttempts' = UsedAttempts
        /\ \A t \in Tasks : task'[t].status = IF t \in E THEN "cancelled" ELSE task[t].status
    BY <1>1, <1>2, RevokedMapping
  <1>4. Rows({"cancelled"})' = Rows({"cancelled"}) \cup E
    BY <1>1, <1>3, <1>c DEF Rows
  <1>5. \A t \in E : manifest.receipts[t] = NoAttempt
    BY <1>1 DEF IInv, CommitAgreement
  <1>6. Promise!Close(E)
    BY <1>3, <1>4, <1>5, <1>m DEF Promise!Close
  <1> QED
    BY <1>1, <1>6

(* Removed ids without a row are closed by nobody.                         *)
LEMMA PatchRevises ==
    ASSUME IInv, RowsAreRecorded, NEW base \in 0..MaxRevision, NEW affected \in SUBSET Tasks,
           NEW removed \in SUBSET Tasks, NEW added \in SUBSET Tasks,
           ApplyPatch(base, affected, removed, added)
    PROVE  \E S, plan \in SUBSET Tasks : \E R \in SUBSET S : Promise!Revise(S, R, plan)
  <1> DEFINE plan == (manifest.tasks \ removed) \cup added
             R == {u \in removed : task[u].status # "absent"}
  <1>m. manifest \in Manifest /\ manifest.tasks \in SUBSET Tasks
    BY DEF IInv, TypeOK, Manifest
  <1>r. \A u \in Tasks : task[u] \in TaskRow
    BY DEF IInv, TypeOK
  <1>1. plan \in SUBSET Tasks /\ R \in SUBSET affected
    BY <1>m DEF ApplyPatch
  <1>2. \A u \in Tasks : task[u].status # "absent" => u \in manifest.recorded /\ u \notin added
    BY DEF RowsAreRecorded, Rows, ApplyPatch
  <1>3. /\ manifest'.receipts = [u \in Tasks |-> IF u \in affected THEN NoAttempt
                                               ELSE manifest.receipts[u]]
        /\ manifest'.tasks = plan
        /\ manifest'.status = "pending"
    <2>1. /\ manifest' \in Manifest
          /\ manifest'.status = "pending"
          /\ \A u \in Tasks :
               /\ u \in manifest'.tasks <=>
                    u \in added \/ (u \in manifest.tasks /\ u \notin removed)
               /\ manifest'.receipts[u] = IF u \in affected THEN NoAttempt
                                          ELSE manifest.receipts[u]
      BY <1>m, PatchFields
    <2> QED
      BY <1>m, <2>1 DEF Manifest
  <1>4. /\ affected \subseteq manifest.tasks \cup plan
        /\ manifest.status # "cancelled"
    BY DEF ApplyPatch
  <1>5. R \subseteq affected \ plan
    BY <1>1, <1>2
  <1>6. plan \cap Rows({"cancelled"}) \subseteq manifest.tasks
    BY <1>2 DEF Rows
  <1>7. ASSUME NEW u \in Tasks
        PROVE  task'[u].status = "cancelled" <=>
                 u \in R \/ (task[u].status = "cancelled" /\ u \notin affected)
    BY <1>1, <1>r, PatchRow
  <1>8. Rows({"cancelled"})' = (Rows({"cancelled"}) \ affected) \cup R
    <2>1. \A u \in R : u \in Tasks
      OBVIOUS
    <2> HIDE DEF R
    <2> QED
      BY <1>7, <2>1 DEF Rows
  <1>9. HeldBy = Promise!Nobody /\ HeldBy' = Promise!Nobody
    BY <1>r, PatchRow DEF HeldBy, Promise!Nobody
  <1>10. UsedAttempts' = UsedAttempts
    BY DEF ApplyPatch, UsedAttempts
  <1> HIDE DEF R, plan
  <1>11. Promise!Revise(affected, R, plan)
    BY <1>1, <1>3, <1>4, <1>5, <1>6, <1>8, <1>9, <1>10 DEF Promise!Revise
  <1> QED
    BY <1>1, <1>11

(* Savers never touch a receipt, nor a cancelled run.                      *)
LEMMA SaveStutters ==
    ASSUME IInv, IInv', NEW k \in Savers, NEW s \in {"running", "succeeded", "failed"},
           SaveStatus(k, s)
    PROVE  UNCHANGED Promise!vars
  <1>1. copy[k] = manifest /\ manifest \in Manifest /\ manifest.status # "cancelled"
    BY CurrentCopyIsStored DEF IInv, TypeOK, SaveStatus, SaveManifest
  <1> DEFINE c == [manifest EXCEPT !.status = s]
  <1>2. /\ c \in Manifest
        /\ c.receipts = manifest.receipts
        /\ c.tasks = manifest.tasks
        /\ c.status = s
    BY <1>1 DEF Manifest, RunStatus
  <1>3. manifest' = Bumped(c) /\ task' = task /\ attempts' = attempts
    BY <1>1 DEF SaveStatus, SaveManifest
  <1> HIDE DEF c
  <1>4. /\ manifest'.receipts = manifest.receipts
        /\ manifest'.tasks = manifest.tasks
        /\ manifest'.status # "cancelled"
    BY <1>2, <1>3, BumpedFields
  <1> QED
    BY <1>1, <1>3, <1>4, PromiseStutters

(* Nothing is committed when a plan is imported.                           *)
LEMMA ImportReplans ==
    ASSUME IInv, NEW k \in Savers, NEW S \in SUBSET Tasks, ImportPlan(k, S)
    PROVE  Promise!Replan(S)
  <1>1. /\ copy[k] = manifest /\ manifest \in Manifest
        /\ manifest.status = "pending" /\ manifest.completed = {}
    BY CurrentCopyIsStored DEF IInv, TypeOK, ImportPlan, SaveManifest
  <1>2. /\ manifest' = Bumped(Binding(manifest, S))
        /\ UNCHANGED <<task, attempts>>
    BY <1>1 DEF ImportPlan, SaveManifest
  <1>3. /\ manifest'.receipts = manifest.receipts
        /\ manifest'.tasks = S
        /\ manifest'.status = manifest.status
    BY <1>1, <1>2, BindingFields, BumpedFields
  <1>4. manifest.receipts = Promise!Nobody
    <2>1. \A t \in Tasks : manifest.receipts[t] = NoAttempt
      BY <1>1 DEF IInv, CommitAgreement
    <2> QED
      BY <1>1, <2>1 DEF Manifest, Promise!Nobody
  <1>5. HeldBy' = HeldBy /\ UsedAttempts' = UsedAttempts
    BY <1>2 DEF HeldBy, UsedAttempts
  <1>6. Rows({"cancelled"})' = Rows({"cancelled"})
    BY <1>2 DEF Rows
  <1> QED
    BY <1>1, <1>3, <1>4, <1>5, <1>6, SameHalt DEF Promise!Replan

LEMMA PromiseStep ==
    IInv /\ IInv' /\ RowsAreRecorded /\ [Next]_vars => [Promise!Next]_(Promise!vars)
  <1> SUFFICES ASSUME IInv, IInv', RowsAreRecorded, [Next]_vars
               PROVE  Promise!Next \/ UNCHANGED Promise!vars
    OBVIOUS
  <1>1. ASSUME NEW S \in SUBSET Tasks, RegisterTasks(S)
        PROVE  UNCHANGED Promise!vars
    <2>1. \A t \in Tasks : \/ task'[t] = task[t]
                           \/ task[t].status = "absent" /\ task'[t].status = "pending"
      BY <1>1 DEF RegisterTasks, Rows, AbsentRow
    <2> QED
      BY <1>1, <2>1, PromiseStutters DEF RegisterTasks
  <1>2. ASSUME NEW t \in Tasks, NEW a \in Attempts, NEW now \in ReadBefore,
               NEW expected \in 0..MaxRevision, Claim(t, a, now, expected)
        PROVE  Promise!Next
    BY <1>2, ClaimAcquires DEF Promise!Next
  <1>3. ASSUME NEW l \in leases, Heartbeat(l)
        PROVE  UNCHANGED Promise!vars
    <2>1. \A t \in Tasks : /\ task'[t].status = task[t].status
                           /\ task'[t].attempt = task[t].attempt
      BY <1>3 DEF IInv, TypeOK, Heartbeat, TaskRow, Lease
    <2> QED
      BY <1>3, <2>1, PromiseStutters DEF Heartbeat
  <1>4. ASSUME NEW l \in leases, FinishSuccess(l)
        PROVE  Promise!Next
    BY <1>4, FinishCommits DEF IInv, TypeOK, Lease, Promise!Next
  <1>5. ASSUME NEW l \in leases, FinishFailure(l)
        PROVE  Promise!Next
    BY <1>5, FailureReleases DEF IInv, TypeOK, Lease, Promise!Next
  <1>6. ASSUME NEW now \in ReadBefore, ReconcileExpired(now)
        PROVE  Promise!Next
    BY <1>6, ReconcileReleases DEF Promise!Next
  <1>7. CASE CancelRun
    BY <1>7, CancelCloses DEF Promise!Next
  <1>8. ASSUME NEW t \in Tasks, NEW expected \in 0..MaxRevision, Transition(t, expected)
        PROVE  UNCHANGED Promise!vars
    <2>1. /\ manifest'.receipts = manifest.receipts
          /\ manifest'.tasks = manifest.tasks
          /\ manifest'.status = manifest.status
      BY <1>8, BumpedFields DEF IInv, TypeOK, Transition, Manifest
    <2> QED
      BY <1>8, <2>1, PromiseStutters DEF Transition
  <1>9. ASSUME NEW base \in 0..MaxRevision, NEW affected \in SUBSET Tasks,
               NEW removed \in SUBSET Tasks, NEW added \in SUBSET Tasks,
               ApplyPatch(base, affected, removed, added)
        PROVE  Promise!Next
    BY <1>9, PatchRevises DEF Promise!Next
  <1>10. ASSUME NEW k \in Savers, LoadManifest(k)
         PROVE  UNCHANGED Promise!vars
    BY <1>10, PromiseStutters DEF LoadManifest
  <1>11. ASSUME NEW k \in Savers, NEW s \in {"running", "succeeded", "failed"},
                SaveStatus(k, s)
         PROVE  UNCHANGED Promise!vars
    BY <1>11, SaveStutters
  <1>12. ASSUME NEW k \in Savers, NEW S \in SUBSET Tasks, ImportPlan(k, S)
         PROVE  Promise!Next
    BY <1>12, ImportReplans DEF Promise!Next
  <1>13. CASE Tick
    BY <1>13, PromiseStutters DEF Tick
  <1>14. CASE UNCHANGED vars
    BY <1>14, PromiseStutters DEF vars
  <1> QED
    BY <1>1, <1>2, <1>3, <1>4, <1>5, <1>6, <1>7, <1>8, <1>9, <1>10, <1>11,
       <1>12, <1>13, <1>14 DEF Next

(* The store implements its promise.                                       *)
THEOREM StoreKeepsPromise == Spec => KeepsPromise
  BY PromiseInit, PromiseStep, Inductive, RowsRecorded, PTL
     DEF Spec, KeepsPromise, Promise!Spec
=============================================================================
