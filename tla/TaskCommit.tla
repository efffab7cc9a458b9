----------------------------- MODULE TaskCommit -----------------------------
(***************************************************************************)
(* What the run store promises about the tasks of one run, with nothing    *)
(* said of how: at most one attempt holds a task, only the holder can      *)
(* commit its outcome, an attempt is never used twice, and a committed     *)
(* outcome stays until a plan revision taken while nobody holds anything   *)
(* drops it.  A closed task is never held or decided; in a halted run it   *)
(* stays closed for ever, and otherwise only a revision of a plan that     *)
(* names it again can open it.  TaskLeases implements it with lease times, *)
(* fences, attempt rows and a manifest.                                    *)
(***************************************************************************)
CONSTANTS Tasks, Attempts, NoAttempt

VARIABLES
    holder,    \* the attempt entitled to commit each task, or NoAttempt
    outcome,   \* the attempt whose result is committed, or NoAttempt
    used,      \* attempts that were ever handed a task
    closed,    \* tasks cancelled, or removed from the plan
    planned,   \* the tasks of the plan
    halted     \* the run is cancelled

vars == <<holder, outcome, used, closed, planned, halted>>

Nobody == [t \in Tasks |-> NoAttempt]

Init ==
    /\ holder = Nobody
    /\ outcome = Nobody
    /\ used = {}
    /\ closed = {}
    /\ planned \in SUBSET Tasks
    /\ halted = FALSE

(* A fresh attempt takes an undecided task; a previous holder loses it.    *)
Acquire(t, a) ==
    /\ t \notin closed
    /\ outcome[t] = NoAttempt
    /\ a \notin used
    /\ holder' = [holder EXCEPT ![t] = a]
    /\ used' = used \cup {a}
    /\ UNCHANGED <<outcome, closed, planned, halted>>

(* Holders of the tasks of S lose them without an outcome.                 *)
Release(S) ==
    /\ holder' = [t \in Tasks |-> IF t \in S THEN NoAttempt ELSE holder[t]]
    /\ UNCHANGED <<outcome, used, closed, planned, halted>>

Commit(t) ==
    /\ holder[t] # NoAttempt
    /\ outcome[t] = NoAttempt
    /\ outcome' = [outcome EXCEPT ![t] = holder[t]]
    /\ holder' = [holder EXCEPT ![t] = NoAttempt]
    /\ UNCHANGED <<used, closed, planned, halted>>

(* Cancellation halts the run, closes undecided tasks and revokes their    *)
(* holders.                                                                *)
Close(S) ==
    /\ \A t \in S : outcome[t] = NoAttempt
    /\ holder' = [t \in Tasks |-> IF t \in S THEN NoAttempt ELSE holder[t]]
    /\ closed' = closed \cup S
    /\ halted' = TRUE
    /\ UNCHANGED <<outcome, used, planned>>

(* A plan revision drops the outcomes of the tasks it affects, which are   *)
(* tasks of the old plan or of the new one, and closes some of those that  *)
(* leave the plan; it never overlaps an attempt, and what is new in the    *)
(* plan was never closed.                                                  *)
Revise(affected, removed, plan) ==
    /\ ~halted
    /\ holder = Nobody
    /\ affected \subseteq planned \cup plan
    /\ removed \subseteq affected \ plan
    /\ plan \cap closed \subseteq planned
    /\ outcome' = [t \in Tasks |-> IF t \in affected THEN NoAttempt ELSE outcome[t]]
    /\ closed' = (closed \ affected) \cup removed
    /\ planned' = plan
    /\ UNCHANGED <<holder, used, halted>>

(* As long as nothing is decided, another plan may be bound; it opens no   *)
(* task.                                                                   *)
Replan(plan) ==
    /\ ~halted
    /\ outcome = Nobody
    /\ planned' = plan
    /\ UNCHANGED <<holder, outcome, used, closed, halted>>

Next ==
    \/ \E t \in Tasks, a \in Attempts : Acquire(t, a)
    \/ \E S \in SUBSET Tasks : Release(S)
    \/ \E t \in Tasks : Commit(t)
    \/ \E S \in SUBSET Tasks : Close(S)
    \/ \E affected, plan \in SUBSET Tasks : \E removed \in SUBSET affected :
          Revise(affected, removed, plan)
    \/ \E plan \in SUBSET Tasks : Replan(plan)

Spec == Init /\ [][Next]_vars
=============================================================================
