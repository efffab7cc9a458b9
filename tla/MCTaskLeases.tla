---------------------------- MODULE MCTaskLeases ----------------------------
(* Two tasks and three attempts, so that a task is claimed, lost and       *)
(* claimed again while another one is running.  In the behaviours of the   *)
(* store and of the plans nobody configures a budget; in those of the      *)
(* budget, of at most two calls, a third call is refused, and attempts     *)
(* expire, are taken over and end late while others reserve.  Those of the *)
(* plans have one attempt and no time passes, but one change of the        *)
(* manifest more: a patch removes a task, a plan that names it again is    *)
(* imported, and another patch affects it.                                 *)
EXTENDS ModelBudget, TLC

VARIABLE part   \* "store", "plans" or "budget"

CONSTANTS t1, t2, a1, a2, a3, k1

MCTasks == {t1, t2}
MCAttempts == {a1, a2, a3}
MCSavers == {k1}
MCCeilings == {1, 2}

(* Task ids and attempt ids are interchangeable: no action or property     *)
(* tells one from another.                                                 *)
Symmetry == Permutations(MCTasks) \cup Permutations(MCAttempts)

(* The bounds of each part.                                                *)
Bounded ==
    IF part = "plans"
    THEN clock = 0 /\ Cardinality(UsedAttempts) <= 1
    ELSE manifest.revision < MaxRevision

StoreInit ==
    /\ part \in {"store", "plans", "budget"}
    /\ BudgetInit
    /\ part = "budget" => manifest.tasks = Tasks

StoreNext ==
    /\ part' = part
    /\ \/ part # "budget" /\ Next /\ UNCHANGED <<budget, thread>>
       \/ part = "budget" /\ BudgetNext
    /\ Bounded'

StoreSpec == StoreInit /\ [][StoreNext]_<<part, budgetVars>>
=============================================================================
