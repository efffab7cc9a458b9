---------------------------- MODULE ModelBudget ----------------------------
(***************************************************************************)
(* The budgets and reservations tables of one run, on the task store.  A   *)
(* live executor reserves one call under the id of its attempt, starts the *)
(* provider's CLI, and settles the reservation in a finally clause; resume *)
(* settles, with an unknown usage, the reservations of the attempts whose  *)
(* leases ran out.  Neither the reservation nor the call looks at the      *)
(* lease, so a worker that lost its task may still submit and settle.      *)
(*                                                                         *)
(* The only dimension the code spends is model_calls, one unit at a time.  *)
(* A thread that dies is one that takes no further step.                   *)
(***************************************************************************)
EXTENDS TaskLeases

CONSTANTS
    Ceilings,      \* values of max_calls that a configuration may carry
    Unconfigured   \* no budgets row yet

ASSUME AttemptsFinite == IsFiniteSet(Attempts)
ASSUME CeilingsAssumption == Ceilings \subseteq Nat /\ Unconfigured \notin Nat

VARIABLES
    ceiling,       \* budgets.ceiling of model_calls, or Unconfigured
    spent,         \* budgets.spent
    reserved,      \* budgets.reserved
    reservation,   \* the reservations row of each attempt
    inference,     \* where the thread of each attempt is in infer
    called         \* attempts whose provider process was ever started

budget == <<ceiling, spent, reserved, reservation>>
thread == <<inference, called>>
budgetVars == <<vars, budget, thread>>

(* unknown is a row reconciled with actual NULL, settled one with actual 1. *)
ReservationStatus == {"none", "reserved", "settled", "unknown"}

InferencePhase == {"idle", "submitted", "running", "over"}

BudgetTypeOK ==
    /\ ceiling \in Ceilings \cup {Unconfigured}
    /\ spent \in Nat
    /\ reserved \in Nat
    /\ reservation \in [Attempts -> ReservationStatus]
    /\ inference \in [Attempts -> InferencePhase]
    /\ called \subseteq Attempts

ReservedBy(S) == {a \in S : reservation[a] = "reserved"}
Reserved == ReservedBy(Attempts)
Spent == {a \in Attempts : reservation[a] \in {"settled", "unknown"}}

BudgetInit ==
    /\ Init
    /\ ceiling = Unconfigured
    /\ spent = 0
    /\ reserved = 0
    /\ reservation = [a \in Attempts |-> "none"]
    /\ inference = [a \in Attempts |-> "idle"]
    /\ called = {}

(* configure_budget: a row that exists keeps its ceiling.                  *)
ConfigureBudget(c) ==
    /\ ceiling = Unconfigured
    /\ ceiling' = c
    /\ UNCHANGED <<vars, spent, reserved, reservation, thread>>

(* reserve(run, "model_calls", 1, "model:<run>:<attempt>")                 *)
FitsSpentOnly == spent + 1 <= ceiling

Fits == spent + reserved + 1 <= ceiling

Reserve(a) ==
    /\ inference[a] = "idle"
    /\ reservation[a] = "none"
    /\ ceiling # Unconfigured
    /\ Fits
    /\ reservation' = [reservation EXCEPT ![a] = "reserved"]
    /\ reserved' = reserved + 1
    /\ inference' = [inference EXCEPT ![a] = "submitted"]
    /\ UNCHANGED <<vars, ceiling, spent, called>>

(* A refused reservation leaves infer before anything is started.          *)
RefuseReserve(a) ==
    /\ inference[a] = "idle"
    /\ ceiling # Unconfigured => ~Fits
    /\ inference' = [inference EXCEPT ![a] = "over"]
    /\ UNCHANGED <<vars, budget, called>>

(* run_process starts the provider's CLI.                                  *)
CallProvider(a) ==
    /\ inference[a] = "submitted"
    /\ inference' = [inference EXCEPT ![a] = "running"]
    /\ called' = called \cup {a}
    /\ UNCHANGED <<vars, budget>>

(* The finally clause, reconcile(reservation, 1): the call ended, failed,  *)
(* timed out, was cancelled or never started.  A row that was settled with *)
(* another usage meanwhile makes it raise and change nothing.              *)
RefundFailed(a) ==
    /\ reserved' = reserved - 1
    /\ spent' = spent + (IF a \in called THEN 1 ELSE 0)

Charge(a) ==
    /\ reserved' = reserved - 1
    /\ spent' = spent + 1

StillReserved(a) == reservation[a] = "reserved"

Reconcile(a) ==
    /\ inference[a] \in {"submitted", "running"}
    /\ inference' = [inference EXCEPT ![a] = "over"]
    /\ IF StillReserved(a)
       THEN /\ Charge(a)
            /\ reservation' = [reservation EXCEPT ![a] = "settled"]
       ELSE UNCHANGED <<spent, reserved, reservation>>
    /\ UNCHANGED <<vars, ceiling, called>>

(* reconcile_expired settles the reservations of the attempts it expires.  *)
SettleExpiredTwice(S) ==
    /\ reservation' = [a \in Attempts |->
                         IF a \in ReservedBy(S) THEN "unknown" ELSE reservation[a]]
    /\ spent' = spent + Cardinality(S)
    /\ reserved' = reserved - Cardinality(ReservedBy(S))

SettleExpired(S) ==
    /\ reservation' = [a \in Attempts |->
                         IF a \in ReservedBy(S) THEN "unknown" ELSE reservation[a]]
    /\ spent' = spent + Cardinality(ReservedBy(S))
    /\ reserved' = reserved - Cardinality(ReservedBy(S))

ReconcileExpiredBudget(now) ==
    /\ ReconcileExpired(now)
    /\ SettleExpired({task[t].attempt : t \in {u \in Rows({"running"}) : task[u].until <= now}})
    /\ UNCHANGED <<ceiling, thread>>

(* The thread of an attempt exists once its lease was claimed.             *)
Leased == {l.attempt : l \in leases}

(* The operations of the store that leave the budget alone: claim and      *)
(* cancel_run end attempts without settling their reservations.            *)
StoreStep ==
    \/ \E S \in SUBSET Tasks : RegisterTasks(S)
    \/ \E t \in Tasks, a \in Attempts, now \in ReadBefore, expected \in 0..MaxRevision :
          Claim(t, a, now, expected)
    \/ \E l \in leases : Heartbeat(l)
    \/ \E l \in leases : FinishSuccess(l)
    \/ \E l \in leases : FinishFailure(l)
    \/ CancelRun
    \/ Tick

BudgetNext ==
    \/ StoreStep /\ UNCHANGED <<budget, thread>>
    \/ \E now \in ReadBefore : ReconcileExpiredBudget(now)
    \/ \E c \in Ceilings : ConfigureBudget(c)
    \/ \E a \in Leased : Reserve(a)
    \/ \E a \in Leased : RefuseReserve(a)
    \/ \E a \in Leased : CallProvider(a)
    \/ \E a \in Leased : Reconcile(a)

BudgetSpec == BudgetInit /\ [][BudgetNext]_budgetVars

-----------------------------------------------------------------------------
(* Properties.                                                             *)

(* The two counters of the budgets row are what the reservation rows add   *)
(* up to, though five operations of several processes move them: nothing   *)
(* is charged twice and nothing is lost between reserved and spent.        *)
Balanced ==
    /\ reserved = Cardinality(Reserved)
    /\ spent = Cardinality(Spent)

(* However many attempts are claimed, expired, taken over, cancelled and   *)
(* resumed, the provider is never called more often than max_calls.        *)
CallsWithinCeiling ==
    called # {} => ceiling # Unconfigured /\ Cardinality(called) <= ceiling

(* No refund: what is left of the budget never grows, whether a call       *)
(* fails, is cancelled, or is settled without anybody knowing its outcome. *)
NoRefund == [][spent' + reserved' >= spent + reserved]_budgetVars

(* What the bound rests on: a call is made under a reservation of its own, *)
(* and the charges fit the ceiling.                                        *)
Covered ==
    /\ called \subseteq Reserved \cup Spent
    /\ \A a \in Attempts : inference[a] \in {"submitted", "running"} =>
          a \in Reserved \cup Spent
    /\ ceiling = Unconfigured => Reserved \cup Spent = {}
    /\ ceiling # Unconfigured => spent + reserved <= ceiling
=============================================================================
