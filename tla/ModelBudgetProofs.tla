------------------------- MODULE ModelBudgetProofs -------------------------
(* The budget's books balance and the provider is never called more often  *)
(* than max_calls, for every set of tasks, attempts, ceilings and times.   *)
EXTENDS ModelBudget, TaskLeasesProofs, FiniteSetTheorems

(* The inductive invariant: the books balance, and every call is covered   *)
(* by a reservation inside the ceiling.                                    *)
BudgetIInv == TypeOK /\ BudgetTypeOK /\ Balanced /\ Covered

LEMMA ChargedFinite ==
    ASSUME BudgetTypeOK
    PROVE  /\ IsFiniteSet(Reserved) /\ IsFiniteSet(Spent)
           /\ Cardinality(Reserved) \in Nat /\ Cardinality(Spent) \in Nat
           /\ Reserved \cap Spent = {}
  <1>1. Reserved \in SUBSET Attempts /\ Spent \in SUBSET Attempts
    BY DEF Reserved, ReservedBy, Spent
  <1>2. IsFiniteSet(Reserved) /\ IsFiniteSet(Spent)
    BY <1>1, AttemptsFinite, FS_Subset
  <1> QED
    BY <1>2, FS_CardinalityType DEF Reserved, ReservedBy, Spent

(* Moving the reservations of R from reserved to spent.                    *)
LEMMA ChargeSome ==
    ASSUME BudgetTypeOK, Balanced, NEW R \in SUBSET Reserved,
           Reserved' = Reserved \ R, Spent' = Spent \cup R,
           reserved' = reserved - Cardinality(R),
           spent' = spent + Cardinality(R)
    PROVE  /\ Balanced'
           /\ spent' \in Nat /\ reserved' \in Nat
           /\ spent' + reserved' = spent + reserved
  <1>1. /\ IsFiniteSet(Reserved) /\ IsFiniteSet(Spent)
        /\ Cardinality(Reserved) \in Nat /\ Cardinality(Spent) \in Nat
        /\ Reserved \cap Spent = {}
    BY ChargedFinite
  <1>2. /\ IsFiniteSet(R)
        /\ Cardinality(R) <= Cardinality(Reserved)
    BY <1>1, FS_Subset
  <1>3. Cardinality(R) \in Nat
    BY <1>2, FS_CardinalityType
  <1>4. Cardinality(Reserved \ R) = Cardinality(Reserved) - Cardinality(R)
    <2>1. Reserved \cap R = R
      OBVIOUS
    <2> QED
      BY <2>1, <1>1, FS_Difference
  <1>5. Cardinality(Spent \cup R) = Cardinality(Spent) + Cardinality(R)
    <2>1. Spent \cap R = {}
      BY <1>1
    <2>2. Cardinality(Spent \cap R) = 0
      BY <2>1, FS_EmptySet
    <2>3. Cardinality(Spent \cup R)
            = Cardinality(Spent) + Cardinality(R) - Cardinality(Spent \cap R)
      BY <1>1, <1>2, FS_Union
    <2> QED
      BY <2>2, <2>3, <1>1, <1>3
  <1>6. Cardinality(Reserved') = reserved' /\ Cardinality(Spent') = spent'
    BY <1>4, <1>5 DEF Balanced
  <1>7. reserved = Cardinality(Reserved) /\ spent = Cardinality(Spent)
    BY DEF Balanced
  <1> QED
    BY <1>1, <1>2, <1>3, <1>6, <1>7 DEF Balanced

-----------------------------------------------------------------------------
LEMMA BudgetInvInit == BudgetInit => BudgetIInv
  <1> SUFFICES ASSUME BudgetInit PROVE BudgetIInv
    OBVIOUS
  <1>1. TypeOK
    BY TypeInit DEF BudgetInit
  <1>2. BudgetTypeOK
    BY DEF BudgetInit, BudgetTypeOK, ReservationStatus, InferencePhase
  <1>3. Reserved = {} /\ Spent = {}
    BY DEF BudgetInit, Reserved, ReservedBy, Spent
  <1>4. Balanced
    BY <1>3, FS_EmptySet DEF BudgetInit, Balanced
  <1>5. Covered
    BY <1>3 DEF BudgetInit, Covered
  <1> QED
    BY <1>1, <1>2, <1>4, <1>5 DEF BudgetIInv

(* Every step of the budget is a step of the store.                        *)
LEMMA BudgetStepIsStoreStep == BudgetNext => [Next]_vars
  BY DEF BudgetNext, StoreStep, Next, ReconcileExpiredBudget, ConfigureBudget,
         Reserve, RefuseReserve, CallProvider, Reconcile

LEMMA LeasedAreAttempts ==
    ASSUME TypeOK PROVE Leased \subseteq Attempts
  BY DEF TypeOK, Leased, Lease

LEMMA BooksUntouched ==
    ASSUME BudgetIInv, TypeOK', UNCHANGED <<budget, thread>>
    PROVE  BudgetIInv'
  BY DEF BudgetIInv, BudgetTypeOK, Balanced, Covered, budget, thread,
         Reserved, ReservedBy, Spent

LEMMA ReserveKeeps ==
    ASSUME BudgetIInv, TypeOK', NEW a \in Attempts, Reserve(a)
    PROVE  BudgetIInv'
  <1> USE DEF BudgetIInv
  <1>1. /\ reservation[a] = "none"
        /\ ceiling # Unconfigured
        /\ spent + reserved + 1 <= ceiling
        /\ reservation' = [reservation EXCEPT ![a] = "reserved"]
        /\ reserved' = reserved + 1
        /\ inference' = [inference EXCEPT ![a] = "submitted"]
        /\ UNCHANGED <<ceiling, spent, called>>
    BY DEF Reserve, Fits
  <1>2. BudgetTypeOK'
    BY <1>1 DEF BudgetTypeOK, ReservationStatus, InferencePhase
  <1>3. /\ Reserved' = Reserved \cup {a} /\ a \notin Reserved
        /\ Spent' = Spent
    BY <1>1 DEF Reserved, ReservedBy, Spent, BudgetTypeOK
  <1>4. Balanced'
    BY <1>1, <1>3, ChargedFinite, FS_AddElement DEF Balanced
  <1>5. spent \in Nat /\ reserved \in Nat /\ ceiling \in Nat
    BY <1>1, CeilingsAssumption DEF BudgetTypeOK
  <1>6. Covered'
    BY <1>1, <1>3, <1>5 DEF Covered, BudgetTypeOK
  <1> QED
    BY <1>2, <1>4, <1>6

LEMMA ReconcileBudgetKeeps ==
    ASSUME BudgetIInv, TypeOK', NEW a \in Attempts, Reconcile(a)
    PROVE  BudgetIInv'
  <1> USE DEF BudgetIInv
  <1>1. /\ inference[a] \in {"submitted", "running"}
        /\ inference' = [inference EXCEPT ![a] = "over"]
        /\ UNCHANGED <<ceiling, called>>
    BY DEF Reconcile
  <1>2. CASE StillReserved(a)
    <2>1. /\ reservation[a] = "reserved"
          /\ reserved' = reserved - 1
          /\ spent' = spent + 1
          /\ reservation' = [reservation EXCEPT ![a] = "settled"]
      BY <1>2 DEF Reconcile, StillReserved, Charge
    <2>2. /\ {a} \in SUBSET Reserved
          /\ Reserved' = Reserved \ {a}
          /\ Spent' = Spent \cup {a}
      BY <2>1 DEF Reserved, ReservedBy, Spent, BudgetTypeOK
    <2>3. Cardinality({a}) = 1
      BY FS_Singleton
    <2>4. /\ Balanced'
          /\ spent' \in Nat /\ reserved' \in Nat
          /\ spent' + reserved' = spent + reserved
      BY <2>1, <2>2, <2>3, ChargeSome
    <2>5. BudgetTypeOK'
      BY <1>1, <2>1, <2>4 DEF BudgetTypeOK, ReservationStatus, InferencePhase
    <2>6. Covered'
      BY <1>1, <2>2, <2>4 DEF Covered, BudgetTypeOK
    <2> QED
      BY <2>4, <2>5, <2>6
  <1>3. CASE ~StillReserved(a)
    <2>1. UNCHANGED <<spent, reserved, reservation>>
      BY <1>3 DEF Reconcile
    <2>2. Reserved' = Reserved /\ Spent' = Spent
      BY <2>1 DEF Reserved, ReservedBy, Spent
    <2>3. BudgetTypeOK'
      BY <1>1, <2>1 DEF BudgetTypeOK, InferencePhase
    <2>4. Balanced'
      BY <2>1, <2>2 DEF Balanced
    <2>5. Covered'
      BY <1>1, <2>1, <2>2 DEF Covered, BudgetTypeOK
    <2> QED
      BY <2>3, <2>4, <2>5
  <1> QED
    BY <1>2, <1>3

LEMMA SettleExpiredKeeps ==
    ASSUME BudgetIInv, TypeOK', NEW now \in ReadBefore, ReconcileExpiredBudget(now)
    PROVE  BudgetIInv'
  <1> USE DEF BudgetIInv
  <1> DEFINE S == {task[t].attempt : t \in {u \in Rows({"running"}) : task[u].until <= now}}
  <1>1. S \subseteq Attempts
    BY DEF Rows, TypeOK
  <1>2. SettleExpired(S) /\ UNCHANGED <<ceiling, thread>>
    BY DEF ReconcileExpiredBudget
  <1> HIDE DEF S
  <1> DEFINE R == ReservedBy(S)
  <1>3. R \in SUBSET Reserved
    BY <1>1 DEF Reserved, ReservedBy
  <1>4. /\ Reserved' = Reserved \ R
        /\ Spent' = Spent \cup R
    BY <1>1, <1>2 DEF SettleExpired, Reserved, ReservedBy, Spent, BudgetTypeOK
  <1>5. spent' = spent + Cardinality(R) /\ reserved' = reserved - Cardinality(R)
    BY <1>2 DEF SettleExpired
  <1> HIDE DEF R
  <1>6. /\ Balanced'
        /\ spent' \in Nat /\ reserved' \in Nat
        /\ spent' + reserved' = spent + reserved
    BY <1>3, <1>4, <1>5, ChargeSome
  <1>7. reservation' \in [Attempts -> ReservationStatus]
    BY <1>2 DEF SettleExpired, BudgetTypeOK, ReservationStatus
  <1>8. BudgetTypeOK'
    BY <1>2, <1>6, <1>7 DEF BudgetTypeOK, thread
  <1>9. Covered'
    BY <1>2, <1>3, <1>4, <1>6 DEF Covered, BudgetTypeOK, thread
  <1> QED
    BY <1>6, <1>8, <1>9

LEMMA BudgetInvStep == BudgetIInv /\ [BudgetNext]_budgetVars => BudgetIInv'
  <1> SUFFICES ASSUME BudgetIInv, [BudgetNext]_budgetVars PROVE BudgetIInv'
    OBVIOUS
  <1>t. TypeOK'
    BY BudgetStepIsStoreStep, TypeStep DEF BudgetIInv, budgetVars
  <1>l. Leased \subseteq Attempts
    BY LeasedAreAttempts DEF BudgetIInv
  <1>1. ASSUME StoreStep /\ UNCHANGED <<budget, thread>> PROVE BudgetIInv'
    BY <1>1, <1>t, BooksUntouched
  <1>2. ASSUME NEW now \in ReadBefore, ReconcileExpiredBudget(now) PROVE BudgetIInv'
    BY <1>2, <1>t, SettleExpiredKeeps
  <1>3. ASSUME NEW c \in Ceilings, ConfigureBudget(c) PROVE BudgetIInv'
    <2>1. /\ ceiling = Unconfigured /\ ceiling' = c
          /\ UNCHANGED <<spent, reserved, reservation, thread>>
      BY <1>3 DEF ConfigureBudget
    <2>2. Reserved' = Reserved /\ Spent' = Spent /\ Reserved \cup Spent = {}
      BY <2>1 DEF BudgetIInv, Covered, Reserved, ReservedBy, Spent
    <2>3. spent = 0 /\ reserved = 0
      BY <2>2, FS_EmptySet DEF BudgetIInv, Balanced
    <2>4. c \in Nat /\ c # Unconfigured
      BY CeilingsAssumption
    <2>5. BudgetTypeOK' /\ Balanced'
      BY <2>1, <2>2 DEF BudgetIInv, BudgetTypeOK, Balanced, thread
    <2>6. Covered'
      BY <2>1, <2>2, <2>3, <2>4 DEF BudgetIInv, Covered, BudgetTypeOK, thread
    <2> QED
      BY <1>t, <2>5, <2>6 DEF BudgetIInv
  <1>4. ASSUME NEW a \in Leased, Reserve(a) PROVE BudgetIInv'
    BY <1>4, <1>l, <1>t, ReserveKeeps
  <1>5. ASSUME NEW a \in Leased, RefuseReserve(a) PROVE BudgetIInv'
    BY <1>5, <1>l, <1>t
       DEF RefuseReserve, BudgetIInv, BudgetTypeOK, Balanced, Covered, budget,
           Reserved, ReservedBy, Spent, InferencePhase
  <1>6. ASSUME NEW a \in Leased, CallProvider(a) PROVE BudgetIInv'
    BY <1>6, <1>l, <1>t
       DEF CallProvider, BudgetIInv, BudgetTypeOK, Balanced, Covered, budget,
           Reserved, ReservedBy, Spent, InferencePhase
  <1>7. ASSUME NEW a \in Leased, Reconcile(a) PROVE BudgetIInv'
    BY <1>7, <1>l, <1>t, ReconcileBudgetKeeps
  <1>8. ASSUME UNCHANGED budgetVars PROVE BudgetIInv'
    BY <1>8, <1>t, BooksUntouched DEF budgetVars
  <1> QED
    BY <1>1, <1>2, <1>3, <1>4, <1>5, <1>6, <1>7, <1>8 DEF BudgetNext

-----------------------------------------------------------------------------
(* The inductive invariant holds in every reachable state.                 *)
THEOREM BudgetInductive == BudgetSpec => []BudgetIInv
  BY BudgetInvInit, BudgetInvStep, PTL DEF BudgetSpec

(* The counters of the budgets row are what the reservation rows add up to.*)
THEOREM BooksBalance == BudgetSpec => []Balanced
  <1>1. BudgetIInv => Balanced
    BY DEF BudgetIInv
  <1> QED
    BY BudgetInductive, <1>1, PTL

(* The provider is never called more often than the configured ceiling.    *)
THEOREM BoundedCalls == BudgetSpec => []CallsWithinCeiling
  <1>1. BudgetIInv => CallsWithinCeiling
    <2> SUFFICES ASSUME BudgetIInv, called # {}
                 PROVE  ceiling # Unconfigured /\ Cardinality(called) <= ceiling
      BY DEF CallsWithinCeiling
    <2> USE DEF BudgetIInv
    <2>1. called \in SUBSET (Reserved \cup Spent)
      BY DEF Covered
    <2>2. ceiling # Unconfigured /\ spent + reserved <= ceiling
      BY <2>1 DEF Covered
    <2>3. /\ IsFiniteSet(Reserved) /\ IsFiniteSet(Spent)
          /\ Cardinality(Reserved) \in Nat /\ Cardinality(Spent) \in Nat
          /\ Reserved \cap Spent = {}
      BY ChargedFinite
    <2>4. /\ IsFiniteSet(Reserved \cup Spent)
          /\ Cardinality(Reserved \cup Spent) = Cardinality(Reserved) + Cardinality(Spent)
      <3>1. Cardinality(Reserved \cap Spent) = 0
        BY <2>3, FS_EmptySet
      <3>2. /\ IsFiniteSet(Reserved \cup Spent)
            /\ Cardinality(Reserved \cup Spent)
                 = Cardinality(Reserved) + Cardinality(Spent) - Cardinality(Reserved \cap Spent)
        BY <2>3, FS_Union
      <3> QED
        BY <2>3, <3>1, <3>2
    <2>5. Cardinality(called) <= Cardinality(Reserved \cup Spent)
      BY <2>1, <2>4, FS_Subset
    <2>6. Cardinality(called) \in Nat
      BY <2>1, <2>4, FS_Subset, FS_CardinalityType
    <2>7. ceiling \in Nat /\ Cardinality(called) <= reserved + spent
      BY <2>2, <2>3, <2>4, <2>5, CeilingsAssumption DEF Balanced, BudgetTypeOK
    <2> QED
      BY <2>2, <2>6, <2>7 DEF BudgetTypeOK
  <1> QED
    BY BudgetInductive, <1>1, PTL

(* What is left of the budget never grows.                                 *)
THEOREM NothingRefunded == BudgetSpec => NoRefund
  <1>1. BudgetIInv /\ [BudgetNext]_budgetVars
          => [spent' + reserved' >= spent + reserved]_budgetVars
    <2> SUFFICES ASSUME BudgetIInv, BudgetNext
                 PROVE  spent' + reserved' >= spent + reserved
      OBVIOUS
    <2>t. spent \in Nat /\ reserved \in Nat
      BY DEF BudgetIInv, BudgetTypeOK
    <2>1. ASSUME UNCHANGED <<spent, reserved>>
          PROVE  spent' + reserved' >= spent + reserved
      BY <2>1, <2>t
    <2>2. ASSUME NEW now \in ReadBefore, ReconcileExpiredBudget(now)
          PROVE  spent' + reserved' >= spent + reserved
      <3> DEFINE S == {task[t].attempt : t \in {u \in Rows({"running"}) : task[u].until <= now}}
      <3>1. S \subseteq Attempts
        BY DEF BudgetIInv, Rows, TypeOK
      <3>2. SettleExpired(S)
        BY <2>2 DEF ReconcileExpiredBudget
      <3> HIDE DEF S
      <3>3. ReservedBy(S) \in SUBSET Reserved
        BY <3>1 DEF Reserved, ReservedBy
      <3>4. Cardinality(ReservedBy(S)) \in Nat
        BY <3>3, ChargedFinite, FS_Subset, FS_CardinalityType DEF BudgetIInv
      <3>5. /\ spent' = spent + Cardinality(ReservedBy(S))
            /\ reserved' = reserved - Cardinality(ReservedBy(S))
        BY <3>2 DEF SettleExpired
      <3> QED
        BY <3>4, <3>5, <2>t
    <2>3. ASSUME NEW a \in Leased, Reserve(a)
          PROVE  spent' + reserved' >= spent + reserved
      BY <2>3, <2>t DEF Reserve
    <2>4. ASSUME NEW a \in Leased, Reconcile(a)
          PROVE  spent' + reserved' >= spent + reserved
      BY <2>4, <2>t DEF Reconcile, Charge
    <2> QED
      BY <2>1, <2>2, <2>3, <2>4
         DEF BudgetNext, ConfigureBudget, RefuseReserve, CallProvider, budget
  <1> QED
    BY BudgetInductive, <1>1, PTL DEF BudgetSpec, NoRefund
=============================================================================
