------------------------- MODULE CoordinationProofs -------------------------
(***************************************************************************)
(* Proofs about Coordination: any tasks, consumers, messages and policy,   *)
(* and deliveries that are used late, twice or never.                      *)
(***************************************************************************)
EXTENDS Coordination, FiniteSetTheorems, TLAPS

Kinds == Contents \cup {Diagnostic}

-----------------------------------------------------------------------------
(* The queue of a consumer.                                                *)

(* An event is queued once for a consumer, so a queue is finite.           *)
LEMMA WaitingFinite ==
    ASSUME CoordTypeOK, NEW c \in Consumers
    PROVE  IsFiniteSet(Waiting(c)) /\ Cardinality(Waiting(c)) \in Nat
  <1>1. Waiting(c) \subseteq {c} \X (1..Len(log))
    BY DEF Waiting, CoordTypeOK
  <1>2. IsFiniteSet({c}) /\ IsFiniteSet(1..Len(log))
    <2>1. Len(log) \in Int
      BY DEF CoordTypeOK
    <2>2. IsFiniteSet({c})
      BY FS_Singleton, Zenon
    <2>3. IsFiniteSet(1..Len(log))
      BY <2>1, FS_Interval
    <2> QED
      BY <2>2, <2>3
  <1>3. IsFiniteSet({c} \X (1..Len(log)))
    BY <1>2, FS_Product
  <1> QED
    BY <1>1, <1>3, FS_Subset, FS_CardinalityType

(* The bound on a queue, as the policy states it.                          *)
QueuesBounded == \A c \in Consumers : Cardinality(Waiting(c)) <= MaxPending

LEMMA QueuesBoundedType == CoordTypeOK => QueuesBounded
  BY DEF CoordTypeOK, QueuesBounded, Waiting

(* Nothing is queued and nothing that was settled opens again.             *)
LEMMA QueuesShrink ==
    ASSUME CoordTypeOK,
           DOMAIN notes' = DOMAIN notes,
           \A n \in DOMAIN notes : notes'[n].status \in Open => notes[n].status \in Open
    PROVE  QueuesBounded'
  <1> SUFFICES ASSUME NEW c \in Consumers
               PROVE  Cardinality(Waiting(c)') <= MaxPending
    BY DEF QueuesBounded
  <1>1. Waiting(c)' \subseteq Waiting(c)
    BY DEF Waiting
  <1>2. Cardinality(Waiting(c)) <= MaxPending /\ Cardinality(Waiting(c)) \in Nat
    BY WaitingFinite, QueuesBoundedType DEF QueuesBounded
  <1>3. Cardinality(Waiting(c)') \in Nat /\ Cardinality(Waiting(c)') <= Cardinality(Waiting(c))
    BY <1>1, WaitingFinite, FS_Subset, FS_CardinalityType
  <1>4. MaxPending \in Nat
    BY CoordinationBounds
  <1> QED
    BY <1>2, <1>3, <1>4

(* What an event of the outbox does: what is queued is kept, and what is   *)
(* new is for a subscribed consumer and not handed out yet.                *)
Queues(s) ==
    /\ log' \in Seq(Kinds) /\ Len(log) <= Len(log') /\ Len(log') <= MaxEvents
    /\ DOMAIN notes \subseteq DOMAIN notes'
    /\ DOMAIN notes' \subseteq Consumers \X (1..Len(log'))
    /\ \A n \in DOMAIN notes : notes'[n] = notes[n]
    /\ \A n \in DOMAIN notes' \ DOMAIN notes :
          /\ notes'[n] \in Note
          /\ notes'[n].attempts = 0
          /\ notes'[n].status \in {"pending", "dead"}
          /\ s[n[1]] # NoSubscription
    /\ QueuesBounded'

LEMMA QueuedFields ==
    ASSUME NEW c
    PROVE  /\ Queued(c) \in Note
           /\ Queued(c).attempts = 0
           /\ Queued(c).status \in {"pending", "dead"}
           /\ Queued(c).status = "pending" => Cardinality(Waiting(c)) < MaxPending
  BY CoordinationBounds DEF Queued, Note, Open

LEMMA RecordQueues ==
    ASSUME CoordTypeOK, NEW s, NEW e \in Kinds, Record(s, e)
    PROVE  Queues(s)
  <1> DEFINE new == IF policy = "enabled" THEN Interested(s, e) ELSE {}
             fresh == {<<c, Len(log) + 1>> : c \in new}
  <1>1. /\ new # {} => Len(log) < MaxEvents
        /\ log' = IF new = {} THEN log ELSE Append(log, e)
        /\ notes' = [n \in DOMAIN notes \cup fresh |->
                       IF n \in DOMAIN notes THEN notes[n] ELSE Queued(n[1])]
    BY DEF Record
  <1>2. new \subseteq {c \in Consumers : s[c] # NoSubscription}
    BY DEF Interested
  <1> HIDE DEF new
  <1>3. log \in Seq(Kinds) /\ Len(log) \in Nat /\ Len(log) <= MaxEvents /\ MaxEvents \in Nat
    BY CoordinationBounds DEF CoordTypeOK, Kinds
  <1>4. log' \in Seq(Kinds) /\ Len(log) <= Len(log') /\ Len(log') <= MaxEvents
        /\ (new # {} => Len(log') = Len(log) + 1)
    BY <1>1, <1>3
  <1>5. DOMAIN notes' = DOMAIN notes \cup fresh
    BY <1>1
  <1>6. \A n \in fresh : /\ n[1] \in new /\ n[1] \in Consumers
                         /\ n = <<n[1], Len(log) + 1>>
                         /\ n \in Consumers \X (1..Len(log'))
    BY <1>2, <1>3, <1>4
  <1>7. DOMAIN notes' \subseteq Consumers \X (1..Len(log'))
    <2>1. DOMAIN notes \subseteq Consumers \X (1..Len(log))
      BY DEF CoordTypeOK
    <2>2. 1..Len(log) \subseteq 1..Len(log')
      BY <1>3, <1>4
    <2> QED
      BY <1>5, <1>6, <2>1, <2>2
  <1>8. \A n \in DOMAIN notes : notes'[n] = notes[n]
    BY <1>1
  <1>9. ASSUME NEW n \in DOMAIN notes' \ DOMAIN notes
        PROVE  /\ notes'[n] = Queued(n[1])
               /\ notes'[n] \in Note
               /\ notes'[n].attempts = 0
               /\ notes'[n].status \in {"pending", "dead"}
               /\ s[n[1]] # NoSubscription
               /\ notes'[n].status = "pending" => Cardinality(Waiting(n[1])) < MaxPending
    <2>1. n \in fresh /\ notes'[n] = Queued(n[1])
      BY <1>1, <1>5
    <2> QED
      BY <1>2, <1>6, <2>1, QueuedFields
  <1>10. QueuesBounded'
    <2> SUFFICES ASSUME NEW c \in Consumers
                 PROVE  Cardinality(Waiting(c)') <= MaxPending
      BY DEF QueuesBounded
    <2> DEFINE n == <<c, Len(log) + 1>>
    <2>1. /\ Cardinality(Waiting(c)) <= MaxPending
          /\ IsFiniteSet(Waiting(c)) /\ Cardinality(Waiting(c)) \in Nat
          /\ MaxPending \in Nat
      BY WaitingFinite, QueuesBoundedType, CoordinationBounds DEF QueuesBounded
    <2>2. ASSUME NEW m \in Waiting(c)'
          PROVE  m \in Waiting(c) \/ (m = n /\ Cardinality(Waiting(c)) < MaxPending)
      <3>1. m \in DOMAIN notes' /\ m[1] = c /\ notes'[m].status \in Open
        BY <2>2 DEF Waiting
      <3>2. CASE m \in DOMAIN notes
        <4>1. notes'[m] = notes[m]
          BY <1>8, <3>2
        <4>2. m[1] = c /\ notes[m].status \in Open
          BY <3>1, <4>1
        <4>3. m \in Waiting(c)
          BY <3>2, <4>2 DEF Waiting
        <4> QED
          BY <4>3
      <3>3. CASE m \notin DOMAIN notes
        <4>1. m \in fresh /\ m = n
          BY <1>5, <1>6, <3>1, <3>3
        <4> QED
          BY <1>9, <3>1, <3>3, <4>1 DEF Open
      <3> QED
        BY <3>2, <3>3
    <2>3. CASE Cardinality(Waiting(c)) < MaxPending
      <3>1. Waiting(c)' \subseteq Waiting(c) \cup {n}
        BY <2>2
      <3>2. /\ IsFiniteSet(Waiting(c) \cup {n})
            /\ Cardinality(Waiting(c) \cup {n}) \in
                 {Cardinality(Waiting(c)), Cardinality(Waiting(c)) + 1}
        BY <2>1, FS_AddElement
      <3>3. /\ Cardinality(Waiting(c)') <= Cardinality(Waiting(c) \cup {n})
            /\ Cardinality(Waiting(c)') \in Nat
        BY <3>1, <3>2, FS_Subset, FS_CardinalityType
      <3> QED
        BY <2>1, <2>3, <3>2, <3>3
    <2>4. CASE ~(Cardinality(Waiting(c)) < MaxPending)
      <3>1. Waiting(c)' \subseteq Waiting(c)
        BY <2>2, <2>4
      <3>2. /\ Cardinality(Waiting(c)') <= Cardinality(Waiting(c))
            /\ Cardinality(Waiting(c)') \in Nat
        BY <2>1, <3>1, FS_Subset, FS_CardinalityType
      <3> QED
        BY <2>1, <3>2
    <2> QED
      BY <2>3, <2>4
  <1> QED
    BY <1>4, <1>5, <1>7, <1>8, <1>9, <1>10 DEF Queues

-----------------------------------------------------------------------------
(* The parts of the type invariant: the run with its messages, and the     *)
(* queue with what was handed out of it.                                   *)

RunTypeOK ==
    /\ policy \in {"none", "disabled", "enabled"}
    /\ plan \in 0..MaxPlan /\ planTasks \subseteq Tasks /\ cancelled \in BOOLEAN
    /\ subscription \in [Consumers -> Payloads \cup {NoSubscription}]
    /\ messages \subseteq Message

QueueTypeOK ==
    /\ log \in Seq(Kinds) /\ Len(log) <= MaxEvents
    /\ DOMAIN notes \subseteq Consumers \X (1..Len(log))
    /\ \A n \in DOMAIN notes : notes[n] \in Note /\ subscription[n[1]] # NoSubscription
    /\ inbox \subseteq DOMAIN notes
    /\ handed \subseteq Delivery
    /\ applied \subseteq handed
    /\ QueuesBounded

LEMMA TypeInParts ==
    CoordTypeOK <=> RunTypeOK /\ QueueTypeOK /\ DOMAIN cause = 1..plan
  BY DEF CoordTypeOK, RunTypeOK, QueueTypeOK, Kinds, QueuesBounded, Waiting

(* What EffectOnce says of one notification.                               *)
EffectOf(n) ==
    LET by == {d \in applied : NoteOf(d) = n}
    IN
    /\ notes[n].status = "acked" <=> n \in inbox
    /\ IF n \in inbox
       THEN {d.token : d \in by} = {notes[n].attempts} /\ Cardinality(by) = 1
       ELSE by = {}
    /\ notes[n].status = "dead" => notes[n].attempts \in {0, MaxAttempts}

LEMMA EffectByNote == EffectOnce <=> \A n \in DOMAIN notes : EffectOf(n)
  BY DEF EffectOnce, EffectOf

(* A notification that is not acknowledged by the step, and was not, or    *)
(* was and keeps its attempts, has the effects it had.                     *)
LEMMA EffectKept ==
    ASSUME NEW n, EffectOf(n), inbox' = inbox, applied' = applied,
           \/ notes'[n].status # "acked" /\ notes[n].status # "acked"
           \/ notes'[n].status = notes[n].status /\ notes'[n].attempts = notes[n].attempts,
           notes'[n].status = "dead" => notes'[n].attempts \in {0, MaxAttempts}
    PROVE  EffectOf(n)'
  BY DEF EffectOf, NoteOf

(* A notification nobody was handed has no effect.                         *)
LEMMA EffectOfNew ==
    ASSUME CoordTypeOK, HandedOut, NEW n, n \notin DOMAIN notes,
           inbox' = inbox, applied' = applied,
           notes'[n].attempts = 0, notes'[n].status \in {"pending", "dead"}
    PROVE  EffectOf(n)'
  <1>1. n \notin inbox
    BY DEF CoordTypeOK
  <1>2. {d \in applied : NoteOf(d) = n} = {}
    BY DEF CoordTypeOK, HandedOut
  <1>3. {d \in applied : NoteOf(d) = n}' = {}
    BY <1>2 DEF NoteOf
  <1> QED
    BY <1>1, <1>3 DEF EffectOf

(* What a step that only queues an event preserves.                        *)
LEMMA QueueKept ==
    ASSUME CoordInv, Queues(subscription'),
           UNCHANGED <<inbox, handed, applied>>,
           \A c \in Consumers : subscription[c] # NoSubscription
                                 => subscription'[c] = subscription[c],
           plan \in Nat, plan' \in Nat, plan <= plan',
           plan' = plan => planTasks' = planTasks
    PROVE  QueueTypeOK' /\ HandedOut' /\ EffectOnce'
  <1> USE DEF CoordInv
  <1>0. QueueTypeOK
    BY TypeInParts
  <1>1. ASSUME NEW n \in DOMAIN notes
        PROVE  n[1] \in Consumers /\ subscription'[n[1]] = subscription[n[1]]
               /\ subscription'[n[1]] # NoSubscription
    <2>1. n[1] \in Consumers
      BY <1>0 DEF QueueTypeOK
    <2> QED
      BY <1>0, <2>1 DEF QueueTypeOK
  <1>2. QueueTypeOK'
    <2>1. ASSUME NEW n \in DOMAIN notes'
          PROVE  notes'[n] \in Note /\ subscription'[n[1]] # NoSubscription
      <3>1. CASE n \in DOMAIN notes
        <4>1. notes'[n] = notes[n]
          BY <3>1 DEF Queues
        <4> QED
          BY <1>0, <1>1, <3>1, <4>1 DEF QueueTypeOK
      <3>2. CASE n \notin DOMAIN notes
        BY <3>2 DEF Queues
      <3> QED
        BY <3>1, <3>2
    <2> QED
      BY <1>0, <2>1 DEF Queues, QueueTypeOK
  <1>3. HandedOut'
    <2> SUFFICES ASSUME NEW d \in handed
                 PROVE  /\ NoteOf(d) \in DOMAIN notes'
                        /\ d.plan <= plan'
                        /\ d.plan = plan' => subscription'[d.consumer].task \in planTasks'
      BY DEF HandedOut, NoteOf
    <2>1. d \in Delivery /\ NoteOf(d) \in DOMAIN notes /\ d.plan <= plan
          /\ (d.plan = plan => subscription[d.consumer].task \in planTasks)
      BY <1>0 DEF HandedOut, QueueTypeOK
    <2>2. d.plan \in Nat
      BY <2>1, CoordinationBounds DEF Delivery
    <2>3. subscription'[d.consumer] = subscription[d.consumer]
      BY <1>1, <2>1 DEF NoteOf
    <2> QED
      BY <2>1, <2>2, <2>3 DEF Queues
  <1>4. EffectOnce'
    <2>1. ASSUME NEW n \in DOMAIN notes' PROVE EffectOf(n)'
      <3>1. CASE n \in DOMAIN notes
        <4>1. notes'[n] = notes[n]
          BY <3>1 DEF Queues
        <4>2. EffectOf(n)
          BY <3>1, EffectByNote
        <4>3. notes[n].status = "dead" => notes[n].attempts \in {0, MaxAttempts}
          BY <4>2 DEF EffectOf
        <4> QED
          BY <4>1, <4>2, <4>3, EffectKept
      <3>2. CASE n \notin DOMAIN notes
        BY <3>2, EffectOfNew DEF Queues
      <3> QED
        BY <3>1, <3>2
    <2>2. (\A n \in DOMAIN notes : EffectOf(n))'
      BY <2>1
    <2> QED
      BY <2>2, EffectByNote, PTL
  <1> QED
    BY <1>2, <1>3, <1>4

-----------------------------------------------------------------------------
(* Requests for help: the revisions an id asked for, and what it published.*)

Revisions(id) == {r \in 1..plan : cause[r] = id}

HelpedAt(id) == {m.plan : m \in {o \in messages : o.id = id /\ o.content \in Helping}}

LEMMA HelpById ==
    HelpIsAtomic <=>
        \A id \in Ids : Cardinality(Revisions(id)) <= 1 /\ Revisions(id) = HelpedAt(id)
  BY DEF HelpIsAtomic, Revisions, HelpedAt

LEMMA HelpByIdPrime ==
    ASSUME \A id \in Ids : /\ Cardinality(Revisions(id)') <= 1
                           /\ Revisions(id)' = HelpedAt(id)'
    PROVE  HelpIsAtomic'
  <1>1. (\A id \in Ids : Cardinality(Revisions(id)) <= 1 /\ Revisions(id) = HelpedAt(id))'
    OBVIOUS
  <1> QED
    BY <1>1, HelpById, PTL

(* The revisions of an id stay the same while only others ask.             *)
LEMMA RevisionsOfOthers ==
    ASSUME OneCause, plan \in Nat, NEW who, plan' = plan + 1, cause' = Append(cause, who),
           NEW id, id # who
    PROVE  Revisions(id)' = Revisions(id)
  <1>1. \A r \in 1..plan : cause'[r] = cause[r]
    BY DEF OneCause
  <1>2. cause'[plan + 1] = who
    BY DEF OneCause
  <1>3. 1..plan' = 1..plan \cup {plan + 1}
    OBVIOUS
  <1> QED
    BY <1>1, <1>2, <1>3 DEF Revisions

(* A message that does not ask for help tells nothing of help.             *)
LEMMA HelpedByOthers ==
    ASSUME NEW m, messages' = messages \cup {m}, NEW id, m.id # id \/ m.content \notin Helping
    PROVE  HelpedAt(id)' = HelpedAt(id)
  BY DEF HelpedAt

LEMMA HelpKept ==
    ASSUME HelpIsAtomic,
           \A id \in Ids : Revisions(id)' = Revisions(id) /\ HelpedAt(id)' = HelpedAt(id)
    PROVE  HelpIsAtomic'
  BY HelpById, HelpByIdPrime

(* The stored messages and the revisions of a step that touches neither.   *)
LEMMA RunKept ==
    ASSUME CoordInv, UNCHANGED <<run, messages>>
    PROVE  /\ AskedOnce' /\ OneCause' /\ HelpIsAtomic'
           /\ plan' = plan /\ planTasks' = planTasks /\ cancelled' = cancelled
           /\ plan \in Nat
  <1> USE DEF CoordInv, run
  <1>1. plan \in Nat
    BY CoordinationBounds DEF CoordTypeOK
  <1>2. AskedOnce' /\ OneCause'
    BY DEF AskedOnce, OneCause
  <1>3. HelpIsAtomic'
    BY DEF HelpIsAtomic
  <1> QED
    BY <1>1, <1>2, <1>3

(* The invariant from its parts, after a step.                             *)
LEMMA PartsPrime ==
    ASSUME RunTypeOK', QueueTypeOK', HandedOut', AskedOnce', OneCause', EffectOnce',
           HelpIsAtomic'
    PROVE  CoordInv'
  <1>1. (DOMAIN cause = 1..plan)'
    BY DEF OneCause, RunTypeOK
  <1>2. CoordTypeOK'
    BY <1>1, TypeInParts, PTL
  <1> QED
    BY <1>2 DEF CoordInv

-----------------------------------------------------------------------------
(* The run: policy, subscriptions, the plan.                               *)

LEMMA ConfigureStep ==
    ASSUME CoordInv, NEW p \in {"disabled", "enabled"}, Configure(p)
    PROVE  CoordInv'
  <1> USE DEF Configure, CoordInv
  <1>1. RunTypeOK' /\ QueueTypeOK'
    <2>1. RunTypeOK /\ QueueTypeOK
      BY TypeInParts
    <2> QED
      BY <2>1 DEF RunTypeOK, QueueTypeOK, QueuesBounded, Waiting, queue, run
  <1>2. AskedOnce' /\ OneCause' /\ HelpIsAtomic'
    BY RunKept
  <1>3. HandedOut' /\ EffectOnce'
    BY DEF HandedOut, EffectOnce, NoteOf, queue, run
  <1> QED
    BY <1>1, <1>2, <1>3, PartsPrime

LEMMA SubscribeStep ==
    ASSUME CoordInv, NEW c \in Consumers, NEW payload \in Payloads, Subscribe(c, payload)
    PROVE  CoordInv'
  <1> USE DEF Subscribe, CoordInv
  <1>1. RunTypeOK
    BY TypeInParts
  <1>2. AskedOnce' /\ OneCause' /\ HelpIsAtomic' /\ plan' = plan /\ planTasks' = planTasks
        /\ cancelled' = cancelled /\ plan \in Nat
    BY RunKept
  <1>3. RunTypeOK'
    BY <1>1, <1>2 DEF RunTypeOK
  <1>4. Queues(subscription')
    BY RecordQueues DEF Kinds
  <1>5. \A d \in Consumers : subscription[d] # NoSubscription
                             => subscription'[d] = subscription[d]
    BY <1>1 DEF RunTypeOK
  <1>6. QueueTypeOK' /\ HandedOut' /\ EffectOnce'
    BY <1>2, <1>4, <1>5, QueueKept
  <1> QED
    BY <1>2, <1>3, <1>6, PartsPrime

(* A revision, asked for by an id or by the operator.                      *)
LEMMA ReviseKept ==
    ASSUME CoordInv, NEW who \in Ids \cup {Operator}, NEW left \in SUBSET planTasks,
           Revise(who, left)
    PROVE  /\ OneCause' /\ plan \in Nat /\ plan' = plan + 1 /\ plan' \in 0..MaxPlan
           /\ planTasks' \subseteq Tasks
  <1> USE DEF Revise, CoordInv
  <1>1. plan \in Nat /\ plan' = plan + 1 /\ plan' \in 0..MaxPlan
    BY CoordinationBounds DEF CoordTypeOK
  <1>2. OneCause'
    BY <1>1 DEF OneCause
  <1>3. planTasks' \subseteq Tasks
    BY DEF CoordTypeOK
  <1> QED
    BY <1>1, <1>2, <1>3

LEMMA PatchStep ==
    ASSUME CoordInv, Patch
    PROVE  CoordInv'
  <1>0. PICK left \in SUBSET planTasks : Revise(Operator, left)
    BY DEF Patch
  <1> USE DEF Patch, CoordInv
  <1>1. RunTypeOK
    BY TypeInParts
  <1>2. /\ OneCause' /\ plan \in Nat /\ plan' = plan + 1 /\ plan' \in 0..MaxPlan
        /\ planTasks' \subseteq Tasks
    BY <1>0, ReviseKept
  <1>3. RunTypeOK'
    BY <1>1, <1>2 DEF RunTypeOK
  <1>4. Queues(subscription')
    BY RecordQueues DEF Kinds
  <1>5. QueueTypeOK' /\ HandedOut' /\ EffectOnce'
    BY <1>2, <1>4, QueueKept
  <1>6. AskedOnce'
    BY DEF AskedOnce
  <1>7. HelpIsAtomic'
    <2>1. ASSUME NEW id \in Ids
          PROVE  Revisions(id)' = Revisions(id) /\ HelpedAt(id)' = HelpedAt(id)
      <3>1. id # Operator
        BY CoordinationContents
      <3>2. Revisions(id)' = Revisions(id)
        BY <1>0, <1>2, <3>1, RevisionsOfOthers DEF Revise
      <3>3. HelpedAt(id)' = HelpedAt(id)
        BY DEF HelpedAt
      <3> QED
        BY <3>2, <3>3
    <2> QED
      BY <2>1, HelpKept
  <1> QED
    BY <1>2, <1>3, <1>5, <1>6, <1>7, PartsPrime

LEMMA CancelRunStep ==
    ASSUME CoordInv, CancelRun
    PROVE  CoordInv'
  <1> USE DEF CancelRun, CoordInv
  <1>1. RunTypeOK
    BY TypeInParts
  <1>2. AskedOnce' /\ OneCause' /\ HelpIsAtomic' /\ plan \in Nat
    <2>1. plan \in Nat
      BY <1>1, CoordinationBounds DEF RunTypeOK
    <2>2. AskedOnce' /\ OneCause'
      BY DEF AskedOnce, OneCause
    <2>3. HelpIsAtomic'
      BY DEF HelpIsAtomic
    <2> QED
      BY <2>1, <2>2, <2>3
  <1>3. RunTypeOK'
    BY <1>1 DEF RunTypeOK
  <1>4. Queues(subscription')
    BY RecordQueues DEF Kinds
  <1>5. QueueTypeOK' /\ HandedOut' /\ EffectOnce'
    BY <1>2, <1>4, QueueKept
  <1> QED
    BY <1>2, <1>3, <1>5, PartsPrime

-----------------------------------------------------------------------------
(* Messages.                                                               *)

(* A message of the run's plan that asks for no help, by an id that was    *)
(* not used or by the kernel itself.                                       *)
LEMMA StoreKept ==
    ASSUME CoordInv, NEW id \in Ids \cup {Operator}, NEW content \in Contents \ Helping,
           id = Operator \/ ~Previous(id),
           Store(id, content, plan, plan), UNCHANGED <<policy, run, subscription>>
    PROVE  RunTypeOK' /\ AskedOnce' /\ OneCause' /\ HelpIsAtomic'
  <1> DEFINE m == [id |-> id, base |-> plan, plan |-> plan, content |-> content, age |-> 0]
  <1> USE DEF CoordInv, run
  <1>1. RunTypeOK
    BY TypeInParts
  <1>2. messages' = messages \cup {m}
    BY DEF Store
  <1>3. m \in Message
    BY <1>1, CoordinationBounds DEF RunTypeOK, Message
  <1>4. RunTypeOK'
    BY <1>1, <1>2, <1>3 DEF RunTypeOK
  <1>5. AskedOnce'
    <2>1. ASSUME NEW o \in messages, o.id = id PROVE id = Operator
      BY <2>1 DEF Previous
    <2> QED
      BY <1>2, <2>1 DEF AskedOnce
  <1>6. OneCause'
    BY DEF OneCause
  <1>7. HelpIsAtomic'
    <2>0. m.content \notin Helping
      OBVIOUS
    <2> HIDE DEF m
    <2>1. ASSUME NEW i \in Ids
          PROVE  Revisions(i)' = Revisions(i) /\ HelpedAt(i)' = HelpedAt(i)
      <3>1. Revisions(i)' = Revisions(i)
        BY DEF Revisions
      <3>2. HelpedAt(i)' = HelpedAt(i)
        BY <1>2, <2>0, HelpedByOthers
      <3> QED
        BY <3>1, <3>2
    <2> QED
      BY <2>1, HelpKept
  <1> QED
    BY <1>4, <1>5, <1>6, <1>7

LEMMA PublishStep ==
    ASSUME CoordInv, NEW id \in Ids, NEW content \in Contents, Publish(id, content)
    PROVE  CoordInv'
  <1> USE DEF Publish, CoordInv
  <1>1. RunTypeOK' /\ AskedOnce' /\ OneCause' /\ HelpIsAtomic'
    BY StoreKept
  <1>2. plan \in Nat /\ UNCHANGED <<plan, planTasks>>
    BY CoordinationBounds DEF CoordTypeOK, run
  <1>3. Queues(subscription')
    BY RecordQueues DEF Kinds
  <1>4. QueueTypeOK' /\ HandedOut' /\ EffectOnce'
    BY <1>2, <1>3, QueueKept
  <1> QED
    BY <1>1, <1>4, PartsPrime

LEMMA GrantHelpStep ==
    ASSUME CoordInv, NEW id \in Ids, NEW content \in Contents, GrantHelp(id, content)
    PROVE  CoordInv'
  <1> DEFINE m == [id |-> id, base |-> plan, plan |-> plan + 1, content |-> content, age |-> 0]
  <1> USE DEF GrantHelp, CoordInv
  <1>1. RunTypeOK
    BY TypeInParts
  <1>2. /\ OneCause' /\ plan \in Nat /\ plan' = plan + 1 /\ plan' \in 0..MaxPlan
        /\ planTasks' \subseteq Tasks
    BY ReviseKept
  <1>3. messages' = messages \cup {m}
    BY DEF Store
  <1>4. m \in Message
    BY <1>1, <1>2, CoordinationBounds DEF RunTypeOK, Message
  <1>5. RunTypeOK'
    BY <1>1, <1>2, <1>3, <1>4 DEF RunTypeOK
  <1>6. AskedOnce'
    <2>1. \A o \in messages : o.id # id
      BY DEF Previous
    <2> QED
      BY <1>3, <2>1 DEF AskedOnce
  <1>7. Queues(subscription')
    BY RecordQueues DEF Kinds
  <1>8. QueueTypeOK' /\ HandedOut' /\ EffectOnce'
    BY <1>2, <1>7, QueueKept
  <1>9. HelpIsAtomic'
    <2>0. m.id = id /\ m.plan = plan + 1 /\ m.content \in Helping
      OBVIOUS
    <2> HIDE DEF m
    <2>1. ASSUME NEW i \in Ids
          PROVE  Cardinality(Revisions(i)') <= 1 /\ Revisions(i)' = HelpedAt(i)'
      <3>1. Cardinality(Revisions(i)) <= 1 /\ Revisions(i) = HelpedAt(i)
        BY HelpById
      <3>2. CASE i # id
        <4>1. Revisions(i)' = Revisions(i)
          BY <1>2, <3>2, RevisionsOfOthers DEF Revise
        <4>2. HelpedAt(i)' = HelpedAt(i)
          BY <1>3, <2>0, <3>2, HelpedByOthers
        <4> QED
          BY <3>1, <4>1, <4>2
      <3>3. CASE i = id
        <4>1. \A o \in messages : o.id # id
          BY DEF Previous
        <4>2. Revisions(id) = {}
          BY <3>1, <3>3, <4>1 DEF HelpedAt
        <4>3. HelpedAt(id)' = {plan + 1}
          BY <1>3, <2>0, <4>1 DEF HelpedAt
        <4>4. Revisions(id)' = {plan + 1}
          <5>1. cause \in Seq(Ids \cup {Operator}) /\ Len(cause) = plan
                /\ cause' = Append(cause, id)
            BY DEF OneCause, Revise
          <5>2. \A r \in 1..plan : cause'[r] = cause[r] /\ cause[r] # id
            BY <1>2, <4>2, <5>1 DEF Revisions
          <5>3. cause'[plan + 1] = id
            BY <5>1
          <5>4. 1..plan' = 1..plan \cup {plan + 1}
            BY <1>2
          <5> QED
            BY <5>2, <5>3, <5>4 DEF Revisions
        <4>5. Cardinality({plan + 1}) = 1
          BY FS_Singleton, Zenon
        <4> QED
          BY <3>3, <4>3, <4>4, <4>5
      <3> QED
        BY <3>2, <3>3
    <2> QED
      BY <2>1, HelpByIdPrime
  <1> QED
    BY <1>2, <1>5, <1>6, <1>8, <1>9, PartsPrime

(* An event that is recorded beside an unchanged run.                      *)
LEMMA RecordedOnly ==
    ASSUME CoordInv, NEW e \in Kinds, Record(subscription, e),
           UNCHANGED <<policy, run, subscription, messages, inbox, handed, applied>>
    PROVE  CoordInv'
  <1> USE DEF CoordInv
  <1>1. RunTypeOK
    BY TypeInParts
  <1>2. AskedOnce' /\ OneCause' /\ HelpIsAtomic' /\ plan' = plan /\ planTasks' = planTasks
        /\ cancelled' = cancelled /\ plan \in Nat
    BY RunKept
  <1>3. RunTypeOK'
    BY <1>1, <1>2 DEF RunTypeOK
  <1>4. Queues(subscription')
    BY RecordQueues
  <1>5. QueueTypeOK' /\ HandedOut' /\ EffectOnce'
    BY <1>2, <1>4, QueueKept
  <1> QED
    BY <1>2, <1>3, <1>5, PartsPrime

LEMMA AppendEventStep ==
    ASSUME CoordInv, AppendEvent
    PROVE  CoordInv'
  BY RecordedOnly DEF AppendEvent, Kinds

LEMMA RejectHelpStep ==
    ASSUME CoordInv, NEW id \in Ids, NEW content \in Contents, RejectHelp(id, content)
    PROVE  CoordInv'
  BY RecordedOnly DEF RejectHelp, Kinds

LEMMA PublishCommittedStep ==
    ASSUME CoordInv, NEW content \in Contents, PublishCommitted(content)
    PROVE  CoordInv'
  <1> USE DEF PublishCommitted
  <1>1. CASE WithinBudget
    <2> USE DEF CoordInv
    <2>1. RunTypeOK' /\ AskedOnce' /\ OneCause' /\ HelpIsAtomic'
      <3>1. content \in Contents \ Helping
        BY CoordinationContents
      <3> QED
        BY <1>1, <3>1, StoreKept
    <2>2. plan \in Nat /\ UNCHANGED <<plan, planTasks>>
      BY CoordinationBounds DEF CoordTypeOK, run
    <2>3. Queues(subscription')
      BY <1>1, RecordQueues DEF Kinds
    <2>4. QueueTypeOK' /\ HandedOut' /\ EffectOnce'
      BY <2>2, <2>3, QueueKept
    <2> QED
      BY <2>1, <2>4, PartsPrime
  <1>2. CASE ~WithinBudget
    BY <1>2, RecordedOnly DEF Kinds
  <1> QED
    BY <1>1, <1>2

-----------------------------------------------------------------------------
(* Consumers.                                                              *)

(* A step of a consumer, or of time: the same notifications in other       *)
(* states, none of which opens again.                                      *)
LEMMA NotesKept ==
    ASSUME CoordInv, UNCHANGED <<subscription, log>>, DOMAIN notes' = DOMAIN notes,
           \A n \in DOMAIN notes : /\ notes'[n] \in Note
                                   /\ notes'[n].status \in Open => notes[n].status \in Open,
           inbox' \subseteq DOMAIN notes, handed' \subseteq Delivery,
           applied' \subseteq handed'
    PROVE  QueueTypeOK'
  <1>1. CoordTypeOK /\ QueueTypeOK
    BY TypeInParts DEF CoordInv
  <1>2. QueuesBounded'
    BY <1>1, QueuesShrink
  <1> QED
    BY <1>1, <1>2 DEF QueueTypeOK

LEMMA EffectPrime ==
    ASSUME DOMAIN notes' = DOMAIN notes, \A n \in DOMAIN notes : EffectOf(n)'
    PROVE  EffectOnce'
  <1>1. (\A n \in DOMAIN notes : EffectOf(n))'
    OBVIOUS
  <1> QED
    BY <1>1, EffectByNote, PTL

(* The types of a notification's fields.                                   *)
LEMMA NoteFields ==
    ASSUME CoordInv, NEW n \in DOMAIN notes
    PROVE  /\ notes[n] \in Note
           /\ notes[n].status \in {"pending", "leased", "acked", "dead"}
           /\ notes[n].attempts \in 0..MaxAttempts
           /\ notes[n].until \in -BusyTime..LeaseTime
           /\ notes[n].available \in Int
           /\ n = <<n[1], n[2]>> /\ n[1] \in Consumers /\ n[2] \in Events
           /\ subscription[n[1]] # NoSubscription
           /\ EffectOf(n)
  <1>1. QueueTypeOK /\ EffectOnce
    BY TypeInParts DEF CoordInv
  <1>2. notes[n] \in Note /\ subscription[n[1]] # NoSubscription /\ EffectOf(n)
    BY <1>1, EffectByNote DEF QueueTypeOK
  <1>3. n \in Consumers \X (1..Len(log))
    BY <1>1 DEF QueueTypeOK
  <1>4. Len(log) \in Nat /\ Len(log) <= MaxEvents /\ MaxEvents \in Nat
    BY <1>1, CoordinationBounds DEF QueueTypeOK
  <1>5. n = <<n[1], n[2]>> /\ n[1] \in Consumers /\ n[2] \in Events
    BY <1>3, <1>4 DEF Events
  <1> QED
    BY <1>2, <1>5 DEF Note, Open

LEMMA RunTypeKept ==
    ASSUME CoordInv, UNCHANGED <<policy, run, subscription, messages>>
    PROVE  RunTypeOK'
  <1>1. RunTypeOK
    BY TypeInParts DEF CoordInv
  <1> QED
    BY <1>1 DEF RunTypeOK, run

LEMMA ClaimStep ==
    ASSUME CoordInv, NEW c \in Consumers, Claim(c)
    PROVE  CoordInv'
  <1>1. PICK late \in 0..BusyTime :
        LET mine == {n \in DOMAIN notes : n[1] = c}
            given == {n \in mine : Exhausted(n, late)}
            ready == {n \in mine : Deliverable(n, late)}
            next == {n \in ready : \A r \in ready : n[2] <= r[2]}
        IN
        /\ given \cup ready # {}
        /\ notes' = [n \in DOMAIN notes |->
               CASE n \in given -> [notes[n] EXCEPT !.status = "dead"]
                 [] n \in next -> [notes[n] EXCEPT !.status = "leased", !.attempts = @ + 1,
                                                   !.until = LeaseTime - late]
                 [] OTHER -> notes[n]]
        /\ handed' = handed \cup
               {[consumer |-> c, event |-> n[2], token |-> notes[n].attempts + 1,
                 plan |-> plan] : n \in next}
    BY DEF Claim
  <1> DEFINE mine == {n \in DOMAIN notes : n[1] = c}
             given == {n \in mine : Exhausted(n, late)}
             ready == {n \in mine : Deliverable(n, late)}
             next == {n \in ready : \A r \in ready : n[2] <= r[2]}
             offer(n) == [consumer |-> c, event |-> n[2], token |-> notes[n].attempts + 1,
                          plan |-> plan]
  <1>2. /\ notes' = [n \in DOMAIN notes |->
               CASE n \in given -> [notes[n] EXCEPT !.status = "dead"]
                 [] n \in next -> [notes[n] EXCEPT !.status = "leased", !.attempts = @ + 1,
                                                   !.until = LeaseTime - late]
                 [] OTHER -> notes[n]]
        /\ handed' = handed \cup {offer(n) : n \in next}
    BY <1>1
  <1>3. /\ UNCHANGED <<policy, run, subscription, messages, log, inbox, applied>>
        /\ ~cancelled /\ subscription[c].task \in planTasks
    BY DEF Claim
  <1>4. ASSUME NEW n \in given
        PROVE  /\ n \in DOMAIN notes /\ notes[n].attempts = MaxAttempts
               /\ notes[n].status \in Open
    BY NoteFields, CoordinationBounds DEF Exhausted, Expired, Open
  <1>5. ASSUME NEW n \in next
        PROVE  /\ n \in DOMAIN notes /\ n[1] = c /\ n \notin given
               /\ notes[n].attempts < MaxAttempts /\ notes[n].status \in Open
    <2>1. n \in DOMAIN notes /\ n[1] = c /\ Deliverable(n, late)
      OBVIOUS
    <2>2. notes[n].status \in Open /\ ~Exhausted(n, late)
      BY <2>1 DEF Deliverable, Expired, Open
    <2>3. notes[n].attempts < MaxAttempts
      <3>1. ~(notes[n].attempts >= MaxAttempts)
        BY <2>1, <2>2 DEF Exhausted, Deliverable
      <3> QED
        BY <2>1, <3>1, NoteFields, CoordinationBounds
    <2> QED
      BY <2>1, <2>2, <2>3
  <1> HIDE DEF given, next
  <1>6. /\ DOMAIN notes' = DOMAIN notes
        /\ \A n \in DOMAIN notes :
              notes'[n] = CASE n \in given -> [notes[n] EXCEPT !.status = "dead"]
                            [] n \in next -> [notes[n] EXCEPT !.status = "leased",
                                                 !.attempts = @ + 1, !.until = LeaseTime - late]
                            [] OTHER -> notes[n]
    BY <1>2
  <1> HIDE DEF offer
  <1>7. ASSUME NEW n \in DOMAIN notes
        PROVE  /\ notes'[n] \in Note
               /\ notes'[n].status \in Open => notes[n].status \in Open
               /\ EffectOf(n)'
    <2>0. notes[n] \in Note /\ EffectOf(n)
          /\ (notes[n].status = "dead" => notes[n].attempts \in {0, MaxAttempts})
      BY NoteFields DEF EffectOf
    <2>1. CASE n \in given
      <3>1. notes'[n] = [notes[n] EXCEPT !.status = "dead"]
        BY <1>5, <1>6, <2>1
      <3>2. notes'[n] \in Note /\ notes'[n].status = "dead"
            /\ notes'[n].attempts = MaxAttempts
        BY <1>4, <2>0, <2>1, <3>1 DEF Note
      <3> QED
        BY <1>3, <1>4, <2>0, <2>1, <3>2, EffectKept DEF Open
    <2>2. CASE n \in next
      <3>1. notes'[n] = [notes[n] EXCEPT !.status = "leased", !.attempts = @ + 1,
                                         !.until = LeaseTime - late]
        BY <1>5, <1>6, <2>2
      <3>2. /\ notes[n].attempts + 1 \in 0..MaxAttempts
            /\ LeaseTime - late \in -BusyTime..LeaseTime
        BY <1>5, <2>2, NoteFields, CoordinationBounds
      <3>3. notes'[n] \in Note /\ notes'[n].status = "leased"
        BY <2>0, <3>1, <3>2 DEF Note, Open
      <3> QED
        BY <1>3, <1>5, <2>0, <2>2, <3>3, EffectKept DEF Open
    <2>3. CASE n \notin given /\ n \notin next
      <3>1. notes'[n] = notes[n]
        BY <1>6, <2>3
      <3> QED
        BY <1>3, <2>0, <3>1, EffectKept
    <2> QED
      BY <2>1, <2>2, <2>3
  <1>8. plan \in Nat /\ plan \in 0..MaxPlan
    BY CoordinationBounds DEF CoordInv, CoordTypeOK
  <1>9. ASSUME NEW n \in next
        PROVE  /\ offer(n) \in Delivery /\ NoteOf(offer(n)) \in DOMAIN notes
               /\ offer(n).plan = plan /\ offer(n).consumer = c
    <2>1. n \in DOMAIN notes /\ n = <<c, n[2]>> /\ n[2] \in Events
          /\ notes[n].attempts + 1 \in 1..MaxAttempts
      BY <1>5, NoteFields, CoordinationBounds
    <2> QED
      BY <1>8, <2>1 DEF offer, Delivery, NoteOf
  <1>10. QueueTypeOK'
    <2>1. inbox' \subseteq DOMAIN notes /\ handed \subseteq Delivery /\ applied' \subseteq handed
      BY <1>3 DEF CoordInv, CoordTypeOK
    <2> QED
      BY <1>2, <1>3, <1>6, <1>7, <1>9, <2>1, NotesKept
  <1>11. HandedOut'
    <2> SUFFICES ASSUME NEW d \in handed'
                 PROVE  /\ NoteOf(d) \in DOMAIN notes
                        /\ d.plan <= plan
                        /\ d.plan = plan => subscription[d.consumer].task \in planTasks
      BY <1>3, <1>6 DEF HandedOut, NoteOf, run
    <2>1. CASE d \in handed
      BY <2>1 DEF CoordInv, HandedOut
    <2>2. CASE \E n \in next : d = offer(n)
      BY <1>3, <1>8, <1>9, <2>2
    <2> QED
      BY <1>2, <2>1, <2>2
  <1>12. EffectOnce'
    BY <1>6, <1>7, EffectPrime
  <1>13. RunTypeOK' /\ AskedOnce' /\ OneCause' /\ HelpIsAtomic'
    BY <1>3, RunTypeKept, RunKept
  <1> QED
    BY <1>10, <1>11, <1>12, <1>13, PartsPrime

(* A delivery that is current is the last that was handed out of its       *)
(* notification, which is leased and had no effect.                        *)
LEMMA CurrentFacts ==
    ASSUME CoordInv, NEW d \in handed, Current(d)
    PROVE  /\ d \in Delivery /\ NoteOf(d) \in DOMAIN notes
           /\ notes[NoteOf(d)].status = "leased"
           /\ notes[NoteOf(d)].attempts = d.token
           /\ NoteOf(d) \notin inbox
           /\ subscription[d.consumer].task \in planTasks
  <1>1. d \in Delivery /\ NoteOf(d) \in DOMAIN notes
        /\ (d.plan = plan => subscription[d.consumer].task \in planTasks)
    BY DEF CoordInv, CoordTypeOK, HandedOut
  <1>2. EffectOf(NoteOf(d))
    BY <1>1, NoteFields
  <1> QED
    BY <1>1, <1>2 DEF Current, EffectOf

LEMMA ConsumeStep ==
    ASSUME CoordInv, NEW d \in handed, Consume(d)
    PROVE  CoordInv'
  <1> DEFINE k == NoteOf(d)
  <1>1. /\ d \in Delivery /\ k \in DOMAIN notes /\ notes[k].status = "leased"
        /\ notes[k].attempts = d.token /\ k \notin inbox
    BY CurrentFacts DEF Consume
  <1>2. /\ inbox' = inbox \cup {k} /\ applied' = applied \cup {d}
        /\ notes' = [notes EXCEPT ![k].status = "acked", ![k].until = -BusyTime]
        /\ UNCHANGED <<policy, run, subscription, messages, log, handed>>
    BY DEF Consume
  <1>3. NoteOf(d)' = NoteOf(d)
    BY DEF NoteOf
  <1>4. {e \in applied : NoteOf(e) = k} = {}
    BY <1>1, NoteFields DEF EffectOf
  <1> HIDE DEF k
  <1>5. DOMAIN notes' = DOMAIN notes
    BY <1>2
  <1>6. ASSUME NEW n \in DOMAIN notes, n # k
        PROVE  notes'[n] = notes[n] /\ EffectOf(n)'
    <2>1. notes'[n] = notes[n]
      BY <1>2, <1>6
    <2>2. EffectOf(n)
      BY NoteFields
    <2>3. n \in inbox' <=> n \in inbox
      BY <1>2, <1>6
    <2>4. {e \in applied : NoteOf(e) = n}' = {e \in applied : NoteOf(e) = n}
      BY <1>2, <1>6 DEF NoteOf, k
    <2> QED
      BY <2>1, <2>2, <2>3, <2>4 DEF EffectOf
  <1>7. notes'[k] \in Note /\ notes'[k].status = "acked" /\ notes'[k].attempts = d.token
    <2>1. notes[k] \in Note
      BY <1>1, NoteFields
    <2>2. -BusyTime \in -BusyTime..LeaseTime
      BY CoordinationBounds
    <2>3. notes'[k] = [notes[k] EXCEPT !.status = "acked", !.until = -BusyTime]
      BY <1>1, <1>2
    <2> QED
      BY <1>1, <2>1, <2>2, <2>3 DEF Note
  <1>8. EffectOf(k)'
    <2>1. {e \in applied : NoteOf(e) = k}' = {d}
      BY <1>2, <1>4 DEF NoteOf, k
    <2>2. {e.token : e \in {d}} = {d.token}
      OBVIOUS
    <2>3. Cardinality({d}) = 1
      BY FS_Singleton, Zenon
    <2>4. k \in inbox'
      BY <1>2
    <2> HIDE <1>2
    <2> QED
      BY <1>7, <2>1, <2>2, <2>3, <2>4 DEF EffectOf
  <1>9. EffectOnce'
    BY <1>5, <1>6, <1>8, EffectPrime
  <1>10. QueueTypeOK'
    <2>1. inbox' \subseteq DOMAIN notes /\ handed' \subseteq Delivery /\ applied' \subseteq handed'
      BY <1>1, <1>2 DEF CoordInv, CoordTypeOK
    <2>2. \A n \in DOMAIN notes : /\ notes'[n] \in Note
                                  /\ notes'[n].status \in Open => notes[n].status \in Open
      BY <1>6, <1>7, NoteFields DEF Open
    <2> QED
      BY <1>2, <1>5, <2>1, <2>2, NotesKept
  <1>11. HandedOut'
    BY <1>2, <1>5 DEF CoordInv, HandedOut, NoteOf, run
  <1>12. RunTypeOK' /\ AskedOnce' /\ OneCause' /\ HelpIsAtomic'
    BY <1>2, RunTypeKept, RunKept
  <1> QED
    BY <1>9, <1>10, <1>11, <1>12, PartsPrime

LEMMA FailStep ==
    ASSUME CoordInv, NEW d \in handed, Fail(d)
    PROVE  CoordInv'
  <1> DEFINE k == NoteOf(d)
             status == IF d.token >= MaxAttempts THEN "dead" ELSE "pending"
             wait == RetryTime * 2 ^ (d.token - 1)
  <1>1. /\ d \in Delivery /\ k \in DOMAIN notes /\ notes[k].status = "leased"
        /\ notes[k].attempts = d.token
    BY CurrentFacts DEF Fail
  <1>2. /\ notes' = [notes EXCEPT ![k].status = status, ![k].until = -BusyTime,
                                  ![k].available = wait]
        /\ UNCHANGED <<policy, run, subscription, messages, log, inbox, handed, applied>>
    BY DEF Fail
  <1>3. wait \in Int
    <2>1. d.token - 1 \in Nat /\ RetryTime \in Int
      BY <1>1, CoordinationBounds DEF Delivery
    <2>2. 2 ^ (d.token - 1) \in Int
      BY <2>1
    <2> QED
      BY <2>1, <2>2
  <1>4. status \in {"dead", "pending"} /\ (status = "dead" => d.token = MaxAttempts)
    <2>1. d.token \in 1..MaxAttempts /\ MaxAttempts \in Int
      BY <1>1, CoordinationBounds DEF Delivery
    <2> QED
      BY <2>1
  <1> HIDE DEF k, status, wait
  <1>5. DOMAIN notes' = DOMAIN notes
    BY <1>2
  <1>6. ASSUME NEW n \in DOMAIN notes
        PROVE  /\ notes'[n] \in Note
               /\ notes'[n].status \in Open => notes[n].status \in Open
               /\ EffectOf(n)'
    <2>1. notes[n] \in Note /\ EffectOf(n)
          /\ (notes[n].status = "dead" => notes[n].attempts \in {0, MaxAttempts})
      BY NoteFields DEF EffectOf
    <2>2. CASE n # k
      <3>1. notes'[n] = notes[n]
        BY <1>2, <2>2
      <3> QED
        BY <1>2, <2>1, <3>1, EffectKept
    <2>3. CASE n = k
      <3>1. notes'[k] = [notes[k] EXCEPT !.status = status, !.until = -BusyTime,
                                         !.available = wait]
        BY <1>1, <1>2
      <3>2. -BusyTime \in -BusyTime..LeaseTime
        BY CoordinationBounds
      <3>3. /\ notes'[k] \in Note /\ notes'[k].status = status
            /\ notes'[k].attempts = d.token
        BY <1>1, <1>3, <1>4, <2>1, <2>3, <3>1, <3>2 DEF Note, Open
      <3> QED
        BY <1>1, <1>2, <1>4, <2>1, <2>3, <3>3, EffectKept DEF Open
    <2> QED
      BY <2>2, <2>3
  <1>7. QueueTypeOK'
    <2>1. inbox' \subseteq DOMAIN notes /\ handed' \subseteq Delivery /\ applied' \subseteq handed'
      BY <1>2 DEF CoordInv, CoordTypeOK
    <2> QED
      BY <1>2, <1>5, <1>6, <2>1, NotesKept
  <1>8. EffectOnce'
    BY <1>5, <1>6, EffectPrime
  <1>9. HandedOut'
    BY <1>2, <1>5 DEF CoordInv, HandedOut, NoteOf, run
  <1>10. RunTypeOK' /\ AskedOnce' /\ OneCause' /\ HelpIsAtomic'
    BY <1>2, RunTypeKept, RunKept
  <1> QED
    BY <1>7, <1>8, <1>9, <1>10, PartsPrime

LEMMA TickStep ==
    ASSUME CoordInv, CoordTick
    PROVE  CoordInv'
  <1> DEFINE older(m) == [m EXCEPT !.age = IF @ < RateTime THEN @ + 1 ELSE @]
  <1>1. /\ notes' = [n \in DOMAIN notes |->
                [notes[n] EXCEPT !.until = Down(@), !.available = Down(@)]]
        /\ messages' = {older(m) : m \in messages}
        /\ UNCHANGED <<policy, run, subscription, log, inbox, handed, applied>>
    BY DEF CoordTick
  <1>2. RunTypeOK
    BY TypeInParts DEF CoordInv
  <1>3. ASSUME NEW m \in messages
        PROVE  /\ older(m) \in Message /\ older(m).id = m.id
               /\ older(m).plan = m.plan /\ older(m).content = m.content
    <2>1. m \in Message
      BY <1>2 DEF RunTypeOK
    <2>2. RateTime \in Nat /\ m.age \in 0..RateTime
      BY <2>1, CoordinationBounds DEF Message
    <2>3. (IF m.age < RateTime THEN m.age + 1 ELSE m.age) \in 0..RateTime
      BY <2>2
    <2> QED
      BY <2>1, <2>3 DEF Message
  <1> HIDE DEF older
  <1>4. RunTypeOK'
    BY <1>1, <1>2, <1>3 DEF RunTypeOK, run
  <1>5. AskedOnce' /\ OneCause'
    <2>1. ASSUME NEW m \in messages', NEW o \in messages', m.id = o.id
          PROVE  m.id = Operator \/ m.plan = o.plan
      <3>1. PICK x \in messages, y \in messages : m = older(x) /\ o = older(y)
        BY <1>1
      <3>2. x.id = m.id /\ y.id = o.id /\ x.plan = m.plan /\ y.plan = o.plan
        BY <1>3, <3>1
      <3> QED
        BY <2>1, <3>2 DEF CoordInv, AskedOnce
    <2>2. OneCause'
      BY <1>1 DEF CoordInv, OneCause, run
    <2> QED
      BY <2>1, <2>2 DEF AskedOnce
  <1>6. HelpIsAtomic'
    <2>1. ASSUME NEW id \in Ids
          PROVE  Revisions(id)' = Revisions(id) /\ HelpedAt(id)' = HelpedAt(id)
      <3>1. Revisions(id)' = Revisions(id)
        BY <1>1 DEF Revisions, run
      <3>2. HelpedAt(id)' = HelpedAt(id)
        <4> DEFINE asked == {o \in messages : o.id = id /\ o.content \in Helping}
        <4>1. {m \in messages' : m.id = id /\ m.content \in Helping} = {older(o) : o \in asked}
          BY <1>1, <1>3
        <4>2. {m.plan : m \in {older(o) : o \in asked}} = {o.plan : o \in asked}
          BY <1>3
        <4> QED
          BY <4>1, <4>2 DEF HelpedAt
      <3> QED
        BY <3>1, <3>2
    <2> QED
      BY <2>1, HelpKept DEF CoordInv
  <1>7. ASSUME NEW n \in DOMAIN notes
        PROVE  /\ notes'[n] \in Note /\ notes'[n].status = notes[n].status
               /\ notes'[n].attempts = notes[n].attempts
               /\ EffectOf(n)'
    <2>1. /\ notes[n] \in Note /\ notes[n].until \in -BusyTime..LeaseTime
          /\ notes[n].available \in Int /\ EffectOf(n)
          /\ (notes[n].status = "dead" => notes[n].attempts \in {0, MaxAttempts})
      BY NoteFields DEF EffectOf
    <2>2. notes'[n] = [notes[n] EXCEPT !.until = Down(notes[n].until),
                                       !.available = Down(notes[n].available)]
      BY <1>1
    <2>3. Down(notes[n].until) \in -BusyTime..LeaseTime /\ Down(notes[n].available) \in Int
      BY <2>1, CoordinationBounds DEF Down
    <2>4. /\ notes'[n] \in Note /\ notes'[n].status = notes[n].status
          /\ notes'[n].attempts = notes[n].attempts
      BY <2>1, <2>2, <2>3 DEF Note
    <2> QED
      BY <1>1, <2>1, <2>4, EffectKept
  <1>8. DOMAIN notes' = DOMAIN notes
    BY <1>1
  <1>9. QueueTypeOK'
    <2>1. inbox' \subseteq DOMAIN notes /\ handed' \subseteq Delivery /\ applied' \subseteq handed'
      BY <1>1 DEF CoordInv, CoordTypeOK
    <2> QED
      BY <1>1, <1>7, <1>8, <2>1, NotesKept
  <1>10. EffectOnce'
    BY <1>7, <1>8, EffectPrime
  <1>11. HandedOut'
    BY <1>1, <1>8 DEF CoordInv, HandedOut, NoteOf, run
  <1> QED
    BY <1>4, <1>5, <1>6, <1>9, <1>10, <1>11, PartsPrime

-----------------------------------------------------------------------------
(* The theorems.                                                           *)

LEMMA CoordInit_Inv == CoordInit => CoordInv
  <1> SUFFICES ASSUME CoordInit PROVE CoordInv
    OBVIOUS
  <1> USE DEF CoordInit
  <1>1. DOMAIN notes = {} /\ DOMAIN cause = {} /\ 1..0 = {}
    OBVIOUS
  <1>2. RunTypeOK
    <2>1. 0 \in 0..MaxPlan
      BY CoordinationBounds
    <2>2. [c \in Consumers |-> NoSubscription] \in [Consumers -> Payloads \cup {NoSubscription}]
      OBVIOUS
    <2> QED
      BY <2>1, <2>2 DEF RunTypeOK
  <1>3. QueueTypeOK
    <2>1. ASSUME NEW c \in Consumers PROVE Cardinality(Waiting(c)) <= MaxPending
      <3>1. Waiting(c) = {}
        BY <1>1 DEF Waiting
      <3> QED
        BY <3>1, FS_EmptySet, CoordinationBounds
    <2>2. QueuesBounded
      BY <2>1 DEF QueuesBounded
    <2> QED
      BY <1>1, <2>2, CoordinationBounds DEF QueueTypeOK
  <1>4. HandedOut /\ AskedOnce /\ OneCause /\ EffectOnce
    BY <1>1 DEF HandedOut, AskedOnce, OneCause, EffectOnce
  <1>5. HelpIsAtomic
    <2>1. ASSUME NEW id \in Ids PROVE Revisions(id) = {} /\ HelpedAt(id) = {}
      BY <1>1 DEF Revisions, HelpedAt
    <2>2. Cardinality({}) = 0
      BY FS_EmptySet, Zenon
    <2>3. 0 <= 1
      OBVIOUS
    <2>4. \A id \in Ids : Cardinality(Revisions(id)) <= 1 /\ Revisions(id) = HelpedAt(id)
      BY <2>1, <2>2, <2>3, Zenon
    <2> HIDE DEF CoordInit
    <2> QED
      BY <2>4, HelpById, Zenon
  <1> QED
    BY <1>1, <1>2, <1>3, <1>4, <1>5, TypeInParts DEF CoordInv

LEMMA CoordNext_Inv == CoordInv /\ [CoordNext]_coordVars => CoordInv'
  <1> SUFFICES ASSUME CoordInv, [CoordNext]_coordVars PROVE CoordInv'
    OBVIOUS
  <1>1. CASE UNCHANGED coordVars
    BY <1>1 DEF CoordInv, coordVars, run, queue, CoordTypeOK, HandedOut, AskedOnce, OneCause,
                EffectOnce, HelpIsAtomic, NoteOf
  <1>2. CASE CoordNext
    BY <1>2, ConfigureStep, SubscribeStep, AppendEventStep, PatchStep, CancelRunStep,
       PublishStep, GrantHelpStep, RejectHelpStep, PublishCommittedStep, ClaimStep,
       ConsumeStep, FailStep, TickStep DEF CoordNext
  <1> QED
    BY <1>1, <1>2

(* What a consumer may apply an effect on is a current delivery.           *)
LEMMA EffectInPlanStep ==
    ASSUME CoordInv, [CoordNext]_coordVars, NEW n \in inbox' \ inbox
    PROVE  subscription[n[1]].task \in planTasks
  <1>1. PICK d \in handed : Consume(d)
    BY DEF CoordNext, Configure, Subscribe, AppendEvent, Patch, CancelRun, Publish, GrantHelp,
           RejectHelp, PublishCommitted, Claim, Fail, CoordTick, coordVars
  <1>2. n = NoteOf(d)
    BY <1>1 DEF Consume
  <1>3. subscription[d.consumer].task \in planTasks
    BY <1>1, CurrentFacts DEF Consume
  <1> QED
    BY <1>2, <1>3 DEF NoteOf

(* The inductive invariant holds in every state of every run: whatever is  *)
(* published, revised, handed out, lost, repeated or late.                 *)
THEOREM CoordInductive == CoordSpec => []CoordInv
  BY CoordInit_Inv, CoordNext_Inv, PTL DEF CoordSpec

(* Notifications are for subscribed consumers and recorded events, and no  *)
(* queue outgrows the policy.                                              *)
THEOREM CoordTypeCorrect == CoordSpec => []CoordTypeOK
  <1>1. CoordInv => CoordTypeOK
    BY DEF CoordInv
  <1> QED
    BY <1>1, CoordInductive, PTL

(* An effect is committed at most once, by the consumer that holds the     *)
(* last delivery, exactly when the notification is acknowledged.           *)
THEOREM EffectsAreOnce == CoordSpec => []EffectOnce
  <1>1. CoordInv => EffectOnce
    BY DEF CoordInv
  <1> QED
    BY <1>1, CoordInductive, PTL

(* A request for help is one revision with its message, or neither.        *)
THEOREM HelpIsGrantedOnce == CoordSpec => []HelpIsAtomic
  <1>1. CoordInv => HelpIsAtomic
    BY DEF CoordInv
  <1> QED
    BY <1>1, CoordInductive, PTL

(* No effect is committed for a task that a revision removed.              *)
THEOREM EffectsStayInPlan == CoordSpec => EffectsInPlan
  <1>1. CoordInv /\ [CoordNext]_coordVars
            => [\A n \in inbox' \ inbox : subscription[n[1]].task \in planTasks]_coordVars
    BY EffectInPlanStep
  <1> QED
    BY <1>1, CoordInductive, PTL DEF CoordSpec, EffectsInPlan
=============================================================================
