---------------------------- MODULE Coordination ----------------------------
(***************************************************************************)
(* Messages between the tasks of a run and the notifications they cause:   *)
(* runtime/blackboard.py and runtime/notifications.py.                     *)
(*                                                                         *)
(* A message is budgeted, recorded as an event, and queued for every       *)
(* subscription it concerns in the same transaction.  A consumer leases a  *)
(* notification, applies an effect and acknowledges in one transaction, or *)
(* dies, or fails; what it was handed it may use at any later time and     *)
(* more than once.  A request for help patches the plan and publishes in   *)
(* one transaction.                                                        *)
(*                                                                         *)
(* An instant is kept as the time left until it, which Tick takes down;    *)
(* -BusyTime stands for everything as old or older.  Every claim of a      *)
(* notification raises its attempts and draws a token, so that the number  *)
(* of the attempt stands for the token and for the worker it was drawn by. *)
(***************************************************************************)
EXTENDS Integers, FiniteSets, Sequences

CONSTANTS
    Tasks,             \* tasks that a plan of the run may have
    Consumers,         \* consumer ids
    Ids,               \* message ids that a client may send, again and again
    Contents,          \* what messages may say, their author included
    Helping,           \* the contents that ask for help
    Committing,        \* the contents that finish publishes by itself
    Author,            \* the task that says each content
    Diagnostic,        \* an event that is not a message
    Payloads,          \* what a consumer may subscribe to
    NoSubscription,
    Operator,          \* who patches the plan without asking for help
    MaxMessages, MaxRecent, MaxPending, MaxSubscriptions, MaxAttempts,
    LeaseTime,         \* how long a delivery may take
    RetryTime,         \* policy.retry_seconds
    RateTime,          \* the minute of policy.max_per_minute
    BusyTime,          \* bound: how long a transaction waits for the lock
    MaxPlan,           \* bound: plan revisions
    MaxEvents          \* bound: events that somebody subscribed to

ASSUME CoordinationContents ==
    /\ Helping \subseteq Contents /\ Committing \subseteq Contents \ Helping
    /\ Author \in [Contents -> Tasks]
    /\ Diagnostic \notin Contents
    /\ Payloads \subseteq [task : Tasks, wants : SUBSET (Contents \cup {Diagnostic})]
    /\ NoSubscription \notin Payloads
    /\ Operator \notin Ids
ASSUME CoordinationBounds ==
    /\ {MaxMessages, MaxRecent, BusyTime, RetryTime, RateTime, MaxPlan, MaxEvents} \subseteq Nat
    /\ {MaxPending, MaxSubscriptions, MaxAttempts, LeaseTime} \subseteq Nat \ {0}

VARIABLES
    policy,        \* coordination_policies
    plan,          \* the plan revision the manifest binds
    planTasks,     \* the tasks of that plan
    cancelled,     \* the manifest's status
    subscription,  \* subscriptions
    messages,      \* coordination_messages
    log,           \* events that somebody subscribed to, in order
    notes,         \* notifications
    inbox,         \* notification_inbox
    handed,        \* deliveries that claim returned
    applied,       \* history: the deliveries whose effect was committed
    cause          \* history: who asked for each plan revision

run == <<plan, planTasks, cancelled, cause>>
queue == <<log, notes>>
coordVars == <<policy, run, subscription, messages, queue, inbox, handed, applied>>

Events == 1..MaxEvents
Open == {"pending", "leased"}
Note == [status : Open \cup {"acked", "dead"}, attempts : 0..MaxAttempts,
         until : -BusyTime..LeaseTime, available : Int]
Message == [id : Ids \cup {Operator}, base : 0..MaxPlan, plan : 0..MaxPlan,
            content : Contents, age : 0..RateTime]
Delivery == [consumer : Consumers, event : Events, token : 1..MaxAttempts,
             plan : 0..MaxPlan]

(* Types; a notification is for an event and a subscribed consumer, and    *)
(* the queue of a consumer never holds more open ones than the policy says.*)
CoordTypeOK ==
    /\ policy \in {"none", "disabled", "enabled"}
    /\ plan \in 0..MaxPlan /\ planTasks \subseteq Tasks /\ cancelled \in BOOLEAN
    /\ subscription \in [Consumers -> Payloads \cup {NoSubscription}]
    /\ messages \subseteq Message
    /\ log \in Seq(Contents \cup {Diagnostic}) /\ Len(log) <= MaxEvents
    /\ DOMAIN notes \subseteq Consumers \X (1..Len(log))
    /\ \A n \in DOMAIN notes :
        notes[n] \in Note /\ subscription[n[1]] # NoSubscription
    /\ inbox \subseteq DOMAIN notes
    /\ handed \subseteq Delivery
    /\ applied \subseteq handed
    /\ DOMAIN cause = 1..plan
    /\ \A c \in Consumers :
        Cardinality({n \in DOMAIN notes : n[1] = c /\ notes[n].status \in Open}) <= MaxPending

(* A run whose plan has every task and whose coordination nobody set up.   *)
CoordInit ==
    /\ policy = "none"
    /\ plan = 0 /\ planTasks = Tasks /\ cancelled = FALSE /\ cause = <<>>
    /\ subscription = [c \in Consumers |-> NoSubscription]
    /\ messages = {} /\ log = <<>> /\ notes = <<>>
    /\ inbox = {} /\ handed = {} /\ applied = {}

-----------------------------------------------------------------------------
(* The outbox: an event is queued for the subscriptions s that want it.    *)

Interested(s, e) == {c \in Consumers : s[c] # NoSubscription /\ e \in s[c].wants}

Waiting(c) == {n \in DOMAIN notes : n[1] = c /\ notes[n].status \in Open}

QueuedAlways(c) ==
    [status |-> "pending", attempts |-> 0, until |-> -BusyTime, available |-> -BusyTime]

Queued(c) ==
    [status |-> IF Cardinality(Waiting(c)) < MaxPending THEN "pending" ELSE "dead",
     attempts |-> 0, until |-> -BusyTime, available |-> -BusyTime]

Record(s, e) ==
    LET new == IF policy = "enabled" THEN Interested(s, e) ELSE {} IN
    /\ new # {} => Len(log) < MaxEvents
    /\ log' = IF new = {} THEN log ELSE Append(log, e)
    /\ notes' = [n \in DOMAIN notes \cup {<<c, Len(log) + 1>> : c \in new} |->
                    IF n \in DOMAIN notes THEN notes[n] ELSE Queued(n[1])]

(* An event of the run that is not a message.                              *)
AppendEvent ==
    /\ Record(subscription, Diagnostic)
    /\ UNCHANGED <<policy, run, subscription, messages, inbox, handed, applied>>

-----------------------------------------------------------------------------
(* Policy, subscriptions, the plan.                                        *)

(* Immutable once it is stored; a run has none and is silent until then.   *)
Configure(p) ==
    /\ ~cancelled /\ policy = "none"
    /\ policy' = p
    /\ UNCHANGED <<run, subscription, messages, queue, inbox, handed, applied>>

Subscribe(c, payload) ==
    /\ ~cancelled /\ policy = "enabled"
    /\ payload.task \in planTasks
    /\ subscription[c] = NoSubscription
    /\ Cardinality({d \in Consumers : subscription[d] # NoSubscription}) < MaxSubscriptions
    /\ subscription' = [subscription EXCEPT ![c] = payload]
    /\ Record(subscription', Diagnostic)
    /\ UNCHANGED <<policy, run, messages, inbox, handed, applied>>

(* A revision with the tasks that the patch leaves, asked for by who.      *)
Revise(who, left) ==
    /\ plan < MaxPlan
    /\ plan' = plan + 1
    /\ planTasks' = left
    /\ cause' = Append(cause, who)

Patch ==
    /\ ~cancelled
    /\ \E left \in SUBSET planTasks : left # {} /\ Revise(Operator, left)
    /\ Record(subscription, Diagnostic)
    /\ UNCHANGED <<policy, cancelled, subscription, messages, inbox, handed, applied>>

CancelRun ==
    /\ ~cancelled
    /\ cancelled' = TRUE
    /\ Record(subscription, Diagnostic)
    /\ UNCHANGED <<policy, plan, planTasks, cause, subscription, messages,
                   inbox, handed, applied>>

-----------------------------------------------------------------------------
(* Messages.                                                               *)

NeverAsked(id) == FALSE

(* Already stored under this id: the stored event is returned, or the      *)
(* request differs and is refused; nothing changes either way.             *)
Previous(id) == \E m \in messages : m.id = id

Valid(content, base) ==
    /\ ~cancelled
    /\ base = plan
    /\ Author[content] \in planTasks
    /\ policy = "enabled"

(* The same content was published under this revision by another id.       *)
Known(content, revision) ==
    \E m \in messages : m.plan = revision /\ m.content = content

WithinBudget ==
    /\ Cardinality(messages) < MaxMessages
    /\ Cardinality({m \in messages : m.age < RateTime}) < MaxRecent

Store(id, content, base, revision) ==
    messages' = messages \cup
        {[id |-> id, base |-> base, plan |-> revision, content |-> content, age |-> 0]}

Publish(id, content) ==
    /\ content \notin Helping /\ ~Previous(id)
    /\ Valid(content, plan) /\ ~Known(content, plan) /\ WithinBudget
    /\ Store(id, content, plan, plan)
    /\ Record(subscription, content)
    /\ UNCHANGED <<policy, run, subscription, inbox, handed, applied>>

(* apply_patch and _publish inside one savepoint.                          *)
GrantHelp(id, content) ==
    /\ content \in Helping /\ ~Previous(id)
    /\ Valid(content, plan) /\ WithinBudget
    /\ Revise(id, planTasks)
    /\ Store(id, content, plan, plan + 1)
    /\ Record(subscription, content)
    /\ UNCHANGED <<policy, cancelled, subscription, inbox, handed, applied>>

(* The budget, the plan (a cycle, a worker in flight, a completed task) or *)
(* the disk refuse: back to the savepoint, and a diagnostic remains.       *)
RejectHelp(id, content) ==
    /\ content \in Helping /\ ~Previous(id)
    /\ Valid(content, plan)
    /\ Record(subscription, Diagnostic)
    /\ UNCHANGED <<policy, run, subscription, messages, inbox, handed, applied>>

(* finish publishes what it commits, and does not fail if that is refused; *)
(* a task commits once under a revision.                                   *)
PublishCommitted(content) ==
    /\ content \in Committing
    /\ Valid(content, plan) /\ ~Known(content, plan)
    /\ IF WithinBudget
       THEN Store(Operator, content, plan, plan) /\ Record(subscription, content)
       ELSE UNCHANGED messages /\ Record(subscription, Diagnostic)
    /\ UNCHANGED <<policy, run, subscription, inbox, handed, applied>>

-----------------------------------------------------------------------------
(* Consumers.                                                              *)

NeverExpired(n, late) == FALSE

(* claim looks at the clock before it waits for the lock.                  *)
Expired(n, late) == notes[n].status = "leased" /\ notes[n].until + late <= 0

(* What claim gives up.                                                    *)
Exhausted(n, late) ==
    /\ notes[n].attempts >= MaxAttempts
    /\ notes[n].status = "pending" \/ Expired(n, late)

Deliverable(n, late) ==
    /\ notes[n].available + late <= 0
    /\ notes[n].status = "pending" \/ Expired(n, late)
    /\ ~Exhausted(n, late)

Claim(c) ==
    /\ ~cancelled /\ policy = "enabled"
    /\ subscription[c] # NoSubscription /\ subscription[c].task \in planTasks
    /\ \E late \in 0..BusyTime :
        LET mine == {n \in DOMAIN notes : n[1] = c}
            given == {n \in mine : Exhausted(n, late)}
            ready == {n \in mine : Deliverable(n, late)}
            next == {n \in ready : \A r \in ready : n[2] <= r[2]}
        IN
        /\ given \cup ready # {}
        /\ notes' = [n \in DOMAIN notes |->
               CASE n \in given -> [notes[n] EXCEPT !.status = "dead"]
                 [] n \in next -> [notes[n] EXCEPT !.status = "leased", !.attempts = @ + 1,
                                                   !.until = LeaseTime - late]
                 [] OTHER -> notes[n]]
        /\ handed' = handed \cup
               {[consumer |-> c, event |-> n[2], token |-> notes[n].attempts + 1,
                 plan |-> plan] : n \in next}
    /\ UNCHANGED <<policy, run, subscription, messages, log, inbox, applied>>

NoteOf(d) == <<d.consumer, d.event>>

CurrentOfAnyToken(d) ==
    ~cancelled /\ notes[NoteOf(d)].status = "leased" /\ notes[NoteOf(d)].until > 0
                /\ plan = d.plan

CurrentInAnyPlan(d) ==
    ~cancelled /\ notes[NoteOf(d)].status = "leased" /\ notes[NoteOf(d)].until > 0
                /\ notes[NoteOf(d)].attempts = d.token

(* _assert_delivery.                                                       *)
Current(d) ==
    /\ ~cancelled
    /\ notes[NoteOf(d)].status = "leased"
    /\ notes[NoteOf(d)].attempts = d.token
    /\ notes[NoteOf(d)].until > 0
    /\ plan = d.plan

(* The effect, the inbox and the acknowledgement are one transaction.      *)
Consume(d) ==
    /\ NoteOf(d) \notin inbox
    /\ Current(d)
    /\ inbox' = inbox \cup {NoteOf(d)}
    /\ notes' = [notes EXCEPT ![NoteOf(d)].status = "acked",
                              ![NoteOf(d)].until = -BusyTime]
    /\ applied' = applied \cup {d}
    /\ UNCHANGED <<policy, run, subscription, messages, log, handed>>

(* The effect raised and was rolled back; a transaction of its own.        *)
Fail(d) ==
    /\ Current(d)
    /\ notes' = [notes EXCEPT
           ![NoteOf(d)].status = IF d.token >= MaxAttempts THEN "dead" ELSE "pending",
           ![NoteOf(d)].until = -BusyTime,
           ![NoteOf(d)].available = RetryTime * 2 ^ (d.token - 1)]
    /\ UNCHANGED <<policy, run, subscription, messages, log, inbox, handed, applied>>

Down(t) == IF t > -BusyTime THEN t - 1 ELSE t

CoordTick ==
    /\ notes' = [n \in DOMAIN notes |->
           [notes[n] EXCEPT !.until = Down(@), !.available = Down(@)]]
    /\ messages' = {[m EXCEPT !.age = IF @ < RateTime THEN @ + 1 ELSE @] : m \in messages}
    /\ UNCHANGED <<policy, run, subscription, log, inbox, handed, applied>>

CoordNext ==
    \/ \E p \in {"disabled", "enabled"} : Configure(p)
    \/ \E c \in Consumers, payload \in Payloads : Subscribe(c, payload)
    \/ AppendEvent
    \/ Patch
    \/ CancelRun
    \/ \E id \in Ids, content \in Contents :
        \/ Publish(id, content)
        \/ GrantHelp(id, content)
        \/ RejectHelp(id, content)
    \/ \E content \in Contents : PublishCommitted(content)
    \/ \E c \in Consumers : Claim(c)
    \/ \E d \in handed : Consume(d) \/ Fail(d)
    \/ CoordTick

(* Time passes, and every consumer keeps asking.                           *)
CoordFairness ==
    /\ WF_coordVars(CoordTick)
    /\ \A c \in Consumers : WF_coordVars(Claim(c))

CoordSpec == CoordInit /\ [][CoordNext]_coordVars /\ CoordFairness

-----------------------------------------------------------------------------
(* Properties.                                                             *)

(* However often a delivery is used, late or twice, the effect of a        *)
(* notification is committed once, exactly when it is acknowledged, and by *)
(* whom it was handed out to last; a notification that was given up never  *)
(* had one, and was not given up before its last attempt, unless it was    *)
(* never queued.                                                           *)
EffectOnce ==
    \A n \in DOMAIN notes :
        LET by == {d \in applied : NoteOf(d) = n}
        IN
        /\ notes[n].status = "acked" <=> n \in inbox
        /\ IF n \in inbox
           THEN {d.token : d \in by} = {notes[n].attempts} /\ Cardinality(by) = 1
           ELSE by = {}
        /\ notes[n].status = "dead" => notes[n].attempts \in {0, MaxAttempts}

(* A request for help is one plan revision and one message of that         *)
(* revision, or neither; sent again, it is not granted again.              *)
HelpIsAtomic ==
    \A id \in Ids :
        LET revisions == {r \in 1..plan : cause[r] = id}
        IN
        /\ Cardinality(revisions) <= 1
        /\ revisions = {m.plan : m \in {o \in messages : o.id = id /\ o.content \in Helping}}

(* Why they hold: a delivery that was handed out names a notification, and *)
(* while its plan is the run's its consumer's task is in the plan; an id   *)
(* is asked for once; a revision has one cause.                            *)
HandedOut ==
    \A d \in handed :
        /\ NoteOf(d) \in DOMAIN notes
        /\ d.plan <= plan
        /\ d.plan = plan => subscription[d.consumer].task \in planTasks

AskedOnce ==
    \A m, o \in messages : m.id = o.id => m.id = Operator \/ m.plan = o.plan

OneCause == cause \in Seq(Ids \cup {Operator}) /\ Len(cause) = plan

(* The inductive invariant.                                                *)
CoordInv ==
    /\ CoordTypeOK
    /\ HandedOut
    /\ AskedOnce
    /\ OneCause
    /\ EffectOnce
    /\ HelpIsAtomic

(* An effect is committed under the plan the delivery was handed out for:  *)
(* the consumer's task is part of it.                                      *)
EffectsInPlan ==
    [][\A n \in inbox' \ inbox : subscription[n[1]].task \in planTasks]_coordVars

IsOpen(n) == n \in DOMAIN notes /\ notes[n].status \in Open

(* With consumers that keep asking, every notification is settled, unless  *)
(* the run is cancelled or the subscriber's task leaves the plan: lost     *)
(* deliveries, failures and patches use up its attempts.                   *)
NotificationsEnd ==
    \A c \in Consumers, e \in Events :
        IsOpen(<<c, e>>) ~>
            (~IsOpen(<<c, e>>) \/ cancelled \/ subscription[c].task \notin planTasks)
=============================================================================
