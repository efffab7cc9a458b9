--------------------------- MODULE ResourceLocks ----------------------------
(***************************************************************************)
(* Exclusive resources of task attempts: runtime/resources.py.             *)
(*                                                                         *)
(* An attempt takes a set of resources in one transaction or none of them; *)
(* what it gets expires, at the latest with the lease of its task as that  *)
(* is at the time, and is checked and released under that lease.  The      *)
(* leases themselves are TaskLeases: here an attempt is live until it ends *)
(* for whatever reason, and may renew while it is not expired.             *)
(*                                                                         *)
(* Resources are numbered in the order of their names.  Instants are the   *)
(* time left until them, as in Coordination.  A token is drawn exactly     *)
(* when the fence grows, so that the fence stands for both.                *)
(***************************************************************************)
EXTENDS Integers, FiniteSets

CONSTANTS
    LockAttempts,  \* attempts of tasks, each of which lives once
    Unowned,       \* a resource nobody ever took
    Resources,     \* the last of the resources 1, 2, ...
    TaskTime,      \* the lease of an attempt
    LockTime,      \* the seconds that acquire is called with
    WaitTime,      \* bound: how long a transaction waits for the lock
    MaxFence       \* bound: how often a resource changes hands

ASSUME LockConstants ==
    /\ Unowned \notin LockAttempts
    /\ {Resources, WaitTime, MaxFence} \subseteq Nat
    /\ {TaskTime, LockTime} \subseteq Nat \ {0}

VARIABLES
    holder,    \* the attempts: whether each lives, and its lease
    lock,      \* resource_locks
    bindings   \* what acquire returned

lockVars == <<holder, lock, bindings>>

Names == 1..Resources
Least == -WaitTime
Earlier(s, t) == IF s < t THEN s ELSE t

LockTypeOK ==
    /\ holder \in [LockAttempts -> [status : {"new", "live", "over"}, until : Least..TaskTime]]
    /\ lock \in [Names -> [owner : LockAttempts \cup {Unowned}, fence : 0..MaxFence, until : Int]]
    /\ bindings \subseteq [attempt : LockAttempts, resource : Names, fence : 1..MaxFence]

LockInit ==
    /\ holder = [a \in LockAttempts |-> [status |-> "new", until |-> Least]]
    /\ lock = [r \in Names |-> [owner |-> Unowned, fence |-> 0, until |-> Least]]
    /\ bindings = {}

-----------------------------------------------------------------------------
(* The leases.                                                             *)

Live(a) == holder[a].status = "live" /\ holder[a].until > 0

BeginAttempt(a) ==
    /\ holder[a].status = "new"
    /\ holder' = [holder EXCEPT ![a] = [status |-> "live", until |-> TaskTime]]
    /\ UNCHANGED <<lock, bindings>>

Renew(a) ==
    /\ Live(a)
    /\ holder' = [holder EXCEPT ![a].until = TaskTime]
    /\ UNCHANGED <<lock, bindings>>

Ended(a) == holder' = [holder EXCEPT ![a].status = "over"]

(* finish, of a success or a failure, gives the locks back.                *)
FinishAttempt(a) ==
    /\ Live(a)
    /\ Ended(a)
    /\ lock' = [r \in Names |->
           IF lock[r].owner = a THEN [lock[r] EXCEPT !.until = Least] ELSE lock[r]]
    /\ UNCHANGED bindings

(* A takeover, a cancellation or an expiry leaves them.                    *)
LoseAttempt(a) ==
    /\ holder[a].status = "live"
    /\ Ended(a)
    /\ UNCHANGED <<lock, bindings>>

-----------------------------------------------------------------------------
(* The locks.                                                              *)

(* Unexpired by a clock read late units ago.                               *)
Held(a, late) == {r \in Names : lock[r].owner = a /\ lock[r].until + late > 0}

Busy(a, r, late) == lock[r].owner \notin {a, Unowned} /\ lock[r].until + late > 0

InOrder(held, fresh) ==
    held # {} /\ fresh # {} => \A f \in fresh : \A h \in held : f > h

KeptFence(r, held) == IF lock[r].owner # Unowned THEN lock[r].fence ELSE 1

NextFence(r, held) == IF r \in held THEN lock[r].fence ELSE lock[r].fence + 1

Expiry(a, late) == Earlier(LockTime - late, holder[a].until)

(* One transaction: a busy resource refuses the whole set.                 *)
AcquireLocks(a, wanted, late) ==
    LET held == Held(a, late) IN
    /\ Live(a)
    /\ InOrder(held, wanted \ held)
    /\ \A r \in wanted : ~Busy(a, r, late) /\ NextFence(r, held) <= MaxFence
    /\ lock' = [r \in Names |->
           IF r \in wanted
           THEN [owner |-> a, fence |-> NextFence(r, held), until |-> Expiry(a, late)]
           ELSE lock[r]]
    /\ bindings' = bindings \cup
           {[attempt |-> a, resource |-> r, fence |-> NextFence(r, held)] : r \in wanted}
    /\ UNCHANGED holder

(* _check: what a may still do with what it was given.                     *)
Passes(b) ==
    /\ Live(b.attempt)
    /\ lock[b.resource].owner = b.attempt
    /\ lock[b.resource].fence = b.fence
    /\ lock[b.resource].until > 0

ReleaseLocks(a, B) ==
    /\ \A b \in B : b.attempt = a /\ Passes(b)
    /\ lock' = [r \in Names |->
           IF \E b \in B : b.resource = r THEN [lock[r] EXCEPT !.until = Least] ELSE lock[r]]
    /\ UNCHANGED <<holder, bindings>>

LockTick ==
    LET Sooner(t) == IF t > Least THEN t - 1 ELSE t IN
    /\ holder' = [a \in LockAttempts |-> [holder[a] EXCEPT !.until = Sooner(@)]]
    /\ lock' = [r \in Names |-> [lock[r] EXCEPT !.until = Sooner(@)]]
    /\ UNCHANGED bindings

LockNext ==
    \/ \E a \in LockAttempts :
        \/ BeginAttempt(a)
        \/ Renew(a)
        \/ FinishAttempt(a)
        \/ LoseAttempt(a)
        \/ \E wanted \in (SUBSET Names) \ {{}}, late \in 0..WaitTime : AcquireLocks(a, wanted, late)
        \/ \E B \in (SUBSET bindings) \ {{}} : ReleaseLocks(a, B)
    \/ LockTick

LockSpec == LockInit /\ [][LockNext]_lockVars

-----------------------------------------------------------------------------
(* A resource was given to at most one attempt under each fence, what was  *)
(* given to an attempt before another one is refused for ever, however     *)
(* late it is used, and a lock does not outlive the lease of an attempt    *)
(* that may still use it.                                                  *)
LocksFenced ==
    /\ LockTypeOK
    /\ \A b \in bindings : \A c \in bindings :
        b.resource = c.resource =>
            /\ b.fence = c.fence => b = c
            /\ b.fence < c.fence => ~Passes(b)
    /\ \A r \in Names :
        lock[r].owner # Unowned /\ Live(lock[r].owner)
            => lock[r].until <= holder[lock[r].owner].until

(* Why it holds: the fence of a resource is the last that was given, and   *)
(* it was given to the owner.                                              *)
FenceIsLast ==
    /\ \A r \in Names : lock[r].owner # Unowned =>
        lock[r].fence > 0 /\ holder[lock[r].owner].status # "new"
    /\ \A b \in bindings :
        /\ b.fence <= lock[b.resource].fence
        /\ b.fence = lock[b.resource].fence => b.attempt = lock[b.resource].owner

(* The inductive invariant.                                                *)
LockInv == LocksFenced /\ FenceIsLast
=============================================================================
