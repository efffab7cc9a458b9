---------------------------- MODULE SourceTrust ----------------------------
(***************************************************************************)
(* The trust in the sources of a run (verification.py and the handler      *)
(* _verify of runner.py): each record is checked by itself and, when a     *)
(* resolver is configured, against what the registry says of its DOI,      *)
(* through a cache whose entries expire.  The registry changes its mind    *)
(* and goes down, days pass, and a verification that blocks is retried or  *)
(* done again by another process, which has no cache yet.                  *)
(*                                                                         *)
(* Days are whole days that have passed, which is how the cache counts     *)
(* them.  Checks that only advise are left out: none changes what happens. *)
(***************************************************************************)
EXTENDS Integers

CONSTANTS
    Records,     \* the source records of the run
    Dois,        \* the DOIs that the registry knows
    NoDoi,       \* what record_doi returns for other sources
    DoiOf,       \* the DOI of each record
    WorkOf,      \* the work that the title of each record names
    Works,       \* the works that titles name
    Retraction,  \* what the registry says of a retracted work
    CacheDays,   \* ttl_days
    MaxDay       \* bound: days that pass

ASSUME TrustAssumption ==
    /\ NoDoi \notin Dois
    /\ DoiOf \in [Records -> Dois \cup {NoDoi}]
    /\ WorkOf \in [Records -> Works]
    /\ Retraction \notin Works
    /\ CacheDays \in Nat /\ MaxDay \in Nat

VARIABLES
    registry,    \* what doi.org answers for each DOI
    lastSaid,    \* the last day it answered each thing
    reachable,
    day,
    live,        \* a resolver is configured
    acceptable,  \* the records that their own fields do not exclude
    cache,       \* the entries of MetadataCache
    asking,      \* the request under way and the day resolve has read
    gates,       \* the verdict on each record so far
    trust        \* whether the handler verifies, or how it ended

worldVars == <<registry, lastSaid, reachable, day>>
recordVars == <<live, acceptable>>
trustVars == <<worldVars, recordVars, cache, asking, gates, trust>>

Answers == Works \cup {Retraction}

LongAgo == -CacheDays - 1

NoEntry == [says |-> NoDoi, at |-> LongAgo]
NoRequest == [record |-> NoDoi, at |-> LongAgo]
NotJudged == [passed |-> FALSE, stale |-> FALSE, judged |-> FALSE]

TrustInit ==
    /\ registry \in [Dois -> Answers]
    /\ lastSaid = [d \in Dois |-> [a \in Answers |-> IF a = registry[d] THEN 0 ELSE LongAgo]]
    /\ reachable = TRUE /\ day = 0
    /\ live \in BOOLEAN
    /\ acceptable \in SUBSET Records
    /\ cache = [d \in Dois |-> NoEntry]
    /\ asking = NoRequest
    /\ gates = [r \in Records |-> NotJudged]
    /\ trust = "verifying"

-----------------------------------------------------------------------------
(* The registry, the network and the clock.                                *)

ChangeRegistry(d, a) ==
    /\ registry' = [registry EXCEPT ![d] = a]
    /\ lastSaid' = [lastSaid EXCEPT ![d][a] = day]
    /\ UNCHANGED <<reachable, day, recordVars, cache, asking, gates, trust>>

ChangeNetwork ==
    /\ reachable' = ~reachable
    /\ UNCHANGED <<registry, lastSaid, day, recordVars, cache, asking, gates, trust>>

NextDay ==
    /\ day < MaxDay
    /\ day' = day + 1
    /\ lastSaid' = [d \in Dois |-> [lastSaid[d] EXCEPT ![registry[d]] = day + 1]]
    /\ UNCHANGED <<registry, reachable, recordVars, cache, asking, gates, trust>>

-----------------------------------------------------------------------------
(* DOIResolver.resolve and the gate of one record after another.           *)

NeverExpires(entry) == FALSE

Expired(entry) == day - entry.at > CacheDays

Usable(entry) == entry # NoEntry /\ ~Expired(entry)

ToJudge(r) == trust = "verifying" /\ asking = NoRequest /\ ~gates[r].judged

Gated(r, passed, stale) ==
    gates' = [gates EXCEPT ![r] = [passed |-> passed, stale |-> stale, judged |-> TRUE]]

(* The registry must name the work that the record names, and no           *)
(* retraction.                                                             *)
Confirms(says, r) == says = WorkOf[r]

JudgeRecord(r) ==
    /\ ToJudge(r)
    /\ ~live \/ DoiOf[r] = NoDoi
    /\ Gated(r, r \in acceptable, FALSE)
    /\ UNCHANGED <<worldVars, recordVars, cache, asking, trust>>

JudgeFromCache(r) ==
    /\ ToJudge(r)
    /\ live /\ DoiOf[r] # NoDoi
    /\ Usable(cache[DoiOf[r]])
    /\ Gated(r, r \in acceptable /\ Confirms(cache[DoiOf[r]].says, r), FALSE)
    /\ UNCHANGED <<worldVars, recordVars, cache, asking, trust>>

Request(r) ==
    /\ ToJudge(r)
    /\ live /\ DoiOf[r] # NoDoi
    /\ ~Usable(cache[DoiOf[r]])
    /\ asking' = [record |-> r, at |-> day]
    /\ UNCHANGED <<worldVars, recordVars, cache, gates, trust>>

Respond ==
    /\ asking # NoRequest
    /\ reachable
    /\ LET r == asking.record
           says == registry[DoiOf[r]]
       IN  /\ cache' = [cache EXCEPT ![DoiOf[r]] = [says |-> says, at |-> asking.at]]
           /\ Gated(r, r \in acceptable /\ Confirms(says, r), FALSE)
    /\ asking' = NoRequest
    /\ UNCHANGED <<worldVars, recordVars, trust>>

(* An expired entry answers for a registry that does not, and the verdict  *)
(* says so: it has the error and from_cache, not cache_stale.              *)
FailRequest ==
    /\ asking # NoRequest
    /\ ~reachable
    /\ LET r == asking.record
           entry == cache[DoiOf[r]]
       IN  Gated(r, r \in acceptable /\ entry # NoEntry /\ Confirms(entry.says, r), entry # NoEntry)
    /\ asking' = NoRequest
    /\ UNCHANGED <<worldVars, recordVars, cache, trust>>

EndVerification ==
    /\ trust = "verifying"
    /\ \A r \in Records : gates[r].judged
    /\ trust' = IF \A r \in Records : gates[r].passed THEN "trusted" ELSE "blocked"
    /\ UNCHANGED <<worldVars, recordVars, cache, asking, gates>>

Again ==
    /\ asking' = NoRequest
    /\ gates' = [r \in Records |-> NotJudged]
    /\ trust' = "verifying"
    /\ UNCHANGED <<worldVars, recordVars>>

RetryVerification == trust = "blocked" /\ Again /\ UNCHANGED cache

RestartVerification == trust # "trusted" /\ Again /\ cache' = [d \in Dois |-> NoEntry]

TrustNext ==
    \/ \E d \in Dois, a \in Answers : ChangeRegistry(d, a)
    \/ ChangeNetwork
    \/ NextDay
    \/ \E r \in Records : JudgeRecord(r) \/ JudgeFromCache(r) \/ Request(r)
    \/ Respond
    \/ FailRequest
    \/ EndVerification
    \/ RetryVerification
    \/ RestartVerification

TrustSpec == TrustInit /\ [][TrustNext]_trustVars

-----------------------------------------------------------------------------
(* Properties.                                                             *)

(* A record that passes the gate with a resolver is one that the registry  *)
(* has confirmed in the life of a cache entry, or its verdict says that    *)
(* the answer is old: no retraction and no DOI of another work is covered  *)
(* up for longer, through outages and retries.                             *)
ConfirmedOrStale ==
    [][\A r \in Records :
          gates'[r].passed /\ ~gates[r].judged /\ live /\ DoiOf[r] # NoDoi =>
              \/ lastSaid[DoiOf[r]][WorkOf[r]] >= day - CacheDays
              \/ gates'[r].stale /\ lastSaid[DoiOf[r]][WorkOf[r]] > LongAgo]_trustVars

(* Why it holds: an entry says what the registry has said on its day or    *)
(* later, and what the registry says now it says today.                    *)
Entries == [says : Answers \cup {NoDoi}, at : Int]

TrustTypeOK ==
    /\ registry \in [Dois -> Answers] /\ lastSaid \in [Dois -> [Answers -> Int]]
    /\ day \in Nat
    /\ cache \in [Dois -> Entries]
    /\ asking \in [record : Records \cup {NoDoi}, at : Int]
    /\ gates \in [Records -> [passed : BOOLEAN, stale : BOOLEAN, judged : BOOLEAN]]

EntriesWereSaid ==
    /\ \A d \in Dois : lastSaid[d][registry[d]] = day
    /\ \A d \in Dois : cache[d] # NoEntry =>
          /\ cache[d].says \in Answers /\ cache[d].at \in 0..day
          /\ cache[d].at <= lastSaid[d][cache[d].says]
    /\ asking # NoRequest =>
          asking.record \in Records /\ DoiOf[asking.record] # NoDoi /\ asking.at \in 0..day
    /\ \A r \in Records : gates[r].passed => gates[r].judged

(* The inductive invariant.                                                *)
TrustInv == TrustTypeOK /\ EntriesWereSaid
=============================================================================
