---------------------------- MODULE ResearchProofs ----------------------------
(***************************************************************************)
(* Proofs about the components that a research run goes through and that   *)
(* share no state: the compilation and the patches of its plan, the trust  *)
(* in its sources, their families and their later retractions, and its     *)
(* findings.                                                               *)
(***************************************************************************)
EXTENDS PlanGraph, Families, Findings, SourceTrust, Retractions, FiniteSetTheorems,
        SequenceTheorems, WellFoundedInduction, TLAPS

-----------------------------------------------------------------------------
(* Retractions.                                                            *)

LEMMA RetractionsInitInv == RetractionsInit => RetractionsInv
  BY NoProblemAssumption DEF RetractionsInit, RetractionsInv, ToldSince

(* A claim that was told of goes on as told while its sources have         *)
(* problems, and one that was not had a source without: that one has an    *)
(* alert.                                                                  *)
LEMMA RoundStep == RetractionsInv /\ Round => RetractionsInv'
  <1> SUFFICES ASSUME RetractionsInv, Round PROVE RetractionsInv'
    OBVIOUS
  <1>1. /\ told' = (told \ Recovered) \cup Invalidated
        /\ snapshot' = status /\ support' = support /\ status' = status
    BY DEF Round
  <1>2. /\ support \in [Statements -> SUBSET Watched]
        /\ status \in [Watched -> Problems \cup {NoProblem}]
        /\ snapshot \in [Watched -> Problems \cup {NoProblem}]
        /\ told = {c \in Statements : ToldSince(c)}
    BY DEF RetractionsInv
  <1>3. ASSUME NEW c \in Statements
        PROVE  c \in (told \ Recovered) \cup Invalidated <=>
                  support[c] # {} /\ \A s \in support[c] : status[s] \in Problems
    <2>1. support[c] \subseteq Watched
      BY <1>2
    <2>2. c \in Recovered <=> \E s \in support[c] : status[s] \notin Problems
      BY <1>2, <2>1, NoProblemAssumption DEF Recovered
    <2>3. c \in Invalidated <=>
             /\ \E s \in support[c] : status[s] \in Problems /\ status[s] # snapshot[s]
             /\ \A s \in support[c] : status[s] \in Problems
      BY <2>1 DEF Invalidated, Alerts, AllProblems, StatusNow
    <2>4. c \in told <=> support[c] # {} /\ \A s \in support[c] : snapshot[s] \in Problems
      BY <1>2 DEF ToldSince
    <2> QED
      BY <2>2, <2>3, <2>4
  <1>4. (told \ Recovered) \cup Invalidated \subseteq Statements
    BY <1>2 DEF Invalidated
  <1> QED
    BY <1>1, <1>2, <1>3, <1>4 DEF RetractionsInv, ToldSince

(* The inductive invariant of the rounds, for any sources, claims and      *)
(* statuses.                                                               *)
THEOREM RetractionsInductive == RetractionsSpec => []RetractionsInv
  <1>1. RetractionsInv /\ [RetractionsNext]_retractionVars => RetractionsInv'
    <2> SUFFICES ASSUME RetractionsInv, [RetractionsNext]_retractionVars
                 PROVE  RetractionsInv'
      OBVIOUS
    <2>1. CASE UNCHANGED retractionVars
      BY <2>1 DEF retractionVars, RetractionsInv, ToldSince
    <2>2. ASSUME NEW s \in Watched, NEW new \in Problems \cup {NoProblem},
                 ChangeStatus(s, new)
          PROVE  RetractionsInv'
      BY <2>2 DEF ChangeStatus, RetractionsInv, ToldSince
    <2> QED
      BY <2>1, <2>2, RoundStep DEF RetractionsNext
  <1> QED
    BY <1>1, RetractionsInitInv, PTL DEF RetractionsSpec

(* After each round the claims that were told of and have not recovered    *)
(* are those whose sources all have problems, after any number of rounds   *)
(* and changes between them.                                               *)
THEOREM InvalidatedAreTold == RetractionsSpec => []InvalidatedIsTold
  <1>1. RetractionsInv => InvalidatedIsTold
    BY DEF RetractionsInv, ToldSince, InvalidatedIsTold
  <1> QED
    BY <1>1, RetractionsInductive, PTL

-----------------------------------------------------------------------------
(* The trust in sources.                                                   *)

LEMMA LongAgoIsPast == LongAgo \in Int /\ LongAgo < 0 /\ CacheDays \in Nat
  BY TrustAssumption DEF LongAgo

LEMMA TrustInitInv == TrustInit => TrustInv
  BY LongAgoIsPast DEF TrustInit, TrustInv, TrustTypeOK, EntriesWereSaid, Entries, NoEntry,
     NoRequest, NotJudged

(* What the world does: the registry is as it said, now.                   *)
LEMMA WorldSteps ==
    ASSUME TrustInv,
           \/ \E d \in Dois, a \in Answers : ChangeRegistry(d, a)
           \/ ChangeNetwork
           \/ NextDay
    PROVE  TrustInv'
  <1>1. ASSUME NEW d \in Dois, NEW a \in Answers, ChangeRegistry(d, a) PROVE TrustInv'
    <2>1. /\ registry' = [registry EXCEPT ![d] = a]
          /\ lastSaid' = [lastSaid EXCEPT ![d][a] = day]
          /\ UNCHANGED <<day, cache, asking, gates>>
      BY <1>1 DEF ChangeRegistry
    <2>2. TrustTypeOK'
      BY <2>1 DEF TrustInv, TrustTypeOK
    <2>3. \A e \in Dois : lastSaid'[e][registry'[e]] = day
      BY <2>1 DEF TrustInv, TrustTypeOK, EntriesWereSaid
    <2>4. \A e \in Dois, b \in Answers :
             lastSaid'[e][b] = IF e = d /\ b = a THEN day ELSE lastSaid[e][b]
      BY <2>1 DEF TrustInv, TrustTypeOK
    <2>5. EntriesWereSaid'
      BY <2>1, <2>3, <2>4 DEF TrustInv, EntriesWereSaid
    <2> QED
      BY <2>2, <2>5 DEF TrustInv
  <1>2. CASE ChangeNetwork
    BY <1>2 DEF ChangeNetwork, TrustInv, TrustTypeOK, EntriesWereSaid, recordVars
  <1>3. CASE NextDay
    <2>1. /\ day' = day + 1
          /\ lastSaid' = [d \in Dois |-> [lastSaid[d] EXCEPT ![registry[d]] = day + 1]]
          /\ UNCHANGED <<registry, cache, asking, gates>>
      BY <1>3 DEF NextDay
    <2>2. \A d \in Dois : /\ lastSaid'[d] \in [Answers -> Int]
                          /\ lastSaid'[d][registry[d]] = day + 1
                          /\ \A b \in Answers : lastSaid'[d][b] >= lastSaid[d][b]
      BY <2>1 DEF TrustInv, TrustTypeOK, EntriesWereSaid
    <2>3. TrustTypeOK'
      BY <2>1, <2>2 DEF TrustInv, TrustTypeOK
    <2>4. EntriesWereSaid'
      <3>1. \A d \in Dois : cache[d] # NoEntry =>
               /\ cache[d].says \in Answers /\ cache[d].at \in 0..day'
               /\ cache[d].at <= lastSaid'[d][cache[d].says]
        BY <2>1, <2>2 DEF TrustInv, TrustTypeOK, EntriesWereSaid
      <3> QED
        BY <2>1, <2>2, <3>1 DEF TrustInv, TrustTypeOK, EntriesWereSaid
    <2> QED
      BY <2>3, <2>4 DEF TrustInv
  <1> QED
    BY <1>1, <1>2, <1>3

(* What a verdict on a record with a resolver rests on.                    *)
Rests(r, stale) ==
    \/ lastSaid[DoiOf[r]][WorkOf[r]] >= day - CacheDays
    \/ stale /\ lastSaid[DoiOf[r]][WorkOf[r]] > LongAgo

Justified ==
    \A r \in Records :
        gates'[r].passed /\ ~gates[r].judged /\ live /\ DoiOf[r] # NoDoi =>
            Rests(r, gates'[r].stale)

(* A verdict is of one record, and the others are what they were.          *)
LEMMA GatedOne ==
    ASSUME TrustInv, NEW r \in Records, NEW passed \in BOOLEAN, NEW stale \in BOOLEAN,
           Gated(r, passed, stale),
           passed /\ live /\ DoiOf[r] # NoDoi => Rests(r, stale)
    PROVE  /\ gates' \in [Records -> [passed : BOOLEAN, stale : BOOLEAN, judged : BOOLEAN]]
           /\ \A q \in Records : gates'[q].passed => gates'[q].judged
           /\ Justified
  <1>1. /\ gates' \in [Records -> [passed : BOOLEAN, stale : BOOLEAN, judged : BOOLEAN]]
        /\ gates'[r] = [passed |-> passed, stale |-> stale, judged |-> TRUE]
        /\ \A q \in Records : q # r => gates'[q] = gates[q]
    BY DEF Gated, TrustInv, TrustTypeOK
  <1>2. \A q \in Records : gates[q].passed => gates[q].judged
    BY DEF TrustInv, EntriesWereSaid
  <1> QED
    BY <1>1, <1>2 DEF Justified

(* A verdict that leaves the world and the cache alone.                    *)
LEMMA OnlyGated ==
    ASSUME TrustInv, NEW r \in Records, NEW passed \in BOOLEAN, NEW stale \in BOOLEAN,
           Gated(r, passed, stale),
           passed /\ live /\ DoiOf[r] # NoDoi => Rests(r, stale),
           UNCHANGED <<registry, lastSaid, day, cache>>, asking' \in {asking, NoRequest}
    PROVE  TrustInv' /\ Justified
  <1>1. /\ gates' \in [Records -> [passed : BOOLEAN, stale : BOOLEAN, judged : BOOLEAN]]
        /\ \A q \in Records : gates'[q].passed => gates'[q].judged
        /\ Justified
    BY GatedOne
  <1>2. NoRequest \in [record : Records \cup {NoDoi}, at : Int]
    BY LongAgoIsPast DEF NoRequest
  <1>3. TrustTypeOK'
    BY <1>1, <1>2 DEF TrustInv, TrustTypeOK
  <1>4. EntriesWereSaid'
    BY <1>1 DEF TrustInv, EntriesWereSaid
  <1> QED
    BY <1>1, <1>3, <1>4 DEF TrustInv

(* An entry was said on its day or later: for the cache it is not too old, *)
(* and after a failure the verdict is stale.                               *)
LEMMA EntryConfirms ==
    ASSUME TrustInv, NEW r \in Records, DoiOf[r] # NoDoi,
           cache[DoiOf[r]] # NoEntry, Confirms(cache[DoiOf[r]].says, r)
    PROVE  /\ lastSaid[DoiOf[r]][WorkOf[r]] > LongAgo
           /\ Usable(cache[DoiOf[r]]) => Rests(r, FALSE)
  <1> DEFINE d == DoiOf[r]
             last == lastSaid[d][WorkOf[r]]
  <1>1. d \in Dois /\ WorkOf[r] \in Answers
    BY TrustAssumption DEF Answers
  <1>2. last \in Int /\ cache[d].at \in 0..day /\ cache[d].at <= last /\ day \in Nat
    BY <1>1 DEF TrustInv, TrustTypeOK, EntriesWereSaid, Confirms
  <1>3. last > LongAgo
    BY <1>2, LongAgoIsPast
  <1>4. ASSUME Usable(cache[d]) PROVE last >= day - CacheDays
    BY <1>2, <1>4, LongAgoIsPast DEF Usable, Expired
  <1> QED
    BY <1>3, <1>4 DEF Rests

LEMMA JudgeSteps ==
    ASSUME TrustInv, NEW r \in Records, JudgeRecord(r) \/ JudgeFromCache(r)
    PROVE  TrustInv' /\ Justified
  <1>1. CASE JudgeRecord(r)
    <2> DEFINE passed == r \in acceptable
    <2>1. /\ ~live \/ DoiOf[r] = NoDoi
          /\ UNCHANGED <<registry, lastSaid, day, cache, asking>>
      BY <1>1 DEF JudgeRecord, worldVars
    <2>2. passed \in BOOLEAN
      OBVIOUS
    <2>3. Gated(r, passed, FALSE)
      BY <1>1 DEF JudgeRecord
    <2> HIDE DEF passed
    <2> QED
      BY <2>1, <2>2, <2>3, OnlyGated
  <1>2. CASE JudgeFromCache(r)
    <2> DEFINE passed == r \in acceptable /\ Confirms(cache[DoiOf[r]].says, r)
    <2>1. /\ DoiOf[r] # NoDoi /\ Usable(cache[DoiOf[r]])
          /\ Gated(r, passed, FALSE) /\ passed \in BOOLEAN
          /\ UNCHANGED <<registry, lastSaid, day, cache, asking>>
      BY <1>2 DEF JudgeFromCache, worldVars
    <2>2. passed => Rests(r, FALSE)
      BY <2>1, EntryConfirms DEF Usable
    <2> HIDE DEF passed
    <2> QED
      BY <2>1, <2>2, OnlyGated
  <1> QED
    BY <1>1, <1>2

LEMMA RequestStep ==
    ASSUME TrustInv, NEW r \in Records, Request(r)
    PROVE  TrustInv' /\ gates' = gates
  <1>1. /\ DoiOf[r] # NoDoi /\ asking' = [record |-> r, at |-> day]
        /\ UNCHANGED <<registry, lastSaid, day, cache, gates>>
    BY DEF Request, worldVars
  <1>2. TrustTypeOK'
    BY <1>1 DEF TrustInv, TrustTypeOK
  <1>3. EntriesWereSaid'
    BY <1>1 DEF TrustInv, TrustTypeOK, EntriesWereSaid
  <1> QED
    BY <1>1, <1>2, <1>3 DEF TrustInv

(* The registry answers today, for an entry of the day of the request.     *)
LEMMA RespondStep ==
    ASSUME TrustInv, Respond
    PROVE  TrustInv' /\ Justified
  <1> DEFINE r == asking.record
             d == DoiOf[r]
             says == registry[d]
             passed == r \in acceptable /\ Confirms(says, r)
  <1>1. /\ asking # NoRequest /\ asking' = NoRequest
        /\ cache' = [cache EXCEPT ![d] = [says |-> says, at |-> asking.at]]
        /\ Gated(r, passed, FALSE) /\ passed \in BOOLEAN
        /\ UNCHANGED <<registry, lastSaid, day>>
    BY DEF Respond, worldVars
  <1>2. r \in Records /\ d # NoDoi /\ asking.at \in 0..day /\ asking.at \in Int
    BY <1>1 DEF TrustInv, TrustTypeOK, EntriesWereSaid
  <1>3. d \in Dois /\ says \in Answers /\ lastSaid[d][says] = day /\ day \in Nat
    BY <1>2, TrustAssumption DEF TrustInv, TrustTypeOK, EntriesWereSaid
  <1>4. passed => Rests(r, FALSE)
    BY <1>3, LongAgoIsPast DEF Rests, Confirms
  <1> HIDE DEF passed
  <1>5. /\ gates' \in [Records -> [passed : BOOLEAN, stale : BOOLEAN, judged : BOOLEAN]]
        /\ \A q \in Records : gates'[q].passed => gates'[q].judged
        /\ Justified
    BY <1>1, <1>2, <1>4, GatedOne
  <1> HIDE DEF r, says
  <1>6. NoRequest \in [record : Records \cup {NoDoi}, at : Int]
    BY LongAgoIsPast DEF NoRequest
  <1>7. TrustTypeOK'
    <2>1. cache' \in [Dois -> Entries]
      BY <1>1, <1>2, <1>3 DEF TrustInv, TrustTypeOK, Entries
    <2> QED
      BY <1>1, <1>5, <1>6, <2>1 DEF TrustInv, TrustTypeOK
  <1>8. EntriesWereSaid'
    <2>1. ASSUME NEW e \in Dois, cache'[e] # NoEntry
          PROVE  /\ cache'[e].says \in Answers /\ cache'[e].at \in 0..day
                 /\ cache'[e].at <= lastSaid[e][cache'[e].says]
      <3>1. CASE e = d
        <4>1. cache'[d] = [says |-> says, at |-> asking.at]
          BY <1>1, <1>3 DEF TrustInv, TrustTypeOK
        <4> QED
          BY <1>2, <1>3, <3>1, <4>1
      <3>2. CASE e # d
        BY <1>1, <2>1, <3>2 DEF TrustInv, TrustTypeOK, EntriesWereSaid
      <3> QED
        BY <3>1, <3>2
    <2> QED
      BY <1>1, <1>5, <2>1 DEF TrustInv, EntriesWereSaid
  <1> QED
    BY <1>5, <1>7, <1>8 DEF TrustInv

LEMMA FailRequestStep ==
    ASSUME TrustInv, FailRequest
    PROVE  TrustInv' /\ Justified
  <1> DEFINE r == asking.record
             entry == cache[DoiOf[r]]
             stale == entry # NoEntry
             passed == r \in acceptable /\ entry # NoEntry /\ Confirms(entry.says, r)
  <1>1. /\ asking # NoRequest /\ asking' = NoRequest
        /\ Gated(r, passed, stale) /\ passed \in BOOLEAN /\ stale \in BOOLEAN
        /\ UNCHANGED <<registry, lastSaid, day, cache>>
    BY DEF FailRequest, worldVars
  <1>2. r \in Records /\ DoiOf[r] # NoDoi
    BY <1>1 DEF TrustInv, EntriesWereSaid
  <1>3. passed => Rests(r, stale)
    BY <1>2, EntryConfirms DEF Rests
  <1> HIDE DEF passed, stale, r
  <1> QED
    BY <1>1, <1>2, <1>3, OnlyGated

LEMMA AgainSteps ==
    ASSUME TrustInv, RetryVerification \/ RestartVerification
    PROVE  TrustInv' /\ Justified
  <1>1. /\ asking' = NoRequest /\ gates' = [r \in Records |-> NotJudged]
        /\ UNCHANGED <<registry, lastSaid, day>>
        /\ cache' = cache \/ cache' = [d \in Dois |-> NoEntry]
    BY DEF RetryVerification, RestartVerification, Again, worldVars
  <1>2. TrustTypeOK'
    BY <1>1, LongAgoIsPast
       DEF TrustInv, TrustTypeOK, NoRequest, NotJudged, Entries, NoEntry
  <1>3. EntriesWereSaid'
    BY <1>1 DEF TrustInv, EntriesWereSaid, NotJudged
  <1>4. Justified
    BY <1>1 DEF Justified, NotJudged
  <1> QED
    BY <1>2, <1>3, <1>4 DEF TrustInv

(* A step that leaves the verdicts alone passes nobody.                    *)
LEMMA SameVerdicts == ASSUME TrustInv, gates' = gates PROVE Justified
  BY DEF TrustInv, EntriesWereSaid, Justified

LEMMA TrustStep == TrustInv /\ [TrustNext]_trustVars => TrustInv' /\ Justified
  <1> SUFFICES ASSUME TrustInv, [TrustNext]_trustVars PROVE TrustInv' /\ Justified
    OBVIOUS
  <1>1. CASE UNCHANGED trustVars
    BY <1>1, SameVerdicts DEF trustVars, worldVars, TrustInv, TrustTypeOK, EntriesWereSaid
  <1>2. CASE \/ \E d \in Dois, a \in Answers : ChangeRegistry(d, a)
             \/ ChangeNetwork
             \/ NextDay
    <2>1. gates' = gates
      BY <1>2 DEF ChangeRegistry, ChangeNetwork, NextDay
    <2> QED
      BY <1>2, <2>1, WorldSteps, SameVerdicts
  <1>3. ASSUME NEW r \in Records, JudgeRecord(r) \/ JudgeFromCache(r) \/ Request(r)
        PROVE  TrustInv' /\ Justified
    BY <1>3, JudgeSteps, RequestStep, SameVerdicts
  <1>4. CASE EndVerification
    BY <1>4, SameVerdicts
       DEF EndVerification, worldVars, TrustInv, TrustTypeOK, EntriesWereSaid
  <1> QED
    BY <1>1, <1>2, <1>3, <1>4, RespondStep, FailRequestStep, AgainSteps DEF TrustNext

(* The inductive invariant of the verification: a cache entry says what    *)
(* the registry has said since its day.                                    *)
THEOREM TrustInductive == TrustSpec => []TrustInv
  <1>1. TrustInv /\ [TrustNext]_trustVars => TrustInv'
    BY TrustStep
  <1> QED
    BY <1>1, TrustInitInv, PTL DEF TrustSpec

(* Nothing passes with a resolver that the registry has not confirmed in   *)
(* the life of an entry, unless its verdict says so, for any registry,     *)
(* outages, retries and restarts.                                          *)
THEOREM PassesAreConfirmed == TrustSpec => ConfirmedOrStale
  <1>1. TrustInv /\ [TrustNext]_trustVars =>
           [\A r \in Records :
               gates'[r].passed /\ ~gates[r].judged /\ live /\ DoiOf[r] # NoDoi =>
                   \/ lastSaid[DoiOf[r]][WorkOf[r]] >= day - CacheDays
                   \/ gates'[r].stale /\ lastSaid[DoiOf[r]][WorkOf[r]] > LongAgo]_trustVars
    BY TrustStep DEF Justified, Rests
  <1> QED
    BY <1>1, TrustInductive, PTL DEF TrustSpec, ConfirmedOrStale

-----------------------------------------------------------------------------
(* The compiler and its patches.                                           *)

LEMMA NamesAreFinite == ASSUME NEW S \in SUBSET Names PROVE IsFiniteSet(S)
  BY GraphAssumption, FS_Subset

LEMMA NoSequence == ASSUME NEW S PROVE <<>> \in Seq(S) /\ Len(<<>>) = 0
  OBVIOUS

LEMMA GraphInitInv == GraphInit => GraphInv
  <1> SUFFICES ASSUME GraphInit PROVE GraphInv
    OBVIOUS
  <1>1. /\ stage = "searching" /\ planned \in SUBSET Names /\ deps \in [planned -> SUBSET Names]
        /\ untried = [t \in planned |-> {}] /\ path = <<>> /\ cycle = <<>> /\ finished = {}
        /\ waveOf = [t \in planned |-> 0] /\ spread = {} /\ affected = {} /\ changes = {}
    BY DEF GraphInit, None
  <1>2. GraphTypeOK
    BY <1>1, NoSequence DEF GraphTypeOK
  <1>3. StackIsPath
    <2>1. Explored({})
      <3>1. (SUBSET {}) \ {{}} = {}
        OBVIOUS
      <3> QED
        BY <3>1 DEF Explored
    <2> QED
      BY <1>1, <2>1, NoSequence DEF StackIsPath
  <1>4. SearchIsExact /\ WavesAreEarliest /\ SpreadIsNeeded /\ CompilerIsExact
    BY <1>1 DEF SearchIsExact, WavesAreEarliest, SpreadIsNeeded, CompilerIsExact
  <1> QED
    BY <1>2, <1>3, <1>4 DEF GraphInv

(* What a set leads to in one step.                                        *)
LEMMA MoreIsLedTo == \A S, t : t \in More(S) <=> t \in planned /\ \E s \in S : LeadsTo(s, t)
  BY DEF More, Dependents, Consumers, LeadsTo

(* Outside of a call of descendants, what it has reached does not matter.  *)
LEMMA SpreadStep ==
    ASSUME GraphInv, Spread
    PROVE  GraphInv'
  <1>1. /\ stage \in {"spreading", "respreading"} /\ spread' = spread \cup More(spread)
        /\ UNCHANGED <<stage, planned, deps, path, finished, untried, cycle, waveOf, remaining,
                       ready, outputs, issues, reads, affected, changes>>
    BY DEF Spread, listVars, searchVars, layerVars, fileVars
  <1>2. More(spread) \subseteq planned
    BY MoreIsLedTo
  <1>3. GraphTypeOK'
    BY <1>1, <1>2 DEF GraphInv, GraphTypeOK, Patching
  <1>4. StackIsPath' /\ SearchIsExact' /\ WavesAreEarliest' /\ CompilerIsExact'
    BY <1>1 DEF GraphInv, StackIsPath, SearchIsExact, WavesAreEarliest, CompilerIsExact,
       Acyclic, RealCycle
  <1>5. ASSUME NEW seeds, Within(spread, seeds) PROVE Within(spread', seeds)
    BY <1>1, <1>5, MoreIsLedTo DEF Within, ClosedUnder
  <1>6. SpreadIsNeeded'
    <2>2. PlanReaders' = PlanReaders
      BY <1>1 DEF PlanReaders
    <2>3. stage = "spreading" => affected = {} /\ changes \subseteq spread /\ Within(spread, changes)
      BY DEF GraphInv, SpreadIsNeeded
    <2>4. stage = "respreading" => ClosedUnder(affected) /\ changes \subseteq affected
            /\ Within(affected, changes) /\ PlanReaders \subseteq spread
            /\ Within(spread, PlanReaders)
      BY DEF GraphInv, SpreadIsNeeded
    <2>5. CASE stage = "spreading"
      <3>1. Within(spread', changes)
        BY <1>5, <2>3, <2>5
      <3> QED
        BY <1>1, <2>3, <2>5, <3>1 DEF SpreadIsNeeded, Within, ClosedUnder, LeadsTo
    <2>6. CASE stage = "respreading"
      <3>1. Within(spread', PlanReaders)
        BY <1>5, <2>4, <2>6
      <3> QED
        BY <1>1, <2>2, <2>4, <2>6, <3>1 DEF SpreadIsNeeded, Within, ClosedUnder, LeadsTo
    <2> QED
      BY <1>1, <2>5, <2>6
  <1> QED
    BY <1>3, <1>4, <1>6 DEF GraphInv

LEMMA PatchCompiledStep ==
    ASSUME GraphInv, PatchCompiled
    PROVE  GraphInv'
  <1>1. /\ stage = "accepted" /\ stage' = "spreading" /\ spread' = changes'
        /\ changes' \in {{}} \cup {{t} : t \in planned}
        /\ UNCHANGED <<planned, deps, path, finished, untried, cycle, waveOf, remaining, ready,
                       outputs, issues, affected>>
    BY DEF PatchCompiled, listVars, searchVars, layerVars, fileVars
  <1>2. changes' \subseteq planned
    BY <1>1
  <1>3. GraphTypeOK'
    BY <1>1, <1>2 DEF GraphInv, GraphTypeOK, Patching
  <1>4. StackIsPath' /\ WavesAreEarliest' /\ SearchIsExact' /\ CompilerIsExact'
    BY <1>1 DEF GraphInv, StackIsPath, SearchIsExact, WavesAreEarliest, CompilerIsExact,
       Acyclic, RealCycle
  <1>5. SpreadIsNeeded'
    BY <1>1 DEF GraphInv, SpreadIsNeeded, Within
  <1> QED
    BY <1>3, <1>4, <1>5 DEF GraphInv

(* Two sets that lead nowhere else do so together.                         *)
LEMMA ClosedTogether ==
    ASSUME NEW S, NEW T, ClosedUnder(S), ClosedUnder(T)
    PROVE  ClosedUnder(S \cup T)
  BY DEF ClosedUnder

LEMMA EndSpreadStep ==
    ASSUME GraphInv, EndSpread
    PROVE  GraphInv'
  <1>1. /\ stage \in {"spreading", "respreading"} /\ More(spread) \subseteq spread
        /\ affected' = affected \cup spread
        /\ stage = "spreading" => stage' = "respreading" /\ spread' = PlanReaders
        /\ stage # "spreading" => stage' = "patched" /\ spread' = {}
        /\ UNCHANGED <<planned, deps, path, finished, untried, cycle, waveOf, remaining,
                       ready, outputs, issues, reads, changes>>
    BY DEF EndSpread, listVars, searchVars, layerVars, fileVars
  <1>2. PlanReaders \subseteq planned /\ PlanReaders' = PlanReaders
    BY <1>1 DEF PlanReaders
  <1>3. GraphTypeOK'
    BY <1>1, <1>2 DEF GraphInv, GraphTypeOK, Patching
  <1>4. StackIsPath' /\ SearchIsExact' /\ WavesAreEarliest' /\ CompilerIsExact'
    BY <1>1 DEF GraphInv, StackIsPath, SearchIsExact, WavesAreEarliest, CompilerIsExact,
       Acyclic, RealCycle
  <1>5. ClosedUnder(spread)
    BY <1>1, MoreIsLedTo DEF ClosedUnder
  <1>6. ASSUME NEW S, NEW seeds, Within(S, seeds)
        PROVE  \A T \in SUBSET planned' :
                  seeds \subseteq T /\ (\A s \in T, t \in planned' :
                      (s \in deps'[t] \/ outputs'[s] \cap reads'[t] # {}) => t \in T)
                  => S \subseteq T
    BY <1>1, <1>6 DEF Within, ClosedUnder, LeadsTo
  <1>7. ASSUME stage = "spreading" PROVE SpreadIsNeeded'
    <2>1. affected = {} /\ changes \subseteq spread /\ Within(spread, changes)
      BY <1>7 DEF GraphInv, SpreadIsNeeded
    <2>2. Within(PlanReaders, PlanReaders)
      BY DEF Within
    <2> QED
      BY <1>1, <1>2, <1>5, <1>6, <1>7, <2>1, <2>2 DEF SpreadIsNeeded, Within, ClosedUnder, LeadsTo
  <1>8. ASSUME stage = "respreading" PROVE SpreadIsNeeded'
    <2>1. /\ ClosedUnder(affected) /\ changes \subseteq affected
          /\ Within(affected, changes) /\ PlanReaders \subseteq spread
          /\ Within(spread, PlanReaders)
      BY <1>8 DEF GraphInv, SpreadIsNeeded
    <2>2. ClosedUnder(affected \cup spread)
      BY <1>5, <2>1, ClosedTogether
    <2>3. Within(affected \cup spread, changes \cup PlanReaders)
      BY <2>1 DEF Within
    <2> QED
      BY <1>1, <1>2, <1>8, <2>1, <2>2, <2>3 DEF SpreadIsNeeded, Within, ClosedUnder, LeadsTo
  <1> QED
    BY <1>1, <1>3, <1>4, <1>7, <1>8 DEF GraphInv

-----------------------------------------------------------------------------
(* The search for cycles.                                                  *)

(* A cycle that the search reports is one.                                 *)
LEMMA RealCycleIsCycle ==
    ASSUME cycle \in Seq(planned), RealCycle
    PROVE  ~Acyclic
  <1> DEFINE S == {cycle[i] : i \in 1..Len(cycle)}
  <1>1. Len(cycle) \in Nat /\ Len(cycle) > 1 /\ cycle[1] = cycle[Len(cycle)]
    BY DEF RealCycle, Last
  <1>2. S \in (SUBSET planned) \ {{}}
    <2>1. \A i \in 1..Len(cycle) : cycle[i] \in planned
      OBVIOUS
    <2>2. cycle[1] \in S
      BY <1>1
    <2> QED
      BY <2>1, <2>2
  <1>3. ASSUME NEW t \in S PROVE deps[t] \cap S # {}
    <2>1. PICK i \in 1..Len(cycle) : t = cycle[i]
      OBVIOUS
    <2>2. PICK j \in 1..Len(cycle) - 1 : t = cycle[j]
      BY <1>1, <2>1
    <2>3. cycle[j + 1] \in deps[t] /\ j + 1 \in 1..Len(cycle)
      BY <1>1, <2>2 DEF RealCycle
    <2> QED
      BY <2>3
  <1> QED
    BY <1>2, <1>3 DEF Acyclic

(* A task whose dependencies are finished can be.                          *)
LEMMA ExploredMore ==
    ASSUME NEW S \in SUBSET planned, Explored(S), NEW t \in planned \ S,
           deps[t] \cap planned \subseteq S
    PROVE  Explored(S \cup {t})
  <1>1. \A u \in S \cup {t} : deps[u] \cap planned \subseteq S \cup {t}
    BY DEF Explored
  <1>2. ASSUME NEW T \in (SUBSET (S \cup {t})) \ {{}} PROVE \E u \in T : deps[u] \cap T = {}
    <2>1. CASE T \cap S = {}
      <3>1. T = {t}
        BY <2>1
      <3> QED
        BY <3>1
    <2>2. CASE T \cap S # {}
      <3>1. PICK u \in T \cap S : deps[u] \cap (T \cap S) = {}
        <4>1. T \cap S \in (SUBSET S) \ {{}}
          BY <2>2
        <4> QED
          BY <4>1 DEF Explored
      <3>2. deps[u] \cap planned \subseteq S
        BY <3>1 DEF Explored
      <3> QED
        BY <3>1, <3>2
    <2> QED
      BY <2>1, <2>2
  <1> QED
    BY <1>1, <1>2 DEF Explored

LEMMA StartRootStep ==
    ASSUME GraphInv, NEW t \in planned, StartRoot(t)
    PROVE  GraphInv'
  <1>1. /\ stage = "searching" /\ t \notin finished /\ path' = <<t>>
        /\ untried' = [untried EXCEPT ![t] = deps[t]]
        /\ UNCHANGED <<stage, planned, deps, finished, cycle, waveOf, remaining, ready, outputs,
                       issues, reads, spread, affected, changes>>
    BY DEF StartRoot, listVars, layerVars, fileVars, patchVars
  <1>2. GraphTypeOK /\ deps[t] \in SUBSET Names
    BY DEF GraphInv, GraphTypeOK
  <1>3. GraphTypeOK'
    BY <1>1, <1>2 DEF GraphTypeOK
  <1>4. SearchIsExact' /\ WavesAreEarliest' /\ SpreadIsNeeded' /\ CompilerIsExact'
    BY <1>1 DEF GraphInv, StackIsPath, SearchIsExact, WavesAreEarliest, SpreadIsNeeded,
       CompilerIsExact
  <1>5. StackIsPath'
    <2>1. /\ cycle = <<>> /\ finished \in SUBSET planned /\ Explored(finished)
      BY <1>1 DEF GraphInv, StackIsPath
    <2>2. Explored(finished)'
      BY <1>1, <2>1 DEF Explored
    <2>3. path' \in Seq(planned) /\ Len(path') = 1 /\ path'[1] = t
      BY <1>1
    <2>4. untried'[t] = deps[t]
      BY <1>1, <1>2 DEF GraphTypeOK
    <2>5. \A i \in 1..Len(path') : i = 1
      BY <2>3
    <2> QED
      BY <1>1, <2>1, <2>2, <2>3, <2>4, <2>5 DEF StackIsPath
  <1> QED
    BY <1>3, <1>4, <1>5 DEF GraphInv

(* The top of the stack, and what the search knows of it.                  *)
LEMMA SearchFacts ==
    ASSUME GraphInv, stage = "searching"
    PROVE  /\ cycle = <<>> /\ path \in Seq(planned) /\ finished \in SUBSET planned
           /\ Explored(finished)
           /\ \A i, j \in 1..Len(path) : path[i] = path[j] => i = j
           /\ \A i \in 1..Len(path) :
                 /\ path[i] \in planned \ finished /\ untried[path[i]] \subseteq deps[path[i]]
                 /\ i < Len(path) => path[i + 1] \in deps[path[i]]
                 /\ \A d \in (deps[path[i]] \cap planned) \ untried[path[i]] :
                       d \in finished \/ (i < Len(path) /\ d = path[i + 1])
           /\ Len(path) \in Nat
           /\ path # <<>> => Len(path) \in 1..Len(path) /\ Last(path) = path[Len(path)]
  <1>1. StackIsPath
    BY DEF GraphInv
  <1>2. path \in Seq(planned)
    BY <1>1 DEF StackIsPath
  <1>3. \A i \in 1..Len(path) : path[i] \in planned
    BY <1>2
  <1> QED
    BY <1>1, <1>2, <1>3 DEF StackIsPath, Last

LEMMA GreyIsOnPath ==
    ASSUME path \in Seq(planned)
    PROVE  \A d : d \in Grey <=> \E i \in 1..Len(path) : path[i] = d
  BY RangeEquality DEF Grey

(* A stack from a grey dependency on, and that dependency again.           *)
LEMMA StackWithGrey ==
    ASSUME NEW S, NEW s \in Seq(S), NEW from \in 1..Len(s), NEW succ,
           \A i \in 1..Len(s) : i < Len(s) => s[i + 1] \in succ[s[i]],
           s[from] \in succ[s[Len(s)]],
           NEW c, c = SubSeq(s, from, Len(s)) \o <<s[from]>>
    PROVE  /\ c \in Seq(S) /\ Len(c) > 1 /\ c # <<>> /\ Head(c) = c[Len(c)]
           /\ \A i \in 1..Len(c) - 1 : c[i + 1] \in succ[c[i]]
  <1> DEFINE n == Len(s) - from + 1
             b == SubSeq(s, from, Len(s))
  <1>0. /\ Len(s) \in Nat /\ from \in Nat /\ from >= 1
        /\ n \in Nat /\ n >= 1 /\ from + n = Len(s) + 1
    OBVIOUS
  <1>1. Len(s) \in Nat /\ n \in Nat /\ n >= 1 /\ \A i \in 1..Len(s) : s[i] \in S
    BY <1>0
  <1>2. b \in Seq(S) /\ Len(b) = n /\ \A i \in 1..n : b[i] = s[from + i - 1]
    BY <1>1, SubSeqProperties
  <1> HIDE DEF b, n
  <1>3. <<s[from]>> \in Seq(S) /\ Len(<<s[from]>>) = 1 /\ <<s[from]>>[1] = s[from]
    BY <1>1
  <1>4. c = b \o <<s[from]>>
    BY DEF b
  <1>5. /\ c \in Seq(S) /\ Len(c) = n + 1
        /\ \A i \in 1..n + 1 : c[i] = IF i <= n THEN b[i] ELSE <<s[from]>>[i - n]
    BY <1>2, <1>3, <1>4, ConcatProperties
  <1>6. (\A i \in 1..n : c[i] = s[from + i - 1]) /\ c[n + 1] = s[from]
    <2>1. \A i \in 1..n : i \in 1..n + 1 /\ i <= n
      BY <1>1
    <2>2. n + 1 \in 1..n + 1 /\ ~(n + 1 <= n) /\ n + 1 - n = 1
      BY <1>1
    <2> QED
      BY <1>2, <1>3, <1>5, <2>1, <2>2
  <1>7. Head(c) = c[1] /\ c # <<>>
    BY <1>1, <1>5
  <1>8. c[1] = s[from]
    BY <1>1, <1>6
  <1>9. ASSUME NEW i \in 1..n PROVE c[i + 1] \in succ[c[i]]
    <2>1. CASE i < n
      <3>1. from + i - 1 \in 1..Len(s) /\ from + i - 1 < Len(s) /\ i + 1 \in 1..n
        <4>1. i \in Nat /\ i >= 1 /\ i < n
          BY <1>0, <2>1
        <4> DEFINE len == Len(s)
        <4>2. len \in Nat /\ from + n = len + 1
          BY <1>0
        <4> HIDE DEF len
        <4>3. from + i - 1 \in 1..len /\ from + i - 1 < len /\ i + 1 \in 1..n
          BY <1>0, <4>1, <4>2
        <4> QED
          BY <4>3 DEF len
      <3>2. c[i + 1] = s[from + i] /\ c[i] = s[from + i - 1] /\ from + i = (from + i - 1) + 1
        BY <1>1, <1>6, <3>1
      <3> QED
        BY <3>1, <3>2
    <2>2. CASE i = n
      <3>1. c[i] = s[Len(s)] /\ c[i + 1] = s[from]
        BY <1>0, <1>6, <2>2
      <3> QED
        BY <3>1
    <2>3. i < n \/ i = n
      BY <1>0
    <2> QED
      BY <2>1, <2>2, <2>3
  <1>10. Len(c) > 1 /\ Len(c) - 1 = n /\ c[Len(c)] = s[from]
    BY <1>1, <1>5, <1>6
  <1> QED
    BY <1>5, <1>7, <1>8, <1>9, <1>10

LEMMA TryGreyStep ==
    ASSUME GraphInv, NEW d, TryDependency(d), d \in Grey
    PROVE  GraphInv'
  <1> DEFINE from == CHOOSE i \in DOMAIN path : path[i] = d
  <1>1. /\ stage = "searching" /\ path # <<>> /\ d \in untried[Last(path)]
        /\ cycle' = SubSeq(path, from, Len(path)) \o <<d>> /\ stage' = "counting"
        /\ UNCHANGED <<planned, deps, path, finished, untried, waveOf, remaining, ready, outputs,
                       issues, reads, spread, affected, changes>>
    BY DEF TryDependency, listVars, layerVars, fileVars, patchVars
  <1>2. /\ path \in Seq(planned) /\ path[Len(path)] = Last(path)
        /\ \A i \in 1..Len(path) : i < Len(path) => path[i + 1] \in deps[path[i]]
        /\ d \in deps[path[Len(path)]]
    BY <1>1, SearchFacts
  <1>3. from \in 1..Len(path) /\ path[from] = d
    <2>1. \E i \in DOMAIN path : path[i] = d
      BY <1>2, GreyIsOnPath
    <2> QED
      BY <1>2, <2>1
  <1> HIDE DEF from
  <1>4. /\ cycle' \in Seq(planned) /\ Len(cycle') > 1 /\ cycle' # <<>>
        /\ Head(cycle') = cycle'[Len(cycle')]
        /\ \A i \in 1..Len(cycle') - 1 : cycle'[i + 1] \in deps[cycle'[i]]
    BY <1>1, <1>2, <1>3, StackWithGrey
  <1>5. RealCycle'
    BY <1>1, <1>4 DEF RealCycle, Last
  <1>6. GraphTypeOK'
    BY <1>1, <1>4 DEF GraphInv, GraphTypeOK
  <1>7. StackIsPath' /\ SearchIsExact' /\ CompilerIsExact'
    BY <1>1, <1>4, <1>5 DEF StackIsPath, SearchIsExact, CompilerIsExact
  <1>8. WavesAreEarliest' /\ SpreadIsNeeded'
    BY <1>1 DEF GraphInv, WavesAreEarliest, SpreadIsNeeded
  <1> QED
    BY <1>6, <1>7, <1>8 DEF GraphInv

(* What the search keeps of the rest of the invariant.                     *)
LEMMA SearchKeeps ==
    ASSUME GraphInv, stage = "searching", stage' = "searching", StackIsPath',
           untried' \in [planned -> SUBSET Names],
           UNCHANGED <<planned, deps, cycle, waveOf, remaining, ready, outputs, issues, reads,
                       spread, affected, changes>>
    PROVE  GraphInv'
  <1>1. GraphTypeOK'
    BY DEF GraphInv, GraphTypeOK
  <1>2. SearchIsExact' /\ WavesAreEarliest' /\ SpreadIsNeeded' /\ CompilerIsExact'
    BY DEF GraphInv, StackIsPath, SearchIsExact, WavesAreEarliest, SpreadIsNeeded,
       CompilerIsExact
  <1> QED
    BY <1>1, <1>2 DEF GraphInv

(* The dependency is not one of the list, or finished.                     *)
LEMMA TrySkipStep ==
    ASSUME GraphInv, NEW d, TryDependency(d), d \notin Grey,
           d \notin planned \ (finished \cup Grey)
    PROVE  GraphInv'
  <1>1. /\ stage = "searching" /\ path # <<>> /\ path' = path
        /\ untried' = [untried EXCEPT ![Last(path)] = @ \ {d}]
        /\ UNCHANGED <<stage, planned, deps, finished, cycle, waveOf, remaining, ready, outputs,
                       issues, reads, spread, affected, changes>>
    BY DEF TryDependency, listVars, layerVars, fileVars, patchVars
  <1>2. d \in planned => d \in finished
    OBVIOUS
  <1>3. untried \in [planned -> SUBSET Names]
    BY DEF GraphInv, GraphTypeOK
  <1>4. untried' \in [planned -> SUBSET Names]
    BY <1>1, <1>3
  <1>5. \A t \in planned : untried'[t] \subseteq untried[t] /\ untried[t] \subseteq untried'[t] \cup {d}
    BY <1>1, <1>3
  <1>6. StackIsPath'
    BY <1>1, <1>2, <1>5, SearchFacts DEF StackIsPath, Explored
  <1> QED
    BY <1>1, <1>4, <1>6, SearchKeeps

(* The dependency goes on top of the stack.                                *)
LEMMA TryPushStep ==
    ASSUME GraphInv, NEW d, TryDependency(d), d \notin Grey, d \in planned \ (finished \cup Grey)
    PROVE  GraphInv'
  <1> DEFINE n == Len(path)
             top == path[n]
  <1>1. /\ stage = "searching" /\ path # <<>> /\ path' = Append(path, d)
        /\ d \in untried[Last(path)]
        /\ untried' = [[untried EXCEPT ![Last(path)] = @ \ {d}] EXCEPT ![d] = deps[d]]
        /\ UNCHANGED <<stage, planned, deps, finished, cycle, waveOf, remaining, ready, outputs,
                       issues, reads, spread, affected, changes>>
    BY DEF TryDependency, listVars, layerVars, fileVars, patchVars
  <1>2. /\ path \in Seq(planned) /\ n \in Nat /\ n \in 1..n /\ Last(path) = top /\ top \in planned
        /\ untried[top] \subseteq deps[top]
    BY <1>1, SearchFacts
  <1>3. \A i \in 1..n : path[i] # d
    BY <1>2, GreyIsOnPath
  <1>4. untried \in [planned -> SUBSET Names] /\ deps \in [planned -> SUBSET Names]
    BY DEF GraphInv, GraphTypeOK
  <1>5. untried' \in [planned -> SUBSET Names] /\ untried'[d] = deps[d]
        /\ untried'[top] = untried[top] \ {d}
        /\ \A t \in planned : t # d /\ t # top => untried'[t] = untried[t]
    BY <1>1, <1>2, <1>3, <1>4
  <1>6. /\ path' \in Seq(planned) /\ Len(path') = n + 1 /\ path'[n + 1] = d
        /\ \A i \in 1..n : path'[i] = path[i]
    BY <1>1, <1>2, AppendProperties
  <1> HIDE DEF n, top
  <1>7. StackIsPath'
    <2>1. \A i, j \in 1..n + 1 : path'[i] = path'[j] => i = j
      BY <1>2, <1>3, <1>6, SearchFacts, <1>1 DEF n
    <2> DEFINE Here(i) ==
                  /\ path'[i] \notin finished
                  /\ untried'[path'[i]] \subseteq deps[path'[i]]
                  /\ i < n + 1 => path'[i + 1] \in deps[path'[i]]
                  /\ \A e \in (deps[path'[i]] \cap planned) \ untried'[path'[i]] :
                        e \in finished \/ (i < n + 1 /\ e = path'[i + 1])
    <2> HIDE DEF Here
    <2>2. ASSUME NEW i \in 1..n + 1 PROVE Here(i)
      <3>1. ASSUME i = n + 1 PROVE Here(i)
        BY <1>2, <1>5, <1>6, <3>1 DEF Here
      <3>2. ASSUME i = n PROVE Here(i)
        <4>1. path'[i] = top /\ path'[i + 1] = d /\ i < n + 1 /\ d \in deps[top]
          BY <1>1, <1>2, <1>6, <3>2 DEF top
        <4>2. top \notin finished
              /\ \A e \in (deps[top] \cap planned) \ untried[top] : e \in finished
          BY <1>1, <1>2, <3>2, SearchFacts DEF n, top
        <4> QED
          BY <1>2, <1>5, <4>1, <4>2 DEF Here
      <3>3. ASSUME i < n PROVE Here(i)
        <4>1. i \in 1..n /\ i + 1 \in 1..n /\ path'[i] = path[i] /\ path'[i + 1] = path[i + 1]
          BY <1>2, <1>6, <3>3
        <4>2. path[i] # top /\ path[i] # d /\ path[i] \in planned
          BY <1>1, <1>2, <1>3, <3>3, <4>1, SearchFacts DEF n, top
        <4>3. untried'[path[i]] = untried[path[i]]
          BY <1>5, <4>2
        <4>4. /\ path[i] \notin finished /\ untried[path[i]] \subseteq deps[path[i]]
              /\ path[i + 1] \in deps[path[i]]
              /\ \A e \in (deps[path[i]] \cap planned) \ untried[path[i]] :
                    e \in finished \/ e = path[i + 1]
          BY <1>1, <3>3, <4>1, SearchFacts DEF n
        <4>5. i < n + 1
          BY <1>2, <3>3
        <4> QED
          BY <4>1, <4>3, <4>4, <4>5 DEF Here
      <3>4. i = n + 1 \/ i = n \/ i < n
        <4>1. n \in Nat
          BY <1>2
        <4> QED
          BY <4>1
      <3> QED
        BY <3>1, <3>2, <3>3, <3>4
    <2>3. cycle' = <<>> /\ finished' \in SUBSET planned' /\ Explored(finished)'
      BY <1>1, SearchFacts DEF Explored
    <2>4. UNCHANGED <<planned, deps, finished>>
      BY <1>1
    <2> QED
      BY <1>6, <2>1, <2>2, <2>3, <2>4 DEF StackIsPath, Here
  <1> QED
    BY <1>1, <1>5, <1>7, SearchKeeps

LEMMA BacktrackStep ==
    ASSUME GraphInv, Backtrack
    PROVE  GraphInv'
  <1> DEFINE n == Len(path)
             top == path[n]
  <1>1. /\ stage = "searching" /\ path # <<>> /\ untried[Last(path)] = {}
        /\ finished' = finished \cup {Last(path)} /\ path' = Front(path)
        /\ UNCHANGED <<stage, planned, deps, untried, cycle, waveOf, remaining, ready, outputs,
                       issues, reads, spread, affected, changes>>
    BY DEF Backtrack, listVars, layerVars, fileVars, patchVars
  <1>2. /\ path \in Seq(planned) /\ n \in Nat /\ n \in 1..n /\ Last(path) = top
        /\ top \in planned \ finished /\ finished \in SUBSET planned /\ Explored(finished)
        /\ \A i \in 1..n : path[i] \in planned
    BY <1>1, SearchFacts
  <1>3. \A i \in 1..n - 1 : path[i] # top
    <2>1. \A i, j \in 1..n : path[i] = path[j] => i = j
      BY <1>1, SearchFacts
    <2> QED
      BY <1>2, <2>1
  <1>4. deps[top] \cap planned \subseteq finished
    <2>1. \A d \in (deps[top] \cap planned) \ untried[top] : d \in finished
      BY <1>1, <1>2, SearchFacts
    <2> QED
      BY <1>1, <1>2, <2>1
  <1>5. Explored(finished \cup {top})
    BY <1>2, <1>4, ExploredMore
  <1>6. /\ path' \in Seq(planned) /\ Len(path') = n - 1 /\ n - 1 \in Nat
        /\ \A i \in 1..n - 1 : path'[i] = path[i]
    <2>1. path' = SubSeq(path, 1, n - 1)
      BY <1>1 DEF Front
    <2>2. \A i \in 1..n - 1 : path[i] \in planned
      BY <1>2
    <2>3. n \in Nat /\ n >= 1
      BY <1>2
    <2> HIDE DEF n
    <2> DEFINE m == n - 1
    <2>4. m \in Nat /\ 1 \in Int /\ m \in Int
      BY <2>3
    <2> HIDE DEF m
    <2>5. m - 1 + 1 = m /\ (1 <= m \/ m = 0) /\ \A i \in 1..m : 1 + i - 1 = i
      BY <2>4
    <2>6. /\ SubSeq(path, 1, m) \in Seq(planned)
          /\ Len(SubSeq(path, 1, m)) = IF 1 <= m THEN m - 1 + 1 ELSE 0
          /\ \A i \in 1..m - 1 + 1 : SubSeq(path, 1, m)[i] = path[1 + i - 1]
      BY <2>2, <2>4, SubSeqProperties DEF m
    <2>7. /\ SubSeq(path, 1, m) \in Seq(planned)
          /\ Len(SubSeq(path, 1, m)) = m
          /\ \A i \in 1..m : SubSeq(path, 1, m)[i] = path[i]
      BY <2>5, <2>6
    <2> QED
      BY <2>1, <2>4, <2>7 DEF m
  <1>7. \A i, j \in 1..n - 1 : path[i] = path[j] => i = j
    <2>1. \A i, j \in 1..n : path[i] = path[j] => i = j
      BY <1>1, SearchFacts
    <2> QED
      BY <1>2, <2>1
  <1>8. ASSUME NEW i \in 1..n - 1
        PROVE  /\ path[i] \notin finished /\ path[i] # top
               /\ untried[path[i]] \subseteq deps[path[i]]
               /\ i < n - 1 => path[i + 1] \in deps[path[i]]
               /\ \A d \in (deps[path[i]] \cap planned) \ untried[path[i]] :
                     d \in finished \cup {top} \/ (i < n - 1 /\ d = path[i + 1])
    <2>1. i \in 1..n /\ i < n /\ (~(i < n - 1) => i + 1 = n)
      BY <1>2
    <2>2. /\ path[i] \notin finished
          /\ untried[path[i]] \subseteq deps[path[i]]
          /\ path[i + 1] \in deps[path[i]]
          /\ \A d \in (deps[path[i]] \cap planned) \ untried[path[i]] :
                d \in finished \/ d = path[i + 1]
      BY <1>1, <2>1, SearchFacts
    <2> QED
      BY <1>3, <2>1, <2>2
  <1>9. UNCHANGED <<stage, planned, deps, untried, cycle>> /\ cycle = <<>>
    BY <1>1, SearchFacts
  <1>10. finished' = finished \cup {top}
    BY <1>1, <1>2
  <1> HIDE DEF n, top
  <1>11. \A i \in 1..n - 1 :
            /\ path'[i] \notin finished'
            /\ untried'[path'[i]] \subseteq deps'[path'[i]]
            /\ i < n - 1 => path'[i + 1] \in deps'[path'[i]]
            /\ \A d \in (deps'[path'[i]] \cap planned') \ untried'[path'[i]] :
                  d \in finished' \/ (i < n - 1 /\ d = path'[i + 1])
    <2> SUFFICES ASSUME NEW i \in 1..n - 1
                 PROVE  /\ path[i] \notin finished'
                        /\ untried[path[i]] \subseteq deps[path[i]]
                        /\ i < n - 1 => path'[i + 1] \in deps[path[i]]
                        /\ \A d \in (deps[path[i]] \cap planned) \ untried[path[i]] :
                              d \in finished' \/ (i < n - 1 /\ d = path'[i + 1])
      BY <1>6, <1>9
    <2>1. i < n - 1 => path'[i + 1] = path[i + 1]
      BY <1>6
    <2> QED
      BY <1>8, <1>10, <2>1
  <1>12. Explored(finished)'
    BY <1>5, <1>9, <1>10 DEF Explored
  <1>13. finished' \in SUBSET planned
    BY <1>2, <1>10
  <1>14. StackIsPath'
    BY <1>6, <1>7, <1>9, <1>11, <1>12, <1>13 DEF StackIsPath
  <1>15. untried' \in [planned -> SUBSET Names]
    BY <1>9 DEF GraphInv, GraphTypeOK
  <1> QED
    BY <1>1, <1>14, <1>15, SearchKeeps

LEMMA EndSearchStep ==
    ASSUME GraphInv, EndSearch
    PROVE  GraphInv'
  <1>1. /\ stage = "searching" /\ finished = planned /\ stage' = "counting"
        /\ UNCHANGED <<planned, deps, path, finished, untried, cycle, waveOf, remaining, ready,
                       outputs, issues, reads, spread, affected, changes>>
    BY DEF EndSearch, listVars, searchVars, layerVars, fileVars, patchVars
  <1>2. cycle = <<>> /\ Explored(planned)
    BY <1>1, SearchFacts
  <1>3. Acyclic
    BY <1>2 DEF Acyclic, Explored
  <1>4. GraphTypeOK'
    BY <1>1 DEF GraphInv, GraphTypeOK
  <1>5. StackIsPath' /\ SearchIsExact' /\ CompilerIsExact'
    BY <1>1, <1>2, <1>3 DEF StackIsPath, SearchIsExact, CompilerIsExact, Acyclic
  <1>6. WavesAreEarliest' /\ SpreadIsNeeded'
    BY <1>1 DEF GraphInv, WavesAreEarliest, SpreadIsNeeded
  <1> QED
    BY <1>4, <1>5, <1>6 DEF GraphInv

-----------------------------------------------------------------------------
(* The layering.                                                           *)

LEMMA CountStep ==
    ASSUME GraphInv, Count
    PROVE  GraphInv'
  <1>1. /\ stage = "counting" /\ stage' = "layering"
        /\ remaining' = [t \in planned |-> Cardinality(deps[t] \cap planned)]
        /\ ready' = {t \in planned : deps[t] \cap planned = {}}
        /\ untried' = [t \in planned |-> {}]
        /\ UNCHANGED <<planned, deps, cycle, waveOf, outputs, issues, reads, spread, affected,
                       changes>>
    BY DEF Count, None, listVars, fileVars, patchVars
  <1>2. waveOf = [t \in planned |-> 0]
    BY <1>1 DEF GraphInv, WavesAreEarliest
  <1>3. GraphTypeOK'
    BY <1>1 DEF GraphInv, GraphTypeOK
  <1>4. StackIsPath' /\ SearchIsExact' /\ SpreadIsNeeded'
    BY <1>1 DEF GraphInv, StackIsPath, SearchIsExact, SpreadIsNeeded, Acyclic, RealCycle
  <1>5. CompilerIsExact'
    BY <1>1 DEF GraphInv, SearchIsExact, CompilerIsExact, RealCycle
  <1>6. WavesAreEarliest'
    <2>1. \A t \in planned : (deps[t] \cap planned) \ {} = deps[t] \cap planned
      OBVIOUS
    <2>2. ReleasedAre({})'
      BY <1>1, <1>2, <2>1 DEF ReleasedAre
    <2> QED
      BY <1>1, <2>2 DEF WavesAreEarliest
  <1> QED
    BY <1>3, <1>4, <1>5, <1>6 DEF GraphInv

(* One task more is released.                                              *)
LEMMA ReleasedMore ==
    ASSUME GraphTypeOK, NEW S \in SUBSET planned, ReleasedAre(S), NEW t \in planned, Release(t)
    PROVE  waveOf' \in [planned -> Nat] /\ ReleasedAre(S \cup {t})'
  <1> DEFINE R == S \cup {t}
             Left(u) == (deps[u] \cap planned) \ S
  <1>1. /\ t \in ready
        /\ waveOf' = [c \in planned |-> IF c \in ChildrenOf(t) THEN AtLeast(waveOf[c], waveOf[t] + 1)
                                        ELSE waveOf[c]]
        /\ remaining' = [c \in planned |-> IF c \in ChildrenOf(t) THEN remaining[c] - 1
                                           ELSE remaining[c]]
        /\ ready' = (ready \ {t}) \cup {c \in ChildrenOf(t) : remaining[c] = 1}
        /\ planned' = planned /\ deps' = deps
    BY DEF Release, listVars
  <1>2. /\ planned \in SUBSET Names /\ deps \in [planned -> SUBSET Names]
        /\ waveOf \in [planned -> Nat]
    BY DEF GraphTypeOK
  <1>3. /\ ready = {u \in planned \ S : deps[u] \cap planned \subseteq S}
        /\ remaining = [u \in planned |-> Cardinality(Left(u))]
        /\ \A u \in S : deps[u] \cap planned \subseteq S
        /\ \A u \in planned :
              /\ \A d \in deps[u] \cap S : waveOf[d] < waveOf[u]
              /\ waveOf[u] > 0 => \E d \in deps[u] \cap S : waveOf[d] = waveOf[u] - 1
    BY DEF ReleasedAre
  <1>4. t \notin S /\ deps[t] \cap planned \subseteq S /\ t \notin deps[t]
    BY <1>1, <1>3
  <1>5. \A c : c \in ChildrenOf(t) <=> c \in planned /\ t \in deps[c]
    BY DEF ChildrenOf
  <1>6. \A c \in ChildrenOf(t) : c \notin S /\ c # t /\ t \in Left(c)
    BY <1>3, <1>4, <1>5
  <1>7. waveOf' \in [planned -> Nat]
    BY <1>1, <1>2 DEF AtLeast
  <1>8. /\ \A c \in ChildrenOf(t) : waveOf'[c] >= waveOf[c] /\ waveOf'[c] > waveOf[t]
                                    /\ waveOf'[c] \in {waveOf[c], waveOf[t] + 1}
        /\ \A u \in planned : u \notin ChildrenOf(t) => waveOf'[u] = waveOf[u]
    BY <1>1, <1>2, <1>5 DEF AtLeast
  <1>9. \A d \in R : waveOf'[d] = waveOf[d]
    BY <1>6, <1>8
  <1>10. \A u \in planned : \A d \in deps[u] \cap R : waveOf'[d] < waveOf'[u]
    <2> SUFFICES ASSUME NEW u \in planned, NEW d \in deps[u] \cap R
                 PROVE  waveOf[d] < waveOf'[u]
      BY <1>9
    <2>1. waveOf[d] \in Nat /\ waveOf[u] \in Nat /\ waveOf'[u] \in Nat
      BY <1>2, <1>7
    <2>2. CASE d = t
      BY <1>5, <1>8, <2>2
    <2>3. CASE d \in S
      BY <1>3, <1>5, <1>8, <2>1, <2>3
    <2> QED
      BY <2>2, <2>3
  <1>11. \A u \in planned : waveOf'[u] > 0 => \E d \in deps[u] \cap R : waveOf'[d] = waveOf'[u] - 1
    <2> SUFFICES ASSUME NEW u \in planned, waveOf'[u] > 0
                 PROVE  \E d \in deps[u] \cap R : waveOf[d] = waveOf'[u] - 1
      BY <1>9
    <2>1. CASE waveOf'[u] = waveOf[u]
      BY <1>3, <2>1
    <2>2. CASE waveOf'[u] # waveOf[u]
      <3>1. u \in ChildrenOf(t) /\ waveOf'[u] = waveOf[t] + 1
        BY <1>8, <2>2
      <3>2. waveOf[t] = waveOf'[u] - 1 /\ t \in deps[u] \cap R
        BY <1>2, <1>5, <3>1
      <3> QED
        BY <3>2
    <2> QED
      BY <2>1, <2>2
  <1>12. \A u \in planned : IsFiniteSet(Left(u))
    BY <1>2, NamesAreFinite
  <1>13. remaining' = [u \in planned |-> Cardinality((deps[u] \cap planned) \ R)]
    <2>1. ASSUME NEW u \in planned PROVE remaining'[u] = Cardinality((deps[u] \cap planned) \ R)
      <3>1. (deps[u] \cap planned) \ R = Left(u) \ {t}
        OBVIOUS
      <3>2. Cardinality(Left(u) \ {t}) =
               IF t \in Left(u) THEN Cardinality(Left(u)) - 1 ELSE Cardinality(Left(u))
        BY <1>12, FS_RemoveElement
      <3>3. t \in Left(u) <=> u \in ChildrenOf(t)
        BY <1>4, <1>5
      <3> QED
        BY <1>1, <1>3, <3>1, <3>2, <3>3
    <2> QED
      BY <1>1, <2>1
  <1>14. \A u \in R : deps[u] \cap planned \subseteq R
    BY <1>3, <1>4
  <1>15. ready' = {u \in planned \ R : deps[u] \cap planned \subseteq R}
    <2>1. ASSUME NEW u \in planned \ R
          PROVE  u \in ready' <=> deps[u] \cap planned \subseteq R
      <3>1. CASE u \notin ChildrenOf(t)
        BY <1>1, <1>3, <1>5, <3>1
      <3>2. CASE u \in ChildrenOf(t)
        <4>1. t \in Left(u) /\ u \notin ready
          BY <1>3, <1>6, <3>2
        <4>2. deps[u] \cap planned \subseteq R <=> Left(u) = {t}
          BY <4>1
        <4>3. Cardinality(Left(u)) = 1 <=> \E x : Left(u) = {x}
          BY <1>12, FS_Singleton, Zenon
        <4>4. Cardinality(Left(u)) = 1 <=> Left(u) = {t}
          BY <4>1, <4>3
        <4> QED
          BY <1>1, <1>3, <3>2, <4>1, <4>2, <4>4
      <3> QED
        BY <3>1, <3>2
    <2>2. ready' \subseteq planned \ R
      BY <1>1, <1>3, <1>5, <1>6
    <2> QED
      BY <2>1, <2>2
  <1>16. planned' = planned /\ deps' = deps
    BY <1>1
  <1>17. ReleasedAre(S \cup {t})'
    BY <1>10, <1>11, <1>13, <1>14, <1>15, <1>16 DEF ReleasedAre
  <1> QED
    BY <1>7, <1>17

LEMMA ReleaseStep ==
    ASSUME GraphInv, NEW t \in planned, Release(t)
    PROVE  GraphInv'
  <1>1. /\ stage = "layering" /\ t \in ready
        /\ UNCHANGED <<stage, planned, deps, path, finished, untried, cycle, outputs, issues,
                       reads, spread, affected, changes>>
    BY DEF Release, listVars, searchVars, fileVars, patchVars
  <1>2. PICK S \in SUBSET planned : ReleasedAre(S)
    BY <1>1 DEF GraphInv, WavesAreEarliest
  <1>3. GraphTypeOK
    BY DEF GraphInv
  <1>4. waveOf' \in [planned -> Nat] /\ ReleasedAre(S \cup {t})'
    BY <1>2, <1>3, ReleasedMore
  <1>5. GraphTypeOK'
    BY <1>1, <1>3, <1>4 DEF GraphTypeOK
  <1>6. StackIsPath' /\ SearchIsExact' /\ CompilerIsExact' /\ SpreadIsNeeded'
    BY <1>1 DEF GraphInv, StackIsPath, SearchIsExact, CompilerIsExact, SpreadIsNeeded, Acyclic,
       RealCycle
  <1>7. WavesAreEarliest'
    <2>1. S \cup {t} \in SUBSET planned'
      BY <1>1
    <2> QED
      BY <1>1, <1>4, <2>1 DEF WavesAreEarliest
  <1> QED
    BY <1>5, <1>6, <1>7 DEF GraphInv

(* When nothing is ready, nothing that is left can be without a cycle.     *)
LEMMA AllReleased ==
    ASSUME NEW S \in SUBSET planned, ReleasedAre(S), ready = {}, Acyclic
    PROVE  S = planned
  <1> SUFFICES ASSUME planned \ S # {} PROVE FALSE
    OBVIOUS
  <1> DEFINE left == planned \ S
  <1>1. left \in (SUBSET planned) \ {{}}
    OBVIOUS
  <1>2. PICK t \in left : deps[t] \cap left = {}
    BY <1>1 DEF Acyclic
  <1>3. t \in ready
    BY <1>2 DEF ReleasedAre
  <1> QED
    BY <1>3

(* No issue, so none of those that concern several tasks.                  *)
LEMMA NoIssues ==
    ASSUME NEW writes, NEW flawed, IssuesOf(writes, flawed) = {}
    PROVE  Unresolved = {} /\ SharedOutputs(writes) = {} /\ NestedOutputs(writes) = {}
  <1>1. Unresolved # {} => "UNRESOLVED_DEP" \in IssuesOf(writes, flawed)
    BY DEF IssuesOf
  <1>2. SharedOutputs(writes) # {} => "DOUBLE_OWNER" \in IssuesOf(writes, flawed)
    BY DEF IssuesOf
  <1>3. NestedOutputs(writes) # {} => "OUTPUT_ANCESTOR" \in IssuesOf(writes, flawed)
    BY DEF IssuesOf
  <1> QED
    BY <1>1, <1>2, <1>3

LEMMA CycleIssue ==
    ASSUME NEW writes, NEW flawed
    PROVE  "CYCLE" \in IssuesOf(writes, flawed) <=> cycle # <<>>
  BY DEF IssuesOf

(* Tasks that write apart.                                                 *)
LEMMA WritesApart ==
    ASSUME planned \in SUBSET Names, NEW writes \in [planned -> SUBSET Files],
           SharedOutputs(writes) = {}, NestedOutputs(writes) = {},
           NEW t \in planned, NEW u \in planned, t # u, NEW f \in writes[t]
    PROVE  writes[u] \cap ({f} \cup Above[f]) = {}
  <1>1. f \notin writes[u]
    <2> SUFFICES ASSUME f \in writes[u] PROVE FALSE
      OBVIOUS
    <2> DEFINE writers == {x \in planned : f \in writes[x]}
    <2>1. f \in Files /\ ~(Cardinality(writers) > 1)
      BY DEF SharedOutputs
    <2>2. writers \in SUBSET Names /\ {t, u} \in SUBSET writers
      OBVIOUS
    <2>3. IsFiniteSet(writers)
      BY <2>2, NamesAreFinite
    <2>4. Cardinality(writers) \in Nat
      BY <2>3, FS_CardinalityType
    <2>5. IsFiniteSet({t}) /\ Cardinality({t}) = 1
      BY FS_Singleton, Zenon
    <2>6. Cardinality({t} \cup {u}) = 2
      <3>1. Cardinality({t} \cup {u}) =
               IF u \in {t} THEN Cardinality({t}) ELSE Cardinality({t}) + 1
        BY <2>5, FS_AddElement
      <3>2. u \notin {t}
        OBVIOUS
      <3> QED
        BY <2>5, <3>1, <3>2
    <2>7. Cardinality({t, u}) <= Cardinality(writers)
      BY <2>2, <2>3, FS_Subset
    <2>8. {t} \cup {u} = {t, u}
      OBVIOUS
    <2> HIDE DEF writers
    <2> QED
      BY <2>1, <2>4, <2>6, <2>7, <2>8
  <1>2. writes[u] \cap Above[f] = {}
    BY GraphAssumption DEF NestedOutputs
  <1> QED
    BY <1>1, <1>2

LEMMA CompileStep ==
    ASSUME GraphInv, Compile
    PROVE  GraphInv'
  <1>1. PICK writes \in [planned -> {S \in SUBSET Files : Cardinality(S) <= 1}],
             flawed \in BOOLEAN :
            /\ issues' = IssuesOf(writes, flawed)
            /\ IF issues' = {} THEN stage' = "accepted" /\ outputs' = writes
               ELSE stage' = "rejected" /\ UNCHANGED outputs
    BY DEF Compile
  <1>2. /\ stage = "layering" /\ ready = {}
        /\ UNCHANGED <<planned, deps, path, finished, untried, cycle, waveOf, remaining, ready,
                       reads, spread, affected, changes>>
    BY DEF Compile, listVars, searchVars, layerVars, patchVars
  <1>3. stage' \in {"accepted", "rejected"} /\ (stage' = "accepted" <=> issues' = {})
    BY <1>1
  <1>4. GraphTypeOK'
    BY <1>2, <1>3 DEF GraphInv, GraphTypeOK
  <1>5. StackIsPath' /\ SearchIsExact' /\ WavesAreEarliest'
    BY <1>2, <1>3 DEF GraphInv, StackIsPath, SearchIsExact, WavesAreEarliest, Acyclic, RealCycle
  <1>6. SpreadIsNeeded'
    BY <1>2, <1>3 DEF GraphInv, SpreadIsNeeded
  <1>7. CompilerIsExact'
    <2>1. IF cycle = <<>> THEN Acyclic ELSE RealCycle /\ ~Acyclic
      BY <1>2, RealCycleIsCycle DEF GraphInv, GraphTypeOK, SearchIsExact
    <2>2. "CYCLE" \in issues' <=> cycle # <<>>
      BY <1>1, CycleIssue
    <2>3. ASSUME Acyclic PROVE EarliestWaves
      <3>1. PICK S \in SUBSET planned : ReleasedAre(S)
        BY <1>2 DEF GraphInv, WavesAreEarliest
      <3>2. S = planned
        BY <1>2, <2>3, <3>1, AllReleased
      <3> QED
        BY <3>1, <3>2 DEF ReleasedAre, EarliestWaves
    <2>4. ASSUME issues' = {}
          PROVE  /\ \A t \in planned : deps[t] \subseteq planned
                 /\ \A t, u \in planned : t # u =>
                       \A f \in writes[t] : writes[u] \cap ({f} \cup Above[f]) = {}
      <3>1. Unresolved = {} /\ SharedOutputs(writes) = {} /\ NestedOutputs(writes) = {}
        BY <1>1, <2>4, NoIssues
      <3>2. planned \in SUBSET Names /\ writes \in [planned -> SUBSET Files]
        BY DEF GraphInv, GraphTypeOK
      <3>3. \A t, u \in planned : t # u =>
               \A f \in writes[t] : writes[u] \cap ({f} \cup Above[f]) = {}
        BY <3>1, <3>2, WritesApart
      <3> QED
        BY <3>1, <3>3 DEF Unresolved
    <2>5. Acyclic' <=> Acyclic
      BY <1>2 DEF Acyclic
    <2>6. EarliestWaves' <=> EarliestWaves
      BY <1>2 DEF EarliestWaves
    <2>7. RealCycle' <=> RealCycle
      BY <1>2 DEF RealCycle
    <2>8. cycle' # <<>> => RealCycle'
      BY <1>2, <2>1, <2>7
    <2>9. ("CYCLE" \in issues' <=> ~Acyclic') /\ (Acyclic' => EarliestWaves')
      BY <2>1, <2>2, <2>3, <2>5, <2>6
    <2>10. ASSUME stage' = "accepted"
           PROVE  Acyclic' /\ OwnOutputs' /\ \A t \in planned' : deps'[t] \subseteq planned'
      <3>1. issues' = {} /\ outputs' = writes
        BY <1>1, <1>3, <2>10
      <3>2. Acyclic'
        BY <2>9, <3>1
      <3>3. OwnOutputs'
        BY <1>2, <2>4, <3>1 DEF OwnOutputs
      <3> QED
        BY <1>2, <2>4, <3>1, <3>2, <3>3
    <2> QED
      BY <2>8, <2>9, <2>10 DEF CompilerIsExact
  <1> QED
    BY <1>4, <1>5, <1>6, <1>7 DEF GraphInv

LEMMA GraphStep == GraphInv /\ [GraphNext]_graphVars => GraphInv'
  <1> SUFFICES ASSUME GraphInv, [GraphNext]_graphVars PROVE GraphInv'
    OBVIOUS
  <1>1. CASE UNCHANGED graphVars
    <2>1. UNCHANGED <<stage, planned, deps, path, finished, untried, cycle, waveOf, remaining,
                      ready, outputs, issues, reads, spread, affected, changes>>
      BY <1>1 DEF graphVars, listVars, searchVars, layerVars, fileVars, patchVars
    <2>2. GraphTypeOK' /\ StackIsPath' /\ SearchIsExact' /\ CompilerIsExact'
      BY <2>1 DEF GraphInv, GraphTypeOK, StackIsPath, SearchIsExact, CompilerIsExact,
         Explored, Acyclic, RealCycle, EarliestWaves, OwnOutputs
    <2>3. WavesAreEarliest'
      <3>1. stage \in {"searching", "counting"} => waveOf = [t \in planned |-> 0]
        BY DEF GraphInv, WavesAreEarliest
      <3>2. ASSUME stage = "layering" PROVE \E S \in SUBSET planned : ReleasedAre(S)'
        <4>1. PICK S \in SUBSET planned : ReleasedAre(S)
          BY <3>2 DEF GraphInv, WavesAreEarliest
        <4>2. ReleasedAre(S)'
          BY <2>1, <4>1 DEF ReleasedAre
        <4> QED
          BY <4>2
      <3> QED
        BY <2>1, <3>1, <3>2 DEF WavesAreEarliest
    <2>4. SpreadIsNeeded'
      BY <2>1 DEF GraphInv, SpreadIsNeeded, Within, ClosedUnder, LeadsTo, PlanReaders
    <2> QED
      BY <2>2, <2>3, <2>4 DEF GraphInv
  <1>2. ASSUME NEW t \in planned, StartRoot(t) \/ Release(t) PROVE GraphInv'
    BY <1>2, StartRootStep, ReleaseStep
  <1>3. ASSUME NEW d \in Names, TryDependency(d) PROVE GraphInv'
    BY <1>3, TryGreyStep, TrySkipStep, TryPushStep
  <1> QED
    BY <1>1, <1>2, <1>3, BacktrackStep, EndSearchStep, CountStep, CompileStep,
       PatchCompiledStep, SpreadStep, EndSpreadStep DEF GraphNext

(* The inductive invariant of the compiler and its patches, for any list   *)
(* of tasks and any order of search and layering.                          *)
THEOREM GraphInductive == GraphSpec => []GraphInv
  BY GraphInitInv, GraphStep, PTL DEF GraphSpec

(* Every cycle is found and every one that is named is one, a list without *)
(* cycles has the earliest waves, and an accepted plan keeps its tasks     *)
(* apart.                                                                  *)
THEOREM CompilerIsRight == GraphSpec => []CompilerIsExact
  <1>1. GraphInv => CompilerIsExact
    BY DEF GraphInv
  <1> QED
    BY <1>1, GraphInductive, PTL

(* A patch invalidates what it leads to, and nothing else.                 *)
THEOREM PatchesAreExact == GraphSpec => []AffectedIsClosed
  <1>1. GraphInv => AffectedIsClosed
    <2> SUFFICES ASSUME GraphInv, stage = "patched"
                 PROVE  LET seeds == changes \cup PlanReaders
                            Closed(S) == seeds \subseteq S
                                         /\ \A s \in S, t \in planned : LeadsTo(s, t) => t \in S
                        IN  Closed(affected) /\ \A S \in SUBSET affected : Closed(S) => S = affected
      BY DEF AffectedIsClosed
    <2>1. /\ ClosedUnder(affected) /\ changes \subseteq affected /\ PlanReaders \subseteq affected
          /\ Within(affected, changes \cup PlanReaders) /\ affected \subseteq planned
      BY DEF GraphInv, GraphTypeOK, SpreadIsNeeded
    <2> QED
      BY <2>1 DEF Within, ClosedUnder
  <1> QED
    BY <1>1, GraphInductive, PTL

-----------------------------------------------------------------------------
(* Sums: the one fact about SumOver that the scores need.                  *)

LEMMA SumIsBounded ==
  ASSUME NEW S, IsFiniteSet(S), NEW M \in Nat, NEW v \in [S -> 0..M]
  PROVE  SumOver(v, S) \in 0..M * Cardinality(S)
  <1> DEFINE first(s) == CHOOSE x \in s : TRUE
             Fix(g) == g = [s \in SUBSET S |->
                              IF s = {} THEN 0
                              ELSE v[CHOOSE x \in s : TRUE] + g[s \ {CHOOSE x \in s : TRUE}]]
             Cells(s) == {p \in S \X (0..M) : p[1] \in s /\ p[2] < v[p[1]]}
             F == [s \in SUBSET S |-> Cardinality(Cells(s))]
  <1>1. \A s \in SUBSET S : IsFiniteSet(Cells(s)) /\ IsFiniteSet(s)
    <2>1. IsFiniteSet(0..M)
      BY FS_Interval
    <2>2. IsFiniteSet(S \X (0..M))
      BY <2>1, FS_Product
    <2>3. \A s \in SUBSET S : Cells(s) \in SUBSET (S \X (0..M))
      OBVIOUS
    <2> HIDE DEF Cells
    <2> QED
      BY <2>2, <2>3, FS_Subset
  <1>2. ASSUME NEW s \in SUBSET S, s # {}
        PROVE  Cardinality(Cells(s)) = v[first(s)] + Cardinality(Cells(s \ {first(s)}))
    <2> DEFINE x == first(s)
               new == {x} \X (0..v[x] - 1)
    <2>1. x \in s /\ x \in S /\ v[x] \in 0..M
      BY <1>2
    <2> HIDE DEF first, x
    <2>2. Cells(s) = new \cup Cells(s \ {x})
      BY <2>1
    <2>3. new \cap Cells(s \ {x}) = {}
      OBVIOUS
    <2>4. IsFiniteSet({x}) /\ Cardinality({x}) = 1
      BY FS_Singleton, Zenon
    <2>5. IsFiniteSet(0..v[x] - 1) /\ Cardinality(0..v[x] - 1) = v[x]
      <3>1. ASSUME NEW n \in Nat PROVE IsFiniteSet(0..n - 1) /\ Cardinality(0..n - 1) = n
        <4>1. n - 1 \in Int
          OBVIOUS
        <4>2. /\ IsFiniteSet(0..n - 1)
              /\ Cardinality(0..n - 1) = IF 0 > n - 1 THEN 0 ELSE (n - 1) - 0 + 1
          BY <4>1, FS_Interval
        <4> QED
          BY <4>2
      <3>2. v[x] \in Nat
        BY <2>1
      <3> QED
        BY <3>1, <3>2
    <2>6. IsFiniteSet(new) /\ Cardinality(new) = v[x]
      <3>1. Cardinality(new) = 1 * v[x] /\ IsFiniteSet(new)
        BY <2>4, <2>5, FS_Product
      <3> QED
        BY <2>1, <3>1
    <2>7. IsFiniteSet(Cells(s \ {x}))
      BY <1>1
    <2> HIDE DEF new, Cells
    <2>8. Cardinality(Cells(s)) = Cardinality(new) + Cardinality(Cells(s \ {x})) - Cardinality({})
      <3>1. Cardinality(new \cup Cells(s \ {x})) =
               Cardinality(new) + Cardinality(Cells(s \ {x})) - Cardinality(new \cap Cells(s \ {x}))
        BY <2>6, <2>7, FS_Union
      <3> QED
        BY <2>2, <2>3, <3>1
    <2>9. Cardinality({}) = 0
      BY FS_EmptySet, Zenon
    <2>10. Cardinality(Cells(s \ {x})) \in Nat
      BY <2>7, FS_CardinalityType
    <2> QED
      BY <2>1, <2>6, <2>8, <2>9, <2>10 DEF x
  <1>3. Fix(F)
    <2>1. Cells({}) = {} /\ Cardinality({}) = 0
      BY FS_EmptySet, Zenon
    <2>2. ASSUME NEW s \in SUBSET S
          PROVE  F[s] = IF s = {} THEN 0
                        ELSE v[CHOOSE x \in s : TRUE] + F[s \ {CHOOSE x \in s : TRUE}]
      BY <1>2, <2>1
    <2> QED
      BY <2>2
  <1> DEFINE G == CHOOSE g : Fix(g)
  <1>4. SumOver(v, S) = G[S]
    BY DEF SumOver, MapThenSumSet, MapThenFoldSet
  <1>5. Fix(G)
    <2> HIDE DEF F, Fix
    <2> QED
      BY <1>3
  <1> HIDE DEF F, G, Cells
  <1>6. /\ G[{}] = 0
        /\ \A s \in (SUBSET S) \ {{}} : G[s] = v[first(s)] + G[s \ {first(s)}]
    BY <1>5
  <1> HIDE DEF Fix
  <1> DEFINE Bad == {s \in SUBSET S : G[s] \notin 0..M * Cardinality(s)}
  <1>7. Bad = {}
    <2> SUFFICES ASSUME Bad # {} PROVE FALSE
      OBVIOUS
    <2>1. IsWellFoundedOn(StrictSubsetOrdering(S), SUBSET S)
      BY FS_StrictSubsetOrderingWellFounded, FS_FiniteSubsetsOfFinite
    <2>2. PICK s \in Bad : \A u \in Bad : <<u, s>> \notin StrictSubsetOrdering(S)
      <3>1. Bad \subseteq SUBSET S
        OBVIOUS
      <3> HIDE DEF Bad
      <3> QED
        BY <2>1, <3>1, WFMin
    <2>3. s # {}
      <3>1. Cardinality({}) = 0
        BY FS_EmptySet, Zenon
      <3>2. SUFFICES ASSUME s = {} PROVE s \notin Bad
        BY <2>2
      <3> QED
        BY <1>6, <3>1, <3>2
    <2>4. first(s) \in s /\ first(s) \in S
      BY <2>3
    <2> HIDE DEF first
    <2>5. s \ {first(s)} \notin Bad
      BY <2>2, <2>4 DEF StrictSubsetOrdering
    <2>6. Cardinality(s \ {first(s)}) = Cardinality(s) - 1 /\ Cardinality(s) \in Nat
      BY <1>1, <2>4, FS_RemoveElement, FS_CardinalityType
    <2>7. G[s \ {first(s)}] \in 0..M * (Cardinality(s) - 1)
      BY <2>5, <2>6
    <2>8. v[first(s)] \in 0..M
      BY <2>4
    <2>9. G[s] = v[first(s)] + G[s \ {first(s)}]
      BY <1>6, <2>3
    <2>10. ASSUME NEW n \in Nat, NEW a \in 0..M, NEW b \in 0..M * (n - 1)
           PROVE  a + b \in 0..M * n
      <3>1. M * (n - 1) = M * n - M /\ M * n \in Int
        OBVIOUS
      <3> QED
        BY <3>1
    <2> QED
      BY <2>6, <2>7, <2>8, <2>9, <2>10
  <1> QED
    BY <1>4, <1>7

-----------------------------------------------------------------------------
(* Families.                                                               *)

LEMMA FamilyInitInv == FamilyInit => FamilyInv
  <1> SUFFICES ASSUME FamilyInit PROVE FamilyInv
    OBVIOUS
  <1>1. /\ declared \in [Sources -> SUBSET (Sources \cup Unknown)] /\ parent = [s \in Sources |-> s]
        /\ unions = UNION {{<<s, d>> : d \in declared[s] \cap Sources} : s \in Sources}
        /\ pair = <<>> /\ cursor = Idle /\ roots = <<>> /\ verdict = Unjudged
    BY DEF FamilyInit
  <1>2. unions = Declared
    <2>1. ASSUME NEW p \in unions PROVE p \in Declared
      <3>1. PICK s \in Sources : p \in {<<s, d>> : d \in declared[s] \cap Sources}
        BY <1>1, <2>1
      <3>2. PICK d \in declared[s] \cap Sources : p = <<s, d>>
        BY <3>1
      <3> QED
        BY <1>1, <3>2 DEF Declared
    <2>2. ASSUME NEW p \in Declared PROVE p \in unions
      <3>1. /\ p = <<p[1], p[2]>> /\ p[1] \in Sources
            /\ p[2] \in declared[p[1]] \cap Sources
        BY DEF Declared
      <3>2. p \in {<<p[1], d>> : d \in declared[p[1]] \cap Sources}
        BY <3>1
      <3> QED
        BY <1>1, <3>1, <3>2
    <2> QED
      BY <2>1, <2>2
  <1>3. FamilyTypeOK
    BY <1>1, <1>2 DEF FamilyTypeOK
  <1>4. IsForest /\ TreesAreTied
    BY <1>1 DEF IsForest, TreesAreTied, Tied
  <1> QED
    BY <1>1, <1>2, <1>3, <1>4
    DEF FamilyInv, ForestInv, FindStays, UnitedAreJoined, VerdictIsComputed

LEMMA JoinedIsEquivalence ==
  ASSUME NEW s, NEW t, NEW u
  PROVE  /\ Joined(s, s) /\ Tied(s, s)
         /\ Joined(s, t) => Joined(t, s)
         /\ Tied(s, t) => Tied(t, s)
         /\ Joined(s, t) /\ Joined(t, u) => Joined(s, u)
         /\ Tied(s, t) /\ Tied(t, u) => Tied(s, u)
  BY DEF Joined, Tied

(* What is declared ties a pair from the start.                            *)
LEMMA DeclaredAreTied ==
  ASSUME NEW p \in Declared PROVE Tied(p[1], p[2])
  BY DEF Declared, Tied, Undivided

LEMMA PairsAreNotEmpty == ASSUME NEW p \in Declared PROVE p # <<>>
  <1>1. p \in Sources \X Sources
    BY DEF Declared
  <1> QED
    BY <1>1

LEMMA BeginUnionStep ==
  ASSUME ForestInv, NEW p \in unions, BeginUnion(p) PROVE ForestInv'
  <1>1. /\ pair = <<>> /\ pair' = p /\ cursor' = p[1] /\ unions' = unions \ {p}
        /\ declared' = declared /\ parent' = parent /\ roots' = roots
    BY DEF BeginUnion
  <1>2. /\ FamilyTypeOK /\ IsForest /\ TreesAreTied /\ UnitedAreJoined
        /\ p \in Declared /\ roots = <<>>
    BY <1>1 DEF ForestInv, FamilyTypeOK, Declared
  <1>3. FamilyTypeOK'
    BY <1>1, <1>2 DEF FamilyTypeOK, Declared
  <1>4. IsForest' /\ TreesAreTied'
    BY <1>1, <1>2 DEF IsForest, ClosedUp, TreesAreTied, Tied, Undivided
  <1>5. FindStays'
    BY <1>1, <1>2 DEF FindStays, Tied, Joined
  <1>6. UnitedAreJoined'
    BY <1>1, <1>2 DEF UnitedAreJoined, Declared, Joined, WholeTrees
  <1> QED
    BY <1>3, <1>4, <1>5, <1>6 DEF ForestInv

(* A find that halves the path leaves every tree whole and every root one. *)
LEMMA ClimbStep == ForestInv /\ Climb => ForestInv'
  <1> SUFFICES ASSUME ForestInv, Climb PROVE ForestInv'
    OBVIOUS
  <1> DEFINE c == cursor
             p == parent[c]
             g == parent[p]
  <1>1. /\ c # Idle /\ p # c /\ parent' = [parent EXCEPT ![c] = g] /\ cursor' = parent'[c]
        /\ declared' = declared /\ unions' = unions /\ pair' = pair /\ roots' = roots
    BY DEF Climb
  <1>2. /\ FamilyTypeOK /\ IsForest /\ TreesAreTied /\ FindStays /\ UnitedAreJoined
        /\ parent \in [Sources -> Sources]
        /\ pair \in Declared /\ c \in Sources
        /\ roots = <<>> \/ (roots \in Seq(Sources) /\ Len(roots) = 1)
    BY <1>1 DEF ForestInv, FamilyTypeOK
  <1>3. /\ p \in Sources /\ g \in Sources /\ cursor' = g
        /\ parent' \in [Sources -> Sources] /\ parent'[c] = g
        /\ \A s \in Sources \ {c} : parent'[s] = parent[s]
    BY <1>1, <1>2
  <1> HIDE DEF c, p, g
  <1>4. FamilyTypeOK'
    BY <1>1, <1>2, <1>3 DEF FamilyTypeOK, Declared
  <1>5. IsForest'
    <2> SUFFICES ASSUME NEW S \in (SUBSET Sources) \ {{}}, \A s \in S : parent'[s] \in S
                 PROVE  \E s \in S : parent'[s] = s
      BY DEF IsForest, ClosedUp
    <2>1. CASE c \notin S
      <3>1. \E s \in S : parent[s] = s
        BY <1>2, <1>3, <2>1 DEF IsForest, ClosedUp
      <3> QED
        BY <1>3, <2>1, <3>1
    <2>2. CASE c \in S
      <3>1. g \in S
        BY <1>3, <2>2
      <3>2. \A s \in S \cup {p} : parent[s] \in S \cup {p}
        BY <1>3, <3>1 DEF c, p, g
      <3>3. PICK s \in S \cup {p} : parent[s] = s
        BY <1>2, <1>3, <3>2 DEF IsForest, ClosedUp
      <3>4. s \in S /\ s # c
        BY <1>1, <3>1, <3>3 DEF p, g
      <3> QED
        BY <1>3, <3>3, <3>4
    <2> QED
      BY <2>1, <2>2
  <1>6. \A C \in SUBSET Sources : WholeTrees(C)' => WholeTrees(C)
    <2> SUFFICES ASSUME NEW C \in SUBSET Sources, \A s \in Sources : s \in C <=> parent'[s] \in C,
                        NEW s \in Sources
                 PROVE  s \in C <=> parent[s] \in C
      BY DEF WholeTrees
    <2>1. c \in C <=> g \in C
      BY <1>2, <1>3
    <2>2. p \in C <=> g \in C
      BY <1>1, <1>3 DEF p, g
    <2> QED
      BY <1>3, <2>1, <2>2 DEF p
  <1>7. \A s, t : (Joined(s, t) => Joined(s, t)') /\ (Tied(s, t) => Tied(s, t)')
    BY <1>1, <1>6 DEF Joined, Tied, Undivided
  <1>8. Tied(c, g)
    <2>1. Tied(c, p) /\ Tied(p, g)
      BY <1>2, <1>3 DEF TreesAreTied, p, g
    <2> QED
      BY <2>1, JoinedIsEquivalence
  <1>9. TreesAreTied'
    <2> SUFFICES ASSUME NEW s \in Sources PROVE Tied(s, parent[s])'
      BY DEF TreesAreTied
    <2>1. Tied(s, parent'[s])
      BY <1>2, <1>3, <1>8 DEF TreesAreTied
    <2> QED
      BY <1>1, <2>1 DEF Tied, Undivided
  <1>10. FindStays'
    <2>1. ASSUME NEW s
          PROVE  /\ Joined(s, cursor) => Joined(s, cursor)'
                 /\ Tied(s, cursor) => Tied(s, cursor)'
      <3>1. \A C \in SUBSET Sources : WholeTrees(C)' => (c \in C <=> cursor' \in C)
        BY <1>2, <1>3 DEF WholeTrees
      <3>2. Tied(cursor, cursor')
        BY <1>3, <1>8 DEF c
      <3> QED
        BY <1>1, <1>6, <3>1, <3>2 DEF Joined, Tied, Undivided, c
    <2>2. CASE roots = <<>>
      BY <1>1, <1>2, <2>1, <2>2 DEF FindStays
    <2>3. CASE roots # <<>>
      <3>1. roots[1] \in Sources
        BY <1>2, <2>3
      <3>2. /\ parent[roots[1]] = roots[1] /\ Tied(pair[1], roots[1]) /\ Joined(pair[1], roots[1])
            /\ Tied(pair[2], cursor) /\ Joined(pair[2], cursor)
        BY <1>2, <2>3, PairsAreNotEmpty DEF FindStays
      <3>3. parent'[roots[1]] = roots[1]
        BY <1>1, <1>3, <3>1, <3>2 DEF p
      <3>4. /\ Tied(pair[1], roots[1])' /\ Joined(pair[1], roots[1])'
            /\ Tied(pair[2], cursor)' /\ Joined(pair[2], cursor)'
        BY <1>1, <1>7, <2>1, <3>2
      <3> QED
        BY <1>1, <2>3, <3>3, <3>4 DEF FindStays
    <2> QED
      BY <2>2, <2>3
  <1>11. UnitedAreJoined'
    BY <1>1, <1>2, <1>7 DEF UnitedAreJoined, Declared
  <1> QED
    BY <1>4, <1>5, <1>9, <1>10, <1>11 DEF ForestInv

(* What a find returns is the root of the tree it climbed; linking one     *)
(* root to another joins what is tied already.                             *)
LEMMA ReachRootStep == ForestInv /\ ReachRoot => ForestInv'
  <1> SUFFICES ASSUME ForestInv, ReachRoot PROVE ForestInv'
    OBVIOUS
  <1>1. /\ cursor # Idle /\ parent[cursor] = cursor
        /\ declared' = declared /\ unions' = unions
    BY DEF ReachRoot
  <1>2. /\ FamilyTypeOK /\ IsForest /\ TreesAreTied /\ FindStays /\ UnitedAreJoined
        /\ parent \in [Sources -> Sources]
        /\ pair \in Declared /\ cursor \in Sources
        /\ roots = <<>> \/ (roots \in Seq(Sources) /\ Len(roots) = 1)
    BY <1>1 DEF ForestInv, FamilyTypeOK
  <1>3. pair # <<>> /\ pair[1] \in Sources /\ pair[2] \in Sources
    BY <1>2, PairsAreNotEmpty DEF Declared
  <1>4. ASSUME roots = <<>> PROVE ForestInv'
    <2>1. /\ roots' = <<cursor>> /\ cursor' = pair[2] /\ pair' = pair /\ parent' = parent
      BY <1>4 DEF ReachRoot
    <2>2. FamilyTypeOK'
      <3>1. roots' \in Seq(Sources) /\ Len(roots') = 1
        BY <1>2, <2>1
      <3> QED
        BY <1>1, <1>2, <1>3, <2>1, <3>1 DEF FamilyTypeOK, Declared
    <2>3. IsForest' /\ TreesAreTied' /\ UnitedAreJoined'
      BY <1>1, <1>2, <2>1 DEF IsForest, ClosedUp, TreesAreTied, UnitedAreJoined, Declared,
                              Tied, Undivided, Joined, WholeTrees
    <2>4. FindStays'
      <3>1. Tied(pair[1], cursor) /\ Joined(pair[1], cursor)
        BY <1>2, <1>3, <1>4 DEF FindStays
      <3>2. roots' # <<>> /\ roots'[1] = cursor
        BY <2>1
      <3> QED
        BY <1>1, <2>1, <3>1, <3>2 DEF FindStays, Tied, Undivided, Joined, WholeTrees
    <2> QED
      BY <2>2, <2>3, <2>4 DEF ForestInv
  <1>5. ASSUME roots # <<>> PROVE ForestInv'
    <2> DEFINE c == cursor
               r == roots[1]
    <2>1. /\ parent' = [parent EXCEPT ![c] = r] /\ roots' = <<>> /\ pair' = <<>>
          /\ cursor' = Idle
      BY <1>5 DEF ReachRoot, RootToLink
    <2>2. /\ r \in Sources /\ c \in Sources /\ parent[r] = r /\ parent[c] = c
          /\ Tied(pair[1], r) /\ Joined(pair[1], r) /\ Tied(pair[2], c) /\ Joined(pair[2], c)
      BY <1>1, <1>2, <1>3, <1>5 DEF FindStays
    <2> HIDE DEF c, r
    <2>3. /\ parent' \in [Sources -> Sources] /\ parent'[c] = r
          /\ \A s \in Sources \ {c} : parent'[s] = parent[s]
      BY <1>2, <2>1, <2>2
    <2>4. FamilyTypeOK'
      BY <1>1, <1>2, <2>1, <2>3 DEF FamilyTypeOK, Declared
    <2>5. IsForest'
      <3> SUFFICES ASSUME NEW S \in (SUBSET Sources) \ {{}}, \A s \in S : parent'[s] \in S
                   PROVE  \E s \in S : parent'[s] = s
        BY DEF IsForest, ClosedUp
      <3>1. \A s \in S : parent[s] \in S
        BY <2>2, <2>3
      <3>2. PICK s \in S : parent[s] = s
        BY <1>2, <3>1 DEF IsForest, ClosedUp
      <3>3. CASE s # c
        BY <2>3, <3>2, <3>3
      <3>4. CASE s = c
        BY <2>2, <2>3, <3>4
      <3> QED
        BY <3>3, <3>4
    <2>6. \A C \in SUBSET Sources : WholeTrees(C)' => WholeTrees(C) /\ (c \in C <=> r \in C)
      BY <2>2, <2>3 DEF WholeTrees
    <2>7. Tied(c, r)
      <3>1. Tied(pair[1], pair[2])
        BY <1>2, DeclaredAreTied
      <3> QED
        BY <2>2, <3>1, JoinedIsEquivalence
    <2>8. TreesAreTied'
      <3> SUFFICES ASSUME NEW s \in Sources PROVE Tied(s, parent[s])'
        BY DEF TreesAreTied
      <3>1. Tied(s, parent'[s])
        BY <1>2, <2>3, <2>7 DEF TreesAreTied
      <3> QED
        BY <1>1, <3>1 DEF Tied, Undivided
    <2>9. UnitedAreJoined'
      <3>1. Declared' = Declared
        BY <1>1 DEF Declared
      <3> SUFFICES ASSUME NEW p \in Declared, p \notin unions PROVE Joined(p[1], p[2])'
        BY <1>1, <3>1 DEF UnitedAreJoined
      <3>2. CASE p = pair
        BY <2>2, <2>6, <3>2 DEF Joined
      <3>3. CASE Joined(p[1], p[2])
        BY <2>6, <3>3 DEF Joined
      <3> QED
        BY <1>2, <3>2, <3>3 DEF UnitedAreJoined
    <2>10. FindStays'
      BY <2>1 DEF FindStays
    <2> QED
      BY <2>4, <2>5, <2>8, <2>9, <2>10 DEF ForestInv
  <1> QED
    BY <1>4, <1>5

(* A verdict is given on families that are final: nothing unites sources   *)
(* after it.                                                               *)
LEMMA VerdictStep == FamilyInv /\ [FamilyNext]_familyVars => VerdictIsComputed'
  <1> SUFFICES ASSUME FamilyInv, [FamilyNext]_familyVars PROVE VerdictIsComputed'
    OBVIOUS
  <1>1. VerdictIsComputed /\ FamilyTypeOK
    BY DEF FamilyInv, ForestInv, VerdictIsComputed
  <1>2. CASE UNCHANGED familyVars
    <2>1. UNCHANGED forestVars /\ verdict' = verdict
      BY <1>2 DEF familyVars
    <2>2. ASSUME NEW S, NEW k, NEW quality, NEW scoped
          PROVE  VerdictOn(S, k, quality, scoped)' = VerdictOn(S, k, quality, scoped)
      BY <2>1 DEF forestVars, VerdictOn, Family, FamiliesOf, FamilyOf, Passed, ClosedUp
    <2>3. Grouped' = Grouped
      BY <2>1 DEF forestVars, Grouped
    <2> QED
      BY <1>1, <2>1, <2>2, <2>3 DEF VerdictIsComputed
  <1>3. ASSUME NEW p \in unions, BeginUnion(p) PROVE VerdictIsComputed'
    BY <1>1, <1>3 DEF BeginUnion, Grouped, VerdictIsComputed
  <1>4. CASE Climb \/ ReachRoot
    <2>1. cursor # Idle /\ verdict' = verdict
      BY <1>4 DEF Climb, ReachRoot
    <2>2. pair \in Declared
      BY <1>1, <2>1 DEF FamilyTypeOK
    <2>3. ~Grouped
      BY <2>2, PairsAreNotEmpty DEF Grouped
    <2> QED
      BY <1>1, <2>1, <2>3 DEF VerdictIsComputed
  <1>5. ASSUME NEW S \in SUBSET Sources, NEW k \in 0..2, NEW quality \in {0, 100},
               NEW scoped \in BOOLEAN, Assess(S, k, quality, scoped)
        PROVE  VerdictIsComputed'
    <2>1. /\ Grouped /\ verdict' = VerdictOn(S, k, quality, scoped) /\ UNCHANGED forestVars
      BY <1>5 DEF Assess
    <2>2. VerdictOn(S, k, quality, scoped)' = VerdictOn(S, k, quality, scoped)
      BY <2>1 DEF forestVars, VerdictOn, Family, FamiliesOf, FamilyOf, Passed, ClosedUp
    <2>3. Grouped'
      BY <2>1 DEF forestVars, Grouped
    <2> QED
      BY <2>1, <2>2, <2>3 DEF VerdictIsComputed
  <1> QED
    BY <1>2, <1>3, <1>4, <1>5 DEF FamilyNext

(* The inductive invariant of independence_families and of the standing    *)
(* computed from its families: it holds in every reachable state.          *)
THEOREM FamilyInductive == FamilySpec => []FamilyInv
  <1>1. FamilyInv /\ [FamilyNext]_familyVars => FamilyInv'
    <2> SUFFICES ASSUME FamilyInv, [FamilyNext]_familyVars PROVE ForestInv'
      BY VerdictStep DEF FamilyInv
    <2>1. ForestInv
      BY DEF FamilyInv
    <2>2. CASE UNCHANGED familyVars \/ \E S, k, q, scoped : Assess(S, k, q, scoped)
      <3>1. UNCHANGED forestVars
        BY <2>2 DEF familyVars, Assess
      <3> QED
        BY <2>1, <3>1 DEF forestVars, ForestInv, FamilyTypeOK, IsForest, ClosedUp, TreesAreTied,
                          FindStays, UnitedAreJoined, Declared, Tied, Undivided, Joined, WholeTrees
    <2>3. CASE \E p \in unions : BeginUnion(p)
      BY <2>1, <2>3, BeginUnionStep
    <2>4. CASE Climb \/ ReachRoot
      BY <2>1, <2>4, ClimbStep, ReachRootStep
    <2> QED
      BY <2>2, <2>3, <2>4 DEF FamilyNext
  <1> QED
    BY <1>1, FamilyInitInv, PTL DEF FamilySpec

(* What find passes from a source on is what it passes from its parent on, *)
(* and the source.                                                         *)
LEMMA PassedOn ==
  ASSUME FamilyTypeOK, NEW s \in Sources
  PROVE  /\ Passed(s, s) /\ Passed(s, parent[s])
         /\ \A t \in Sources : Passed(parent[s], t) => Passed(s, t)
         /\ \A t \in Sources : Passed(s, t) => t = s \/ Passed(parent[s], t)
  <1>1. parent \in [Sources -> Sources]
    BY DEF FamilyTypeOK
  <1>2. Passed(s, s) /\ Passed(s, parent[s])
    BY DEF Passed, ClosedUp
  <1>3. \A t \in Sources : Passed(parent[s], t) => Passed(s, t)
    BY DEF Passed, ClosedUp
  <1>4. ASSUME NEW t \in Sources, Passed(s, t), t # s PROVE Passed(parent[s], t)
    <2> SUFFICES ASSUME NEW S \in SUBSET Sources, parent[s] \in S, t \notin S, ClosedUp(S)
                 PROVE  FALSE
      BY DEF Passed
    <2>1. ClosedUp(S \cup {s})
      BY DEF ClosedUp
    <2> QED
      BY <1>4, <2>1 DEF Passed
  <1> QED
    BY <1>2, <1>3, <1>4

(* Every source has one root.                                              *)
LEMMA OneRoot ==
  ASSUME ForestInv, NEW s \in Sources
  PROVE  /\ FamilyOf(s) \in Sources /\ parent[FamilyOf(s)] = FamilyOf(s)
         /\ Passed(s, FamilyOf(s))
         /\ \A r \in Sources : parent[r] = r /\ Passed(s, r) => r = FamilyOf(s)
  <1>1. FamilyTypeOK /\ IsForest /\ parent \in [Sources -> Sources]
    BY DEF ForestInv, FamilyTypeOK
  <1>2. \E r \in Sources : parent[r] = r /\ Passed(s, r)
    <2> DEFINE P == {t \in Sources : Passed(s, t)}
    <2>1. s \in P
      BY <1>1, PassedOn
    <2>2. ClosedUp(P)
      BY <1>1 DEF ClosedUp, Passed
    <2> QED
      BY <1>1, <2>1, <2>2 DEF IsForest
  <1>3. ASSUME NEW r \in Sources, NEW q \in Sources, parent[r] = r, parent[q] = q,
               Passed(s, r), Passed(s, q)
        PROVE  r = q
    <2> DEFINE X == {y \in Sources : Passed(y, r)}
    <2>1. ClosedUp(X)
      <3> SUFFICES ASSUME NEW y \in Sources, Passed(y, r) PROVE Passed(parent[y], r)
        BY <1>1 DEF ClosedUp
      <3>1. CASE r = y
        BY <1>3, <3>1
      <3>2. CASE r # y
        BY <1>1, <3>2, PassedOn
      <3> QED
        BY <3>1, <3>2
    <2>2. Passed(q, r)
      BY <1>3, <2>1 DEF Passed
    <2>3. ClosedUp({q})
      BY <1>3 DEF ClosedUp
    <2> QED
      BY <2>2, <2>3 DEF Passed
  <1>4. parent[FamilyOf(s)] = FamilyOf(s) /\ Passed(s, FamilyOf(s)) /\ FamilyOf(s) \in Sources
    BY <1>2 DEF FamilyOf
  <1> QED
    BY <1>3, <1>4

(* Joined sources are of one family, and the sources of a family are tied. *)
LEMMA FamilyIsTree ==
  ASSUME ForestInv, NEW s \in Sources, NEW t \in Sources
  PROVE  /\ Joined(s, t) => FamilyOf(s) = FamilyOf(t)
         /\ FamilyOf(s) = FamilyOf(t) => Tied(s, t)
  <1>1. /\ FamilyTypeOK /\ IsForest /\ TreesAreTied /\ parent \in [Sources -> Sources]
    BY DEF ForestInv, FamilyTypeOK
  <1>2. \A y \in Sources : FamilyOf(parent[y]) = FamilyOf(y)
    BY <1>1, OneRoot, PassedOn
  <1>3. ASSUME Joined(s, t) PROVE FamilyOf(s) = FamilyOf(t)
    <2> DEFINE C == {y \in Sources : FamilyOf(y) = FamilyOf(s)}
    <2>1. WholeTrees(C)
      BY <1>1, <1>2 DEF WholeTrees
    <2> QED
      BY <1>3, <2>1 DEF Joined
  <1>4. ASSUME FamilyOf(s) = FamilyOf(t), NEW C \in SUBSET Sources, Undivided(C), s \in C
        PROVE  t \in C
    <2>1. \A y \in Sources : y \in C <=> parent[y] \in C
      BY <1>1, <1>4 DEF TreesAreTied, Tied
    <2>2. ClosedUp(C) /\ ClosedUp(Sources \ C)
      BY <1>1, <2>1 DEF ClosedUp
    <2>3. Passed(s, FamilyOf(s)) /\ Passed(t, FamilyOf(s)) /\ FamilyOf(s) \in Sources
      BY <1>4, OneRoot
    <2>4. FamilyOf(s) \in C
      BY <1>4, <2>2, <2>3 DEF Passed
    <2> QED
      BY <2>2, <2>3, <2>4 DEF Passed
  <1>5. ASSUME FamilyOf(s) = FamilyOf(t), NEW C \in SUBSET Sources, Undivided(C), t \in C
        PROVE  s \in C
    <2>1. \A y \in Sources : y \in C <=> parent[y] \in C
      BY <1>1, <1>5 DEF TreesAreTied, Tied
    <2>2. ClosedUp(C) /\ ClosedUp(Sources \ C)
      BY <1>1, <2>1 DEF ClosedUp
    <2>3. Passed(s, FamilyOf(s)) /\ Passed(t, FamilyOf(s)) /\ FamilyOf(s) \in Sources
      BY <1>5, OneRoot
    <2>4. FamilyOf(s) \in C
      BY <1>5, <2>2, <2>3 DEF Passed
    <2> QED
      BY <2>2, <2>3, <2>4 DEF Passed
  <1> QED
    BY <1>3, <1>4, <1>5 DEF Tied

(* The families are the connected components of the declared dependencies, *)
(* for any sources, however many dependencies are declared, in whatever    *)
(* order the pairs are united.                                             *)
THEOREM FamiliesAreRight == FamilySpec => []FamiliesAreComponents
  <1>1. FamilyInv => FamiliesAreComponents
    <2> SUFFICES ASSUME FamilyInv, Grouped, NEW s \in Sources
                 PROVE  /\ Connected(Family(s))
                        /\ \A t \in Sources : t \in declared[s] => t \in Family(s)
      BY DEF FamiliesAreComponents
    <2>1. /\ ForestInv /\ declared \in [Sources -> SUBSET (Sources \cup Unknown)] /\ pair = <<>>
          /\ \A p \in Declared : Joined(p[1], p[2])
      BY PairsAreNotEmpty DEF FamilyInv, ForestInv, FamilyTypeOK, Grouped, UnitedAreJoined
    <2>2. \A x, y \in Sources : y \in declared[x] => FamilyOf(y) = FamilyOf(x)
      <3> SUFFICES ASSUME NEW x \in Sources, NEW y \in Sources, y \in declared[x]
                   PROVE  FamilyOf(y) = FamilyOf(x)
        OBVIOUS
      <3>1. <<x, y>> \in Declared
        BY DEF Declared
      <3>2. Joined(x, y)
        BY <2>1, <3>1
      <3> QED
        BY <2>1, <3>2, FamilyIsTree
    <2>3. ASSUME NEW T \in (SUBSET Family(s)) \ {{}, Family(s)}
          PROVE  \E x \in T, y \in Family(s) \ T : y \in declared[x] \/ x \in declared[y]
      <3> SUFFICES ASSUME \A x \in T, y \in Family(s) \ T :
                              y \notin declared[x] /\ x \notin declared[y]
                   PROVE  FALSE
        OBVIOUS
      <3>1. Family(s) = {t \in Sources : FamilyOf(t) = FamilyOf(s)}
        BY DEF Family
      <3>2. Undivided(T)
        BY <2>2, <3>1 DEF Undivided
      <3>3. PICK x \in T, y \in Family(s) \ T : TRUE
        BY <2>3
      <3>4. Tied(x, y)
        BY <2>1, <2>3, <3>1, <3>3, FamilyIsTree
      <3> QED
        BY <2>3, <3>1, <3>2, <3>3, <3>4 DEF Tied
    <2>4. \A t \in Sources : t \in declared[s] => t \in Family(s)
      BY <2>2 DEF Family
    <2> QED
      BY <2>3, <2>4 DEF Connected
  <1> QED
    BY <1>1, FamilyInductive, PTL

LEMMA ImageIsFinite ==
  ASSUME NEW S, IsFiniteSet(S), NEW f
  PROVE  IsFiniteSet({f[s] : s \in S})
  <1> DEFINE T == {f[s] : s \in S}
             g == [s \in S |-> f[s]]
  <1>1. g \in Surjection(S, T)
    BY DEF Surjection
  <1> QED
    BY <1>1, FS_Surjection

LEMMA MeanIsBounded ==
  ASSUME NEW n \in Nat \ {0}, NEW M \in Nat, NEW a \in 0..M * n
  PROVE  a \div n \in 0..M
  <1> DEFINE q == a \div n
             r == a % n
  <1>1. a = n * q + r /\ r \in 0..n - 1 /\ q \in Int /\ M * n \in Int
    OBVIOUS
  <1> HIDE DEF q, r
  <1>2. q >= 0
    <2> SUFFICES ASSUME q <= -1 PROVE FALSE
      BY <1>1
    <2>1. n * q <= n * (-1)
      BY <1>1
    <2> QED
      BY <1>1, <2>1
  <1>3. q <= M
    <2> SUFFICES ASSUME q >= M + 1 PROVE FALSE
      BY <1>1
    <2>1. n * q >= n * (M + 1)
      BY <1>1
    <2>2. n * (M + 1) = M * n + n
      OBVIOUS
    <2> QED
      BY <1>1, <2>1, <2>2
  <1> QED
    BY <1>1, <1>2, <1>3 DEF q

LEMMA MeanOfEdges ==
  ASSUME NEW S, IsFiniteSet(S), S # {}, NEW M \in Nat, NEW v \in [S -> 0..M]
  PROVE  SumOver(v, S) \div Cardinality(S) \in 0..M
  <1>1. SumOver(v, S) \in 0..M * Cardinality(S)
    BY SumIsBounded
  <1>2. Cardinality(S) \in Nat /\ Cardinality(S) # 0
    <2>1. Cardinality(S) \in Nat
      BY FS_CardinalityType
    <2>2. Cardinality(S) # 0
      BY FS_EmptySet, Zenon
    <2> QED
      BY <2>1, <2>2
  <1> QED
    BY <1>1, <1>2, MeanIsBounded

LEMMA PartsOfScore ==
  ASSUME NEW a \in {0, 10800}, NEW i \in Nat, i <= 7200, NEW q \in Nat, q <= 3600,
         NEW c \in Nat, c <= 3600, NEW n \in 0..3
  PROVE  /\ a + i + q + c + 1800 * n + 1800 + 900 \in Nat
         /\ a + i + q + c + 1800 * n + 1800 + 900 <= 27900 + 1800 * n
  OBVIOUS

LEMMA SmallProduct ==
  ASSUME NEW total \in Nat, NEW p \in 0..2
  PROVE  /\ total * p \in Int
         /\ total <= 33300 => total * p < 75600
         /\ p <= 1 => total * p <= total
  <1>1. p = 0 \/ p = 1 \/ p = 2
    OBVIOUS
  <1> QED
    BY <1>1

IsEdge(e) ==
    /\ e.family \in Nat \ {0} /\ e.scoped \in BOOLEAN
    /\ e.quality \in Nat /\ e.quality <= 100

HasBoundedScore(edges, families, contradicting) ==
    \E total \in Nat :
        /\ total <= 27900 + 1800 * AtMost(3, families)
        /\ Score(edges, families, contradicting) = total * Penalty(contradicting)

(* The parts of a score are bounded, however many edges there are.         *)
LEMMA ScoreIsBounded ==
  ASSUME NEW edges, IsFiniteSet(edges), NEW families \in Nat, NEW contradicting \in Nat,
         \A e \in edges : IsEdge(e)
  PROVE  HasBoundedScore(edges, families, contradicting)
  <1> DEFINE independence == [e \in edges |-> 7200 \div e.family]
             quality == [e \in edges |-> 36 * e.quality]
             scope == [e \in edges |-> IF e.scoped THEN 3600 ELSE 0]
             mean(v) == IF edges = {} THEN 0 ELSE SumOver(v, edges) \div Cardinality(edges)
  <1>1. PICK M \in Nat, N \in Nat : M = 7200 /\ N = 3600
    OBVIOUS
  <1>2. ASSUME NEW e \in edges
        PROVE  /\ 7200 \div e.family \in 0..M /\ 36 * e.quality \in 0..N
               /\ (IF e.scoped THEN 3600 ELSE 0) \in 0..N
    <2> DEFINE size == e.family
    <2>1. size \in Nat \ {0} /\ e.quality \in Nat /\ e.quality <= 100
      BY DEF IsEdge
    <2> HIDE DEF size
    <2>2. M \in 0..M * size
      <3>1. M * size >= M * 1 /\ M * size \in Int
        BY <2>1
      <3> QED
        BY <3>1
    <2>3. M \div size \in 0..M
      BY <2>1, <2>2, MeanIsBounded
    <2>4. 36 * e.quality \in 0..N
      BY <1>1, <2>1
    <2>5. (IF e.scoped THEN 3600 ELSE 0) \in 0..N
      BY <1>1
    <2>6. 7200 \div size \in 0..M
      BY <1>1, <2>3
    <2>7. 7200 \div e.family \in 0..M
      BY <2>6 DEF size
    <2> QED
      BY <2>4, <2>5, <2>7
  <1>3. independence \in [edges -> 0..M] /\ quality \in [edges -> 0..N] /\ scope \in [edges -> 0..N]
    <2>1. independence \in [edges -> 0..M]
      BY <1>2
    <2>2. quality \in [edges -> 0..N]
      BY <1>2
    <2>3. scope \in [edges -> 0..N]
      BY <1>2
    <2> QED
      BY <2>1, <2>2, <2>3
  <1> HIDE DEF independence, quality, scope
  <1>4. ASSUME NEW B \in Nat, NEW v \in [edges -> 0..B] PROVE mean(v) \in 0..B
    BY MeanOfEdges
  <1> HIDE DEF mean
  <1>5. mean(independence) \in 0..M /\ mean(quality) \in 0..N /\ mean(scope) \in 0..N
    BY <1>3, <1>4
  <1>6. PICK a \in {0, 10800}, n \in 0..3 :
           /\ n = AtMost(3, families)
           /\ a = IF edges = {} THEN 0 ELSE 7200 + 3600
    BY DEF AtMost
  <1>7. Score(edges, families, contradicting) =
          (a + mean(independence) + mean(quality) + mean(scope) + 1800 * n + 1800 + 900)
             * Penalty(contradicting)
    BY <1>6 DEF Score, independence, quality, scope, mean
  <1> DEFINE i == mean(independence)
             q == mean(quality)
             c == mean(scope)
             total == a + i + q + c + 1800 * n + 1800 + 900
  <1>8. i \in Nat /\ i <= M /\ q \in Nat /\ q <= N /\ c \in Nat /\ c <= N
    BY <1>5
  <1> HIDE DEF i, q, c
  <1>9. i <= 7200 /\ q <= 3600 /\ c <= 3600
    BY <1>1, <1>8
  <1>10. total \in Nat /\ total <= 27900 + 1800 * n
    BY <1>8, <1>9, PartsOfScore
  <1>11. Score(edges, families, contradicting) = total * Penalty(contradicting)
    BY <1>7 DEF i, q, c
  <1> HIDE DEF total
  <1> QED
    BY <1>6, <1>10, <1>11 DEF HasBoundedScore

(* Evidence that is contradicted even once stays below the score of what   *)
(* is supported.                                                           *)
LEMMA ContradictedIsNotSupported ==
  ASSUME NEW edges, IsFiniteSet(edges), NEW families \in Nat, NEW contradicting \in Nat,
         contradicting > 0,
         \A e \in edges : IsEdge(e)
  PROVE  Standing(edges, families, contradicting) # "supported"
  <1> HasBoundedScore(edges, families, contradicting)
    BY ScoreIsBounded
  <1>1. PICK total \in Nat :
           /\ total <= 27900 + 1800 * AtMost(3, families)
           /\ Score(edges, families, contradicting) = total * Penalty(contradicting)
    BY DEF HasBoundedScore
  <1>2. AtMost(3, families) \in 0..3 /\ Penalty(contradicting) \in 0..2
    BY DEF AtMost, Penalty
  <1>3. Score(edges, families, contradicting) \in Int /\ Score(edges, families, contradicting) < 75600
    BY <1>1, <1>2, SmallProduct
  <1> QED
    BY <1>3 DEF Standing

(* One source, whatever it says, does not stand against two pieces of      *)
(* evidence.                                                               *)
LEMMA ContradictedTwice ==
  ASSUME NEW edges, IsFiniteSet(edges), NEW families \in Nat, families <= 1,
         NEW contradicting \in Nat, contradicting >= 2,
         \A e \in edges : IsEdge(e)
  PROVE  Standing(edges, families, contradicting) \in {"contradicted", "unresolved"}
  <1> HasBoundedScore(edges, families, contradicting)
    BY ScoreIsBounded
  <1>1. PICK total \in Nat :
           /\ total <= 27900 + 1800 * AtMost(3, families)
           /\ Score(edges, families, contradicting) = total * Penalty(contradicting)
    BY DEF HasBoundedScore
  <1>2. AtMost(3, families) \in 0..1 /\ Penalty(contradicting) \in 0..1
    BY DEF AtMost, Penalty
  <1>3. Score(edges, families, contradicting) \in Int /\ Score(edges, families, contradicting) < 32400
    BY <1>1, <1>2, SmallProduct
  <1> QED
    BY <1>3 DEF Standing

LEMMA NoEvidence == Standing({}, 0, 0) = "unresolved"
  <1>1. Score({}, 0, 0) = 8100
    BY DEF Score, AtMost, Penalty
  <1> QED
    BY <1>1 DEF Standing

(* What is supported rests on two families.                                *)
LEMMA SupportedHasFamilies ==
  ASSUME NEW edges, NEW families, NEW contradicting,
         Standing(edges, families, contradicting) = "supported"
  PROVE  families >= 2
  BY DEF Standing

(* No group of sources that depend on each other makes a claim supported   *)
(* alone, nor does any number of them one that evidence contradicts.       *)
THEOREM SupportIsFromFamilies == FamilySpec => []SupportIsIndependent
  <1>1. FamilyInv => SupportIsIndependent
    <2> SUFFICES ASSUME FamilyInv, verdict.standing = "supported"
                 PROVE  /\ \E s, t \in verdict.supporting : t \notin Family(s)
                        /\ verdict.contradicting = 0
      BY DEF SupportIsIndependent
    <2>1. PICK S \in SUBSET Sources, k \in 0..2, quality \in {0, 100}, scoped \in BOOLEAN :
             verdict = VerdictOn(S, k, quality, scoped)
      BY DEF FamilyInv, VerdictIsComputed, Unjudged
    <2> DEFINE edges == {[source |-> s, family |-> Cardinality(Family(s)),
                            quality |-> quality, scoped |-> scoped] : s \in S}
    <2>2. /\ verdict.supporting = S /\ verdict.contradicting = k
          /\ Standing(edges, FamiliesOf(S), k) = "supported"
      BY <2>1 DEF VerdictOn
    <2>3. IsFiniteSet(S) /\ FamilyTypeOK
      BY SourcesAssumption, FS_Subset DEF FamilyInv, ForestInv
    <2>4. FamiliesOf(S) >= 2
      BY <2>2, SupportedHasFamilies
    <2>5. \E s, t \in S : t \notin Family(s)
      <3> SUFFICES ASSUME \A s, t \in S : FamilyOf(t) = FamilyOf(s) PROVE FALSE
        BY DEF Family
      <3> DEFINE R == {FamilyOf(s) : s \in S}
      <3>1. CASE S = {}
        <4>1. R = {}
          BY <3>1
        <4>2. Cardinality({}) = 0
          BY FS_EmptySet, Zenon
        <4> QED
          BY <2>4, <4>1, <4>2 DEF FamiliesOf
      <3>2. CASE S # {}
        <4>1. PICK s \in S : TRUE
          BY <3>2
        <4>2. R = {FamilyOf(s)}
          BY <4>1
        <4>3. Cardinality({FamilyOf(s)}) = 1
          BY FS_Singleton, Zenon
        <4> QED
          BY <2>4, <4>2, <4>3 DEF FamiliesOf
      <3> QED
        BY <3>1, <3>2
    <2>6. k = 0
      <3> SUFFICES ASSUME k > 0 PROVE FALSE
        BY <2>1
      <3>1. ASSUME NEW s \in S PROVE Cardinality(Family(s)) \in Nat \ {0}
        <4>1. s \in Family(s) /\ Family(s) \subseteq Sources
          BY DEF Family
        <4>2. IsFiniteSet(Family(s))
          BY <4>1, SourcesAssumption, FS_Subset
        <4>3. Cardinality(Family(s)) \in Nat
          BY <4>2, FS_CardinalityType
        <4>4. Cardinality(Family(s)) # 0
          BY <4>1, <4>2, FS_EmptySet, Zenon
        <4> QED
          BY <4>3, <4>4
      <3>2. IsFiniteSet(edges)
        <4> DEFINE edge == [s \in S |-> [source |-> s, family |-> Cardinality(Family(s)),
                                        quality |-> quality, scoped |-> scoped]]
        <4>1. edges = {edge[s] : s \in S}
          OBVIOUS
        <4> HIDE DEF edge, edges
        <4> QED
          BY <2>3, <4>1, ImageIsFinite
      <3>3. FamiliesOf(S) \in Nat
        <4> DEFINE root == [s \in S |-> FamilyOf(s)]
        <4>1. {root[s] : s \in S} = {FamilyOf(s) : s \in S}
          OBVIOUS
        <4> HIDE DEF root
        <4>2. IsFiniteSet({root[s] : s \in S})
          BY <2>3, ImageIsFinite
        <4> QED
          BY <4>1, <4>2, FS_CardinalityType DEF FamiliesOf
      <3>4. \A e \in edges : IsEdge(e)
        BY <2>1, <3>1 DEF IsEdge
      <3> HIDE DEF edges
      <3> QED
        BY <2>1, <2>2, <3>2, <3>3, <3>4, ContradictedIsNotSupported
    <2> QED
      BY <2>2, <2>5, <2>6
  <1> QED
    BY <1>1, FamilyInductive, PTL

-----------------------------------------------------------------------------
(* Findings.                                                               *)

(* What is computed from the corpus and the claims stays while they do.    *)
LEMMA SameInputs ==
  ASSUME UNCHANGED <<corpus, window>>
  PROVE  /\ Statable' = Statable
         /\ claims' = claims =>
               \A c : /\ CounterEdges(c)' = CounterEdges(c) /\ RivalsOf(c)' = RivalsOf(c)
                      /\ \A edges, others : Judged(c, edges, others)' = Judged(c, edges, others)
  <1>1. Statable' = Statable
    BY DEF Statable, SourcesOf, Canonical, Documents
  <1>2. \A c : CounterEdges(c)' = CounterEdges(c)
    BY DEF CounterEdges, Hits, Documents
  <1>3. ASSUME NEW c, claims' = claims PROVE RivalsOf(c)' = RivalsOf(c)
    BY <1>3 DEF RivalsOf
  <1>4. ASSUME NEW c, NEW edges, NEW others
        PROVE  Judged(c, edges, others)' = Judged(c, edges, others)
    BY DEF Judged, Supports, Span, InWindow, WindowText, Refutes
  <1> QED
    BY <1>1, <1>2, <1>3, <1>4

LEMMA FindingsStep == FindingsInv /\ [FindingsNext]_findingsVars => FindingsInv'
  <1> SUFFICES ASSUME FindingsInv, [FindingsNext]_findingsVars PROVE FindingsInv'
    OBVIOUS
  <1> USE DEF evidence, product, Handling, Assessed
  <1>1. CASE Retrieve
    BY <1>1 DEF Retrieve, FindingsInv
  <1>2. CASE ExtractClaims
    BY <1>2, SameInputs DEF ExtractClaims, FindingsInv
  <1>3. CASE ComputeStandings
    <2>1. /\ phase = "assessing" /\ phase' = "checking" /\ UNCHANGED <<corpus, window, claims>>
          /\ counter' = [c \in claims |-> CounterEdges(c)]
          /\ rivals' = [c \in claims |-> RivalsOf(c)]
          /\ standings' = [c \in claims |-> Judged(c, counter'[c], rivals'[c])]
      BY <1>3 DEF ComputeStandings
    <2>2. standings' = [c \in claims |-> Judged(c, CounterEdges(c), RivalsOf(c))]
      BY <2>1
    <2>3. claims = Statable /\ Statable' = Statable
      BY <2>1, SameInputs DEF FindingsInv
    <2>4. /\ counter' = [c \in claims |-> CounterEdges(c)]'
          /\ rivals' = [c \in claims |-> RivalsOf(c)]'
          /\ standings' = [c \in claims |-> Judged(c, CounterEdges(c), RivalsOf(c))]'
      BY <2>1, <2>2, SameInputs
    <2> QED
      BY <2>1, <2>3, <2>4 DEF FindingsInv
  <1>4. ASSUME UNCHANGED <<corpus, window, evidence>>, phase' \in Handling,
               phase \in {"retrieving", "extracting"} <=> phase' \in {"retrieving", "extracting"},
               Assessed <=> Assessed',
               phase' \in {"gating", "passed", "blocked"} => sections' = Body \cup Disclosure,
               phase' = "blocked" => /\ sections' = sections
                                     /\ AssertingTransition \/ Omitted # {} \/ NotEntailed # {}
        PROVE  FindingsInv'
    <2>1. /\ Statable' = Statable
          /\ \A c : /\ CounterEdges(c)' = CounterEdges(c) /\ RivalsOf(c)' = RivalsOf(c)
                    /\ \A edges, others : Judged(c, edges, others)' = Judged(c, edges, others)
      BY <1>4, SameInputs
    <2>2. /\ phase' \in Handling
          /\ (corpus \in UNION {[1..n -> Texts] : n \in 0..MaxDocuments})'
          /\ (phase \notin {"retrieving", "extracting"} => claims = Statable)'
      BY <1>4, <2>1 DEF FindingsInv
    <2>3. ASSUME Assessed'
          PROVE  /\ counter' = [c \in claims |-> CounterEdges(c)]'
                 /\ rivals' = [c \in claims |-> RivalsOf(c)]'
                 /\ standings' = [c \in claims |-> Judged(c, CounterEdges(c), RivalsOf(c))]'
      <3>1. Assessed
        BY <1>4, <2>3
      <3> QED
        BY <1>4, <2>1, <3>1 DEF FindingsInv
    <2>4. Body' = Body /\ Disclosure' = Disclosure /\ NotEntailed' = NotEntailed
      BY <1>4 DEF Body, OnlyElected, Elected, Covered, Disclosure, NotEntailed, Span, InWindow,
                  WindowText
    <2>5. (phase = "blocked" => AssertingTransition \/ Omitted # {} \/ NotEntailed # {})'
      BY <1>4, <2>4 DEF AssertingTransition, Omitted
    <2>6. (phase \in {"gating", "passed", "blocked"} => sections = Body \cup Disclosure)'
      BY <1>4, <2>4
    <2> QED
      BY <2>2, <2>3, <2>5, <2>6 DEF FindingsInv
  <1>5. CASE CheckCheckpoint \/ Verify
    BY <1>4, <1>5 DEF CheckCheckpoint, Verify
  <1>6. CASE WriteReport
    BY <1>4, <1>6 DEF WriteReport
  <1>7. CASE Gate
    BY <1>4, <1>7 DEF Gate, FindingsInv
  <1>8. CASE UNCHANGED findingsVars
    BY <1>4, <1>8 DEF findingsVars, FindingsInv
  <1> QED
    BY <1>1, <1>2, <1>3, <1>5, <1>6, <1>7, <1>8 DEF FindingsNext

(* The inductive invariant of the run from documents to the gate: what a   *)
(* handler of the runner wrote stays what its inputs make it.              *)
THEOREM FindingsInductive == FindingsSpec => []FindingsInv
  <1>1. FindingsInit => FindingsInv
    BY DEF FindingsInit, FindingsInv, Handling, Assessed
  <1> QED
    BY <1>1, FindingsStep, PTL DEF FindingsSpec

LEMMA LeastNatural ==
  ASSUME NEW S \in SUBSET Nat, S # {} PROVE \E m \in S : \A n \in S : m <= n
  <1> DEFINE R == {ss \in Nat \X Nat : ss[1] < ss[2]}
  <1>1. IsWellFoundedOn(R, Nat)
    BY NatLessThanWellFounded DEF OpToRel
  <1>2. \A m, n \in Nat : m <= n <=> <<n, m>> \notin R
    OBVIOUS
  <1> HIDE DEF R
  <1>3. PICK m \in S : \A n \in S : <<n, m>> \notin R
    BY <1>1, WFMin
  <1> QED
    BY <1>2, <1>3

LEMMA DocumentsAreFinite ==
  ASSUME FindingsInv
  PROVE  /\ IsFiniteSet(Documents) /\ Documents \subseteq Nat
         /\ \A d \in Documents : /\ corpus[d] \in Texts /\ IsFiniteSet(DOMAIN corpus[d])
                                 /\ corpus[d] \in Seq(Range(corpus[d]))
                                 /\ \A i \in DOMAIN corpus[d] : corpus[d][i] \in Range(corpus[d])
  <1>1. PICK n \in 0..MaxDocuments : corpus \in [1..n -> Texts]
    BY DEF FindingsInv
  <1>2. n \in Nat
    BY <1>1, FindingsAssumption
  <1>3. IsFiniteSet(Documents) /\ Documents \subseteq Nat
    BY <1>1, <1>2, FS_Interval DEF Documents
  <1>4. ASSUME NEW d \in Documents
        PROVE  /\ corpus[d] \in Texts /\ corpus[d] \in Seq(Range(corpus[d]))
               /\ IsFiniteSet(DOMAIN corpus[d])
               /\ \A i \in DOMAIN corpus[d] : corpus[d][i] \in Range(corpus[d])
    <2>1. corpus[d] \in Texts
      BY <1>1, <1>4 DEF Documents
    <2>2. corpus[d] \in Seq(Range(corpus[d]))
      BY <2>1, FindingsAssumption
    <2> DEFINE text == corpus[d]
    <2>3. DOMAIN text = 1..Len(text) /\ Len(text) \in Nat
      <3> HIDE DEF text
      <3> SUFFICES ASSUME NEW A, text \in Seq(A)
                   PROVE  DOMAIN text = 1..Len(text) /\ Len(text) \in Nat
        BY <2>2 DEF text
      <3> QED
        OBVIOUS
    <2>4. IsFiniteSet(DOMAIN corpus[d])
      BY <2>3, FS_Interval
    <2>5. \A i \in DOMAIN corpus[d] : corpus[d][i] \in Range(corpus[d])
      BY DEF Range
    <2> QED
      BY <2>1, <2>2, <2>4, <2>5
  <1> QED
    BY <1>3, <1>4

LEMMA CanonicalIsDocument ==
  ASSUME FindingsInv, NEW d \in Documents PROVE Canonical(d) \in Documents
  <1> DEFINE S == {e \in Documents : corpus[e] = corpus[d]}
  <1>1. \E m \in S : \A n \in S : m <= n
    <2>1. S \in SUBSET Nat /\ S # {}
      BY DocumentsAreFinite
    <2> HIDE DEF S
    <2> QED
      BY <2>1, LeastNatural
  <1> QED
    BY <1>1 DEF Canonical

(* A claim says what a sentence of its source says.                        *)
LEMMA ClaimsAreSentences ==
  ASSUME FindingsInv, Assessed, NEW c \in claims
  PROVE  /\ c.source \in Documents
         /\ \E i \in DOMAIN corpus[c.source] : c.says = corpus[c.source][i]
         /\ IsFiniteSet(c.says.numbers) /\ c.says.denies \in BOOLEAN
  <1>1. claims = Statable
    BY DEF FindingsInv, Assessed
  <1>2. PICK s \in SourcesOf :
           c \in {[source |-> s, says |-> corpus[s][i]] : i \in DOMAIN corpus[s]}
    BY <1>1 DEF Statable
  <1>3. PICK i \in DOMAIN corpus[s] : c = [source |-> s, says |-> corpus[s][i]]
    BY <1>2
  <1>4. s \in Documents
    BY <1>2, CanonicalIsDocument DEF SourcesOf
  <1>5. IsFiniteSet(corpus[s][i].numbers) /\ corpus[s][i].denies \in BOOLEAN
    <2>1. corpus[s][i] \in Range(corpus[s]) /\ corpus[s] \in Texts
      BY <1>3, <1>4, DocumentsAreFinite
    <2> QED
      BY <2>1, FindingsAssumption
  <1> QED
    BY <1>3, <1>4, <1>5

LEMMA ClaimsAreFinite ==
  ASSUME FindingsInv, Assessed PROVE IsFiniteSet(claims)
  <1> DEFINE said(s) == {[source |-> s, says |-> corpus[s][i]] : i \in DOMAIN corpus[s]}
             all == [s \in SourcesOf |-> said(s)]
  <1>1. claims = UNION {all[s] : s \in SourcesOf}
    BY DEF FindingsInv, Assessed, Statable
  <1>2. IsFiniteSet(SourcesOf)
    <2>1. SourcesOf \subseteq Documents
      BY CanonicalIsDocument DEF SourcesOf
    <2> QED
      BY <2>1, DocumentsAreFinite, FS_Subset
  <1>3. ASSUME NEW s \in SourcesOf PROVE IsFiniteSet(all[s])
    <2>1. IsFiniteSet(DOMAIN corpus[s])
      BY CanonicalIsDocument, DocumentsAreFinite DEF SourcesOf
    <2> DEFINE one == [i \in DOMAIN corpus[s] |-> [source |-> s, says |-> corpus[s][i]]]
               I == DOMAIN corpus[s]
    <2>2. all[s] = {one[i] : i \in I}
      OBVIOUS
    <2> HIDE DEF one, all
    <2>3. IsFiniteSet({one[i] : i \in I})
      <3>1. IsFiniteSet(I)
        BY <2>1
      <3> HIDE DEF I
      <3> QED
        BY <3>1, ImageIsFinite
    <2> QED
      BY <2>2, <2>3
  <1> HIDE DEF all
  <1>4. IsFiniteSet({all[s] : s \in SourcesOf})
    BY <1>2, ImageIsFinite
  <1> QED
    BY <1>1, <1>3, <1>4, FS_UNION

LEMMA CounterIsFinite ==
  ASSUME FindingsInv, NEW c PROVE IsFiniteSet(CounterEdges(c))
  <1> DEFINE A == UNION {DOMAIN corpus[d] : d \in Documents}
             P == Hits(c) \X A
             edge == [p \in P |-> [document |-> p[1], at |-> p[2]]]
             domain == [d \in Documents |-> DOMAIN corpus[d]]
  <1>1. IsFiniteSet(A)
    <2>1. A = UNION {domain[d] : d \in Documents}
      OBVIOUS
    <2>2. \A d \in Documents : IsFiniteSet(domain[d])
      BY DocumentsAreFinite
    <2> HIDE DEF A, domain
    <2>3. IsFiniteSet({domain[d] : d \in Documents})
      BY DocumentsAreFinite, ImageIsFinite
    <2> QED
      BY <2>1, <2>2, <2>3, FS_UNION
  <1>2. IsFiniteSet(Hits(c))
    <2>1. Hits(c) \in SUBSET Documents
      BY DEF Hits
    <2> QED
      BY <2>1, DocumentsAreFinite, FS_Subset
  <1>3. IsFiniteSet(P)
    <2> HIDE DEF A
    <2> QED
      BY <1>1, <1>2, FS_Product
  <1>4. CounterEdges(c) \subseteq {edge[p] : p \in P}
    <2> SUFFICES ASSUME NEW e \in CounterEdges(c) PROVE e \in {edge[p] : p \in P}
      OBVIOUS
    <2>1. e.document \in Hits(c) /\ e.at \in A /\ e = [document |-> e.document, at |-> e.at]
      BY DEF CounterEdges
    <2> HIDE DEF A
    <2>2. <<e.document, e.at>> \in P /\ e = edge[<<e.document, e.at>>]
      BY <2>1
    <2> QED
      BY <2>2
  <1> HIDE DEF edge, P
  <1>5. IsFiniteSet({edge[p] : p \in P})
    BY <1>3, ImageIsFinite
  <1> QED
    BY <1>4, <1>5, FS_Subset

(* What a claim is judged on.                                              *)
LEMMA JudgedOn ==
  ASSUME FindingsInv, Assessed, NEW c \in claims
  PROVE  \E edges : \E families \in 0..1, against \in Nat :
            /\ standings[c] = Standing(edges, families, against)
            /\ IsFiniteSet(edges) /\ \A e \in edges : IsEdge(e)
            /\ ~Supports(c) => edges = {} /\ families = 0
            /\ \A e \in CounterEdges(c), o \in RivalsOf(c) : Refutes(c, e) => against >= 2
  <1> DEFINE edges == IF Supports(c) THEN {[family |-> 1, quality |-> 50, scoped |-> TRUE]} ELSE {}
             refuting == {e \in CounterEdges(c) : Refutes(c, e)}
             others == RivalsOf(c)
             families == Cardinality(edges)
             against == Cardinality(refuting) + Cardinality(others)
  <1>1. standings[c] = Standing(edges, families, against)
    BY DEF FindingsInv, Assessed, Judged
  <1>2. IsFiniteSet(edges) /\ families \in 0..1 /\ (~Supports(c) => families = 0)
    <2>1. CASE Supports(c)
      <3>1. edges = {[family |-> 1, quality |-> 50, scoped |-> TRUE]}
        BY <2>1
      <3> HIDE DEF edges
      <3>2. IsFiniteSet(edges) /\ Cardinality(edges) = 1
        BY <3>1, FS_Singleton, Zenon
      <3> QED
        BY <2>1, <3>2
    <2>2. CASE ~Supports(c)
      <3>1. edges = {}
        BY <2>2
      <3> HIDE DEF edges
      <3>2. IsFiniteSet(edges) /\ Cardinality(edges) = 0
        BY <3>1, FS_EmptySet, Zenon
      <3> QED
        BY <3>2
    <2> QED
      BY <2>1, <2>2
  <1>3. \A e \in edges : IsEdge(e)
    <2>1. IsEdge([family |-> 1, quality |-> 50, scoped |-> TRUE])
      BY DEF IsEdge
    <2> QED
      BY <2>1
  <1>4. IsFiniteSet(refuting) /\ IsFiniteSet(others)
    <2>1. refuting \in SUBSET CounterEdges(c) /\ others \in SUBSET claims
      BY DEF RivalsOf
    <2> HIDE DEF refuting, others
    <2> QED
      BY <2>1, CounterIsFinite, ClaimsAreFinite, FS_Subset
  <1>5. ASSUME NEW S, IsFiniteSet(S) PROVE Cardinality(S) \in Nat /\ (S # {} => Cardinality(S) >= 1)
    <2>1. Cardinality(S) \in Nat
      BY <1>5, FS_CardinalityType
    <2>2. S # {} => Cardinality(S) # 0
      BY <1>5, FS_EmptySet, Zenon
    <2> QED
      BY <2>1, <2>2
  <1>6. against \in Nat /\ (refuting # {} /\ others # {} => against >= 2)
    <2> HIDE DEF refuting, others
    <2>1. /\ Cardinality(refuting) \in Nat /\ (refuting # {} => Cardinality(refuting) >= 1)
          /\ Cardinality(others) \in Nat /\ (others # {} => Cardinality(others) >= 1)
      BY <1>4, <1>5
    <2> QED
      BY <2>1
  <1>7. \A e \in CounterEdges(c), o \in RivalsOf(c) : Refutes(c, e) => against >= 2
    <2> SUFFICES ASSUME NEW e \in CounterEdges(c), NEW o \in RivalsOf(c), Refutes(c, e)
                 PROVE  against >= 2
      OBVIOUS
    <2>1. e \in refuting /\ o \in others
      OBVIOUS
    <2> HIDE DEF against
    <2> QED
      BY <1>6, <2>1
  <1>8. ~Supports(c) => edges = {}
    OBVIOUS
  <1> HIDE DEF edges, families, against
  <1> QED
    BY <1>1, <1>2, <1>3, <1>6, <1>7, <1>8

(* A claim that the document of a rival contradicts by its numbers is      *)
(* refuted by the rival's sentence.                                        *)
LEMMA RivalRefutes ==
  ASSUME FindingsInv, Assessed, NEW c \in claims, NEW o \in claims, Disagree(c.says, o.says),
         c.source # o.source, NumericDisagreement(c.says, corpus[o.source]),
         Scoped(c.says, <<o.says>>)
  PROVE  \E e \in CounterEdges(c) : Refutes(c, e)
  <1>1. /\ o.source \in Documents /\ IsFiniteSet(c.says.numbers) /\ IsFiniteSet(o.says.numbers)
    BY ClaimsAreSentences
  <1>2. PICK i \in DOMAIN corpus[o.source] : o.says = corpus[o.source][i]
    BY ClaimsAreSentences
  <1>3. o.says \in Range(corpus[o.source])
    BY <1>1, <1>2, DocumentsAreFinite
  <1>4. NumericDisagreement(c.says, <<o.says>>)
    <2>1. o.says.numbers \subseteq NumbersIn(corpus[o.source])
      BY <1>3 DEF NumbersIn
    <2>2. NumbersIn(<<o.says>>) = o.says.numbers
      BY DEF NumbersIn, Range
    <2>3. /\ c.says.numbers # {} /\ c.says.numbers \cap NumbersIn(corpus[o.source]) = {}
          /\ Cardinality(c.says.numbers) = Cardinality(o.says.numbers)
      BY DEF NumericDisagreement, Disagree, SameSubject
    <2>4. o.says.numbers # {}
      BY <1>1, <2>3, FS_EmptySet, Zenon
    <2> QED
      BY <2>1, <2>2, <2>3, <2>4 DEF NumericDisagreement
  <1>5. \E s \in Range(<<o.says>>) : s.about = c.says.about
    BY DEF Range, Disagree, SameSubject
  <1>6. Relation(c.says, <<o.says>>) = "CONTRADICTS"
    BY <1>4, <1>5 DEF Relation
  <1> DEFINE e == [document |-> o.source, at |-> i]
  <1>7. o.source \in Hits(c)
    BY <1>1 DEF Hits
  <1>8. e \in CounterEdges(c)
    BY <1>1, <1>2, <1>6, <1>7 DEF CounterEdges
  <1>9. Refutes(c, e)
    BY <1>2, <1>6 DEF Refutes
  <1> QED
    BY <1>8, <1>9

(* Disagreement is mutual for any corpus, whatever retrieval takes from it. *)
THEOREM RivalsCountBothWays == FindingsSpec => []DisagreementIsMutual
  <1>1. FindingsInv => DisagreementIsMutual
    <2> SUFFICES ASSUME FindingsInv, Assessed, NEW c \in claims, NEW o \in claims,
                        Disagree(c.says, o.says)
                 PROVE  /\ Span(o) \in RivalIds(c)
                        /\ c.source # o.source /\ NumericDisagreement(c.says, corpus[o.source])
                              /\ Scoped(c.says, <<o.says>>) =>
                                 Ranks[standings[c]] < Ranks["weak"]
      BY DEF DisagreementIsMutual, Assessed
    <2>1. o \in RivalsOf(c)
      BY DEF RivalsOf
    <2>2. Span(o) \in RivalIds(c)
      BY <2>1 DEF RivalIds, FindingsInv
    <2>3. ASSUME c.source # o.source, NumericDisagreement(c.says, corpus[o.source]),
                 Scoped(c.says, <<o.says>>)
          PROVE  Ranks[standings[c]] < Ranks["weak"]
      <3>1. PICK e \in CounterEdges(c) : Refutes(c, e)
        BY <2>3, RivalRefutes
      <3>2. PICK edges : \E families \in 0..1, against \in Nat :
               /\ standings[c] = Standing(edges, families, against)
               /\ IsFiniteSet(edges) /\ \A x \in edges : IsEdge(x)
               /\ \A x \in CounterEdges(c), y \in RivalsOf(c) : Refutes(c, x) => against >= 2
        BY JudgedOn
      <3>3. PICK families \in 0..1, against \in Nat :
               standings[c] = Standing(edges, families, against) /\ against >= 2
        BY <2>1, <3>1, <3>2
      <3>4. standings[c] \in {"contradicted", "unresolved"}
        BY <3>2, <3>3, ContradictedTwice
      <3> QED
        BY <3>4 DEF Ranks
    <2> QED
      BY <2>2, <2>3
  <1> QED
    BY <1>1, FindingsInductive, PTL

(* What can block a report that the swarm wrote, for any corpus, themes    *)
(* and councillors.                                                        *)
THEOREM BlocksAreKnown == FindingsSpec => []OnlyKnownBlocks
  <1>1. FindingsInv => OnlyKnownBlocks
    <2> SUFFICES ASSUME FindingsInv, phase = "blocked",
                        \A s \in sections : s.theme \notin Assertive
                 PROVE  \E c \in claims : InWindow(c) /\ standings[c] = "contradicted"
      BY DEF OnlyKnownBlocks
    <2>1. /\ Assessed /\ sections = Body \cup Disclosure
          /\ AssertingTransition \/ Omitted # {} \/ NotEntailed # {}
      BY DEF FindingsInv, Assessed
    <2>2. ~AssertingTransition
      BY DEF AssertingTransition
    <2>3. Omitted = {}
      <3> SUFFICES ASSUME NEW c \in claims
                   PROVE  \E s \in sections : s.theme # OpenClaims /\ c \in s.members
        BY DEF Omitted
      <3>1. \A s \in sections : s.theme # OpenClaims
        BY FindingsAssumption
      <3>2. CASE c \in Covered
        <4>1. PICK w \in Elected : w \in Themes(c)
          BY <3>2 DEF Covered
        <4> DEFINE s == [theme |-> w, members |-> {x \in claims : w \in Themes(x)}]
        <4>2. s \in sections /\ c \in s.members
          BY <2>1, <4>1 DEF Body, OnlyElected
        <4> QED
          BY <3>1, <4>2
      <3>3. CASE c \notin Covered
        <4> DEFINE s == [theme |-> General, members |-> claims \ Covered]
        <4>1. s \in sections /\ c \in s.members
          BY <2>1, <3>3 DEF Body
        <4> QED
          BY <3>1, <4>1
      <3> QED
        BY <3>2, <3>3
    <2>4. PICK c \in claims : standings[c] # "unresolved" /\ Negated(Span(c).text) # c.says.denies
      BY <2>1, <2>2, <2>3 DEF NotEntailed
    <2>5. InWindow(c)
      <3> SUFFICES ASSUME ~InWindow(c) PROVE FALSE
        OBVIOUS
      <3>1. Span(c).text = <<c.says>>
        BY DEF Span
      <3>2. Negated(<<c.says>>) <=> c.says.denies
        BY DEF Negated, Range
      <3>3. c.says.denies \in BOOLEAN /\ Negated(<<c.says>>) \in BOOLEAN
        BY <2>1, ClaimsAreSentences DEF Negated
      <3> QED
        BY <2>4, <3>1, <3>2, <3>3
    <2>6. ~Supports(c)
      BY <2>4 DEF Supports, Relation
    <2>7. PICK against \in Nat : standings[c] = Standing({}, 0, against)
      BY <2>1, <2>6, JudgedOn
    <2>8. against # 0
      BY <2>4, <2>7, NoEvidence
    <2>9. standings[c] = "contradicted"
      BY <2>7, <2>8 DEF Standing
    <2> QED
      BY <2>5, <2>9
  <1> QED
    BY <1>1, FindingsInductive, PTL
=============================================================================
