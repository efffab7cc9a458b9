------------------------------ MODULE PlanGraph ------------------------------
(***************************************************************************)
(* The compilation of a list of tasks (dag.py) and what a patch of the     *)
(* compiled plan invalidates (runtime/plan_revisions.py).                  *)
(*                                                                         *)
(* Lists are sets here: the search takes roots and dependencies, and the   *)
(* layering takes ready tasks, in every order.  The checks of one task by  *)
(* itself come down to whether one has a flaw, and the outputs and inputs  *)
(* are drawn when the code first looks at them.                            *)
(***************************************************************************)
EXTENDS Naturals, FiniteSets, FiniteSetsExt, Sequences, SequencesExt

CONSTANTS
    Names,        \* ids that tasks have and dependencies name
    MaxTasks,     \* bound: tasks of a list
    MaxDeps,      \* bound: dependencies of a list, all together
    MaxReads,     \* bound: inputs that a patched plan reads, all together
    Files,        \* files of the run directory, case folded
    Above,        \* Above[f]: the files whose paths are ancestors of f's
    PlanFile      \* plan.json, which no task writes

ASSUME GraphAssumption ==
    /\ IsFiniteSet(Names)
    /\ Above \in [Files -> SUBSET Files]
    /\ PlanFile \notin Files

VARIABLES
    stage,        \* where the compiler or the patch is
    planned,      \* ids of the tasks of the list
    deps,         \* the dependencies of each
    outputs,      \* the files each writes
    reads,        \* the files each takes as input
    path,         \* the tasks of the search's stack
    finished,     \* tasks the search has painted black
    untried,      \* dependencies each task on the stack has left
    cycle,        \* what _detect_cycle returns
    waveOf, remaining, ready,   \* the variables of assign_waves
    issues,       \* codes of the issues found
    spread,       \* the set a call of descendants has reached
    affected,     \* what the patch invalidates
    changes       \* what the patch invalidates, removes or changes by name

listVars == <<planned, deps>>
searchVars == <<path, finished, untried, cycle>>
layerVars == <<waveOf, remaining, ready>>
fileVars == <<outputs, issues>>
patchVars == <<reads, spread, affected, changes>>
graphVars == <<stage, listVars, searchVars, layerVars, fileVars, patchVars>>

None(S) == [t \in S |-> {}]

Total(lists) == MapThenSumSet(LAMBDA t : Cardinality(lists[t]), DOMAIN lists)

GraphInit ==
    /\ stage = "searching"
    /\ planned \in {S \in SUBSET Names : Cardinality(S) \in 1..MaxTasks}
    /\ deps \in [planned -> SUBSET Names] /\ Total(deps) <= MaxDeps
    /\ outputs = None(planned) /\ reads = None(planned) /\ untried = None(planned)
    /\ path = <<>> /\ finished = {} /\ cycle = <<>>
    /\ waveOf = [t \in planned |-> 0] /\ remaining = waveOf /\ ready = {}
    /\ issues = {} /\ spread = {} /\ affected = {} /\ changes = {}

-----------------------------------------------------------------------------
(* _detect_cycle: the stack holds the grey tasks, in the order of path.    *)

Grey == Range(path)

StartRoot(t) ==
    /\ stage = "searching" /\ path = <<>>
    /\ t \in planned \ finished
    /\ path' = <<t>>
    /\ untried' = [untried EXCEPT ![t] = deps[t]]
    /\ UNCHANGED <<stage, listVars, finished, cycle, layerVars, fileVars, patchVars>>

TryDependency(d) ==
    /\ stage = "searching" /\ path # <<>>
    /\ d \in untried[Last(path)]
    /\ LET rest == [untried EXCEPT ![Last(path)] = @ \ {d}] IN
       IF d \in Grey
       THEN /\ cycle' = SubSeq(path, CHOOSE i \in DOMAIN path : path[i] = d, Len(path)) \o <<d>>
            /\ stage' = "counting"
            /\ UNCHANGED <<path, untried>>
       ELSE /\ IF d \in planned \ (finished \cup Grey)
               THEN path' = Append(path, d) /\ untried' = [rest EXCEPT ![d] = deps[d]]
               ELSE path' = path /\ untried' = rest
            /\ UNCHANGED <<stage, cycle>>
    /\ UNCHANGED <<listVars, finished, layerVars, fileVars, patchVars>>

Backtrack ==
    /\ stage = "searching" /\ path # <<>>
    /\ untried[Last(path)] = {}
    /\ finished' = finished \cup {Last(path)}
    /\ path' = Front(path)
    /\ UNCHANGED <<stage, listVars, untried, cycle, layerVars, fileVars, patchVars>>

EndSearch ==
    /\ stage = "searching" /\ path = <<>>
    /\ finished = planned
    /\ stage' = "counting"
    /\ UNCHANGED <<listVars, searchVars, layerVars, fileVars, patchVars>>

-----------------------------------------------------------------------------
(* assign_waves: dependencies that do not resolve count for nothing, and   *)
(* the tasks of a cycle are never ready and stay in wave 0.                *)

Count ==
    /\ stage = "counting"
    /\ remaining' = [t \in planned |-> Cardinality(deps[t] \cap planned)]
    /\ ready' = {t \in planned : deps[t] \cap planned = {}}
    /\ path' = <<>> /\ finished' = {} /\ untried' = None(planned)
    /\ stage' = "layering"
    /\ UNCHANGED <<listVars, cycle, waveOf, fileVars, patchVars>>

Latest(old, new) == new

AtLeast(old, new) == IF old < new THEN new ELSE old

ChildrenOf(t) == {c \in planned : t \in deps[c]}

Release(t) ==
    /\ stage = "layering"
    /\ t \in ready
    /\ waveOf' = [c \in planned |-> IF c \in ChildrenOf(t) THEN AtLeast(waveOf[c], waveOf[t] + 1)
                                    ELSE waveOf[c]]
    /\ remaining' = [c \in planned |-> IF c \in ChildrenOf(t) THEN remaining[c] - 1
                                       ELSE remaining[c]]
    /\ ready' = (ready \ {t}) \cup {c \in ChildrenOf(t) : remaining[c] = 1}
    /\ UNCHANGED <<stage, listVars, searchVars, fileVars, patchVars>>

-----------------------------------------------------------------------------
(* The checks of compile_dag over the whole list.                          *)

Unresolved == {t \in planned : ~(deps[t] \subseteq planned)}

SameWave == {t \in planned : \E d \in deps[t] \cap planned : waveOf[d] >= waveOf[t]}

SharedOutputs(writes) == {f \in Files : Cardinality({t \in planned : f \in writes[t]}) > 1}

NestedOutputs(writes) ==
    LET written == UNION {writes[t] : t \in planned} IN {f \in written : Above[f] \cap written # {}}

IssuesOf(writes, flawed) ==
    {code \in {"CYCLE", "UNRESOLVED_DEP", "SAME_WAVE_DEP", "DOUBLE_OWNER", "OUTPUT_ANCESTOR",
               "NO_OUTPUTS", "TASK"} :
        CASE code = "CYCLE" -> cycle # <<>>
          [] code = "UNRESOLVED_DEP" -> Unresolved # {}
          [] code = "SAME_WAVE_DEP" -> SameWave # {}
          [] code = "DOUBLE_OWNER" -> SharedOutputs(writes) # {}
          [] code = "OUTPUT_ANCESTOR" -> NestedOutputs(writes) # {}
          [] code = "NO_OUTPUTS" -> \E t \in planned : writes[t] = {}
          [] code = "TASK" -> flawed}

Compile ==
    /\ stage = "layering" /\ ready = {}
    /\ \E writes \in [planned -> {S \in SUBSET Files : Cardinality(S) <= 1}], flawed \in BOOLEAN :
          /\ issues' = IssuesOf(writes, flawed)
          /\ IF issues' = {}
             THEN stage' = "accepted" /\ outputs' = writes
             ELSE stage' = "rejected" /\ UNCHANGED outputs
    /\ UNCHANGED <<listVars, searchVars, layerVars, patchVars>>

-----------------------------------------------------------------------------
(* descendants, which apply_patch calls for what the patch names and again *)
(* for the tasks that read plan.json.  A removed task is still one of the  *)
(* old plan, and the old dependencies of a changed task add nothing, since *)
(* the task itself is named.                                               *)

Dependents(S) == {t \in planned : deps[t] \cap S # {}}

Consumers(S) == {t \in planned : reads[t] \cap UNION {outputs[s] : s \in S} # {}}

More(S) == Dependents(S) \cup Consumers(S)

PlanReaders == {t \in planned : PlanFile \in reads[t]}

PatchCompiled ==
    /\ stage = "accepted"
    /\ reads' \in [planned -> SUBSET (Files \cup {PlanFile})] /\ Total(reads') <= MaxReads
    /\ changes' \in {{}} \cup {{t} : t \in planned}
    /\ spread' = changes'
    /\ stage' = "spreading"
    /\ UNCHANGED <<listVars, searchVars, layerVars, fileVars, affected>>

Spread ==
    /\ stage \in {"spreading", "respreading"}
    /\ ~(More(spread) \subseteq spread)
    /\ spread' = spread \cup More(spread)
    /\ UNCHANGED <<stage, listVars, searchVars, layerVars, fileVars, reads, affected, changes>>

EndSpread ==
    /\ stage \in {"spreading", "respreading"}
    /\ More(spread) \subseteq spread
    /\ affected' = affected \cup spread
    /\ IF stage = "spreading"
       THEN stage' = "respreading" /\ spread' = PlanReaders
       ELSE stage' = "patched" /\ spread' = {}
    /\ UNCHANGED <<listVars, searchVars, layerVars, fileVars, reads, changes>>

-----------------------------------------------------------------------------

GraphNext ==
    \/ \E t \in planned : StartRoot(t) \/ Release(t)
    \/ \E d \in Names : TryDependency(d)
    \/ Backtrack
    \/ EndSearch
    \/ Count
    \/ Compile
    \/ PatchCompiled
    \/ Spread
    \/ EndSpread

GraphSpec == GraphInit /\ [][GraphNext]_graphVars

-----------------------------------------------------------------------------
(* Properties.                                                             *)

Acyclic == \A S \in (SUBSET planned) \ {{}} : \E t \in S : deps[t] \cap S = {}

RealCycle ==
    /\ Len(cycle) > 1 /\ Head(cycle) = Last(cycle)
    /\ \A i \in 1..Len(cycle) - 1 : cycle[i + 1] \in deps[cycle[i]]

(* Every task comes after its dependencies and no later than they require. *)
EarliestWaves ==
    \A t \in planned :
        LET before == deps[t] \cap planned IN
        /\ \A d \in before : waveOf[d] < waveOf[t]
        /\ waveOf[t] > 0 => \E d \in before : waveOf[d] = waveOf[t] - 1

(* No task writes what another writes, or a path above or below it.        *)
OwnOutputs ==
    \A t, u \in planned : t # u =>
        \A f \in outputs[t] : outputs[u] \cap ({f} \cup Above[f]) = {}

(* Whatever order the search and the layering take, every cycle is found,  *)
(* the cycle an issue names is one of the list, a list without cycles has  *)
(* the earliest schedule its dependencies allow, and an accepted plan has  *)
(* no dangling dependency and no output of two tasks.                      *)
CompilerIsExact ==
    /\ cycle # <<>> => RealCycle
    /\ stage \in {"accepted", "rejected"} =>
          /\ "CYCLE" \in issues <=> ~Acyclic
          /\ Acyclic => EarliestWaves
    /\ stage = "accepted" => Acyclic /\ OwnOutputs /\ \A t \in planned : deps[t] \subseteq planned

LeadsTo(s, t) == s \in deps[t] \/ outputs[s] \cap reads[t] # {}

(* A patch invalidates what it names, the readers of the plan, and what    *)
(* they lead to through dependencies and files, and nothing else: a task   *)
(* that keeps its result reads nothing that is made again.                 *)
AffectedIsClosed ==
    stage = "patched" =>
        LET roots == changes \cup PlanReaders
            Closed(S) == roots \subseteq S /\ \A s \in S, t \in planned : LeadsTo(s, t) => t \in S
        IN  Closed(affected) /\ \A S \in SUBSET affected : Closed(S) => S = affected

-----------------------------------------------------------------------------
(* Why they hold.                                                          *)

Patching == {"spreading", "respreading", "patched"}

GraphTypeOK ==
    /\ stage \in {"searching", "counting", "layering", "accepted", "rejected"} \cup Patching
    /\ planned \in SUBSET Names /\ deps \in [planned -> SUBSET Names]
    /\ cycle \in Seq(planned)
    /\ untried \in [planned -> SUBSET Names]
    /\ waveOf \in [planned -> Nat]
    /\ spread \in SUBSET planned /\ affected \in SUBSET planned /\ changes \in SUBSET planned

(* What is finished leads nowhere else, and has no cycle.                  *)
Explored(S) ==
    /\ \A t \in S : deps[t] \cap planned \subseteq S
    /\ \A T \in (SUBSET S) \ {{}} : \E t \in T : deps[t] \cap T = {}

(* The stack is a path along dependencies, and what a task on it has tried *)
(* is finished or comes next on it.                                        *)
StackIsPath ==
    stage = "searching" =>
        /\ cycle = <<>>
        /\ path \in Seq(planned) /\ finished \in SUBSET planned
        /\ Explored(finished)
        /\ \A i, j \in 1..Len(path) : path[i] = path[j] => i = j
        /\ \A i \in 1..Len(path) :
              /\ path[i] \notin finished
              /\ untried[path[i]] \subseteq deps[path[i]]
              /\ i < Len(path) => path[i + 1] \in deps[path[i]]
              /\ \A d \in (deps[path[i]] \cap planned) \ untried[path[i]] :
                    d \in finished \/ (i < Len(path) /\ d = path[i + 1])

SearchIsExact == stage # "searching" => IF cycle = <<>> THEN Acyclic ELSE RealCycle

(* The tasks that have been released: what is ready waits for nothing      *)
(* else, the counts are of what is left, and the waves are the earliest    *)
(* that the released dependencies allow.                                   *)
ReleasedAre(S) ==
    /\ ready = {t \in planned \ S : deps[t] \cap planned \subseteq S}
    /\ remaining = [t \in planned |-> Cardinality((deps[t] \cap planned) \ S)]
    /\ \A t \in S : deps[t] \cap planned \subseteq S
    /\ \A t \in planned :
          /\ \A d \in deps[t] \cap S : waveOf[d] < waveOf[t]
          /\ waveOf[t] > 0 => \E d \in deps[t] \cap S : waveOf[d] = waveOf[t] - 1

WavesAreEarliest ==
    /\ stage \in {"searching", "counting"} => waveOf = [t \in planned |-> 0]
    /\ stage = "layering" => \E S \in SUBSET planned : ReleasedAre(S)

ClosedUnder(S) == \A s \in S, t \in planned : LeadsTo(s, t) => t \in S

Within(S, roots) == \A T \in SUBSET planned : roots \subseteq T /\ ClosedUnder(T) => S \subseteq T

(* A call of descendants reaches nothing that it need not.                 *)
SpreadIsNeeded ==
    /\ stage \notin {"respreading", "patched"} => affected = {}
    /\ stage = "spreading" => changes \subseteq spread /\ Within(spread, changes)
    /\ stage \in {"respreading", "patched"} => ClosedUnder(affected) /\ changes \subseteq affected
    /\ stage = "respreading" =>
          Within(affected, changes) /\ PlanReaders \subseteq spread /\ Within(spread, PlanReaders)
    /\ stage = "patched" => PlanReaders \subseteq affected /\ Within(affected, changes \cup PlanReaders)

(* The inductive invariant.                                                *)
GraphInv ==
    /\ GraphTypeOK /\ StackIsPath /\ SearchIsExact /\ WavesAreEarliest /\ SpreadIsNeeded
    /\ CompilerIsExact
=============================================================================
