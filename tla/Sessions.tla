------------------------------ MODULE Sessions ------------------------------
(***************************************************************************)
(* The session registry and the native hooks: native_hooks.py, hooks.py.   *)
(*                                                                         *)
(* A hook is a process of its own.  It loads the registry file, resolves   *)
(* its session, binds it when exactly one run is active, and answers from  *)
(* what is on disk.  A change of the registry is a transaction over the    *)
(* sessions table that replaces the file before it commits, so that a      *)
(* crash leaves a file that the table does not know.                       *)
(*                                                                         *)
(* Of a plan the hooks ask which of its tasks a native task is; of a task, *)
(* whether its result covers its outputs; of a run, whether it is sealed   *)
(* and whether its bytes are the sealed ones.                              *)
(***************************************************************************)
EXTENDS Naturals, FiniteSets, SequencesExt

CONSTANTS
    SessionIds,    \* sessions of the harness
    NoSession,     \* the session of a payload without session_id
    RunIds,        \* runs under the runs root
    NativeTasks,   \* tasks of the harness
    PlanTasks,     \* tasks of the plans
    Nothing,       \* no entry, no task, no run
    Corrupt,       \* a registry that does not parse
    Hooks,         \* processes: hooks and commands
    HookKinds,     \* the events that are raised
    ToolUses,      \* what tools are asked to do
    MatchOf,       \* the task of a run's plan that a native task is, or Nothing
    MaxStarts      \* bound: processes that start

Bindings == [run : RunIds, binding : {"explicit", "inferred"},
             tasks : Seq([native : NativeTasks, task : PlanTasks])]
Table == [SessionIds -> Bindings \cup {Nothing}]

ASSUME SessionConstants ==
    /\ Nothing \notin SessionIds \cup RunIds \cup PlanTasks
    /\ NoSession \notin SessionIds
    /\ HookKinds \subseteq {"created", "tool", "subagent", "completed", "stop"}
    /\ ToolUses \subseteq {"read", "inside", "sealed", "outside", "traversal"}
    /\ Nothing \notin Bindings /\ Corrupt \notin Table
    /\ MatchOf \in [RunIds -> [NativeTasks -> PlanTasks \cup {Nothing}]]
    /\ MaxStarts \in Nat

VARIABLES
    registry,    \* .research/session-registry.json, or Corrupt
    sessions,    \* the sessions table
    run,         \* the run directories
    hook,        \* the processes
    starts       \* how many have started

sessionVars == <<registry, sessions, run, hook, starts>>

Entry(r, how) == [run |-> r, binding |-> how, tasks |-> <<>>]

Unbound == [s \in SessionIds |-> Nothing]

NoHook == [at |-> "out", kind |-> "none", session |-> NoSession, about |-> Nothing,
           seen |-> Unbound, entry |-> Nothing, target |-> Nothing, answer |-> "none",
           bound |-> FALSE]

SessionInit ==
    /\ registry \in {Unbound, Corrupt}
    /\ sessions = Unbound
    /\ run = [r \in RunIds |-> [stage |-> "none", intact |-> TRUE,
                               result |-> [t \in PlanTasks |-> "none"]]]
    /\ hook = [p \in Hooks |-> NoHook]
    /\ starts = 0

-----------------------------------------------------------------------------
(* The runs, as their kernels leave them on disk.                          *)

WriteResult(r, t, value) ==
    /\ run[r].stage = "active" /\ run[r].result[t] # "valid"
    /\ run' = [run EXCEPT ![r].result[t] = value]
    /\ UNCHANGED <<registry, sessions, hook, starts>>

SealRun(r) ==
    /\ run[r].stage = "active"
    /\ run' = [run EXCEPT ![r].stage = "sealed"]
    /\ UNCHANGED <<registry, sessions, hook, starts>>

ActiveRuns == {r \in RunIds : run[r].stage = "active"}

-----------------------------------------------------------------------------
(* A command with a session id, and a hook.  Both load the registry.       *)

Changed(h, fields) == [x \in DOMAIN h |-> IF x \in DOMAIN fields THEN fields[x] ELSE h[x]]

Start(p, fields) ==
    /\ hook[p].at = "out" /\ starts < MaxStarts
    /\ starts' = starts + 1
    /\ hook' = [hook EXCEPT ![p] = Changed(NoHook, fields)]

(* plan writes the run before it binds it, run and resume find it.         *)
StartCommand(p, s, r) ==
    /\ Start(p, [at |-> "load", kind |-> "command", session |-> s, target |-> r])
    /\ run' = [run EXCEPT ![r].stage = IF @ = "none" THEN "active" ELSE @]
    /\ UNCHANGED <<registry, sessions>>

(* The native task of a subagent is what it works on: no payload says so.  *)
StartHook(p, kind, s, about) ==
    /\ Start(p, [at |-> "load", kind |-> kind, session |-> s, about |-> about,
                 bound |-> s \in SessionIds /\ sessions[s] # Nothing])
    /\ UNCHANGED <<registry, sessions, run>>

Set(p, fields) == hook' = [hook EXCEPT ![p] = Changed(@, fields)]

Answer(p, allowed) ==
    Set(p, [at |-> "answered", answer |-> IF allowed THEN "allow" ELSE "block"])

LoadRegistry(p) ==
    /\ hook[p].at = "load"
    /\ IF registry = Corrupt
       THEN Answer(p, FALSE)
       ELSE LET s == hook[p].session
                entry == IF s = NoSession THEN Nothing ELSE registry[s] IN
            Set(p, [seen |-> registry, entry |-> entry,
                    at |-> IF hook[p].kind = "command" THEN "bind"
                           ELSE IF s = NoSession \/ entry # Nothing THEN "gate" ELSE "list"])
    /\ UNCHANGED <<registry, sessions, run, starts>>

(* resolve_session: a single active run is the session's.                  *)
ListActive(p) ==
    /\ hook[p].at = "list"
    /\ IF Cardinality(ActiveRuns) = 1
       THEN Set(p, [at |-> "bind", target |-> CHOOSE r \in ActiveRuns : TRUE])
       ELSE Set(p, [at |-> "gate"])
    /\ UNCHANGED <<registry, sessions, run, starts>>

-----------------------------------------------------------------------------
(* _mutate_session.                                                        *)

Free == \A p \in Hooks : hook[p].at \notin {"commit bind", "commit map"}

KnownToIt(p) == hook[p].seen

(* What the table has, and of other sessions what the process has loaded.  *)
Known(p) == [s \in SessionIds |-> IF sessions[s] = Nothing THEN hook[p].seen[s] ELSE sessions[s]]

Bound(old, r, how) ==
    IF old # Nothing /\ old.run = r THEN [old EXCEPT !.binding = how] ELSE Entry(r, how)

Mapped(old, n, t) ==
    IF old = Nothing THEN Nothing
    ELSE LET at == SelectInSeq(old.tasks, LAMBDA m : m.native = n)
             m == [native |-> n, task |-> t] IN
         [old EXCEPT !.tasks = IF at = 0 THEN Append(@, m) ELSE [@ EXCEPT ![at] = m]]

(* What the process writes: to the file at once, to the table by a commit. *)
Rows(p) ==
    LET s == hook[p].session
        h == hook[p] IN
    [Known(p) EXCEPT ![s] =
        IF h.at = "bind"
        THEN Bound(@, h.target, IF h.kind = "command" THEN "explicit" ELSE "inferred")
        ELSE Mapped(@, h.about, h.target)]

ReplaceFile(p) ==
    /\ hook[p].at \in {"bind", "map"} /\ Free
    /\ registry' = Rows(p)
    /\ Set(p, [at |-> IF hook[p].at = "bind" THEN "commit bind" ELSE "commit map",
               seen |-> Rows(p)])
    /\ UNCHANGED <<sessions, run, starts>>

CommitSession(p) ==
    /\ hook[p].at \in {"commit bind", "commit map"}
    /\ sessions' = hook[p].seen
    /\ IF hook[p].kind = "command" THEN Set(p, [at |-> "answered"])
       ELSE IF hook[p].at = "commit map" THEN Answer(p, TRUE)
       ELSE Set(p, [at |-> "gate", entry |-> hook[p].seen[hook[p].session]])
    /\ UNCHANGED <<registry, run, starts>>

(* A crash elsewhere leaves nothing behind.                                *)
CrashHook(p) ==
    /\ hook[p].at \in {"commit bind", "commit map"}
    /\ hook' = [hook EXCEPT ![p] = NoHook]
    /\ UNCHANGED <<registry, sessions, run, starts>>

-----------------------------------------------------------------------------
(* The gates, on what is on disk by then.                                  *)

(* The mapping that was recorded, or the match that there is now.          *)
TaskOf(entry, n) ==
    LET at == SelectInSeq(entry.tasks, LAMBDA m : m.native = n) IN
    IF at = 0 THEN MatchOf[entry.run][n] ELSE entry.tasks[at].task

(* The task's own result, or else the only one that there is.              *)
ResultFor(r, t) ==
    LET written == {u \in PlanTasks : run[r].result[u] # "none"} IN
    IF t \in written THEN t
    ELSE IF Cardinality(written) = 1 THEN CHOOSE u \in written : TRUE ELSE Nothing

(* The first mapped task for which there is a result.                      *)
StoppedTask(entry) ==
    LET asked == IF entry.tasks = <<>> THEN <<Nothing>>
                 ELSE [i \in DOMAIN entry.tasks |-> entry.tasks[i].task]
        first == SelectInSeq(asked, LAMBDA t : ResultFor(entry.run, t) # Nothing) IN
    IF first = 0 THEN Nothing ELSE ResultFor(entry.run, asked[first])

(* A command counts as a path outside the run.                             *)
ToolAllowed(entry, use) ==
    CASE use = "traversal" -> FALSE
      [] use = "outside"   -> entry = Nothing
      [] use = "sealed"    -> entry # Nothing => run[entry.run].stage # "sealed"
      [] OTHER -> TRUE

Deliverable(r) == run[r].stage = "sealed" /\ run[r].intact

StopAllowed(entry) ==
    IF entry = Nothing THEN ActiveRuns = {} ELSE Deliverable(entry.run)

(* A task that is not well formed is not in a plan that passed its gate.   *)
GateCreated(p) ==
    LET e == hook[p].entry
        t == IF e = Nothing THEN Nothing ELSE MatchOf[e.run][hook[p].about] IN
    /\ hook[p].kind = "created"
    /\ IF t = Nothing THEN Answer(p, TRUE) ELSE Set(p, [at |-> "map", target |-> t])

GateSubagent(p) ==
    LET e == hook[p].entry
        t == IF e = Nothing THEN Nothing ELSE StoppedTask(e) IN
    /\ hook[p].kind = "subagent"
    /\ Answer(p, e = Nothing \/ (t # Nothing /\ run[e.run].result[t] = "valid"))

GateCompleted(p) ==
    LET e == hook[p].entry
        t == IF e = Nothing THEN Nothing ELSE TaskOf(e, hook[p].about) IN
    /\ hook[p].kind = "completed"
    /\ Answer(p, t # Nothing => ResultFor(e.run, t) = t /\ run[e.run].result[t] = "valid")

Gate(p) ==
    /\ hook[p].at = "gate"
    /\ \/ GateCreated(p)
       \/ GateSubagent(p)
       \/ GateCompleted(p)
       \/ hook[p].kind = "tool" /\ Answer(p, ToolAllowed(hook[p].entry, hook[p].about))
       \/ hook[p].kind = "stop" /\ Answer(p, StopAllowed(hook[p].entry))
    /\ UNCHANGED <<registry, sessions, run, starts>>

(* The tool runs after its hook, whatever was sealed since.                *)
EndHook(p) ==
    /\ hook[p].at = "answered"
    /\ hook' = [hook EXCEPT ![p] = NoHook]
    /\ LET h == hook[p]
           spoils == /\ h.kind = "tool" /\ h.about = "sealed" /\ h.answer = "allow"
                     /\ h.entry # Nothing /\ run[h.entry.run].stage = "sealed" IN
       run' = IF spoils THEN [run EXCEPT ![h.entry.run].intact = FALSE] ELSE run
    /\ UNCHANGED <<registry, sessions, starts>>

SessionNext ==
    \/ \E r \in RunIds : SealRun(r)
    \/ \E r \in RunIds, t \in PlanTasks, v \in {"invalid", "valid"} : WriteResult(r, t, v)
    \/ \E p \in Hooks :
        \/ \E s \in SessionIds, r \in RunIds : StartCommand(p, s, r)
        \/ \E k \in HookKinds, s \in SessionIds \cup {NoSession} :
            \/ k \in {"created", "subagent", "completed"}
               /\ \E n \in NativeTasks : StartHook(p, k, s, n)
            \/ k = "tool" /\ \E use \in ToolUses : StartHook(p, k, s, use)
            \/ k = "stop" /\ StartHook(p, k, s, Nothing)
        \/ LoadRegistry(p) \/ ListActive(p)
        \/ ReplaceFile(p) \/ CommitSession(p) \/ CrashHook(p)
        \/ Gate(p) \/ EndHook(p)

SessionSpec == SessionInit /\ [][SessionNext]_sessionVars

-----------------------------------------------------------------------------
(* A session whose binding is committed is gated by a run: no hook of it   *)
(* that starts after the commit is answered as that of an unbound session, *)
(* whichever processes write the registry from older copies of it or die   *)
(* between the file and the table.                                         *)
BoundIsGated ==
    \A p \in Hooks :
        hook[p].bound /\ hook[p].at \in {"list", "bind", "gate", "map", "answered"} =>
            hook[p].entry # Nothing \/ registry = Corrupt

(* Why it holds: a process acts for a session of its own; whoever replaces *)
(* the file is alone until it commits what it wrote; and nobody writes a   *)
(* session out that the table has.                                         *)
Writing(p) == hook[p].at \in {"commit bind", "commit map"}

ProcessTypeOK ==
    /\ registry \in Table \cup {Corrupt} /\ sessions \in Table
    /\ DOMAIN hook = Hooks
    /\ \A p \in Hooks : LET h == hook[p] IN
        /\ DOMAIN h = DOMAIN NoHook
        /\ h.session \in SessionIds \cup {NoSession}
        /\ h.seen \in Table /\ h.entry \in Bindings \cup {Nothing}
        /\ h.kind = "created" => h.about \in NativeTasks
        /\ h.kind = "command" => h.session \in SessionIds /\ h.target \in RunIds /\ ~h.bound
        /\ h.at = "bind" => h.target \in RunIds
        /\ h.at = "map" => h.target \in PlanTasks /\ h.about \in NativeTasks
        /\ h.entry # Nothing \/ h.bound \/ Writing(p) => h.session \in SessionIds
        /\ h.at \in {"list", "bind", "map"} => h.session \in SessionIds
        /\ h.at \in {"list", "bind", "gate", "map"} \/ Writing(p) => registry # Corrupt

OneWriter ==
    /\ \A p, q \in Hooks : Writing(p) /\ Writing(q) => p = q
    /\ \A p \in Hooks : Writing(p) => registry = hook[p].seen
    /\ \A p \in Hooks : hook[p].bound =>
        /\ sessions[hook[p].session] # Nothing
        /\ Writing(p) => hook[p].entry # Nothing
    /\ \A s \in SessionIds :
        sessions[s] # Nothing => registry # Corrupt /\ registry[s] # Nothing

(* The inductive invariant.                                                *)
SessionInv == ProcessTypeOK /\ OneWriter /\ BoundIsGated

(* What resolve_session says of lazy bindings: they are for sessions that  *)
(* have none, and never a guess.  So an explicit binding to a run is never *)
(* replaced by an inferred one to another.                                 *)
ExplicitIsKept ==
    [][\A s \in SessionIds : sessions[s] # Nothing =>
          LET before == sessions[s]
              after == sessions'[s] IN
          before.binding = "explicit" /\ after.run # before.run =>
              after.binding = "explicit"]_sessionVars
=============================================================================
