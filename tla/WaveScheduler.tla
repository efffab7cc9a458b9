--------------------------- MODULE WaveScheduler ---------------------------
(***************************************************************************)
(* One call of WaveScheduler.run: the main thread submits every task whose *)
(* dependencies succeeded to a pool, waits for the first future and scans  *)
(* again; each submitted task runs its retry loop on a thread of the pool. *)
(* The executor may succeed, fail, or fail after its commit; the event     *)
(* sink may raise at any event.  Statuses are shared and read unlocked, so *)
(* the scan goes task by task while threads change them.                   *)
(*                                                                         *)
(* Kernel takes this module's loop as the steps of work[k]; here are the   *)
(* pool, the attempts and deadlines, and what an error of the sink does.   *)
(***************************************************************************)
EXTENDS Naturals, FiniteSets

CONSTANTS
    WaveTasks,     \* tasks of the compiled plan
    WaveDeps,      \* the dependencies of each task, acyclic
    Timed,         \* tasks with a wall-clock budget
    WaveTries,     \* the max_retries + 1 of each task
    MaxWorkers     \* max_workers

ASSUME WaveTasksFinite == IsFiniteSet(WaveTasks)
ASSUME WaveDepsAssumption == WaveDeps \in [WaveTasks -> SUBSET WaveTasks]
ASSUME TimedAssumption == Timed \subseteq WaveTasks
ASSUME NumbersAssumption == WaveTries \in [WaveTasks -> Nat \ {0}] /\ MaxWorkers \in Nat

VARIABLES
    status,       \* TaskState.status
    tried,        \* TaskState.attempts
    thread,       \* where the thread of each task is in _run_task
    final,        \* the failure being handled allows no retry
    late,         \* tasks whose deadline has passed
    disowned,     \* tasks whose success the sink refused to record
    main,         \* where run is
    todo,         \* tasks the current loop of run has not looked at
    running,      \* the futures run waits for
    active        \* active_ids: the futures when the scan began

taskVars == <<status, tried, thread, final, late, disowned>>
mainVars == <<main, todo, running, active>>
waveVars == <<taskVars, mainVars>>

Status == {"pending", "ready", "running", "retrying", "succeeded", "failed", "blocked"}

Stage == {"none", "looping", "starting", "executing", "succeeding", "failing",
          "exhausting", "returned", "raised"}

Ended == {"none", "returned", "raised"}

Workers == IF MaxWorkers = 0 THEN 1 ELSE MaxWorkers

PoolHasRoom == Cardinality(running) < Workers

PoolIsFull == Cardinality(running) >= Workers

MustWait == running # {}

Pending == {t \in WaveTasks : status[t] = "pending"}

(* _dependencies_satisfied                                                 *)
NoDependencyFailed(t) ==
    \A d \in WaveDeps[t] : status[d] \notin {"failed", "blocked"}

DependenciesSucceeded(t) == \A d \in WaveDeps[t] : status[d] = "succeeded"

-----------------------------------------------------------------------------
(* Precompleted tasks are those of a committed checkpoint, which is closed *)
(* under dependencies.                                                     *)
WaveInit ==
    \E done \in {S \in SUBSET WaveTasks : \A t \in S : WaveDeps[t] \subseteq S} :
        /\ status = [t \in WaveTasks |-> IF t \in done THEN "succeeded" ELSE "pending"]
        /\ tried = [t \in WaveTasks |-> 0]
        /\ thread = [t \in WaveTasks |-> "none"]
        /\ final = [t \in WaveTasks |-> FALSE]
        /\ late = {}
        /\ disowned = {}
        /\ main = "resuming"
        /\ todo = done
        /\ running = {}
        /\ active = {}

StartScan(futures) ==
    /\ main' = "scanning"
    /\ todo' = WaveTasks
    /\ active' = futures

(* task_resumed is emitted for each precompleted task.                     *)
EmitResumed(t) ==
    /\ main = "resuming"
    /\ t \in todo
    /\ todo' = todo \ {t}
    /\ main' \in {"resuming", "raised"}
    /\ UNCHANGED <<taskVars, running, active>>

EndResuming ==
    /\ main = "resuming"
    /\ todo = {}
    /\ StartScan({})
    /\ UNCHANGED <<taskVars, running>>

(* The body of the scan for one task.                                      *)
Submit(t) ==
    /\ main = "scanning"
    /\ t \in todo
    /\ PoolHasRoom
    /\ status[t] = "pending"
    /\ WaveDeps[t] \cap active = {}
    /\ DependenciesSucceeded(t)
    /\ status' = [status EXCEPT ![t] = "ready"]
    /\ thread' = [thread EXCEPT ![t] = "looping"]
    /\ running' = running \cup {t}
    /\ todo' = todo \ {t}
    /\ UNCHANGED <<tried, final, late, disowned, main, active>>

PassOver(t) ==
    /\ main = "scanning"
    /\ t \in todo
    /\ PoolHasRoom
    /\ \/ status[t] # "pending"
       \/ WaveDeps[t] \cap active # {}
       \/ ~DependenciesSucceeded(t)
    /\ todo' = todo \ {t}
    /\ UNCHANGED <<taskVars, main, running, active>>

(* The scan ends, or breaks when the pool is full.                         *)
EndScan ==
    /\ main = "scanning"
    /\ todo = {} \/ ~PoolHasRoom
    /\ IF MustWait
       THEN main' = "waiting" /\ todo' = {}
       ELSE main' = "blocking" /\ todo' = Pending
    /\ UNCHANGED <<taskVars, running, active>>

(* wait(running, FIRST_COMPLETED), then result() of what has ended: the    *)
(* first error leaves the loop.                                            *)
Reap ==
    LET ended == {t \in running : thread[t] \in Ended} IN
    /\ main = "waiting"
    /\ ended # {}
    /\ running' = running \ ended
    /\ IF \A t \in ended : thread[t] = "returned"
       THEN StartScan(running')
       ELSE main' = "leaving" /\ UNCHANGED <<todo, active>>
    /\ UNCHANGED taskVars

(* Nothing runs: what is still pending is blocked.                         *)
BlockPending(t) ==
    /\ main = "blocking"
    /\ t \in todo
    /\ status' = [status EXCEPT ![t] = "blocked"]
    /\ todo' = todo \ {t}
    /\ main' \in {"blocking", "leaving"}
    /\ UNCHANGED <<tried, thread, final, late, disowned, running, active>>

Return ==
    /\ main = "blocking"
    /\ todo = {}
    /\ main' = "returned"
    /\ UNCHANGED <<taskVars, todo, running, active>>

(* The pool is left after an error: shutdown waits for every thread.       *)
ThreadsEnded == \A t \in WaveTasks : thread[t] \in Ended

Leave ==
    /\ main = "leaving"
    /\ ThreadsEnded
    /\ main' = "raised"
    /\ UNCHANGED <<taskVars, todo, running, active>>

-----------------------------------------------------------------------------
(* _run_task.                                                              *)

GoTo(t, stage) == thread' = [thread EXCEPT ![t] = stage]
Become(t, s) == status' = [status EXCEPT ![t] = s]

Uncounted(t) == UNCHANGED tried

CountTry(t) == tried' = [tried EXCEPT ![t] = @ + 1]

BeginTry(t) ==
    /\ thread[t] = "looping"
    /\ tried[t] < WaveTries[t]
    /\ t \notin late
    /\ CountTry(t)
    /\ Become(t, "running")
    /\ GoTo(t, "starting")
    /\ UNCHANGED <<final, late, disowned, mainVars>>

GiveUpTask(t) ==
    /\ Become(t, "failed")
    /\ GoTo(t, "exhausting")

EndTries(t) ==
    /\ thread[t] = "looping"
    /\ tried[t] = WaveTries[t] \/ t \in late
    /\ GiveUpTask(t)
    /\ UNCHANGED <<tried, final, late, disowned, mainVars>>

(* task_started is emitted outside the try: an error of the sink ends the  *)
(* thread.                                                                 *)
EmitStarted(t) ==
    /\ thread[t] = "starting"
    /\ GoTo(t, "executing") \/ GoTo(t, "raised")
    /\ UNCHANGED <<status, tried, final, late, disowned, mainVars>>

(* The executor and validate_result, which commits.                        *)
Accept(t) ==
    /\ thread[t] = "executing"
    /\ Become(t, "succeeded")
    /\ GoTo(t, "succeeding")
    /\ UNCHANGED <<tried, final, late, disowned, mainVars>>

Reject(t, last) ==
    /\ Become(t, "retrying")
    /\ GoTo(t, "failing")
    /\ final' = [final EXCEPT ![t] = last]

FailTry(t, last) ==
    /\ thread[t] = "executing"
    /\ Reject(t, last)
    /\ UNCHANGED <<tried, late, disowned, mainVars>>

(* ProjectionError: committed, so the error leaves _run_task.              *)
FailCommitted(t) ==
    /\ thread[t] \in {"executing", "succeeding"}
    /\ GoTo(t, "raised")
    /\ UNCHANGED <<status, tried, final, late, disowned, mainVars>>

EmitSucceeded(t) ==
    /\ thread[t] = "succeeding"
    /\ GoTo(t, "returned")
    /\ UNCHANGED <<status, tried, final, late, disowned, mainVars>>

(* task_succeeded is emitted inside the try: another error of the sink     *)
(* turns the committed task into a failed attempt.                         *)
Disown(t, last) ==
    /\ thread[t] = "succeeding"
    /\ Reject(t, last)
    /\ disowned' = disowned \cup {t}
    /\ UNCHANGED <<tried, late, mainVars>>

EmitFailed(t) ==
    /\ thread[t] = "failing"
    /\ \/ final[t] /\ GiveUpTask(t)
       \/ ~final[t] /\ GoTo(t, "looping") /\ UNCHANGED status
       \/ GoTo(t, "raised") /\ UNCHANGED status
    /\ UNCHANGED <<tried, final, late, disowned, mainVars>>

EmitExhausted(t) ==
    /\ thread[t] = "exhausting"
    /\ GoTo(t, "returned") \/ GoTo(t, "raised")
    /\ UNCHANGED <<status, tried, final, late, disowned, mainVars>>

(* The deadline of a started task passes.                                  *)
PassDeadline(t) ==
    /\ t \in Timed \ late
    /\ thread[t] \notin Ended
    /\ late' = late \cup {t}
    /\ UNCHANGED <<status, tried, thread, final, disowned, mainVars>>

CallStep ==
    \/ \E t \in WaveTasks : EmitResumed(t)
    \/ EndResuming
    \/ \E t \in WaveTasks : Submit(t)
    \/ \E t \in WaveTasks : PassOver(t)
    \/ EndScan
    \/ Reap
    \/ \E t \in WaveTasks : BlockPending(t)
    \/ Return
    \/ Leave

ThreadStep(t) ==
    \/ BeginTry(t)
    \/ EndTries(t)
    \/ EmitStarted(t)
    \/ Accept(t)
    \/ \E last \in BOOLEAN : FailTry(t, last)
    \/ FailCommitted(t)
    \/ EmitSucceeded(t)
    \/ \E last \in BOOLEAN : Disown(t, last)
    \/ EmitFailed(t)
    \/ EmitExhausted(t)

WaveNext ==
    \/ CallStep
    \/ \E t \in WaveTasks : ThreadStep(t)
    \/ \E t \in WaveTasks : PassDeadline(t)

(* Threads are scheduled and every executor call returns.                  *)
WaveFairness ==
    /\ WF_waveVars(CallStep)
    /\ \A t \in WaveTasks : WF_waveVars(ThreadStep(t))

WaveSpec == WaveInit /\ [][WaveNext]_waveVars /\ WaveFairness

-----------------------------------------------------------------------------
(* Properties.                                                             *)

(* A call that returns has skipped nothing that could run: a blocked task  *)
(* has a dependency that failed or was blocked, whatever the pool's size   *)
(* and however the threads interleaved with the scan.                      *)
BlockedByFailure ==
    main = "returned" =>
        \A t \in WaveTasks : status[t] = "blocked" =>
            \E d \in WaveDeps[t] : status[d] \in {"failed", "blocked"}

(* A call that returns has decided every task, and what it reports as      *)
(* completed rests on completed tasks -- unless the sink disowned a        *)
(* success a dependent was already started on.                             *)
CompletedIsClosed ==
    main = "returned" =>
        \A t \in WaveTasks :
            /\ status[t] \in {"succeeded", "failed", "blocked"}
            /\ status[t] = "succeeded" =>
                  \A d \in WaveDeps[t] : status[d] = "succeeded" \/ d \in disowned

(* Types, and the status that goes with each stage of a thread.            *)
StatusOf(stage) ==
    CASE stage = "none" -> {"pending", "succeeded", "blocked"}
      [] stage = "looping" -> {"ready", "retrying"}
      [] stage \in {"starting", "executing"} -> {"running"}
      [] stage = "succeeding" -> {"succeeded"}
      [] stage = "failing" -> {"retrying"}
      [] stage = "exhausting" -> {"failed"}
      [] stage = "returned" -> {"succeeded", "failed"}
      [] OTHER -> {"running", "succeeded", "retrying", "failed"}

WaveTypeOK ==
    /\ status \in [WaveTasks -> Status]
    /\ tried \in [WaveTasks -> Nat]
    /\ thread \in [WaveTasks -> Stage]
    /\ final \in [WaveTasks -> BOOLEAN]
    /\ late \subseteq WaveTasks /\ disowned \subseteq WaveTasks
    /\ main \in {"resuming", "scanning", "waiting", "blocking", "leaving", "returned", "raised"}
    /\ todo \subseteq WaveTasks /\ running \subseteq WaveTasks /\ active \subseteq WaveTasks
    /\ \A t \in WaveTasks : status[t] \in StatusOf(thread[t])

(* A future is waited for until its thread has ended; until an error, a    *)
(* task without one has not been submitted or was reaped.                  *)
FuturesAreWaitedFor ==
    main \notin {"leaving", "raised"} =>
        \A t \in WaveTasks : t \notin running => thread[t] \in {"none", "returned"}

(* What was ever submitted was ready, and only an error of the sink makes  *)
(* a success undone.                                                       *)
SubmittedWasReady ==
    \A t \in WaveTasks : status[t] \notin {"pending", "blocked"} =>
        \A d \in WaveDeps[t] : status[d] = "succeeded" \/ d \in disowned

HeldBack(t, by) == \E d \in WaveDeps[t] : status[d] \in by

(* A scan during which nothing runs sees every status as it is: what it    *)
(* has looked at and left pending cannot run, and stays so.                *)
NothingIsSkipped ==
    /\ main = "resuming" => running = {}
    /\ main \in {"resuming", "scanning", "waiting"} => \A t \in WaveTasks : status[t] # "blocked"
    /\ main = "scanning" =>
          /\ active \subseteq running
          /\ running = {} => \A t \in Pending \ todo : HeldBack(t, {"pending", "failed"})
    /\ main \in {"blocking", "returned"} =>
          /\ running = {}
          /\ Pending = IF main = "blocking" THEN todo ELSE {}
          /\ \A t \in WaveTasks : status[t] \in {"pending", "blocked"} =>
                HeldBack(t, {"pending", "failed", "blocked"})

(* The inductive invariant.                                                *)
WaveInv ==
    /\ WaveTypeOK
    /\ FuturesAreWaitedFor
    /\ SubmittedWasReady
    /\ NothingIsSkipped

(* The call ends.                                                          *)
RunEnds == <>(main \in {"returned", "raised"})
=============================================================================
