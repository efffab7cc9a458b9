------------------------- MODULE WaveSchedulerProofs -------------------------
(***************************************************************************)
(* Proofs about WaveScheduler: any tasks and dependencies, any size of the *)
(* pool, any number of tries, and any interleaving of the scan with the    *)
(* threads it reads.                                                       *)
(***************************************************************************)
EXTENDS WaveScheduler, FiniteSetTheorems, TLAPS

(* A pool with nothing in it has room.                                     *)
LEMMA EmptyPoolHasRoom ==
    ASSUME running = {}
    PROVE  PoolHasRoom
  <1>1. Cardinality(running) = 0
    BY FS_EmptySet
  <1>2. Workers \in Nat \ {0}
    BY NumbersAssumption DEF Workers
  <1> QED
    BY <1>1, <1>2 DEF PoolHasRoom

LEMMA WaveInvInit == WaveInit => WaveInv
  <1> SUFFICES ASSUME WaveInit PROVE WaveInv
    OBVIOUS
  <1>1. PICK done \in SUBSET WaveTasks :
          /\ \A t \in done : WaveDeps[t] \subseteq done
          /\ status = [t \in WaveTasks |-> IF t \in done THEN "succeeded" ELSE "pending"]
          /\ todo = done
    BY DEF WaveInit
  <1>2. /\ tried = [t \in WaveTasks |-> 0]
        /\ thread = [t \in WaveTasks |-> "none"]
        /\ final = [t \in WaveTasks |-> FALSE]
        /\ late = {} /\ disowned = {}
        /\ main = "resuming" /\ running = {} /\ active = {}
    BY DEF WaveInit
  <1>3. WaveTypeOK
    BY <1>1, <1>2 DEF WaveTypeOK, Status, Stage, StatusOf
  <1>4. SubmittedWasReady
    BY <1>1, WaveDepsAssumption DEF SubmittedWasReady
  <1> QED
    BY <1>1, <1>2, <1>3, <1>4 DEF WaveInv, FuturesAreWaitedFor, NothingIsSkipped

-----------------------------------------------------------------------------
(* A thread's step.                                                        *)

(* It is the step of a thread that has not ended, of a task that was       *)
(* submitted and stays so; a success is only undone by being disowned.     *)
ThreadMoves(t) ==
    /\ UNCHANGED mainVars
    /\ thread[t] \notin Ended /\ thread'[t] # "none"
    /\ status[t] \notin {"pending", "blocked"}
    /\ status'[t] \notin {"pending", "blocked"}
    /\ status[t] = "succeeded" => status'[t] = "succeeded" \/ t \in disowned'
    /\ disowned \subseteq disowned'
    /\ \A u \in WaveTasks \ {t} : status'[u] = status[u] /\ thread'[u] = thread[u]

LEMMA ThreadStepFacts ==
    ASSUME WaveTypeOK, NEW t \in WaveTasks, ThreadStep(t)
    PROVE  WaveTypeOK' /\ ThreadMoves(t)
  <1> USE DEF WaveTypeOK, Become, GoTo, StatusOf, Ended, ThreadMoves
  <1>0. status[t] \in StatusOf(thread[t])
    OBVIOUS
  <1>1. CASE BeginTry(t)
    <2>1. /\ thread[t] = "looping"
          /\ thread' = [thread EXCEPT ![t] = "starting"]
          /\ status' = [status EXCEPT ![t] = "running"]
          /\ tried' = [tried EXCEPT ![t] = @ + 1]
          /\ UNCHANGED <<final, late, disowned, mainVars>>
      BY <1>1 DEF BeginTry, CountTry
    <2> QED
      BY <1>0, <2>1 DEF mainVars, Status, Stage
  <1>2. CASE EndTries(t)
    <2>1. /\ thread[t] = "looping"
          /\ thread' = [thread EXCEPT ![t] = "exhausting"]
          /\ status' = [status EXCEPT ![t] = "failed"]
          /\ UNCHANGED <<tried, final, late, disowned, mainVars>>
      BY <1>2 DEF EndTries, GiveUpTask
    <2> QED
      BY <1>0, <2>1 DEF mainVars, Status, Stage
  <1>3. CASE EmitStarted(t)
    BY <1>0, <1>3 DEF EmitStarted, mainVars, Stage
  <1>4. CASE Accept(t)
    BY <1>0, <1>4 DEF Accept, mainVars, Status, Stage
  <1>5. ASSUME NEW last \in BOOLEAN, FailTry(t, last) \/ Disown(t, last)
        PROVE  WaveTypeOK' /\ ThreadMoves(t)
    <2>1. /\ thread[t] \in {"executing", "succeeding"}
          /\ thread' = [thread EXCEPT ![t] = "failing"]
          /\ status' = [status EXCEPT ![t] = "retrying"]
          /\ final' = [final EXCEPT ![t] = last]
          /\ UNCHANGED <<tried, late, mainVars>>
      BY <1>5 DEF FailTry, Disown, Reject
    <2>2. \/ thread[t] = "executing" /\ disowned' = disowned
          \/ thread[t] = "succeeding" /\ disowned' = disowned \cup {t}
      BY <1>5 DEF FailTry, Disown
    <2> QED
      BY <1>0, <2>1, <2>2 DEF mainVars, Status, Stage
  <1>6. CASE FailCommitted(t)
    BY <1>0, <1>6 DEF FailCommitted, mainVars, Stage
  <1>7. CASE EmitSucceeded(t)
    BY <1>0, <1>7 DEF EmitSucceeded, mainVars, Stage
  <1>8. CASE EmitFailed(t)
    BY <1>0, <1>8 DEF EmitFailed, GiveUpTask, mainVars, Status, Stage
  <1>9. CASE EmitExhausted(t)
    BY <1>0, <1>9 DEF EmitExhausted, mainVars, Stage
  <1> QED
    BY <1>1, <1>2, <1>3, <1>4, <1>5, <1>6, <1>7, <1>8, <1>9 DEF ThreadStep

(* While nothing runs before an error, no thread has a step to take.       *)
LEMMA ThreadKeeps ==
    ASSUME WaveInv, NEW t \in WaveTasks, ThreadStep(t)
    PROVE  WaveInv'
  <1>1. WaveTypeOK /\ WaveTypeOK' /\ ThreadMoves(t)
    BY ThreadStepFacts DEF WaveInv
  <1>2. UNCHANGED <<main, todo, running, active>>
    BY <1>1 DEF ThreadMoves, mainVars
  <1>3. main \notin {"leaving", "raised"} => t \in running
    BY <1>1 DEF WaveInv, FuturesAreWaitedFor, ThreadMoves, Ended
  <1>4. FuturesAreWaitedFor'
    BY <1>1, <1>2, <1>3 DEF WaveInv, FuturesAreWaitedFor, ThreadMoves
  <1>5. \A u \in WaveTasks : \/ status'[u] = status[u]
                            \/ /\ status[u] \notin {"pending", "blocked"}
                               /\ status'[u] \notin {"pending", "blocked"}
    BY <1>1 DEF ThreadMoves
  <1>6. SubmittedWasReady'
    <2> SUFFICES ASSUME NEW u \in WaveTasks, status'[u] \notin {"pending", "blocked"},
                        NEW d \in WaveDeps[u]
                 PROVE  status'[d] = "succeeded" \/ d \in disowned'
      BY DEF SubmittedWasReady
    <2>1. status[u] \notin {"pending", "blocked"} /\ d \in WaveTasks
      BY <1>5, WaveDepsAssumption
    <2>2. status[d] = "succeeded" \/ d \in disowned
      BY <2>1 DEF WaveInv, SubmittedWasReady
    <2> QED
      BY <1>1, <2>1, <2>2 DEF ThreadMoves
  <1>7. NothingIsSkipped'
    <2>1. running # {} \/ main \in {"leaving", "raised"}
      BY <1>3
    <2>2. main \notin {"resuming", "blocking", "returned"}
      BY <1>3 DEF WaveInv, NothingIsSkipped
    <2>3. main = "scanning" => active \subseteq running
      BY DEF WaveInv, NothingIsSkipped
    <2>4. main \in {"scanning", "waiting"} => \A u \in WaveTasks : status'[u] # "blocked"
      BY <1>5 DEF WaveInv, NothingIsSkipped
    <2> QED
      BY <1>2, <2>1, <2>2, <2>3, <2>4 DEF NothingIsSkipped
  <1> QED
    BY <1>1, <1>4, <1>6, <1>7 DEF WaveInv

LEMMA DeadlineKeeps ==
    ASSUME WaveInv, NEW t \in WaveTasks, PassDeadline(t)
    PROVE  WaveInv'
  BY DEF WaveInv, PassDeadline, mainVars, WaveTypeOK, FuturesAreWaitedFor,
         SubmittedWasReady, NothingIsSkipped, Pending, HeldBack

-----------------------------------------------------------------------------
(* The main thread.                                                        *)

LEMMA SubmitKeeps ==
    ASSUME WaveInv, NEW t \in WaveTasks, Submit(t)
    PROVE  WaveInv'
  <1>1. /\ main = "scanning" /\ status[t] = "pending"
        /\ DependenciesSucceeded(t)
        /\ status' = [status EXCEPT ![t] = "ready"]
        /\ thread' = [thread EXCEPT ![t] = "looping"]
        /\ running' = running \cup {t}
        /\ todo' = todo \ {t}
        /\ UNCHANGED <<tried, final, late, disowned, main, active>>
    BY DEF Submit
  <1>2. WaveTypeOK'
    BY <1>1 DEF WaveInv, WaveTypeOK, Status, Stage, StatusOf
  <1>3. FuturesAreWaitedFor'
    BY <1>1 DEF WaveInv, WaveTypeOK, FuturesAreWaitedFor
  <1>4. SubmittedWasReady'
    <2> SUFFICES ASSUME NEW u \in WaveTasks, status'[u] \notin {"pending", "blocked"},
                        NEW d \in WaveDeps[u]
                 PROVE  status'[d] = "succeeded" \/ d \in disowned'
      BY DEF SubmittedWasReady
    <2>1. d \in WaveTasks /\ (status[d] = "succeeded" \/ d \in disowned)
      BY <1>1, WaveDepsAssumption
         DEF WaveInv, WaveTypeOK, SubmittedWasReady, DependenciesSucceeded
    <2> QED
      BY <1>1, <2>1 DEF WaveInv, WaveTypeOK
  <1>5. NothingIsSkipped'
    BY <1>1 DEF WaveInv, WaveTypeOK, NothingIsSkipped
  <1> QED
    BY <1>2, <1>3, <1>4, <1>5 DEF WaveInv

(* What is passed over while nothing runs has a dependency that did not    *)
(* succeed, and no thread will change that.                                *)
LEMMA PassOverKeeps ==
    ASSUME WaveInv, NEW t \in WaveTasks, PassOver(t)
    PROVE  WaveInv'
  <1>1. /\ main = "scanning"
        /\ \/ status[t] # "pending"
           \/ WaveDeps[t] \cap active # {}
           \/ ~DependenciesSucceeded(t)
        /\ todo' = todo \ {t}
        /\ UNCHANGED <<status, tried, thread, final, late, disowned, main, running, active>>
    BY DEF PassOver, taskVars
  <1>2. ASSUME running = {}, status[t] = "pending"
        PROVE  HeldBack(t, {"pending", "failed"})
    <2>1. active = {}
      BY <1>1, <1>2 DEF WaveInv, NothingIsSkipped
    <2>2. PICK d \in WaveDeps[t] : status[d] # "succeeded"
      BY <1>1, <1>2, <2>1 DEF DependenciesSucceeded
    <2>3. d \in WaveTasks /\ thread[d] \in {"none", "returned"} /\ status[d] # "blocked"
      BY <1>1, <1>2, <2>2, WaveDepsAssumption DEF WaveInv, FuturesAreWaitedFor, NothingIsSkipped
    <2>4. status[d] \in {"pending", "failed"}
      BY <2>2, <2>3 DEF WaveInv, WaveTypeOK, StatusOf
    <2> QED
      BY <2>2, <2>4 DEF HeldBack
  <1>3. NothingIsSkipped'
    BY <1>1, <1>2 DEF WaveInv, NothingIsSkipped, Pending, HeldBack
  <1> QED
    BY <1>1, <1>3 DEF WaveInv, WaveTypeOK, FuturesAreWaitedFor, SubmittedWasReady

LEMMA EndScanKeeps ==
    ASSUME WaveInv, EndScan
    PROVE  WaveInv'
  <1>1. /\ main = "scanning"
        /\ todo = {} \/ ~PoolHasRoom
        /\ UNCHANGED <<status, tried, thread, final, late, disowned, running, active>>
    BY DEF EndScan, taskVars
  <1>2. CASE running # {}
    BY <1>1, <1>2 DEF EndScan, MustWait, WaveInv, WaveTypeOK, FuturesAreWaitedFor,
                      SubmittedWasReady, NothingIsSkipped
  <1>3. CASE running = {}
    <2>1. main' = "blocking" /\ todo' = Pending /\ todo = {}
      BY <1>1, <1>3, EmptyPoolHasRoom DEF EndScan, MustWait
    <2>2. \A t \in WaveTasks : status[t] \in {"pending", "blocked"} =>
            HeldBack(t, {"pending", "failed", "blocked"})
      BY <1>1, <1>3, <2>1 DEF WaveInv, NothingIsSkipped, Pending, HeldBack
    <2>3. NothingIsSkipped'
      BY <1>1, <1>3, <2>1, <2>2 DEF NothingIsSkipped, Pending, HeldBack
    <2> QED
      BY <1>1, <2>1, <2>3
         DEF WaveInv, WaveTypeOK, FuturesAreWaitedFor, SubmittedWasReady, Pending
  <1> QED
    BY <1>2, <1>3

LEMMA ReapKeeps ==
    ASSUME WaveInv, Reap
    PROVE  WaveInv'
  <1> DEFINE ended == {t \in running : thread[t] \in Ended}
  <1>1. /\ main = "waiting"
        /\ running' = running \ ended
        /\ UNCHANGED <<status, tried, thread, final, late, disowned>>
    BY DEF Reap, taskVars
  <1>2. CASE \A t \in ended : thread[t] = "returned"
    <2>1. main' = "scanning" /\ todo' = WaveTasks /\ active' = running'
      BY <1>2 DEF Reap, StartScan
    <2>2. NothingIsSkipped'
      BY <1>1, <2>1 DEF WaveInv, NothingIsSkipped, Pending
    <2> QED
      BY <1>1, <1>2, <2>1, <2>2
         DEF WaveInv, WaveTypeOK, FuturesAreWaitedFor, SubmittedWasReady
  <1>3. CASE ~(\A t \in ended : thread[t] = "returned")
    <2>1. main' = "leaving" /\ UNCHANGED <<todo, active>>
      BY <1>3 DEF Reap
    <2> QED
      BY <1>1, <2>1
         DEF WaveInv, WaveTypeOK, FuturesAreWaitedFor, SubmittedWasReady, NothingIsSkipped
  <1> QED
    BY <1>2, <1>3

LEMMA BlockKeeps ==
    ASSUME WaveInv, NEW t \in WaveTasks, BlockPending(t)
    PROVE  WaveInv'
  <1>1. /\ main = "blocking" /\ t \in todo
        /\ status' = [status EXCEPT ![t] = "blocked"]
        /\ todo' = todo \ {t}
        /\ main' \in {"blocking", "leaving"}
        /\ UNCHANGED <<tried, thread, final, late, disowned, running, active>>
    BY DEF BlockPending
  <1>2. status[t] = "pending" /\ thread[t] = "none"
    BY <1>1 DEF WaveInv, WaveTypeOK, NothingIsSkipped, FuturesAreWaitedFor, Pending, StatusOf
  <1>3. \A u \in WaveTasks : status'[u] = IF u = t THEN "blocked" ELSE status[u]
    BY <1>1 DEF WaveInv, WaveTypeOK
  <1>4. WaveTypeOK'
    BY <1>1, <1>2, <1>3 DEF WaveInv, WaveTypeOK, Status, StatusOf
  <1>5. SubmittedWasReady'
    BY <1>1, <1>2, <1>3, WaveDepsAssumption DEF WaveInv, SubmittedWasReady
  <1>6. NothingIsSkipped'
    <2>1. \A u \in WaveTasks : status'[u] \in {"pending", "blocked"} =>
            HeldBack(u, {"pending", "failed", "blocked"})'
      <3> SUFFICES ASSUME NEW u \in WaveTasks, status'[u] \in {"pending", "blocked"}
                   PROVE  \E d \in WaveDeps[u] : status'[d] \in {"pending", "failed", "blocked"}
        BY DEF HeldBack
      <3>1. PICK d \in WaveDeps[u] : status[d] \in {"pending", "failed", "blocked"}
        BY <1>1, <1>2, <1>3 DEF WaveInv, NothingIsSkipped, HeldBack
      <3>2. d \in WaveTasks
        BY WaveDepsAssumption
      <3> QED
        BY <1>3, <3>1, <3>2
    <2>2. Pending' = Pending \ {t}
      BY <1>3 DEF Pending
    <2> QED
      BY <1>1, <2>1, <2>2 DEF WaveInv, NothingIsSkipped
  <1> QED
    BY <1>1, <1>4, <1>5, <1>6 DEF WaveInv, FuturesAreWaitedFor

LEMMA CallKeeps ==
    ASSUME WaveInv, CallStep
    PROVE  WaveInv'
  <1>1. ASSUME NEW t \in WaveTasks, EmitResumed(t)
        PROVE  WaveInv'
    BY <1>1 DEF EmitResumed, taskVars, WaveInv, WaveTypeOK, FuturesAreWaitedFor,
                SubmittedWasReady, NothingIsSkipped
  <1>2. CASE EndResuming
    BY <1>2 DEF EndResuming, StartScan, taskVars, WaveInv, WaveTypeOK, FuturesAreWaitedFor,
                SubmittedWasReady, NothingIsSkipped, Pending
  <1>3. ASSUME NEW t \in WaveTasks, Submit(t) PROVE WaveInv'
    BY <1>3, SubmitKeeps
  <1>4. ASSUME NEW t \in WaveTasks, PassOver(t) PROVE WaveInv'
    BY <1>4, PassOverKeeps
  <1>5. CASE EndScan
    BY <1>5, EndScanKeeps
  <1>6. CASE Reap
    BY <1>6, ReapKeeps
  <1>7. ASSUME NEW t \in WaveTasks, BlockPending(t) PROVE WaveInv'
    BY <1>7, BlockKeeps
  <1>8. CASE Return
    BY <1>8 DEF Return, taskVars, WaveInv, WaveTypeOK, FuturesAreWaitedFor,
                SubmittedWasReady, NothingIsSkipped, Pending, HeldBack
  <1>9. CASE Leave
    BY <1>9 DEF Leave, taskVars, WaveInv, WaveTypeOK, FuturesAreWaitedFor,
                SubmittedWasReady, NothingIsSkipped
  <1> QED
    BY <1>1, <1>2, <1>3, <1>4, <1>5, <1>6, <1>7, <1>8, <1>9 DEF CallStep

LEMMA WaveInvStep == WaveInv /\ [WaveNext]_waveVars => WaveInv'
  <1> SUFFICES ASSUME WaveInv, [WaveNext]_waveVars PROVE WaveInv'
    OBVIOUS
  <1>1. CASE CallStep
    BY <1>1, CallKeeps
  <1>2. ASSUME NEW t \in WaveTasks, ThreadStep(t) PROVE WaveInv'
    BY <1>2, ThreadKeeps
  <1>3. ASSUME NEW t \in WaveTasks, PassDeadline(t) PROVE WaveInv'
    BY <1>3, DeadlineKeeps
  <1>4. CASE UNCHANGED waveVars
    BY <1>4 DEF waveVars, taskVars, mainVars, WaveInv, WaveTypeOK, FuturesAreWaitedFor,
                SubmittedWasReady, NothingIsSkipped, Pending, HeldBack
  <1> QED
    BY <1>1, <1>2, <1>3, <1>4 DEF WaveNext

(* The inductive invariant holds in every reachable state.                 *)
THEOREM WaveInductive == WaveSpec => []WaveInv
  BY WaveInvInit, WaveInvStep, PTL DEF WaveSpec

(* A call that returns blocked only what a failure holds back, whatever    *)
(* the size of the pool and however the threads interleaved with the scan. *)
THEOREM BlockedByFailureOnly == WaveSpec => []BlockedByFailure
  <1>1. WaveInv => BlockedByFailure
    BY WaveDepsAssumption
       DEF WaveInv, NothingIsSkipped, BlockedByFailure, HeldBack, Pending
  <1> QED
    BY <1>1, WaveInductive, PTL

(* A call that returns has decided every task, on dependencies that were   *)
(* completed, unless the sink disowned one.                                *)
THEOREM ReturnedIsDecided == WaveSpec => []CompletedIsClosed
  <1>1. ASSUME WaveInv, main = "returned", NEW t \in WaveTasks
        PROVE  /\ status[t] \in {"succeeded", "failed", "blocked"}
               /\ status[t] = "succeeded" =>
                     \A d \in WaveDeps[t] : status[d] = "succeeded" \/ d \in disowned
    <2>1. thread[t] \in {"none", "returned"} /\ status[t] # "pending"
      BY <1>1 DEF WaveInv, NothingIsSkipped, FuturesAreWaitedFor, Pending
    <2> QED
      BY <1>1, <2>1 DEF WaveInv, WaveTypeOK, StatusOf, SubmittedWasReady
  <1>2. WaveInv => CompletedIsClosed
    BY <1>1 DEF CompletedIsClosed
  <1> QED
    BY <1>2, WaveInductive, PTL
=============================================================================
