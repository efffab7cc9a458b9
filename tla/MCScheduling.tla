---------------------------- MODULE MCScheduling ----------------------------
(* Two small instances with fairness that share no state: two kernels on a *)
(* run of two tasks, and one call of the scheduler for a chain of two      *)
(* tasks and an independent one, on a pool of two threads.  In each        *)
(* behaviour one of them is at rest: no kernel was ever started, or the    *)
(* call has returned.                                                      *)
EXTENDS MCKernel, WaveScheduler

VARIABLE part   \* the component that runs

CONSTANT t3

(* One task may be tried again.                                           *)
MCWaveTries == t1 :> 2 @@ t2 :> 1 @@ t3 :> 1
MCWaveDeps == t1 :> {} @@ t2 :> {t1} @@ t3 :> {}

WaveReturned ==
    /\ status = [t \in WaveTasks |-> "succeeded"]
    /\ tried = [t \in WaveTasks |-> 1]
    /\ thread = [t \in WaveTasks |-> "returned"]
    /\ final = [t \in WaveTasks |-> FALSE]
    /\ late = {} /\ disowned = {}
    /\ main = "returned" /\ todo = {} /\ running = {} /\ active = {}

SchedulingInit ==
    /\ part \in {"kernels", "waves"}
    /\ KernelInit
    /\ IF part = "waves" THEN WaveInit ELSE WaveReturned

SchedulingNext ==
    /\ part' = part
    /\ \/ part = "kernels" /\ KernelNext /\ UNCHANGED waveVars
       \/ part = "waves" /\ WaveNext /\ UNCHANGED allVars

(* At rest a component has no step to take, so that fairness asks nothing  *)
(* of it.                                                                  *)
SchedulingSpec ==
    /\ SchedulingInit /\ [][SchedulingNext]_<<part, allVars, waveVars>>
    /\ KernelFairness /\ WaveFairness
=============================================================================
