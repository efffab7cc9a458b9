------------------------------ MODULE MCKernel ------------------------------
(* Two kernels on a run of two tasks, the second depending on the first.   *)
EXTENDS Kernel, TLC

CONSTANTS t1, t2, k1, k2, MaxAttempts

MCTasks == {t1, t2}
MCDeps == t1 :> {} @@ t2 :> {t1}
MCAttempts == 1..MaxAttempts
MCSavers == {k1, k2}

(* Two kernels differ in nothing but what they do.                         *)
Symmetry == Permutations(MCSavers)
=============================================================================
