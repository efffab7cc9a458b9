----------------------------- MODULE MCRuntime ------------------------------
(* Small instances of five components of the runtime that share no state.  *)
(* Each behaviour is one of a component, with the others at rest, so that  *)
(* the states of the run are the sum of theirs and not the product.        *)
EXTENDS Exports, ResourceLocks, Workspaces, Migration, Sessions, TLC

VARIABLE part   \* the component that runs

CONSTANTS x1, x2, a1, a2, a3, sources, forged, text, brief, lie, m1, m2, manifest, plan, old, new,
    f1, f2, log, e1, e2, s1, s2, r1, r2, n1, t1, t2, p1, p2

MCMentions == [c \in {sources, forged, text, brief, lie} |->
                  IF c \in {sources, forged} THEN {text} ELSE {}]

MCReportOn == [c \in {sources, forged, text, brief, lie, Blank} |->
                  IF c = sources THEN brief ELSE lie]

(* The new manifest declares the new plan, the old one declares nothing.   *)
MCDeclared == [v \in {old, new} |-> [f \in (IF v = new THEN {plan} ELSE {}) |-> new]]

(* The plan of r2 has no task for what n1 is.                              *)
MCMatchOf == [r \in {r1, r2} |-> n1 :> IF r = r1 THEN t1 ELSE Nothing]

(* Attempts, sessions and processes are interchangeable.                   *)
RuntimeSymmetry == UNION {Permutations(S) : S \in
    {{a1, a2, a3}, {s1, s2}, {p1, p2}}}

runtimeVars == <<part, vars, lockVars, workVars, migrationVars, sessionVars>>

RuntimeInit ==
    /\ part \in {"exports", "locks", "workspaces", "migration", "sessions"}
    /\ Init /\ LockInit /\ WorkInit /\ MigrationInit /\ SessionInit
    /\ part # "migration" => source = [f \in LegacyFiles |-> old] /\ ~leftovers
    /\ part # "sessions" => registry = Unbound

RuntimeNext ==
    /\ part' = part
    /\ \/ part = "exports" /\ Next
       \/ part # "exports" /\ UNCHANGED vars
    /\ \/ part = "locks" /\ LockNext
       \/ part # "locks" /\ UNCHANGED lockVars
    /\ \/ part = "workspaces" /\ WorkNext
       \/ part # "workspaces" /\ UNCHANGED workVars
    /\ \/ part = "migration" /\ MigrationNext
       \/ part # "migration" /\ UNCHANGED migrationVars
    /\ \/ part = "sessions" /\ SessionNext
       \/ part # "sessions" /\ UNCHANGED sessionVars

RuntimeSpec == RuntimeInit /\ [][RuntimeNext]_runtimeVars
=============================================================================
