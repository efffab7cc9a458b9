---------------------------- MODULE Retractions ----------------------------
(***************************************************************************)
(* Rounds of retraction_alerts (verification.py): statuses of sources      *)
(* change, and each round compares them with the ones of the round before. *)
(* Who calls it keeps the statuses, and the claims it was told of.         *)
(***************************************************************************)
CONSTANTS
    Watched,     \* source ids
    Statements,  \* claims
    Problems,    \* the statuses of _PROBLEM_STATUS
    NoProblem    \* any other status

ASSUME NoProblemAssumption == NoProblem \notin Problems

VARIABLES
    support,     \* the sources that support each claim
    status,      \* the retraction status of each source
    snapshot,    \* prior_status
    told         \* claims reported as fully invalidated, until they recover

retractionVars == <<support, status, snapshot, told>>

RetractionsInit ==
    /\ support \in [Statements -> SUBSET Watched]
    /\ status \in [Watched -> Problems \cup {NoProblem}]
    /\ snapshot = [s \in Watched |-> NoProblem]
    /\ told = {}

ChangeStatus(s, new) ==
    /\ status' = [status EXCEPT ![s] = new]
    /\ UNCHANGED <<support, snapshot, told>>

(* The sources with an alert: a problem that was not there before.         *)
Alerts == {s \in Watched : status[s] \in Problems /\ status[s] # snapshot[s]}

StatusBefore(s) == snapshot[s]

StatusNow(s) == status[s]

AllProblems(c) == \A s \in support[c] : StatusNow(s) \in Problems

Invalidated == {c \in Statements : support[c] \cap Alerts # {} /\ AllProblems(c)}

Recovered == {c \in Statements : \E s \in support[c] : status[s] = NoProblem}

Round ==
    /\ told' = (told \ Recovered) \cup Invalidated
    /\ snapshot' = status
    /\ UNCHANGED <<support, status>>

RetractionsNext ==
    \/ \E s \in Watched, new \in Problems \cup {NoProblem} : ChangeStatus(s, new)
    \/ Round

RetractionsSpec == RetractionsInit /\ [][RetractionsNext]_retractionVars

-----------------------------------------------------------------------------
(* Properties.                                                             *)

(* Alerts are only for changes, and a claim may lose its sources one by    *)
(* one over many rounds, some of them twice: after each round, the claims  *)
(* that were reported and have not recovered since are those whose sources *)
(* all have problems.                                                      *)
InvalidatedIsTold ==
    snapshot = status =>
        told = {c \in Statements : support[c] # {} /\ \A s \in support[c] : status[s] \in Problems}

(* Why it holds, and the inductive invariant: at every time the claims     *)
(* that were told of are those whose sources all had problems when the     *)
(* last round looked.                                                      *)
ToldSince(c) == support[c] # {} /\ \A s \in support[c] : snapshot[s] \in Problems

RetractionsInv ==
    /\ support \in [Statements -> SUBSET Watched]
    /\ status \in [Watched -> Problems \cup {NoProblem}]
    /\ snapshot \in [Watched -> Problems \cup {NoProblem}]
    /\ told = {c \in Statements : ToldSince(c)}
=============================================================================
