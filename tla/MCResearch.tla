----------------------------- MODULE MCResearch -----------------------------
(* Small instances of the components that a research run goes through and  *)
(* that share no state here: the compilation of its plan, the kernels that *)
(* execute it, the trust in its sources, their families and their later    *)
(* retractions, and its findings from files to report.  Each behaviour is  *)
(* one of a component, with the others at rest, so that the states of the  *)
(* run are the sum of theirs and not the product.                          *)
EXTENDS MCKernel, PlanGraph, Families, MCFindings, SourceTrust, Retractions

VARIABLE part   \* the component that runs

CONSTANTS n1, n2, n3, n4, f, g, h, k, s1, s2, s3, s4, u1, q1, q2, o1, v1, v2, v3, c1

(* g is a file in a directory f, which a task may declare as a file.       *)
MCAbove == [x \in Files |-> IF x = g THEN {f} ELSE {}]

(* Two records have the same DOI and different titles.                     *)
MCDoiOf == q1 :> o1 @@ q2 :> o1
MCWorkOf == q1 :> "one" @@ q2 :> "other"

(* Kernels are interchangeable, and the names of tasks, of which TLC is    *)
(* told of three: trying more permutations takes longer than it saves.     *)
ResearchSymmetry == Symmetry \cup Permutations({n1, n2, n3})

researchVars == <<part, allVars, graphVars, familyVars, findingsVars, trustVars, retractionVars>>

ResearchInit ==
    /\ part \in {"kernel", "plan", "families", "findings", "trust", "retractions"}
    /\ part # "plan" => planned = {n1} /\ deps = None(planned)
    /\ part # "families" => declared = [s \in Sources |-> {s1} \cap {s}]
    /\ part # "findings" => corpus = <<>>
    /\ part # "trust" => acceptable = {} /\ live = FALSE /\ registry = [d \in Dois |-> Retraction]
    /\ part # "retractions" =>
          support = [c \in Statements |-> {}] /\ status = [s \in Watched |-> NoProblem]
    /\ KernelInit /\ GraphInit /\ FamilyInit /\ FindingsInit /\ TrustInit /\ RetractionsInit

ResearchNext ==
    /\ part' = part
    /\ \/ part = "kernel" /\ KernelNext
       \/ part # "kernel" /\ UNCHANGED allVars
    /\ \/ part = "plan" /\ GraphNext
       \/ part # "plan" /\ UNCHANGED graphVars
    /\ \/ part = "families" /\ FamilyNext
       \/ part # "families" /\ UNCHANGED familyVars
    /\ \/ part = "findings" /\ FindingsNext
       \/ part # "findings" /\ UNCHANGED findingsVars
    /\ \/ part = "trust" /\ TrustNext
       \/ part # "trust" /\ UNCHANGED trustVars
    /\ \/ part = "retractions" /\ RetractionsNext
       \/ part # "retractions" /\ UNCHANGED retractionVars

ResearchSpec == ResearchInit /\ [][ResearchNext]_researchVars
=============================================================================
