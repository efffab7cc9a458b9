------------------------------ MODULE Families ------------------------------
(***************************************************************************)
(* The families of sources that depend on each other (corpus.py), and the  *)
(* standing of a claim that rests on them.                                 *)
(*                                                                         *)
(* The union-find of independence_families goes step by step, through its  *)
(* records and their dependencies in every order; a dependency that names  *)
(* no record is passed over.                                               *)
(***************************************************************************)
EXTENDS Standings, Sequences

CONSTANTS
    Sources,     \* the source ids of the records
    Unknown,     \* ids that a record may depend on and no record has
    Idle,        \* no find is under way
    MaxDeclared  \* bound: dependencies that are declared

ASSUME SourcesAssumption ==
    IsFiniteSet(Sources) /\ Idle \notin Sources /\ Sources \cap Unknown = {}

VARIABLES
    declared,    \* the dependencies of each record
    parent,      \* the forest of independence_families
    unions,      \* the pairs still to be united
    pair,        \* the pair being united
    cursor,      \* x in find
    roots,       \* what find returned for the members of the pair
    verdict      \* the last standing computed, and from what

forestVars == <<declared, parent, unions, pair, cursor, roots>>
familyVars == <<forestVars, verdict>>

Unjudged == [supporting |-> {}, contradicting |-> 0, standing |-> "unresolved"]

-----------------------------------------------------------------------------
(* independence_families.                                                  *)

FamilyInit ==
    /\ declared \in [Sources -> SUBSET (Sources \cup Unknown)]
    /\ MapThenSumSet(LAMBDA s : Cardinality(declared[s]), Sources) <= MaxDeclared
    /\ parent = [s \in Sources |-> s]
    /\ unions = UNION {{<<s, d>> : d \in declared[s] \cap Sources} : s \in Sources}
    /\ pair = <<>> /\ cursor = Idle /\ roots = <<>>
    /\ verdict = Unjudged

BeginUnion(p) ==
    /\ pair = <<>>
    /\ p \in unions
    /\ pair' = p
    /\ cursor' = p[1]
    /\ unions' = unions \ {p}
    /\ UNCHANGED <<declared, parent, roots, verdict>>

(* find halves the path it climbs.                                         *)
Climb ==
    /\ cursor # Idle
    /\ parent[cursor] # cursor
    /\ parent' = [parent EXCEPT ![cursor] = parent[parent[cursor]]]
    /\ cursor' = parent'[cursor]
    /\ UNCHANGED <<declared, unions, pair, roots, verdict>>

MemberAsRoot == pair[2]

RootToLink == cursor

(* find has reached a root: of the first member, or of the second, which   *)
(* is then linked to the other.                                            *)
ReachRoot ==
    /\ cursor # Idle
    /\ parent[cursor] = cursor
    /\ IF roots = <<>>
       THEN roots' = <<cursor>> /\ cursor' = pair[2] /\ UNCHANGED <<pair, parent>>
       ELSE /\ parent' = [parent EXCEPT ![RootToLink] = roots[1]]
            /\ roots' = <<>> /\ pair' = <<>> /\ cursor' = Idle
    /\ UNCHANGED <<declared, unions, verdict>>

Grouped == unions = {} /\ pair = <<>>

(* find passes t from s on when no set has s, and not t, that has the      *)
(* parents of its members.                                                 *)
ClosedUp(S) == \A s \in S : parent[s] \in S

Passed(s, t) == \A S \in SUBSET Sources : s \in S /\ t \notin S => ~ClosedUp(S)

FamilyOf(s) == CHOOSE r \in Sources : parent[r] = r /\ Passed(s, r)

Family(s) == LET root == FamilyOf(s) IN {t \in Sources : FamilyOf(t) = root}

FamiliesOf(S) == Cardinality({FamilyOf(s) : s \in S})

VerdictOn(supporting, contradicting, quality, scoped) ==
    LET support == {[source |-> s, family |-> Cardinality(Family(s)), quality |-> quality,
                     scoped |-> scoped] : s \in supporting}
    IN  [supporting |-> supporting, contradicting |-> contradicting,
         standing |-> Standing(support, FamiliesOf(supporting), contradicting)]

(* A claim with edges from some sources is judged.                         *)
Assess(supporting, contradicting, quality, scoped) ==
    /\ Grouped
    /\ verdict = Unjudged
    /\ verdict' = VerdictOn(supporting, contradicting, quality, scoped)
    /\ UNCHANGED forestVars

FamilyNext ==
    \/ \E p \in unions : BeginUnion(p)
    \/ Climb
    \/ ReachRoot
    \/ \E S \in SUBSET Sources, k \in 0..2, quality \in {0, 100}, scoped \in BOOLEAN :
          Assess(S, k, quality, scoped)

FamilySpec == FamilyInit /\ [][FamilyNext]_familyVars

-----------------------------------------------------------------------------
(* Properties.                                                             *)

(* Sources that declare each other, directly or through others.            *)
Connected(S) ==
    \A T \in (SUBSET S) \ {{}, S} : \E s \in T, t \in S \ T : t \in declared[s] \/ s \in declared[t]

(* Whatever the order of the records and however finds halve the paths,    *)
(* the families are the connected components of the declared dependencies. *)
FamiliesAreComponents ==
    Grouped => \A s \in Sources :
        /\ Connected(Family(s))
        /\ \A t \in Sources : t \in declared[s] => t \in Family(s)

(* No number of sources makes a claim supported that one unconnected group *)
(* of them makes alone, and no claim is supported that any evidence        *)
(* contradicts.                                                            *)
SupportIsIndependent ==
    verdict.standing = "supported" =>
        /\ \E s, t \in verdict.supporting : t \notin Family(s)
        /\ verdict.contradicting = 0

-----------------------------------------------------------------------------
(* What the proofs rest on.  Two sources are tied when every set that no   *)
(* declared dependency leaves or enters has both or neither, and joined    *)
(* when this holds of every set of whole trees.                            *)

Undivided(C) == \A s, t \in Sources : t \in declared[s] => (s \in C <=> t \in C)

WholeTrees(C) == \A s \in Sources : s \in C <=> parent[s] \in C

Tied(s, t) == \A C \in SUBSET Sources : Undivided(C) => (s \in C <=> t \in C)

Joined(s, t) == \A C \in SUBSET Sources : WholeTrees(C) => (s \in C <=> t \in C)

Declared == {p \in Sources \X Sources : p[2] \in declared[p[1]]}

FamilyTypeOK ==
    /\ declared \in [Sources -> SUBSET (Sources \cup Unknown)]
    /\ parent \in [Sources -> Sources]
    /\ unions \subseteq Declared
    /\ \/ pair = <<>> /\ cursor = Idle /\ roots = <<>>
       \/ /\ pair \in Declared /\ cursor \in Sources
          /\ roots = <<>> \/ (roots \in Seq(Sources) /\ Len(roots) = 1)

(* No parents run in a circle.                                             *)
IsForest == \A S \in (SUBSET Sources) \ {{}} : ClosedUp(S) => \E s \in S : parent[s] = s

(* A tree grows over declared dependencies only.                           *)
TreesAreTied == \A s \in Sources : Tied(s, parent[s])

(* find stays in the tree of the member it was called for.                 *)
FindStays ==
    pair # <<>> =>
        IF roots = <<>>
        THEN Tied(pair[1], cursor) /\ Joined(pair[1], cursor)
        ELSE /\ parent[roots[1]] = roots[1]
             /\ Tied(pair[1], roots[1]) /\ Joined(pair[1], roots[1])
             /\ Tied(pair[2], cursor) /\ Joined(pair[2], cursor)

(* What is not to be united any more is united.                            *)
UnitedAreJoined ==
    \A p \in Declared : p \in unions \/ p = pair \/ Joined(p[1], p[2])

ForestInv == FamilyTypeOK /\ IsForest /\ TreesAreTied /\ FindStays /\ UnitedAreJoined

(* A verdict is computed from the families once they are final, and its    *)
(* standing is the one of its evidence.                                    *)
VerdictIsComputed ==
    \/ verdict = Unjudged
    \/ /\ Grouped
       /\ \E S \in SUBSET Sources, k \in 0..2, quality \in {0, 100}, scoped \in BOOLEAN :
             verdict = VerdictOn(S, k, quality, scoped)

FamilyInv == ForestInv /\ VerdictIsComputed
=============================================================================
