------------------------------ MODULE Standings ------------------------------
(***************************************************************************)
(* How far a claim stands: the score of its supporting and contradicting   *)
(* edges (claims.py), in units of 1/36000 and with the penalty in thirds.  *)
(***************************************************************************)
EXTENDS Integers, FiniteSets, FiniteSetsExt

AtMost(limit, n) == IF n < limit THEN n ELSE limit

NoPenalty(contradicting) == 3

Penalty(contradicting) == 3 - AtMost(3, contradicting)

SumOver(value, S) == MapThenSumSet(LAMBDA e : value[e], S)

(* An edge carries the size of its source's family, the quality of the     *)
(* source in hundredths and whether the scope of the claim is echoed.      *)
(* Edges are direct, and their spans exact and extracted.                  *)
Score(support, families, contradicting) ==
    LET Mean(value) ==
            IF support = {} THEN 0 ELSE SumOver(value, support) \div Cardinality(support)
        independence == [e \in support |-> 7200 \div e.family]
        quality == [e \in support |-> 36 * e.quality]
        scope == [e \in support |-> IF e.scoped THEN 3600 ELSE 0]
    IN  ( (IF support = {} THEN 0 ELSE 7200 + 3600)
          + Mean(independence) + Mean(quality) + Mean(scope)
          + 1800 * AtMost(3, families)
          + 1800 + 900 ) * Penalty(contradicting)

Standing(support, families, contradicting) ==
    LET score == Score(support, families, contradicting) IN
    IF support = {} /\ contradicting > 0 THEN "contradicted"
    ELSE IF score >= 75600 /\ families >= 2 THEN "supported"
    ELSE IF score >= 54000 THEN "mixed"
    ELSE IF score >= 32400 THEN "weak"
    ELSE "unresolved"

Ranks == [contradicted |-> 0, unresolved |-> 1, weak |-> 2, mixed |-> 3, supported |-> 4]
=============================================================================
