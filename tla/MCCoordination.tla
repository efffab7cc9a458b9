--------------------------- MODULE MCCoordination ---------------------------
(* A small instance of Coordination: two tasks, one consumer of each kind. *)
EXTENDS Coordination

CONSTANTS t1, t2, c1, c2, i1, i2, found, help, done

MCContents == {found, help, done}
MCAuthor == [c \in MCContents |-> IF c = done THEN t2 ELSE t1]
MCPayloads == {[task |-> t2, wants |-> {found, help}],
               [task |-> t1, wants |-> {done, Diagnostic}]}
=============================================================================
