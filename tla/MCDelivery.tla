----------------------------- MODULE MCDelivery -----------------------------
(* Small instances of Delivery for TLC.                                    *)
EXTENDS Delivery, TLC

CONSTANTS p1, p2, supported, unsupported, report

(* Two contents differ in the evidence only: the report stays the same.    *)
MCReportOf == [c \in Content |-> IF c = Empty THEN Empty ELSE report]

(* Emptied, damaged, or written by hand: the plan and the content matter   *)
(* to nobody, since all reports are the same.                              *)
MCEdits ==
    {NoDelivery, Unreadable,
     [complete |-> TRUE, own |-> FALSE, plan |-> 0, content |-> supported]}

(* States that differ only in what nothing reads are one: the task status  *)
(* short of succeeded or cancelled, and what an incomplete delivery        *)
(* manifest names.                                                         *)
Told(status) == IF status \in {"succeeded", "cancelled"} THEN status ELSE "open"

Read(d) ==
    IF d.complete THEN d
    ELSE [complete |-> FALSE, empty |-> d = NoDelivery, damaged |-> d = Unreadable]

View ==
    <<[manifest EXCEPT !.status = Told(@)], committed, projected, disk,
      Read(delivery), Read(published), pc, mode,
      [p \in Processes |-> [check[p] EXCEPT !.status = Told(@)]], latest>>

ProcessSymmetry == Permutations({p1, p2})

=============================================================================
