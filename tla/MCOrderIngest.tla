--------------------------- MODULE MCOrderIngest ---------------------------
(* Two calls of execute() for one order.                                   *)
EXTENDS OrderIngest, TLC
CONSTANTS c1, c2

Two == {c1, c2}
Alike == Permutations(Two)
=============================================================================
