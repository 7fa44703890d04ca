-------------------------- MODULE MCOrderReconciler --------------------------
(* Two instances of the backend; one order is paid when they start.        *)
EXTENDS OrderReconciler, TLC
CONSTANTS o1, o2, i1, i2

OnePaid == o1 :> 1 @@ o2 :> 0
Alike == Permutations({i1, i2})
=============================================================================
