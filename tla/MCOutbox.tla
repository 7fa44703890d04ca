------------------------------ MODULE MCOutbox ------------------------------
(* Two drainOnce calls, overlapping in one instance or in two instances.   *)
EXTENDS Outbox, TLC
CONSTANTS r1, r2, c1, c2, m1, m2

TwoCalls == {c1, c2}
OneInstance == [c \in TwoCalls |-> r1]
TwoInstances == [c \in TwoCalls |-> IF c = c1 THEN r1 ELSE r2]

\* The calls of one instance are alike, and so are the messages.
Alike == Permutations(TwoCalls) \cup Permutations({m1, m2})
=============================================================================
