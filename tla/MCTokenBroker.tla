---------------------------- MODULE MCTokenBroker ----------------------------
(* The calls are alike; the second token of one account has no expiresAt,  *)
(* that of the other no refreshToken.                                      *)
EXTENDS TokenBroker, TLC
CONSTANTS i1, k1, k2

Alike == Permutations({k1, k2})
WithoutExpiresAt == {[of |-> 1, no |-> 2]}
WithoutRefreshToken == {[of |-> 2, no |-> 2]}
=============================================================================
