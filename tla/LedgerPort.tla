----------------------------- MODULE LedgerPort -----------------------------
(***************************************************************************)
(* What StockLedgerPort promises its callers (order/ports): a movement is  *)
(* idempotent on its reference.  However many requests carry a reference,  *)
(* and however they are retried, one movement is posted for it.            *)
(***************************************************************************)
CONSTANT Refs          \* references of requests

VARIABLE posted        \* the movements that carry each reference

Init == posted = [r \in Refs |-> {}]

\* The first request for a reference posts its movement; later ones post nothing.
Post(r) ==
    /\ posted[r] = {}
    /\ \E id \in posted'[r] : posted' = [posted EXCEPT ![r] = {id}]

Next == \E r \in Refs : Post(r)

Spec == Init /\ [][Next]_posted
=============================================================================
