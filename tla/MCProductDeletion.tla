-------------------------- MODULE MCProductDeletion --------------------------
(* Two listings, and two requests to delete the product.                    *)
EXTENDS ProductDeletion, TLC
CONSTANTS a, b, r1, r2

Alike == Permutations({a, b}) \cup Permutations({r1, r2})
=============================================================================
