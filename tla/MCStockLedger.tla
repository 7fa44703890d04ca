--------------------------- MODULE MCStockLedger ---------------------------
(* Two orders of two items, the cancellation of one, a transfer between     *)
(* boxes, a correction and a damage marking.  The first product of order A  *)
(* may change hands: it is in lot a of one store, or in lot c of another.   *)
EXTENDS StockLedger, TLC
CONSTANTS a, b, c, x, y, saleA, saleB, cancelA, h1, h2

Simple(lot, type, qty) ==
    [lot |-> lot, type |-> type, qty |-> qty, from |-> NoBox, to |-> NoBox,
     amends |-> 0, aim |-> 0]
One(ref, lot, type) == [ref |-> ref, legs |-> <<Simple(lot, type, 1)>>]

Sale(ref, first, second) ==
    [op |-> "post", shared |-> TRUE,
     moves |-> <<One(ref, first, "outbound"), One(ref, second, "outbound")>>]
Revert(ref, first, second) ==
    [op |-> "post", shared |-> FALSE,
     moves |-> <<One(ref, first, "inbound"), One(ref, second, "inbound")>>]
\* StockService.move of a transfer: a debit in x and a credit in y.
Transfer ==
    [op |-> "post", shared |-> FALSE,
     moves |-> <<[ref |-> NoRef,
                  legs |-> <<[Simple(a, "adjustment", -1) EXCEPT !.from = x],
                             [Simple(a, "adjustment", 1) EXCEPT !.to = y]>>]>>]

HandlersAlike == Permutations(Handlers)
AllPosts ==
    {Sale(saleA, a, b), Sale(saleA, c, b), Sale(saleB, b, a),
     Revert(cancelA, a, b), Revert(cancelA, c, b), Transfer}
ToTwo == {[op |-> "correct", lot |-> a, target |-> 2]}
OneDamaged == {[op |-> "damage", lot |-> a, qty |-> 1]}
=============================================================================
