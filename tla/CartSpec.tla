------------------------------ MODULE CartSpec ------------------------------
(***************************************************************************)
(* What a cart promises: a quantity for every product, zero for those not  *)
(* in it.  The order of the lines is not part of the promise.              *)
(***************************************************************************)
EXTENDS Integers

CONSTANTS
  ProductIds,    \* product ids a caller may name
  MaxQuantity    \* u32::MAX; a small bound stands for it

VARIABLE quantity

QInit == quantity = [p \in ProductIds |-> 0]

\* Adding merges with what is there and refuses to pass the bound.
QAdd(p, q) ==
  /\ q > 0 /\ quantity[p] + q <= MaxQuantity
  /\ quantity' = [quantity EXCEPT ![p] = @ + q]

\* Setting replaces what is there; setting to zero removes.
QSet(p, q) == quantity' = [quantity EXCEPT ![p] = q]
=============================================================================
