------------------------------ MODULE MCCarts ------------------------------
(* Instances of Carts for TLC.                                             *)
EXTENDS Carts, TLC

CONSTANTS mug, tea

\* tea is sold in another currency, and four mugs cost more than an Amount holds.
MCPrice == mug :> [currency |-> "USD", units |-> 2] @@ tea :> [currency |-> "INR", units |-> 1]

MCItem(p, q) == [product_id |-> p, quantity |-> q]
MCBodies ==
  {<<MCItem(mug, 1)>>, <<MCItem(mug, 1), MCItem(mug, 4)>>, <<MCItem(tea, 1)>>}

MCSymmetry == Permutations(Requests)
=============================================================================
