------------------------------- MODULE MCCart -------------------------------
(* Instances of Cart for TLC.                                              *)
EXTENDS Cart, TLC

CONSTANTS mug, tee, tea, lost

\* tea is sold in another currency, lost is not in the catalog.  One line of
\* tees of the largest quantity, or a few lines of mugs and tees, pass the
\* bound of 12 units.
MCPrice ==
  mug :> [currency |-> "USD", units |-> 1]
    @@ tee :> [currency |-> "USD", units |-> 5]
    @@ tea :> [currency |-> "INR", units |-> 2]
=============================================================================
