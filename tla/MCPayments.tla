----------------------------- MODULE MCPayments -----------------------------
(* Instances of Payments for TLC.                                          *)
EXTENDS Payments

\* Two totals with the same number of units in two currencies.
MCTotals == {[currency |-> "USD", units |-> 1], [currency |-> "INR", units |-> 1],
             [currency |-> "USD", units |-> 2]}
=============================================================================
