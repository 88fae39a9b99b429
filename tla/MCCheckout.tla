----------------------------- MODULE MCCheckout -----------------------------
(* Instances of Checkout for TLC.                                          *)
EXTENDS Checkout, TLC

Usd(n) == [currency |-> "USD", units |-> n]
Inr(n) == [currency |-> "INR", units |-> n]

\* Two sessions over 1 exhaust the demo cap of 2, and exceed the cap of 1 of a
\* later registration; a rupee total can only be charged under a rupee cap.
MCTotals == {Usd(1), Inr(1)}
MCDemoCap == Usd(2)
MCLiveTotals == {Usd(2)}
MCUnitTotal == {Usd(1)}
MCOneCap == {Usd(1)}
MCCaps == {Usd(1), Inr(1)}

MCSymmetry == Permutations(Requests) \cup Permutations(SessionIds)
=============================================================================
