---------------------------- MODULE MCReservePay ----------------------------
(* Instances of ReservePay for TLC.                                        *)
EXTENDS ReservePay, TLC

\* Every i64 there is: MinUnits to MaxUnits.
MCMinors == Units

MCSymmetry == Permutations(ConsentIds) \cup Permutations(Devices)
=============================================================================
