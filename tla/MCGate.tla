------------------------------- MODULE MCGate -------------------------------
(* Instances of Gate for TLC.                                              *)
EXTENDS Gate, TLC

MCSymmetry == Permutations(Requests)
=============================================================================
