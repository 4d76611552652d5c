----------------------------- MODULE MCMetering -----------------------------
(* Instances of Metering for TLC.                                          *)
EXTENDS Metering, TLC

Symmetry == Permutations(Requests)
=============================================================================
