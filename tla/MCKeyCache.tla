----------------------------- MODULE MCKeyCache -----------------------------
(* Instances of KeyCache for TLC.                                          *)
EXTENDS KeyCache, TLC

Symmetry == Permutations(Workers) \cup Permutations(Keys)
=============================================================================
