---------------------------- MODULE MCLaneCells -----------------------------
(* Instances of LaneCells for TLC.                                         *)
EXTENDS LaneCells, TLC

MCPowerOfTwo == [k \in 0 .. WordBits |-> 2 ^ k]
Symmetry == Permutations(Tasks)
=============================================================================
