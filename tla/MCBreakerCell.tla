--------------------------- MODULE MCBreakerCell ---------------------------
(* Instances of BreakerCell for TLC.                                       *)
EXTENDS BreakerCell, TLC

MCPowerOfTwo == [k \in 0 .. WordBits |-> 2 ^ k]
Symmetry == Permutations(Requests)
=============================================================================
