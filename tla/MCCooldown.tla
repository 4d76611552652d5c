----------------------------- MODULE MCCooldown -----------------------------
(* Instances of Cooldown for TLC.                                          *)
EXTENDS Cooldown

MCPowerOfTwo == [k \in 0 .. WordBits |-> 2 ^ k]
=============================================================================
