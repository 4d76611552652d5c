-------------------------- MODULE MCFirstByteBody ---------------------------
(* An instance of FirstByteBody for TLC: four indices on the wire, two     *)
(* tools remembered and 2 the largest index of a block, so that every cap  *)
(* is reached and every clamp merges two.                                  *)
EXTENDS FirstByteBody

MCWireIndices == 0 .. 3
=============================================================================
