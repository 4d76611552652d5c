------------------------------- MODULE MCSwrr -------------------------------
(* Instances of Swrr for TLC.                                              *)
EXTENDS Swrr, TLC

MCWeights == <<3, 2>>
=============================================================================
