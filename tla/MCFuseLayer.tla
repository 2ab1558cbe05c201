---------------------------- MODULE MCFuseLayer ----------------------------
(***************************************************************************)
(* Instances of FuseLayer for TLC.  Names are only compared for equality;  *)
(* blocks are numbers, and the lowest free one is allocated.               *)
(***************************************************************************)
EXTENDS FuseLayer, TLC

Symmetry == Permutations(Name)
=============================================================================
