-------------------------- MODULE MCCompoundFolder --------------------------
(***************************************************************************)
(* Instances of CompoundFolder for TLC.  Names are only compared for       *)
(* equality; blocks are numbers, and the lowest free one is allocated.     *)
(***************************************************************************)
EXTENDS CompoundFolder, TLC

Symmetry == Permutations(Name)
=============================================================================
