-------------------------- MODULE MCFolderBuckets --------------------------
(***************************************************************************)
(* Instances of FolderBuckets for TLC.  Blocks are only compared for       *)
(* equality: which of the free ones is taken makes no difference.          *)
(***************************************************************************)
EXTENDS FolderBuckets, TLC

Symmetry == Permutations(Block)
=============================================================================
