--------------------------- MODULE MCContentFolder ---------------------------
(***************************************************************************)
(* Instances of ContentFolder for TLC.  Names and blocks are only compared *)
(* for equality, so that both may be permuted.                             *)
(***************************************************************************)
EXTENDS ContentFolder, TLC

Symmetry == Permutations(Name) \union Permutations(Block)
=============================================================================
