-------------------------- MODULE MCBlockAllocator --------------------------
(***************************************************************************)
(* Instances of BlockAllocator for TLC.  The root folder is never deleted  *)
(* or truncated; the other files are interchangeable.                      *)
(***************************************************************************)
EXTENDS BlockAllocator, TLC

FileSymmetry == Permutations(Files \ {Root})
=============================================================================
