---------------------------- MODULE MCBlockFile ----------------------------
(***************************************************************************)
(* Instances of BlockFile for TLC.  With blocks of two bytes one request   *)
(* fills a part of a block, or its rest, and the other always crosses the  *)
(* end of one; a file of three blocks has a first, an inner and a last     *)
(* one.                                                                    *)
(***************************************************************************)
EXTENDS BlockFile

MCRequests == {<<1>>, <<1, 0, 1>>}
=============================================================================
