------------------------------ MODULE BlockPool ------------------------------
(***************************************************************************)
(* What the block builder promises the rest of knoxcrypt, without bytes,   *)
(* deques or counters: a pool of block ids and who holds which.  A block   *)
(* is handed to a holder only while nobody has it, and "can then only be   *)
(* re-used once its been deallocated"                                      *)
(* (include/knoxcrypt/FileBlock.hpp:136-140).                              *)
(***************************************************************************)
CONSTANTS
    Ids,    \* the block ids of the pool
    Holders \* those that can hold blocks: the files of a volume

VARIABLE held \* held[h]: the blocks h holds

HeldBySomebody == UNION {held[h] : h \in Holders}

Disjoint == \A g, h \in Holders : g # h => held[g] \intersect held[h] = {}

(* A volume may be opened with any blocks already handed out. *)
Init == held \in [Holders -> SUBSET Ids] /\ Disjoint

(* A holder obtains a block nobody holds. *)
Take(h) ==
    \E b \in Ids \ HeldBySomebody : held' = [held EXCEPT ![h] = @ \union {b}]

(* A holder gives back some of its blocks. *)
Give(h) ==
    /\ held'[h] \in SUBSET held[h]
    /\ held' = [held EXCEPT ![h] = held'[h]]

Next == \E h \in Holders : Take(h) \/ Give(h)

Spec == Init /\ [][Next]_held
=============================================================================
