--------------------------- MODULE FolderBuckets ---------------------------
(***************************************************************************)
(* The folders of an image and the buckets their entries are in, on blocks *)
(* of one volume: which blocks are taken when entries are added and moved, *)
(* and which are given back when folders are removed with all that is in   *)
(* them (CompoundFolder.cpp, ContentFolder.cpp:543-618).                   *)
(*                                                                         *)
(* Here a folder is the index table at its start block, and lists buckets; *)
(* a bucket is the table of a content folder, and lists the start blocks   *)
(* of files and folders.  CompoundFolder has the slots, names and caches   *)
(* of one folder, BlockAllocator full volumes.                             *)
(*                                                                         *)
(* removeCompoundFolder removes the entries of a folder one by one and     *)
(* recurses into the folders among them: every removal on the way is a     *)
(* step here.  A bucket is given back by the removal of its last entry     *)
(* only.  One that a move has emptied stays, listed in the index, and is   *)
(* lost with the index.                                                    *)
(***************************************************************************)
EXTENDS Integers, FiniteSets, SequencesExt

CONSTANTS
    Block,        \* the blocks of the volume
    Root,         \* CoreIO::rootBlock
    CONTENT_SIZE  \* the entries a bucket may have

ASSUME BucketsAssumption ==
    IsFiniteSet(Block) /\ Root \notin Block /\ CONTENT_SIZE \in Nat \ {0}

VARIABLES
    kind,     \* what each block is the start of
    lists,    \* the slots in use of the table at each block, and at Root
    extra,    \* what the bucket's object in the cached folder reports beyond
    removing, \* the folders being removed, each in the one before
    kept      \* history: the blocks that the first of them should leave in use

vars == <<kind, lists, extra, removing, kept>>

Table == Block \union {Root}

TypeOK ==
    /\ kind \in [Block -> {"free", "file", "folder", "bucket"}]
    /\ lists \in [Table -> SUBSET Block]
    /\ extra \in [Block -> Nat]
    /\ removing \in Seq(Block)
    /\ kept \subseteq Block

Free == {b \in Block : kind[b] = "free"}
Folders == {Root} \union {b \in Block : kind[b] = "folder"}

(* getAliveEntryCount of a bucket's object. *)
Reported(k) == Cardinality(lists[k]) + extra[k]

(* The buckets without entries. *)
Emptied == {k \in Block : kind[k] = "bucket" /\ lists[k] = {}}

(* The blocks that go with a block: those it leads to, and itself. *)
Within(b) ==
    LET closed(S) == \A t \in S : lists[t] \subseteq S
    IN  {x \in Block : \A S \in SUBSET Block : b \in S /\ closed(S) => x \in S}

Init ==
    /\ kind = [b \in Block |-> "free"]
    /\ lists = [t \in Table |-> {}]
    /\ extra = [b \in Block |-> 0]
    /\ removing = << >>
    /\ kept = {}

-----------------------------------------------------------------------------
(* The bucket an entry comes into: one with room, else a new one.          *)
BucketsFor(f) ==
    LET withRoom == {k \in lists[f] : Reported(k) < CONTENT_SIZE}
    IN  IF withRoom # {} THEN withRoom ELSE Free

(* addFile and addFolder. *)
AddEntry(f, b, type) ==
    /\ removing = << >>
    /\ \E k \in BucketsFor(f) \ {b} :
        /\ kind' = [kind EXCEPT ![k] = "bucket", ![b] = type]
        /\ lists' = [lists EXCEPT ![f] = @ \union {k}, ![k] = @ \union {b}]
    /\ UNCHANGED <<extra, removing, kept>>

(* Fault of the next definition: the slot stays in use. *)
MoveEntry_SlotKept(g, k, b, f) ==
    /\ removing = << >>
    /\ f # g /\ f \notin Within(b)
    /\ \E to \in BucketsFor(f) :
        /\ kind' = [kind EXCEPT ![to] = "bucket"]
        /\ lists' = [lists EXCEPT ![f] = @ \union {to}, ![to] = @ \union {b}]
    /\ UNCHANGED <<extra, removing, kept>>

(* renameEntry from folder g to folder f: putMetaDataOutOfUse, which does  *)
(* not count the slot as dead, and writeNewMetaDataForEntry.  The object   *)
(* of g is dropped then, but for that of the root (CoreFS.cpp:223).  The   *)
(* kernel does not let a folder be moved into itself.                      *)
MoveEntry(g, k, b, f) ==
    /\ removing = << >>
    /\ f # g /\ f \notin Within(b)
    /\ \E to \in BucketsFor(f) :
        /\ kind' = [kind EXCEPT ![to] = "bucket"]
        /\ lists' = [lists EXCEPT ![k] = @ \ {b}, ![f] = @ \union {to}, ![to] = @ \union {b}]
    /\ extra' = IF g = Root THEN [extra EXCEPT ![k] = @ + 1] ELSE extra
    /\ UNCHANGED <<removing, kept>>

-----------------------------------------------------------------------------
(* Fault of the next definition: the bucket stays when its last entry has  *)
(* gone.                                                                   *)
Removed_BucketStays(f, k, b) ==
    /\ kind' = [kind EXCEPT ![b] = "free"]
    /\ lists' = [lists EXCEPT ![b] = {}, ![k] = @ \ {b}]

(* removeFile and removeFolder of CompoundFolder: the entry in bucket k    *)
(* gives back its block, and its slot is out of use; if the bucket reports *)
(* no entry any more, it goes as well.                                     *)
Removed(f, k, b) ==
    LET emptied == Reported(k) = 1
    IN  /\ kind' = [kind EXCEPT ![b] = "free", ![k] = IF emptied THEN "free" ELSE @]
        /\ lists' = [lists EXCEPT ![b] = {}, ![k] = @ \ {b}, ![f] = IF emptied THEN @ \ {k} ELSE @]

(* CoreFS::removeFile. *)
removeFile(f, k, b) ==
    /\ removing = << >>
    /\ kind[b] = "file"
    /\ Removed(f, k, b)
    /\ UNCHANGED <<extra, removing, kept>>

(* CoreFS::removeFolder begins. *)
removeFolder(b) ==
    /\ removing = << >>
    /\ kind[b] = "folder"
    /\ removing' = <<b>>
    /\ kept' = (Block \ Free) \ (Within(b) \ Emptied)
    /\ UNCHANGED <<kind, lists, extra>>

(* removeCompoundFolder finds a file in the folder, *)
RemoveFileIn(k, b) ==
    /\ removing # << >> /\ k \in lists[Last(removing)]
    /\ kind[b] = "file"
    /\ Removed(Last(removing), k, b)
    /\ UNCHANGED <<extra, removing, kept>>

(* ... or a folder, and recurses, *)
RemoveFolderIn(k, b) ==
    /\ removing # << >> /\ k \in lists[Last(removing)]
    /\ kind[b] = "folder"
    /\ removing' = Append(removing, b)
    /\ UNCHANGED <<kind, lists, extra, kept>>

(* Fault of the next definition: what is in the folder stays. *)
UnlinkFolder_NotRecursive(f, k, b) ==
    /\ removing # << >> /\ b = Last(removing)
    /\ Removed(f, k, b)
    /\ removing' = Front(removing)
    /\ UNCHANGED <<extra, kept>>

(* ... and when there is no entry left, unlinks the index.  What the index *)
(* still lists is not looked at.                                           *)
UnlinkFolder(f, k, b) ==
    /\ removing # << >> /\ b = Last(removing)
    /\ \A j \in lists[b] : lists[j] = {}
    /\ Removed(f, k, b)
    /\ removing' = Front(removing)
    /\ UNCHANGED <<extra, kept>>

(* The image is opened again: the objects count their entries anew. *)
Mount ==
    /\ removing = << >>
    /\ extra' = [b \in Block |-> 0]
    /\ UNCHANGED <<kind, lists, removing, kept>>

Next ==
    \/ Mount
    \/ \E f \in Folders, b \in Free, type \in {"file", "folder"} : AddEntry(f, b, type)
    \/ \E f \in Folders : \E k \in lists[f] : \E b \in lists[k] :
        \/ \E to \in Folders : MoveEntry(f, k, b, to)
        \/ removeFile(f, k, b)
        \/ UnlinkFolder(f, k, b)
        \/ removeFolder(b)
        \/ RemoveFileIn(k, b)
        \/ RemoveFolderIn(k, b)

Spec == Init /\ [][Next]_vars
-----------------------------------------------------------------------------
(* A block is in use if and only if a table in use lists it, one, and that *)
(* of the right kind, but for buckets without entries, which may be lost:  *)
(* in the middle of a removal too, no other block is, no table lists a     *)
(* block that was given back, and none is given back twice                 *)
(* (ContentFolder.cpp:599-613, CompoundFolder.cpp:327-331, 347-351).       *)
OnlyEmptiedBucketsAreLost ==
    \A b \in Block :
        LET by == {t \in Table : b \in lists[t]}
        IN  IF kind[b] = "free"
            THEN by = {} /\ lists[b] = {}
            ELSE \/ by = {} /\ b \in Emptied
                 \/ \E t \in by :
                        /\ by = {t}
                        /\ IF kind[b] = "bucket" THEN t \in Folders ELSE t \in Block /\ kind[t] = "bucket"

(* A removal gives back the blocks that were within the folder when it     *)
(* began, at whatever depth, but for the buckets that had no entries, and  *)
(* no other block, but for the bucket the folder was the last entry of     *)
(* (ContentFolder.cpp:591-618).                                            *)
RemovesTheWholeFolder ==
    [][removing # << >> /\ removing' = << >> =>
        LET used == {b \in Block : kind'[b] # "free"}
            own == {k \in kept : kind[k] = "bucket" /\ lists[k] = {removing[1]}}
        IN  used \in {kept, kept \ own}]_vars

(* With every entry removed and every bucket gone from the root's index,   *)
(* no block is in use ("check that all blocks except 0 which is the root   *)
(* folder entry point have been deallocated",                              *)
(* include/test/CoreFSTest.hpp:503-504).                                   *)
DeletingEverythingDeallocatesEverything ==
    removing = << >> /\ lists[Root] = {} => \A b \in Block : kind[b] = "free"
=============================================================================
