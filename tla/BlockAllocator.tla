--------------------------- MODULE BlockAllocator ---------------------------
(***************************************************************************)
(* Allocation and release of the file blocks of a mounted knoxcrypt volume *)
(* (src/knoxcrypt/FileBlockBuilder.cpp, and the callers in File.cpp and    *)
(* FileBlock.cpp).                                                         *)
(*                                                                         *)
(* In the image: the volume bitmap (inUse), the next index of every block  *)
(* (next) and how many blocks the image file extends over (extent; a       *)
(* sparse image grows as blocks are used).  In the memory of the process   *)
(* that mounted it: CoreIO's freeBlocks and, in its blockBuilder,          *)
(* m_blockDeque and m_blocksWritten.                                       *)
(*                                                                         *)
(* The deque is represented by the set of its ids (cache) and the number   *)
(* of zeros that pad its end (pad): getNAvailableBlocks fills it in        *)
(* ascending order, zeros last (VolumeBitmap!NAvailableAreLowest), and it  *)
(* is only ever popped from the front or replaced.                         *)
(*                                                                         *)
(* A definition whose name ends in _ plus the name of a fault is a fault   *)
(* of the definition after it: the properties are checked to tell the two  *)
(* apart.                                                                  *)
(***************************************************************************)
EXTENDS Integers, Sequences, FiniteSets

CONSTANTS
    Blocks,         \* io->blocks, the block count of the image header
    Bitmapped,      \* how many of them have a bit: 8 * (Blocks \div 8)
    UseBlockCache,  \* io->useBlockCache: TRUE in fuse and teashell
    Sparse,         \* whether the image was made without its blocks
    BlockSize,      \* FILE_BLOCK_SIZE
    BlockMeta,      \* FILE_BLOCK_META
    CounterModulus, \* freeBlocks is a uint64_t: 2^64 in the code
    Files,          \* the files of the volume, the root folder among them
    Root,           \* the root folder
    MaxChain        \* bound on the blocks one file is given

ASSUME VolumeAssumption ==
    /\ Blocks \in Nat /\ Bitmapped \in 1 .. Blocks
    /\ UseBlockCache \in BOOLEAN /\ Sparse \in BOOLEAN
    /\ BlockSize \in Nat \ {0} /\ BlockMeta \in Nat
    /\ CounterModulus \in Nat /\ CounterModulus > Blocks
    /\ Root \in Files
    /\ MaxChain \in Nat

VARIABLES
    inUse,         \* the blocks whose bit is set in the volume bitmap
    next,          \* next[b]: the next index in the header of block b, if it has one
    extent,        \* the image file holds the blocks 0 .. extent - 1
    freeBlocks,    \* CoreIO::freeBlocks
    cache,         \* the ids in m_blockDeque
    pad,           \* the zeros behind them
    blocksWritten, \* FileBlockBuilder::m_blocksWritten
    status,        \* of the process: running, aborted, or past undefined behaviour
    chain,         \* chain[f]: the blocks handed to file f, in order
    overrun        \* history: since the image was made, the last entry of a deque was
                   \* popped, or an id that is not a clear bit was handed out

image == <<inUse, next, extent>>
session == <<freeBlocks, cache, pad, blocksWritten>>
vars == <<image, session, status, chain, overrun>>

Ids == 0 .. Blocks - 1
BitmapIds == 0 .. Bitmapped - 1

(* The image holds no header for a block it does not extend over, nor for  *)
(* one that was skipped.                                                   *)
Unwritten == -1

Status == {"running", "aborted", "undefined"}

TypeOK ==
    /\ inUse \in SUBSET BitmapIds
    /\ next \in [Ids -> Ids \union {Unwritten}]
    /\ extent \in 0 .. Blocks
    /\ freeBlocks \in 0 .. CounterModulus - 1
    /\ cache \in SUBSET BitmapIds
    /\ pad \in Nat
    /\ blocksWritten \in Nat
    /\ status \in Status
    /\ chain \in [Files -> Seq(Ids)]
    /\ overrun \in BOOLEAN

-----------------------------------------------------------------------------

Available == BitmapIds \ inUse

IsLowest(id, S) == id \in S /\ \A x \in S : id <= x

(* The n lowest available blocks: what getNAvailableBlocks finds for a     *)
(* request of n.                                                           *)
LowestAvailable(n) ==
    {b \in Available : Cardinality({c \in Available : c < b}) < n}

(* The zeros left at the end of the vector when it finds fewer than n. *)
Padding(n) ==
    IF n > Cardinality(Available) THEN n - Cardinality(Available) ELSE 0

InitialBlocksWritten_DataBytesOnly == (extent * BlockSize) \div (BlockSize - BlockMeta)

(* getInitialBlocksWritten: the image's data bytes divided by more than    *)
(* the bytes one block takes.                                              *)
InitialBlocksWritten == (extent * BlockSize) \div (BlockMeta + BlockSize)

Init ==
    /\ inUse = {0}
    /\ extent = IF Sparse THEN 1 ELSE Blocks
    /\ next = [b \in Ids |-> IF b < extent THEN b ELSE Unwritten]
    /\ freeBlocks = Blocks - 1
    /\ cache = LowestAvailable(Blocks - 1)
    /\ pad = Padding(Blocks - 1)
    /\ blocksWritten = 0
    /\ status = "running"
    /\ chain = [f \in Files |-> IF f = Root THEN <<0>> ELSE << >>]
    /\ overrun = FALSE

(* A front end opens the image: freeBlocks is what the bitmap leaves, and  *)
(* the blockBuilder is new.  The process before may have ended at any      *)
(* point between two operations, in an abort too.                          *)
Mount ==
    LET free == Blocks - Cardinality(inUse)
    IN  /\ status # "undefined"
        /\ status' = "running"
        /\ freeBlocks' = free
        /\ cache' = LowestAvailable(free)
        /\ pad' = Padding(free)
        /\ blocksWritten' = 0
        /\ UNCHANGED <<image, chain, overrun>>

-----------------------------------------------------------------------------
(***************************************************************************)
(* FileBlockBuilder::buildWritableFileBlock chooses an id, and             *)
(* File::newWritableFileBlock registers the block and links it.            *)
(***************************************************************************)

Popped(id) ==
    \/ IsLowest(id, cache)
    \/ cache = {} /\ pad > 0 /\ id = 0

(* The pop that takes the last entry is followed by a refill at once: the  *)
(* popped block is not registered yet, so its bit is still clear.          *)
PopEmptiesDeque == Cardinality(cache) + pad = 1

(* getNAvailableBlocks(0) writes past its empty vector when a bit is free. *)
RefillIsUndefined == PopEmptiesDeque /\ freeBlocks = 0 /\ Available # {}

PopBlock_FrontKept(id) ==
    /\ Popped(id)
    /\ ~RefillIsUndefined
    /\ UNCHANGED <<cache, pad, overrun>>

PopBlock(id) ==
    /\ Popped(id)
    /\ ~RefillIsUndefined
    /\ IF PopEmptiesDeque
       THEN cache' = LowestAvailable(freeBlocks) /\ pad' = Padding(freeBlocks)
       ELSE cache' = cache \ {id} /\ pad' = IF cache = {} THEN pad - 1 ELSE pad
    /\ overrun' = (overrun \/ PopEmptiesDeque \/ cache = {})

NextAvailableBlock_NotLowest(id) ==
    /\ id \in Available
    /\ UNCHANGED <<cache, pad, overrun>>

(* Without the deque: the first unset bit, or the first block past the     *)
(* bitmap when that is full and the volume has such a block.               *)
NextAvailableBlock(id) ==
    /\ IF Available # {} THEN IsLowest(id, Available) ELSE id = Bitmapped /\ Bitmapped < Blocks
    /\ overrun' = (overrun \/ Available = {})
    /\ UNCHANGED <<cache, pad>>

(* writeBlock is called for an id the builder does not know to be written. *)
KnownWritten == IF blocksWritten = 0 THEN InitialBlocksWritten ELSE blocksWritten
MustWrite(id) == id >= KnownWritten

WriteIfSparse(id) ==
    IF MustWrite(id)
    THEN blocksWritten' = KnownWritten + 1 /\ extent' = IF id < extent THEN extent ELSE id + 1
    ELSE blocksWritten' = KnownWritten /\ UNCHANGED extent

(* writeBlock gives the block its own index as next index; then the        *)
(* working block of the file, when it has one, is linked to the new one.   *)
LinkBlock(f, id) ==
    LET written == IF MustWrite(id) THEN [next EXCEPT ![id] = id] ELSE next
    IN  /\ next' = IF chain[f] = << >>
                   THEN written
                   ELSE [written EXCEPT ![chain[f][Len(chain[f])]] = id]
        /\ chain' = [chain EXCEPT ![f] = Append(@, id)]

Register_OnlyWhenWritten(id) ==
    /\ inUse' = IF MustWrite(id) THEN inUse \union ({id} \intersect BitmapIds) ELSE inUse
    /\ freeBlocks' = (freeBlocks - 1) % CounterModulus

(* registerBlockWithVolumeBitmap.  A bit past the bitmap lands in the file *)
(* count, which nothing reads.                                             *)
Register(id) ==
    /\ inUse' = inUse \union ({id} \intersect BitmapIds)
    /\ freeBlocks' = (freeBlocks - 1) % CounterModulus

NewWritableFileBlock(f) ==
    /\ status = "running"
    /\ Len(chain[f]) < MaxChain
    /\ \E id \in Ids :
        /\ IF UseBlockCache THEN PopBlock(id) ELSE NextAvailableBlock(id)
        /\ WriteIfSparse(id)
        /\ Register(id)
        /\ LinkBlock(f, id)
    /\ UNCHANGED status

(* Dereferencing the empty OptionalBlock fails boost's assertion: the      *)
(* Makefile does not define NDEBUG.                                        *)
AbortWhenFull ==
    /\ status = "running"
    /\ ~UseBlockCache /\ Available = {} /\ Bitmapped = Blocks
    /\ status' = "aborted"
    /\ UNCHANGED <<image, session, chain, overrun>>

(* front() and pop_front() of an empty deque, or a refill that writes past *)
(* its vector: nothing is said of what follows.                            *)
UndefinedPop ==
    /\ status = "running"
    /\ UseBlockCache
    /\ (cache = {} /\ pad = 0) \/ RefillIsUndefined
    /\ status' = "undefined"
    /\ UNCHANGED <<image, session, chain, overrun>>

-----------------------------------------------------------------------------

BlocksOf(f) == {chain[f][i] : i \in 1 .. Len(chain[f])}

(* The blocks handed out are all different.  Once they are not, the links  *)
(* on disk no longer show what was handed to whom; unlinking and           *)
(* truncating such chains is BlockFile's subject.                          *)
Unshared(f) ==
    \A i \in 1 .. Len(chain[f]) : \A g \in Files : \A j \in 1 .. Len(chain[g]) :
        chain[f][i] = chain[g][j] => f = g /\ i = j

Unlink_CountedOnce(f) ==
    /\ status = "running"
    /\ f # Root /\ chain[f] # << >> /\ Unshared(f)
    /\ inUse' = inUse \ BlocksOf(f)
    /\ freeBlocks' = (freeBlocks + 1) % CounterModulus
    /\ next' = [b \in Ids |-> IF b \in BlocksOf(f) THEN b ELSE next[b]]
    /\ chain' = [chain EXCEPT ![f] = << >>]
    /\ UNCHANGED <<extent, cache, pad, blocksWritten, status, overrun>>

Unlink_LinksKept(f) ==
    /\ status = "running"
    /\ f # Root /\ chain[f] # << >> /\ Unshared(f)
    /\ inUse' = inUse \ BlocksOf(f)
    /\ freeBlocks' = (freeBlocks + Len(chain[f])) % CounterModulus
    /\ chain' = [chain EXCEPT ![f] = << >>]
    /\ UNCHANGED <<next, extent, cache, pad, blocksWritten, status, overrun>>

(* File::unlink: every block of the chain has its bit cleared and its next *)
(* index set to its own, and freeBlocks is incremented for it.             *)
Unlink(f) ==
    /\ status = "running"
    /\ f # Root /\ chain[f] # << >> /\ Unshared(f)
    /\ inUse' = inUse \ BlocksOf(f)
    /\ freeBlocks' = (freeBlocks + Len(chain[f])) % CounterModulus
    /\ next' = [b \in Ids |-> IF b \in BlocksOf(f) THEN b ELSE next[b]]
    /\ chain' = [chain EXCEPT ![f] = << >>]
    /\ UNCHANGED <<extent, cache, pad, blocksWritten, status, overrun>>

Truncate_LastBlockDeallocated(f, k) ==
    /\ status = "running"
    /\ f # Root /\ k \in 1 .. Len(chain[f]) /\ Unshared(f)
    /\ inUse' = inUse \ {chain[f][i] : i \in k .. Len(chain[f])}
    /\ freeBlocks' = (freeBlocks + Len(chain[f]) - k + 1) % CounterModulus
    /\ next' = [next EXCEPT ![chain[f][k]] = chain[f][k]]
    /\ chain' = [chain EXCEPT ![f] = SubSeq(@, 1, k)]
    /\ UNCHANGED <<extent, cache, pad, blocksWritten, status, overrun>>

(* File::truncate: the block the new end is in becomes the last of the     *)
(* chain.  The blocks behind it keep their bits.                           *)
Truncate(f, k) ==
    /\ status = "running"
    /\ f # Root /\ k \in 1 .. Len(chain[f]) /\ Unshared(f)
    /\ next' = [next EXCEPT ![chain[f][k]] = chain[f][k]]
    /\ chain' = [chain EXCEPT ![f] = SubSeq(@, 1, k)]
    /\ UNCHANGED <<inUse, extent, session, status, overrun>>

Next ==
    \/ Mount
    \/ \E f \in Files : NewWritableFileBlock(f)
    \/ AbortWhenFull
    \/ UndefinedPop
    \/ \E f \in Files : Unlink(f)
    \/ \E f \in Files : \E k \in 1 .. MaxChain : Truncate(f, k)

Spec == Init /\ [][Next]_vars

-----------------------------------------------------------------------------
(***************************************************************************)
(* Properties.  A volume is Sound while, since the image was made, no      *)
(* deque ran empty and no block was asked for with the bitmap full.        *)
(***************************************************************************)

Sound == ~overrun

(* A block handed to a file is not handed out again, to it or to another,  *)
(* until it has been deallocated (FileBlock.hpp:137-139).                  *)
Exclusive == \A f \in Files : Unshared(f)
ExclusiveWhileSound == Sound => Exclusive

(* The blocks handed out are marked in the bitmap: a mount cannot take one *)
(* of them for free.                                                       *)
HandedOutIsMarked == \A f \in Files : BlocksOf(f) \subseteq inUse
MarkedWhileSound == Sound => HandedOutIsMarked

(* The links on disk are those of the chain handed out: walking a file     *)
(* from its first block, as FileBlockIterator does, meets exactly its      *)
(* blocks, in order, and ends.                                             *)
LinksAreChain(f) ==
    \A i \in 1 .. Len(chain[f]) :
        next[chain[f][i]] = IF i < Len(chain[f]) THEN chain[f][i + 1] ELSE chain[f][i]
ChainsOnDisk == Sound => \A f \in Files : LinksAreChain(f)

(* freeBlocks, kept by increments and decrements over a session, is what a *)
(* mount would compute from the bitmap; it never wraps.                    *)
FreeCountExact == Sound => freeBlocks + Cardinality(inUse) = Blocks

(* No entry of the deque is in use: whatever is popped is free.            *)
CacheIsFree == Sound /\ UseBlockCache => cache \intersect inUse = {}

(* The header of every block in use is in the image, although              *)
(* getInitialBlocksWritten only estimates how many are; the estimate is    *)
(* never too high.                                                         *)
HeadersWritten ==
    Sound => inUse \subseteq 0 .. extent - 1 /\ blocksWritten <= extent

(* A sparse image grows without a hole: a block written past its end is    *)
(* the next one.                                                           *)
GrowsByOne == [][Sound' => extent' <= extent + 1]_vars

(* The allocator hands out and takes back blocks as the abstract pool      *)
(* does, on the volumes on which the code keeps the promise: no block      *)
(* cache, a bit for every block.                                           *)
Pool == INSTANCE BlockPool
            WITH Ids <- Ids, Holders <- Files, held <- [f \in Files |-> BlocksOf(f)]
ImplementsBlockPool == Pool!Spec

(* CoreFSTest::testThatDeletingEverythingDeallocatesEverything: once every *)
(* file is deleted, only the blocks of the root folder are in use.         *)
DeletingEverythingDeallocatesEverything ==
    Sound /\ (\A f \in Files \ {Root} : chain[f] = << >>) => inUse = BlocksOf(Root)

(***************************************************************************)
(* The inductive invariant behind them.  What must be added: a free block  *)
(* has a clean header or none, and the deque holds every block past the    *)
(* end of the image.                                                       *)
(***************************************************************************)

FreeHeaders ==
    \A b \in Ids \ inUse : next[b] = IF b < extent THEN b ELSE Unwritten

CacheCoversUnwritten ==
    UseBlockCache => {b \in BitmapIds : b >= extent} \subseteq cache

IInv ==
    /\ TypeOK
    /\ ~UseBlockCache /\ Bitmapped = Blocks => Sound
    /\ ExclusiveWhileSound
    /\ MarkedWhileSound
    /\ ChainsOnDisk
    /\ FreeCountExact
    /\ CacheIsFree
    /\ HeadersWritten
    /\ Sound => FreeHeaders /\ CacheCoversUnwritten
=============================================================================
