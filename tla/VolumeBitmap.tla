---------------------------- MODULE VolumeBitmap ----------------------------
(***************************************************************************)
(* The volume bitmap of a knoxcrypt image and the functions that read and  *)
(* update it (include/knoxcrypt/detail/DetailKnoxCrypt.hpp): bit x of byte *)
(* y is set while block ByteWidth * y + x is in use.  A byte is the set of *)
(* the positions of its set bits.                                          *)
(*                                                                         *)
(* A definition whose name ends in _ plus the name of a fault is a fault   *)
(* of the definition after it: the properties are checked to tell the two  *)
(* apart.                                                                  *)
(***************************************************************************)
EXTENDS Integers, Sequences, FiniteSets

CONSTANTS
    Blocks,    \* the block count of the image header (io->blocks)
    ByteWidth, \* bits in a byte: 8 in the code
    NoBlock    \* the empty OptionalBlock

ASSUME BlocksAssumption == Blocks \in Nat
ASSUME ByteWidthAssumption == ByteWidth \in Nat \ {0}
ASSUME NoBlockAssumption == NoBlock \notin Int

VARIABLE bitmap \* the bytes of the bitmap as they are in the image

Bits == 0 .. ByteWidth - 1
FullByte == Bits

(* The code rounds down here: the last Blocks % ByteWidth blocks of a      *)
(* volume have no bit.                                                     *)
ByteCount == Blocks \div ByteWidth
Bytes == 0 .. ByteCount - 1
Bitmapped == 0 .. (ByteCount * ByteWidth) - 1

TypeOK == bitmap \in [Bytes -> SUBSET Bits]

-----------------------------------------------------------------------------

isBitSetInByte(byte, bit) == bit \in byte

setBitInByte_NothingButTheBitKept(byte, bit, set) ==
    IF set THEN byte \union {bit} ELSE {}

setBitInByte(byte, bit, set) ==
    IF set THEN byte \union {bit} ELSE byte \ {bit}

getNextAvailableBitInAByte(byte) ==
    IF byte = FullByte
    THEN -1
    ELSE CHOOSE i \in Bits : ~isBitSetInByte(byte, i) /\ \A j \in 0 .. i - 1 : isBitSetInByte(byte, j)

byteThatStoresBit_NotIncremented(block) ==
    IF block < 2 * ByteWidth THEN 0 ELSE ((block - (block % ByteWidth)) \div ByteWidth) - 1

(* Where the bit of a block is: the first byte is a case of its own in the *)
(* code, the others go through the multiple of ByteWidth below the block.  *)
byteThatStoresBit(block) ==
    IF block < ByteWidth THEN 0 ELSE (((block - (block % ByteWidth)) \div ByteWidth) - 1) + 1

bitOfBlock(block) ==
    IF block < ByteWidth THEN block ELSE block % ByteWidth

setBlockToInUse(bm, block, set) ==
    [bm EXCEPT ![byteThatStoresBit(block)] = setBitInByte(@, bitOfBlock(block), set)]

isBlockInUse(bm, block) ==
    LET dat == bm[byteThatStoresBit(block)]
    IN  dat = FullByte \/ isBitSetInByte(dat, bitOfBlock(block))

getNumberOfAllocatedBlocks_NoContinue(bm) ==
    LET full == {i \in Bytes : bm[i] = FullByte}
    IN  ByteWidth * Cardinality(full)
        + Cardinality({at \in Bytes \X Bits : isBitSetInByte(bm[at[1]], at[2])})

(* Counts 8 for a full byte and bit by bit in the others. *)
getNumberOfAllocatedBlocks(bm) ==
    LET full == {i \in Bytes : bm[i] = FullByte}
    IN  ByteWidth * Cardinality(full)
        + Cardinality({at \in (Bytes \ full) \X Bits : isBitSetInByte(bm[at[1]], at[2])})

getNextAvailableBlock_FullBytesNotCounted(bm) ==
    LET open == {i \in Bytes : getNextAvailableBitInAByte(bm[i]) > -1}
        first == CHOOSE i \in open : \A j \in open : i <= j
        bitCounter == IF open = {} THEN Blocks ELSE getNextAvailableBitInAByte(bm[first])
    IN  IF bitCounter = Blocks THEN NoBlock ELSE bitCounter

(* The scan stops at the first byte that is not full; when every byte is,  *)
(* bitCounter has counted all of them and is compared with the block count *)
(* of the header.                                                          *)
getNextAvailableBlock(bm) ==
    LET open == {i \in Bytes : getNextAvailableBitInAByte(bm[i]) > -1}
        first == CHOOSE i \in open : \A j \in open : i <= j
        bitCounter == IF open = {}
                      THEN ByteWidth * ByteCount
                      ELSE ByteWidth * first + getNextAvailableBitInAByte(bm[first])
    IN  IF bitCounter = Blocks THEN NoBlock ELSE bitCounter

blocksFound_EightCounterSkipsFullBytes(bm) ==
    LET eightCounter(i) == ByteWidth * Cardinality({j \in 0 .. i - 1 : bm[j] # FullByte})
        upTo[n \in 0 .. ByteCount * ByteWidth] ==
            IF n = 0 THEN << >>
            ELSE LET i == (n - 1) \div ByteWidth
                     b == (n - 1) % ByteWidth
                 IN  IF isBitSetInByte(bm[i], b) THEN upTo[n - 1]
                     ELSE Append(upTo[n - 1], b + eightCounter(i))
    IN  upTo[ByteCount * ByteWidth]

(* The unset bits as block ids, in the order of the nested loops of        *)
(* getNAvailableBlocks: after n rounds of the inner one they have come to  *)
(* the byte i and the bit b, and eightCounter is ByteWidth * i.            *)
blocksFound(bm) ==
    LET upTo[n \in 0 .. ByteCount * ByteWidth] ==
            IF n = 0 THEN << >>
            ELSE LET i == (n - 1) \div ByteWidth
                     b == (n - 1) % ByteWidth
                 IN  IF isBitSetInByte(bm[i], b) THEN upTo[n - 1]
                     ELSE Append(upTo[n - 1], b + ByteWidth * i)
    IN  upTo[ByteCount * ByteWidth]

(* The result vector has its blocksRequired elements, all zero, before the *)
(* scan fills it from the front.  (With blocksRequired = 0 and a free      *)
(* block the code writes past the empty vector: not modelled here, see     *)
(* BlockAllocator.)                                                        *)
getNAvailableBlocks(bm, blocksRequired) ==
    LET found == blocksFound(bm)
    IN  [k \in 1 .. blocksRequired |-> IF k <= Len(found) THEN found[k] ELSE 0]

-----------------------------------------------------------------------------

Init == bitmap = [i \in Bytes |-> {}]

(* updateVolumeBitmapWithOne, as FileBlock::registerBlockWithVolumeBitmap  *)
(* and FileBlock::unlink call it.                                          *)
updateVolumeBitmapWithOne(block, set) ==
    bitmap' = setBlockToInUse(bitmap, block, set)

Next == \E block \in Bitmapped, set \in BOOLEAN : updateVolumeBitmapWithOne(block, set)

Spec == Init /\ [][Next]_bitmap

-----------------------------------------------------------------------------
(***************************************************************************)
(* Properties.  InUse is the set the bitmap stands for, read block by      *)
(* block through isBlockInUse.                                             *)
(***************************************************************************)

InUse == {b \in Bitmapped : isBlockInUse(bitmap, b)}
Available == Bitmapped \ InUse

Lowest(S) == CHOOSE m \in S : \A x \in S : m <= x

(* An update sets or clears the bit of the block it is called for and      *)
(* disturbs no other block's, wherever in its byte and whatever the byte   *)
(* was (setBlockToInUse, isBlockInUse, which find the bit each by its own  *)
(* computation).                                                           *)
UpdatesOnlyItsBlock ==
    [][\A block \in Bitmapped, set \in BOOLEAN :
          updateVolumeBitmapWithOne(block, set) =>
              InUse' = IF set THEN InUse \union {block} ELSE InUse \ {block}]_bitmap

(* The three readers agree: the shortcut count of                          *)
(* getNumberOfAllocatedBlocks, from which a mount computes freeBlocks, is  *)
(* the number of blocks isBlockInUse reports.                              *)
CountAgrees == getNumberOfAllocatedBlocks(bitmap) = Cardinality(InUse)

(* getNextAvailableBlock finds the lowest available block, and on a volume *)
(* whose block count is a multiple of the byte width it reports that there *)
(* is none exactly when the bitmap is full.                                *)
NextIsLowestAvailable ==
    IF Available # {}
    THEN getNextAvailableBlock(bitmap) = Lowest(Available)
    ELSE Blocks % ByteWidth = 0 => getNextAvailableBlock(bitmap) = NoBlock

(* Asked for no more blocks than are available, getNAvailableBlocks        *)
(* returns that many, the lowest ones, in ascending order; asked for more  *)
(* it returns all of them first and zeros after them.  BlockAllocator      *)
(* represents the block deque by this fact.                                *)
NAvailableAreLowest ==
    \A n \in 1 .. Blocks :
        LET result == getNAvailableBlocks(bitmap, n)
            k == IF n <= Cardinality(Available) THEN n ELSE Cardinality(Available)
        IN  /\ Len(result) = n
            /\ \A i \in 1 .. k : result[i] = Lowest(Available \ {result[j] : j \in 1 .. i - 1})
            /\ \A i \in k + 1 .. n : result[i] = 0

(* What the comment of getNAvailableBlocks says of its result              *)
(* (DetailKnoxCrypt.hpp:356-357), for the request populateBlockDeque makes *)
(* at mount: as many blocks as freeBlocks counts.  Every entry is an       *)
(* available block, fewer than requested when there are not enough.        *)
OnlyAvailableBlocksReturned ==
    LET requested == Blocks - getNumberOfAllocatedBlocks(bitmap)
        result == getNAvailableBlocks(bitmap, requested)
    IN  requested > 0 => \A i \in 1 .. Len(result) : result[i] \in Available
=============================================================================
