------------------------------ MODULE BlockFile ------------------------------
(***************************************************************************)
(* A file kept in a chain of file blocks, and the File object a caller     *)
(* reads, writes, seeks and truncates it through (src/knoxcrypt/File.cpp,  *)
(* FileBlock.cpp, FileBlockIterator.cpp).                                  *)
(*                                                                         *)
(* In the image: header[b], the size and next index of block b, and        *)
(* data[b], its bytes.  In memory: the File object (file) with its working *)
(* block, which keeps a copy of what the header held when it was built.    *)
(* The blocks a file is given are fresh ones, in the order 1, 2, ...:      *)
(* BlockAllocator says when that is so.                                    *)
(*                                                                         *)
(* The File object keeps no promise to every caller.  The calls it cannot  *)
(* serve are made only when Misuse permits them; the properties hold when  *)
(* it permits none.                                                        *)
(*                                                                         *)
(* A definition whose name ends in _ plus the name of a fault is a fault   *)
(* of the definition after it: the properties are checked to tell the two  *)
(* apart.                                                                  *)
(***************************************************************************)
EXTENDS Integers, Sequences, SequencesExt

CONSTANTS
    Space,       \* blockWriteSpace(): the data bytes of a block
    MaxBlocks,   \* bound on the blocks the file is given
    Bytes, Zero, \* the values of a byte, and the one new blocks hold
    Foreign,     \* a byte read behind the end of a block
    Requests,    \* the sequences of bytes that are written
    MaxRequest,  \* bound on the bytes of one read or write
    MaxOffset,   \* bound on the distance of a seek from the current position
    Misuse       \* the calls that are made although File cannot serve them

ASSUME FileAssumption ==
    /\ Space \in Nat \ {0} /\ MaxBlocks \in Nat \ {0} /\ MaxRequest \in Nat /\ MaxOffset \in Nat
    /\ Zero \in Bytes /\ Foreign \notin Bytes
    /\ \A bytes \in Requests : bytes \in Seq(Bytes) /\ Len(bytes) \in 1 .. MaxRequest
    /\ Misuse \subseteq {"seekMultiple", "seekPastEnd", "readAtBoundary", "growInOverwrite",
                         "appendBeforeEnd", "truncateToGrow", "useAfterTruncate"}

VARIABLES
    header, data, \* the blocks in the image
    start,        \* the start block in the entry's metadata, NoBlock before creation
    used,         \* how many blocks were handed to the file
    file,         \* the File object
    standing,     \* of the object: usable, positioned nowhere (seek failed), not usable
    call          \* the last read or write: the count asked for, the bytes transferred

image == <<header, data, start, used>>
vars == <<image, file, standing, call>>

Ids == 1 .. MaxBlocks
NoBlock == 0
Modes == {"Append", "Overwrite", "ReadOnly"}
NoCall == [asked |-> 0, bytes |-> << >>]

Least(a, b) == IF a < b THEN a ELSE b
Abs(a) == IF a < 0 THEN -a ELSE a

-----------------------------------------------------------------------------
(***************************************************************************)
(* Blocks and chains.                                                      *)
(***************************************************************************)

(* FileBlock's constructor for a block that is in the image. *)
BlockAt(hdr, b) ==
    [id |-> b, seekPos |-> 0, next |-> hdr[b].next,
     bytesWritten |-> hdr[b].size, initialBytesWritten |-> hdr[b].size]

(* The blocks FileBlockIterator visits from b on: it ends at a block that  *)
(* is its own next.                                                        *)
ChainFrom(hdr, b) ==
    LET walk[n \in 1 .. MaxBlocks] ==
            IF n = 1 THEN <<b>>
            ELSE LET c == walk[n - 1]
                 IN  IF hdr[Last(c)].next = Last(c) THEN c ELSE Append(c, hdr[Last(c)].next)
    IN  IF b = NoBlock THEN << >> ELSE walk[MaxBlocks]

Chain == ChainFrom(header, start)

(* k bytes of a block from seekPos on.  What lies behind the block is not  *)
(* the file's.                                                             *)
BytesOf(block, seekPos, k) ==
    [i \in 1 .. k |-> IF seekPos + i <= Space THEN block[seekPos + i] ELSE Foreign]

(* The sizes of the blocks of a chain, summed up, and their bytes. *)
SizeOf(hdr, chain) ==
    LET upTo[n \in 0 .. Len(chain)] ==
            IF n = 0 THEN 0 ELSE upTo[n - 1] + hdr[chain[n]].size
    IN  upTo[Len(chain)]

ContentOf(hdr, dat, chain) ==
    LET upTo[n \in 0 .. Len(chain)] ==
            IF n = 0 THEN << >>
            ELSE upTo[n - 1] \o BytesOf(dat[chain[n]], 0, hdr[chain[n]].size)
    IN  upTo[Len(chain)]

Content == ContentOf(header, data, Chain)

Closed ==
    [mode |-> "ReadOnly", fileSize |-> 0, blockCount |-> 0, blockIndex |-> 0, pos |-> 0,
     work |-> [id |-> NoBlock, seekPos |-> 0, next |-> NoBlock,
               bytesWritten |-> 0, initialBytesWritten |-> 0]]

Init ==
    /\ header = [b \in Ids |-> [size |-> 0, next |-> b]]
    /\ data = [b \in Ids |-> [i \in 1 .. Space |-> Zero]]
    /\ start = NoBlock /\ used = 0
    /\ file = Closed /\ standing = "unusable"
    /\ call = NoCall

(* A new File asked for its start block (getStartVolumeBlockIndex), as     *)
(* ContentFolder::addFile does; the object is dropped.                     *)
Create ==
    /\ start = NoBlock
    /\ start' = 1 /\ used' = 1
    /\ UNCHANGED <<header, data, file, standing, call>>

-----------------------------------------------------------------------------
(***************************************************************************)
(* Seeking.  A position is a pair of a block index and a position in that  *)
(* block.                                                                  *)
(***************************************************************************)

PositionFromBegin(off) ==
    IF off > Space
    THEN IF off % Space > 0
         THEN <<off \div Space, off % Space>>
         ELSE <<off \div Space - 1, 0>>
    ELSE <<0, off>>

PositionFromEnd_BlockKept(off, endBlock, bytesInEnd) ==
    LET begin == PositionFromBegin(Abs(off))
        inBlock == bytesInEnd - begin[2]
    IN  <<endBlock - begin[1], IF inBlock < 0 THEN Space + inBlock ELSE inBlock>>

PositionFromEnd(off, endBlock, bytesInEnd) ==
    LET begin == PositionFromBegin(Abs(off))
        inBlock == bytesInEnd - begin[2]
    IN  IF inBlock < 0
        THEN <<endBlock - begin[1] - 1, Space + inBlock>>
        ELSE <<endBlock - begin[1], inBlock>>

PositionFromCurrent(off, blockIndex, seekPos) ==
    LET addition == off + seekPos
        leftOver == Abs(addition) % Space
        blocks == Abs(addition) \div Space
    IN  IF addition >= 0
        THEN <<blockIndex + blocks, leftOver>>
        ELSE <<blockIndex - (blocks + 1), Space - leftOver>>

(* The position a seek asks for in f, and the stream position it reports.  *)
Target(f, off, way) ==
    CASE way = "beg" -> PositionFromBegin(off)
      [] way = "end" -> PositionFromEnd(off, f.blockCount - 1, header[Chain[f.blockCount]].size)
      [] way = "cur" -> PositionFromCurrent(off, f.blockIndex, f.work.seekPos)

StreamPosition(f, off, way) ==
    CASE way = "beg" -> off
      [] way = "end" -> f.fileSize + off
      [] way = "cur" -> f.pos + off

InBounds(f, target) == target[1] >= 0 /\ target[1] < f.blockCount

Positioned(f, off, way) ==
    LET target == Target(f, off, way)
    IN  [f EXCEPT !.blockIndex = target[1],
                  !.work = [BlockAt(header, Chain[target[1] + 1]) EXCEPT !.seekPos = target[2]],
                  !.pos = StreamPosition(f, off, way)]

(* Of a position behind the end File::seek checks only the block.  Above   *)
(* Space, a multiple of Space is taken for the start of the block before.  *)
Seekable(off, way) ==
    /\ InBounds(file, Target(file, off, way)) /\ StreamPosition(file, off, way) > Len(Content) =>
          "seekPastEnd" \in Misuse
    /\ way # "cur" /\ Abs(off) > Space /\ Abs(off) % Space = 0 => "seekMultiple" \in Misuse

(* A seek that fails has already put the working block back to 0, unless   *)
(* it was relative to the current position.                                *)
Seek(off, way) ==
    /\ standing = "usable" \/ (standing = "unpositioned" /\ way # "cur")
    /\ Seekable(off, way)
    /\ IF InBounds(file, Target(file, off, way))
       THEN file' = Positioned(file, off, way) /\ standing' = "usable"
       ELSE IF way = "cur"
            THEN UNCHANGED <<file, standing>>
            ELSE file' = [file EXCEPT !.work.seekPos = 0] /\ standing' = "unpositioned"
    /\ call' = NoCall
    /\ UNCHANGED image

(* File's constructor for an existing file, in a disposition that keeps    *)
(* what is there: blocks are counted, the first one becomes the working    *)
(* block, and in append mode the end is sought.                            *)
Open(mode) ==
    LET counted == [mode |-> mode, fileSize |-> SizeOf(header, Chain), blockCount |-> Len(Chain),
                    blockIndex |-> 0, pos |-> 0, work |-> BlockAt(header, start)]
    IN  /\ start # NoBlock
        /\ file' = IF mode = "Append" THEN Positioned(counted, 0, "end") ELSE counted
        /\ standing' = "usable"
        /\ call' = NoCall
        /\ UNCHANGED image

-----------------------------------------------------------------------------
(***************************************************************************)
(* Reading: st is the File object and the bytes read so far.               *)
(***************************************************************************)

(* A difference of uint32_t: behind the bytes of the block it is more than *)
(* any request.                                                            *)
bytesToBlockEnd(work) ==
    IF work.seekPos <= work.bytesWritten
    THEN work.bytesWritten - work.seekPos
    ELSE MaxRequest + 1

readWorkingBlockBytes_LastBlockNotReached(st, n) ==
    LET size == bytesToBlockEnd(st.file.work)
        k == Least(size, n - Len(st.bytes))
        read == [st.file EXCEPT !.work.seekPos = @ + k]
    IN  [file |-> IF read.blockIndex + 2 < read.blockCount /\ k = size
                  THEN [read EXCEPT !.blockIndex = @ + 1, !.work = BlockAt(header, @.next)]
                  ELSE read,
         bytes |-> st.bytes \o BytesOf(data[st.file.work.id], st.file.work.seekPos, k),
         atEnd |-> k = 0]

readWorkingBlockBytes(st, n) ==
    LET size == bytesToBlockEnd(st.file.work)
        k == Least(size, n - Len(st.bytes))
        read == [st.file EXCEPT !.work.seekPos = @ + k]
    IN  [file |-> IF read.blockIndex + 1 < read.blockCount /\ k = size
                  THEN [read EXCEPT !.blockIndex = @ + 1, !.work = BlockAt(header, @.next)]
                  ELSE read,
         bytes |-> st.bytes \o BytesOf(data[st.file.work.id], st.file.work.seekPos, k),
         atEnd |-> k = 0]

(* The loop ends when a block gives no byte, although the next one may. A  *)
(* round that gives any gives one at least: after n the loop is done.      *)
ReadLoop(f, n) ==
    LET after[k \in 0 .. n] ==
            IF k = 0 THEN [file |-> f, bytes |-> << >>, atEnd |-> FALSE]
            ELSE LET st == after[k - 1]
                 IN  IF st.atEnd \/ Len(st.bytes) = n THEN st ELSE readWorkingBlockBytes(st, n)
    IN  after[n]

AtInnerBoundary ==
    file.work.seekPos = file.work.bytesWritten /\ file.blockIndex + 1 < file.blockCount

Read(n) ==
    LET done == ReadLoop(file, n)
    IN  /\ standing = "usable"
        /\ AtInnerBoundary => "readAtBoundary" \in Misuse
        /\ file' = [done.file EXCEPT !.pos = @ + Len(done.bytes)]
        /\ call' = [asked |-> n, bytes |-> done.bytes]
        /\ UNCHANGED <<image, standing>>

-----------------------------------------------------------------------------
(***************************************************************************)
(* Writing: st is the image, the File object and the count of bytes        *)
(* written so far.                                                         *)
(***************************************************************************)

(* Fault of the next definition: the block is not counted. *)
newWritableFileBlock_NotCounted(st) ==
    LET id == st.used + 1
    IN  [st EXCEPT !.used = id,
                   !.header[st.file.work.id].next = id,
                   !.file.blockIndex = @ + 1,
                   !.file.work = [id |-> id, seekPos |-> 0, next |-> id,
                                  bytesWritten |-> 0, initialBytesWritten |-> 0]]

newWritableFileBlock(st) ==
    LET id == st.used + 1
    IN  [st EXCEPT !.used = id,
                   !.header[st.file.work.id].next = id,
                   !.file.blockCount = @ + 1,
                   !.file.blockIndex = st.file.blockCount,
                   !.file.work = [id |-> id, seekPos |-> 0, next |-> id,
                                  bytesWritten |-> 0, initialBytesWritten |-> 0]]

(* Fault of the next definition: the object stays in its mode. *)
checkAndUpdateWorkingBlockWithNew_ModeKept(st) ==
    IF st.file.work.seekPos < Space
    THEN st
    ELSE IF st.file.mode = "Overwrite"
         THEN [st EXCEPT !.file.blockIndex = @ + 1,
                         !.file.work = BlockAt(st.header, @.next)]
         ELSE newWritableFileBlock(st)

(* The working block is full: at the end of the file the object goes over  *)
(* to append mode and takes a new block, before it in overwrite mode it    *)
(* goes on with the next block.                                            *)
checkAndUpdateWorkingBlockWithNew(st) ==
    LET mode == IF st.file.pos >= st.file.fileSize THEN "Append" ELSE st.file.mode
        moved == [st EXCEPT !.file.mode = mode]
    IN  IF st.file.work.seekPos < Space
        THEN st
        ELSE IF mode = "Overwrite"
             THEN [moved EXCEPT !.file.blockIndex = @ + 1,
                                !.file.work = BlockAt(st.header, @.next)]
             ELSE newWritableFileBlock(moved)

(* FileBlock::write of chunk, and the counters of File::write.  In append  *)
(* mode the size of the block grows by the chunk wherever it was written.  *)
writeToWorkingBlock(st, chunk) ==
    LET work == st.file.work
        k == Len(chunk)
        append == st.file.mode = "Append"
        grows == append \/ work.seekPos + k > work.initialBytesWritten
        size == IF append THEN work.bytesWritten + k ELSE work.seekPos + k
    IN  [st EXCEPT
            !.data[work.id] = [i \in 1 .. Space |->
                IF i \in work.seekPos + 1 .. work.seekPos + k THEN chunk[i - work.seekPos] ELSE @[i]],
            !.header[work.id].size = IF grows THEN size ELSE @,
            !.file.work.seekPos = @ + k,
            !.file.work.bytesWritten = IF grows THEN @ + k ELSE @,
            !.file.pos = @ + k,
            !.file.fileSize = IF append THEN @ + k ELSE @,
            !.wrote = @ + k]

(* One round of the loop of File::write: what of bytes is left is written  *)
(* to the block as far as it has space.                                    *)
writeBytes(st, bytes) ==
    LET ready == checkAndUpdateWorkingBlockWithNew(st)
        k == Least(Len(bytes) - st.wrote, Space - ready.file.work.seekPos)
    IN  writeToWorkingBlock(ready, SubSeq(bytes, st.wrote + 1, st.wrote + k))

WriteLoop(bytes) ==
    LET after[k \in 0 .. Len(bytes)] ==
            IF k = 0
            THEN [header |-> header, data |-> data, used |-> used, file |-> file, wrote |-> 0]
            ELSE LET st == after[k - 1]
                 IN  IF st.wrote = Len(bytes) THEN st ELSE writeBytes(st, bytes)
    IN  after[Len(bytes)]

(* In overwrite mode the object grows a file only through the switch to    *)
(* append mode, which it makes at the end of a full block.                 *)
Writable(n) ==
    /\ file.mode = "Append" /\ file.pos < Len(Content) => "appendBeforeEnd" \in Misuse
    /\ file.mode = "Overwrite" /\ file.pos + n > Len(Content)
          /\ Len(Content) < Len(Chain) * Space => "growInOverwrite" \in Misuse

Write(bytes) ==
    LET done == WriteLoop(bytes)
    IN  /\ standing = "usable" /\ file.mode # "ReadOnly"
        /\ Writable(Len(bytes))
        /\ done.used <= MaxBlocks
        /\ header' = done.header /\ data' = done.data /\ used' = done.used
        /\ file' = done.file
        /\ call' = [asked |-> Len(bytes), bytes |-> bytes]
        /\ UNCHANGED <<start, standing>>

(* The block the new end falls in becomes the last one; when the chain has *)
(* no such block the call throws and changes nothing.  The object keeps    *)
(* its size, its position and its working block, and counts one block too  *)
(* few: a caller has to drop it and build another.                         *)
Truncate(newSize) ==
    LET leftOver == newSize % Space
        index == IF newSize < Space THEN 0
                 ELSE IF leftOver = 0 THEN newSize \div Space - 1 ELSE newSize \div Space
        size == IF newSize >= Space /\ leftOver = 0 THEN Space ELSE leftOver
        block == Chain[index + 1]
    IN  /\ start # NoBlock /\ file # Closed
        /\ index < Len(Chain)
        /\ newSize > Len(Content) => "truncateToGrow" \in Misuse
        /\ header' = [header EXCEPT ![block] = [size |-> size, next |-> block]]
        /\ IF "useAfterTruncate" \in Misuse
           THEN /\ file' = IF newSize < Space THEN file ELSE [file EXCEPT !.blockCount = index]
                /\ UNCHANGED standing
           ELSE file' = Closed /\ standing' = "unusable"
        /\ call' = NoCall
        /\ UNCHANGED <<data, start, used>>

Next ==
    \/ Create
    \/ \E mode \in Modes : Open(mode)
    \/ \E off \in 0 .. MaxBlocks * Space : Seek(off, "beg")
    \/ \E off \in -MaxBlocks * Space .. 0 : Seek(off, "end")
    \/ \E off \in -MaxOffset .. MaxOffset : Seek(off, "cur")
    \/ \E n \in 1 .. MaxRequest : Read(n)
    \/ \E bytes \in Requests : Write(bytes)
    \/ \E newSize \in 0 .. MaxBlocks * Space : Truncate(newSize)

Spec == Init /\ [][Next]_vars

-----------------------------------------------------------------------------
(***************************************************************************)
(* Properties.                                                             *)
(***************************************************************************)

(* Every block of the chain but the last one is full: the arithmetic of    *)
(* seek and truncate, which divide by the block's space, relies on it.     *)
PackedChain ==
    \A i \in 1 .. Len(Chain) - 1 : header[Chain[i]].size = Space

(* Whatever was called before, the stream position tell() reports is where *)
(* the working block stands, and the working block is the block of the     *)
(* chain that the block index says, with the size the image has for it     *)
(* (File::seek, read, write).                                              *)
PositionExact ==
    standing = "usable" =>
        /\ file.pos = file.blockIndex * Space + file.work.seekPos
        /\ file.work.id = Chain[file.blockIndex + 1]
        /\ file.work.bytesWritten = header[file.work.id].size

(* m_fileSize and m_blockCount, kept by increments, are the size and the   *)
(* length of the chain in the image; the size is reported to the folder.   *)
SizeExact ==
    standing = "usable" =>
        file.fileSize = Len(Content) /\ file.blockCount = Len(Chain)

(* Across opens in any mode, seeks, reads, overwrites, appends and         *)
(* truncations the chain of blocks is a file of bytes.                     *)
Abstract ==
    INSTANCE ByteFile
        WITH content <- Content,
             pos <- IF standing = "usable" THEN file.pos ELSE -1,
             call <- call
ImplementsByteFile == Abstract!Spec
=============================================================================
