# Verification of knoxcrypt

TLA+ modules of knoxcrypt, from the bits of the volume bitmap to the threads of
the window: the allocation of file blocks, the File object that reads and
writes a chain of them, the two kinds of folder that say which chain a name
stands for, the file system with its caches, and the three programs over it
(FUSE, shell, window). TLC checks the modules on small instances; TLAPS proves
safety properties of the bitmap, the allocator, the File object, the folders, the
mounted file system and the window for every value of their constants. Paths
below are relative to the repository.

- [The system](#the-system)
- [Modules](#modules)
- [Runs](#runs)
- [What is proved](#what-is-proved)
- [Where the code departs from its documentation](#where-the-code-departs-from-its-documentation)
- [What is not modelled](#what-is-not-modelled)
- [What is left](#what-is-left)

## The system

A knoxcrypt image is one file: a header, a volume bitmap of one bit per block,
a file count, and fixed-size file blocks, everything behind the header
encrypted. A file is a chain of blocks: every block stores how many of its
bytes are used and the index of the next block, and the last block is its own
next. A folder is itself a file whose bytes are a table of fixed-size entries;
a compound folder spreads its entries over several such tables ("buckets").

| Component | Source | State it keeps | Operations | Talks to |
|---|---|---|---|---|
| Volume bitmap | `include/knoxcrypt/detail/DetailKnoxCrypt.hpp` | the bits in the image | set or clear a bit, next available, N available, count | image stream |
| Block builder | `src/knoxcrypt/FileBlockBuilder.cpp` | a deque of free ids filled at mount, the count of blocks known to be written | `buildWritableFileBlock`, `buildFileBlock` | bitmap, `CoreIO::freeBlocks` |
| File block | `src/knoxcrypt/FileBlock.cpp`, `FileBlockIterator.cpp` | in the image: size, next index, data; in memory: a copy of the header and a position | seek, read, write, register, link, set size, unlink | bitmap, image stream |
| File, file device | `src/knoxcrypt/File.cpp`, `FileDevice.cpp` | position, size, block count, working block, open disposition | read, write, seek, truncate, unlink, flush | builder, blocks; a callback reports the size to the folder's entry info |
| Content folder | `src/knoxcrypt/ContentFolder.cpp`, `EntryInfo.cpp` | the entry table (a File), alive and dead counts, an entry info cache | add, list, rename, put out of use, remove | File |
| Compound folder | `src/knoxcrypt/CompoundFolder.cpp` | a list of buckets of ten entries, a cache of entry infos with bucket numbers | the same, over buckets | content folders |
| CoreFS | `src/knoxcrypt/CoreFS.cpp` | a cache of folders by path, one cached open file, a mutex | the file system calls | compound folders; hands out file devices |
| FUSE layer | `src/fuse/FuseLayer.cpp` | the mounted CoreFS | one callback per system call, in one thread | CoreFS |
| Window and threads | `gui/gui/MainWindow.cpp`, `WorkThread.cpp`, `include/utility/ConcurrentQueue.hpp`, `LoaderThread.cpp`, `ContainerBuilderThread.cpp` | the CoreFS shown, the tree, a queue of work functions, a stop flag | slots; push, pop, stop; load | CoreFS; queued signals between the threads |
| Image builder | `include/utility/MakeKnoxCrypt.hpp` | none | write the initial image | bitmap, compound folder |
| Encrypted stream | `src/knoxcrypt/ContainerImageStream.cpp` | a stream position | read, write, seek | CryptoStreamPP (a submodule) |
| Shell, utilities | `src/utility/Teashell.cpp`, `include/utility/` | a working directory, how far a copy has got | commands; add and extract trees | CoreFS |

What makes it correct, and what is hard about it:

- *Bitmap.* A block's bit is found by arithmetic in five places that must
  agree; there are shortcuts for full bytes; the block count need not be a
  multiple of 8.
- *Allocation.* No block belongs to two files. The free ids live in three
  places (bitmap, deque, counter), and they are brought together only at
  mount. A sparse image holds only the blocks that were written, and how many
  they are is guessed from its size.
- *Files.* A stream position is kept three times (stream position, block index,
  position in the working block), the size twice (in the object, in the chain),
  and the working block is a copy of a header other objects change. The
  boundaries of blocks, the end of the file and the switch from overwriting to
  appending are where these part.
- *Folders and CoreFS.* Caches over caches (folder by path, entry by name,
  bucket by number, one open file), kept valid by hand through renames, moves
  and removals anywhere above and below.
- *Copying trees.* An add or an extract is many calls, each of which may throw.
- *Window.* Three threads, a blocking queue, signals that are handled later, and
  work bound to objects the user can replace or delete meanwhile.

Every hazard of this kind is listed with its line in `PROJECT.json`, with the
properties that cover it or the reason why none does.

## Modules

| Module | Models | Role |
|---|---|---|
| `BlockPool` | what the block builder promises: a pool of ids and who holds which | abstract specification |
| `VolumeBitmap` | the bitmap functions, byte by byte | |
| `VolumeBitmapProofs` | the arithmetic of bytes and bits, and the theorems | proofs |
| `BlockAllocator` | builder, register, link, unlink, truncate, mount | implements `BlockPool` on volumes without the block cache |
| `MCBlockAllocator` | instances of it for TLC | |
| `BlockAllocatorProofs` | the inductive invariant, the theorems, the refinement | proofs |
| `ByteFile` | a file as `File.hpp` presents it: bytes and a position | abstract specification |
| `BlockFile` | File, FileBlock and FileBlockIterator on one chain | implements `ByteFile` |
| `BlockFileProofs` | the inductive invariant, the theorems, the refinement | proofs |
| `MCBlockFile` | instances of it for TLC | |
| `FolderMap` | a folder as its users see it: a map from names to entries | abstract specification |
| `EntryTable` | the table of a content folder and the object that works on it, as operators on a record | used by the next two |
| `EntryTableProofs` | what every operation on a table preserves and does | proofs, used by the next two |
| `ContentFolder` | one content folder with its caches | implements `FolderMap` |
| `ContentFolderProofs` | the inductive invariant, the theorems, the refinement | proofs |
| `MCContentFolder` | instances of it for TLC | |
| `CompoundFolder` | a folder as it is stored: index, buckets, and the cache over them | implements `FolderMap` |
| `CompoundFolderProofs` | the inductive invariant, the theorems, the refinement; and the theorem on `FolderBuckets` | proofs |
| `MCCompoundFolder` | instances of it for TLC | |
| `FolderBuckets` | the folders of an image with their buckets, and the removal of folders with all that is in them | |
| `MCFolderBuckets` | instances of it for TLC | |
| `FileTree` | what a mounted image promises: a tree of files and folders | abstract specification |
| `CoreFS` | the file system with its caches, as operators on a record | used by the next two |
| `FuseLayer` | the FUSE callbacks | implements `FileTree` |
| `FuseLayerProofs` | paths, trees and what every operation of CoreFS does to them; the inductive invariants, the theorems, the refinement | proofs |
| `MCFuseLayer` | instances of it for TLC | |
| `Shell` | the shell's commands, add and extract entry by entry | |
| `MCShell` | instances of it for TLC | |
| `WorkThread` | the worker and its queue | part of the next |
| `MainWindow` | the window, its worker and its loader | |
| `MainWindowProofs` | the inductive invariant and the theorems | proofs |

The modules meet at stated facts. `VolumeBitmap` shows that
`getNAvailableBlocks` returns the lowest available blocks in ascending order
with zeros behind them (`NAvailableAreLowest`); `BlockAllocator` represents the
deque by that set and that count of zeros. `BlockAllocator` shows that the
blocks a file is given are free, fresh and linked in order (`ChainsOnDisk`);
`BlockFile` gives its one file the blocks 1, 2, 3, ... for that reason.
`EntryTable` takes the File under a table for a sequence of slots, as `BlockFile`
shows a File to be one of bytes. The calls a table makes are none of the misuses
below, with two exceptions. A seek to slot 495, the first that starts at a
multiple of the block space, is `seekMultiple`; tables of entries have ten slots
unless slots are lost to moves, and an index has one for every bucket. And a new
slot that is written after an old one was written over or renamed
(`ContentFolder.cpp:290, 518`, then `295`) is `growInOverwrite`. There it does no
harm: the write starts exactly at the end, which the seek finds from the chain,
so that bytes and headers come out right; only the object's own size stays
behind, which no table asks for, and `tell()` by as much, so that the switch to
a new block comes when it should. That argument is made here and not by a
module. `ContentFolder` shows that the cached infos agree with the slots
(`InfosAgree`); `CompoundFolder` builds its buckets from the same operators, as
tables and objects that come and go, and drops what its buckets have cached when
it opens them again. `CompoundFolder` shows that a folder answers as its table
says (`LookUpsAnswer`, and the refinement); a folder object in `CoreFS` does,
and has kept of its infos what the cached file may report a size to. Neither has what
a removal does to the buckets of the folders below: `FolderBuckets` has, and
`Unlinked` in `CoreFS` takes from it that the start blocks of all entries go.

A definition whose name ends in `_` and the name of a fault (such as
`PopBlock_FrontKept`) is a fault of the definition that follows it. It is used
to check that a property tells the code from the fault; no specification
refers to it.

### VolumeBitmap

`bitmap` is the bytes of the bitmap; a byte is the set of the positions of its
set bits, so that `dat == 0xFF` is `dat = FullByte` and a shift by `bit` is
membership. The functions keep their names. The scans that stop at the first
hit become a CHOOSE of the least byte; the detour of the code over
`withoutLeftOver / 8 - 1`, then `++`, is kept. The width of a byte is a
parameter, so that a bitmap of three bytes has 2^12 values and not 2^24. An update
is one of any block, to either value, on any bitmap: `UpdatesOnlyItsBlock` says
that the bit of that block gets the value and every other bit keeps its own.

### BlockAllocator

| In the module | In the code |
|---|---|
| `inUse`, `next`, `extent` | the bitmap, the next index of every header, the length of the image file |
| `freeBlocks` | `CoreIO::freeBlocks`, modulo `CounterModulus` |
| `cache`, `pad` | `m_blockDeque`: the ids, and the zeros behind them |
| `blocksWritten` | `m_blocksWritten` |
| `status` | running; aborted by an assertion; past undefined behaviour |
| `chain` | what was handed to which file, in order (the code has it only as links) |
| `overrun` | history: the last entry of a deque was popped, or an id that is not a clear bit was handed out |

`NewWritableFileBlock` is `File::newWritableFileBlock` with everything it
calls: the choice of an id (`PopBlock` with the deque, `NextAvailableBlock`
without), the write of a header the image does not hold yet (`WriteIfSparse`),
`registerBlockWithVolumeBitmap` (`Register`) and the link from the working
block (`LinkBlock`). `Unlink` and `Truncate` are File's. `Mount` is what the
three front ends do when they open an image; it may follow any operation, also
an abort, and so stands for ending the process and starting it again.
`AbortWhenFull` is the assertion of `boost::optional` on a full volume,
`UndefinedPop` the pop of an empty deque; nothing is said of the process after
that.

The properties are about volumes that are *sound*: no deque ever ran empty and
no block was asked for with the bitmap full. The run `alloc_reissue` shows why
this is needed: the code itself breaks exclusivity at that point.

### BlockFile

| In the module | In the code |
|---|---|
| `header`, `data` | the blocks in the image |
| `start` | the start block in the folder's entry |
| `file` | the File object: `m_fileSize`, `m_blockCount`, `m_blockIndex`, `m_pos`, append or overwrite or read only, and the working block with its copy of the header |
| `standing` | whether the object is usable, unpositioned (a seek failed) or not to be used (truncated) |
| `call` | what the last read or write transferred |

`Read` and `Write` are whole calls: the loops of `File::read` and `File::write`
over `readWorkingBlockBytes`, `checkAndUpdateWorkingBlockWithNew` and
`FileBlock::write`. `Seek` keeps the three computations of a position and the
fact that a seek that fails has already moved the working block. `Open` counts
the chain and seeks to the end in append mode.

File does not serve every call. Seven kinds of call lead it astray, and
`Misuse` says which of them the environment makes:

| Member of `Misuse` | The call | What the code does |
|---|---|---|
| `seekMultiple` | seek to `k * Space`, k > 1, from the begin or the end | stands one block short of it (File.cpp:455-458) |
| `seekPastEnd` | seek behind the end, within the last block | accepts it; the next read takes a wrapped difference for a size (File.cpp:163) |
| `readAtBoundary` | read where one block ends and the next begins | returns 0, which FileDevice turns into end of file (File.cpp:329) |
| `growInOverwrite` | write past the end in overwrite mode, with room in the last block | adds the whole chunk to the size in memory (FileBlock.cpp:188), leaves `m_fileSize` |
| `appendBeforeEnd` | write before the end in append mode | adds the bytes written over to both sizes (FileBlock.cpp:177, File.cpp:387); cuts the chain behind a full block |
| `truncateToGrow` | truncate to more than the size, within the last block | shows what the block held before |
| `useAfterTruncate` | any call on a truncated object | works with the size, position and block of before, and a block too few (File.cpp:426) |

The passing run makes none of them. Allowing any single one of the seven makes
TLC refute `ImplementsByteFile`, so none of the exclusions is idle;
`seekMultiple` refutes `PositionExact` too (`MCBlockFileSeek.cfg`).
With a full last block a write past the end in overwrite mode is no misuse: the
object goes over to append mode (`File.cpp:259-263`), and the passing run has it. The FUSE layer does make several of
these calls (it writes in append mode wherever it writes, and seeks to every
multiple of the block space); `FuseLayer` therefore has only writes that go to the end.

### EntryTable and ContentFolder

| In the module | In the code |
|---|---|
| `slots`, `count` | the bytes of the folder's File: 264 bytes for each entry, the count before them |
| `entryCount`, `deadEntryCount`, `checkForEarlyMetaData` | the members of the object |
| `infos` | `m_entryInfoCacheMap` |
| `owned` | the start blocks that are allocated |
| `elsewhere` | the entries that were moved to other folders and can come back |

A removal clears the first byte of a slot. Its name stays in the image and is
still compared with; its start block stays too but nobody reads it, so a dead
slot has `NoBlock`. `ContentFolder` has one action for every operation that
`CompoundFolder` calls. The guards on names are CoreFS's (`throwIfAlreadyExists`
and the look-up before a rename, `CoreFS.cpp:135, 157, 194-202`). `Reopen` is
a new object on the same table, as after leaving CoreFS's cache or mounting
again. A removed or renamed name, the re-use of its slot and the infos cached
on the way are what the invariants relate: `LookUpFindsAlive` (the index that
renaming and removing use ignores whether a slot is in use), `InfosAgree`,
`NoSlotPassedOver`, and, in the compound folder, `NoBucketUnderstated`, on which
the deletion of buckets rests. It is an inequality: a slot whose entry moved away
is never counted dead (`ContentFolder.cpp:494-497`), so a folder may report more
entries than it has, until it is opened again.

### CompoundFolder

| In the module | In the code |
|---|---|
| `index` | `m_compoundFolder`, the content folder whose entries are the buckets |
| `buckets` | `m_contentFolders`: for each its name, the block of its table and the object's members |
| `tables` | the tables in the image, by start block: two objects on one table see the same slots |
| `contentFolderCount` | `m_ContentFolderCount`, which also names the next bucket |
| `cache` | `m_cache`: entry infos with a bucket number |
| `cacheShouldBeUpdated` | the flag that a listing must look into the buckets |

`AddEntry` and `writeNewMetaDataForEntry` choose the bucket as the code does
(files from the last bucket on, folders from the first), add one if all report
`CONTENT_SIZE` entries, and write the slot. `RemoveEntry` includes the deletion
of a bucket that reports no entries: its table by its name in the index, its
object by its place. `removeContentFolder` erases from the map it iterates over
if the bucket does hold entries; which blocks are then deallocated is left open
(`\E unlinked`), and `NoBucketUnderstated` shows that the case does not arise.
Blocks for tables and for entries are taken from two parts of the volume; they
are compared for equality only.

Four kinds of call lead a compound folder astray, `Misuse` again says which of
them are made, and each makes a property fail:

| Member of `Misuse` | The call | What the code does |
|---|---|---|
| `shadowed` | rename or move an entry while an earlier bucket has a dead slot of its name | renames or buries the dead slot (`CompoundFolder.cpp:374-386`, `ContentFolder.cpp:707-716`); refutes `RenameTakesEffect`, with a move `NothingIsShared` |
| `renameOntoDead` | rename to a name a dead slot of the bucket has | the entry is behind that slot from then on; its next rename or removal hits the dead slot; refutes `NothingIsShared`, in `ContentFolder` `LookUpFindsAlive` |
| `bucketNameInUse` | add a bucket after one that was not the last was deleted | gives it a name that exists (`CompoundFolder.cpp:85-88`); refutes `EntriesAreOnDisk` |
| `enterAfterListing` | rename, or move an entry here, after a listing | does not set `m_cacheShouldBeUpdated`; the next listing lacks the entry; refutes `ListingComplete` |

CoreFS makes the first three for its clients as they come. For the last it drops
the source folder's object after a rename, so that the next listing is made by a
new one; it does so neither for the root's object nor for that of the folder
moved to, and only there is the call made.

### FolderBuckets

| In the module | In the code |
|---|---|
| `kind`, `lists` | the blocks in use and what starts there; the slots in use of the table that does: of an index (a folder, or `Root`) its buckets, of a bucket its entries |
| `extra` | by how much `getAliveEntryCount` of a bucket's object exceeds its entries, after moves out of it |
| `removing` | the calls of `removeCompoundFolder` under way, each within the one before |
| `kept` | history: the blocks that the first of them should leave in use: those outside the folder, and its buckets without entries |

`removeCompoundFolder` is a step for each removal it makes (`RemoveFileIn`), a
call for each folder it meets (`RemoveFolderIn`), and the unlinking of the index
when no entry is left (`UnlinkFolder`). `Removed` is what `removeFile` and
`removeFolder` of `CompoundFolder` do to the blocks: the entry's, and the
bucket's if it reports no entry any more. Only the root's object outlives a move
(`CoreFS.cpp:223` drops any other), so that only its buckets keep an `extra`. A
bucket's entry, name and place in the index are `CompoundFolder`'s, which shows
that a bucket that goes is the one that was meant (`BucketsAreTheIndex`); any
bucket with room takes a new entry here, where the code takes the first or the
last.

A bucket that a move has emptied is not deleted, and `removeCompoundFolder` unlinks
the index without it: its block stays allocated and nothing leads to it. The module
does as the code does, and `OnlyEmptiedBucketsAreLost` and `RemovesTheWholeFolder`
say that nothing else is lost, at any depth and at any point of a removal, and that
nothing outside the folder is given back. What the test of the repository asserts,
that no block is left, is `DeletingEverythingDeallocatesEverything`, which TLC
refutes (`MCFolderBucketsEmptied.cfg`). A folder moved into itself is left out, as
in `FuseLayer`. On a full volume nothing is added: what the code does there is
`BlockAllocator`'s.

### CoreFS

The module has operators and no variables: FuseLayer and Shell each keep one
record `fs` and apply the operators to it.

| In the record | In the code |
|---|---|
| `table`, `size`, `owned` | the image: the entries of every folder and the size of every file, by start block; the start blocks in use |
| `folders` | `m_rootFolder` and `m_folderCache`: for each path the start block of the object's table and the sizes in its cached infos |
| `cached` | `m_cachedFileAndPath`: `path` and `mode` are what `setCachedFile` compares, `of` and `start` the file that the object was made for, `size` what it believes its size is, `reports` whether the entry info its size callback is bound to is still its folder object's |

An operation is a guard (`CanAdd`, `CanOpen`, `CanRename`, ...), which holds when
the call does not throw, and an operator for the record after it, with every
look-up the code makes on the way: `doGetParentCompoundFolder` fills the folder
cache (`WithParent`), and looking for a name fills the infos of the slots it
comes by (`LookedUp`; which slots these are depends on the order of the table and
is left open, as none or all). `removeFolderFromCache` keeps the recursion that
ends where a folder on the way is not cached, and the comparison with "/" that
never holds. `resetCachedFile` is called by the code for paths above the cached
file's; for the file itself it does nothing.

### FuseLayer

One action for each callback; `Remount` ends the process and mounts again. FUSE
is started with `-s` (`FuseLayer.cpp:532`), so that callbacks do not overlap; a
device is opened, used and dropped in one callback. Opening with `O_TRUNC` is
taken to arrive as a truncation, as without `atomic_o_trunc` it does. A callback
whose guard fails throws inside CoreFS and is answered with an error; what its
look-ups leave in the caches, `knoxcrypt_getattr` leaves as well.

The caches do not survive every sequence of callbacks. `Misuse` names those that
break them, and each one but the last alone makes TLC refute a property:

| Member of `Misuse` | The calls | What the code does | Refutes |
|---|---|---|---|
| `returnToFirst` | open A, then B, then A in the same disposition | hands out B's object: the pair's path is set once (`CoreFS.cpp:391-401`) | `CachedFileCurrent` |
| `removeOpen` | remove the file of the pair, add one of its name, open it | hands out the object of the removed file | `CachedFileCurrent` |
| `renameOpen` | the same with a rename | hands out the object of the renamed file | `CachedFileCurrent` |
| `truncateAgain` | truncate twice in a row | the object still has the size of before the first | `CachedFileCurrent` |
| `renameAbove` | rename a folder above a cached one, with an uncached one in between | drops only what is cached all the way (`CoreFS.cpp:544-563`) | `CachedFoldersCurrent`, then `CachedFileCurrent`, `ImplementsFileTree` |
| `removeAbove` | remove a folder above a cached one | drops the cache after the table it walks over was emptied | `CachedFoldersCurrent`, then `CachedFileCurrent`, `ImplementsFileTree` |
| `orphanedWrite` | write through an object whose folder object was made anew | reports the size to an info nobody looks at | `SizesReported` (with files of two sizes: `MaxSize = 2`) |
| `renameIntoItself` | move a folder into itself | cuts it off, with its blocks; the kernel does not pass it on | none of them: what is cut off has no path, and they are about paths |

The properties say that with these left out the caches are right: that the
cached object of a path is the object of what is there now, that the sizes shown
are the sizes, and that through all of it the image is a `FileTree`.

### Shell

`job` is a copy under way: `com_add` and `com_extract` start one, and
`copyFromPhysical` and `recursiveExtract` do one entry each, in the order of the
recursion (a folder's entries after the folder, siblings in any order, as the
disk or the table gives them). A call that throws ends the job where it is;
`loop` catches it (`Teashell.cpp:515-519`). `before` is what the image held when
the command began: `AddedAsOnDisk` compares against it, so that an add changes
nothing but what it adds, also when it fails half way.

`returnToFirst` refutes `ExtractedAsInImage` (the run `shell_extract`),
`removeOpen` and `removeAbove` refute `AddedAsOnDisk`.

### WorkThread and MainWindow

| In the modules | In the code |
|---|---|
| `the_queue`, `m_wait`, `m_stop` | the members of `ConcurrentQueue` and `WorkThread` |
| `worker`, `f` | where `run()` is, and the function it took |
| `caller` | where the window's thread is: between push and notify, or in `~WorkThread` |
| `posted` | the queued signals of the worker and the loader, in order |
| `m_knoxcrypt`, `tree`, `m_spinner` | the members of the window; `tree` counts the root items |
| `loader`, `m_io`, `loaded` | the `LoaderThread`; `loading` is while it has `m_teaMutex` |
| `requested`, `extra`, `synced` | history, for the properties |

A member of `ConcurrentQueue` is one step up to the unlock, and its notification
the next, because the code notifies after unlocking. `m_stop` is neither atomic
nor locked: `testStop` may see the old value until the worker has locked the
mutex after `stopWaiting` did. `wait(5000)` may time out while the worker is in
a function or asleep, and `terminate()` follows. The loader has a place of its
own (`leaving`) between the unlock of `m_teaMutex` and the end of its thread,
since `start()` does nothing until the thread has ended.

The user does whatever the window lets him, at any time: he opens another image
while work waits or an image is being loaded, removes items, the root of the tree
included (`MainWindow.cpp:453-463` deletes whatever is selected), and closes the
window. Nothing in the code keeps him from it. What it is bound to when work
comes to be done is then this:

- *Its file system* (`WorkIsHeld`): `itemExpanded` and `CreateFolder` bind a
  shared pointer, all else a reference to `*m_knoxcrypt`, which opening an image
  resets (`MainWindow.cpp:163`). The object lives on through the loader's own
  pointer, until a later image has been loaded (`loaded` greater than `w.on`).
  From then on nothing holds it; the property says no more than that, because the
  code does no more.
- *Its item of the tree*: nothing. Removing deletes an item while its expansion
  waits, and closing the window deletes all of them; no property could hold, and
  none is stated (see the hazards in `PROJECT.json`).

`TreeHasFileSystem` is the other direction: a tree in the window stands for a file
system the window has, and, unless the news of a later one still waits to be
handled, for the one loaded last. It holds through images opened on top of each
other. There may be two root items for one image, when a signal of the loader is
handled in the dialog that opens the next; that the image opened last is loaded
at all is false (`OpenedIsLoaded`, `MainWindowOpened.cfg`).

*Fairness.* The threads are scheduled by the operating system, and the functions
that run in them return: weak fairness of each thread's next step
(`notify_one`, `stopWaiting`, the wait of the destructor, the worker, the
loader, the event loop). Not assumed: that a user presses a button, that a
dialog is closed, that a waiting thread wakes without reason. Under it work
that was queued is started unless the window is closed (`QueuedWorkStarts`), and
the destructor returns (`DestructorReturns`).

## Runs

| Run | Instance | States | Shows |
|---|---|---|---|
| `bitmap` | 12 blocks, bytes of 4 bits: all bitmaps | 4,096 | `CountAgrees`, `NextIsLowestAvailable`, `NAvailableAreLowest`, and `UpdatesOnlyItsBlock` |
| `alloc_cached` | 6 blocks, one without a bit, sparse, block cache, 3 files | 452,277 | `ExclusiveWhileSound`, `FreeCountExact`, `HeadersWritten` |
| `alloc_uncached` | 5 blocks, sparse, no cache, 3 files | 47,083 | `MarkedWhileSound`, `ChainsOnDisk`, `GrowsByOne`, and the refinement of `BlockPool` |
| `alloc_reissue` | 5 blocks, block cache | | refutes `Exclusive` |
| `block_file` | blocks of 2 bytes, 3 blocks, no misuse | 17,451 | `PositionExact`, `SizeExact`, and the refinement of `ByteFile` |
| `content_folder` | 3 names, 3 slots, 4 blocks | 3,579 | `LookUpFindsAlive`, `InfosAgree`, `EntriesOwnTheirBlocks`, `NoSlotPassedOver`, and the refinement of `FolderMap` |
| `compound_folder` | 2 names, buckets of 2 entries, 2 blocks for tables | 64,056 | `BucketsAreTheIndex`, `NothingIsShared`, `LookUpsAnswer`, `ListingComplete`, `NoBucketUnderstated`, `EntriesAreOnDisk`, and the refinement of `FolderMap` |
| `buckets` | 6 blocks, buckets of 2 | 23,202 | `OnlyEmptiedBucketsAreLost`, `RemovesTheWholeFolder` |
| `fuse` | 2 names, 3 blocks, paths of 3, files of 0 or 1, 4 callbacks between mounts | 57,226 | `CachedFoldersCurrent`, `CachedFileCurrent`, `SizesReported`, and the refinement of `FileTree` |
| `shell` | 2 names, 3 blocks, paths of 3, files of 0 to 2, 4 commands in a session | 303,677 | `AddedAsOnDisk` |
| `shell_extract` | the same with `returnToFirst` | | refutes `ExtractedAsInImage` |
| `main_window` | 2 functions waiting, 2 signals, 2 images | 125,853 | `PopFindsWork`, `ClosingIsPrompt`, `WorkIsHeld`, `ReadyFindsSpinner`, `TreeHasFileSystem`, `QueuedWorkStarts`, `DestructorReturns` |

Beside the runs, seven configurations each refute one statement of the repository's
documentation or tests (see [below](#where-the-code-departs-from-its-documentation));
`tlc -config X.cfg M` shows the counterexample:

| Configuration | Module | Instance | Refutes |
|---|---|---|---|
| `VolumeBitmapShort.cfg` | `VolumeBitmap` | 11 blocks, bytes of 8 bits | `OnlyAvailableBlocksReturned` |
| `MCAllocTruncate.cfg` | `MCBlockAllocator` | no block cache | `DeletingEverythingDeallocatesEverything` |
| `MCBlockFileSeek.cfg` | `MCBlockFile` | with `seekMultiple` | `PositionExact` |
| `MCCompoundFolderRename.cfg` | `MCCompoundFolder` | 3 names, buckets of 2, with `shadowed` | `RenameTakesEffect` |
| `MCCompoundFolderBuckets.cfg` | `MCCompoundFolder` | buckets of 1, with `bucketNameInUse` | `EntriesAreOnDisk` |
| `MCFolderBucketsEmptied.cfg` | `MCFolderBuckets` | as in `buckets` | `DeletingEverythingDeallocatesEverything` |
| `MainWindowOpened.cfg` | `MainWindow` | 1 function waiting, 2 signals, 2 images | `OpenedIsLoaded` |

What a member of `Misuse` above refutes can be reproduced by adding it to the set in
the configuration. `TypeOK` of `VolumeBitmap`, `BlockAllocator`, `FolderBuckets` and
`MainWindow` holds in the runs too and can be added to their lists, as do `PackedChain`
in `block_file`, `RenameTakesEffect` in `compound_folder` and `ExtractedAsInImage` in
`shell`.

Why the bounds are enough:

- Three bytes give the bitmap a first byte (a case of its own in the code), an
  inner and a last one, each of them empty, partly set and full.
- With five or six blocks and three files (the root folder holds block 0) the
  deque runs through full, last entry, refilled and padded, the volume fills
  up, and a block goes from one file to another. `MaxChain` bounds the blocks
  of a file; in `alloc_uncached` it leaves room for every block outside the root
  in one file. The other files are interchangeable, and the symmetry set leaves
  the root out. The image constants (`BlockSize` 4, `BlockMeta` 1) make
  `getInitialBlocksWritten` underestimate by one at five blocks, as 4096 and 12
  do at larger counts.
- Blocks of two bytes and three of them: a write of one byte fills part of a
  block or its rest, a write of three always crosses a boundary, and there is a
  first, an inner and a last block. Offsets run over the whole file, forwards
  and backwards.
- A table of three slots has a dead slot before, between and behind slots in
  use, and every slot has had every name. One entry at a time is elsewhere and
  one dead slot uncounted (`MaxElsewhere`, `MaxUncounted`): that is what lets a
  bucket report two entries, have one, and be joined by a second bucket with two
  names only. Both buckets come and go in every order, so that a cached bucket
  number can point behind the entry, before it and past the last bucket. Names
  are interchangeable; so are blocks in `ContentFolder`. `CONTENT_SIZE` is 10 in
  the code and only compared with.
- `MaxCalls` and `MaxCommands` bound what is done with one CoreFS object, not the
  history of the image: `Remount` and `Restart` set the count back, so that a
  session starts from any image earlier sessions have left. Three blocks and
  paths of three give a folder in a folder with a file in it, which is the
  least that tells a folder from the ones above and below it in the cache, and
  leave no block free for a fourth entry. The bound on paths in
  `knoxcrypt_rename` keeps what is moved within them.
- Six blocks and buckets of two give a folder in a folder with an entry in it,
  each in its bucket, or a folder with two buckets, one of which loses its entry;
  a removal then goes two calls deep, over buckets that are full, half full and
  emptied on the way. Blocks are interchangeable.
- Two functions waiting, two signals and two images let the worker be at every
  place while the window is at every other, with work queued behind the
  function that runs, a signal behind the one that is handled, and an image opened
  over one that is loading, loaded or at work; one more function is queued by the
  destructor. The bound on signals holds back the worker's only: the loader's are
  as few as the images.

`CHECK_DEADLOCK FALSE` stands in the allocator's configurations, as after
undefined behaviour nothing is said to happen, and in the window's: after it is
closed nothing happens any more.

## What is proved

### The bitmap

For every number of blocks and every width of a byte (`VolumeBitmapProofs`):
`UpdatesCorrect` (`UpdatesOnlyItsBlock`), `ScanCorrect`
(`NextIsLowestAvailable`), `CountCorrect` (`CountAgrees`) and
`ScanForManyCorrect` (`NAvailableAreLowest`). All rest on `Located`: the byte and
the bit that the code computes for a block, with its detour over the multiple of
8 below, are quotient and remainder, and lie within the bitmap. Division with
remainder is unique (`DivisionUnique`), so that two blocks never share a bit, and
an update changes the answer for its own block only (`BitFlipped`). The invariant
is the type alone (`BytesCorrect`). For the scan, a least element of a set of
naturals exists because < is well-founded on them (`LowestExists`).

The count is right because the bits it counts and the blocks in use are in
bijection (`Placed`, `InUseByBit`, `CountsAllInUse`). The scan for many blocks is
taken as the function `f` from the number of bits looked at to the ids found so
far (`RoundsExist`): a look at one bit adds its block or nothing (`OneMore`), and
were a round to have anything but the lowest available blocks, there would be a
first such round, which its predecessor excludes (`RoundsFindLowest`). The
padding with zeros follows from the count (`ListsLowest`). Assumed are
`BlocksAssumption`, `ByteWidthAssumption` and `NoBlockAssumption`.

### The allocator

For every number of blocks, with or without the block cache, for sparse and full
images and every set of files (`BlockAllocatorProofs`): `TypeCorrect`, and
`HandedOutOnce`, `HandedOutMarked`, `WalksTerminate`, `FreeBlocksExact`,
`NoHeaderMissing` and `GrowsWithoutHoles`, each of them of a property a run checks.
`RefinesBlockPool` says that without the cache, on a volume with a bit for every
block, the allocator implements `BlockPool`.

The only assumption is `VolumeAssumption` on the constants. The argument rests
on the inductive invariant `IInv`. The properties above are not inductive: that
the links of a chain survive the hand-out of a block needs that a free block has
either no header or one that is its own next (`FreeHeaders`), and that no hole
appears in a sparse image needs that the deque holds every block past the image's
end (`CacheCoversUnwritten`). Both hold only while the volume is sound, so each
step has three parts: `OverrunStep` (a volume never becomes sound again),
`SoundStutter`, and one lemma per operation (`SoundMount`, `SoundNewBlock`,
`SoundUnlink`, `SoundTruncate`). For `SoundNewBlock` the facts about the id that
was chosen are proved once for both ways of choosing it (`ChosenBlock`), those
about its header in `WrittenBlock`, those about the links in `ChainsNewBlock`.

### The file

For blocks of every size, any number of them, any bytes and any order of
opening, seeking, reading, writing and truncating (`BlockFileProofs`):
`PackedCorrect` (`PackedChain`), `PositionsCorrect` (`PositionExact`),
`SizesCorrect` (`SizeExact`) and `RefinesByteFile` (`ImplementsByteFile`). Their
hypothesis is `NoMisuse`, that none of the seven calls above is made: with each
of them TLC refutes `ImplementsByteFile`. The constants' assumption is
`FileAssumption`.

`FileInvariant` says that `IInv` holds. `Sound` is of the image: the blocks of the
chain were handed out in its order (`Ordered`), each is linked to the next and the
last to itself (`Linked`), all but the last are full (`Packed`), and those not
handed out yet are empty (`Fresh`). `Counted` is of an object that is open: its
size and its count of blocks are the chain's. `Stands` is of one that has a
position: the working block is the block at the index, with the header's size
and next index, and the stream position is `blockIndex * Space + seekPos`. The
properties alone are not inductive. A new block needs `Fresh`, or the link from
the last block could close a circle; a round of a read finds a byte in the block it
goes on to, which is the second part of `Packed`, that the last of several blocks
is not empty; and an overwrite needs that the two copies of the size in the
working block are equal, or it would take an overwritten byte for a new one.

- *The chain.* `ChainFrom`, `SizeOf` and `ContentOf` are recursive functions.
  Their values on a sound chain are given in closed form, and a set of naturals
  that has 0 and every successor has them all (`Counting`): `ChainIs`, `SizeIs`,
  `ContentIs`. The content is the one sequence with byte `s` of block `i` at
  `(i - 1) * Space + s` (`Holds`; `BytesUnique`), so that what follows is about
  places: two of them are the same only if block and position are
  (`PlacesDiffer`).
- *Seeking.* Each of the three computations of a position is inverted by
  `block * Space + position` where `Seekable` permits it (`BeginExact`, `EndExact`,
  `CurrentExact`), and a position within the file is one within its block
  (`WithinBlock`).
- *Reading.* One round gives the bytes that come next, at least one unless the
  end is reached (`RoundReads`); `ReadRight` follows by `Counting` over the
  rounds.
- *Writing.* After `w` bytes the content is the old one with the first `w` of the
  new ones over it (`Overlaid`). `HasWritten` is the invariant of the loop, and a
  round keeps it (`RoundWrites`) in each of its four cases: within the working
  block, replacing (`ChunkReplaces`) or appending (`ChunkAppends`), into the next
  block of the chain (`BlockEntered`), into a new one (`ChunkAdds`).
- *Truncating.* The block and the place in it that the code computes is where a
  file of that size ends (`EndsAt`), and the chain cut there holds the bytes
  before it (`CutRight`).

Every action is then an action of `ByteFile` or leaves it as it is (`StepRight`).

### The content folder

For every set of names and of blocks, tables of every length and any order of
operations (`ContentFolderProofs`): `LookUpCorrect` (`LookUpFindsAlive`),
`InfosCorrect` (`InfosAgree`), `BlocksCorrect` (`EntriesOwnTheirBlocks`),
`SlotsReused` (`NoSlotPassedOver`), and `RefinesFolderMap`
(`ImplementsFolderMap`). Their hypothesis is `NoReuse`: no entry is renamed to a
name a dead slot of the table still has (`"renameOntoDead" \notin Misuse`); with
such a rename `LookUpFindsAlive` is false, and TLC shows it.

`FolderInvariant` says that `IInv` holds: `TableInv`, which is of the table
alone, and `OwnInv`, of the blocks. None of the properties is inductive. That a
look-up which ignores whether a slot is in use finds the right one
(`AliveFirst`) needs that no dead slot of the name is before the one an addition
takes: it takes the first dead slot of all, if it looks for one, and the end of
the table only if there is none. It looks if the object knows of dead slots, and
`DeadSought` says that it does whenever there are any. The names of the cached
infos must be those of slots in use (`InfosFresh`), or a re-used slot would be
answered with the info of before. `DeadCounted`, that no more slots are counted
dead than are, is for the buckets below. `EntryTableProofs` has one lemma for
each operator of `EntryTable`, which says that it keeps `TableInv` and which slots
are in use after it; the step of a folder is then one of them and an argument on
blocks.

### The compound folder

For every `CONTENT_SIZE`, any number of buckets and every set of names and of
blocks (`CompoundFolderProofs`): `BucketsCorrect` (`BucketsAreTheIndex`),
`BlocksCorrect` (`NothingIsShared`), `LookUpsCorrect` (`LookUpsAnswer`),
`ListingsComplete` (`ListingComplete`), `CountsCorrect` (`NoBucketUnderstated`),
and `RefinesFolderMap` (`ImplementsFolderMap`), `RenamesTakeEffect` and
`EntriesStayOnDisk` (`EntriesAreOnDisk`: a new object on the tables finds the same
entries). The hypothesis of all is `NoMisuse`, that none of the four calls above is made; each
of them alone refutes one of these properties.

`IInv` has three parts. `TablesInv` is what two objects on the image must agree
on: the slots of the index in use and the buckets are the same set, by name and by
start (`IndexInv`); every bucket is a sound table, apart from those of entries
(`LeavesInv`, with `TableInv` of `EntryTableProofs` for the index and for every
bucket); no name and no start is in two slots of any two buckets (`SpotInv`).
`OwnInv` says that exactly the blocks of buckets and entries are allocated, which
makes the next block given out a new one. `CacheInv` says that what is cached
under a name is what its slot says; of the cached bucket number it says nothing,
since no answer depends on it: by `SpotInv` one bucket at most has the name, and
the look-up ends there whether it starts at the cached number or not
(`OpenedInfoRight`). The longest step is the deletion of a bucket (`BucketGone`):
the buckets behind it move up by one, the index loses its slot, and its table is
free for the next one; that it holds no entries then is `NothingLeft`, from
`DeadCounted`. That a new object has the same buckets (`OpenedAgain`) needs that
the numbers of the slots can be put in order (`OrderExists`), which holds for
every finite set of numbers. For the refinement a folder is a set of slots no two
of which have the same name (`Apart`), and a step adds one, takes one away, or
gives one another name (`EntersMap`, `LeavesMap`, `RenamesInMap`).

### The folders of an image

For volumes, buckets and folders of every size and depth, and with no hypothesis but
the constants' assumption (`BucketsAssumption`): `LosesOnlyEmptied`
(`OnlyEmptiedBucketsAreLost` of `FolderBuckets`). A block in use is listed by exactly
one table in use, and by one of the right kind, unless it is a bucket without
entries, and no table lists a block that was given back; also in the middle of a
removal. The invariant is `Linked`, which says the same from the side of the slots:
each leads to a block in use, no two to one (`LinkedIs`). One lemma for each
operation shows that it is kept (`AddKeeps`, `MoveKeeps`, `FileKeeps`,
`UnlinkKeeps`). `CompoundFolderProofs` has them, on an instance `Bk` of the module.

### The mounted file system

For every set of names and of blocks, paths and files of every size, and any
number of callbacks between two mounts (`FuseLayerProofs`). Each theorem excludes
the calls of `Misuse` it cannot stand, and no others:

| Theorem | Property | `Misuse` |
|---|---|---|
| `CachesHold`, `FoldersCurrent` | `CachedFoldersCurrent` | none of `renameAbove`, `removeAbove`, `renameIntoItself` |
| `FileCurrent` | `CachedFileCurrent` | `orphanedWrite` at most |
| `ReportedSizes` | `SizesReported` | `truncateAgain` at most |
| `RefinesFileTree` | `ImplementsFileTree` | `truncateAgain` and `orphanedWrite` at most |

So the cached file, which is the weakest part, never harms the folder objects:
whichever of its five misuses are made, each of them is of what is at its path now.
That blocks which belong to no path are given back is not among these theorems: the
buckets of folders are in `FolderBuckets`, and there some are lost. The constants' assumptions are `CoreAssumption` and `MisuseAssumption`.

`CachesInv` says that the image is a tree and the folder objects follow it.
`TreeInv` has to be local to be inductive: entries lead to blocks that are
allocated (`SlotsOwned`), no two entries to one block (`OneSlotEach`), blocks that
can be allocated have no entries of an earlier folder (`FreeEmpty`), and every
allocated block has a path (`Reachable`; without it a circle of folders that
nothing leads to would satisfy the rest). That no two paths lead to one block
(`OnePath`) follows, by induction from a path to its parent (`PathInduction`):
this is how everything about paths is proved, since what is at a path is computed
by recursion along it.

- *The tree.* A change of the tables changes what is at the paths in one of three
  ways: an entry more is one path more (`SlotAdded`); an entry taken out, with the
  tables below it emptied, is every path below it gone (`SlotsGone`); an entry put
  elsewhere is the paths below it moved (`SlotMoved`). Each of these also shows
  that `TreeInv` is kept.
- *Looking up.* All that a look-up may do is in `Looked`: more folders get an
  object, more files an info with their size. It composes (`LookedTwice`) and keeps
  every invariant (`LookedKeeps`).
- *The operations.* One lemma for each says what it does to tree, objects, infos
  and the cached pair (`AddedIs`, `setCachedFileIs`, `WrittenIs`, `truncateFileIs`,
  `removeFileIs`, `removeFolderIs`, `renameEntryIs`). The two that need most are
  the drops of folder objects: after a removal only the object of the folder itself
  can be stale, and it is dropped; after a rename every stale object is dropped
  because each folder between it and the old path is cached and lists the next
  (`RenameDrops`). These are the places where the excluded calls are used.
- *The callbacks.* One lemma for each callback, and one step for each in the proof
  of every invariant. `CachedFileCurrent` rests on `PairInv`: as long as the pair is
  named after the file it was made for, that file is there and has the size the
  object believes. It is kept because `resetCachedFile` drops the pair when a
  folder above moves or goes, and because removing and renaming the file itself
  are excluded. `SizesReported` rests on `ReportsInv`: an info is of a file that is
  there (`InfosInv`), and of its size unless it was truncated (`SizesInv`). A write
  tells exactly one info, since only one has the file's block (`SizesWritten`), and
  an object that tells none writes only where there is none (`WritesReported`).
- *The refinement.* A new file has no bytes because blocks that can be allocated
  have none (`FreeSizes`), and a write or a truncation changes the file that the
  path names (`HandedOut`). What a callback does to the tree is then `Make`,
  `Resize`, `Delete`, `Move` or `LookUp` (`TreeStep`).

### The window

For every bound on the queue, on signals and on loads, and whatever the user does
(`MainWindowProofs`): `WindowTypeCorrect`, `PopIsSafe` (`PopFindsWork`),
`ClosesPromptly` (`ClosingIsPrompt`), `SpinnerIsThere` (`ReadyFindsSpinner`),
`WorkStaysHeld` (`WorkIsHeld`) and `TreeStandsForImage` (`TreeHasFileSystem`). The
constants' assumptions are `QueueAssumption` and `WindowAssumption`.

All rest on `WindowInvariant`: `IInv`, which is the types, `CloseInv`, `LoadInv` and
`SpinInv`. That the queue is not empty once it no longer waits is not inductive,
since the worker may take what is there: `CloseInv` follows the one kill function
through the places of both threads, and says that after the worker took a function
past `stopWaiting` it has synchronised and sees `m_stop`. `LoadInv` says that the
window has no file system, or the one loaded last unless the news of that one is
still posted, and that whatever waits or runs is bound to one that has been loaded:
a slot that binds work reads `m_knoxcrypt`, and a signal of the loader is all that
sets it. `SpinInv` says that between a started signal and the finished one behind it
there are none but loaded ones, and that while a function runs its started signal is
on the way or handled.

### Only model-checked

The two liveness properties of `MainWindow`: liveness under fairness and ENABLED
are out of the prover's reach. And the two properties of `Shell`, `AddedAsOnDisk`
and `ExtractedAsInImage`: they compare the image with what it was many steps ago,
over copies that follow the recursion of the code, and have no proof yet. Nor has
`RemovesTheWholeFolder` of `FolderBuckets`, which compares the end of a removal with
its beginning. What
they rest on in `CoreFS`, that each operation changes the paths it names and no
others, is proved in `FuseLayerProofs`.

The proofs of `BlockFile`, `VolumeBitmap` and `FuseLayer` are about loops and paths,
which are recursive functions there. A theorem about such a function is proved
for the set of naturals or of paths it holds of, since the library's induction
theorems, which take an operator, cannot be used.

## Where the code departs from its documentation

1. *A block is handed out twice* (`alloc_reissue`). With the block cache, which
   FUSE and the shell use, the deque is refilled when its last entry is popped
   and before that block is registered: its bit is clear, and the refill takes
   it in (`FileBlockBuilder.cpp:108-113`). `FileBlock.hpp:136-140` says a block
   is only re-used once it is deallocated.
2. *Truncation leaks blocks* (`MCAllocTruncate.cfg`). The blocks behind the new
   end keep their bits and no chain reaches them (`File.cpp:424`).
3. *Padding* (`VolumeBitmapShort.cfg`). A short answer of `getNAvailableBlocks` is
   padded with block 0, the block of the root folder; on a volume whose block
   count is no multiple of 8 every mount gets a short answer.
4. *Seeking to a multiple of the block space* (`MCBlockFileSeek.cfg`), as in the
   table of misuses, which lists the other departures of File.
5. *A rename is lost* (`MCCompoundFolderRename.cfg`) when an earlier bucket still has a dead
   slot of the name. `CoreFSTest.hpp:437-438` asserts that the original is gone.
   With a move instead of a rename the entry ends up in both folders.
6. *Two buckets get one name* (`MCCompoundFolderBuckets.cfg`), and the entries of one
   of them are gone when the folder is opened again. With buckets of ten, 21
   entries are enough, then removing the first ten and adding ten more.
7. *The wrong file is extracted* (`shell_extract`). A folder of two files is
   added and extracted: the cached pair is named after the first file that was
   ever opened and keeps that name when its object is replaced
   (`CoreFS.cpp:391-401`), so that one of the two is written with the other's
   bytes. `CoreFS.hpp:132-139` promises a device to the opened file.
8. *An emptied bucket is lost* (`MCFolderBucketsEmptied.cfg`). After `mkdir /d`, a new
   file `/d/f`, `rename /d/f /g` and `rmdir /d` the bucket `index_0` of `/d` stays
   allocated: a move takes the last entry out of it without deleting it
   (`CompoundFolder.cpp:362-372`), and the removal of the folder unlinks the index only
   (`ContentFolder.cpp:613`). `CoreFSTest.hpp:503-504` asserts that every block is
   given back; it never moves anything out of a folder.
9. *The second image is not loaded* (`MainWindowOpened.cfg`) when it is opened just as
   the loading of the first ends: `start()` does nothing while the thread has not
   left `run()` (`MainWindow.cpp:189-191`, `LoaderThread.cpp:46-82`).
10. *The destination's parent is not tested* (`CoreFS.cpp:187-192` tests the
   source's twice): a rename into a folder that does not exist takes the entry
   out of its folder and dereferences an empty pointer.
11. *The root's folder object is never made anew*, against the comment at
   `CoreFS.cpp:549-550`: its path is compared with "/" after it was made "".

The first nine have a counterexample of TLC, the first and the seventh in a run, the
others in a configuration beside the runs. The last two were met while translating
and have none.

## What is not modelled

- Crashes inside an operation: the writes of `register` and `setNextIndex`, or of
  a slot and the count, are one step. The code has no journal and no check at
  mount. Crashes between operations are modelled (`Mount`, `Reopen`, `Remount`).
- In `BlockFile`: opening with Truncate (no front end does it; the chain is
  unlinked while the folder keeps the old start block), `flush` after a read (no
  caller does it; it writes what the read left in the buffer), negative offsets
  from the begin, two File objects on one chain. The extra root folder at a block
  of its own ("magic partition") is left out of `BlockAllocator`.
- In the folders: the look-up of an entry by its index (only tests make it).
- In `CoreFS`: the bytes of files (their sizes only; `BlockFile` has the bytes),
  full volumes inside an operation (`BlockAllocator` has them), `statvfs`. Every
  operation holds the state lock from its first line on and is one step. The devices
  it hands out are read and written without the lock. FUSE (`-s`) and the shell have
  one thread; in the window the worker does this while the window's thread may ask
  `getInfo` and `folderExists` (`MainWindow.cpp:416, 480, 498, 516`). That race, on the
  stream of the image and on the entry infos, is in no module.
- In `FuseLayer`: the offsets of reads and writes, the callbacks that do nothing
  (chmod, chown, utimens), and exceptions that leave a callback: read and write
  call seek and the device outside their `try`, which ends the process; mounting
  again follows.
- In `Shell`: console I/O, parsing, completion, the password. An exception thrown
  while a line is being completed is outside the `try` of `loop`
  (`Teashell.cpp:514`) and ends the process, which `Restart` stands for between
  commands.
- In `MainWindow`: what the work functions do to the tree, and the New button with
  its `ContainerBuilderThread`: it dereferences `m_sd`, which nothing sets
  (`MainWindow.cpp:186` is commented out).
- Image creation: it runs once on a new file; its result is the initial states of
  `BlockAllocator`.
- Encryption, the stream and the password hash: CryptoStreamPP is a submodule that
  is not part of this tree; the image is a byte store.

## What is left

- Theorems: `AddedAsOnDisk` and `ExtractedAsInImage` for `Shell`, on the lemmas about
  `CoreFS` that `FuseLayerProofs` has; `RemovesTheWholeFolder` for `FolderBuckets`.
- Crash points inside allocation (`register` before `link`) and inside the folders
  (slot before count, unlinking before putting out of use), should the code get a
  check at mount that makes a property of them.
- `ContainerBuilderThread`, when the New button is completed.
