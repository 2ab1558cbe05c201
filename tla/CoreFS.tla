------------------------------- MODULE CoreFS -------------------------------
(***************************************************************************)
(* The file system (src/knoxcrypt/CoreFS.cpp) as operators on one record:  *)
(*                                                                         *)
(*   in the image                                                          *)
(*     table    the entries of every folder, by the folder's start block   *)
(*     size     the size of every file, by its start block                 *)
(*     owned    the blocks where a file or folder starts; FolderBuckets    *)
(*              has those of the buckets                                   *)
(*   in the CoreFS object                                                  *)
(*     folders  the folder objects by path: m_rootFolder, whose path is    *)
(*              << >>, and m_folderCache; each with the start block of its *)
(*              table and the sizes in the entry infos it has cached       *)
(*     cached   m_cachedFileAndPath: path is the pair's first; the File it *)
(*              is paired with was made for the path "of", keeps a size of *)
(*              its own, and reports it to an entry info as long as its    *)
(*              folder object has that info (reports); cut says that it    *)
(*              was truncated                                              *)
(*                                                                         *)
(* CompoundFolder shows that a folder object answers as its table says;    *)
(* here it does.  Of a file only the size is kept: BlockFile has its       *)
(* bytes.  Every operation is a guard, under which it does not throw, and  *)
(* the record after it; one that throws does what the look-ups in it do.   *)
(***************************************************************************)
EXTENDS Integers, SequencesExt

CONSTANTS
    Name,     \* the names of entries
    Block,    \* the blocks where files and folders can start
    Root,     \* CoreIO::rootBlock
    MaxDepth, \* bound: no path is longer
    MaxSize   \* bound: no file is larger

ASSUME CoreAssumption ==
    Block \subseteq Nat /\ Root \in Nat \ Block /\ MaxDepth \in Nat \ {0} /\ MaxSize \in Nat

Path == SeqOf(Name, MaxDepth) \ {<< >>}

NoInfo == [type |-> "none", start |-> -1]
NoFile == [path |-> << >>]

Earliest(S) == CHOOSE b \in S : \A c \in S : b <= c

(* A function with one more argument, or another value for it. *)
With(f, x, y) == [z \in DOMAIN f \union {x} |-> IF z = x THEN y ELSE f[z]]

-----------------------------------------------------------------------------
(* The entry of a name in a table; what is at a path.                      *)
EntryIn(entries, name) == IF name \in DOMAIN entries THEN entries[name] ELSE NoInfo

NodeAt(fs, path) ==
    LET node[k \in 0 .. Len(path)] ==
            IF k = 0
            THEN [type |-> "folder", start |-> Root]
            ELSE LET above == node[k - 1]
                 IN  IF above.type = "folder" THEN EntryIn(fs.table[above.start], path[k]) ELSE NoInfo
    IN  node[Len(path)]

Exists(fs, path) == NodeAt(fs, path) # NoInfo

(* doGetParentCompoundFolder finds a folder, in the cache or in the image. *)
HasParent(fs, path) ==
    Front(path) \notin DOMAIN fs.folders => NodeAt(fs, Front(path)).type = "folder"

(* The object of the folder a path's entry is in, and its entries. *)
ParentOf(fs, path) == fs.folders[Front(path)]
EntriesOf(fs, path) ==
    LET cached == Front(path) \in DOMAIN fs.folders
    IN  fs.table[IF cached THEN ParentOf(fs, path).start ELSE NodeAt(fs, Front(path)).start]

EntryInfo(fs, path) == EntryIn(EntriesOf(fs, path), Last(path))

(* The infos a folder object has, and new ones of these files. *)
InfosMade(fs, folder, names) ==
    LET sizeOf(n) == fs.size[fs.table[folder.start][n].start]
    IN  [folder EXCEPT !.sizes = [n \in DOMAIN @ \union names |-> IF n \in DOMAIN @ THEN @[n] ELSE sizeOf(n)]]

(* The infos in a folder object after it has looked for a name.  The slots *)
(* it comes by on the way are given infos as well: those in seen, and all  *)
(* of them if there is no such name.                                       *)
LookedUp(fs, folder, name, seen) ==
    LET entries == fs.table[folder.start]
        files == {n \in DOMAIN entries : entries[n].type = "file"}
        met == IF name \in DOMAIN entries THEN files \intersect (seen \union {name}) ELSE files
    IN  InfosMade(fs, folder, met)

(* doGetParentCompoundFolder: a folder that is not in the cache is looked  *)
(* for from the root on, and put there.                                    *)
WithParent(fs, path, seen) ==
    IF Front(path) \in DOMAIN fs.folders
    THEN fs
    ELSE LET found == [start |-> NodeAt(fs, Front(path)).start, sizes |-> << >>]
             asked == LookedUp(fs, fs.folders[<< >>], path[1], seen)
         IN  [fs EXCEPT !.folders = With(With(@, << >>, asked), Front(path), found)]

(* ... and getEntryInfo of the entry: getInfo and doExistanceCheck. *)
getInfo(fs, path, seen) ==
    LET reached == WithParent(fs, path, seen)
    IN  [reached EXCEPT !.folders[Front(path)] = LookedUp(fs, @, Last(path), seen)]

-----------------------------------------------------------------------------
(* throwIfAlreadyExists lets the call pass, and there is a free block:     *)
(* full volumes are BlockAllocator's.                                      *)
CanAdd(fs, path) ==
    /\ HasParent(fs, path)
    /\ EntryInfo(fs, path) = NoInfo
    /\ Block \ fs.owned # {}

Added(fs, path, type) ==
    LET start == Earliest(Block \ fs.owned)
        looked == getInfo(fs, path, {})
    IN  [looked EXCEPT
            !.table[ParentOf(looked, path).start] = With(@, Last(path), [type |-> type, start |-> start]),
            !.owned = @ \union {start}]

addFile(fs, path) == Added(fs, path, "file")
addFolder(fs, path) == Added(fs, path, "folder")

-----------------------------------------------------------------------------
(* setCachedFile keeps what it has: the path and the disposition are those *)
(* of the cached pair.                                                     *)
IsCached(fs, path, mode) ==
    fs.cached # NoFile /\ fs.cached.path = path /\ fs.cached.mode = mode

(* openFile and truncateFile find their file. *)
CanOpen(fs, path, mode) ==
    /\ HasParent(fs, path)
    /\ ~IsCached(fs, path, mode) => EntryInfo(fs, path).type = "file"

(* A new File, counted through and bound to its entry's info.  The path of *)
(* the pair is set with its first file only.                               *)
setCachedFile(fs, path, mode, seen) ==
    LET looked == getInfo(fs, path, seen)
        start == EntryInfo(fs, path).start
    IN  IF IsCached(fs, path, mode)
        THEN WithParent(fs, path, seen)
        ELSE [looked EXCEPT !.cached =
                [path |-> IF fs.cached = NoFile THEN path ELSE fs.cached.path,
                 of |-> path, start |-> start, mode |-> mode,
                 size |-> fs.size[start], cut |-> FALSE, reports |-> TRUE]]

(* Fault of the next definition: the new size is not reported. *)
Written_NotReported(fs) == [fs EXCEPT !.size[fs.cached.start] = @ + 1, !.cached.size = @ + 1]

(* FileDevice::write at the end of the file, on the device openFile has    *)
(* handed out: flush reports the size the object has.                      *)
Written(fs) ==
    LET f == fs.cached
        grown == [fs EXCEPT !.size[f.start] = @ + 1, !.cached.size = @ + 1]
    IN  IF f.reports
        THEN [grown EXCEPT !.folders[Front(f.of)].sizes[Last(f.of)] = f.size + 1]
        ELSE grown

(* The object keeps its size, and reports nothing. *)
truncateFile(fs, path, size, seen) ==
    LET opened == setCachedFile(fs, path, "overwrite", seen)
    IN  [opened EXCEPT !.size[opened.cached.start] = size, !.cached.cut = TRUE]

-----------------------------------------------------------------------------
(* The info of an entry is dropped, and with it what reports to it. *)
InfoDropped(fs, path) ==
    [fs EXCEPT
        !.folders[Front(path)].sizes = [n \in DOMAIN @ \ {Last(path)} |-> @[n]],
        !.cached = IF @ # NoFile /\ @.of = path THEN [@ EXCEPT !.reports = FALSE] ELSE @]

(* Fault of the next definition: only the folder itself is dropped. *)
removeFolderFromCache_NotItsChildren(fs, path) ==
    LET dropped == {path} \intersect (DOMAIN fs.folders \ {<< >>})
    IN  [fs EXCEPT
            !.folders = [p \in DOMAIN @ \ dropped |-> @[p]],
            !.cached = IF @ # NoFile /\ Front(@.of) \in dropped THEN [@ EXCEPT !.reports = FALSE] ELSE @]

(* removeFolderFromCache and removeAllChildFoldersToo: a cached folder and *)
(* the folders in it, as far down as each one on the way is cached and     *)
(* lists the next.  The root never is dropped: its path is compared with   *)
(* "/" after relative_path() has made it "".                               *)
removeFolderFromCache(fs, path) ==
    LET cached(q) == q \in DOMAIN fs.folders \ {<< >>}
        lists(p, name) ==
            LET entries == fs.table[fs.folders[p].start]
            IN  name \in DOMAIN entries /\ entries[name].type = "folder"
        dropped ==
            {q \in DOMAIN fs.folders :
                /\ IsPrefix(path, q)
                /\ \A k \in Len(path) .. Len(q) :
                    /\ cached(SubSeq(q, 1, k))
                    /\ k < Len(q) => lists(SubSeq(q, 1, k), q[k + 1])}
    IN  [fs EXCEPT
            !.folders = [p \in DOMAIN @ \ dropped |-> @[p]],
            !.cached = IF @ # NoFile /\ Front(@.of) \in dropped THEN [@ EXCEPT !.reports = FALSE] ELSE @]

(* Fault of the next definition: the path is compared with the file's own. *)
resetCachedFile_NotAbove(fs, path) ==
    IF fs.cached # NoFile /\ path = fs.cached.path THEN [fs EXCEPT !.cached = NoFile] ELSE fs

(* The cached file is dropped if the path is that of a folder above it. *)
resetCachedFile(fs, path) ==
    IF fs.cached # NoFile /\ IsStrictPrefix(path, fs.cached.path)
    THEN [fs EXCEPT !.cached = NoFile]
    ELSE fs

-----------------------------------------------------------------------------
(* The paths below and including a path, of what is there. *)
Within(fs, path) == {q \in Path : IsPrefix(path, q) /\ Exists(fs, q)}

EntryRemoved(fs, path, seen) ==
    LET looked == getInfo(fs, path, seen)
    IN  InfoDropped([looked EXCEPT !.table[ParentOf(looked, path).start] =
                                       [n \in DOMAIN @ \ {Last(path)} |-> @[n]]], path)

(* removeFile and removeCompoundFolder of ContentFolder, which removes the *)
(* entries of the folder first: their start blocks are deallocated, tables *)
(* have no slot in use any more and files no bytes.  FolderBuckets has the *)
(* steps of it, and what becomes of the buckets.                           *)
Unlinked(fs, path) ==
    LET gone == {NodeAt(fs, q).start : q \in Within(fs, path)}
    IN  [fs EXCEPT !.table = [b \in DOMAIN @ |-> IF b \in gone THEN << >> ELSE @[b]],
                   !.size = [b \in DOMAIN @ |-> IF b \in gone THEN 0 ELSE @[b]],
                   !.owned = @ \ gone]

CanRemoveFile(fs, path) == HasParent(fs, path) /\ EntryInfo(fs, path).type = "file"

removeFile(fs, path, seen) == EntryRemoved(Unlinked(fs, path), path, seen)

CanRemoveFolder(fs, path, removalType) ==
    /\ HasParent(fs, path)
    /\ EntryInfo(fs, path).type = "folder"
    /\ removalType = "MustBeEmpty" => fs.table[EntryInfo(fs, path).start] = << >>

removeFolder(fs, path, seen) ==
    LET removed == EntryRemoved(Unlinked(fs, path), path, seen)
        dropped == removeFolderFromCache(removeFolderFromCache(removed, path), Front(path))
    IN  resetCachedFile(dropped, path)

-----------------------------------------------------------------------------
(* Of the destination's parent it is not asked whether it was found        *)
(* (CoreFS.cpp:189): a call without one is undefined.                      *)
CanRename(fs, src, dst) ==
    /\ HasParent(fs, src) /\ EntryInfo(fs, src) # NoInfo
    /\ HasParent(fs, dst) /\ EntryInfo(fs, dst) = NoInfo

(* Fault of the next definition: the entry is not taken out of its folder. *)
renameEntry_SourceStays(fs, src, dst, seen) ==
    LET looked == getInfo(getInfo(WithParent(fs, src, seen), dst, seen), src, seen)
    IN  [looked EXCEPT !.table[ParentOf(looked, dst).start] = With(@, Last(dst), EntryInfo(fs, src))]

renameEntry(fs, src, dst, seen) ==
    LET looked == getInfo(getInfo(WithParent(fs, src, seen), dst, seen), src, seen)
        info == EntryInfo(fs, src)
        left == EntryRemoved(looked, src, seen)
        moved == [left EXCEPT !.table[ParentOf(left, dst).start] = With(@, Last(dst), info)]
        parentDropped == removeFolderFromCache(moved, Front(src))
        dropped == IF info.type = "folder" THEN removeFolderFromCache(parentDropped, src) ELSE parentDropped
    IN  resetCachedFile(dropped, src)

(* getFolder hands out a copy; the root's shares its buckets, and listing  *)
(* it gives every file in the root an info.                                *)
listFolder(fs, path, seen) ==
    IF path = << >>
    THEN LET files == {n \in DOMAIN fs.table[Root] : fs.table[Root][n].type = "file"}
         IN  [fs EXCEPT !.folders[<< >>] = InfosMade(fs, @, files)]
    ELSE getInfo(fs, path, seen)

RootOnly == [p \in {<< >>} |-> [start |-> Root, sizes |-> << >>]]

(* The constructor, on an image with an empty root folder. *)
EmptyFS ==
    [table |-> [b \in Block \union {Root} |-> << >>], size |-> [b \in Block |-> 0], owned |-> {},
     folders |-> RootOnly, cached |-> NoFile]

(* The same on an image with files in it. *)
Mounted(fs) ==
    [fs EXCEPT !.folders = RootOnly, !.cached = NoFile]

=============================================================================
