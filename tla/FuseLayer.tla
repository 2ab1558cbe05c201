----------------------------- MODULE FuseLayer -----------------------------
(***************************************************************************)
(* An image mounted through FUSE (src/fuse/FuseLayer.cpp): one action for  *)
(* every callback, over the operations of CoreFS.  The callbacks run one   *)
(* after the other, in one thread (FuseLayer.cpp:532).  A device is used   *)
(* in the callback that opened it and dropped at its end.                  *)
(*                                                                         *)
(* The caches of CoreFS do not survive every sequence of callbacks.        *)
(* Misuse says which of those that break them are made:                    *)
(*   returnToFirst     the file the cached pair is named after is opened   *)
(*                     again, in the same disposition, after another one   *)
(*   removeOpen        the file of the cached pair is removed              *)
(*   renameOpen        the file of the cached pair is renamed              *)
(*   truncateAgain     a file is truncated twice in a row                  *)
(*   renameAbove       a folder is renamed while a folder below it is      *)
(*                     cached and one between the two is not               *)
(*   removeAbove       a folder is removed while a folder below it is      *)
(*                     cached                                              *)
(*   orphanedWrite     a file is written through an object that reports    *)
(*                     its size to an entry info nobody looks at any more  *)
(*   renameIntoItself  a folder is moved to a folder in it; the kernel     *)
(*                     does not pass such a call on                        *)
(***************************************************************************)
EXTENDS CoreFS

CONSTANTS
    Misuse,
    MaxCalls \* bound: no more callbacks between two mounts

ASSUME MisuseAssumption ==
    /\ Misuse \subseteq {"returnToFirst", "removeOpen", "renameOpen", "truncateAgain", "renameAbove",
                         "removeAbove", "orphanedWrite", "renameIntoItself"}
    /\ MaxCalls \in Nat

VARIABLES
    fs,      \* the image and the CoreFS object
    chopped, \* history: the files truncated and not written to since
    calls    \* history: the callbacks since the image was mounted

vars == <<fs, chopped, calls>>

Init == fs = EmptyFS /\ chopped = {} /\ calls = 0

-----------------------------------------------------------------------------
IsCachedFile(path) == fs.cached # NoFile /\ fs.cached.path = path /\ fs.cached.of = path

(* The calls of Misuse, as conditions on the cached pair and the cached    *)
(* folders.                                                                *)
Opens(path, mode) ==
    /\ CanOpen(fs, path, mode)
    /\ (IsCached(fs, path, mode) /\ fs.cached.of # path) => "returnToFirst" \in Misuse

FolderCachedBelow(path) == \E q \in DOMAIN fs.folders : IsStrictPrefix(path, q)

GapInCacheBelow(path) ==
    \E q \in DOMAIN fs.folders : IsStrictPrefix(path, q) /\
        \E k \in Len(path) .. Len(q) : SubSeq(q, 1, k) \notin DOMAIN fs.folders

Orphaned(path) ==
    /\ IsCached(fs, path, "append") /\ ~fs.cached.reports
    /\ Front(path) \in DOMAIN fs.folders /\ Last(path) \in DOMAIN ParentOf(fs, path).sizes
-----------------------------------------------------------------------------
knoxcrypt_getattr(path) ==
    /\ HasParent(fs, path)
    /\ \E seen \in {{}, Name} : fs' = getInfo(fs, path, seen)
    /\ UNCHANGED chopped

knoxcrypt_readdir(path) ==
    /\ path # << >> => HasParent(fs, path) /\ EntryInfo(fs, path).type = "folder"
    /\ \E seen \in {{}, Name} : fs' = listFolder(fs, path, seen)
    /\ UNCHANGED chopped

knoxcrypt_mkdir(path) ==
    /\ CanAdd(fs, path)
    /\ Len(path) < MaxDepth
    /\ fs' = addFolder(fs, path)
    /\ UNCHANGED chopped

(* create, and open of a file that does not exist. *)
knoxcrypt_create(path) ==
    /\ CanAdd(fs, path)
    /\ fs' = addFile(fs, path)
    /\ UNCHANGED chopped

(* openFile, then seek and read on the device. *)
knoxcrypt_read(path) ==
    /\ Opens(path, "readOnly")
    /\ \E seen \in {{}, Name} : fs' = setCachedFile(fs, path, "readOnly", seen)
    /\ UNCHANGED chopped

(* openFile, then seek, write and flush on the device.  The bytes go to    *)
(* the end of the file: BlockFile has the other cases.                     *)
knoxcrypt_write(path) ==
    /\ Opens(path, "append")
    /\ Orphaned(path) => "orphanedWrite" \in Misuse
    /\ \E seen \in {{}, Name} :
        LET opened == setCachedFile(fs, path, "append", seen)
        IN  /\ opened.size[opened.cached.start] < MaxSize
            /\ fs' = Written(opened)
            /\ chopped' = chopped \ {opened.cached.start}

(* truncate and ftruncate, to no more than the file has. *)
knoxcrypt_truncate(path, size) ==
    /\ Opens(path, "overwrite")
    /\ (IsCached(fs, path, "overwrite") /\ fs.cached.cut) => "truncateAgain" \in Misuse
    /\ \E seen \in {{}, Name} :
        LET after == truncateFile(fs, path, size, seen)
        IN  /\ size <= fs.size[after.cached.start]
            /\ fs' = after
            /\ chopped' = chopped \union {after.cached.start}

knoxcrypt_unlink(path) ==
    /\ CanRemoveFile(fs, path)
    /\ IsCachedFile(path) => "removeOpen" \in Misuse
    /\ \E seen \in {{}, Name} : fs' = removeFile(fs, path, seen)
    /\ chopped' = chopped \intersect fs'.owned

knoxcrypt_rmdir(path) ==
    /\ CanRemoveFolder(fs, path, "Recursive")
    /\ FolderCachedBelow(path) => "removeAbove" \in Misuse
    /\ \E seen \in {{}, Name} : fs' = removeFolder(fs, path, seen)
    /\ chopped' = chopped \intersect fs'.owned

knoxcrypt_rename(path, newpath) ==
    /\ CanRename(fs, path, newpath)
    /\ IsCachedFile(path) => "renameOpen" \in Misuse
    /\ GapInCacheBelow(path) => "renameAbove" \in Misuse
    /\ IsPrefix(path, newpath) => "renameIntoItself" \in Misuse
    /\ \A q \in Within(fs, path) : \* bound: no path gets too long
        LET depth == Len(newpath) + Len(q) - Len(path)
        IN  depth <= IF NodeAt(fs, q).type = "folder" THEN MaxDepth - 1 ELSE MaxDepth
    /\ \E seen \in {{}, Name} : fs' = renameEntry(fs, path, newpath, seen)
    /\ UNCHANGED chopped

(* The image is unmounted and mounted again. *)
Remount ==
    /\ fs' = Mounted(fs)
    /\ chopped' = {}
    /\ calls' = 0

Callback ==
    \/ knoxcrypt_readdir(<< >>)
    \/ \E path \in Path :
        \/ knoxcrypt_getattr(path)
        \/ knoxcrypt_readdir(path)
        \/ knoxcrypt_mkdir(path)
        \/ knoxcrypt_create(path)
        \/ knoxcrypt_read(path)
        \/ knoxcrypt_write(path)
        \/ \E size \in 0 .. MaxSize : knoxcrypt_truncate(path, size)
        \/ knoxcrypt_unlink(path)
        \/ knoxcrypt_rmdir(path)
        \/ \E newpath \in Path : knoxcrypt_rename(path, newpath)

Next ==
    \/ Remount
    \/ calls < MaxCalls /\ calls' = calls + 1 /\ Callback

Spec == Init /\ [][Next]_vars
-----------------------------------------------------------------------------
(* Whatever was renamed, moved and removed, the folder object kept for a   *)
(* path is that of the folder now at the path: no call works on the table  *)
(* of a folder that is elsewhere or gone (CoreFS.cpp:459-462, 544-563).    *)
CachedFoldersCurrent ==
    \A p \in DOMAIN fs.folders :
        NodeAt(fs, p) = [type |-> "folder", start |-> fs.folders[p].start]

(* Where a callback is handed the object of the cached pair again, this is *)
(* an object of the file that the path names, and knows its size: neither  *)
(* another file's nor an earlier one's (CoreFS.cpp:385-401).               *)
CachedFileCurrent ==
    LET f == fs.cached
        handedOut == Opens(f.path, f.mode) /\ (f.cut => "truncateAgain" \in Misuse)
    IN  fs.cached # NoFile =>
        (handedOut => /\ NodeAt(fs, f.path) = [type |-> "file", start |-> f.start]
                      /\ f.size = fs.size[f.start])

(* The size getInfo reports, which the kernel bounds its reads by, is the  *)
(* file's, unless the file was truncated and not written since: every      *)
(* growth reaches the entry info that look-ups find (File.cpp:588-591,     *)
(* ContentFolder.cpp:366-368).                                             *)
SizesReported ==
    \A p \in DOMAIN fs.folders :
        \A n \in DOMAIN fs.folders[p].sizes :
            LET start == NodeAt(fs, Append(p, n)).start
            IN  fs.folders[p].sizes[n] = fs.size[start] \/ start \in chopped

-----------------------------------------------------------------------------
Tree ==
    [p \in {q \in Path : Exists(fs, q)} |->
        LET node == NodeAt(fs, p)
        IN  [type |-> node.type, size |-> IF node.type = "file" THEN fs.size[node.start] ELSE 0]]

FT == INSTANCE FileTree WITH tree <- Tree, FileSizes <- 0 .. MaxSize

(* Through all the caches, the mounted image is a tree of files and        *)
(* folders: FileTree.                                                      *)
ImplementsFileTree == FT!Spec
=============================================================================
