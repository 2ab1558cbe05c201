------------------------------ MODULE FileTree ------------------------------
(***************************************************************************)
(* A file system as the callers of CoreFS.hpp see it: a tree of folders    *)
(* and files, each known by its path.  Of a file only its size is kept.    *)
(***************************************************************************)
EXTENDS Sequences, SequencesExt

CONSTANTS
    Path,     \* the paths of files and folders; the root's is << >>
    FileSizes \* the sizes a file can have

VARIABLE tree \* what is at each path in use but the root's: its type and size

Nothing == [type |-> "folder", size |-> 0]
EmptyFile == [type |-> "file", size |-> 0]

Within(path) == {q \in DOMAIN tree : IsPrefix(path, q)}

IsFolder(path) ==
    \/ path = << >>
    \/ path \in DOMAIN tree /\ tree[path].type = "folder"

Init == tree = << >>

Make(path) ==
    /\ IsFolder(Front(path))
    /\ \E new \in {Nothing, EmptyFile} : tree' = [q \in DOMAIN tree \union {path} |-> IF q = path THEN new ELSE tree[q]]

(* A file grows, or is chopped off; no other file does. *)
Resize(path) ==
    /\ tree[path].type = "file"
    /\ tree' = [tree EXCEPT ![path].size = tree'[path].size]
    /\ tree'[path].size \in FileSizes

(* A folder goes with all that is in it. *)
Delete(path) == tree' = [q \in DOMAIN tree \ Within(path) |-> tree[q]]

Move(src, dst) ==
    LET to(q) == dst \o SubSeq(q, Len(src) + 1, Len(q))
        moved == {to(q) : q \in Within(src)}
        from(q) == src \o SubSeq(q, Len(dst) + 1, Len(q))
    IN  /\ IsFolder(Front(dst))
        /\ ~IsPrefix(src, dst)
        /\ tree' = [q \in (DOMAIN tree \ Within(src)) \union moved |->
                        IF q \in moved THEN tree[from(q)] ELSE tree[q]]

(* Looking up, listing, opening and reading. *)
LookUp == UNCHANGED tree

Next ==
    LET appeared == DOMAIN tree' \ DOMAIN tree
        gone == DOMAIN tree \ DOMAIN tree'
    IN  \/ LookUp
        \/ \E path \in appeared : Make(path)
        \/ gone = {} /\ \E path \in DOMAIN tree : Resize(path)
        \/ \E path \in gone : Delete(path) \/ \E dst \in appeared : Move(path, dst)

Spec == Init /\ [][Next]_tree
=============================================================================
