----------------------------- MODULE FolderMap -----------------------------
(***************************************************************************)
(* A folder as its users see it through ContentFolder.hpp and              *)
(* CompoundFolder.hpp: names, each with one entry, to add, rename and      *)
(* remove.  The comments there say no more than "does what it says"; this  *)
(* is what it says.                                                        *)
(***************************************************************************)

CONSTANTS
    Name, \* the names of entries
    Info  \* what an entry says of its file or folder: its type and start block

VARIABLE entries \* the entry of each name that has one

Init == entries = << >>

(* A new file or folder, or one that was in another folder. *)
Enter(name) ==
    \E info \in Info :
        entries' = [n \in DOMAIN entries \union {name} |-> IF n = name THEN info ELSE entries[n]]

(* The entry is deleted, or moves to another folder. *)
Leave(name) == entries' = [n \in DOMAIN entries \ {name} |-> entries[n]]

Rename(src, dst) ==
    entries' = [n \in (DOMAIN entries \ {src}) \union {dst} |-> entries[IF n = dst THEN src ELSE n]]

(* Looking up, listing and opening the folder again change nothing. *)
Next ==
    /\ entries' # entries
    /\ \/ \E name \in DOMAIN entries : Leave(name)
       \/ \E name \in DOMAIN entries' \ DOMAIN entries : Enter(name)
       \/ \E src \in DOMAIN entries : \E dst \in Name \ DOMAIN entries : Rename(src, dst)

Spec == Init /\ [][Next]_entries
=============================================================================
