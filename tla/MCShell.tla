------------------------------ MODULE MCShell ------------------------------
(***************************************************************************)
(* Instances of Shell for TLC.  The trees on the disk, under every name:   *)
(* files of one and of two bytes, folders of one and of two files, and     *)
(* folders of a folder, with a file in it, and a file.                     *)
(***************************************************************************)
EXTENDS Shell, TLC

File(size) == [type |-> "file", size |-> size]
Folder == [type |-> "folder", size |-> 0]

MCSource ==
    {<<n>> :> File(size) : n \in Name, size \in 1 .. 2}
    \union {(<<n>> :> Folder) @@ [p \in {<<n, m>> : m \in Name} |-> File(IF p[2] = f THEN 2 ELSE 1)] :
                n \in Name, f \in Name}
    \union {(<<n>> :> Folder) @@ (<<n, f>> :> File(1)) : n \in Name, f \in Name}
    \union {(<<n>> :> Folder) @@ (<<n, m>> :> Folder) @@ (<<n, m, m>> :> File(2))
                @@ [p \in {<<n, f>> : f \in Name} |-> File(1)] : n \in Name, m \in Name}

Symmetry == Permutations(Name)
=============================================================================
