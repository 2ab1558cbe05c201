------------------------------- MODULE Shell -------------------------------
(***************************************************************************)
(* The interactive shell (src/utility/Teashell.cpp) over the operations of *)
(* CoreFS.  A command runs to its end before the next one is read; add and *)
(* extract copy trees entry by entry, and an exception ends them where     *)
(* they are: loop catches it and prompts again.                            *)
(*                                                                         *)
(* Misuse is that of FuseLayer, as far as the shell can do it:             *)
(*   returnToFirst  a file with the path of the cached pair is opened,     *)
(*                  while or after another one is                          *)
(*   removeOpen     the file of the cached pair is removed                 *)
(*   removeAbove    a folder is removed while a folder below it is cached  *)
(***************************************************************************)
EXTENDS CoreFS, FiniteSets, TLC

CONSTANTS
    Source,     \* the trees on the disk that can be added
    Misuse,
    MaxCommands \* bound: no more commands in a session

ASSUME ShellAssumption ==
    /\ Misuse \subseteq {"returnToFirst", "removeOpen", "removeAbove"}
    /\ MaxCommands \in Nat

VARIABLES
    fs,         \* the image and the CoreFS object
    workingDir, \* currentPath of loop
    job,        \* the command that is copying, if one is
    commands    \* history: how many were given

vars == <<fs, workingDir, job, commands>>

(* What add and extract copy: the tree, by paths that begin with its own   *)
(* name, and the folder it is in or goes to; what has been copied so far,  *)
(* last of all the entry last; and what the image held before.             *)
NoJob == [kind |-> "none"]
Job(kind, at, tree, before) ==
    [kind |-> kind, at |-> at, tree |-> tree, copied |-> << >>, last |-> << >>, before |-> before]

Init == fs = EmptyFS /\ workingDir = << >> /\ job = NoJob /\ commands = 0

-----------------------------------------------------------------------------
NodeOf(path) ==
    LET node == NodeAt(fs, path)
    IN  [type |-> node.type, size |-> IF node.type = "file" THEN fs.size[node.start] ELSE 0]

(* What is at a path and below, by paths that begin with its last name. *)
TreeAt(path) ==
    [p \in {SubSeq(q, Len(path), Len(q)) : q \in Within(fs, path)} |-> NodeOf(Front(path) \o p)]

Image == [q \in {p \in Path : Exists(fs, p)} |-> NodeOf(q)]

(* The recursion of recursiveAdd and recursiveExtract: the entries of the  *)
(* folder being copied come next, in any order, and then those of the one  *)
(* that it is in.                                                          *)
Upcoming(j) ==
    LET left == DOMAIN j.tree \ DOMAIN j.copied
        inFolder(n) == {p \in left : Front(p) = SubSeq(j.last, 1, n)}
        depth == CHOOSE n \in 0 .. Len(j.last) :
                    /\ inFolder(n) # {}
                    /\ \A m \in n + 1 .. Len(j.last) : inFolder(m) = {}
    IN  IF left = {} THEN {} ELSE inFolder(depth)

Copied(j, path, node) == [j EXCEPT !.copied = (path :> node) @@ @, !.last = path]

FilesOf(tree) == {p \in DOMAIN tree : tree[p].type = "file"}

(* Opening these files, one after the other, is no returnToFirst. *)
OpensEach(files, mode) ==
    \/ "returnToFirst" \in Misuse
    \/ fs.cached = NoFile
    \/ fs.cached.path \notin files
    \/ Cardinality(files) = 1 /\ (IsCached(fs, fs.cached.path, mode) => fs.cached.of = fs.cached.path)

Prompt == job = NoJob /\ commands < MaxCommands /\ commands' = commands + 1
-----------------------------------------------------------------------------
(* A folder of which the parent is not found is listed as the root is; of  *)
(* what is no folder getFolder throws, when it has looked for it.          *)
Listed(state, path, seen) ==
    listFolder(state, IF path # << >> /\ HasParent(state, path) THEN path ELSE << >>, seen)

(* ls lists what it is given, and then the working directory. *)
com_ls(path) ==
    LET throws == path # << >> /\ HasParent(fs, path) /\ EntryInfo(fs, path).type # "folder"
    IN  /\ Prompt
        /\ \E seen \in {{}, Name} :
            LET listed == Listed(fs, path, seen)
            IN  fs' = IF throws THEN listed ELSE Listed(listed, workingDir, seen)
        /\ UNCHANGED <<workingDir, job>>

(* removeEntry: of what is neither file nor folder, getInfo throws. *)
com_rm(path) ==
    /\ Prompt
    /\ \E seen \in {{}, Name} :
        \/ /\ CanRemoveFile(fs, path)
           /\ (fs.cached # NoFile /\ path \in {fs.cached.path, fs.cached.of}) => "removeOpen" \in Misuse
           /\ fs' = removeFile(fs, path, seen)
        \/ /\ CanRemoveFolder(fs, path, "Recursive")
           /\ (\E q \in DOMAIN fs.folders : IsStrictPrefix(path, q)) => "removeAbove" \in Misuse
           /\ fs' = removeFolder(fs, path, seen)
    /\ UNCHANGED <<workingDir, job>>

com_mkdir(path) ==
    /\ Prompt
    /\ CanAdd(fs, path)
    /\ Len(path) < MaxDepth
    /\ fs' = addFolder(fs, path)
    /\ UNCHANGED <<workingDir, job>>

(* folderExists, and the look-up it takes. *)
MoveTo(path) ==
    /\ \E seen \in {{}, Name} :
        fs' = IF path # << >> /\ HasParent(fs, path) THEN getInfo(fs, path, seen) ELSE fs
    /\ workingDir' =
        IF path = << >> \/ (HasParent(fs, path) /\ EntryInfo(fs, path).type = "folder")
        THEN path
        ELSE workingDir
    /\ UNCHANGED job

com_push(fragment) == Prompt /\ MoveTo(Append(workingDir, fragment))

com_pop == Prompt /\ MoveTo(IF workingDir = << >> THEN << >> ELSE Front(workingDir))

(* formattedPath makes the path absolute first. *)
com_cd(path) == Prompt /\ MoveTo(path)

-----------------------------------------------------------------------------
com_add(tree) ==
    LET at(p) == workingDir \o p
    IN  /\ Prompt
        /\ {at(p) : p \in DOMAIN tree} \subseteq Path
        /\ OpensEach({at(p) : p \in FilesOf(tree)}, "writeOnly")
        /\ job' = Job("add", workingDir, tree, Image)
        /\ UNCHANGED <<fs, workingDir>>

(* A new file: it is opened for writing, and gets the bytes of the source. *)
FileFilled(path, size, seen) ==
    LET opened == setCachedFile(addFile(fs, path), path, "writeOnly", seen)
        filled[n \in 0 .. size] == IF n = 0 THEN opened ELSE Written(filled[n - 1])
    IN  filled[size]

(* The next entry of the source is made in the image.  If it exists there, *)
(* has no folder to go to, or there is no block for it, the call throws.   *)
copyFromPhysical ==
    /\ job.kind = "add"
    /\ \E p \in Upcoming(job), seen \in {{}, Name} :
        LET path == job.at \o p
            node == job.tree[p]
        IN  IF CanAdd(fs, path)
            THEN /\ fs' = IF node.type = "folder" THEN addFolder(fs, path) ELSE FileFilled(path, node.size, seen)
                 /\ job' = Copied(job, p, node)
            ELSE /\ fs' = IF HasParent(fs, path) THEN getInfo(fs, path, seen) ELSE fs
                 /\ job' = NoJob
    /\ UNCHANGED <<workingDir, commands>>

-----------------------------------------------------------------------------
com_extract(path) ==
    /\ Prompt
    /\ HasParent(fs, path) /\ EntryInfo(fs, path) # NoInfo
    /\ OpensEach({q \in Within(fs, path) : NodeAt(fs, q).type = "file"}, "readOnly")
    /\ \E seen \in {{}, Name} : fs' = getInfo(fs, path, seen)
    /\ job' = Job("extract", Front(path), TreeAt(path), Image)
    /\ UNCHANGED workingDir

(* What copy reads from a device after seek(0). *)
BytesOf(opened) == opened.cached.size

(* enterFolder or enterFile of the next entry. *)
recursiveExtract ==
    /\ job.kind = "extract"
    /\ \E p \in Upcoming(job), seen \in {{}, Name} :
        LET path == job.at \o p
        IN  IF job.tree[p].type = "folder"
            THEN /\ fs' = listFolder(fs, path, seen)
                 /\ job' = Copied(job, p, job.tree[p])
            ELSE /\ fs' = setCachedFile(fs, path, "readOnly", seen)
                 /\ job' = Copied(job, p, [type |-> "file", size |-> BytesOf(fs')])
    /\ UNCHANGED <<workingDir, commands>>

CommandEnds ==
    /\ job # NoJob
    /\ DOMAIN job.copied = DOMAIN job.tree
    /\ job' = NoJob
    /\ UNCHANGED <<fs, workingDir, commands>>

(* The shell is left, and started again on the image. *)
Restart ==
    /\ job = NoJob
    /\ fs' = Mounted(fs) /\ workingDir' = << >> /\ job' = NoJob /\ commands' = 0

Next ==
    \/ \E path \in Path : com_ls(path) \/ com_rm(path) \/ com_mkdir(path) \/ com_cd(path) \/ com_extract(path)
    \/ com_ls(<< >>) \/ com_pop \/ com_cd(<< >>)
    \/ \E fragment \in Name : com_push(fragment)
    \/ \E tree \in Source : com_add(tree)
    \/ copyFromPhysical \/ recursiveExtract \/ CommandEnds
    \/ Restart

Spec == Init /\ [][Next]_vars
-----------------------------------------------------------------------------
(* An add, finished or ended by an exception at any entry, has put into    *)
(* the image what it has copied so far, bytes and all, and has changed     *)
(* nothing else (CopyFromPhysical.hpp:48-78, RecursiveFolderAdder.hpp).    *)
AddedAsOnDisk ==
    job.kind = "add" =>
        LET added == {job.at \o p : p \in DOMAIN job.copied}
            source(q) == job.copied[SubSeq(q, Len(job.at) + 1, Len(q))]
        IN  Image = [q \in added |-> source(q)] @@ job.before

(* What extract writes to the disk is what the image has at the path, file *)
(* by file, and the image stays as it is (ExtractToPhysical.hpp:52-89).    *)
ExtractedAsInImage ==
    job.kind = "extract" =>
        /\ Image = job.before
        /\ \A p \in DOMAIN job.copied : job.copied[p] = NodeOf(job.at \o p)

=============================================================================
