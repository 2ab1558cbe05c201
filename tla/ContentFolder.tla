---------------------------- MODULE ContentFolder ----------------------------
(***************************************************************************)
(* One content folder (src/knoxcrypt/ContentFolder.cpp): its table of      *)
(* entries, the object that works on it, and which start blocks belong to  *)
(* a file or folder.  Every operation is one that CompoundFolder and       *)
(* CoreFS call, with what they know when they call it: a name is added, or *)
(* renamed to, only if no entry has it, and an entry that is renamed or    *)
(* moved exists (CoreFS.cpp:135, 157, 194-202).                            *)
(*                                                                         *)
(* Misuse says which calls beyond the ones ContentFolder serves are made:  *)
(*   renameOntoDead   an entry is renamed to a name a dead slot still has  *)
(***************************************************************************)
EXTENDS EntryTable

CONSTANTS
    MaxEntries,   \* bound: no table has more slots
    MaxUncounted, \* bound: moves away from the folder that go uncounted
    Misuse

VARIABLES
    folder,    \* the table and the object
    owned,     \* the blocks where a file or folder starts, here or elsewhere
    elsewhere  \* the infos of the entries other folders hold

vars == <<folder, owned, elsewhere>>

AliveNames == {folder.slots[i].name : i \in Alive(folder)}

(* The dead slots that m_deadEntryCount leaves out. *)
Uncounted == Cardinality(Dead(folder)) - folder.deadEntryCount

(* An operation that adds an entry finds room below the bound. *)
HasRoom == Len(folder.slots) < MaxEntries \/ doFindOffsetWhereMetaDataShouldBeWritten(folder) # 0

Init ==
    /\ folder = Opened(<< >>, 0)
    /\ owned = {}
    /\ elsewhere = {}

(* A new object on the table, as when the image is mounted again. *)
Reopen ==
    /\ folder' = Opened(folder.slots, folder.count)
    /\ UNCHANGED <<owned, elsewhere>>

getEntryInfo(name) ==
    /\ folder' = AfterLookUp(folder, name)
    /\ UNCHANGED <<owned, elsewhere>>

listEntries ==
    /\ folder' = listAllEntries(folder)
    /\ UNCHANGED <<owned, elsewhere>>

(* listFileEntries and listFolderEntries. *)
listEntriesOfType(type) ==
    /\ folder' = doListEntriesBasedOnType(folder, type)
    /\ UNCHANGED <<owned, elsewhere>>

(* addFile, addContentFolder and addCompoundFolder: a start block is       *)
(* allocated, then the entry is written.                                   *)
AddEntry(name, type) ==
    /\ name \notin AliveNames
    /\ HasRoom
    /\ \E start \in Block \ owned :
        /\ owned' = owned \union {start}
        /\ folder' = doWriteNewMetaDataForEntry(folder, name, type, start)
    /\ UNCHANGED elsewhere

(* A removal of another kind than the entry's, or of no entry at all. *)
RemoveNothing(name, type) ==
    /\ InfoOfType(folder, name, type) = NoInfo
    /\ folder' = AfterLookUp(folder, name)
    /\ UNCHANGED <<owned, elsewhere>>

(* removeFile, removeContentFolder and removeCompoundFolder: the blocks    *)
(* are deallocated and the slot is put out of use.  What a folder holds    *)
(* has blocks of its own.                                                  *)
RemoveEntry(name, type) ==
    LET info == InfoOfType(folder, name, type)
    IN  /\ info # NoInfo
        /\ owned' = owned \ {info.start}
        /\ folder' = Buried(AfterLookUp(folder, name), name)
        /\ UNCHANGED elsewhere

(* The first half of a move to another folder: renameEntry looks the entry *)
(* up and puts its slot out of use, without counting it dead.              *)
putMetaDataOutOfUse(name) ==
    /\ name \in AliveNames
    /\ Uncounted < MaxUncounted
    /\ folder' = doPutMetaDataOutOfUse(AfterLookUp(folder, name), name)
    /\ elsewhere' = elsewhere \union {doGetNamedEntryInfo(folder, name)}
    /\ UNCHANGED owned

(* The second half of a move from another folder. *)
writeNewMetaDataForEntry(name) ==
    /\ name \notin AliveNames
    /\ HasRoom
    /\ \E info \in elsewhere :
        /\ folder' = doWriteNewMetaDataForEntry(folder, name, info.type, info.start)
        /\ elsewhere' = elsewhere \ {info}
    /\ UNCHANGED owned

Rename(srcName, dstName) ==
    /\ srcName \in AliveNames
    /\ dstName \notin AliveNames
    /\ Named(folder, dstName) # {} => "renameOntoDead" \in Misuse
    /\ folder' = updateMetaDataWithNewFilename(folder, srcName, dstName)
    /\ UNCHANGED <<owned, elsewhere>>

Next ==
    \/ Reopen
    \/ listEntries
    \/ \E type \in EntryType : listEntriesOfType(type)
    \/ \E name \in Name :
        \/ getEntryInfo(name)
        \/ putMetaDataOutOfUse(name)
        \/ writeNewMetaDataForEntry(name)
        \/ \E type \in EntryType :
            \/ AddEntry(name, type)
            \/ RemoveEntry(name, type)
            \/ RemoveNothing(name, type)
    \/ \E srcName, dstName \in Name : Rename(srcName, dstName)

Spec == Init /\ [][Next]_vars
-----------------------------------------------------------------------------
(* The look-up by name that renaming and removing use, which does not ask  *)
(* whether a slot is in use (ContentFolder.cpp:707-716), finds the slot in *)
(* use wherever a name has one: no dead slot with the name is before it,   *)
(* and no other slot in use has the name.                                  *)
LookUpFindsAlive ==
    \A i \in Alive(folder) : doGetMetaDataIndexForEntry(folder, folder.slots[i].name) = i

(* A cached info is that of the slot in use with its name: no rename,      *)
(* removal or re-use of a slot leaves an old one (ContentFolder.cpp:488,   *)
(* 528, 678-681).                                                          *)
InfosAgree ==
    \A n \in DOMAIN folder.infos :
        \E i \in Alive(folder) :
            folder.slots[i].name = n /\ folder.infos[n] = InfoOf(folder.slots[i])

(* An entry's start block is allocated, and no other entry, here or        *)
(* elsewhere, starts there: removing it deallocates nobody else's blocks   *)
(* (ContentFolder.cpp:549).                                                *)
EntriesOwnTheirBlocks ==
    /\ \A i \in Alive(folder) :
        /\ folder.slots[i].start \in owned
        /\ InfoOf(folder.slots[i]) \notin elsewhere
        /\ \A j \in Alive(folder) : folder.slots[i].start = folder.slots[j].start => i = j
    /\ \A info \in elsewhere : info.start \in owned

(* While the folder does not look for dead slots, it has none: no slot     *)
(* that could be used again is passed over (ContentFolder.cpp:743-744).    *)
NoSlotPassedOver == Dead(folder) # {} => folder.checkForEarlyMetaData

-----------------------------------------------------------------------------
(* The entry of a name is that of the slot in use with the name. *)
Entries ==
    [n \in AliveNames |->
        InfoOf(folder.slots[Earliest(Named(folder, n) \intersect Alive(folder))])]

FM == INSTANCE FolderMap WITH entries <- Entries

(* The content folder is a map from names to entries: FolderMap. *)
ImplementsFolderMap == FM!Spec
=============================================================================
