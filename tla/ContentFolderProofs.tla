------------------------ MODULE ContentFolderProofs ------------------------
(***************************************************************************)
(* What a content folder keeps, for every set of names, every set of       *)
(* blocks and tables of every size, as long as no entry is renamed to a    *)
(* name a dead slot still has.  What the operations do to the table is     *)
(* EntryTableProofs'; here are the blocks, the steps and the map of names. *)
(***************************************************************************)
EXTENDS ContentFolder, EntryTableProofs

(* Every entry, in this folder or elsewhere, has a start block that is     *)
(* allocated and that no other entry has.                                  *)
OwnInv ==
    /\ owned \subseteq Block
    /\ elsewhere \subseteq Info
    /\ \A i \in Alive(folder) :
        /\ folder.slots[i].start \in owned
        /\ \A j \in Alive(folder) : folder.slots[i].start = folder.slots[j].start => i = j
        /\ \A info \in elsewhere : info.start # folder.slots[i].start
    /\ \A info \in elsewhere : info.start \in owned
    /\ \A info, other \in elsewhere : info.start = other.start => info = other

(* The inductive invariant. *)
IInv == TableInv(folder) /\ OwnInv

(* The names dead slots have are not given to entries by a rename. *)
NoReuse == "renameOntoDead" \notin Misuse

-----------------------------------------------------------------------------
(* The empty table of a new folder, of whose blocks none are allocated.    *)
LEMMA IInvInit == Init => IInv
  BY OpeningEmpty DEF Init, IInv, OwnInv

(* The slots in use that a step leaves keep their blocks. *)
LEMMA OwnKept ==
    ASSUME IInv, UNCHANGED <<owned, elsewhere>>,
           Alive(folder') = Alive(folder),
           \A i \in Alive(folder) : folder'.slots[i].start = folder.slots[i].start
    PROVE  OwnInv'
  BY DEF IInv, OwnInv

(* Looking things up changes no slot. *)
LEMMA LookingSteps ==
    ASSUME IInv, UNCHANGED <<owned, elsewhere>>,
           TableInv(folder'), SameTable(folder, folder')
    PROVE  /\ IInv'
           /\ Alive(folder') = Alive(folder) /\ folder'.slots = folder.slots
  <1>1. folder'.slots = folder.slots /\ folder'.entryCount = folder.entryCount
    BY DEF IInv, TableInv, TableType, Fields, SameTable
  <1>2. Alive(folder') = Alive(folder)
    BY <1>1 DEF Alive, Seen
  <1>3. OwnInv'
    BY <1>1, <1>2, OwnKept
  <1> QED BY <1>1, <1>2, <1>3 DEF IInv

(* What a slot in use says. *)
LEMMA AliveSlot ==
    ASSUME IInv, NEW i \in Alive(folder)
    PROVE  /\ folder.slots[i].start \in owned
           /\ folder.slots[i].inUse
           /\ InfoOf(folder.slots[i]) \in Info
           /\ InfoOf(folder.slots[i]) # NoInfo
           /\ InfoOf(folder.slots[i]).start = folder.slots[i].start
  <1>1. folder.slots[i] \in Slot /\ folder.slots[i].start \in Block /\ folder.slots[i].start \in owned
    BY SlotSets DEF Alive, IInv, TableInv, OwnInv
  <1>2. InfoOf(folder.slots[i]) \in Info
    BY <1>1 DEF InfoOf, Info, Slot
  <1> QED BY <1>1, <1>2, NoBlockAssumption DEF InfoOf, NoInfo, Slot, Alive

-----------------------------------------------------------------------------
(* An entry is written into the slot at: a new one, with a start block of  *)
(* its own, or one that was elsewhere.                                     *)
LEMMA WrittenKeeps ==
    ASSUME IInv, NEW name \in Name, NEW info \in Info, name \notin AliveNames,
           folder' = doWriteNewMetaDataForEntry(folder, name, info.type, info.start),
           \/ info.start \in Block \ owned /\ owned' = owned \union {info.start} /\ UNCHANGED elsewhere
           \/ info \in elsewhere /\ elsewhere' = elsewhere \ {info} /\ UNCHANGED owned
    PROVE  /\ IInv'
           /\ \A i \in Alive(folder) : folder'.slots[i] = folder.slots[i]
           /\ \E at : /\ at \notin Alive(folder) /\ Alive(folder') = Alive(folder) \union {at}
                      /\ folder'.slots[at].name = name /\ InfoOf(folder'.slots[at]) = info
  <1>1. info.type \in EntryType /\ info.start \in Block /\ info = [type |-> info.type, start |-> info.start]
    BY DEF Info
  <1>2. \A i \in Alive(folder) : folder.slots[i].name # name
    BY DEF AliveNames
  <1>3. /\ TableInv(folder')
        /\ \A i \in Alive(folder) : folder'.slots[i] = folder.slots[i]
    BY <1>1, <1>2, EntryWritten DEF IInv, AnyName
  <1>4. PICK at \in Seen(folder') \ Alive(folder) :
            /\ Alive(folder') = Alive(folder) \union {at}
            /\ folder'.slots[at] = NewSlot(name, info.type, info.start)
    BY <1>1, <1>2, EntryWritten DEF IInv, AnyName
  <1>5. /\ folder'.slots[at].name = name /\ folder'.slots[at].start = info.start
        /\ InfoOf(folder'.slots[at]) = info
    BY <1>1, <1>4 DEF NewSlot, InfoOf
  <1>6. \A i \in Alive(folder) : folder.slots[i].start # info.start
    BY DEF IInv, OwnInv
  <1>7. OwnInv'
    <2>1. CASE info.start \in Block \ owned /\ owned' = owned \union {info.start} /\ UNCHANGED elsewhere
      BY <1>3, <1>4, <1>5, <1>6, <2>1 DEF IInv, OwnInv
    <2>2. CASE info \in elsewhere /\ elsewhere' = elsewhere \ {info} /\ UNCHANGED owned
      BY <1>3, <1>4, <1>5, <1>6, <2>2 DEF IInv, OwnInv
    <2> QED BY <2>1, <2>2
  <1> QED BY <1>3, <1>4, <1>5, <1>7 DEF IInv

(* A new file or folder: one more slot is in use, with a block no other    *)
(* entry has.                                                              *)
LEMMA AddEntryKeeps ==
    ASSUME IInv, NEW name \in Name, NEW type \in EntryType, AddEntry(name, type)
    PROVE  /\ IInv'
           /\ name \notin AliveNames
           /\ \A i \in Alive(folder) : folder'.slots[i] = folder.slots[i]
           /\ \E info \in Info : \E at :
                  /\ at \notin Alive(folder) /\ Alive(folder') = Alive(folder) \union {at}
                  /\ folder'.slots[at].name = name /\ InfoOf(folder'.slots[at]) = info
  <1>1. PICK start \in Block \ owned :
            /\ owned' = owned \union {start}
            /\ folder' = doWriteNewMetaDataForEntry(folder, name, type, start)
    BY DEF AddEntry
  <1> DEFINE info == [type |-> type, start |-> start]
  <1>2. info \in Info /\ info.type = type /\ info.start = start
    BY DEF Info
  <1>3. name \notin AliveNames /\ UNCHANGED elsewhere
    BY DEF AddEntry
  <1> HIDE DEF info
  <1> QED BY <1>1, <1>2, <1>3, WrittenKeeps

(* A move into the folder: the entry has the block it had elsewhere.       *)
LEMMA WriteNewMetaDataKeeps ==
    ASSUME IInv, NEW name \in Name, writeNewMetaDataForEntry(name)
    PROVE  /\ IInv'
           /\ name \notin AliveNames
           /\ \A i \in Alive(folder) : folder'.slots[i] = folder.slots[i]
           /\ \E info \in Info : \E at :
                  /\ at \notin Alive(folder) /\ Alive(folder') = Alive(folder) \union {at}
                  /\ folder'.slots[at].name = name /\ InfoOf(folder'.slots[at]) = info
  <1>1. PICK info \in elsewhere :
            /\ folder' = doWriteNewMetaDataForEntry(folder, name, info.type, info.start)
            /\ elsewhere' = elsewhere \ {info}
    BY DEF writeNewMetaDataForEntry
  <1>2. info \in Info
    BY DEF IInv, OwnInv
  <1>3. name \notin AliveNames /\ UNCHANGED owned
    BY DEF writeNewMetaDataForEntry
  <1> QED BY <1>1, <1>2, <1>3, WrittenKeeps

-----------------------------------------------------------------------------
(* The look-up of a name that goes before its removal or its move: the     *)
(* object after it, and the slot in use it found.                          *)
LEMMA FoundAlive ==
    ASSUME IInv, NEW name, NEW h, h = AfterLookUp(folder, name)
    PROVE  /\ TableInv(h)
           /\ Alive(h) = Alive(folder) /\ h.slots = folder.slots
           /\ doGetNamedEntryInfo(folder, name) # NoInfo =>
                  \E i \in Alive(folder) :
                      /\ folder.slots[i].name = name
                      /\ doGetNamedEntryInfo(folder, name) = InfoOf(folder.slots[i])
  <1>1. TableInv(h) /\ SameTable(folder, h)
    BY LookingKeeps DEF IInv
  <1>2. h.slots = folder.slots /\ h.entryCount = folder.entryCount
    BY <1>1 DEF IInv, TableInv, TableType, Fields, SameTable
  <1>3. Alive(h) = Alive(folder)
    BY <1>2 DEF Alive, Seen
  <1> QED BY <1>1, <1>2, <1>3, LookUpAnswers DEF IInv

(* A removal: the slot of the name, which the look-up before it found, is  *)
(* no longer in use, and the block that is freed was its own.              *)
LEMMA RemoveEntryKeeps ==
    ASSUME IInv, NEW name \in Name, NEW type \in EntryType, RemoveEntry(name, type)
    PROVE  /\ IInv'
           /\ \E i \in Alive(folder) :
                  /\ folder.slots[i].name = name
                  /\ Alive(folder') = Alive(folder) \ {i}
                  /\ \A j \in Alive(folder') : folder'.slots[j] = folder.slots[j]
  <1> DEFINE h == AfterLookUp(folder, name)
  <1>1. /\ doGetNamedEntryInfo(folder, name) # NoInfo
        /\ owned' = owned \ {doGetNamedEntryInfo(folder, name).start}
        /\ folder' = Buried(h, name)
        /\ UNCHANGED elsewhere
    BY DEF RemoveEntry, InfoOfType
  <1>2. PICK i \in Alive(folder) :
            folder.slots[i].name = name /\ doGetNamedEntryInfo(folder, name) = InfoOf(folder.slots[i])
    BY <1>1, FoundAlive
  <1>3. TableInv(h) /\ Alive(h) = Alive(folder) /\ h.slots = folder.slots
    BY FoundAlive
  <1> HIDE DEF h
  <1>4. /\ TableInv(folder')
        /\ Alive(folder') = Alive(folder) \ {i}
        /\ \A j \in Alive(folder') : folder'.slots[j] = folder.slots[j]
    <2>1. i \in Alive(h) /\ h.slots[i].name = name
      BY <1>2, <1>3
    <2> QED BY <1>1, <1>3, <2>1, EntryIsBuried
  <1>5. owned' = owned \ {folder.slots[i].start}
    BY <1>1, <1>2, AliveSlot
  <1>6. OwnInv'
    BY <1>1, <1>4, <1>5 DEF IInv, OwnInv
  <1> QED BY <1>2, <1>4, <1>6 DEF IInv

(* A move out of the folder: the slot of the name is no longer in use, and *)
(* its block is that of the entry that is elsewhere now.                   *)
LEMMA PutOutOfUseKeeps ==
    ASSUME IInv, NEW name \in Name, putMetaDataOutOfUse(name)
    PROVE  /\ IInv'
           /\ \E i \in Alive(folder) :
                  /\ folder.slots[i].name = name
                  /\ Alive(folder') = Alive(folder) \ {i}
                  /\ \A j \in Alive(folder') : folder'.slots[j] = folder.slots[j]
  <1> DEFINE h == AfterLookUp(folder, name)
  <1>1. /\ name \in AliveNames
        /\ folder' = doPutMetaDataOutOfUse(h, name)
        /\ elsewhere' = elsewhere \union {doGetNamedEntryInfo(folder, name)}
        /\ UNCHANGED owned
    BY DEF putMetaDataOutOfUse
  <1>2. PICK i \in Alive(folder) : folder.slots[i].name = name
    BY <1>1 DEF AliveNames
  <1>3. doGetNamedEntryInfo(folder, name) = InfoOf(folder.slots[i])
    BY <1>2, LookUpAnswers DEF IInv
  <1>4. TableInv(h) /\ Alive(h) = Alive(folder) /\ h.slots = folder.slots
    BY FoundAlive
  <1> HIDE DEF h
  <1>5. /\ TableInv(folder')
        /\ Alive(folder') = Alive(folder) \ {i}
        /\ \A j \in Alive(folder') : folder'.slots[j] = folder.slots[j]
    <2>1. i \in Alive(h) /\ h.slots[i].name = name
      BY <1>2, <1>4
    <2> QED BY <1>1, <1>4, <2>1, PutOutOfUse
  <1> DEFINE info == InfoOf(folder.slots[i])
  <1>6. info \in Info /\ info.start = folder.slots[i].start /\ info.start \in owned
    BY AliveSlot
  <1>7. elsewhere' = elsewhere \union {info}
    BY <1>1, <1>3
  <1>8. OwnInv'
    <2> HIDE DEF info
    <2> QED BY <1>1, <1>5, <1>6, <1>7 DEF IInv, OwnInv
  <1> QED BY <1>2, <1>5, <1>8 DEF IInv

(* A rename within the folder gives the slot another name and changes      *)
(* nothing else.                                                           *)
LEMMA RenameKeeps ==
    ASSUME IInv, NoReuse, NEW srcName \in Name, NEW dstName \in Name, Rename(srcName, dstName)
    PROVE  /\ IInv'
           /\ dstName \notin AliveNames
           /\ Alive(folder') = Alive(folder)
           /\ \E i \in Alive(folder) :
                  /\ folder.slots[i].name = srcName /\ folder'.slots[i].name = dstName
                  /\ InfoOf(folder'.slots[i]) = InfoOf(folder.slots[i])
                  /\ \A j \in Alive(folder) \ {i} : folder'.slots[j] = folder.slots[j]
  <1>1. /\ dstName \notin AliveNames /\ Named(folder, dstName) = {}
        /\ folder' = updateMetaDataWithNewFilename(folder, srcName, dstName)
        /\ UNCHANGED <<owned, elsewhere>>
    BY DEF Rename, NoReuse
  <1>2. PICK i \in Alive(folder) : folder.slots[i].name = srcName
    BY DEF Rename, AliveNames
  <1>3. /\ TableInv(folder')
        /\ Alive(folder') = Alive(folder)
        /\ folder'.slots[i] = [folder.slots[i] EXCEPT !.name = dstName]
        /\ \A j \in Alive(folder) \ {i} : folder'.slots[j] = folder.slots[j]
    BY <1>1, <1>2, EntryRenamed DEF IInv, AnyName
  <1>4. folder.slots[i] \in Slot
    BY SlotSets DEF IInv, TableInv, Alive
  <1>5. /\ folder'.slots[i].name = dstName /\ folder'.slots[i].start = folder.slots[i].start
        /\ InfoOf(folder'.slots[i]) = InfoOf(folder.slots[i])
    BY <1>3, <1>4 DEF Slot, InfoOf
  <1>6. OwnInv'
    BY <1>1, <1>3, <1>5, OwnKept
  <1> QED BY <1>1, <1>2, <1>3, <1>5, <1>6 DEF IInv

(* The other operations: looking up, listing, opening the folder again and *)
(* removing what is not there.                                             *)
LookingAction ==
    \/ Reopen \/ listEntries
    \/ \E type \in EntryType : listEntriesOfType(type)
    \/ \E name \in Name : getEntryInfo(name) \/ \E type \in EntryType : RemoveNothing(name, type)

(* None of them changes which slots are in use, or what they say.          *)
LEMMA LookingActionKeeps ==
    ASSUME IInv, LookingAction
    PROVE  IInv' /\ Alive(folder') = Alive(folder) /\ folder'.slots = folder.slots
  <1>0. UNCHANGED <<owned, elsewhere>>
    BY DEF LookingAction, Reopen, listEntries, listEntriesOfType, getEntryInfo, RemoveNothing
  <1>1. CASE Reopen
    <2>1. folder' = Opened(folder.slots, folder.count)
      BY <1>1 DEF Reopen
    <2>2. TableInv(folder') /\ folder'.slots = folder.slots /\ Alive(folder') = Alive(folder)
      BY <2>1, OpeningKeeps DEF IInv
    <2>3. OwnInv'
      BY <1>0, <2>2, OwnKept
    <2> QED BY <2>2, <2>3 DEF IInv
  <1>2. CASE ~Reopen
    <2>1. PICK name, type : \/ folder' = AfterLookUp(folder, name)
                            \/ folder' = listAllEntries(folder)
                            \/ folder' = doListEntriesBasedOnType(folder, type)
      BY <1>2 DEF LookingAction, listEntries, listEntriesOfType, getEntryInfo, RemoveNothing
    <2>2. TableInv(folder') /\ SameTable(folder, folder')
      BY <2>1, LookingKeeps DEF IInv
    <2> QED BY <1>0, <2>2, LookingSteps
  <1> QED BY <1>1, <1>2

(* Every step of the folder keeps the invariant.                           *)
LEMMA IInvStep == NoReuse /\ IInv /\ [Next]_vars => IInv'
  <1> SUFFICES ASSUME NoReuse, IInv, [Next]_vars PROVE IInv'
    OBVIOUS
  <1>1. CASE LookingAction
    BY <1>1, LookingActionKeeps
  <1>2. ASSUME NEW name \in Name, NEW type \in EntryType, AddEntry(name, type) PROVE IInv'
    BY <1>2, AddEntryKeeps
  <1>3. ASSUME NEW name \in Name, NEW type \in EntryType, RemoveEntry(name, type) PROVE IInv'
    BY <1>3, RemoveEntryKeeps
  <1>4. ASSUME NEW name \in Name, putMetaDataOutOfUse(name) PROVE IInv'
    BY <1>4, PutOutOfUseKeeps
  <1>5. ASSUME NEW name \in Name, writeNewMetaDataForEntry(name) PROVE IInv'
    BY <1>5, WriteNewMetaDataKeeps
  <1>6. ASSUME NEW srcName \in Name, NEW dstName \in Name, Rename(srcName, dstName) PROVE IInv'
    BY <1>6, RenameKeeps
  <1>7. CASE UNCHANGED vars
    BY <1>7 DEF vars, IInv, OwnInv
  <1> QED BY <1>1, <1>2, <1>3, <1>4, <1>5, <1>6, <1>7 DEF Next, LookingAction

(* The inductive invariant of a content folder. *)
THEOREM FolderInvariant == ASSUME NoReuse PROVE Spec => []IInv
  <1>1. NoReuse
    OBVIOUS
  <1>2. IInv /\ [Next]_vars => IInv'
    BY <1>1, IInvStep
  <1> QED BY <1>2, IInvInit, PTL DEF Spec

(* The look-up by name that renaming and removing use finds the slot in    *)
(* use (ContentFolder.cpp:707-716).                                        *)
THEOREM LookUpCorrect == ASSUME NoReuse PROVE Spec => []LookUpFindsAlive
  <1>1. IInv => LookUpFindsAlive
    BY IndexOfAlive DEF IInv, LookUpFindsAlive
  <1> QED BY <1>1, FolderInvariant, PTL

(* No rename, removal or re-use of a slot leaves an old info in the cache  *)
(* (ContentFolder.cpp:488, 528, 678-681).                                  *)
THEOREM InfosCorrect == ASSUME NoReuse PROVE Spec => []InfosAgree
  <1>1. IInv => InfosAgree
    BY DEF IInv, TableInv, InfosFresh, InfosAgree
  <1> QED BY <1>1, FolderInvariant, PTL

(* Removing an entry deallocates nobody else's blocks                      *)
(* (ContentFolder.cpp:549).                                                *)
THEOREM BlocksCorrect == ASSUME NoReuse PROVE Spec => []EntriesOwnTheirBlocks
  <1>1. ASSUME IInv PROVE EntriesOwnTheirBlocks
    <2>1. \A i \in Alive(folder) : InfoOf(folder.slots[i]) \notin elsewhere
      BY <1>1, AliveSlot DEF IInv, OwnInv
    <2> QED BY <1>1, <2>1 DEF IInv, OwnInv, EntriesOwnTheirBlocks
  <1> QED BY <1>1, FolderInvariant, PTL

(* No dead slot that could be used again is passed over                    *)
(* (ContentFolder.cpp:743-744).                                            *)
THEOREM SlotsReused == ASSUME NoReuse PROVE Spec => []NoSlotPassedOver
  <1>1. IInv => NoSlotPassedOver
    BY DEF IInv, TableInv, DeadSought, NoSlotPassedOver
  <1> QED BY <1>1, FolderInvariant, PTL

-----------------------------------------------------------------------------
(***************************************************************************)
(* The map of names.                                                       *)
(***************************************************************************)

(* The names of the slots in use, and what the slot of a name says, of any *)
(* table.                                                                  *)
NamesIn(f) == {f.slots[i].name : i \in Alive(f)}
EntriesIn(f) == [n \in NamesIn(f) |-> InfoOf(f.slots[Earliest(Named(f, n) \intersect Alive(f))])]

(* The map of the folder is that of its table.                             *)
LEMMA EntriesNow == Entries = EntriesIn(folder)
  BY DEF Entries, EntriesIn, AliveNames, NamesIn

(* A slot in use is the entry of its name.                                 *)
LEMMA EntryOfSlot ==
    ASSUME NEW f, TableInv(f), NEW i \in Alive(f), NEW n, n = f.slots[i].name
    PROVE  n \in NamesIn(f) /\ EntriesIn(f)[n] = InfoOf(f.slots[i])
  <1>1. n \in NamesIn(f)
    BY DEF NamesIn
  <1>2. Named(f, n) \intersect Alive(f) = {i} /\ Earliest({i}) = i
    BY OnlySlotOfName
  <1> QED BY <1>1, <1>2 DEF EntriesIn

(* Two tables with the same entries, slot by slot, are the same map. *)
LEMMA SameEntries ==
    ASSUME NEW f, NEW g, TableInv(f), TableInv(g), Alive(g) = Alive(f),
           \A i \in Alive(f) : g.slots[i].name = f.slots[i].name /\ InfoOf(g.slots[i]) = InfoOf(f.slots[i])
    PROVE  EntriesIn(g) = EntriesIn(f)
  <1>1. NamesIn(g) = NamesIn(f)
    BY DEF NamesIn
  <1>2. ASSUME NEW n \in NamesIn(f) PROVE EntriesIn(g)[n] = EntriesIn(f)[n]
    <2>1. PICK i \in Alive(f) : f.slots[i].name = n
      BY DEF NamesIn
    <2> QED BY <2>1, EntryOfSlot
  <1> QED BY <1>1, <1>2 DEF EntriesIn

(* A slot more is an entry more. *)
LEMMA EntersMap ==
    ASSUME IInv, IInv', NEW name \in Name, name \notin AliveNames,
           \A i \in Alive(folder) : folder'.slots[i] = folder.slots[i],
           NEW info \in Info, NEW at, at \notin Alive(folder),
           Alive(folder') = Alive(folder) \union {at},
           folder'.slots[at].name = name, InfoOf(folder'.slots[at]) = info
    PROVE  [FM!Next]_Entries
  <1> DEFINE f == folder
  <1> DEFINE g == folder'
  <1>1. TableInv(f) /\ TableInv(g)
    BY DEF IInv
  <1>2. NamesIn(g) = NamesIn(f) \union {name} /\ name \notin NamesIn(f)
    BY DEF NamesIn, AliveNames
  <1>3. EntriesIn(g)[name] = info
    <2>1. at \in Alive(g) /\ name = g.slots[at].name
      OBVIOUS
    <2> QED BY <1>1, <2>1, EntryOfSlot
  <1>4. ASSUME NEW n \in NamesIn(f) PROVE EntriesIn(g)[n] = EntriesIn(f)[n]
    <2>1. PICK i \in Alive(f) : f.slots[i].name = n
      BY DEF NamesIn
    <2>2. i \in Alive(g) /\ g.slots[i] = f.slots[i]
      BY <2>1
    <2> QED BY <1>1, <2>1, <2>2, EntryOfSlot
  <1>5. DOMAIN EntriesIn(f) = NamesIn(f) /\ DOMAIN EntriesIn(g) = NamesIn(g)
    BY DEF EntriesIn
  <1>6. EntriesIn(g) = [n \in DOMAIN EntriesIn(f) \union {name} |-> IF n = name THEN info ELSE EntriesIn(f)[n]]
    <2>1. EntriesIn(g) = [n \in NamesIn(g) |-> EntriesIn(g)[n]]
      BY DEF EntriesIn
    <2> QED BY <1>2, <1>3, <1>4, <1>5, <2>1
  <1>7. Entries = EntriesIn(f) /\ Entries' = EntriesIn(g)
    BY EntriesNow DEF Entries, EntriesIn, AliveNames, NamesIn
  <1> HIDE DEF f, g
  <1>8. FM!Enter(name)
    BY <1>6, <1>7 DEF FM!Enter
  <1>9. name \in DOMAIN Entries' \ DOMAIN Entries
    BY <1>2, <1>5, <1>7
  <1> QED BY <1>8, <1>9 DEF FM!Next

(* A slot less is an entry less. *)
LEMMA LeavesMap ==
    ASSUME IInv, IInv', NEW i \in Alive(folder),
           Alive(folder') = Alive(folder) \ {i},
           \A j \in Alive(folder') : folder'.slots[j] = folder.slots[j]
    PROVE  [FM!Next]_Entries
  <1> DEFINE f == folder
  <1> DEFINE g == folder'
  <1> DEFINE name == f.slots[i].name
  <1>1. TableInv(f) /\ TableInv(g)
    BY DEF IInv
  <1>2. \A j \in Alive(f) : f.slots[j].name = name => j = i
    BY <1>1, IndexOfAlive
  <1>3. NamesIn(g) = NamesIn(f) \ {name} /\ name \in NamesIn(f)
    BY <1>2 DEF NamesIn
  <1>4. ASSUME NEW n \in NamesIn(g) PROVE EntriesIn(g)[n] = EntriesIn(f)[n]
    <2>1. PICK j \in Alive(g) : g.slots[j].name = n
      BY DEF NamesIn
    <2>2. j \in Alive(f) /\ g.slots[j] = f.slots[j]
      BY <2>1
    <2> QED BY <1>1, <2>1, <2>2, EntryOfSlot
  <1>5. DOMAIN EntriesIn(f) = NamesIn(f) /\ DOMAIN EntriesIn(g) = NamesIn(g)
    BY DEF EntriesIn
  <1>6. EntriesIn(g) = [n \in DOMAIN EntriesIn(f) \ {name} |-> EntriesIn(f)[n]]
    <2>1. EntriesIn(g) = [n \in NamesIn(g) |-> EntriesIn(g)[n]]
      BY DEF EntriesIn
    <2> HIDE DEF name
    <2> QED BY <1>3, <1>4, <1>5, <2>1
  <1>7. Entries = EntriesIn(f) /\ Entries' = EntriesIn(g)
    BY EntriesNow DEF Entries, EntriesIn, AliveNames, NamesIn
  <1> HIDE DEF f, g, name
  <1>8. FM!Leave(name) /\ name \in DOMAIN Entries
    BY <1>3, <1>5, <1>6, <1>7 DEF FM!Leave
  <1> QED BY <1>8 DEF FM!Next

(* A slot with another name is the same entry under that name. *)
LEMMA RenamesInMap ==
    ASSUME IInv, IInv', NEW srcName \in Name, NEW dstName \in Name, dstName \notin AliveNames,
           Alive(folder') = Alive(folder), NEW i \in Alive(folder),
           folder.slots[i].name = srcName, folder'.slots[i].name = dstName,
           InfoOf(folder'.slots[i]) = InfoOf(folder.slots[i]),
           \A j \in Alive(folder) \ {i} : folder'.slots[j] = folder.slots[j]
    PROVE  [FM!Next]_Entries
  <1> DEFINE f == folder
  <1> DEFINE g == folder'
  <1>1. TableInv(f) /\ TableInv(g)
    BY DEF IInv
  <1>2. \A j \in Alive(f) : f.slots[j].name = srcName => j = i
    BY <1>1, IndexOfAlive
  <1>3. NamesIn(g) = (NamesIn(f) \ {srcName}) \union {dstName}
    BY <1>2 DEF NamesIn
  <1>4. srcName \in NamesIn(f) /\ dstName \notin NamesIn(f)
    BY DEF NamesIn, AliveNames
  <1>5. EntriesIn(g)[dstName] = EntriesIn(f)[srcName]
    BY <1>1, EntryOfSlot
  <1>6. ASSUME NEW n \in NamesIn(f) \ {srcName} PROVE EntriesIn(g)[n] = EntriesIn(f)[n]
    <2>1. PICK j \in Alive(f) : f.slots[j].name = n
      BY DEF NamesIn
    <2>2. j \in Alive(g) /\ g.slots[j] = f.slots[j]
      BY <2>1
    <2> QED BY <1>1, <2>1, <2>2, EntryOfSlot
  <1>7. DOMAIN EntriesIn(f) = NamesIn(f) /\ DOMAIN EntriesIn(g) = NamesIn(g)
    BY DEF EntriesIn
  <1>8. EntriesIn(g) = [n \in (DOMAIN EntriesIn(f) \ {srcName}) \union {dstName} |->
                           EntriesIn(f)[IF n = dstName THEN srcName ELSE n]]
    <2>1. EntriesIn(g) = [n \in NamesIn(g) |-> EntriesIn(g)[n]]
      BY DEF EntriesIn
    <2> QED BY <1>3, <1>4, <1>5, <1>6, <1>7, <2>1
  <1>9. Entries = EntriesIn(f) /\ Entries' = EntriesIn(g)
    BY EntriesNow DEF Entries, EntriesIn, AliveNames, NamesIn
  <1> HIDE DEF f, g
  <1>10. FM!Rename(srcName, dstName) /\ srcName \in DOMAIN Entries /\ dstName \in Name \ DOMAIN Entries
    BY <1>4, <1>7, <1>8, <1>9 DEF FM!Rename
  <1> QED BY <1>10 DEF FM!Next

(* Every step of the folder is one of the map, or changes nothing in it. *)
LEMMA MapStep == NoReuse /\ IInv /\ IInv' /\ [Next]_vars => [FM!Next]_Entries
  <1> SUFFICES ASSUME NoReuse, IInv, IInv', [Next]_vars PROVE [FM!Next]_Entries
    OBVIOUS
  <1>1. CASE LookingAction \/ UNCHANGED vars
    <2>1. Alive(folder') = Alive(folder) /\ folder'.slots = folder.slots
      BY <1>1, LookingActionKeeps DEF vars
    <2>2. EntriesIn(folder') = EntriesIn(folder)
      BY <2>1, SameEntries DEF IInv
    <2>3. Entries = EntriesIn(folder) /\ Entries' = EntriesIn(folder')
      BY DEF Entries, EntriesIn, AliveNames, NamesIn
    <2> QED BY <2>2, <2>3
  <1>2. ASSUME NEW name \in Name, NEW type \in EntryType, AddEntry(name, type) PROVE [FM!Next]_Entries
    BY <1>2, AddEntryKeeps, EntersMap
  <1>3. ASSUME NEW name \in Name, writeNewMetaDataForEntry(name) PROVE [FM!Next]_Entries
    BY <1>3, WriteNewMetaDataKeeps, EntersMap
  <1>4. ASSUME NEW name \in Name, NEW type \in EntryType, RemoveEntry(name, type) PROVE [FM!Next]_Entries
    BY <1>4, RemoveEntryKeeps, LeavesMap
  <1>5. ASSUME NEW name \in Name, putMetaDataOutOfUse(name) PROVE [FM!Next]_Entries
    BY <1>5, PutOutOfUseKeeps, LeavesMap
  <1>6. ASSUME NEW srcName \in Name, NEW dstName \in Name, Rename(srcName, dstName) PROVE [FM!Next]_Entries
    <2>1. PICK i \in Alive(folder) :
              /\ folder.slots[i].name = srcName /\ folder'.slots[i].name = dstName
              /\ InfoOf(folder'.slots[i]) = InfoOf(folder.slots[i])
              /\ \A j \in Alive(folder) \ {i} : folder'.slots[j] = folder.slots[j]
      BY <1>6, RenameKeeps
    <2>2. dstName \notin AliveNames /\ Alive(folder') = Alive(folder)
      BY <1>6, RenameKeeps
    <2> QED BY <2>1, <2>2, RenamesInMap
  <1> QED BY <1>1, <1>2, <1>3, <1>4, <1>5, <1>6 DEF Next, LookingAction

(* An empty table is an empty map. *)
LEMMA MapInit == Init => FM!Init
  <1> SUFFICES ASSUME Init PROVE FM!Init
    OBVIOUS
  <1>1. Alive(folder) = {}
    BY OpeningEmpty DEF Init
  <1>2. AliveNames = {}
    BY <1>1 DEF AliveNames
  <1> QED BY <1>2 DEF FM!Init, Entries

(* A content folder is a map from names to entries (ContentFolder.hpp).    *)
THEOREM RefinesFolderMap == ASSUME NoReuse PROVE Spec => ImplementsFolderMap
  <1>1. NoReuse
    OBVIOUS
  <1>2. IInv /\ IInv' /\ [Next]_vars => [FM!Next]_Entries
    BY <1>1, MapStep
  <1> QED BY <1>2, MapInit, FolderInvariant, PTL DEF Spec, ImplementsFolderMap, FM!Spec
=============================================================================
