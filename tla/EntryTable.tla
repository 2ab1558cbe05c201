----------------------------- MODULE EntryTable -----------------------------
(***************************************************************************)
(* The table of entries of a content folder and the object that works on   *)
(* it (src/knoxcrypt/ContentFolder.cpp), as operators on one record:       *)
(*                                                                         *)
(*   on disk, the bytes of the folder's File                               *)
(*     slots    the entries, 264 bytes each: in use or dead, name, type,   *)
(*              first block of the file or folder; a dead slot keeps its   *)
(*              name                                                       *)
(*     count    the entry count, the first 8 bytes                         *)
(*   in the ContentFolder object                                           *)
(*     entryCount, deadEntryCount, checkForEarlyMetaData                   *)
(*     (m_oldSpaceAvailableForEntry is set and read by nobody)             *)
(*     infos    m_entryInfoCacheMap, the entry infos by name               *)
(*                                                                         *)
(* Slots are numbered from 1, the code numbers them from 0.  The File      *)
(* below the table is a sequence of bytes here; BlockFile has its blocks.  *)
(***************************************************************************)
EXTENDS Integers, Sequences, FiniteSets

CONSTANTS
    Name,   \* the names of entries
    Block,  \* the blocks where files and folders can start
    NoBlock \* no block

ASSUME NoBlockAssumption == NoBlock \notin Block

EntryType == {"file", "folder"}

Info == [type : EntryType, start : Block]

(* The empty SharedEntryInfo. *)
NoInfo == [type |-> "none", start |-> NoBlock]

InfoOf(slot) == [type |-> slot.type, start |-> slot.start]

Earliest(S) == CHOOSE i \in S : \A j \in S : i <= j

(* The slots the object sees, and which of them hold an entry. *)
Seen(f) == 1 .. f.entryCount
Alive(f) == {i \in Seen(f) : f.slots[i].inUse}
Dead(f) == Seen(f) \ Alive(f)
Named(f, name) == {i \in Seen(f) : f.slots[i].name = name}

getAliveEntryCount(f) == f.entryCount - f.deadEntryCount

-----------------------------------------------------------------------------
(* The constructors: an object on the table that is on disk. *)
Opened(slots, count) ==
    [slots |-> slots, count |-> count, entryCount |-> count,
     deadEntryCount |-> Cardinality({i \in 1 .. count : ~slots[i].inUse}),
     checkForEarlyMetaData |-> TRUE, infos |-> << >>]

-----------------------------------------------------------------------------
(* The entry infos after doGetEntryInfo was called for the slots in I, in  *)
(* order: an info that is there already is kept.                           *)
WithInfos(f, I) ==
    [f EXCEPT !.infos =
        [n \in DOMAIN f.infos \union {f.slots[i].name : i \in I} |->
            IF n \in DOMAIN f.infos
            THEN f.infos[n]
            ELSE InfoOf(f.slots[Earliest({i \in I : f.slots[i].name = n})])]]

(* The info doGetNamedEntryInfo returns: the cached one, else that of the  *)
(* first slot in use with the name.                                        *)
doGetNamedEntryInfo(f, name) ==
    LET hits == Named(f, name) \intersect Alive(f)
    IN  IF name \in DOMAIN f.infos THEN f.infos[name]
        ELSE IF hits = {} THEN NoInfo ELSE InfoOf(f.slots[Earliest(hits)])

(* The object after it: the slots up to the hit were given infos. *)
AfterLookUp(f, name) ==
    LET hits == Named(f, name) \intersect Alive(f)
    IN  IF name \in DOMAIN f.infos
        THEN f
        ELSE WithInfos(f, {i \in Alive(f) : hits = {} \/ i <= Earliest(hits)})

listAllEntries(f) == WithInfos(f, Alive(f))

doListEntriesBasedOnType(f, type) == WithInfos(f, {i \in Alive(f) : f.slots[i].type = type})

(* What getFile, getContentFolder and getCompoundFolder find. *)
InfoOfType(f, name, type) ==
    LET info == doGetNamedEntryInfo(f, name)
    IN  IF info.type = type THEN info ELSE NoInfo

(* Dead slots are found as well.  0 stands for the code's -1. *)
doGetMetaDataIndexForEntry(f, name) ==
    IF Named(f, name) = {} THEN 0 ELSE Earliest(Named(f, name))

-----------------------------------------------------------------------------
(* Fault of the next definition: the test of the bit "in use" is inverted. *)
doFindOffsetWhereMetaDataShouldBeWritten_InUse(f) ==
    IF f.checkForEarlyMetaData /\ Alive(f) # {} THEN Earliest(Alive(f)) ELSE 0

(* The dead slot that is written over, or 0 for the end of the table. *)
doFindOffsetWhereMetaDataShouldBeWritten(f) ==
    IF f.checkForEarlyMetaData /\ Dead(f) # {} THEN Earliest(Dead(f)) ELSE 0

(* A slot: the bits of its first byte, the name and the start block. *)
NewSlot(name, type, start) == [inUse |-> TRUE, name |-> name, type |-> type, start |-> start]

WrittenOver(f, at, slot) == [f EXCEPT !.slots[at] = slot, !.deadEntryCount = @ - 1]

(* A slot at the end; the look for dead slots before it found none and is  *)
(* not repeated until there is one.                                        *)
Appended(f, slot) ==
    [f EXCEPT !.slots = Append(@, slot),
              !.count = f.entryCount + 1,
              !.entryCount = @ + 1,
              !.checkForEarlyMetaData = FALSE]

(* Fault of the next definition: the last dead slot is written over. *)
doWriteNewMetaDataForEntry_LatestDeadSlot(f, name, type, start) ==
    IF Dead(f) # {}
    THEN WrittenOver(f, CHOOSE i \in Dead(f) : \A j \in Dead(f) : i >= j, NewSlot(name, type, start))
    ELSE Appended(f, NewSlot(name, type, start))

doWriteNewMetaDataForEntry(f, name, type, start) ==
    LET overWroteOld == doFindOffsetWhereMetaDataShouldBeWritten(f)
    IN  IF overWroteOld # 0
        THEN WrittenOver(f, overWroteOld, NewSlot(name, type, start))
        ELSE Appended(f, NewSlot(name, type, start))

-----------------------------------------------------------------------------
invalidateEntryInEntryInfoCache(f, name) ==
    [f EXCEPT !.infos = [n \in DOMAIN f.infos \ {name} |-> f.infos[n]]]

(* The byte that says "in use" is cleared, and with it the bit that says   *)
(* "file".  The name stays, and is read; the start block stays too, but    *)
(* nothing reads it any more: NoBlock stands for it.                       *)
metaDataToOutOfUse(f, index) ==
    [f EXCEPT !.slots[index] = [@ EXCEPT !.inUse = FALSE, !.type = "folder", !.start = NoBlock]]

(* Fault of the next definition: the entry info is left behind. *)
doPutMetaDataOutOfUse_InfoKept(f, name) ==
    LET index == doGetMetaDataIndexForEntry(f, name)
    IN  IF index = 0
        THEN f
        ELSE [metaDataToOutOfUse(f, index) EXCEPT !.checkForEarlyMetaData = TRUE]

(* Fault of the next definition: the look for dead slots is not resumed. *)
doPutMetaDataOutOfUse_NotResumed(f, name) ==
    LET index == doGetMetaDataIndexForEntry(f, name)
    IN  IF index = 0
        THEN f
        ELSE invalidateEntryInEntryInfoCache(
               metaDataToOutOfUse(f, index), name)

doPutMetaDataOutOfUse(f, name) ==
    LET index == doGetMetaDataIndexForEntry(f, name)
    IN  IF index = 0
        THEN f
        ELSE invalidateEntryInEntryInfoCache(
               [metaDataToOutOfUse(f, index) EXCEPT !.checkForEarlyMetaData = TRUE], name)

(* Fault of the next definition: the entry info of the old name stays. *)
updateMetaDataWithNewFilename_InfoKept(f, srcName, dstName) ==
    LET index == doGetMetaDataIndexForEntry(f, srcName)
    IN  IF index = 0 THEN f ELSE [f EXCEPT !.slots[index].name = dstName]

updateMetaDataWithNewFilename(f, srcName, dstName) ==
    LET index == doGetMetaDataIndexForEntry(f, srcName)
    IN  IF index = 0
        THEN f
        ELSE invalidateEntryInEntryInfoCache([f EXCEPT !.slots[index].name = dstName], srcName)

(* Fault of the next definition: a removal is counted twice. *)
Buried_CountedTwice(f, name) ==
    [doPutMetaDataOutOfUse(f, name) EXCEPT !.deadEntryCount = @ + 2]

(* The end of every removal: the slot is put out of use and counted. *)
Buried(f, name) ==
    [doPutMetaDataOutOfUse(f, name) EXCEPT !.deadEntryCount = @ + 1]
=============================================================================
