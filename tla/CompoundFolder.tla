--------------------------- MODULE CompoundFolder ---------------------------
(***************************************************************************)
(* A folder as it is stored (src/knoxcrypt/CompoundFolder.cpp): an index   *)
(* table whose entries are buckets, each of them a content folder of at    *)
(* most CONTENT_SIZE entries, and a cache of entry infos over all buckets. *)
(* The tables and the objects on them are those of EntryTable, the buckets *)
(* without their caches: ContentFolder shows that a bucket answers as its  *)
(* table says (InfosAgree), and here it does.                              *)
(*                                                                         *)
(* What callers know is as in ContentFolder.  Misuse says which calls the  *)
(* code does not serve are made as well:                                   *)
(*   shadowed           an entry is renamed or moved while a dead slot of  *)
(*                      its name is in an earlier bucket                   *)
(*   renameOntoDead     an entry is renamed to a name a dead slot of its   *)
(*                      bucket still has                                   *)
(*   bucketNameInUse    a bucket is added whose name another one has       *)
(*   enterAfterListing  an entry is renamed, or moved here, when the       *)
(*                      object has listed its entries before               *)
(***************************************************************************)
EXTENDS EntryTable, SequencesExt

CONSTANTS
    CONTENT_SIZE, \* the entries a bucket may have
    TableBlock,   \* bound: the blocks that buckets are given
    MaxElsewhere, \* bound: the entries that can be elsewhere
    MaxUncounted, \* bound: moves away from the buckets that go uncounted
    Misuse

ASSUME CompoundAssumption == CONTENT_SIZE \in Nat \ {0} /\ TableBlock \subseteq Block /\ Block \subseteq Nat

VARIABLES
    compound,  \* the object, and the tables on disk it works on
    elsewhere  \* the infos of the entries other folders hold

vars == <<compound, elsewhere>>

EmptyTable == [slots |-> << >>, count |-> 0]

(* The two parts of a content folder: the table lies in the image, where   *)
(* several objects may find it; the rest is the object's own.              *)
TableOf(f) == [slots |-> f.slots, count |-> f.count]
ObjectOf(f, name, start) ==
    [name |-> name, start |-> start,
     entryCount |-> f.entryCount, deadEntryCount |-> f.deadEntryCount,
     checkForEarlyMetaData |-> f.checkForEarlyMetaData, infos |-> f.infos]

(* m_contentFolders[k] on its table: the record EntryTable works on. *)
Leaf(c, k) ==
    LET object == c.buckets[k]
        table == c.tables[object.start]
    IN  [slots |-> table.slots, count |-> table.count,
         entryCount |-> object.entryCount, deadEntryCount |-> object.deadEntryCount,
         checkForEarlyMetaData |-> object.checkForEarlyMetaData, infos |-> object.infos]

WithLeaf(c, k, f) ==
    [c EXCEPT !.tables[c.buckets[k].start] = TableOf(f),
              !.buckets[k] = ObjectOf(f, @.name, @.start)]

Buckets(c) == DOMAIN c.buckets

OpenedBucket(tables, name, start) ==
    ObjectOf(Opened(tables[start].slots, tables[start].count), name, start)

Latest(S) == CHOOSE i \in S : \A j \in S : i >= j

(* The numbers in S, from the lowest on. *)
InOrder(S) == CHOOSE s \in [1 .. Cardinality(S) -> S] : \A j, k \in DOMAIN s : j < k => s[j] < s[k]

(* The lowest free block of the part of the volume that is given to tables *)
(* or to the files and folders themselves.                                 *)
NextAvailableBlock(c, part) == Earliest(part \ c.owned)

-----------------------------------------------------------------------------
(* A bucket is named after the count of buckets; the object is the one     *)
(* getContentFolder finds under that name.                                 *)
doAddContentFolder(c) ==
    LET name == c.contentFolderCount
        start == NextAvailableBlock(c, TableBlock)
        tables == [c.tables EXCEPT ![start] = EmptyTable]
        index == doWriteNewMetaDataForEntry(c.index, name, "folder", start)
        found == InfoOfType(index, name, "folder")
    IN  [c EXCEPT !.index = AfterLookUp(index, name),
                  !.tables = tables,
                  !.owned = @ \union {start},
                  !.buckets = Append(@, OpenedBucket(tables, name, found.start)),
                  !.contentFolderCount = @ + 1]

(* The buckets with room, by the count they report. *)
WithRoom(c) == {k \in Buckets(c) : getAliveEntryCount(Leaf(c, k)) < CONTENT_SIZE}

WithBucketFor(c) == IF WithRoom(c) = {} THEN doAddContentFolder(c) ELSE c

(* addFile and writeNewMetaDataForEntry look for room from the last bucket *)
(* on, addFolder from the first; a new bucket is the last.                 *)
BucketFor(c, fromLast) ==
    IF WithRoom(c) = {} THEN Len(c.buckets) + 1
    ELSE IF fromLast THEN Latest(WithRoom(c)) ELSE Earliest(WithRoom(c))

Written(c, k, name, type, start) ==
    WithLeaf(c, k, doWriteNewMetaDataForEntry(Leaf(c, k), name, type, start))

-----------------------------------------------------------------------------
(* The function f, and g where f has no value: TLC's @@, which the provers *)
(* do not know.                                                            *)
Joined(f, g) == [x \in DOMAIN f \union DOMAIN g |-> IF x \in DOMAIN f THEN f[x] ELSE g[x]]

doRemoveEntryFromCache(c, name) ==
    [c EXCEPT !.cache = [n \in DOMAIN @ \ {name} |-> @[n]]]

Have(c, name) == {k \in Buckets(c) : doGetNamedEntryInfo(Leaf(c, k), name) # NoInfo}
HaveOfType(c, name, type) == {k \in Buckets(c) : InfoOfType(Leaf(c, k), name, type) # NoInfo}

Cached(at, info) == [bucket |-> at, type |-> info.type, start |-> info.start]
Strip(cached) == [type |-> cached.type, start |-> cached.start]

(* getEntryInfo: the cached info, else that of the last bucket with one. *)
EntryInfo(c, name) ==
    IF name \in DOMAIN c.cache
    THEN Strip(c.cache[name])
    ELSE IF Have(c, name) = {} THEN NoInfo
    ELSE doGetNamedEntryInfo(Leaf(c, Latest(Have(c, name))), name)

AfterGetEntryInfo(c, name) ==
    LET at == Latest(Have(c, name))
        cached == Cached(at, doGetNamedEntryInfo(Leaf(c, at), name))
    IN  IF name \in DOMAIN c.cache \/ Have(c, name) = {}
        THEN c
        ELSE [c EXCEPT !.cache = Joined(@, [n \in {name} |-> cached])]

(* Fault of the next definition: the info is dropped, and the next listing *)
(* is not made anew.                                                       *)
AfterOpen_ListingKept(c, name) ==
    IF name \in DOMAIN c.cache /\ c.cache[name].bucket \notin Buckets(c)
    THEN doRemoveEntryFromCache(c, name)
    ELSE c

(* getFile and getFolder forget a cached bucket index that is too large. *)
AfterOpen(c, name) ==
    IF name \in DOMAIN c.cache /\ c.cache[name].bucket \notin Buckets(c)
    THEN [doRemoveEntryFromCache(c, name) EXCEPT !.cacheShouldBeUpdated = TRUE]
    ELSE c

(* Fault of the next definition: the cached bucket index is trusted. *)
OpenedInfo_CacheTrusted(c, name, type) ==
    LET hits == HaveOfType(c, name, type)
        asked == {k \in hits : name \in DOMAIN c.cache => c.cache[name].bucket = k}
    IN  IF asked = {} THEN NoInfo ELSE InfoOfType(Leaf(c, Earliest(asked)), name, type)

(* What they find: in the bucket the cache names, else in the last bucket *)
(* with such a file, the first with such a folder.                         *)
OpenedInfo(c, name, type) ==
    LET hits == HaveOfType(c, name, type)
        first == {k \in hits : name \in DOMAIN c.cache /\ c.cache[name].bucket = k}
        from == IF first # {} THEN Earliest(first)
                ELSE IF type = "file" THEN Latest(hits) ELSE Earliest(hits)
    IN  IF hits = {} THEN NoInfo ELSE InfoOfType(Leaf(c, from), name, type)

(* The entry infos of the given kinds, from the first bucket on. *)
Listed(c, types) ==
    LET slots(k) == {Leaf(c, k).slots[i] : i \in Alive(Leaf(c, k))}
        names == UNION {{slot.name : slot \in {s \in slots(k) : s.type \in types}} : k \in Buckets(c)}
    IN  [n \in names |-> LET at == Earliest(Have(c, n))
                         IN  Cached(at, doGetNamedEntryInfo(Leaf(c, at), n))]

(* listAllEntries: what the cache lacks is added, if there can be any. *)
AfterListing(c) ==
    IF c.cacheShouldBeUpdated
    THEN [c EXCEPT !.cache = Joined(@, Listed(c, EntryType)), !.cacheShouldBeUpdated = FALSE]
    ELSE c

-----------------------------------------------------------------------------
(* What removeContentFolder finds under a bucket's name, and what that     *)
(* table still holds.                                                      *)
IndexInfo(c, k) == InfoOfType(c.index, c.buckets[k].name, "folder")

LeftIn(c, k) ==
    IF IndexInfo(c, k) = NoInfo THEN {}
    ELSE LET f == Opened(c.tables[IndexInfo(c, k).start].slots, c.tables[IndexInfo(c, k).start].count)
         IN  {f.slots[i].start : i \in Alive(f)}

(* Fault of the next definition: the slot in the index stays in use. *)
BucketErased_IndexKept(c, k, unlinked) ==
    [c EXCEPT !.owned = @ \ (unlinked \union {IndexInfo(c, k).start}),
              !.buckets = RemoveAt(@, k),
              !.contentFolderCount = @ - 1]

(* Fault of the next definition: the object behind it is erased. *)
BucketErased_NextErased(c, k, unlinked) ==
    [c EXCEPT !.index = Buried(@, c.buckets[k].name),
              !.owned = @ \ (unlinked \union {c.buckets[k].start}),
              !.buckets = RemoveAt(@, k + 1),
              !.contentFolderCount = @ - 1]

(* A bucket that reports no entries is deleted: its table by the name in   *)
(* the index, with the blocks in unlinked; its object is erased.  A table  *)
(* no other object works on is not read again.                             *)
BucketErased(c, k, unlinked) ==
    LET name == c.buckets[k].name
        info == IndexInfo(c, k)
        looked == AfterLookUp(c.index, name)
        unread == {info.start} \ {c.buckets[j].start : j \in Buckets(c) \ {k}}
    IN  [c EXCEPT !.index = IF info = NoInfo THEN looked ELSE Buried(looked, name),
                  !.tables = [b \in Block |-> IF b \in unread THEN EmptyTable ELSE @[b]],
                  !.owned = @ \ (unlinked \union {info.start}),
                  !.buckets = RemoveAt(@, k),
                  !.contentFolderCount = @ - 1]

(* Fault of the next definition: the blocks stay allocated. *)
EntryBuried_NotUnlinked(c, k, name) ==
    doRemoveEntryFromCache(WithLeaf(c, k, Buried(Leaf(c, k), name)), name)

(* The bucket's part of a removal: the entry's blocks and its slot. *)
EntryBuried(c, k, name) ==
    LET start == doGetNamedEntryInfo(Leaf(c, k), name).start
        f == Buried(Leaf(c, k), name)
    IN  [doRemoveEntryFromCache(WithLeaf(c, k, f), name) EXCEPT !.owned = @ \ {start}]

-----------------------------------------------------------------------------
(* The constructor: the count of buckets is that of the slots of the       *)
(* index, dead ones included, and every bucket is found by its name.       *)
OpenedCompound(c) ==
    LET index == doListEntriesBasedOnType(Opened(c.index.slots, c.index.count), "folder")
        used == InOrder(Alive(index))
        name(k) == index.slots[used[k]].name
    IN  [c EXCEPT !.index = index,
                  !.buckets = [k \in DOMAIN used |->
                      OpenedBucket(c.tables, name(k), doGetNamedEntryInfo(index, name(k)).start)],
                  !.contentFolderCount = index.entryCount,
                  !.cache = << >>,
                  !.cacheShouldBeUpdated = TRUE]
-----------------------------------------------------------------------------
AliveNames(c) ==
    UNION {{Leaf(c, k).slots[i].name : i \in Alive(Leaf(c, k))} : k \in Buckets(c)}

(* The bucket renaming and moving take the entry from: the first with a    *)
(* slot of the name, dead or in use.                                       *)
FirstNamed(c, name) ==
    Earliest({k \in Buckets(c) : doGetMetaDataIndexForEntry(Leaf(c, k), name) # 0})

Shadowed(c, name) ==
    LET f == Leaf(c, FirstNamed(c, name))
    IN  ~f.slots[doGetMetaDataIndexForEntry(f, name)].inUse

(* The dead slots that the buckets' m_deadEntryCount leave out. *)
Uncounted(c) ==
    LET dead == [k \in Buckets(c) |-> Cardinality(Dead(Leaf(c, k))) - c.buckets[k].deadEntryCount]
    IN  FoldFunction(LAMBDA x, y : x + y, 0, dead)

(* The bucket an addition needs is there or can be made; full volumes are  *)
(* BlockAllocator's.                                                       *)
HasBucketRoom(c) ==
    WithRoom(c) = {} =>
        /\ TableBlock \ c.owned # {}
        /\ \/ "bucketNameInUse" \in Misuse
           \/ InfoOfType(c.index, c.contentFolderCount, "folder") = NoInfo

Init ==
    /\ compound = [index |-> Opened(<< >>, 0), tables |-> [b \in Block |-> EmptyTable],
                   buckets |-> << >>, contentFolderCount |-> 0, cache |-> << >>,
                   cacheShouldBeUpdated |-> TRUE, owned |-> {}]
    /\ elsewhere = {}

(* A new object on the tables, as when the folder leaves CoreFS's cache. *)
Reopen ==
    /\ compound' = OpenedCompound(compound)
    /\ UNCHANGED elsewhere

(* addFile and addFolder: the bucket, then the start block, then the slot. *)
AddEntry(name, type) ==
    LET c == WithBucketFor(compound)
        k == BucketFor(compound, type = "file")
        start == NextAvailableBlock(c, Block \ TableBlock)
    IN  /\ name \notin AliveNames(compound)
        /\ HasBucketRoom(compound)
        /\ Block \ (TableBlock \union compound.owned) # {}
        /\ compound' = [Written(c, k, name, type, start) EXCEPT !.owned = @ \union {start},
                                                                !.cacheShouldBeUpdated = TRUE]
        /\ UNCHANGED elsewhere

(* removeFile and removeFolder: the first bucket with such an entry, which *)
(* is deleted if it reports no entry any more.  Should it hold some, they  *)
(* are erased from a map while it is iterated over: some of their blocks   *)
(* are deallocated.                                                        *)
RemoveEntry(name, type) ==
    LET hits == HaveOfType(compound, name, type)
        k == Earliest(hits)
        buried == EntryBuried(compound, k, name)
    IN  /\ hits # {}
        /\ IF getAliveEntryCount(Leaf(buried, k)) = 0
           THEN \E unlinked \in SUBSET LeftIn(buried, k) :
                   compound' = BucketErased(buried, k, unlinked)
           ELSE compound' = buried
        /\ UNCHANGED elsewhere

getEntryInfo(name) ==
    /\ compound' = AfterGetEntryInfo(compound, name)
    /\ UNCHANGED elsewhere

(* getFile and getFolder; they throw if there is no such entry. *)
Open(name) ==
    /\ compound' = AfterOpen(compound, name)
    /\ UNCHANGED elsewhere

listEntries ==
    /\ compound' = AfterListing(compound)
    /\ UNCHANGED elsewhere

(* listFileEntries and listFolderEntries. *)
listEntriesOfType(type) ==
    /\ compound' = [compound EXCEPT !.cache = Joined(@, Listed(compound, {type}))]
    /\ UNCHANGED elsewhere

(* renameEntry to another folder, the first half. *)
putMetaDataOutOfUse(name) ==
    LET c == AfterGetEntryInfo(compound, name)
        k == FirstNamed(c, name)
        f == Leaf(c, k)
    IN  /\ name \in AliveNames(c)
        /\ Shadowed(c, name) => "shadowed" \in Misuse
        /\ Cardinality(elsewhere) < MaxElsewhere
        /\ Uncounted(c) < MaxUncounted
        /\ compound' = doRemoveEntryFromCache(WithLeaf(c, k, doPutMetaDataOutOfUse(f, name)), name)
        /\ elsewhere' = elsewhere \union {EntryInfo(compound, name)}

(* renameEntry from another folder, the second half.  Unlike an addition,  *)
(* it does not have the next listing look into the buckets again.          *)
writeNewMetaDataForEntry(name) ==
    LET c == WithBucketFor(compound)
        k == BucketFor(compound, TRUE)
    IN  /\ name \notin AliveNames(compound)
        /\ HasBucketRoom(compound)
        /\ compound.cacheShouldBeUpdated \/ "enterAfterListing" \in Misuse
        /\ \E info \in elsewhere :
            /\ compound' = Written(c, k, name, info.type, info.start)
            /\ elsewhere' = elsewhere \ {info}

(* renameEntry within the folder. *)
Rename(srcName, dstName) ==
    LET c == AfterGetEntryInfo(compound, srcName)
        k == FirstNamed(c, srcName)
        f == updateMetaDataWithNewFilename(Leaf(c, k), srcName, dstName)
    IN  /\ srcName \in AliveNames(c)
        /\ dstName \notin AliveNames(c)
        /\ Shadowed(c, srcName) => "shadowed" \in Misuse
        /\ Named(Leaf(c, k), dstName) # {} => "renameOntoDead" \in Misuse
        /\ compound.cacheShouldBeUpdated \/ "enterAfterListing" \in Misuse
        /\ compound' = doRemoveEntryFromCache(WithLeaf(c, k, f), srcName)
        /\ UNCHANGED elsewhere

Next ==
    \/ Reopen
    \/ listEntries
    \/ \E type \in EntryType : listEntriesOfType(type)
    \/ \E name \in Name :
        \/ getEntryInfo(name)
        \/ Open(name)
        \/ putMetaDataOutOfUse(name)
        \/ writeNewMetaDataForEntry(name)
        \/ \E type \in EntryType :
            \/ AddEntry(name, type)
            \/ RemoveEntry(name, type)
    \/ \E srcName, dstName \in Name : Rename(srcName, dstName)

Spec == Init /\ [][Next]_vars
-----------------------------------------------------------------------------
AliveSlots(c) == UNION {{Leaf(c, k).slots[i] : i \in Alive(Leaf(c, k))} : k \in Buckets(c)}

(* The buckets of the object are the entries of the index, each with a     *)
(* table of its own: no two objects write to one table, and no bucket is   *)
(* lost when the folder is opened again (CompoundFolder.cpp:73-78, 86-88,  *)
(* 329-331).                                                               *)
BucketsAreTheIndex ==
    LET c == compound
    IN  /\ \A j, k \in Buckets(c) : c.buckets[j].start = c.buckets[k].start => j = k
        /\ {c.buckets[k].start : k \in Buckets(c)} = {c.index.slots[i].start : i \in Alive(c.index)}

(* No name has two entries, in one bucket or in two, and no two entries    *)
(* start at the same block, which is allocated, as are the tables: what is *)
(* removed is nobody else's (ContentFolder.cpp:549, 584).                  *)
NothingIsShared ==
    LET c == compound
        leaf(k) == Leaf(c, k)
        starts == {info.start : info \in elsewhere}
    IN  /\ \A j, k \in Buckets(c) : \A x \in Alive(leaf(j)), y \in Alive(leaf(k)) :
            \/ j = k /\ x = y
            \/ /\ leaf(j).slots[x].name # leaf(k).slots[y].name
               /\ leaf(j).slots[x].start # leaf(k).slots[y].start
        /\ {slot.start : slot \in AliveSlots(c)} \intersect starts = {}
        /\ {slot.start : slot \in AliveSlots(c)} \union starts
               \union {c.buckets[k].start : k \in Buckets(c)} = c.owned

(* Every look-up by name answers with the entry of that name and its kind, *)
(* in whatever bucket it is by now, and with nothing if there is none:     *)
(* removing a bucket shifts the others, and the cached bucket indices with *)
(* them (CompoundFolder.cpp:154-179, 186-213, 231-249).                    *)
LookUpsAnswer ==
    LET c == compound
        infos(n, types) == {InfoOf(slot) : slot \in {s \in AliveSlots(c) : s.name = n /\ s.type \in types}}
        answers(info, right) == IF right = {} THEN info = NoInfo ELSE info \in right
    IN  \A n \in Name :
            /\ answers(EntryInfo(c, n), infos(n, EntryType))
            /\ \A type \in EntryType : answers(OpenedInfo(c, n, type), infos(n, {type}))

(* A listing that is not made anew is complete: it has every entry of the  *)
(* folder (CompoundFolder.cpp:255, 270).                                   *)
ListingComplete ==
    ~compound.cacheShouldBeUpdated => DOMAIN compound.cache = AliveNames(compound)

(* No bucket reports fewer entries than it has, so that none is deleted    *)
(* with entries in it (CompoundFolder.cpp:327, 348).                       *)
NoBucketUnderstated ==
    \A k \in Buckets(compound) :
        getAliveEntryCount(Leaf(compound, k)) >= Cardinality(Alive(Leaf(compound, k)))

(* The entry of every name, as the object sees it. *)
EntriesOf(c) ==
    [n \in AliveNames(c) |-> InfoOf(CHOOSE slot \in AliveSlots(c) : slot.name = n)]

(* A rename within a folder takes effect: the entry has the new name and   *)
(* nothing has the old one ("original removed", "new version",             *)
(* include/test/CoreFSTest.hpp:437-438).                                   *)
RenameTakesEffect ==
    [][\A srcName, dstName \in Name :
        Rename(srcName, dstName) =>
            srcName \notin AliveNames(compound') /\ dstName \in AliveNames(compound')]_vars

(* What was added is in the entry data ("appends a new file entry and      *)
(* start index to the entry data", include/knoxcrypt/CompoundFolder.hpp:   *)
(* 72): whoever opens the folder again finds the same entries.             *)
EntriesAreOnDisk == EntriesOf(OpenedCompound(compound)) = EntriesOf(compound)

-----------------------------------------------------------------------------
FM == INSTANCE FolderMap WITH entries <- EntriesOf(compound)

(* The folder is a map from names to entries, whichever buckets they are   *)
(* in: FolderMap.                                                          *)
ImplementsFolderMap == FM!Spec
=============================================================================
