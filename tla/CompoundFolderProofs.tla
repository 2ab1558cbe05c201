------------------------ MODULE CompoundFolderProofs ------------------------
(***************************************************************************)
(* What a compound folder keeps, for every set of names and of blocks and  *)
(* any number of buckets of any size, as long as none of the calls in      *)
(* Misuse is made.  What an operation does to one table is                 *)
(* EntryTableProofs'; here are the buckets, the index of them, the blocks  *)
(* and the cache over all.                                                 *)
(***************************************************************************)
EXTENDS CompoundFolder, EntryTableProofs

(* The fields of the record. *)
CompoundFields ==
    {"index", "tables", "buckets", "contentFolderCount", "cache", "cacheShouldBeUpdated", "owned"}

(* The buckets are a sequence, and every block has a table. *)
CompoundType(c) ==
    /\ CompoundFields \subseteq DOMAIN c
    /\ \E S : c.buckets \in Seq(S)
    /\ DOMAIN c.tables = Block
    /\ c.contentFolderCount \in Int
    /\ c.cacheShouldBeUpdated \in BOOLEAN

(* The entries of the index in use are the buckets, by name and by start. *)
IndexInv(c) ==
    /\ TableInv(c.index)
    /\ \A i \in Alive(c.index) :
        /\ c.index.slots[i].type = "folder"
        /\ \E k \in Buckets(c) : /\ c.index.slots[i].name = c.buckets[k].name
                                 /\ c.index.slots[i].start = c.buckets[k].start
    /\ \A k \in Buckets(c) :
        \E i \in Alive(c.index) : /\ c.index.slots[i].name = c.buckets[k].name
                                  /\ c.index.slots[i].start = c.buckets[k].start
    /\ \A j, k \in Buckets(c) :
        c.buckets[j].name = c.buckets[k].name \/ c.buckets[j].start = c.buckets[k].start => j = k

(* The buckets are sound tables in blocks for tables, their entries not. *)
LeavesInv(c) ==
    \A k \in Buckets(c) :
        /\ c.buckets[k].start \in TableBlock
        /\ TableInv(Leaf(c, k))
        /\ \A i \in Alive(Leaf(c, k)) : Leaf(c, k).slots[i].start \in Block \ TableBlock

(* No two slots in use have the same name or the same start, in one bucket *)
(* or in two.                                                              *)
SpotInv(c) ==
    \A j, k \in Buckets(c) : \A x \in Alive(Leaf(c, j)), y \in Alive(Leaf(c, k)) :
        \/ Leaf(c, j).slots[x].name = Leaf(c, k).slots[y].name
        \/ Leaf(c, j).slots[x].start = Leaf(c, k).slots[y].start
        => j = k /\ x = y

(* What the tables and the objects on them keep, whoever owns the blocks. *)
TablesInv(c) == CompoundType(c) /\ IndexInv(c) /\ LeavesInv(c) /\ SpotInv(c)

(* Every block that is allocated is a bucket's or that of an entry, here   *)
(* or elsewhere.                                                           *)
OwnInv(c, infos) ==
    /\ infos \subseteq Info
    /\ \A info \in infos : info.start \in Block \ TableBlock
    /\ \A info, other \in infos : info.start = other.start => info = other
    /\ \A slot \in AliveSlots(c), info \in infos : slot.start # info.start
    /\ c.owned = {slot.start : slot \in AliveSlots(c)} \union {info.start : info \in infos}
                     \union {c.buckets[k].start : k \in Buckets(c)}

(* What is cached is so, and where nothing is added to it nothing is       *)
(* missing.                                                                *)
CacheInv(c) ==
    /\ \A n \in DOMAIN c.cache :
        \E slot \in AliveSlots(c) : slot.name = n /\ Strip(c.cache[n]) = InfoOf(slot)
    /\ ~c.cacheShouldBeUpdated => AliveNames(c) \subseteq DOMAIN c.cache

(* All of it, for entries elsewhere that infos are of. *)
Good(c, infos) == TablesInv(c) /\ OwnInv(c, infos) /\ CacheInv(c)

(* The inductive invariant. *)
IInv == Good(compound, elsewhere)

-----------------------------------------------------------------------------
(* The numbers of the buckets. *)
LEMMA BucketNumbers ==
    ASSUME NEW c, CompoundType(c)
    PROVE  /\ Buckets(c) = 1 .. Len(c.buckets) /\ Len(c.buckets) \in Nat
           /\ Buckets(c) \subseteq Nat
  BY DEF CompoundType, Buckets

(* What a bucket and its table say of a leaf. *)
LEMMA LeafSays ==
    ASSUME NEW c, NEW k
    PROVE  /\ Leaf(c, k).slots = c.tables[c.buckets[k].start].slots
           /\ Leaf(c, k).count = c.tables[c.buckets[k].start].count
           /\ Leaf(c, k).entryCount = c.buckets[k].entryCount
           /\ Leaf(c, k).deadEntryCount = c.buckets[k].deadEntryCount
           /\ Leaf(c, k).checkForEarlyMetaData = c.buckets[k].checkForEarlyMetaData
           /\ Leaf(c, k).infos = c.buckets[k].infos
           /\ Fields \subseteq DOMAIN Leaf(c, k)
  BY DEF Leaf, Fields

(* A table with the same fields is as good. *)
LEMMA AsGood ==
    ASSUME NEW f, TableInv(f), NEW g, Fields \subseteq DOMAIN g, \A x \in Fields : g[x] = f[x]
    PROVE  TableInv(g) /\ Alive(g) = Alive(f) /\ g.slots = f.slots
           /\ getAliveEntryCount(g) = getAliveEntryCount(f)
  <1>1. /\ g.slots = f.slots /\ g.count = f.count /\ g.entryCount = f.entryCount
        /\ g.deadEntryCount = f.deadEntryCount
        /\ g.checkForEarlyMetaData = f.checkForEarlyMetaData /\ g.infos = f.infos
    BY FieldNames
  <1>2. Seen(g) = Seen(f) /\ Alive(g) = Alive(f) /\ Dead(g) = Dead(f)
    BY <1>1 DEF Seen, Alive, Dead
  <1>3. TableType(g)
    BY <1>1 DEF TableInv, TableType
  <1>4. AliveFirst(g) /\ InfosFresh(g) /\ DeadSought(g) /\ DeadCounted(g)
    BY <1>1, <1>2 DEF TableInv, AliveFirst, InfosFresh, DeadSought, DeadCounted
  <1> QED BY <1>1, <1>2, <1>3, <1>4 DEF TableInv, getAliveEntryCount

(* A bucket is given another table: the others are as they were.           *)
LEMMA LeafReplaced ==
    ASSUME NEW c, TablesInv(c), NEW k \in Buckets(c), NEW f, TableInv(f),
           NEW d, d = WithLeaf(c, k, f)
    PROVE  /\ CompoundType(d) /\ Buckets(d) = Buckets(c)
           /\ d.index = c.index /\ d.contentFolderCount = c.contentFolderCount
           /\ d.cache = c.cache /\ d.cacheShouldBeUpdated = c.cacheShouldBeUpdated
           /\ d.owned = c.owned
           /\ \A j \in Buckets(c) : /\ d.buckets[j].name = c.buckets[j].name
                                    /\ d.buckets[j].start = c.buckets[j].start
           /\ \A j \in Buckets(c) \ {k} : Leaf(d, j) = Leaf(c, j)
           /\ TableInv(Leaf(d, k)) /\ Alive(Leaf(d, k)) = Alive(f) /\ Leaf(d, k).slots = f.slots
           /\ getAliveEntryCount(Leaf(d, k)) = getAliveEntryCount(f)
  <1> DEFINE start == c.buckets[k].start
  <1> DEFINE object == ObjectOf(f, c.buckets[k].name, c.buckets[k].start)
  <1>1. /\ d.buckets = [c.buckets EXCEPT ![k] = object]
        /\ d.tables = [c.tables EXCEPT ![start] = TableOf(f)]
        /\ d.index = c.index /\ d.contentFolderCount = c.contentFolderCount
        /\ d.cache = c.cache /\ d.cacheShouldBeUpdated = c.cacheShouldBeUpdated
        /\ d.owned = c.owned
        /\ CompoundFields \subseteq DOMAIN d
    <2>1. d = [c EXCEPT !.tables = [c.tables EXCEPT ![start] = TableOf(f)],
                        !.buckets = [c.buckets EXCEPT ![k] = object]]
      BY DEF WithLeaf
    <2> HIDE DEF start, object
    <2> QED BY <2>1 DEF TablesInv, CompoundType, CompoundFields
  <1>2. start \in Block
    BY CompoundAssumption DEF TablesInv, LeavesInv
  <1>3. object.name = c.buckets[k].name /\ object.start = start
    BY DEF ObjectOf
  <1>4. PICK S : c.buckets \in Seq(S)
    BY DEF TablesInv, CompoundType
  <1>5. d.buckets \in Seq(S \union {object}) /\ Buckets(d) = Buckets(c)
    <2> HIDE DEF object
    <2> QED BY <1>1, <1>4 DEF Buckets
  <1>6. d.buckets[k] = object /\ \A j \in Buckets(c) \ {k} : d.buckets[j] = c.buckets[j]
    <2> HIDE DEF object
    <2> QED BY <1>1 DEF Buckets
  <1>7. d.tables[start] = TableOf(f) /\ \A b \in Block \ {start} : d.tables[b] = c.tables[b]
    <2> HIDE DEF start
    <2> QED BY <1>1, <1>2 DEF TablesInv, CompoundType
  <1>8. CompoundType(d)
    BY <1>1, <1>5 DEF TablesInv, CompoundType
  <1>9. \A j \in Buckets(c) \ {k} : Leaf(d, j) = Leaf(c, j)
    <2> SUFFICES ASSUME NEW j \in Buckets(c), j # k PROVE Leaf(d, j) = Leaf(c, j)
      OBVIOUS
    <2>1. c.buckets[j].start # start /\ c.buckets[j].start \in Block
      BY CompoundAssumption DEF TablesInv, IndexInv, LeavesInv
    <2> HIDE DEF start
    <2> QED BY <1>6, <1>7, <2>1 DEF Leaf
  <1>10. \A x \in Fields : Leaf(d, k)[x] = f[x]
    BY <1>3, <1>6, <1>7, LeafSays DEF Fields, ObjectOf, TableOf
  <1>11. Fields \subseteq DOMAIN Leaf(d, k)
    BY LeafSays
  <1> HIDE DEF start, object
  <1> QED BY <1>1, <1>3, <1>5, <1>6, <1>8, <1>9, <1>10, <1>11, AsGood DEF start

(* The slots of a folder are those of its buckets. *)
LEMMA SlotIsIn ==
    ASSUME NEW c
    PROVE  /\ \A k \in Buckets(c) : \A i \in Alive(Leaf(c, k)) : Leaf(c, k).slots[i] \in AliveSlots(c)
           /\ \A slot \in AliveSlots(c) :
                  \E k \in Buckets(c) : \E i \in Alive(Leaf(c, k)) : slot = Leaf(c, k).slots[i]
           /\ AliveNames(c) = {slot.name : slot \in AliveSlots(c)}
  <1>1. /\ \A k \in Buckets(c) : \A i \in Alive(Leaf(c, k)) : Leaf(c, k).slots[i] \in AliveSlots(c)
        /\ \A slot \in AliveSlots(c) :
               \E k \in Buckets(c) : \E i \in Alive(Leaf(c, k)) : slot = Leaf(c, k).slots[i]
    BY DEF AliveSlots
  <1>2. ASSUME NEW n PROVE n \in AliveNames(c) <=> \E slot \in AliveSlots(c) : n = slot.name
    <2>1. n \in AliveNames(c) <=> \E k \in Buckets(c) : \E i \in Alive(Leaf(c, k)) : n = Leaf(c, k).slots[i].name
      BY DEF AliveNames
    <2> QED BY <1>1, <2>1
  <1> QED BY <1>1, <1>2

(* A slot in use is one of Slot, with a block for files and folders.       *)
LEMMA SlotIsTyped ==
    ASSUME NEW c, TablesInv(c), NEW slot \in AliveSlots(c)
    PROVE  /\ slot \in Slot /\ slot.inUse /\ slot.start \in Block \ TableBlock
           /\ InfoOf(slot) \in Info /\ InfoOf(slot) # NoInfo
           /\ InfoOf(slot).start = slot.start /\ InfoOf(slot).type = slot.type
  <1>1a. PICK k \in Buckets(c) : \E i \in Alive(Leaf(c, k)) : slot = Leaf(c, k).slots[i]
    BY SlotIsIn
  <1>1. PICK i \in Alive(Leaf(c, k)) : slot = Leaf(c, k).slots[i]
    BY <1>1a
  <1>2. TableInv(Leaf(c, k)) /\ slot.start \in Block \ TableBlock
    BY <1>1 DEF TablesInv, LeavesInv
  <1>3. slot \in Slot /\ slot.inUse
    BY <1>1, <1>2, SlotSets DEF TableInv, Alive
  <1>4. InfoOf(slot).start = slot.start /\ InfoOf(slot).type = slot.type
    BY DEF InfoOf
  <1>5. InfoOf(slot) \in Info
    BY <1>2, <1>3 DEF InfoOf, Info, Slot
  <1>6. InfoOf(slot) # NoInfo
    BY <1>2, <1>4, NoBlockAssumption DEF NoInfo
  <1> QED BY <1>2, <1>3, <1>4, <1>5, <1>6

(* Names and starts tell slots apart. *)
LEMMA SlotsDiffer ==
    ASSUME NEW c, TablesInv(c), NEW s \in AliveSlots(c), NEW t \in AliveSlots(c),
           s.name = t.name \/ s.start = t.start
    PROVE  s = t
  <1>1a. PICK j \in Buckets(c) : \E x \in Alive(Leaf(c, j)) : s = Leaf(c, j).slots[x]
    BY SlotIsIn
  <1>1. PICK x \in Alive(Leaf(c, j)) : s = Leaf(c, j).slots[x]
    BY <1>1a
  <1>2a. PICK k \in Buckets(c) : \E y \in Alive(Leaf(c, k)) : t = Leaf(c, k).slots[y]
    BY SlotIsIn
  <1>2. PICK y \in Alive(Leaf(c, k)) : t = Leaf(c, k).slots[y]
    BY <1>2a
  <1>3. j = k /\ x = y
    BY <1>1, <1>2 DEF TablesInv, SpotInv
  <1> QED BY <1>1, <1>2, <1>3

-----------------------------------------------------------------------------
(* A bucket may get a table whose slots in use are apart from each other   *)
(* and from those of the other buckets.                                    *)
LEMMA TableReplaced ==
    ASSUME NEW c, TablesInv(c), NEW k \in Buckets(c), NEW f, TableInv(f),
           \A x \in Alive(f) : f.slots[x].start \in Block \ TableBlock,
           \A x, y \in Alive(f) :
               f.slots[x].name = f.slots[y].name \/ f.slots[x].start = f.slots[y].start => x = y,
           \A x \in Alive(f), j \in Buckets(c) \ {k} : \A y \in Alive(Leaf(c, j)) :
               /\ f.slots[x].name # Leaf(c, j).slots[y].name
               /\ f.slots[x].start # Leaf(c, j).slots[y].start,
           NEW d, d = WithLeaf(c, k, f)
    PROVE  TablesInv(d)
  <1>1. /\ CompoundType(d) /\ Buckets(d) = Buckets(c) /\ d.index = c.index
        /\ \A j \in Buckets(c) : /\ d.buckets[j].name = c.buckets[j].name
                                 /\ d.buckets[j].start = c.buckets[j].start
        /\ \A j \in Buckets(c) \ {k} : Leaf(d, j) = Leaf(c, j)
        /\ TableInv(Leaf(d, k)) /\ Alive(Leaf(d, k)) = Alive(f) /\ Leaf(d, k).slots = f.slots
    BY LeafReplaced
  <1>2. IndexInv(d)
    BY <1>1 DEF TablesInv, IndexInv
  <1>3. LeavesInv(d)
    <2> SUFFICES ASSUME NEW j \in Buckets(c)
                 PROVE  /\ d.buckets[j].start \in TableBlock
                        /\ TableInv(Leaf(d, j))
                        /\ \A i \in Alive(Leaf(d, j)) : Leaf(d, j).slots[i].start \in Block \ TableBlock
      BY <1>1 DEF LeavesInv
    <2>1. CASE j = k
      BY <1>1, <2>1 DEF TablesInv, LeavesInv
    <2>2. CASE j # k
      BY <1>1, <2>2 DEF TablesInv, LeavesInv
    <2> QED BY <2>1, <2>2
  <1>4. SpotInv(d)
    <2> SUFFICES ASSUME NEW i \in Buckets(c), NEW j \in Buckets(c),
                        NEW x \in Alive(Leaf(d, i)), NEW y \in Alive(Leaf(d, j)),
                        \/ Leaf(d, i).slots[x].name = Leaf(d, j).slots[y].name
                        \/ Leaf(d, i).slots[x].start = Leaf(d, j).slots[y].start
                 PROVE  i = j /\ x = y
      BY <1>1 DEF SpotInv
    <2>1. CASE i = k /\ j = k
      BY <1>1, <2>1
    <2>2. CASE i = k /\ j # k
      BY <1>1, <2>2
    <2>3. CASE i # k /\ j = k
      BY <1>1, <2>3
    <2>4. CASE i # k /\ j # k
      BY <1>1, <2>4 DEF TablesInv, SpotInv
    <2> QED BY <2>1, <2>2, <2>3, <2>4
  <1> QED BY <1>1, <1>2, <1>3, <1>4 DEF TablesInv

(* An entry is written: one slot more.                                     *)
LEMMA SlotWritten ==
    ASSUME NEW c, TablesInv(c), NEW k \in Buckets(c),
           NEW name \in Name, NEW type \in EntryType, NEW start \in Block \ TableBlock,
           \A slot \in AliveSlots(c) : slot.name # name /\ slot.start # start,
           NEW d, d = Written(c, k, name, type, start)
    PROVE  /\ TablesInv(d) /\ AliveSlots(d) = AliveSlots(c) \union {NewSlot(name, type, start)}
           /\ d.cache = c.cache /\ d.cacheShouldBeUpdated = c.cacheShouldBeUpdated
           /\ d.owned = c.owned /\ Buckets(d) = Buckets(c)
           /\ \A j \in Buckets(c) : d.buckets[j].start = c.buckets[j].start
  <1> DEFINE f == Leaf(c, k)
  <1> DEFINE g == doWriteNewMetaDataForEntry(f, name, type, start)
  <1> DEFINE new == NewSlot(name, type, start)
  <1>1. TableInv(f) /\ \A i \in Alive(f) : f.slots[i].name # name
    BY SlotIsIn DEF TablesInv, LeavesInv
  <1>2. TableInv(g) /\ \A i \in Alive(f) : g.slots[i] = f.slots[i]
    <2> HIDE DEF f
    <2> QED BY <1>1, EntryWritten DEF AnyName
  <1>3. PICK at \in Seen(g) \ Alive(f) : Alive(g) = Alive(f) \union {at} /\ g.slots[at] = new
    <2> HIDE DEF f
    <2> QED BY <1>1, EntryWritten DEF AnyName
  <1>4. new.name = name /\ new.start = start
    BY DEF NewSlot
  <1>5. d = WithLeaf(c, k, g)
    BY DEF Written
  <1> HIDE DEF g, new
  <1>6. /\ Buckets(d) = Buckets(c)
        /\ d.cache = c.cache /\ d.cacheShouldBeUpdated = c.cacheShouldBeUpdated /\ d.owned = c.owned
        /\ \A j \in Buckets(c) : d.buckets[j].start = c.buckets[j].start
        /\ \A j \in Buckets(c) \ {k} : Leaf(d, j) = Leaf(c, j)
        /\ Alive(Leaf(d, k)) = Alive(g) /\ Leaf(d, k).slots = g.slots
    BY <1>2, <1>5, LeafReplaced
  <1>7. TablesInv(d)
    <2>1. \A x \in Alive(g) : g.slots[x].start \in Block \ TableBlock
      BY <1>2, <1>3, <1>4 DEF TablesInv, LeavesInv
    <2>2. ASSUME NEW x \in Alive(g), NEW y \in Alive(g),
                 g.slots[x].name = g.slots[y].name \/ g.slots[x].start = g.slots[y].start
          PROVE  x = y
      <3>1. \A z \in Alive(f) : g.slots[z].name # name /\ g.slots[z].start # start
        BY <1>2, SlotIsIn
      <3>2. CASE x = at \/ y = at
        BY <1>3, <1>4, <2>2, <3>1, <3>2
      <3>3. CASE x # at /\ y # at
        BY <1>2, <1>3, <2>2, <3>3 DEF TablesInv, SpotInv
      <3> QED BY <3>2, <3>3
    <2>3. ASSUME NEW x \in Alive(g), NEW j \in Buckets(c) \ {k}, NEW y \in Alive(Leaf(c, j))
          PROVE  /\ g.slots[x].name # Leaf(c, j).slots[y].name
                 /\ g.slots[x].start # Leaf(c, j).slots[y].start
      <3>1. CASE x = at
        <4>1. Leaf(c, j).slots[y] \in AliveSlots(c)
          BY SlotIsIn
        <4> QED BY <1>3, <1>4, <3>1, <4>1
      <3>2. CASE x # at
        BY <1>2, <1>3, <3>2 DEF TablesInv, SpotInv
      <3> QED BY <3>1, <3>2
    <2> QED BY <1>2, <1>5, <2>1, <2>2, <2>3, TableReplaced
  <1>8. AliveSlots(d) = AliveSlots(c) \union {new}
    <2>1. ASSUME NEW slot \in AliveSlots(d) PROVE slot \in AliveSlots(c) \union {new}
      <3>1a. PICK j \in Buckets(d) : \E y \in Alive(Leaf(d, j)) : slot = Leaf(d, j).slots[y]
        BY SlotIsIn
      <3>1. PICK y \in Alive(Leaf(d, j)) : slot = Leaf(d, j).slots[y]
        BY <3>1a
      <3>2. CASE j = k
        BY <1>2, <1>3, <1>6, <3>1, <3>2, SlotIsIn
      <3>3. CASE j # k
        BY <1>6, <3>1, <3>3, SlotIsIn
      <3> QED BY <3>2, <3>3
    <2>2. new \in AliveSlots(d)
      BY <1>3, <1>6, SlotIsIn
    <2>3. ASSUME NEW slot \in AliveSlots(c) PROVE slot \in AliveSlots(d)
      <3>1a. PICK j \in Buckets(c) : \E y \in Alive(Leaf(c, j)) : slot = Leaf(c, j).slots[y]
        BY SlotIsIn
      <3>1. PICK y \in Alive(Leaf(c, j)) : slot = Leaf(c, j).slots[y]
        BY <3>1a
      <3>2. CASE j = k
        BY <1>2, <1>3, <1>6, <3>1, <3>2, SlotIsIn
      <3>3. CASE j # k
        BY <1>6, <3>1, <3>3, SlotIsIn
      <3> QED BY <3>2, <3>3
    <2> QED BY <2>1, <2>2, <2>3
  <1> QED BY <1>6, <1>7, <1>8 DEF new

(* An entry goes: one slot less.                                           *)
LEMMA SlotLeft ==
    ASSUME NEW c, TablesInv(c), NEW k \in Buckets(c), NEW i \in Alive(Leaf(c, k)),
           NEW g, TableInv(g), Alive(g) = Alive(Leaf(c, k)) \ {i},
           \A j \in Alive(g) : g.slots[j] = Leaf(c, k).slots[j],
           NEW d, d = WithLeaf(c, k, g)
    PROVE  TablesInv(d) /\ AliveSlots(d) = AliveSlots(c) \ {Leaf(c, k).slots[i]}
  <1> DEFINE f == Leaf(c, k)
  <1> DEFINE old == f.slots[i]
  <1>1. /\ Buckets(d) = Buckets(c)
        /\ \A j \in Buckets(c) \ {k} : Leaf(d, j) = Leaf(c, j)
        /\ Alive(Leaf(d, k)) = Alive(g) /\ Leaf(d, k).slots = g.slots
    BY LeafReplaced
  <1>2. TablesInv(d)
    <2>1. \A x \in Alive(g) : g.slots[x].start \in Block \ TableBlock
      BY DEF TablesInv, LeavesInv
    <2>2. \A x, y \in Alive(g) :
              g.slots[x].name = g.slots[y].name \/ g.slots[x].start = g.slots[y].start => x = y
      BY DEF TablesInv, SpotInv
    <2>3. \A x \in Alive(g), j \in Buckets(c) \ {k} : \A y \in Alive(Leaf(c, j)) :
              /\ g.slots[x].name # Leaf(c, j).slots[y].name
              /\ g.slots[x].start # Leaf(c, j).slots[y].start
      BY DEF TablesInv, SpotInv
    <2> QED BY <2>1, <2>2, <2>3, TableReplaced
  <1>3. ASSUME NEW j \in Buckets(c), NEW y \in Alive(Leaf(c, j)), Leaf(c, j).slots[y] = old
        PROVE  j = k /\ y = i
    BY <1>3 DEF TablesInv, SpotInv
  <1>4. ASSUME NEW slot \in AliveSlots(d) PROVE slot \in AliveSlots(c) \ {old}
    <2>1a. PICK j \in Buckets(d) : \E y \in Alive(Leaf(d, j)) : slot = Leaf(d, j).slots[y]
      BY SlotIsIn
    <2>1. PICK y \in Alive(Leaf(d, j)) : slot = Leaf(d, j).slots[y]
      BY <2>1a
    <2>2. j \in Buckets(c) /\ y \in Alive(Leaf(c, j)) /\ slot = Leaf(c, j).slots[y] /\ ~(j = k /\ y = i)
      BY <1>1, <2>1
    <2> QED BY <1>3, <2>2, SlotIsIn
  <1>5. ASSUME NEW slot \in AliveSlots(c), slot # old PROVE slot \in AliveSlots(d)
    <2>1a. PICK j \in Buckets(c) : \E y \in Alive(Leaf(c, j)) : slot = Leaf(c, j).slots[y]
      BY SlotIsIn
    <2>1. PICK y \in Alive(Leaf(c, j)) : slot = Leaf(c, j).slots[y]
      BY <2>1a
    <2>2. j \in Buckets(d) /\ y \in Alive(Leaf(d, j)) /\ slot = Leaf(d, j).slots[y]
      BY <1>1, <1>5, <2>1
    <2> QED BY <2>2, SlotIsIn
  <1> QED BY <1>2, <1>4, <1>5

(* An entry gets another name.                                             *)
Renaming(c, k, i, name, new, g, d) ==
    /\ TablesInv(c) /\ k \in Buckets(c) /\ i \in Alive(Leaf(c, k))
    /\ \A slot \in AliveSlots(c) : slot.name # name
    /\ new = [Leaf(c, k).slots[i] EXCEPT !.name = name]
    /\ TableInv(g) /\ Alive(g) = Alive(Leaf(c, k)) /\ g.slots[i] = new
    /\ \A j \in Alive(g) \ {i} : g.slots[j] = Leaf(c, k).slots[j]
    /\ d = WithLeaf(c, k, g)

(* It is the one slot that changes, and keeps its info. *)
LEMMA SlotRenamed ==
    ASSUME NEW c, NEW k, NEW i, NEW name, NEW new, NEW g, NEW d, Renaming(c, k, i, name, new, g, d)
    PROVE  /\ TablesInv(d)
           /\ AliveSlots(d) = (AliveSlots(c) \ {Leaf(c, k).slots[i]}) \union {new}
           /\ new.name = name /\ new.start = Leaf(c, k).slots[i].start
           /\ InfoOf(new) = InfoOf(Leaf(c, k).slots[i])
  <1>0. /\ TablesInv(c) /\ k \in Buckets(c) /\ i \in Alive(Leaf(c, k))
        /\ (\A slot \in AliveSlots(c) : slot.name # name)
        /\ new = [Leaf(c, k).slots[i] EXCEPT !.name = name]
        /\ TableInv(g) /\ Alive(g) = Alive(Leaf(c, k)) /\ g.slots[i] = new
        /\ (\A j \in Alive(g) \ {i} : g.slots[j] = Leaf(c, k).slots[j])
        /\ d = WithLeaf(c, k, g)
    BY DEF Renaming
  <1> DEFINE f == Leaf(c, k)
  <1> DEFINE old == f.slots[i]
  <1>1. /\ Buckets(d) = Buckets(c)
        /\ \A j \in Buckets(c) \ {k} : Leaf(d, j) = Leaf(c, j)
        /\ Alive(Leaf(d, k)) = Alive(g) /\ Leaf(d, k).slots = g.slots
    BY <1>0, LeafReplaced
  <1>2. old \in AliveSlots(c) /\ old \in Slot
    BY <1>0, SlotIsIn, SlotIsTyped
  <1>3. new.name = name /\ new.start = old.start /\ InfoOf(new) = InfoOf(old)
    <2> HIDE DEF old
    <2>1. new = [old EXCEPT !.name = name]
      BY <1>0 DEF old
    <2> QED BY <1>0, <1>2, <2>1 DEF Slot, InfoOf
  <1> HIDE DEF f
  <1>4. TablesInv(d)
    <2>0. \A x \in Alive(g) : g.slots[x].start = f.slots[x].start
      BY <1>0, <1>3 DEF f
    <2>1. \A x \in Alive(g) : g.slots[x].start \in Block \ TableBlock
      BY <1>0, <2>0 DEF TablesInv, LeavesInv, f
    <2>2. ASSUME NEW x \in Alive(g), NEW y \in Alive(g),
                 g.slots[x].name = g.slots[y].name \/ g.slots[x].start = g.slots[y].start
          PROVE  x = y
      <3>1. \A z \in Alive(f) : f.slots[z].name # name
        BY <1>0, SlotIsIn DEF f
      <3>3. \A z \in Alive(g) \ {i} : g.slots[z].name = f.slots[z].name
        BY <1>0 DEF f
      <3>4. CASE g.slots[x].start = g.slots[y].start
        BY <1>0, <2>0, <3>4 DEF TablesInv, SpotInv, f
      <3>5. CASE g.slots[x].name = g.slots[y].name
        <4>1. f.slots[x].name # name /\ f.slots[y].name # name
          BY <1>0, <3>1 DEF f
        <4>2. CASE x = i \/ y = i
          BY <1>0, <1>3, <3>3, <3>5, <4>1, <4>2
        <4>3. CASE x # i /\ y # i
          BY <1>0, <3>3, <3>5, <4>3 DEF TablesInv, SpotInv, f
        <4> QED BY <1>0, <4>2, <4>3
      <3> QED BY <1>0, <2>2, <3>4, <3>5
    <2>3. ASSUME NEW x \in Alive(g), NEW j \in Buckets(c) \ {k}, NEW y \in Alive(Leaf(c, j))
          PROVE  /\ g.slots[x].name # Leaf(c, j).slots[y].name
                 /\ g.slots[x].start # Leaf(c, j).slots[y].start
      <3>1. Leaf(c, j).slots[y].name # name
        BY <1>0, SlotIsIn
      <3>2. f.slots[x].start # Leaf(c, j).slots[y].start /\ f.slots[x].name # Leaf(c, j).slots[y].name
        BY <1>0 DEF TablesInv, SpotInv, f
      <3>3. CASE x = i
        BY <1>0, <1>3, <3>1, <3>2, <3>3
      <3>4. CASE x # i
        BY <1>0, <3>2, <3>4 DEF f
      <3> QED BY <1>0, <3>3, <3>4
    <2> QED BY <1>0, <2>1, <2>2, <2>3, TableReplaced
  <1>5. ASSUME NEW j \in Buckets(c), NEW y \in Alive(Leaf(c, j)), Leaf(c, j).slots[y] = old
        PROVE  j = k /\ y = i
    BY <1>0, <1>5 DEF TablesInv, SpotInv, f
  <1>6. ASSUME NEW slot \in AliveSlots(d) PROVE slot \in (AliveSlots(c) \ {old}) \union {new}
    <2>1a. PICK j \in Buckets(d) : \E y \in Alive(Leaf(d, j)) : slot = Leaf(d, j).slots[y]
      BY <1>0, SlotIsIn
    <2>1. PICK y \in Alive(Leaf(d, j)) : slot = Leaf(d, j).slots[y]
      BY <1>0, <2>1a
    <2>2. CASE j = k /\ y = i
      BY <1>0, <1>1, <2>1, <2>2
    <2>3. CASE ~(j = k /\ y = i)
      <3>1. j \in Buckets(c) /\ y \in Alive(Leaf(c, j)) /\ slot = Leaf(c, j).slots[y]
        BY <1>0, <1>1, <2>1, <2>3
      <3> QED BY <1>0, <1>5, <2>3, <3>1, SlotIsIn
    <2> QED BY <1>0, <2>2, <2>3
  <1>7. ASSUME NEW slot \in AliveSlots(c), slot # old PROVE slot \in AliveSlots(d)
    <2>1a. PICK j \in Buckets(c) : \E y \in Alive(Leaf(c, j)) : slot = Leaf(c, j).slots[y]
      BY <1>0, SlotIsIn
    <2>1. PICK y \in Alive(Leaf(c, j)) : slot = Leaf(c, j).slots[y]
      BY <1>0, <2>1a
    <2>2. j \in Buckets(d) /\ y \in Alive(Leaf(d, j)) /\ slot = Leaf(d, j).slots[y]
      BY <1>0, <1>1, <1>7, <2>1 DEF f
    <2> QED BY <1>0, <2>2, SlotIsIn
  <1>8. new \in AliveSlots(d)
    <2>1. k \in Buckets(d) /\ i \in Alive(Leaf(d, k)) /\ new = Leaf(d, k).slots[i]
      BY <1>0, <1>1
    <2> QED BY <1>0, <2>1, SlotIsIn
  <1> QED BY <1>0, <1>3, <1>4, <1>6, <1>7, <1>8 DEF f

-----------------------------------------------------------------------------
(* Which buckets answer for a name: the one that has its entry, and no     *)
(* other (CompoundFolder.cpp:237-248).                                     *)
LEMMA OneHas ==
    ASSUME NEW c, TablesInv(c), NEW k \in Buckets(c), NEW i \in Alive(Leaf(c, k)),
           NEW slot, slot = Leaf(c, k).slots[i], NEW n, n = slot.name
    PROVE  /\ Have(c, n) = {k}
           /\ doGetNamedEntryInfo(Leaf(c, k), n) = InfoOf(slot)
           /\ \A type \in EntryType :
                  /\ HaveOfType(c, n, type) = IF slot.type = type THEN {k} ELSE {}
                  /\ slot.type = type => InfoOfType(Leaf(c, k), n, type) = InfoOf(slot)
  <1>1. slot \in AliveSlots(c) /\ InfoOf(slot) # NoInfo /\ InfoOf(slot).type = slot.type
    BY SlotIsIn, SlotIsTyped
  <1>2. \A j \in Buckets(c) : TableInv(Leaf(c, j))
    BY DEF TablesInv, LeavesInv
  <1>3. doGetNamedEntryInfo(Leaf(c, k), n) = InfoOf(slot)
    BY <1>2, LookUpAnswers
  <1>4. ASSUME NEW j \in Buckets(c) \ {k}
        PROVE  doGetNamedEntryInfo(Leaf(c, j), n) = NoInfo
    <2>1. \A y \in Alive(Leaf(c, j)) : Leaf(c, j).slots[y].name # n
      BY DEF TablesInv, SpotInv
    <2> QED BY <1>2, <2>1, LookUpAnswers
  <1>5. Have(c, n) = {k}
    BY <1>1, <1>3, <1>4 DEF Have
  <1>6. ASSUME NEW type \in EntryType
        PROVE  /\ HaveOfType(c, n, type) = IF slot.type = type THEN {k} ELSE {}
               /\ slot.type = type => InfoOfType(Leaf(c, k), n, type) = InfoOf(slot)
    <2>1. InfoOfType(Leaf(c, k), n, type) = IF slot.type = type THEN InfoOf(slot) ELSE NoInfo
      BY <1>1, <1>3 DEF InfoOfType
    <2>2. ASSUME NEW j \in Buckets(c) \ {k} PROVE InfoOfType(Leaf(c, j), n, type) = NoInfo
      BY <1>4 DEF InfoOfType
    <2> QED BY <1>1, <2>1, <2>2 DEF HaveOfType
  <1> QED BY <1>3, <1>5, <1>6

(* And none if there is no such entry. *)
LEMMA NoneHas ==
    ASSUME NEW c, TablesInv(c), NEW n, n \notin AliveNames(c)
    PROVE  Have(c, n) = {} /\ \A type \in EntryType : HaveOfType(c, n, type) = {}
  <1>1. ASSUME NEW k \in Buckets(c) PROVE doGetNamedEntryInfo(Leaf(c, k), n) = NoInfo
    <2>1. TableInv(Leaf(c, k)) /\ \A i \in Alive(Leaf(c, k)) : Leaf(c, k).slots[i].name # n
      BY SlotIsIn DEF TablesInv, LeavesInv
    <2> QED BY <2>1, LookUpAnswers
  <1> QED BY <1>1 DEF Have, HaveOfType, InfoOfType

(* A bucket number alone. *)
LEMMA OnlyNumber ==
    ASSUME NEW c, TablesInv(c), NEW k \in Buckets(c)
    PROVE  Earliest({k}) = k /\ Latest({k}) = k
  <1>1. k \in Nat
    BY BucketNumbers DEF TablesInv
  <1> QED BY <1>1 DEF Earliest, Latest

-----------------------------------------------------------------------------
(* Only the cache differs. *)
SameButCache(c, d) ==
    /\ CompoundFields \subseteq DOMAIN d
    /\ d.index = c.index /\ d.tables = c.tables /\ d.buckets = c.buckets
    /\ d.contentFolderCount = c.contentFolderCount /\ d.owned = c.owned
    /\ d.cacheShouldBeUpdated \in BOOLEAN

(* What the cache has is nothing to the tables and the blocks. *)
LEMMA CacheApart ==
    ASSUME NEW c, NEW infos, TablesInv(c), OwnInv(c, infos), NEW d, SameButCache(c, d)
    PROVE  /\ TablesInv(d) /\ OwnInv(d, infos)
           /\ AliveSlots(d) = AliveSlots(c) /\ AliveNames(d) = AliveNames(c)
           /\ Buckets(d) = Buckets(c) /\ \A k : Leaf(d, k) = Leaf(c, k)
  <1>1. Buckets(d) = Buckets(c) /\ \A k : Leaf(d, k) = Leaf(c, k)
    BY DEF SameButCache, Buckets, Leaf
  <1>2. AliveSlots(d) = AliveSlots(c)
    BY <1>1 DEF AliveSlots
  <1>3. AliveNames(d) = AliveNames(c)
    BY <1>1 DEF AliveNames
  <1>4. CompoundType(d)
    BY DEF TablesInv, CompoundType, SameButCache
  <1>5. IndexInv(d) /\ LeavesInv(d) /\ SpotInv(d)
    BY <1>1 DEF TablesInv, IndexInv, LeavesInv, SpotInv, SameButCache
  <1>6. OwnInv(d, infos)
    BY <1>1, <1>2 DEF OwnInv, SameButCache
  <1> QED BY <1>1, <1>2, <1>3, <1>4, <1>5, <1>6 DEF TablesInv

(* What getEntryInfo answers: the entry of the name, from the cache or     *)
(* not, and nothing if there is none (CompoundFolder.cpp:228-250).         *)
LEMMA EntryInfoRight ==
    ASSUME NEW c, TablesInv(c), CacheInv(c), NEW n
    PROVE  /\ \A slot \in AliveSlots(c) : slot.name = n => EntryInfo(c, n) = InfoOf(slot)
           /\ n \notin AliveNames(c) => EntryInfo(c, n) = NoInfo
  <1>1. ASSUME NEW slot \in AliveSlots(c), slot.name = n PROVE EntryInfo(c, n) = InfoOf(slot)
    <2>1. CASE n \in DOMAIN c.cache
      <3>1. PICK other \in AliveSlots(c) : other.name = n /\ Strip(c.cache[n]) = InfoOf(other)
        BY <2>1 DEF CacheInv
      <3>2. other = slot
        BY <1>1, <3>1, SlotsDiffer
      <3> QED BY <2>1, <3>1, <3>2 DEF EntryInfo
    <2>2. CASE n \notin DOMAIN c.cache
      <3>1a. PICK k \in Buckets(c) : \E i \in Alive(Leaf(c, k)) : slot = Leaf(c, k).slots[i]
        BY SlotIsIn
      <3>1. PICK i \in Alive(Leaf(c, k)) : slot = Leaf(c, k).slots[i]
        BY <3>1a
      <3>2. Have(c, n) = {k} /\ doGetNamedEntryInfo(Leaf(c, k), n) = InfoOf(slot)
        BY <1>1, <3>1, OneHas
      <3>3. Latest({k}) = k
        BY OnlyNumber
      <3> QED BY <2>2, <3>2, <3>3 DEF EntryInfo
    <2> QED BY <2>1, <2>2
  <1>2. ASSUME n \notin AliveNames(c) PROVE EntryInfo(c, n) = NoInfo
    <2>1. n \notin DOMAIN c.cache
      BY <1>2, SlotIsIn DEF CacheInv
    <2> QED BY <1>2, <2>1, NoneHas DEF EntryInfo
  <1> QED BY <1>1, <1>2

(* What getFile and getFolder find: the entry if it is of the kind, in     *)
(* whatever bucket the cache has it (CompoundFolder.cpp:150-214).          *)
LEMMA OpenedInfoRight ==
    ASSUME NEW c, TablesInv(c), NEW n, NEW type \in EntryType
    PROVE  /\ \A slot \in AliveSlots(c) :
                  slot.name = n => OpenedInfo(c, n, type) = IF slot.type = type THEN InfoOf(slot) ELSE NoInfo
           /\ n \notin AliveNames(c) => OpenedInfo(c, n, type) = NoInfo
  <1>1. ASSUME NEW slot \in AliveSlots(c), slot.name = n
        PROVE  OpenedInfo(c, n, type) = IF slot.type = type THEN InfoOf(slot) ELSE NoInfo
    <2>1a. PICK k \in Buckets(c) : \E i \in Alive(Leaf(c, k)) : slot = Leaf(c, k).slots[i]
      BY SlotIsIn
    <2>1. PICK i \in Alive(Leaf(c, k)) : slot = Leaf(c, k).slots[i]
      BY <2>1a
    <2>2. /\ HaveOfType(c, n, type) = IF slot.type = type THEN {k} ELSE {}
          /\ slot.type = type => InfoOfType(Leaf(c, k), n, type) = InfoOf(slot)
      BY <1>1, <2>1, OneHas
    <2>3. Earliest({k}) = k /\ Latest({k}) = k
      BY OnlyNumber
    <2>4. CASE slot.type = type
      <3> DEFINE first == {j \in {k} : n \in DOMAIN c.cache /\ c.cache[n].bucket = j}
      <3>1. first # {} => first = {k}
        OBVIOUS
      <3>2. OpenedInfo(c, n, type) =
                InfoOfType(Leaf(c, IF first # {} THEN Earliest(first)
                                   ELSE IF type = "file" THEN Latest({k}) ELSE Earliest({k})), n, type)
        BY <2>2, <2>4 DEF OpenedInfo
      <3> HIDE DEF first
      <3> QED BY <2>2, <2>3, <2>4, <3>1, <3>2
    <2>5. CASE slot.type # type
      BY <2>2, <2>5 DEF OpenedInfo
    <2> QED BY <2>4, <2>5
  <1>2. n \notin AliveNames(c) => OpenedInfo(c, n, type) = NoInfo
    BY NoneHas DEF OpenedInfo
  <1> QED BY <1>1, <1>2

-----------------------------------------------------------------------------
(* What is cached under a name, stripped of the bucket's number. *)
LEMMA Stripped == ASSUME NEW at, NEW type, NEW start
                  PROVE  Strip(Cached(at, [type |-> type, start |-> start])) = [type |-> type, start |-> start]
  BY DEF Strip, Cached

(* getEntryInfo caches what is so (CompoundFolder.cpp:228-250). *)
LEMMA AfterGetKeeps ==
    ASSUME NEW c, TablesInv(c), CacheInv(c), NEW n, NEW d, d = AfterGetEntryInfo(c, n)
    PROVE  SameButCache(c, d) /\ d.cacheShouldBeUpdated = c.cacheShouldBeUpdated /\ CacheInv(d)
  <1>1. CASE d = c
    BY <1>1 DEF SameButCache, TablesInv, CompoundType
  <1>2. CASE d # c
    <2> DEFINE at == Latest(Have(c, n))
    <2> DEFINE cached == Cached(at, doGetNamedEntryInfo(Leaf(c, at), n))
    <2> DEFINE cache == Joined(c.cache, [m \in {n} |-> cached])
    <2>1. n \notin DOMAIN c.cache /\ Have(c, n) # {} /\ d = [c EXCEPT !.cache = cache]
      BY <1>2 DEF AfterGetEntryInfo
    <2>2. PICK slot \in AliveSlots(c) : slot.name = n
      BY <2>1, NoneHas, SlotIsIn
    <2>3a. PICK k \in Buckets(c) : \E i \in Alive(Leaf(c, k)) : slot = Leaf(c, k).slots[i]
      BY SlotIsIn
    <2>3. PICK i \in Alive(Leaf(c, k)) : slot = Leaf(c, k).slots[i]
      BY <2>3a
    <2>4. Have(c, n) = {k} /\ doGetNamedEntryInfo(Leaf(c, k), n) = InfoOf(slot)
      BY <2>2, <2>3, OneHas
    <2>10. at = k
      BY <2>4, OnlyNumber
    <2>5. Strip(cached) = InfoOf(slot)
      BY <2>4, <2>10, Stripped DEF InfoOf
    <2> HIDE DEF at, cached
    <2>6. /\ DOMAIN cache = DOMAIN c.cache \union {n} /\ cache[n] = cached
          /\ \A m \in DOMAIN c.cache : cache[m] = c.cache[m]
      BY <2>1 DEF Joined
    <2> HIDE DEF cache
    <2>7. /\ SameButCache(c, d) /\ d.cache = cache
          /\ d.cacheShouldBeUpdated = c.cacheShouldBeUpdated
      BY <2>1 DEF SameButCache, TablesInv, CompoundType, CompoundFields
    <2>8. AliveSlots(d) = AliveSlots(c) /\ AliveNames(d) = AliveNames(c)
      BY <2>7 DEF SameButCache, AliveSlots, AliveNames, Buckets, Leaf
    <2> QED BY <2>2, <2>5, <2>6, <2>7, <2>8 DEF CacheInv
  <1> QED BY <1>1, <1>2

(* Opening forgets what was cached with the number of a bucket that is no  *)
(* longer there, and has the next listing look again                       *)
(* (CompoundFolder.cpp:154-170).                                           *)
LEMMA AfterOpenKeeps ==
    ASSUME NEW c, TablesInv(c), CacheInv(c), NEW n, NEW d, d = AfterOpen(c, n)
    PROVE  SameButCache(c, d) /\ CacheInv(d)
  <1>1. CASE d = c
    BY <1>1 DEF SameButCache, TablesInv, CompoundType
  <1>2. CASE d # c
    <2> DEFINE cache == [m \in DOMAIN c.cache \ {n} |-> c.cache[m]]
    <2>1. d = [[c EXCEPT !.cache = cache] EXCEPT !.cacheShouldBeUpdated = TRUE]
      BY <1>2 DEF AfterOpen, doRemoveEntryFromCache
    <2>2. DOMAIN cache = DOMAIN c.cache \ {n} /\ \A m \in DOMAIN cache : cache[m] = c.cache[m]
      OBVIOUS
    <2> HIDE DEF cache
    <2>3. /\ SameButCache(c, d) /\ d.cache = cache
          /\ d.cacheShouldBeUpdated
      BY <2>1 DEF SameButCache, TablesInv, CompoundType, CompoundFields
    <2>4. AliveSlots(d) = AliveSlots(c)
      BY <2>3 DEF SameButCache, AliveSlots, Buckets, Leaf
    <2> QED BY <2>2, <2>3, <2>4 DEF CacheInv
  <1> QED BY <1>1, <1>2

(* What a listing caches is so, and a listing of both kinds is complete    *)
(* (CompoundFolder.cpp:252-309).                                           *)
LEMMA ListedRight ==
    ASSUME NEW c, TablesInv(c), NEW types
    PROVE  /\ \A n \in DOMAIN Listed(c, types) :
                  \E slot \in AliveSlots(c) : slot.name = n /\ Strip(Listed(c, types)[n]) = InfoOf(slot)
           /\ EntryType \subseteq types => AliveNames(c) \subseteq DOMAIN Listed(c, types)
  <1> DEFINE names ==
        UNION {{slot.name : slot \in {s \in {Leaf(c, k).slots[i] : i \in Alive(Leaf(c, k))} : s.type \in types}}
                  : k \in Buckets(c)}
  <1> DEFINE L(n) == Cached(Earliest(Have(c, n)), doGetNamedEntryInfo(Leaf(c, Earliest(Have(c, n))), n))
  <1>1. Listed(c, types) = [n \in names |-> L(n)]
    BY DEF Listed
  <1>2. \A n : n \in names <=> \E slot \in AliveSlots(c) : slot.name = n /\ slot.type \in types
    <2>1. \A n : n \in names <=> \E k \in Buckets(c) : \E i \in Alive(Leaf(c, k)) :
                     Leaf(c, k).slots[i].name = n /\ Leaf(c, k).slots[i].type \in types
      OBVIOUS
    <2> HIDE DEF names
    <2> QED BY <2>1, SlotIsIn
  <1> HIDE DEF names
  <1>3. ASSUME NEW slot \in AliveSlots(c), NEW n, slot.name = n PROVE Strip(L(n)) = InfoOf(slot)
    <2>1a. PICK k \in Buckets(c) : \E i \in Alive(Leaf(c, k)) : slot = Leaf(c, k).slots[i]
      BY SlotIsIn
    <2>1. PICK i \in Alive(Leaf(c, k)) : slot = Leaf(c, k).slots[i]
      BY <2>1a
    <2>2. Have(c, n) = {k} /\ doGetNamedEntryInfo(Leaf(c, k), n) = InfoOf(slot)
      BY <1>3, <2>1, OneHas
    <2>3. Earliest(Have(c, n)) = k
      BY <2>2, OnlyNumber
    <2> QED BY <2>2, <2>3, Stripped DEF InfoOf
  <1> HIDE DEF L
  <1>4. ASSUME NEW n \in DOMAIN Listed(c, types)
        PROVE  \E slot \in AliveSlots(c) : slot.name = n /\ Strip(Listed(c, types)[n]) = InfoOf(slot)
    <2>1. n \in names /\ Listed(c, types)[n] = L(n)
      BY <1>1, <1>4
    <2> QED BY <1>2, <1>3, <2>1
  <1>5. ASSUME EntryType \subseteq types PROVE AliveNames(c) \subseteq DOMAIN Listed(c, types)
    <2>1. \A slot \in AliveSlots(c) : slot.type \in types
      BY <1>5, SlotIsTyped DEF Slot
    <2>2. DOMAIN Listed(c, types) = names
      BY <1>1
    <2> QED BY <1>2, <2>1, <2>2, SlotIsIn
  <1> QED BY <1>4, <1>5

(* A listing adds to the cache; the next one need not be made if this one  *)
(* was of both kinds.                                                      *)
Listing(c, types, update) ==
    [c EXCEPT !.cache = Joined(c.cache, Listed(c, types)), !.cacheShouldBeUpdated = update]

(* A listing caches what is so (CompoundFolder.cpp:252-309). *)
LEMMA ListingKeeps ==
    ASSUME NEW c, TablesInv(c), CacheInv(c), NEW types, NEW update \in BOOLEAN,
           update \/ update = c.cacheShouldBeUpdated \/ EntryType \subseteq types,
           NEW d, d = Listing(c, types, update)
    PROVE  SameButCache(c, d) /\ CacheInv(d)
  <1> DEFINE listed == Listed(c, types)
  <1> DEFINE cache == Joined(c.cache, listed)
  <1>1. /\ \A n \in DOMAIN listed :
               \E slot \in AliveSlots(c) : slot.name = n /\ Strip(listed[n]) = InfoOf(slot)
        /\ EntryType \subseteq types => AliveNames(c) \subseteq DOMAIN listed
    BY ListedRight
  <1> HIDE DEF listed
  <1>2. /\ DOMAIN cache = DOMAIN c.cache \union DOMAIN listed
        /\ \A n \in DOMAIN cache : cache[n] = IF n \in DOMAIN c.cache THEN c.cache[n] ELSE listed[n]
    BY DEF Joined
  <1>3. d = [c EXCEPT !.cache = cache, !.cacheShouldBeUpdated = update]
    BY DEF listed, Listing
  <1> HIDE DEF cache
  <1>4. SameButCache(c, d) /\ d.cache = cache /\ d.cacheShouldBeUpdated = update
    BY <1>3 DEF SameButCache, TablesInv, CompoundType, CompoundFields
  <1>5. AliveSlots(d) = AliveSlots(c) /\ AliveNames(d) = AliveNames(c)
    BY <1>4 DEF SameButCache, AliveSlots, AliveNames, Buckets, Leaf
  <1>6. ASSUME NEW n \in DOMAIN cache
        PROVE  \E slot \in AliveSlots(c) : slot.name = n /\ Strip(cache[n]) = InfoOf(slot)
    <2>1. CASE n \in DOMAIN c.cache
      BY <1>2, <2>1 DEF CacheInv
    <2>2. CASE n \notin DOMAIN c.cache
      BY <1>1, <1>2, <1>6, <2>2
    <2> QED BY <2>1, <2>2
  <1>7. ~update => AliveNames(c) \subseteq DOMAIN cache
    BY <1>1, <1>2 DEF CacheInv
  <1> QED BY <1>4, <1>5, <1>6, <1>7 DEF CacheInv

-----------------------------------------------------------------------------
(* A name is taken out of the cache. *)
LEMMA Forgotten ==
    ASSUME NEW c, CompoundFields \subseteq DOMAIN c, c.cacheShouldBeUpdated \in BOOLEAN,
           NEW n, NEW d, d = doRemoveEntryFromCache(c, n)
    PROVE  /\ SameButCache(c, d) /\ d.cacheShouldBeUpdated = c.cacheShouldBeUpdated
           /\ DOMAIN d.cache = DOMAIN c.cache \ {n}
           /\ \A m \in DOMAIN d.cache : d.cache[m] = c.cache[m]
  <1> DEFINE cache == [m \in DOMAIN c.cache \ {n} |-> c.cache[m]]
  <1>1. d = [c EXCEPT !.cache = cache]
    BY DEF doRemoveEntryFromCache
  <1>2. DOMAIN cache = DOMAIN c.cache \ {n} /\ \A m \in DOMAIN cache : cache[m] = c.cache[m]
    OBVIOUS
  <1> HIDE DEF cache
  <1>3. SameButCache(c, d) /\ d.cacheShouldBeUpdated = c.cacheShouldBeUpdated /\ d.cache = cache
    BY <1>1 DEF SameButCache, CompoundFields
  <1> QED BY <1>2, <1>3

-----------------------------------------------------------------------------
(* What Latest chooses exists. *)
LEMMA LatestExists ==
    ASSUME NEW n \in Nat, NEW S, S \subseteq 1 .. n, S # {}
    PROVE  Latest(S) \in S
  <1> DEFINE T == {n - i : i \in S}
  <1>1. T \subseteq Nat /\ T # {}
    <2>1. ASSUME NEW i \in S PROVE n - i \in Nat
      <3>1. i \in 1 .. n
        OBVIOUS
      <3> QED BY <3>1
    <2>2. PICK i \in S : TRUE
      OBVIOUS
    <2> QED BY <2>1, <2>2
  <1>2. Earliest(T) \in T /\ \A t \in T : Earliest(T) <= t
    <2> HIDE DEF T
    <2> QED BY <1>1, EarliestExists
  <1>3. PICK m \in S : Earliest(T) = n - m
    BY <1>2
  <1>4. ASSUME NEW i \in S PROVE m >= i
    <2>1. n - m <= n - i
      BY <1>2, <1>3
    <2> QED BY <2>1
  <1> QED BY <1>4 DEF Latest

(* The lowest free block of a part of the volume is a free one of it.      *)
LEMMA FreeBlock ==
    ASSUME NEW c, NEW part, part \subseteq Block, part \ c.owned # {}
    PROVE  NextAvailableBlock(c, part) \in part \ c.owned
  <1> DEFINE S == part \ c.owned
  <1>1. S \subseteq Nat /\ S # {}
    BY CompoundAssumption
  <1>2. Earliest(S) \in S
    <2> HIDE DEF S
    <2> QED BY <1>1, EarliestExists
  <1> QED BY <1>2 DEF NextAvailableBlock

(* What the index answers for the name of a bucket, and for a name no      *)
(* bucket has.                                                             *)
LEMMA IndexAnswers ==
    ASSUME NEW c, TablesInv(c)
    PROVE  /\ \A i \in Alive(c.index) : /\ c.index.slots[i].start \in Block
                                        /\ InfoOfType(c.index, c.index.slots[i].name, "folder").start
                                               = c.index.slots[i].start
                                        /\ InfoOfType(c.index, c.index.slots[i].name, "folder") # NoInfo
           /\ \A k \in Buckets(c) : /\ IndexInfo(c, k).start = c.buckets[k].start
                                    /\ IndexInfo(c, k) # NoInfo
  <1>1. ASSUME NEW i \in Alive(c.index)
        PROVE  /\ c.index.slots[i].start \in Block
               /\ InfoOfType(c.index, c.index.slots[i].name, "folder").start = c.index.slots[i].start
               /\ InfoOfType(c.index, c.index.slots[i].name, "folder") # NoInfo
    <2> DEFINE slot == c.index.slots[i]
    <2>1. TableInv(c.index) /\ slot.type = "folder"
      BY DEF TablesInv, IndexInv
    <2>2. slot.start \in Block
      <3>1. PICK k \in Buckets(c) : slot.start = c.buckets[k].start
        BY DEF TablesInv, IndexInv
      <3> QED BY <3>1, CompoundAssumption DEF TablesInv, LeavesInv
    <2>3. doGetNamedEntryInfo(c.index, slot.name) = InfoOf(slot)
      BY <2>1, LookUpAnswers
    <2>4. InfoOf(slot).type = "folder" /\ InfoOf(slot).start = slot.start
      BY <2>1 DEF InfoOf
    <2>5. InfoOfType(c.index, slot.name, "folder") = InfoOf(slot)
      BY <2>3, <2>4 DEF InfoOfType
    <2>6. InfoOf(slot) # NoInfo
      BY <2>2, <2>4, NoBlockAssumption DEF NoInfo
    <2> QED BY <2>2, <2>4, <2>5, <2>6
  <1>2. ASSUME NEW k \in Buckets(c)
        PROVE  IndexInfo(c, k).start = c.buckets[k].start /\ IndexInfo(c, k) # NoInfo
    <2>1. PICK i \in Alive(c.index) : /\ c.index.slots[i].name = c.buckets[k].name
                                      /\ c.index.slots[i].start = c.buckets[k].start
      BY DEF TablesInv, IndexInv
    <2> QED BY <1>1, <2>1 DEF IndexInfo
  <1> QED BY <1>1, <1>2

(* A bucket is added: an entry of the index with a name and a table of its *)
(* own, and an empty bucket (CompoundFolder.cpp:81-89).                    *)
LEMMA BucketAdded ==
    ASSUME NEW c, NEW infos, TablesInv(c), OwnInv(c, infos),
           TableBlock \ c.owned # {},
           InfoOfType(c.index, c.contentFolderCount, "folder") = NoInfo,
           NEW d, d = doAddContentFolder(c)
    PROVE  /\ TablesInv(d) /\ OwnInv(d, infos) /\ AliveSlots(d) = AliveSlots(c)
           /\ d.cache = c.cache /\ d.cacheShouldBeUpdated = c.cacheShouldBeUpdated
           /\ Len(c.buckets) + 1 \in Buckets(d)
           /\ d.owned \ TableBlock = c.owned \ TableBlock
  <1> DEFINE name == c.contentFolderCount
  <1> DEFINE start == NextAvailableBlock(c, TableBlock)
  <1> DEFINE tables == [c.tables EXCEPT ![start] = EmptyTable]
  <1> DEFINE index == doWriteNewMetaDataForEntry(c.index, name, "folder", start)
  <1> DEFINE object == OpenedBucket(tables, name, InfoOfType(index, name, "folder").start)
  <1> DEFINE looked == AfterLookUp(index, name)
  <1> DEFINE end == Len(c.buckets) + 1
  <1>1. /\ d.index = looked /\ d.tables = tables /\ d.owned = c.owned \union {start}
        /\ d.buckets = Append(c.buckets, object) /\ d.contentFolderCount = name + 1
        /\ d.cache = c.cache /\ d.cacheShouldBeUpdated = c.cacheShouldBeUpdated
        /\ CompoundFields \subseteq DOMAIN d
    <2>1. d = [c EXCEPT !.index = looked, !.tables = tables, !.owned = c.owned \union {start},
                        !.buckets = Append(c.buckets, object), !.contentFolderCount = name + 1]
      BY DEF doAddContentFolder
    <2>2. CompoundFields \subseteq DOMAIN c
      BY DEF TablesInv, CompoundType
    <2> HIDE DEF name, start, tables, index, object, looked
    <2> QED BY <2>1, <2>2 DEF CompoundFields
  <1>2. start \in TableBlock \ c.owned /\ start \in Block
    BY FreeBlock, CompoundAssumption
  <1>3. \A k \in Buckets(c) : c.buckets[k].start # start /\ c.buckets[k].start \in Block
    <2> SUFFICES ASSUME NEW k \in Buckets(c)
                 PROVE  c.buckets[k].start # start /\ c.buckets[k].start \in Block
      OBVIOUS
    <2>1. c.buckets[k].start \in c.owned
      BY DEF OwnInv
    <2>2. c.buckets[k].start \in Block
      BY CompoundAssumption DEF TablesInv, LeavesInv
    <2> HIDE DEF start
    <2> QED BY <1>2, <2>1, <2>2
  <1>4. TableInv(c.index) /\ \A i \in Alive(c.index) : c.index.slots[i].name # name
    BY IndexAnswers DEF TablesInv, IndexInv
  <1>5. name \in AnyName /\ "folder" \in EntryType
    BY DEF TablesInv, CompoundType, AnyName, EntryType
  <1>6. /\ TableInv(index)
        /\ \A i \in Alive(c.index) : index.slots[i] = c.index.slots[i]
        /\ \E at \in Seen(index) \ Alive(c.index) :
               Alive(index) = Alive(c.index) \union {at} /\ index.slots[at] = NewSlot(name, "folder", start)
    <2> HIDE DEF name, start
    <2> QED BY <1>2, <1>4, <1>5, EntryWritten
  <1>7. PICK at : /\ at \notin Alive(c.index)
                  /\ Alive(index) = Alive(c.index) \union {at} /\ index.slots[at] = NewSlot(name, "folder", start)
    BY <1>6
  <1>8. /\ index.slots[at].name = name /\ index.slots[at].start = start
        /\ index.slots[at].type = "folder"
    BY <1>7 DEF NewSlot
  <1>9. InfoOfType(index, name, "folder").start = start
    <2>1. doGetNamedEntryInfo(index, name) = InfoOf(index.slots[at])
      <3> HIDE DEF index, name
      <3> QED BY <1>6, <1>7, <1>8, LookUpAnswers
    <2>2. InfoOf(index.slots[at]).type = "folder" /\ InfoOf(index.slots[at]).start = start
      BY <1>8 DEF InfoOf
    <2> QED BY <2>1, <2>2 DEF InfoOfType
  <1>10. /\ TableInv(looked) /\ looked.slots = index.slots
         /\ Alive(looked) = Alive(index)
    <2> HIDE DEF index, name
    <2>1. TableInv(looked) /\ SameTable(index, looked)
      BY <1>6, LookingKeeps
    <2>2. looked.slots = index.slots /\ looked.entryCount = index.entryCount
      BY <1>6, <2>1 DEF TableInv, TableType, Fields, SameTable
    <2> QED BY <2>1, <2>2 DEF Alive, Seen
  <1>11. object.name = name /\ object.start = start
    BY <1>9 DEF OpenedBucket, ObjectOf
  <1>12. tables[start] = EmptyTable /\ \A b \in Block \ {start} : tables[b] = c.tables[b]
    <2> HIDE DEF start
    <2> QED BY <1>2 DEF TablesInv, CompoundType
  <1>13. DOMAIN tables = Block
    BY DEF TablesInv, CompoundType
  <1>14. object = ObjectOf(Opened(<< >>, 0), name, start)
    BY <1>9, <1>12 DEF OpenedBucket, EmptyTable
  <1> HIDE DEF name, start, tables, index, looked, object
  <1>15. PICK S : c.buckets \in Seq(S)
    BY DEF TablesInv, CompoundType
  <1>16. /\ d.buckets \in Seq(S \union {object}) /\ Buckets(d) = Buckets(c) \union {end}
         /\ end \notin Buckets(c)
         /\ d.buckets[end] = object /\ \A k \in Buckets(c) : d.buckets[k] = c.buckets[k]
    BY <1>1, <1>15 DEF Buckets
  <1>17. CompoundType(d)
    BY <1>1, <1>5, <1>13, <1>16 DEF TablesInv, CompoundType, name
  <1>18. \A k \in Buckets(c) : Leaf(d, k) = Leaf(c, k)
    BY <1>1, <1>3, <1>12, <1>16 DEF Leaf
  <1>19. TableInv(Leaf(d, end)) /\ Alive(Leaf(d, end)) = {}
    <2> DEFINE f == Opened(<< >>, 0)
    <2>1. TableInv(f) /\ Alive(f) = {} /\ f.slots = << >> /\ f.count = 0
      BY OpeningEmpty DEF Opened
    <2> HIDE DEF f
    <2>2. d.tables[object.start] = EmptyTable
      BY <1>1, <1>11, <1>12
    <2>3. \A x \in Fields : Leaf(d, end)[x] = f[x]
      BY <1>14, <1>16, <2>1, <2>2, LeafSays DEF Fields, ObjectOf, EmptyTable, f
    <2> QED BY <2>1, <2>3, LeafSays, AsGood
  <1> HIDE DEF end
  <1>20. AliveSlots(d) = AliveSlots(c)
    BY <1>16, <1>18, <1>19 DEF AliveSlots
  <1>21. IndexInv(d)
    <2>1. ASSUME NEW i \in Alive(d.index)
          PROVE  /\ d.index.slots[i].type = "folder"
                 /\ \E k \in Buckets(d) : /\ d.index.slots[i].name = d.buckets[k].name
                                          /\ d.index.slots[i].start = d.buckets[k].start
      <3>1. CASE i = at
        BY <1>1, <1>8, <1>10, <1>11, <1>16, <3>1
      <3>2. CASE i # at
        <4>1. i \in Alive(c.index) /\ d.index.slots[i] = c.index.slots[i]
          BY <1>1, <1>6, <1>7, <1>10, <3>2
        <4> QED BY <1>16, <4>1 DEF TablesInv, IndexInv
      <3> QED BY <3>1, <3>2
    <2>2. ASSUME NEW k \in Buckets(d)
          PROVE  \E i \in Alive(d.index) : /\ d.index.slots[i].name = d.buckets[k].name
                                           /\ d.index.slots[i].start = d.buckets[k].start
      <3>1. CASE k = end
        BY <1>1, <1>7, <1>8, <1>10, <1>11, <1>16, <3>1
      <3>2. CASE k # end
        <4>1. PICK i \in Alive(c.index) : /\ c.index.slots[i].name = c.buckets[k].name
                                          /\ c.index.slots[i].start = c.buckets[k].start
          BY <1>16, <3>2 DEF TablesInv, IndexInv
        <4>2. i \in Alive(d.index) /\ d.index.slots[i] = c.index.slots[i]
          BY <1>1, <1>6, <1>7, <1>10
        <4>3. d.buckets[k] = c.buckets[k]
          BY <1>16, <3>2
        <4> QED BY <4>1, <4>2, <4>3
      <3> QED BY <3>1, <3>2
    <2>3. \A k \in Buckets(c) : c.buckets[k].name # name
      BY <1>4 DEF TablesInv, IndexInv
    <2>4. \A j, k \in Buckets(d) :
              d.buckets[j].name = d.buckets[k].name \/ d.buckets[j].start = d.buckets[k].start => j = k
      <3> SUFFICES ASSUME NEW j \in Buckets(d), NEW k \in Buckets(d),
                          d.buckets[j].name = d.buckets[k].name \/ d.buckets[j].start = d.buckets[k].start
                   PROVE  j = k
        OBVIOUS
      <3>1. CASE j = end \/ k = end
        BY <1>3, <1>11, <1>16, <2>3, <3>1
      <3>2. CASE j # end /\ k # end
        BY <1>16, <3>2 DEF TablesInv, IndexInv
      <3> QED BY <3>1, <3>2
    <2> QED BY <1>1, <1>10, <2>1, <2>2, <2>4 DEF IndexInv
  <1>22. LeavesInv(d)
    BY <1>2, <1>11, <1>16, <1>18, <1>19 DEF TablesInv, LeavesInv
  <1>23. SpotInv(d)
    BY <1>16, <1>18, <1>19 DEF TablesInv, SpotInv
  <1>24. OwnInv(d, infos)
    <2>1. {d.buckets[k].start : k \in Buckets(d)} = {c.buckets[k].start : k \in Buckets(c)} \union {start}
      BY <1>11, <1>16
    <2> QED BY <1>1, <1>20, <2>1 DEF OwnInv
  <1> QED BY <1>1, <1>2, <1>16, <1>17, <1>20, <1>21, <1>22, <1>23, <1>24 DEF TablesInv, end

(* The bucket an addition goes to is there, or is added first              *)
(* (CompoundFolder.cpp:93-116).                                            *)
LEMMA BucketReady ==
    ASSUME NEW c, NEW infos, TablesInv(c), OwnInv(c, infos), HasBucketRoom(c), Misuse = {},
           NEW fromLast \in BOOLEAN,
           NEW d, d = WithBucketFor(c), NEW k, k = BucketFor(c, fromLast)
    PROVE  /\ TablesInv(d) /\ OwnInv(d, infos) /\ AliveSlots(d) = AliveSlots(c)
           /\ d.cache = c.cache /\ d.cacheShouldBeUpdated = c.cacheShouldBeUpdated
           /\ k \in Buckets(d)
           /\ d.owned \ TableBlock = c.owned \ TableBlock
  <1>1. CASE WithRoom(c) = {}
    <2>1. d = doAddContentFolder(c) /\ k = Len(c.buckets) + 1
      BY <1>1 DEF WithBucketFor, BucketFor
    <2>2. TableBlock \ c.owned # {} /\ InfoOfType(c.index, c.contentFolderCount, "folder") = NoInfo
      BY <1>1 DEF HasBucketRoom
    <2> QED BY <2>1, <2>2, BucketAdded
  <1>2. CASE WithRoom(c) # {}
    <2>1. d = c
      BY <1>2 DEF WithBucketFor
    <2>2. /\ WithRoom(c) \subseteq 1 .. Len(c.buckets) /\ WithRoom(c) \subseteq Buckets(c)
          /\ WithRoom(c) \subseteq Nat /\ Len(c.buckets) \in Nat
      BY BucketNumbers DEF WithRoom, TablesInv
    <2>3. Latest(WithRoom(c)) \in WithRoom(c)
      BY <1>2, <2>2, LatestExists
    <2>4. Earliest(WithRoom(c)) \in WithRoom(c)
      BY <1>2, <2>2, EarliestExists
    <2>5. k \in Buckets(c)
      BY <1>2, <2>2, <2>3, <2>4 DEF BucketFor
    <2> QED BY <2>1, <2>5
  <1> QED BY <1>1, <1>2

-----------------------------------------------------------------------------
(* The elements that stay when one is erased keep their order; here only   *)
(* that they are those of the others.                                      *)
LEMMA RemovedAt ==
    ASSUME NEW S, NEW s \in Seq(S), NEW k \in DOMAIN s, NEW t, t = RemoveAt(s, k),
           NEW from, from = [j \in DOMAIN t |-> IF j < k THEN j ELSE j + 1]
    PROVE  /\ t \in Seq(S)
           /\ \A j \in DOMAIN t : from[j] \in DOMAIN s \ {k} /\ t[j] = s[from[j]]
           /\ \A i, j \in DOMAIN t : from[i] = from[j] => i = j
           /\ \A m \in DOMAIN s \ {k} : \E j \in DOMAIN t : from[j] = m
  <1>1. DOMAIN s = 1 .. Len(s) /\ Len(s) \in Nat
    OBVIOUS
  <1> DEFINE a == SubSeq(s, 1, k - 1)
  <1> DEFINE b == SubSeq(s, k + 1, Len(s))
  <1>2. a \in Seq(S) /\ Len(a) = k - 1 /\ \A j \in 1 .. k - 1 : a[j] = s[j]
    BY <1>1
  <1>3. b \in Seq(S) /\ Len(b) = Len(s) - k /\ \A j \in 1 .. Len(s) - k : b[j] = s[k + j]
    BY <1>1
  <1>4. t = a \o b
    BY DEF RemoveAt
  <1> HIDE DEF a, b
  <1>5. t \in Seq(S) /\ Len(t) = Len(s) - 1 /\ DOMAIN t = 1 .. Len(s) - 1
    <2>1. t \in Seq(S)
      BY <1>2, <1>3, <1>4
    <2>2. Len(t) = Len(a) + Len(b)
      <3>1. a \in Seq(S) /\ b \in Seq(S)
        BY <1>2, <1>3
      <3> QED BY <1>4, <3>1
    <2>3. DOMAIN t = 1 .. Len(t)
      BY <2>1
    <2> QED BY <1>1, <1>2, <1>3, <2>1, <2>2, <2>3
  <1>6. \A j \in 1 .. Len(s) - 1 : t[j] = IF j < k THEN s[j] ELSE s[j + 1]
    <2> SUFFICES ASSUME NEW j \in 1 .. Len(s) - 1 PROVE t[j] = IF j < k THEN s[j] ELSE s[j + 1]
      OBVIOUS
    <2>1. CASE j < k
      BY <1>1, <1>2, <1>3, <1>4, <2>1
    <2>2. CASE ~(j < k)
      <3>1. t[j] = b[j - (k - 1)]
        BY <1>1, <1>2, <1>3, <1>4, <2>2
      <3>2. j - (k - 1) \in 1 .. Len(s) - k /\ k + (j - (k - 1)) = j + 1
        BY <1>1, <2>2
      <3> QED BY <1>3, <2>2, <3>1, <3>2
    <2> QED BY <2>1, <2>2
  <1>7. ASSUME NEW m \in DOMAIN s \ {k} PROVE \E j \in DOMAIN t : from[j] = m
    <2>1. CASE m < k
      <3>1. m \in DOMAIN t
        BY <1>1, <1>5, <2>1
      <3> QED BY <2>1, <3>1
    <2>2. CASE ~(m < k)
      <3>1. m - 1 \in DOMAIN t /\ ~(m - 1 < k) /\ (m - 1) + 1 = m
        BY <1>1, <1>5, <2>2
      <3> QED BY <3>1
    <2> QED BY <2>1, <2>2
  <1>8. \A i, j \in DOMAIN t : from[i] = from[j] => i = j
    BY <1>1, <1>5
  <1>9. \A j \in DOMAIN t : from[j] \in DOMAIN s \ {k} /\ t[j] = s[from[j]]
    BY <1>1, <1>5, <1>6
  <1> QED BY <1>5, <1>7, <1>8, <1>9

(* Buckets have other numbers, some new objects, and some are gone that    *)
(* had no entries: the folder holds what it held.                          *)
LEMMA BucketsMoved ==
    ASSUME NEW c, TablesInv(c), NEW d, CompoundType(d), NEW from,
           \A j \in Buckets(d) : from[j] \in Buckets(c),
           \A j, k \in Buckets(d) : from[j] = from[k] => j = k,
           \A j \in Buckets(d) : /\ d.buckets[j].name = c.buckets[from[j]].name
                                 /\ d.buckets[j].start = c.buckets[from[j]].start,
           \A j \in Buckets(d) : /\ TableInv(Leaf(d, j))
                                 /\ Alive(Leaf(d, j)) = Alive(Leaf(c, from[j]))
                                 /\ Leaf(d, j).slots = Leaf(c, from[j]).slots,
           \A k \in Buckets(c) : Alive(Leaf(c, k)) = {} \/ \E j \in Buckets(d) : from[j] = k,
           TableInv(d.index),
           \A i \in Alive(d.index) : /\ i \in Alive(c.index) /\ d.index.slots[i] = c.index.slots[i]
                                     /\ \E j \in Buckets(d) : d.index.slots[i].name = d.buckets[j].name,
           \A i \in Alive(c.index) \ Alive(d.index) : \A j \in Buckets(d) :
               c.index.slots[i].name # d.buckets[j].name
    PROVE  TablesInv(d) /\ AliveSlots(d) = AliveSlots(c)
  <1>1. IndexInv(d)
    <2>1. ASSUME NEW i \in Alive(d.index)
          PROVE  /\ d.index.slots[i].type = "folder"
                 /\ \E k \in Buckets(d) : /\ d.index.slots[i].name = d.buckets[k].name
                                          /\ d.index.slots[i].start = d.buckets[k].start
      <3>1. i \in Alive(c.index) /\ d.index.slots[i] = c.index.slots[i]
        OBVIOUS
      <3>2. PICK j \in Buckets(d) : d.index.slots[i].name = d.buckets[j].name
        OBVIOUS
      <3>3. /\ c.index.slots[i].type = "folder"
            /\ \E k \in Buckets(c) : /\ c.index.slots[i].name = c.buckets[k].name
                                     /\ c.index.slots[i].start = c.buckets[k].start
        BY <3>1 DEF TablesInv, IndexInv
      <3>4. PICK k \in Buckets(c) : /\ c.index.slots[i].name = c.buckets[k].name
                                    /\ c.index.slots[i].start = c.buckets[k].start
        BY <3>3
      <3>5. from[j] = k
        BY <3>1, <3>2, <3>4 DEF TablesInv, IndexInv
      <3> QED BY <3>1, <3>2, <3>3, <3>4, <3>5
    <2>2. ASSUME NEW j \in Buckets(d)
          PROVE  \E i \in Alive(d.index) : /\ d.index.slots[i].name = d.buckets[j].name
                                           /\ d.index.slots[i].start = d.buckets[j].start
      <3>1. PICK i \in Alive(c.index) : /\ c.index.slots[i].name = c.buckets[from[j]].name
                                        /\ c.index.slots[i].start = c.buckets[from[j]].start
        BY DEF TablesInv, IndexInv
      <3>2. i \in Alive(d.index)
        BY <3>1
      <3> QED BY <3>1, <3>2
    <2>3. \A j, k \in Buckets(d) :
              d.buckets[j].name = d.buckets[k].name \/ d.buckets[j].start = d.buckets[k].start => j = k
      <3> SUFFICES ASSUME NEW j \in Buckets(d), NEW k \in Buckets(d),
                          d.buckets[j].name = d.buckets[k].name \/ d.buckets[j].start = d.buckets[k].start
                   PROVE  j = k
        OBVIOUS
      <3>1. from[j] = from[k]
        BY DEF TablesInv, IndexInv
      <3> QED BY <3>1
    <2> QED BY <2>1, <2>2, <2>3 DEF IndexInv
  <1>2. LeavesInv(d)
    BY DEF TablesInv, LeavesInv
  <1>3. SpotInv(d)
    <2> SUFFICES ASSUME NEW j \in Buckets(d), NEW k \in Buckets(d),
                        NEW x \in Alive(Leaf(d, j)), NEW y \in Alive(Leaf(d, k)),
                        \/ Leaf(d, j).slots[x].name = Leaf(d, k).slots[y].name
                        \/ Leaf(d, j).slots[x].start = Leaf(d, k).slots[y].start
                 PROVE  j = k /\ x = y
      BY DEF SpotInv
    <2>1. /\ from[j] \in Buckets(c) /\ x \in Alive(Leaf(c, from[j]))
          /\ from[k] \in Buckets(c) /\ y \in Alive(Leaf(c, from[k]))
          /\ Leaf(d, j).slots = Leaf(c, from[j]).slots /\ Leaf(d, k).slots = Leaf(c, from[k]).slots
      OBVIOUS
    <2>2. from[j] = from[k] /\ x = y
      BY <2>1 DEF TablesInv, SpotInv
    <2> QED BY <2>2
  <1>4. ASSUME NEW slot \in AliveSlots(d) PROVE slot \in AliveSlots(c)
    <2>1. PICK j \in Buckets(d) : \E i \in Alive(Leaf(d, j)) : slot = Leaf(d, j).slots[i]
      BY SlotIsIn
    <2>2. from[j] \in Buckets(c) /\ \E i \in Alive(Leaf(c, from[j])) : slot = Leaf(c, from[j]).slots[i]
      BY <2>1
    <2> QED BY <2>2, SlotIsIn
  <1>5. ASSUME NEW slot \in AliveSlots(c) PROVE slot \in AliveSlots(d)
    <2>1. PICK k \in Buckets(c) : \E i \in Alive(Leaf(c, k)) : slot = Leaf(c, k).slots[i]
      BY SlotIsIn
    <2>2. PICK j \in Buckets(d) : from[j] = k
      BY <2>1
    <2>3. \E i \in Alive(Leaf(d, j)) : slot = Leaf(d, j).slots[i]
      BY <2>1, <2>2
    <2> QED BY <2>3, SlotIsIn
  <1> QED BY <1>1, <1>2, <1>3, <1>4, <1>5 DEF TablesInv

(* The look-ups and listings of a table leave its slots alone. *)
LEMMA SlotsStay ==
    ASSUME NEW f, TableInv(f), NEW g, TableInv(g), SameTable(f, g)
    PROVE  g.slots = f.slots /\ g.entryCount = f.entryCount /\ Alive(g) = Alive(f)
  <1>1. g.slots = f.slots /\ g.entryCount = f.entryCount
    BY DEF TableInv, TableType, Fields, SameTable
  <1> QED BY <1>1 DEF Alive, Seen

(* The starts of the buckets, which have moved. *)
LEMMA StartsStay ==
    ASSUME NEW c, NEW d, NEW from,
           \A j \in Buckets(d) : /\ from[j] \in Buckets(c)
                                 /\ d.buckets[j].start = c.buckets[from[j]].start,
           NEW gone, \A k \in Buckets(c) : k \in gone \/ \E j \in Buckets(d) : from[j] = k,
           \A j \in Buckets(d) : from[j] \notin gone
    PROVE  {d.buckets[j].start : j \in Buckets(d)} = {c.buckets[k].start : k \in Buckets(c) \ gone}
  OBVIOUS

(* A bucket without entries is deleted, and only its table goes            *)
(* (CompoundFolder.cpp:327-332).                                           *)
LEMMA BucketGone ==
    ASSUME NEW c, NEW infos, TablesInv(c), OwnInv(c, infos),
           NEW k \in Buckets(c), Alive(Leaf(c, k)) = {},
           NEW unlinked \in SUBSET LeftIn(c, k), NEW d, d = BucketErased(c, k, unlinked)
    PROVE  /\ TablesInv(d) /\ OwnInv(d, infos) /\ AliveSlots(d) = AliveSlots(c)
           /\ d.cache = c.cache /\ d.cacheShouldBeUpdated = c.cacheShouldBeUpdated
  <1> DEFINE name == c.buckets[k].name
  <1> DEFINE start == c.buckets[k].start
  <1> DEFINE looked == AfterLookUp(c.index, name)
  <1> DEFINE index == Buried(looked, name)
  <1> DEFINE unread == {start} \ {c.buckets[j].start : j \in Buckets(c) \ {k}}
  <1> DEFINE tables == [b \in Block |-> IF b \in unread THEN EmptyTable ELSE c.tables[b]]
  <1>1. IndexInfo(c, k).start = start /\ IndexInfo(c, k) # NoInfo
    BY IndexAnswers
  <1>2. unlinked = {}
    <2> DEFINE f == Leaf(c, k)
    <2> DEFINE g == Opened(f.slots, f.count)
    <2>1. TableInv(f)
      BY DEF TablesInv, LeavesInv
    <2>2. Alive(g) = {}
      <3> HIDE DEF f
      <3> QED BY <2>1, OpeningKeeps DEF f
    <2>3. g = Opened(c.tables[start].slots, c.tables[start].count)
      BY LeafSays
    <2> DEFINE found == IndexInfo(c, k).start
    <2> DEFINE h == Opened(c.tables[found].slots, c.tables[found].count)
    <2>4. h = g
      <3> HIDE DEF found, start
      <3> QED BY <1>1, <2>3 DEF found
    <2>5. LeftIn(c, k) = {} \/ LeftIn(c, k) = {h.slots[i].start : i \in Alive(h)}
      BY DEF LeftIn
    <2> HIDE DEF g, h
    <2> QED BY <2>2, <2>4, <2>5
  <1>3. /\ d.index = index /\ d.tables = tables /\ d.owned = c.owned \ {start}
        /\ d.buckets = RemoveAt(c.buckets, k) /\ d.contentFolderCount = c.contentFolderCount - 1
        /\ d.cache = c.cache /\ d.cacheShouldBeUpdated = c.cacheShouldBeUpdated
        /\ CompoundFields \subseteq DOMAIN d
    <2>1. d = [c EXCEPT !.index = index, !.tables = tables,
                        !.owned = c.owned \ (unlinked \union {start}),
                        !.buckets = RemoveAt(c.buckets, k),
                        !.contentFolderCount = c.contentFolderCount - 1]
      BY <1>1 DEF BucketErased
    <2>2. CompoundFields \subseteq DOMAIN c
      BY DEF TablesInv, CompoundType
    <2> HIDE DEF name, start, looked, index, unread, tables
    <2> QED BY <1>2, <2>1, <2>2 DEF CompoundFields
  <1>4. TableInv(c.index)
    BY DEF TablesInv, IndexInv
  <1>5. TableInv(looked) /\ looked.slots = c.index.slots /\ Alive(looked) = Alive(c.index)
    <2>1. TableInv(looked) /\ SameTable(c.index, looked)
      BY <1>4, LookingKeeps
    <2> HIDE DEF looked
    <2> QED BY <1>4, <2>1, SlotsStay
  <1>6. PICK at \in Alive(c.index) : c.index.slots[at].name = name
    BY DEF TablesInv, IndexInv
  <1>7. \A i \in Alive(c.index) : c.index.slots[i].name = name => i = at
    BY <1>4, <1>6, IndexOfAlive
  <1>8. /\ TableInv(index) /\ Alive(index) = Alive(c.index) \ {at}
        /\ \A i \in Alive(index) : index.slots[i] = c.index.slots[i]
    <2>1. index = Buried(looked, looked.slots[at].name) /\ at \in Alive(looked)
      BY <1>5, <1>6
    <2> HIDE DEF looked, index
    <2>2. /\ TableInv(index) /\ Alive(index) = Alive(looked) \ {at}
          /\ \A i \in Alive(index) : index.slots[i] = looked.slots[i]
      BY <1>5, <2>1, EntryIsBuried
    <2> QED BY <1>5, <2>2
  <1> DEFINE from == [j \in DOMAIN d.buckets |-> IF j < k THEN j ELSE j + 1]
  <1>9. PICK S : c.buckets \in Seq(S)
    BY DEF TablesInv, CompoundType
  <1>9a. from = [j \in DOMAIN d.buckets |-> IF j < k THEN j ELSE j + 1] /\ k \in DOMAIN c.buckets
    BY DEF Buckets
  <1> HIDE DEF from
  <1>10. /\ d.buckets \in Seq(S)
         /\ \A j \in Buckets(d) : from[j] \in Buckets(c) \ {k} /\ d.buckets[j] = c.buckets[from[j]]
         /\ \A i, j \in Buckets(d) : from[i] = from[j] => i = j
         /\ \A m \in Buckets(c) \ {k} : \E j \in Buckets(d) : from[j] = m
    BY <1>3, <1>9, <1>9a, RemovedAt DEF Buckets
  <1>11. CompoundType(d)
    BY <1>3, <1>10 DEF TablesInv, CompoundType
  <1>12. ASSUME NEW j \in Buckets(d) PROVE Leaf(d, j) = Leaf(c, from[j])
    <2>1. d.buckets[j] = c.buckets[from[j]] /\ from[j] \in Buckets(c) \ {k}
      BY <1>10
    <2> DEFINE other == c.buckets[from[j]].start
    <2>2. other # start /\ other \in Block
      BY <2>1, CompoundAssumption DEF TablesInv, IndexInv, LeavesInv
    <2>3. d.tables[other] = c.tables[other]
      <3> HIDE DEF other, start
      <3> QED BY <1>3, <2>2
    <2> QED BY <2>1, <2>3 DEF Leaf
  <1> HIDE DEF start, looked, index, unread, tables
  <1>13. ASSUME NEW i \in Alive(d.index)
         PROVE  /\ i \in Alive(c.index) /\ d.index.slots[i] = c.index.slots[i]
                /\ \E j \in Buckets(d) : d.index.slots[i].name = d.buckets[j].name
    <2>1. i \in Alive(c.index) /\ i # at /\ d.index.slots[i] = c.index.slots[i]
      BY <1>3, <1>8, <1>13
    <2>2. PICK m \in Buckets(c) : c.index.slots[i].name = c.buckets[m].name
      BY <2>1 DEF TablesInv, IndexInv
    <2>3. m # k
      BY <1>7, <2>1, <2>2
    <2>4. PICK j \in Buckets(d) : from[j] = m
      BY <1>10, <2>3
    <2>5. d.buckets[j] = c.buckets[m]
      BY <1>10, <2>4
    <2> QED BY <2>1, <2>2, <2>5
  <1>14. ASSUME NEW i \in Alive(c.index) \ Alive(d.index), NEW j \in Buckets(d)
         PROVE  c.index.slots[i].name # d.buckets[j].name
    <2>1. i = at
      BY <1>3, <1>8
    <2>2. from[j] # k /\ from[j] \in Buckets(c) /\ d.buckets[j] = c.buckets[from[j]]
      BY <1>10
    <2>3. c.buckets[from[j]].name # name
      BY <2>2 DEF TablesInv, IndexInv
    <2> QED BY <1>6, <2>1, <2>2, <2>3
  <1>15. TablesInv(d) /\ AliveSlots(d) = AliveSlots(c)
    <2>1. \A j \in Buckets(d) : /\ TableInv(Leaf(d, j))
                                /\ Alive(Leaf(d, j)) = Alive(Leaf(c, from[j]))
                                /\ Leaf(d, j).slots = Leaf(c, from[j]).slots
      BY <1>10, <1>12 DEF TablesInv, LeavesInv
    <2>2. \A m \in Buckets(c) : Alive(Leaf(c, m)) = {} \/ \E j \in Buckets(d) : from[j] = m
      BY <1>10
    <2>3. /\ \A j \in Buckets(d) : from[j] \in Buckets(c)
          /\ \A i, j \in Buckets(d) : from[i] = from[j] => i = j
          /\ \A j \in Buckets(d) : /\ d.buckets[j].name = c.buckets[from[j]].name
                                   /\ d.buckets[j].start = c.buckets[from[j]].start
      BY <1>10
    <2>4. TableInv(d.index)
      BY <1>3, <1>8
    <2> QED BY <1>11, <1>13, <1>14, <2>1, <2>2, <2>3, <2>4, BucketsMoved
  <1>16. OwnInv(d, infos)
    <2>1. {d.buckets[j].start : j \in Buckets(d)} = {c.buckets[m].start : m \in Buckets(c) \ {k}}
      BY <1>10, StartsStay
    <2>2. \A m \in Buckets(c) \ {k} : c.buckets[m].start # start
      BY DEF TablesInv, IndexInv, start
    <2>3. \A slot \in AliveSlots(c) : slot.start # start
      BY SlotIsTyped DEF TablesInv, LeavesInv, start
    <2>4. \A info \in infos : info.start # start
      BY DEF TablesInv, LeavesInv, OwnInv, start
    <2>5. d.owned = {slot.start : slot \in AliveSlots(c)} \union {info.start : info \in infos}
                        \union {c.buckets[m].start : m \in Buckets(c) \ {k}}
      <3>1. c.owned = {slot.start : slot \in AliveSlots(c)} \union {info.start : info \in infos}
                          \union {c.buckets[m].start : m \in Buckets(c)}
        BY DEF OwnInv
      <3>2. {c.buckets[m].start : m \in Buckets(c)}
                = {c.buckets[m].start : m \in Buckets(c) \ {k}} \union {start}
        BY DEF start
      <3> QED BY <1>3, <2>2, <2>3, <2>4, <3>1, <3>2
    <2> QED BY <1>15, <2>1, <2>5 DEF OwnInv
  <1> QED BY <1>3, <1>15, <1>16

-----------------------------------------------------------------------------
(* The members of S in order. *)
Increasing(s, S) ==
    s \in [1 .. Cardinality(S) -> S] /\ \A j, k \in DOMAIN s : j < k => s[j] < s[k]

(* Every finite set of numbers can be put in order: were there one that    *)
(* cannot, take a smallest, and its least number away.                     *)
LEMMA OrderExists ==
    ASSUME NEW S, S \subseteq Nat, IsFiniteSet(S)
    PROVE  \E s : Increasing(s, S)
  <1> DEFINE Unordered(n) == \E T \in SUBSET Nat :
                 IsFiniteSet(T) /\ Cardinality(T) = n /\ ~\E s : Increasing(s, T)
  <1> DEFINE bad == {n \in Nat : Unordered(n)}
  <1> SUFFICES ASSUME ~\E s : Increasing(s, S) PROVE FALSE
    OBVIOUS
  <1>1. bad # {} /\ bad \subseteq Nat
    <2>1. Cardinality(S) \in Nat
      BY FS_CardinalityType
    <2>2. Unordered(Cardinality(S))
      OBVIOUS
    <2> HIDE DEF Unordered
    <2> QED BY <2>1, <2>2
  <1> DEFINE m == Earliest(bad)
  <1>2. m \in bad /\ \A n \in bad : m <= n
    <2> HIDE DEF bad
    <2> QED BY <1>1, EarliestExists
  <1> HIDE DEF m, Unordered
  <1>4. m \in Nat /\ Unordered(m) /\ \A n \in Nat : Unordered(n) => m <= n
    BY <1>2
  <1>3. PICK T \in SUBSET Nat : IsFiniteSet(T) /\ Cardinality(T) = m /\ ~\E s : Increasing(s, T)
    BY <1>4 DEF Unordered
  <1> HIDE DEF bad
  <1>5. CASE T = {}
    <2>1. Cardinality(T) = 0
      BY <1>5, FS_EmptySet
    <2>2. Increasing([x \in 1 .. 0 |-> x], T)
      BY <1>5, <2>1 DEF Increasing
    <2> QED BY <1>3, <2>2
  <1>6. CASE T # {}
    <2> DEFINE e == Earliest(T)
    <2>1. e \in T /\ \A x \in T : e <= x
      BY <1>6, EarliestExists
    <2> HIDE DEF e
    <2> DEFINE R == T \ {e}
    <2>2. IsFiniteSet(R) /\ Cardinality(R) = m - 1 /\ R \in SUBSET Nat
      BY <1>3, <2>1, FS_RemoveElement
    <2>3. m - 1 \in Nat
      BY <1>3, <2>2, FS_CardinalityType
    <2>4. ~Unordered(m - 1)
      BY <1>4, <2>3
    <2>5. PICK r : Increasing(r, R)
      <3> HIDE DEF R
      <3> QED BY <2>2, <2>4 DEF Unordered
    <2> DEFINE s == [j \in 1 .. m |-> IF j = 1 THEN e ELSE r[j - 1]]
    <2>6. r \in [1 .. m - 1 -> R] /\ \A j, k \in 1 .. m - 1 : j < k => r[j] < r[k]
      BY <2>2, <2>5 DEF Increasing
    <2>7. \A x \in R : x \in T /\ e < x /\ x \in Nat /\ e \in Nat
      BY <2>1
    <2> HIDE DEF R
    <2>8. \A j \in 2 .. m : j - 1 \in 1 .. m - 1 /\ s[j] = r[j - 1] /\ s[j] \in R
      BY <1>4, <2>6
    <2>9. \A j \in 1 .. m : s[j] \in T
      <3>1. \A j \in 1 .. m : j = 1 \/ j \in 2 .. m
        BY <1>4
      <3> QED BY <2>1, <2>7, <2>8, <3>1
    <2>10. ASSUME NEW j \in 1 .. m, NEW k \in 1 .. m, j < k PROVE s[j] < s[k]
      <3>1. k \in 2 .. m
        BY <1>4, <2>10
      <3>2. CASE j = 1
        BY <2>7, <2>8, <3>1, <3>2
      <3>3. CASE j # 1
        <4>1. j \in 2 .. m /\ j - 1 < k - 1
          BY <1>4, <2>10, <3>3
        <4> QED BY <2>6, <2>8, <3>1, <4>1
      <3> QED BY <3>2, <3>3
    <2>11. s \in [1 .. m -> T] /\ DOMAIN s = 1 .. m
      BY <2>9
    <2> HIDE DEF s
    <2>12. Increasing(s, T)
      BY <1>3, <2>10, <2>11 DEF Increasing
    <2> QED BY <1>3, <2>12
  <1> QED BY <1>5, <1>6

(* The numbers of a set in order are each of them once. *)
LEMMA Ordered ==
    ASSUME NEW S, S \subseteq Nat, IsFiniteSet(S), NEW s, s = InOrder(S)
    PROVE  /\ s \in [1 .. Cardinality(S) -> S] /\ Cardinality(S) \in Nat
           /\ \A j, k \in DOMAIN s : s[j] = s[k] => j = k
           /\ \A i \in S : \E j \in DOMAIN s : s[j] = i
  <1> DEFINE n == Cardinality(S)
  <1>1. n \in Nat
    BY FS_CardinalityType
  <1>2. Increasing(s, S)
    <2>1. PICK r : Increasing(r, S)
      BY OrderExists
    <2>2. s = CHOOSE t \in [1 .. n -> S] : \A j, k \in DOMAIN t : j < k => t[j] < t[k]
      BY DEF InOrder
    <2>3. r \in [1 .. n -> S] /\ \A j, k \in DOMAIN r : j < k => r[j] < r[k]
      BY <2>1 DEF Increasing
    <2>4. s \in [1 .. n -> S] /\ \A j, k \in DOMAIN s : j < k => s[j] < s[k]
      <3> HIDE DEF n
      <3> QED BY <2>2, <2>3
    <2> QED BY <2>4 DEF Increasing
  <1>3. s \in [1 .. n -> S] /\ \A j, k \in 1 .. n : j < k => s[j] < s[k]
    BY <1>2 DEF Increasing
  <1> HIDE DEF n
  <1>4. ASSUME NEW j \in 1 .. n, NEW k \in 1 .. n, s[j] = s[k] PROVE j = k
    <2>1. s[j] \in Nat /\ s[k] \in Nat
      BY <1>3
    <2>2. ~(j < k) /\ ~(k < j)
      BY <1>3, <1>4, <2>1
    <2> QED BY <1>1, <2>2
  <1>5. s \in Injection(1 .. n, S)
    BY <1>3, <1>4 DEF Injection, IsInjective
  <1>6. Cardinality(1 .. n) = n
    BY <1>1, FS_Interval
  <1>7. s \in Surjection(1 .. n, S)
    BY <1>5, <1>6, FS_Injection DEF n
  <1>8. \A i \in S : \E j \in 1 .. n : s[j] = i
    BY <1>7 DEF Surjection
  <1> QED BY <1>1, <1>3, <1>4, <1>8 DEF n

-----------------------------------------------------------------------------
(* A new object finds the folder as the last one left it                   *)
(* (CompoundFolder.cpp:57-79).                                             *)
LEMMA OpenedAgain ==
    ASSUME NEW c, NEW infos, TablesInv(c), OwnInv(c, infos), NEW d, d = OpenedCompound(c)
    PROVE  /\ TablesInv(d) /\ OwnInv(d, infos) /\ AliveSlots(d) = AliveSlots(c)
           /\ CacheInv(d)
  <1> DEFINE first == Opened(c.index.slots, c.index.count)
  <1> DEFINE index == doListEntriesBasedOnType(first, "folder")
  <1> DEFINE used == InOrder(Alive(index))
  <1> DEFINE name(k) == index.slots[used[k]].name
  <1> DEFINE buckets == [k \in DOMAIN used |->
                 OpenedBucket(c.tables, name(k), doGetNamedEntryInfo(index, name(k)).start)]
  <1> DEFINE n == Cardinality(Alive(index))
  <1>1. /\ d.index = index /\ d.tables = c.tables /\ d.owned = c.owned
        /\ d.buckets = buckets /\ d.contentFolderCount = index.entryCount
        /\ d.cache = << >> /\ d.cacheShouldBeUpdated /\ d.cacheShouldBeUpdated \in BOOLEAN
        /\ CompoundFields \subseteq DOMAIN d
    <2>1. d = [c EXCEPT !.index = index, !.buckets = buckets,
                        !.contentFolderCount = index.entryCount,
                        !.cache = << >>, !.cacheShouldBeUpdated = TRUE]
      BY DEF OpenedCompound
    <2>2. CompoundFields \subseteq DOMAIN c
      BY DEF TablesInv, CompoundType
    <2> HIDE DEF index, buckets
    <2> QED BY <2>1, <2>2 DEF CompoundFields
  <1>2. TableInv(c.index)
    BY DEF TablesInv, IndexInv
  <1>3. TableInv(index) /\ index.slots = c.index.slots /\ Alive(index) = Alive(c.index)
    <2>1. TableInv(first) /\ first.slots = c.index.slots /\ Alive(first) = Alive(c.index)
      BY <1>2, OpeningKeeps
    <2> HIDE DEF first
    <2>2. TableInv(index) /\ SameTable(first, index)
      BY <2>1, LookingKeeps
    <2> HIDE DEF index
    <2> QED BY <2>1, <2>2, SlotsStay
  <1> HIDE DEF index
  <1>4. Alive(index) \subseteq Nat /\ IsFiniteSet(Alive(index))
    BY <1>3, SlotSets DEF TableInv, Alive
  <1>5. /\ used \in [1 .. n -> Alive(index)] /\ n \in Nat /\ DOMAIN used = 1 .. n
        /\ \A j, k \in 1 .. n : used[j] = used[k] => j = k
        /\ \A i \in Alive(index) : \E j \in 1 .. n : used[j] = i
    <2>1. /\ used \in [1 .. n -> Alive(index)] /\ n \in Nat
          /\ \A j, k \in DOMAIN used : used[j] = used[k] => j = k
          /\ \A i \in Alive(index) : \E j \in DOMAIN used : used[j] = i
      BY <1>4, Ordered
    <2> HIDE DEF used, n
    <2> QED BY <2>1
  <1> HIDE DEF used, n
  <1> DEFINE slot(j) == c.index.slots[used[j]]
  <1>6. ASSUME NEW j \in 1 .. n
        PROVE  /\ used[j] \in Alive(c.index) /\ name(j) = slot(j).name
               /\ doGetNamedEntryInfo(index, name(j)).start = slot(j).start
    <2>1. used[j] \in Alive(index) /\ name(j) = slot(j).name
      BY <1>3, <1>5
    <2>2. doGetNamedEntryInfo(index, name(j)) = InfoOf(slot(j))
      BY <1>3, <2>1, LookUpAnswers
    <2>3. InfoOf(slot(j)).start = slot(j).start
      BY DEF InfoOf
    <2> QED BY <1>3, <2>1, <2>2, <2>3
  <1>7. \A j \in 1 .. n : buckets[j] = OpenedBucket(c.tables, slot(j).name, slot(j).start)
    BY <1>5, <1>6
  <1>8. DOMAIN buckets = 1 .. n /\ \E S : buckets \in Seq(S)
    <2>1. DOMAIN buckets = 1 .. n /\ buckets = [j \in 1 .. n |-> buckets[j]]
      BY <1>5
    <2> HIDE DEF buckets
    <2>2. buckets \in Seq({buckets[j] : j \in 1 .. n})
      BY <1>5, <2>1
    <2> QED BY <2>1, <2>2
  <1> HIDE DEF buckets, name
  <1>9. CompoundType(d) /\ Buckets(d) = 1 .. n
    <2>1. index.entryCount \in Int
      BY <1>3 DEF TableInv, TableType
    <2> QED BY <1>1, <1>8, <2>1 DEF TablesInv, CompoundType, Buckets
  <1> DEFINE from == [j \in 1 .. n |-> CHOOSE k \in Buckets(c) : c.buckets[k].name = slot(j).name]
  <1>10. ASSUME NEW j \in 1 .. n
         PROVE  /\ from[j] \in Buckets(c) /\ c.buckets[from[j]].name = slot(j).name
                /\ c.buckets[from[j]].start = slot(j).start
    <2>1. PICK k \in Buckets(c) : slot(j).name = c.buckets[k].name /\ slot(j).start = c.buckets[k].start
      BY <1>6 DEF TablesInv, IndexInv
    <2>2. from[j] \in Buckets(c) /\ c.buckets[from[j]].name = slot(j).name
      BY <2>1
    <2> HIDE DEF from, slot
    <2>3. from[j] = k
      BY <2>1, <2>2 DEF TablesInv, IndexInv
    <2> QED BY <2>1, <2>2, <2>3
  <1> HIDE DEF from
  <1>11. ASSUME NEW j \in 1 .. n
         PROVE  /\ d.buckets[j].name = slot(j).name /\ d.buckets[j].start = slot(j).start
                /\ TableInv(Leaf(d, j)) /\ Alive(Leaf(d, j)) = Alive(Leaf(c, from[j]))
                /\ Leaf(d, j).slots = Leaf(c, from[j]).slots
    <2> DEFINE k == from[j]
    <2> DEFINE f == Leaf(c, k)
    <2> DEFINE g == Opened(f.slots, f.count)
    <2>1. k \in Buckets(c) /\ c.buckets[k].start = slot(j).start
      BY <1>10
    <2>2. TableInv(f)
      BY <2>1 DEF TablesInv, LeavesInv
    <2>3. TableInv(g) /\ Alive(g) = Alive(f) /\ g.slots = f.slots /\ g.count = f.count
      <3> HIDE DEF f
      <3> QED BY <2>2, OpeningKeeps
    <2>4. f.slots = c.tables[slot(j).start].slots /\ f.count = c.tables[slot(j).start].count
      <3> HIDE DEF slot, k
      <3> QED BY <2>1, LeafSays
    <2>5. d.buckets[j] = ObjectOf(g, slot(j).name, slot(j).start)
      <3>1. g = Opened(c.tables[slot(j).start].slots, c.tables[slot(j).start].count)
        <4> HIDE DEF f, slot
        <4> QED BY <2>4
      <3>2. d.buckets[j] = OpenedBucket(c.tables, slot(j).name, slot(j).start)
        <4> HIDE DEF slot
        <4> QED BY <1>1, <1>7
      <3> HIDE DEF g, slot
      <3> QED BY <3>1, <3>2 DEF OpenedBucket
    <2> HIDE DEF f, g, k, slot
    <2>6. /\ d.buckets[j].name = slot(j).name /\ d.buckets[j].start = slot(j).start
          /\ d.buckets[j].entryCount = g.entryCount /\ d.buckets[j].deadEntryCount = g.deadEntryCount
          /\ d.buckets[j].checkForEarlyMetaData = g.checkForEarlyMetaData
          /\ d.buckets[j].infos = g.infos
      BY <2>5 DEF ObjectOf
    <2>7. \A x \in Fields : Leaf(d, j)[x] = g[x]
      BY <1>1, <2>3, <2>4, <2>6, LeafSays DEF Fields
    <2>8. TableInv(Leaf(d, j)) /\ Alive(Leaf(d, j)) = Alive(g) /\ Leaf(d, j).slots = g.slots
      BY <2>3, <2>7, LeafSays, AsGood
    <2> QED BY <2>3, <2>6, <2>8 DEF f, k
  <1>12. ASSUME NEW k \in Buckets(c) PROVE \E j \in 1 .. n : from[j] = k
    <2>1. PICK i \in Alive(c.index) : c.index.slots[i].name = c.buckets[k].name
      BY DEF TablesInv, IndexInv
    <2>2. PICK j \in 1 .. n : used[j] = i
      BY <1>3, <1>5, <2>1
    <2>3. from[j] \in Buckets(c) /\ c.buckets[from[j]].name = c.buckets[k].name
      BY <1>10, <2>1, <2>2
    <2>4. from[j] = k
      BY <2>3 DEF TablesInv, IndexInv
    <2> QED BY <2>4
  <1>13. ASSUME NEW j \in 1 .. n, NEW k \in 1 .. n, from[j] = from[k] PROVE j = k
    <2>1. slot(j).name = slot(k).name
      BY <1>10, <1>13
    <2>2. used[j] = used[k]
      BY <1>2, <1>6, <2>1, IndexOfAlive
    <2> QED BY <1>5, <2>2
  <1>14. ASSUME NEW i \in Alive(d.index)
         PROVE  /\ i \in Alive(c.index) /\ d.index.slots[i] = c.index.slots[i]
                /\ \E j \in Buckets(d) : d.index.slots[i].name = d.buckets[j].name
    <2>1. PICK j \in 1 .. n : used[j] = i
      BY <1>1, <1>5
    <2> QED BY <1>1, <1>3, <1>9, <1>11, <2>1
  <1>15. TablesInv(d) /\ AliveSlots(d) = AliveSlots(c)
    <2> HIDE DEF slot
    <2>1. \A j \in Buckets(d) : /\ TableInv(Leaf(d, j))
                                /\ Alive(Leaf(d, j)) = Alive(Leaf(c, from[j]))
                                /\ Leaf(d, j).slots = Leaf(c, from[j]).slots
      BY <1>9, <1>11
    <2>2. /\ \A m \in Buckets(c) : Alive(Leaf(c, m)) = {} \/ \E j \in Buckets(d) : from[j] = m
          /\ \A j \in Buckets(d) : from[j] \in Buckets(c)
          /\ \A i, j \in Buckets(d) : from[i] = from[j] => i = j
      BY <1>9, <1>10, <1>12, <1>13
    <2>3. \A j \in Buckets(d) : /\ d.buckets[j].name = c.buckets[from[j]].name
                                /\ d.buckets[j].start = c.buckets[from[j]].start
      BY <1>9, <1>10, <1>11
    <2>4. TableInv(d.index) /\ CompoundType(d)
      BY <1>1, <1>3, <1>9
    <2>5. \A i \in Alive(c.index) \ Alive(d.index) : \A j \in Buckets(d) :
              c.index.slots[i].name # d.buckets[j].name
      <3>1. Alive(c.index) \ Alive(d.index) = {}
        BY <1>1, <1>3
      <3> QED BY <3>1
    <2>6. \A i \in Alive(d.index) : /\ i \in Alive(c.index) /\ d.index.slots[i] = c.index.slots[i]
                                     /\ \E j \in Buckets(d) : d.index.slots[i].name = d.buckets[j].name
      BY <1>14
    <2> QED BY <2>1, <2>2, <2>3, <2>4, <2>5, <2>6, BucketsMoved
  <1>16. OwnInv(d, infos)
    <2>1. {d.buckets[j].start : j \in Buckets(d)} = {c.buckets[k].start : k \in Buckets(c)}
      <3> HIDE DEF slot
      <3>1. \A j \in Buckets(d) : from[j] \in Buckets(c) /\ d.buckets[j].start = c.buckets[from[j]].start
        BY <1>9, <1>10, <1>11
      <3>2. \A k \in Buckets(c) : \E j \in Buckets(d) : from[j] = k
        BY <1>9, <1>12
      <3> QED BY <3>1, <3>2
    <2> QED BY <1>1, <1>15, <2>1 DEF OwnInv
  <1>17. CacheInv(d)
    BY <1>1 DEF CacheInv
  <1> QED BY <1>15, <1>16, <1>17

-----------------------------------------------------------------------------
(* The blocks and the cache are no part of what TablesInv says. *)
LEMMA TablesApart ==
    ASSUME NEW c, TablesInv(c), NEW d, CompoundFields \subseteq DOMAIN d,
           d.index = c.index, d.tables = c.tables, d.buckets = c.buckets,
           d.contentFolderCount = c.contentFolderCount, d.cacheShouldBeUpdated \in BOOLEAN
    PROVE  /\ TablesInv(d) /\ AliveSlots(d) = AliveSlots(c)
           /\ Buckets(d) = Buckets(c) /\ \A k : Leaf(d, k) = Leaf(c, k)
  <1>1. Buckets(d) = Buckets(c) /\ \A k : Leaf(d, k) = Leaf(c, k)
    BY DEF Buckets, Leaf
  <1>2. AliveSlots(d) = AliveSlots(c)
    BY <1>1 DEF AliveSlots
  <1>3. CompoundType(d)
    BY DEF TablesInv, CompoundType
  <1>4. IndexInv(d) /\ LeavesInv(d) /\ SpotInv(d)
    BY <1>1 DEF TablesInv, IndexInv, LeavesInv, SpotInv
  <1> QED BY <1>1, <1>2, <1>3, <1>4 DEF TablesInv

(* A table that reports no entries has none. *)
LEMMA NothingLeft ==
    ASSUME NEW f, TableInv(f)
    PROVE  /\ getAliveEntryCount(f) >= Cardinality(Alive(f))
           /\ getAliveEntryCount(f) = 0 => Alive(f) = {}
  <1>1. /\ IsFiniteSet(Seen(f)) /\ IsFiniteSet(Alive(f)) /\ IsFiniteSet(Dead(f))
        /\ Seen(f) = 1 .. Len(f.slots) /\ Len(f.slots) \in Nat
    BY SlotSets DEF TableInv
  <1>2. Cardinality(Seen(f)) = f.entryCount /\ f.entryCount \in Nat
    BY <1>1, FS_Interval DEF TableInv, TableType
  <1>3. Dead(f) = Seen(f) \ Alive(f) /\ Seen(f) \intersect Alive(f) = Alive(f)
    BY DEF Dead, Alive
  <1>4. Cardinality(Dead(f)) = Cardinality(Seen(f)) - Cardinality(Alive(f))
    BY <1>1, <1>3, FS_Difference
  <1>5. Cardinality(Dead(f)) \in Nat /\ Cardinality(Alive(f)) \in Nat
    BY <1>1, FS_CardinalityType
  <1>6. f.deadEntryCount \in Int /\ f.deadEntryCount <= Cardinality(Dead(f))
    BY DEF TableInv, TableType, DeadCounted
  <1>7. getAliveEntryCount(f) >= Cardinality(Alive(f))
    BY <1>2, <1>4, <1>5, <1>6 DEF getAliveEntryCount
  <1>8. Cardinality(Alive(f)) = 0 => Alive(f) = {}
    BY <1>1, FS_EmptySet
  <1> QED BY <1>5, <1>7, <1>8

-----------------------------------------------------------------------------
(* An entry is written into the bucket there is for it, and its block is   *)
(* accounted for: by the folder now, and no longer elsewhere.              *)
Entering(c, infos, k, name, type, start, rest, v, d) ==
    /\ TablesInv(c) /\ OwnInv(c, infos) /\ CacheInv(c) /\ k \in Buckets(c)
    /\ name \in Name /\ type \in EntryType /\ start \in Block \ TableBlock
    /\ name \notin AliveNames(c) /\ \A slot \in AliveSlots(c) : slot.start # start
    /\ rest \subseteq infos /\ \A info \in infos : info \in rest <=> info.start # start
    /\ v = Written(c, k, name, type, start)
    /\ CompoundFields \subseteq DOMAIN d
    /\ d.index = v.index /\ d.tables = v.tables /\ d.buckets = v.buckets
    /\ d.contentFolderCount = v.contentFolderCount /\ d.cache = v.cache
    /\ d.cacheShouldBeUpdated \in BOOLEAN /\ d.cacheShouldBeUpdated
    /\ d.owned = c.owned \union {start}

(* The folder is good with the entry in it. *)
LEMMA EntryEnters ==
    ASSUME NEW c, NEW infos, NEW k, NEW name, NEW type, NEW start, NEW rest, NEW v, NEW d,
           Entering(c, infos, k, name, type, start, rest, v, d)
    PROVE  Good(d, rest) /\ AliveSlots(d) = AliveSlots(c) \union {NewSlot(name, type, start)}
  <1>0. /\ TablesInv(c) /\ OwnInv(c, infos) /\ CacheInv(c) /\ k \in Buckets(c)
        /\ name \in Name /\ type \in EntryType /\ start \in Block \ TableBlock
        /\ name \notin AliveNames(c) /\ (\A slot \in AliveSlots(c) : slot.start # start)
        /\ rest \subseteq infos /\ (\A info \in infos : info \in rest <=> info.start # start)
        /\ v = Written(c, k, name, type, start)
        /\ CompoundFields \subseteq DOMAIN d
        /\ d.index = v.index /\ d.tables = v.tables /\ d.buckets = v.buckets
        /\ d.contentFolderCount = v.contentFolderCount /\ d.cache = v.cache
        /\ d.cacheShouldBeUpdated \in BOOLEAN /\ d.cacheShouldBeUpdated
        /\ d.owned = c.owned \union {start}
    BY DEF Entering
  <1> DEFINE new == NewSlot(name, type, start)
  <1>1. \A slot \in AliveSlots(c) : slot.name # name /\ slot.start # start
    BY <1>0, SlotIsIn
  <1>2. /\ TablesInv(v) /\ AliveSlots(v) = AliveSlots(c) \union {new}
        /\ v.cache = c.cache
        /\ v.owned = c.owned /\ Buckets(v) = Buckets(c)
        /\ \A j \in Buckets(c) : v.buckets[j].start = c.buckets[j].start
    BY <1>0, <1>1, SlotWritten
  <1>3. TablesInv(d) /\ AliveSlots(d) = AliveSlots(v) /\ Buckets(d) = Buckets(v)
    BY <1>0, <1>2, TablesApart
  <1>4. new.start = start
    BY DEF NewSlot
  <1> HIDE DEF new
  <1>5. {d.buckets[j].start : j \in Buckets(d)} = {c.buckets[j].start : j \in Buckets(c)}
    BY <1>0, <1>2, <1>3
  <1>6. OwnInv(d, rest)
    <2>1. rest \subseteq Info /\ \A info \in rest : info.start \in Block \ TableBlock
      BY <1>0 DEF OwnInv
    <2>2. \A info, other \in rest : info.start = other.start => info = other
      BY <1>0 DEF OwnInv
    <2>3. \A slot \in AliveSlots(d), info \in rest : slot.start # info.start
      BY <1>0, <1>2, <1>3, <1>4 DEF OwnInv
    <2>4. d.owned = {slot.start : slot \in AliveSlots(d)} \union {info.start : info \in rest}
                        \union {d.buckets[j].start : j \in Buckets(d)}
      <3>1. {slot.start : slot \in AliveSlots(d)} = {slot.start : slot \in AliveSlots(c)} \union {start}
        BY <1>2, <1>3, <1>4
      <3>2. {info.start : info \in infos} \union {start} = {info.start : info \in rest} \union {start}
        BY <1>0
      <3>3. c.owned = {slot.start : slot \in AliveSlots(c)} \union {info.start : info \in infos}
                          \union {c.buckets[j].start : j \in Buckets(c)}
        BY <1>0 DEF OwnInv
      <3> QED BY <1>0, <1>5, <3>1, <3>2, <3>3
    <2> QED BY <2>1, <2>2, <2>3, <2>4 DEF OwnInv
  <1>7. CacheInv(d)
    BY <1>0, <1>2, <1>3 DEF CacheInv
  <1> QED BY <1>2, <1>3, <1>6, <1>7 DEF Good, new

(* The slot of a name, found by the bucket that has it. *)
LEMMA SlotOfName ==
    ASSUME NEW c, NEW n, n \in AliveNames(c)
    PROVE  \E k \in Buckets(c) : \E i \in Alive(Leaf(c, k)) : Leaf(c, k).slots[i].name = n
  BY DEF AliveNames

(* An entry leaves: its slot is dead, it is no longer cached, and its      *)
(* block is free or accounted for elsewhere.                               *)
Leaving(c, infos, k, i, slot, name, g, v, d, after) ==
    /\ TablesInv(c) /\ OwnInv(c, infos) /\ CacheInv(c) /\ k \in Buckets(c)
    /\ i \in Alive(Leaf(c, k)) /\ slot = Leaf(c, k).slots[i] /\ name = slot.name
    /\ TableInv(g) /\ Alive(g) = Alive(Leaf(c, k)) \ {i}
    /\ \A j \in Alive(g) : g.slots[j] = Leaf(c, k).slots[j]
    /\ v = WithLeaf(c, k, g)
    /\ CompoundFields \subseteq DOMAIN d
    /\ d.index = v.index /\ d.tables = v.tables /\ d.buckets = v.buckets
    /\ d.contentFolderCount = v.contentFolderCount
    /\ DOMAIN d.cache = DOMAIN c.cache \ {name}
    /\ \A m \in DOMAIN d.cache : d.cache[m] = c.cache[m]
    /\ d.cacheShouldBeUpdated = c.cacheShouldBeUpdated
    /\ \/ d.owned = c.owned \ {slot.start} /\ after = infos
       \/ d.owned = c.owned /\ after = infos \union {InfoOf(slot)}

(* The folder is good without the entry. *)
LEMMA EntryLeaves ==
    ASSUME NEW c, NEW infos, NEW k, NEW i, NEW slot, NEW name, NEW g, NEW v, NEW d, NEW after,
           Leaving(c, infos, k, i, slot, name, g, v, d, after)
    PROVE  /\ Good(d, after) /\ AliveSlots(d) = AliveSlots(c) \ {slot}
           /\ k \in Buckets(d) /\ TableInv(Leaf(d, k))
  <1>0. /\ TablesInv(c) /\ OwnInv(c, infos) /\ CacheInv(c) /\ k \in Buckets(c)
        /\ i \in Alive(Leaf(c, k)) /\ slot = Leaf(c, k).slots[i] /\ name = slot.name
        /\ TableInv(g) /\ Alive(g) = Alive(Leaf(c, k)) \ {i}
        /\ (\A j \in Alive(g) : g.slots[j] = Leaf(c, k).slots[j])
        /\ v = WithLeaf(c, k, g)
        /\ CompoundFields \subseteq DOMAIN d
        /\ d.index = v.index /\ d.tables = v.tables /\ d.buckets = v.buckets
        /\ d.contentFolderCount = v.contentFolderCount
        /\ DOMAIN d.cache = DOMAIN c.cache \ {name}
        /\ (\A m \in DOMAIN d.cache : d.cache[m] = c.cache[m])
        /\ d.cacheShouldBeUpdated = c.cacheShouldBeUpdated
    BY DEF Leaving
  <1>1. TablesInv(v) /\ AliveSlots(v) = AliveSlots(c) \ {slot}
    BY <1>0, SlotLeft
  <1>2. Buckets(v) = Buckets(c) /\ \A j \in Buckets(c) : v.buckets[j].start = c.buckets[j].start
    BY <1>0, LeafReplaced
  <1>3. TablesInv(d) /\ AliveSlots(d) = AliveSlots(v) /\ Buckets(d) = Buckets(v)
    <2>1. d.cacheShouldBeUpdated \in BOOLEAN
      BY <1>0 DEF TablesInv, CompoundType
    <2> QED BY <1>0, <1>1, <2>1, TablesApart
  <1>4. TableInv(Leaf(d, k)) /\ k \in Buckets(d)
    BY <1>0, <1>2, <1>3 DEF TablesInv, LeavesInv
  <1>5. /\ slot \in AliveSlots(c) /\ slot.start \in Block \ TableBlock
        /\ InfoOf(slot) \in Info /\ InfoOf(slot).start = slot.start
    BY <1>0, SlotIsIn, SlotIsTyped
  <1>6. \A other \in AliveSlots(c) : other.name = name \/ other.start = slot.start => other = slot
    BY <1>0, <1>5, SlotsDiffer
  <1>7. {d.buckets[j].start : j \in Buckets(d)} = {c.buckets[j].start : j \in Buckets(c)}
    BY <1>0, <1>2, <1>3
  <1>8. {other.start : other \in AliveSlots(c)} = {other.start : other \in AliveSlots(d)} \union {slot.start}
    BY <1>0, <1>1, <1>3, <1>5
  <1>9. \A other \in AliveSlots(d) : other \in AliveSlots(c) /\ other.start # slot.start
    BY <1>0, <1>1, <1>3, <1>6
  <1>10. \A info \in infos : info.start # slot.start
    BY <1>0, <1>5 DEF OwnInv
  <1>11. c.owned = {other.start : other \in AliveSlots(c)} \union {info.start : info \in infos}
                       \union {c.buckets[j].start : j \in Buckets(c)}
    BY <1>0 DEF OwnInv
  <1>12. OwnInv(d, after)
    <2> DEFINE here == {other.start : other \in AliveSlots(d)}
    <2> DEFINE there == {info.start : info \in infos}
    <2> DEFINE tables == {c.buckets[j].start : j \in Buckets(c)}
    <2>1. CASE d.owned = c.owned \ {slot.start} /\ after = infos
      <3>1. \A j \in Buckets(c) : c.buckets[j].start # slot.start
        BY <1>0, <1>5 DEF TablesInv, LeavesInv
      <3>2. slot.start \notin here /\ slot.start \notin there /\ slot.start \notin tables
        BY <1>0, <1>9, <1>10, <3>1
      <3>3. c.owned = here \union {slot.start} \union there \union tables
        BY <1>0, <1>8, <1>11
      <3>4. d.owned = here \union there \union tables
        <4> HIDE DEF here, there, tables
        <4> QED BY <1>0, <2>1, <3>2, <3>3
      <3> QED BY <1>0, <1>7, <1>9, <2>1, <3>4 DEF OwnInv
    <2>2. CASE d.owned = c.owned /\ after = infos \union {InfoOf(slot)}
      <3>1. {info.start : info \in after} = there \union {slot.start}
        BY <1>0, <1>5, <2>2
      <3>2. d.owned = here \union {info.start : info \in after} \union tables
        BY <1>0, <1>8, <1>11, <2>2, <3>1
      <3>3. after \subseteq Info /\ \A info \in after : info.start \in Block \ TableBlock
        BY <1>0, <1>5, <2>2 DEF OwnInv
      <3>4. \A info, other \in after : info.start = other.start => info = other
        BY <1>0, <1>5, <1>10, <2>2 DEF OwnInv
      <3>5. \A other \in AliveSlots(d), info \in after : other.start # info.start
        BY <1>0, <1>5, <1>9, <2>2 DEF OwnInv
      <3> QED BY <1>0, <1>7, <3>2, <3>3, <3>4, <3>5 DEF OwnInv
    <2> QED BY <2>1, <2>2 DEF Leaving
  <1>14. CacheInv(d)
    <2>1. ASSUME NEW m \in DOMAIN d.cache
          PROVE  \E other \in AliveSlots(d) : other.name = m /\ Strip(d.cache[m]) = InfoOf(other)
      <3>1. PICK other \in AliveSlots(c) : other.name = m /\ Strip(c.cache[m]) = InfoOf(other)
        BY <1>0, <2>1 DEF CacheInv
      <3>2. m # name
        BY <1>0, <2>1
      <3>3. other \in AliveSlots(d)
        BY <1>0, <1>1, <1>3, <3>1, <3>2
      <3> QED BY <1>0, <2>1, <3>1, <3>3
    <2>2. ASSUME ~d.cacheShouldBeUpdated PROVE AliveNames(d) \subseteq DOMAIN d.cache
      <3>1. AliveNames(c) \subseteq DOMAIN c.cache
        BY <1>0, <2>2 DEF CacheInv
      <3>2. \A other \in AliveSlots(d) : other.name \in AliveNames(c) /\ other.name # name
        BY <1>0, <1>1, <1>3, <1>6, SlotIsIn
      <3> QED BY <1>0, <3>1, <3>2, SlotIsIn
    <2> QED BY <1>0, <2>1, <2>2 DEF CacheInv
  <1> QED BY <1>1, <1>3, <1>4, <1>12, <1>14 DEF Good

-----------------------------------------------------------------------------
(* None of the calls in Misuse is made. *)
NoMisuse == Misuse = {}

(* What a folder has cached stays right while its entries stay. *)
LEMMA CacheStays ==
    ASSUME NEW c, CacheInv(c), NEW d, AliveSlots(d) = AliveSlots(c), d.cache = c.cache,
           d.cacheShouldBeUpdated = c.cacheShouldBeUpdated
    PROVE  CacheInv(d) /\ AliveNames(d) = AliveNames(c)
  <1>1. AliveNames(d) = AliveNames(c)
    BY SlotIsIn
  <1> QED BY <1>1 DEF CacheInv

(* addFile and addFolder (CompoundFolder.cpp:91-148). *)
LEMMA AddEntryKeeps ==
    ASSUME NoMisuse, IInv, NEW name \in Name, NEW type \in EntryType, AddEntry(name, type)
    PROVE  /\ IInv' /\ name \notin AliveNames(compound)
           /\ \E start \in Block \ TableBlock :
                  AliveSlots(compound') = AliveSlots(compound) \union {NewSlot(name, type, start)}
  <1> DEFINE w == WithBucketFor(compound)
  <1> DEFINE k == BucketFor(compound, type = "file")
  <1> DEFINE part == Block \ TableBlock
  <1> DEFINE start == NextAvailableBlock(w, part)
  <1> DEFINE v == Written(w, k, name, type, start)
  <1>1. /\ name \notin AliveNames(compound) /\ HasBucketRoom(compound)
        /\ Block \ (TableBlock \union compound.owned) # {}
        /\ compound' = [v EXCEPT !.owned = v.owned \union {start}, !.cacheShouldBeUpdated = TRUE]
        /\ elsewhere' = elsewhere
    BY DEF AddEntry
  <1>2. /\ TablesInv(compound) /\ OwnInv(compound, elsewhere) /\ CacheInv(compound)
    BY DEF IInv, Good
  <1>3. /\ TablesInv(w) /\ OwnInv(w, elsewhere) /\ AliveSlots(w) = AliveSlots(compound)
        /\ w.cache = compound.cache /\ w.cacheShouldBeUpdated = compound.cacheShouldBeUpdated
        /\ k \in Buckets(w)
        /\ w.owned \ TableBlock = compound.owned \ TableBlock
    <2>1. (type = "file") \in BOOLEAN
      OBVIOUS
    <2> QED BY <1>1, <1>2, <2>1, BucketReady DEF NoMisuse
  <1> HIDE DEF w, k
  <1>4. CacheInv(w) /\ AliveNames(w) = AliveNames(compound)
    BY <1>2, <1>3, CacheStays
  <1>5. start \in part \ w.owned
    <2>1. part \ w.owned # {}
      BY <1>1, <1>3
    <2> QED BY <2>1, FreeBlock
  <1> HIDE DEF start
  <1>6. \A slot \in AliveSlots(w) : slot.name # name /\ slot.start # start
    <2>1. \A slot \in AliveSlots(w) : slot.start # start
      BY <1>3, <1>5 DEF OwnInv
    <2>2. \A slot \in AliveSlots(w) : slot.name # name
      BY <1>1, <1>4, SlotIsIn
    <2> QED BY <2>1, <2>2
  <1>7. TablesInv(v) /\ v.owned = w.owned /\ v.cache = w.cache
    <2> HIDE DEF v
    <2>1. v = Written(w, k, name, type, start) /\ start \in Block \ TableBlock
      BY <1>5 DEF v
    <2> QED BY <1>3, <1>6, <2>1, SlotWritten
  <1> HIDE DEF v
  <1>8. /\ CompoundFields \subseteq DOMAIN compound'
        /\ compound'.index = v.index /\ compound'.tables = v.tables /\ compound'.buckets = v.buckets
        /\ compound'.contentFolderCount = v.contentFolderCount /\ compound'.cache = v.cache
        /\ compound'.cacheShouldBeUpdated \in BOOLEAN /\ compound'.cacheShouldBeUpdated
        /\ compound'.owned = w.owned \union {start}
    BY <1>1, <1>7 DEF TablesInv, CompoundType, CompoundFields
  <1>9. \A info \in elsewhere : info \in elsewhere <=> info.start # start
    BY <1>3, <1>5 DEF OwnInv
  <1>10. Good(compound', elsewhere) /\ AliveSlots(compound') = AliveSlots(w) \union {NewSlot(name, type, start)}
    <2>1. v = Written(w, k, name, type, start) /\ start \in Block \ TableBlock
      BY <1>5 DEF v
    <2>2. elsewhere \in SUBSET elsewhere /\ name \notin AliveNames(w)
      BY <1>1, <1>4
    <2>3. \A slot \in AliveSlots(w) : slot.start # start
      BY <1>6
    <2>4. Entering(w, elsewhere, k, name, type, start, elsewhere, v, compound')
      BY <1>3, <1>4, <1>8, <1>9, <2>1, <2>2, <2>3 DEF Entering
    <2> QED BY <2>4, EntryEnters
  <1> QED BY <1>1, <1>3, <1>5, <1>10 DEF IInv, Good

(* The second half of a move into the folder (CompoundFolder.cpp:388-410). *)
LEMMA WriteNewMetaDataKeeps ==
    ASSUME NoMisuse, IInv, NEW name \in Name, writeNewMetaDataForEntry(name)
    PROVE  /\ IInv' /\ name \notin AliveNames(compound)
           /\ \E type \in EntryType, start \in Block \ TableBlock :
                  AliveSlots(compound') = AliveSlots(compound) \union {NewSlot(name, type, start)}
  <1> DEFINE w == WithBucketFor(compound)
  <1> DEFINE k == BucketFor(compound, TRUE)
  <1>1. /\ name \notin AliveNames(compound) /\ HasBucketRoom(compound)
        /\ compound.cacheShouldBeUpdated
    BY DEF writeNewMetaDataForEntry, NoMisuse
  <1>2. PICK info \in elsewhere : /\ compound' = Written(w, k, name, info.type, info.start)
                                  /\ elsewhere' = elsewhere \ {info}
    BY DEF writeNewMetaDataForEntry
  <1> DEFINE start == info.start
  <1> DEFINE type == info.type
  <1>3. /\ TablesInv(compound) /\ OwnInv(compound, elsewhere) /\ CacheInv(compound)
    BY DEF IInv, Good
  <1>4. /\ TablesInv(w) /\ OwnInv(w, elsewhere) /\ AliveSlots(w) = AliveSlots(compound)
        /\ w.cache = compound.cache /\ w.cacheShouldBeUpdated = compound.cacheShouldBeUpdated
        /\ k \in Buckets(w)
    BY <1>1, <1>3, BucketReady DEF NoMisuse
  <1> HIDE DEF w, k
  <1>5. CacheInv(w) /\ AliveNames(w) = AliveNames(compound)
    BY <1>3, <1>4, CacheStays
  <1>6. /\ start \in Block \ TableBlock /\ type \in EntryType /\ start \in w.owned
        /\ \A slot \in AliveSlots(w) : slot.start # start
        /\ \A other \in elsewhere : other.start = start => other = info
    BY <1>4 DEF OwnInv, Info
  <1> HIDE DEF start, type
  <1>7. compound' = Written(w, k, name, type, start)
    BY <1>2 DEF start, type
  <1>8. \A slot \in AliveSlots(w) : slot.name # name /\ slot.start # start
    BY <1>1, <1>5, <1>6, SlotIsIn
  <1>9. /\ TablesInv(compound') /\ compound'.owned = w.owned
        /\ compound'.cacheShouldBeUpdated = w.cacheShouldBeUpdated
    BY <1>4, <1>6, <1>7, <1>8, SlotWritten
  <1>10. /\ CompoundFields \subseteq DOMAIN compound' /\ compound'.owned = w.owned \union {start}
         /\ compound'.cacheShouldBeUpdated \in BOOLEAN /\ compound'.cacheShouldBeUpdated
    BY <1>1, <1>4, <1>6, <1>9 DEF TablesInv, CompoundType
  <1>11. /\ elsewhere' \in SUBSET elsewhere /\ name \notin AliveNames(w)
         /\ \A other \in elsewhere : other \in elsewhere' <=> other.start # start
    BY <1>1, <1>2, <1>5, <1>6 DEF start
  <1>12. Good(compound', elsewhere') /\ AliveSlots(compound') = AliveSlots(w) \union {NewSlot(name, type, start)}
    <2>1. Entering(w, elsewhere, k, name, type, start, elsewhere', compound', compound')
      BY <1>4, <1>5, <1>6, <1>7, <1>10, <1>11 DEF Entering
    <2> QED BY <2>1, EntryEnters
  <1> QED BY <1>1, <1>4, <1>6, <1>12 DEF IInv, Good

(* removeFile and removeFolder (CompoundFolder.cpp:320-360).               *)
LEMMA RemoveEntryKeeps ==
    ASSUME NoMisuse, IInv, NEW name \in Name, NEW type \in EntryType, RemoveEntry(name, type)
    PROVE  /\ IInv'
           /\ \E slot \in AliveSlots(compound) : AliveSlots(compound') = AliveSlots(compound) \ {slot}
  <1> DEFINE c == compound
  <1> DEFINE hits == HaveOfType(c, name, type)
  <1> DEFINE k == Earliest(hits)
  <1> DEFINE buried == EntryBuried(c, k, name)
  <1>1. /\ hits # {} /\ elsewhere' = elsewhere
        /\ IF getAliveEntryCount(Leaf(buried, k)) = 0
           THEN \E unlinked \in SUBSET LeftIn(buried, k) : c' = BucketErased(buried, k, unlinked)
           ELSE c' = buried
    BY DEF RemoveEntry
  <1>2. TablesInv(c) /\ OwnInv(c, elsewhere) /\ CacheInv(c)
    BY DEF IInv, Good
  <1>3. name \in AliveNames(c)
    BY <1>1, <1>2, NoneHas
  <1>4. PICK m \in Buckets(c) : \E i \in Alive(Leaf(c, m)) : Leaf(c, m).slots[i].name = name
    BY <1>3, SlotOfName
  <1>5. PICK i \in Alive(Leaf(c, m)) : Leaf(c, m).slots[i].name = name
    BY <1>4
  <1> DEFINE slot == Leaf(c, m).slots[i]
  <1>6. /\ HaveOfType(c, name, type) = IF slot.type = type THEN {m} ELSE {}
        /\ doGetNamedEntryInfo(Leaf(c, m), name) = InfoOf(slot)
    <2>1. slot = Leaf(c, m).slots[i] /\ name = slot.name
      BY <1>5
    <2> HIDE DEF slot, c
    <2>2. /\ doGetNamedEntryInfo(Leaf(c, m), name) = InfoOf(slot)
          /\ \A t \in EntryType : HaveOfType(c, name, t) = IF slot.type = t THEN {m} ELSE {}
      BY <1>2, <1>4, <1>5, <2>1, OneHas
    <2> QED BY <2>2
  <1>7. k = m /\ Earliest({m}) = m
    <2>1. Earliest({m}) = m
      BY <1>2, OnlyNumber
    <2>2. hits = {m}
      BY <1>1, <1>6
    <2> QED BY <2>1, <2>2
  <1>8. slot \in AliveSlots(c) /\ InfoOf(slot).start = slot.start
    BY <1>2, SlotIsIn, SlotIsTyped
  <1> DEFINE f == Leaf(c, m)
  <1> DEFINE g == Buried(f, name)
  <1> DEFINE v == WithLeaf(c, m, g)
  <1> DEFINE w == doRemoveEntryFromCache(v, name)
  <1>9. /\ TableInv(g) /\ Alive(g) = Alive(f) \ {i}
        /\ \A j \in Alive(g) : g.slots[j] = f.slots[j]
    <2>1. TableInv(f) /\ i \in Alive(f) /\ name = f.slots[i].name
      BY <1>2, <1>5 DEF TablesInv, LeavesInv
    <2> HIDE DEF f
    <2> QED BY <2>1, EntryIsBuried
  <1>10. buried = [w EXCEPT !.owned = w.owned \ {slot.start}]
    <2>1. buried = [w EXCEPT !.owned = @ \ {doGetNamedEntryInfo(Leaf(c, m), name).start}]
      BY <1>7 DEF EntryBuried
    <2> HIDE DEF w, slot, buried
    <2> QED BY <1>6, <1>8, <2>1
  <1> HIDE DEF g, buried
  <1>11. /\ CompoundType(v) /\ v.cache = c.cache /\ v.owned = c.owned
         /\ v.cacheShouldBeUpdated = c.cacheShouldBeUpdated
    BY <1>2, <1>9, LeafReplaced
  <1> HIDE DEF v
  <1>12. /\ SameButCache(v, w) /\ w.cacheShouldBeUpdated = v.cacheShouldBeUpdated
         /\ DOMAIN w.cache = DOMAIN v.cache \ {name}
         /\ \A n \in DOMAIN w.cache : w.cache[n] = v.cache[n]
    BY <1>11, Forgotten DEF CompoundType
  <1> HIDE DEF w
  <1>13. /\ CompoundFields \subseteq DOMAIN buried
         /\ buried.index = v.index /\ buried.tables = v.tables /\ buried.buckets = v.buckets
         /\ buried.contentFolderCount = v.contentFolderCount
         /\ buried.cache = w.cache
         /\ buried.cacheShouldBeUpdated = c.cacheShouldBeUpdated
         /\ buried.owned = c.owned \ {slot.start}
    <2> HIDE DEF slot
    <2> QED BY <1>10, <1>11, <1>12 DEF SameButCache, CompoundFields
  <1>14. Leaving(c, elsewhere, m, i, slot, name, g, v, buried, elsewhere)
    BY <1>2, <1>5, <1>9, <1>11, <1>12, <1>13 DEF Leaving, v
  <1>15. /\ Good(buried, elsewhere) /\ AliveSlots(buried) = AliveSlots(c) \ {slot}
         /\ m \in Buckets(buried) /\ TableInv(Leaf(buried, m))
    BY <1>14, EntryLeaves
  <1>16. Good(c', elsewhere) /\ AliveSlots(c') = AliveSlots(buried)
    <2> HIDE DEF c, k
    <2>1. CASE getAliveEntryCount(Leaf(buried, m)) = 0
      <3>1. PICK unlinked \in SUBSET LeftIn(buried, m) : c' = BucketErased(buried, m, unlinked)
        BY <1>1, <1>7, <2>1
      <3>2. Alive(Leaf(buried, m)) = {}
        BY <1>15, <2>1, NothingLeft
      <3>3. /\ TablesInv(c') /\ OwnInv(c', elsewhere) /\ AliveSlots(c') = AliveSlots(buried)
            /\ c'.cache = buried.cache /\ c'.cacheShouldBeUpdated = buried.cacheShouldBeUpdated
        BY <1>15, <3>1, <3>2, BucketGone DEF Good
      <3>4. CacheInv(c')
        BY <1>15, <3>3, CacheStays DEF Good
      <3> QED BY <3>3, <3>4 DEF Good
    <2>2. CASE getAliveEntryCount(Leaf(buried, m)) # 0
      <3>1. c' = buried
        BY <1>1, <1>7, <2>2
      <3> QED BY <1>15, <3>1
    <2> QED BY <2>1, <2>2
  <1> QED BY <1>1, <1>8, <1>15, <1>16 DEF IInv, Good

(* The bucket a rename or a move takes the entry from, when no dead slot   *)
(* of its name is before it.                                               *)
LEMMA FoundWhereItIs ==
    ASSUME NEW c, TablesInv(c), NEW name, name \in AliveNames(c), ~Shadowed(c, name),
           NEW k, k = FirstNamed(c, name)
    PROVE  /\ k \in Buckets(c)
           /\ \E i \in Alive(Leaf(c, k)) : Leaf(c, k).slots[i].name = name
  <1> DEFINE S == {j \in Buckets(c) : doGetMetaDataIndexForEntry(Leaf(c, j), name) # 0}
  <1>1. ASSUME NEW j \in Buckets(c)
        PROVE  /\ Named(Leaf(c, j), name) # {} =>
                      doGetMetaDataIndexForEntry(Leaf(c, j), name) \in Named(Leaf(c, j), name)
               /\ 0 \notin Named(Leaf(c, j), name)
    <2>1. TableInv(Leaf(c, j))
      BY DEF TablesInv, LeavesInv
    <2>2. Named(Leaf(c, j), name) \subseteq 1 .. Len(Leaf(c, j).slots) /\ Len(Leaf(c, j).slots) \in Nat
      BY <2>1, SlotSets DEF TableInv, Named
    <2>3. Named(Leaf(c, j), name) \subseteq Nat /\ 0 \notin Named(Leaf(c, j), name)
      BY <2>2
    <2> QED BY <2>3, EarliestExists DEF doGetMetaDataIndexForEntry
  <1>2. S # {}
    <2>1. PICK j \in Buckets(c) : \E i \in Alive(Leaf(c, j)) : Leaf(c, j).slots[i].name = name
      BY SlotOfName
    <2>2. Named(Leaf(c, j), name) # {}
      BY <2>1 DEF Named, Alive
    <2>3. doGetMetaDataIndexForEntry(Leaf(c, j), name) # 0
      BY <1>1, <2>2
    <2> QED BY <2>3
  <1>3. S \subseteq Nat
    BY BucketNumbers DEF TablesInv
  <1>4. k \in S
    <2>1. Earliest(S) \in S
      <3> HIDE DEF S
      <3> QED BY <1>2, <1>3, EarliestExists
    <2>2. k = Earliest(S)
      BY DEF FirstNamed
    <2> HIDE DEF S
    <2> QED BY <2>1, <2>2
  <1> DEFINE at == doGetMetaDataIndexForEntry(Leaf(c, k), name)
  <1>5. k \in Buckets(c) /\ at # 0
    BY <1>4
  <1>6. at \in Named(Leaf(c, k), name)
    BY <1>1, <1>5 DEF doGetMetaDataIndexForEntry
  <1>7. Leaf(c, k).slots[at].inUse
    BY DEF Shadowed
  <1>8. at \in Alive(Leaf(c, k)) /\ Leaf(c, k).slots[at].name = name
    BY <1>6, <1>7 DEF Named, Alive
  <1> QED BY <1>5, <1>8

(* What the cache may change first: nothing else does. *)
LEMMA AfterGetSame ==
    ASSUME NEW c, NEW infos, Good(c, infos), NEW n, NEW d, d = AfterGetEntryInfo(c, n)
    PROVE  /\ Good(d, infos) /\ AliveSlots(d) = AliveSlots(c) /\ AliveNames(d) = AliveNames(c)
           /\ d.cacheShouldBeUpdated = c.cacheShouldBeUpdated /\ d.owned = c.owned
  <1>1. SameButCache(c, d) /\ d.cacheShouldBeUpdated = c.cacheShouldBeUpdated /\ CacheInv(d)
    BY AfterGetKeeps DEF Good
  <1>2. TablesInv(d) /\ OwnInv(d, infos) /\ AliveSlots(d) = AliveSlots(c) /\ AliveNames(d) = AliveNames(c)
    BY <1>1, CacheApart DEF Good
  <1> QED BY <1>1, <1>2 DEF Good, SameButCache

(* The first half of a move out of the folder (CompoundFolder.cpp:362-372). *)
LEMMA PutOutOfUseKeeps ==
    ASSUME NoMisuse, IInv, NEW name \in Name, putMetaDataOutOfUse(name)
    PROVE  /\ IInv'
           /\ \E slot \in AliveSlots(compound) : AliveSlots(compound') = AliveSlots(compound) \ {slot}
  <1> DEFINE c == AfterGetEntryInfo(compound, name)
  <1> DEFINE k == FirstNamed(c, name)
  <1> DEFINE f == Leaf(c, k)
  <1> DEFINE g == doPutMetaDataOutOfUse(f, name)
  <1> DEFINE v == WithLeaf(c, k, g)
  <1>1. /\ name \in AliveNames(c) /\ ~Shadowed(c, name)
        /\ compound' = doRemoveEntryFromCache(v, name)
        /\ elsewhere' = elsewhere \union {EntryInfo(compound, name)}
    BY DEF putMetaDataOutOfUse, NoMisuse
  <1>2. /\ Good(c, elsewhere) /\ AliveSlots(c) = AliveSlots(compound)
        /\ AliveNames(c) = AliveNames(compound)
    BY AfterGetSame DEF IInv
  <1>3. TablesInv(compound) /\ CacheInv(compound)
    BY DEF IInv, Good
  <1> HIDE DEF c
  <1>4. k \in Buckets(c) /\ \E i \in Alive(f) : f.slots[i].name = name
    BY <1>1, <1>2, FoundWhereItIs DEF Good
  <1> HIDE DEF k
  <1>5. PICK i \in Alive(f) : f.slots[i].name = name
    BY <1>4
  <1> DEFINE slot == f.slots[i]
  <1>6. slot \in AliveSlots(c)
    BY <1>4, SlotIsIn
  <1>7. /\ TableInv(g) /\ Alive(g) = Alive(f) \ {i}
        /\ \A j \in Alive(g) : g.slots[j] = f.slots[j]
    <2>1. TableInv(f) /\ i \in Alive(f) /\ name = f.slots[i].name
      BY <1>2, <1>4, <1>5 DEF Good, TablesInv, LeavesInv
    <2> HIDE DEF f
    <2> QED BY <2>1, PutOutOfUse
  <1> HIDE DEF g
  <1>8. /\ CompoundType(v) /\ v.cache = c.cache /\ v.owned = c.owned
        /\ v.cacheShouldBeUpdated = c.cacheShouldBeUpdated
    BY <1>2, <1>4, <1>7, LeafReplaced DEF Good
  <1> HIDE DEF v
  <1>9. /\ SameButCache(v, compound') /\ compound'.cacheShouldBeUpdated = v.cacheShouldBeUpdated
        /\ DOMAIN compound'.cache = DOMAIN v.cache \ {name}
        /\ \A n \in DOMAIN compound'.cache : compound'.cache[n] = v.cache[n]
    BY <1>1, <1>8, Forgotten DEF CompoundType
  <1>10. EntryInfo(compound, name) = InfoOf(slot)
    <2>1. slot \in AliveSlots(compound) /\ slot.name = name
      BY <1>2, <1>5, <1>6
    <2> HIDE DEF slot
    <2> QED BY <1>3, <2>1, EntryInfoRight
  <1>11. Leaving(c, elsewhere, k, i, slot, name, g, v, compound', elsewhere')
    BY <1>1, <1>2, <1>4, <1>5, <1>7, <1>8, <1>9, <1>10 DEF Leaving, Good, SameButCache, v
  <1>12. Good(compound', elsewhere') /\ AliveSlots(compound') = AliveSlots(c) \ {slot}
    BY <1>11, EntryLeaves
  <1> QED BY <1>2, <1>6, <1>12 DEF IInv, Good

(* A rename within the folder (CompoundFolder.cpp:374-386). *)
LEMMA RenameKeeps ==
    ASSUME NoMisuse, IInv, NEW srcName \in Name, NEW dstName \in Name, Rename(srcName, dstName)
    PROVE  /\ IInv' /\ dstName \notin AliveNames(compound)
           /\ \E slot \in AliveSlots(compound), new \in AliveSlots(compound') :
                 /\ AliveSlots(compound') = (AliveSlots(compound) \ {slot}) \union {new}
                 /\ slot.name = srcName /\ new.name = dstName /\ InfoOf(new) = InfoOf(slot)
  <1> DEFINE c == AfterGetEntryInfo(compound, srcName)
  <1> DEFINE k == FirstNamed(c, srcName)
  <1> DEFINE f == Leaf(c, k)
  <1> DEFINE g == updateMetaDataWithNewFilename(f, srcName, dstName)
  <1> DEFINE v == WithLeaf(c, k, g)
  <1>1. /\ srcName \in AliveNames(c) /\ ~Shadowed(c, srcName)
        /\ dstName \notin AliveNames(c) /\ Named(f, dstName) = {}
        /\ compound.cacheShouldBeUpdated
        /\ compound' = doRemoveEntryFromCache(v, srcName)
        /\ elsewhere' = elsewhere
    BY DEF Rename, NoMisuse
  <1>2. /\ Good(c, elsewhere) /\ AliveSlots(c) = AliveSlots(compound)
        /\ AliveNames(c) = AliveNames(compound) /\ c.cacheShouldBeUpdated
    BY <1>1, AfterGetSame DEF IInv
  <1> HIDE DEF c
  <1>3. TablesInv(c) /\ OwnInv(c, elsewhere) /\ CacheInv(c)
    BY <1>2 DEF Good
  <1>4. k \in Buckets(c) /\ \E i \in Alive(f) : f.slots[i].name = srcName
    BY <1>1, <1>3, FoundWhereItIs
  <1> HIDE DEF k
  <1>5. PICK i \in Alive(f) : f.slots[i].name = srcName
    BY <1>4
  <1> DEFINE slot == f.slots[i]
  <1> DEFINE new == [slot EXCEPT !.name = dstName]
  <1>6. slot \in AliveSlots(c) /\ slot.name = srcName
    BY <1>4, <1>5, SlotIsIn
  <1>7. /\ TableInv(g) /\ Alive(g) = Alive(f) /\ g.slots[i] = new
        /\ \A j \in Alive(g) \ {i} : g.slots[j] = f.slots[j]
    <2>1. TableInv(f) /\ i \in Alive(f) /\ srcName = f.slots[i].name /\ dstName \in AnyName
      BY <1>3, <1>4, <1>5 DEF TablesInv, LeavesInv, AnyName
    <2> HIDE DEF f
    <2> QED BY <1>1, <2>1, EntryRenamed
  <1> HIDE DEF g, new
  <1>8. /\ CompoundType(v) /\ v.cache = c.cache /\ v.owned = c.owned
        /\ v.cacheShouldBeUpdated = c.cacheShouldBeUpdated
        /\ Buckets(v) = Buckets(c) /\ \A j \in Buckets(c) : v.buckets[j].start = c.buckets[j].start
    BY <1>3, <1>4, <1>7, LeafReplaced
  <1>9. /\ TablesInv(v) /\ AliveSlots(v) = (AliveSlots(c) \ {slot}) \union {new}
        /\ new.name = dstName /\ new.start = slot.start /\ InfoOf(new) = InfoOf(slot)
    <2>1. \A other \in AliveSlots(c) : other.name # dstName
      BY <1>1, SlotIsIn
    <2>2. new = [Leaf(c, k).slots[i] EXCEPT !.name = dstName]
      BY DEF new
    <2>3. v = WithLeaf(c, k, g)
      OBVIOUS
    <2>4. Renaming(c, k, i, dstName, new, g, v)
      BY <1>3, <1>4, <1>5, <1>7, <2>1, <2>2, <2>3 DEF Renaming
    <2> HIDE DEF v
    <2> QED BY <2>4, SlotRenamed
  <1> HIDE DEF v, slot
  <1>10. /\ SameButCache(v, compound') /\ compound'.cacheShouldBeUpdated = v.cacheShouldBeUpdated
         /\ DOMAIN compound'.cache = DOMAIN v.cache \ {srcName}
         /\ \A n \in DOMAIN compound'.cache : compound'.cache[n] = v.cache[n]
    BY <1>1, <1>8, Forgotten DEF CompoundType
  <1>11. OwnInv(v, elsewhere)
    <2>1. {other.start : other \in AliveSlots(v)} = {other.start : other \in AliveSlots(c)}
      BY <1>6, <1>9
    <2>2. {v.buckets[j].start : j \in Buckets(v)} = {c.buckets[j].start : j \in Buckets(c)}
      BY <1>8
    <2>3. \A other \in AliveSlots(v), info \in elsewhere : other.start # info.start
      BY <1>3, <1>6, <1>9 DEF OwnInv
    <2> QED BY <1>3, <1>8, <2>1, <2>2, <2>3 DEF OwnInv
  <1>12. TablesInv(compound') /\ OwnInv(compound', elsewhere) /\ AliveSlots(compound') = AliveSlots(v)
    BY <1>9, <1>10, <1>11, CacheApart
  <1>13. CacheInv(compound')
    <2>1. ASSUME NEW n \in DOMAIN compound'.cache
          PROVE  \E other \in AliveSlots(compound') : other.name = n /\ Strip(compound'.cache[n]) = InfoOf(other)
      <3>1. n \in DOMAIN c.cache /\ n # srcName /\ compound'.cache[n] = c.cache[n]
        BY <1>8, <1>10, <2>1
      <3>2. PICK other \in AliveSlots(c) : other.name = n /\ Strip(c.cache[n]) = InfoOf(other)
        BY <1>3, <3>1 DEF CacheInv
      <3>3. other \in AliveSlots(compound')
        BY <1>6, <1>9, <1>12, <3>1, <3>2
      <3> QED BY <3>1, <3>2, <3>3
    <2>2. compound'.cacheShouldBeUpdated
      BY <1>2, <1>8, <1>10
    <2> QED BY <2>1, <2>2 DEF CacheInv
  <1>14. new \in AliveSlots(compound') /\ slot \in AliveSlots(compound)
    BY <1>2, <1>6, <1>9, <1>12
  <1> QED BY <1>1, <1>2, <1>6, <1>9, <1>12, <1>13, <1>14 DEF IInv, Good

(* Looking up, opening, listing, and a new object on the tables.           *)
LookingAction ==
    \/ Reopen \/ listEntries
    \/ \E type \in EntryType : listEntriesOfType(type)
    \/ \E name \in Name : getEntryInfo(name) \/ Open(name)

(* Every one of them leaves the entries and the invariant as they are. *)
LEMMA LookingActionKeeps ==
    ASSUME IInv, LookingAction \/ UNCHANGED vars
    PROVE  IInv' /\ AliveSlots(compound') = AliveSlots(compound)
  <1>1. TablesInv(compound) /\ OwnInv(compound, elsewhere) /\ CacheInv(compound)
    BY DEF IInv, Good
  <1>2. ASSUME SameButCache(compound, compound'), CacheInv(compound'), elsewhere' = elsewhere
        PROVE  IInv' /\ AliveSlots(compound') = AliveSlots(compound)
    BY <1>1, <1>2, CacheApart DEF IInv, Good
  <1>3. CASE UNCHANGED vars
    BY <1>1, <1>3 DEF vars, IInv, Good
  <1>4. CASE Reopen
    BY <1>1, <1>4, OpenedAgain DEF Reopen, IInv, Good
  <1>5. CASE listEntries
    <2>1. compound' = AfterListing(compound) /\ elsewhere' = elsewhere
      BY <1>5 DEF listEntries
    <2>2. CASE compound.cacheShouldBeUpdated
      <3>1. compound' = Listing(compound, EntryType, FALSE)
        BY <2>1, <2>2 DEF AfterListing, Listing
      <3>2. SameButCache(compound, compound') /\ CacheInv(compound')
        BY <1>1, <3>1, ListingKeeps
      <3> QED BY <1>2, <2>1, <3>2
    <2>3. CASE ~compound.cacheShouldBeUpdated
      BY <1>1, <2>1, <2>3 DEF AfterListing, IInv, Good
    <2> QED BY <2>2, <2>3
  <1>6. ASSUME NEW type \in EntryType, listEntriesOfType(type)
        PROVE  IInv' /\ AliveSlots(compound') = AliveSlots(compound)
    <2> DEFINE update == compound.cacheShouldBeUpdated
    <2>1. compound' = Listing(compound, {type}, update)
      BY <1>1, <1>6 DEF listEntriesOfType, Listing, TablesInv, CompoundType, CompoundFields
    <2>2. elsewhere' = elsewhere /\ update \in BOOLEAN
      BY <1>1, <1>6 DEF listEntriesOfType, TablesInv, CompoundType
    <2>3. update = compound.cacheShouldBeUpdated
      OBVIOUS
    <2> HIDE DEF update
    <2>4. SameButCache(compound, compound') /\ CacheInv(compound')
      BY <1>1, <2>1, <2>2, <2>3, ListingKeeps
    <2> QED BY <1>2, <2>2, <2>4
  <1>7. ASSUME NEW name \in Name, getEntryInfo(name)
        PROVE  IInv' /\ AliveSlots(compound') = AliveSlots(compound)
    BY <1>1, <1>2, <1>7, AfterGetKeeps DEF getEntryInfo
  <1>8. ASSUME NEW name \in Name, Open(name)
        PROVE  IInv' /\ AliveSlots(compound') = AliveSlots(compound)
    BY <1>1, <1>2, <1>8, AfterOpenKeeps DEF Open
  <1> QED BY <1>3, <1>4, <1>5, <1>6, <1>7, <1>8 DEF LookingAction

-----------------------------------------------------------------------------
(* A new folder has no bucket, no entry and no block. *)
LEMMA IInvInit == Init => IInv
  <1> SUFFICES ASSUME Init PROVE IInv
    OBVIOUS
  <1> DEFINE c == compound
  <1>1. /\ c.index = Opened(<< >>, 0) /\ c.buckets = << >> /\ DOMAIN c.tables = Block
        /\ c.contentFolderCount = 0 /\ c.cache = << >>
        /\ c.cacheShouldBeUpdated \in BOOLEAN /\ c.cacheShouldBeUpdated
        /\ c.owned = {} /\ CompoundFields \subseteq DOMAIN c
    BY DEF Init, CompoundFields
  <1>2. elsewhere = {}
    BY DEF Init
  <1> HIDE DEF c
  <1>3. Buckets(c) = {} /\ c.buckets \in Seq({})
    BY <1>1 DEF Buckets
  <1>4. AliveSlots(c) = {}
    BY <1>3 DEF AliveSlots
  <1>5. TableInv(c.index) /\ Alive(c.index) = {}
    BY <1>1, OpeningEmpty
  <1>6. TablesInv(c)
    BY <1>1, <1>3, <1>5 DEF TablesInv, CompoundType, IndexInv, LeavesInv, SpotInv
  <1>7. OwnInv(c, {})
    BY <1>1, <1>3, <1>4 DEF OwnInv
  <1>8. CacheInv(c)
    BY <1>1 DEF CacheInv
  <1> QED BY <1>2, <1>6, <1>7, <1>8 DEF IInv, Good, c

(* Every action keeps the invariant. *)
LEMMA IInvStep == NoMisuse /\ IInv /\ [Next]_vars => IInv'
  <1> SUFFICES ASSUME NoMisuse, IInv, [Next]_vars PROVE IInv'
    OBVIOUS
  <1>1. CASE LookingAction \/ UNCHANGED vars
    BY <1>1, LookingActionKeeps
  <1>2. ASSUME NEW name \in Name, NEW type \in EntryType, AddEntry(name, type) PROVE IInv'
    BY <1>2, AddEntryKeeps
  <1>3. ASSUME NEW name \in Name, NEW type \in EntryType, RemoveEntry(name, type) PROVE IInv'
    BY <1>3, RemoveEntryKeeps
  <1>4. ASSUME NEW name \in Name, putMetaDataOutOfUse(name) PROVE IInv'
    BY <1>4, PutOutOfUseKeeps
  <1>5. ASSUME NEW name \in Name, writeNewMetaDataForEntry(name) PROVE IInv'
    BY <1>5, WriteNewMetaDataKeeps
  <1>6. ASSUME NEW srcName \in Name, NEW dstName \in Name, Rename(srcName, dstName) PROVE IInv'
    BY <1>6, RenameKeeps
  <1> QED BY <1>1, <1>2, <1>3, <1>4, <1>5, <1>6 DEF Next, LookingAction

(* Without the calls of Misuse the invariant holds in every state.         *)
THEOREM CompoundInvariant == ASSUME NoMisuse PROVE Spec => []IInv
  <1>1. NoMisuse
    OBVIOUS
  <1>2. IInv /\ [Next]_vars => IInv'
    BY <1>1, IInvStep
  <1> QED BY <1>2, IInvInit, PTL DEF Spec

-----------------------------------------------------------------------------
(* The buckets of the object are the entries of the index, each with a     *)
(* table of its own (CompoundFolder.cpp:73-78, 86-88, 329-331).            *)
THEOREM BucketsCorrect == ASSUME NoMisuse PROVE Spec => []BucketsAreTheIndex
  <1>1. IInv => BucketsAreTheIndex
    BY DEF IInv, Good, TablesInv, IndexInv, BucketsAreTheIndex
  <1> QED BY <1>1, CompoundInvariant, PTL

(* No two entries of the folder share a name or a block, and what is       *)
(* allocated is what they, the buckets and the entries elsewhere have      *)
(* (ContentFolder.cpp:549, 584).                                           *)
THEOREM BlocksCorrect == ASSUME NoMisuse PROVE Spec => []NothingIsShared
  <1>1. ASSUME IInv PROVE NothingIsShared
    <2> DEFINE c == compound
    <2>1. TablesInv(c) /\ OwnInv(c, elsewhere)
      BY <1>1 DEF IInv, Good
    <2> HIDE DEF c
    <2>2. \A j, k \in Buckets(c) : \A x \in Alive(Leaf(c, j)), y \in Alive(Leaf(c, k)) :
              \/ j = k /\ x = y
              \/ /\ Leaf(c, j).slots[x].name # Leaf(c, k).slots[y].name
                 /\ Leaf(c, j).slots[x].start # Leaf(c, k).slots[y].start
      BY <2>1 DEF TablesInv, SpotInv
    <2>3. {slot.start : slot \in AliveSlots(c)} \intersect {info.start : info \in elsewhere} = {}
      BY <2>1 DEF OwnInv
    <2>4. {slot.start : slot \in AliveSlots(c)} \union {info.start : info \in elsewhere}
              \union {c.buckets[k].start : k \in Buckets(c)} = c.owned
      BY <2>1 DEF OwnInv
    <2> QED BY <2>2, <2>3, <2>4 DEF NothingIsShared, c
  <1> QED BY <1>1, CompoundInvariant, PTL

(* Every look-up by name finds the entry of that name, and nothing if      *)
(* there is none (CompoundFolder.cpp:154-179, 186-213, 231-249).           *)
THEOREM LookUpsCorrect == ASSUME NoMisuse PROVE Spec => []LookUpsAnswer
  <1>1. ASSUME IInv PROVE LookUpsAnswer
    <2> DEFINE c == compound
    <2> DEFINE infos(n, types) == {InfoOf(slot) : slot \in {s \in AliveSlots(c) : s.name = n /\ s.type \in types}}
    <2> DEFINE answers(info, right) == IF right = {} THEN info = NoInfo ELSE info \in right
    <2>1. TablesInv(c) /\ CacheInv(c)
      BY <1>1 DEF IInv, Good
    <2> HIDE DEF c
    <2>2. ASSUME NEW n PROVE answers(EntryInfo(c, n), infos(n, EntryType))
      <3>1. CASE n \in AliveNames(c)
        <4>1. PICK slot \in AliveSlots(c) : slot.name = n
          BY <3>1, SlotIsIn
        <4>2. EntryInfo(c, n) = InfoOf(slot) /\ slot.type \in EntryType
          BY <2>1, <4>1, EntryInfoRight, SlotIsTyped DEF Slot
        <4> QED BY <4>1, <4>2
      <3>2. CASE n \notin AliveNames(c)
        <4>1. EntryInfo(c, n) = NoInfo /\ \A slot \in AliveSlots(c) : slot.name # n
          BY <2>1, <3>2, EntryInfoRight, SlotIsIn
        <4> QED BY <4>1
      <3> QED BY <3>1, <3>2
    <2>3. ASSUME NEW n, NEW type \in EntryType PROVE answers(OpenedInfo(c, n, type), infos(n, {type}))
      <3>1. CASE n \in AliveNames(c)
        <4>1. PICK slot \in AliveSlots(c) : slot.name = n
          BY <3>1, SlotIsIn
        <4>2. OpenedInfo(c, n, type) = IF slot.type = type THEN InfoOf(slot) ELSE NoInfo
          BY <2>1, <4>1, OpenedInfoRight
        <4>3. \A other \in AliveSlots(c) : other.name = n => other = slot
          BY <2>1, <4>1, SlotsDiffer
        <4>4. infos(n, {type}) = IF slot.type = type THEN {InfoOf(slot)} ELSE {}
          BY <4>1, <4>3
        <4> HIDE DEF infos
        <4> QED BY <4>2, <4>4
      <3>2. CASE n \notin AliveNames(c)
        <4>1. OpenedInfo(c, n, type) = NoInfo /\ \A slot \in AliveSlots(c) : slot.name # n
          BY <2>1, <3>2, OpenedInfoRight, SlotIsIn
        <4> QED BY <4>1
      <3> QED BY <3>1, <3>2
    <2> QED BY <2>2, <2>3 DEF LookUpsAnswer, c
  <1> QED BY <1>1, CompoundInvariant, PTL

(* A listing that is not made anew has every entry                         *)
(* (CompoundFolder.cpp:255, 270).                                          *)
THEOREM ListingsComplete == ASSUME NoMisuse PROVE Spec => []ListingComplete
  <1>1. ASSUME IInv, ~compound.cacheShouldBeUpdated PROVE DOMAIN compound.cache = AliveNames(compound)
    <2>1. CacheInv(compound)
      BY <1>1 DEF IInv, Good
    <2>2. DOMAIN compound.cache \subseteq AliveNames(compound)
      BY <2>1, SlotIsIn DEF CacheInv
    <2> QED BY <1>1, <2>1, <2>2 DEF CacheInv
  <1>2. IInv => ListingComplete
    BY <1>1 DEF ListingComplete
  <1> QED BY <1>2, CompoundInvariant, PTL

(* No bucket is deleted with entries in it: none reports fewer than it has *)
(* (CompoundFolder.cpp:327, 348).                                          *)
THEOREM CountsCorrect == ASSUME NoMisuse PROVE Spec => []NoBucketUnderstated
  <1>1. ASSUME IInv PROVE NoBucketUnderstated
    <2>1. \A k \in Buckets(compound) : TableInv(Leaf(compound, k))
      BY <1>1 DEF IInv, Good, TablesInv, LeavesInv
    <2> QED BY <2>1, NothingLeft DEF NoBucketUnderstated
  <1> QED BY <1>1, CompoundInvariant, PTL

-----------------------------------------------------------------------------
(***************************************************************************)
(* The map of names.                                                       *)
(***************************************************************************)

(* The map that a set of slots is, no two of which have the same name. *)
NamesIn(S) == {slot.name : slot \in S}
EntriesIn(S) == [n \in NamesIn(S) |-> InfoOf(CHOOSE slot \in S : slot.name = n)]
Apart(S) == \A s, t \in S : s.name = t.name => s = t

(* The map with an entry more, with one less and with one under another    *)
(* name, as FolderMap has it.                                              *)
WithEntry(S, n, info) ==
    [m \in NamesIn(S) \union {n} |-> IF m = n THEN info ELSE EntriesIn(S)[m]]
WithoutEntry(S, n) == [m \in NamesIn(S) \ {n} |-> EntriesIn(S)[m]]
WithRenamed(S, src, dst) ==
    [m \in (NamesIn(S) \ {src}) \union {dst} |-> EntriesIn(S)[IF m = dst THEN src ELSE m]]

(* The map of a folder is that of its slots. *)
LEMMA EntriesNow ==
    ASSUME NEW c
    PROVE  EntriesOf(c) = EntriesIn(AliveSlots(c)) /\ AliveNames(c) = NamesIn(AliveSlots(c))
  BY SlotIsIn DEF EntriesOf, EntriesIn, NamesIn

(* The map has what a slot says under its name. *)
LEMMA EntryOfSlot ==
    ASSUME NEW S, Apart(S), NEW slot \in S, NEW n, n = slot.name
    PROVE  n \in NamesIn(S) /\ EntriesIn(S)[n] = InfoOf(slot)
  <1>1. (CHOOSE s \in S : s.name = n) = slot
    BY DEF Apart
  <1> QED BY <1>1 DEF EntriesIn, NamesIn

(* A slot more is an entry more. *)
LEMMA EntersMap ==
    ASSUME NEW S, NEW new, Apart(S), NEW n, n = new.name, n \notin NamesIn(S)
    PROVE  /\ NamesIn(S \union {new}) = NamesIn(S) \union {n}
           /\ EntriesIn(S \union {new}) = WithEntry(S, n, InfoOf(new))
  <1> DEFINE T == S \union {new}
  <1>1. NamesIn(T) = NamesIn(S) \union {n}
    BY DEF NamesIn
  <1>2. Apart(T)
    BY DEF Apart, NamesIn
  <1>3. EntriesIn(T)[n] = InfoOf(new)
    BY <1>2, EntryOfSlot
  <1>4. ASSUME NEW m \in NamesIn(S) PROVE EntriesIn(T)[m] = EntriesIn(S)[m]
    <2>1. PICK slot \in S : slot.name = m
      BY DEF NamesIn
    <2>2. EntriesIn(S)[m] = InfoOf(slot)
      BY <2>1, EntryOfSlot
    <2>3. EntriesIn(T)[m] = InfoOf(slot)
      BY <1>2, <2>1, EntryOfSlot
    <2> QED BY <2>2, <2>3
  <1>5. EntriesIn(T) = [m \in NamesIn(T) |-> EntriesIn(T)[m]]
    BY DEF EntriesIn
  <1> HIDE DEF T
  <1>6. EntriesIn(T) = [m \in NamesIn(S) \union {n} |-> IF m = n THEN InfoOf(new) ELSE EntriesIn(S)[m]]
    BY <1>1, <1>3, <1>4, <1>5
  <1> QED BY <1>1, <1>6 DEF T, WithEntry

(* A slot less is an entry less. *)
LEMMA LeavesMap ==
    ASSUME NEW S, Apart(S), NEW slot \in S, NEW n, n = slot.name
    PROVE  /\ NamesIn(S \ {slot}) = NamesIn(S) \ {n} /\ n \in NamesIn(S)
           /\ EntriesIn(S \ {slot}) = WithoutEntry(S, n)
           /\ Apart(S \ {slot})
  <1> DEFINE T == S \ {slot}
  <1>1. NamesIn(T) = NamesIn(S) \ {n} /\ n \in NamesIn(S)
    BY DEF NamesIn, Apart
  <1>2. Apart(T)
    BY DEF Apart
  <1>3. ASSUME NEW m \in NamesIn(T) PROVE EntriesIn(T)[m] = EntriesIn(S)[m]
    <2>1. PICK other \in T : other.name = m
      BY DEF NamesIn
    <2>2. EntriesIn(S)[m] = InfoOf(other)
      BY <2>1, EntryOfSlot
    <2>3. EntriesIn(T)[m] = InfoOf(other)
      BY <1>2, <2>1, EntryOfSlot
    <2> QED BY <2>2, <2>3
  <1>4. EntriesIn(T) = [m \in NamesIn(T) |-> EntriesIn(T)[m]]
    BY DEF EntriesIn
  <1> HIDE DEF T
  <1>5. EntriesIn(T) = [m \in NamesIn(S) \ {n} |-> EntriesIn(S)[m]]
    BY <1>1, <1>3, <1>4
  <1> QED BY <1>1, <1>2, <1>5 DEF T, WithoutEntry

(* A slot with another name instead of one: the entry has that name. *)
LEMMA RenamesInMap ==
    ASSUME NEW S, NEW slot \in S, NEW new, Apart(S), NEW src, src = slot.name, NEW dst, dst = new.name,
           dst \notin NamesIn(S), InfoOf(new) = InfoOf(slot),
           NEW U, U = (S \ {slot}) \union {new}
    PROVE  /\ src \in NamesIn(S) /\ NamesIn(U) = (NamesIn(S) \ {src}) \union {dst}
           /\ EntriesIn(U) = WithRenamed(S, src, dst)
  <1> DEFINE T == S \ {slot}
  <1>1. /\ NamesIn(T) = NamesIn(S) \ {src} /\ src \in NamesIn(S)
        /\ EntriesIn(T) = WithoutEntry(S, src)
        /\ Apart(T)
    BY LeavesMap
  <1> HIDE DEF T
  <1>2. dst \notin NamesIn(T)
    BY <1>1
  <1>3. /\ NamesIn(T \union {new}) = NamesIn(T) \union {dst}
        /\ EntriesIn(T \union {new}) = WithEntry(T, dst, InfoOf(new))
    BY <1>1, <1>2, EntersMap
  <1>4. EntriesIn(S)[src] = InfoOf(new)
    BY EntryOfSlot
  <1>5. WithEntry(T, dst, InfoOf(new)) = WithRenamed(S, src, dst)
    BY <1>1, <1>2, <1>4 DEF WithEntry, WithoutEntry, WithRenamed
  <1> QED BY <1>1, <1>3, <1>5 DEF T

(* The domain of the map is the names. *)
LEMMA MapNames == ASSUME NEW S PROVE DOMAIN EntriesIn(S) = NamesIn(S)
  BY DEF EntriesIn

(* Every step of the folder is one of the map, or changes nothing in it. *)
LEMMA MapStep == NoMisuse /\ IInv /\ IInv' /\ [Next]_vars => [FM!Next]_(EntriesOf(compound))
  <1> SUFFICES ASSUME NoMisuse, IInv, IInv', [Next]_vars PROVE [FM!Next]_(EntriesOf(compound))
    OBVIOUS
  <1> DEFINE S == AliveSlots(compound)
  <1> DEFINE T == AliveSlots(compound')
  <1>1. /\ EntriesOf(compound) = EntriesIn(S) /\ AliveNames(compound) = NamesIn(S)
        /\ EntriesOf(compound') = EntriesIn(T) /\ DOMAIN EntriesIn(S) = NamesIn(S)
        /\ DOMAIN EntriesIn(T) = NamesIn(T)
    BY EntriesNow, MapNames
  <1>2. Apart(S)
    <2>1. TablesInv(compound)
      BY DEF IInv, Good
    <2> QED BY <2>1, SlotsDiffer DEF Apart
  <1>3. \A slot \in T : InfoOf(slot) \in Info
    <2>1. TablesInv(compound')
      BY DEF IInv, Good
    <2> QED BY <2>1, SlotIsTyped
  <1>4. CASE LookingAction \/ UNCHANGED vars
    <2>1. S = T
      BY <1>4, LookingActionKeeps
    <2> QED BY <1>1, <2>1
  <1>5. ASSUME NEW name \in Name, NEW type, NEW start, name \notin AliveNames(compound),
               T = S \union {NewSlot(name, type, start)}
        PROVE  [FM!Next]_(EntriesOf(compound))
    <2> DEFINE new == NewSlot(name, type, start)
    <2>1. new.name = name
      BY DEF NewSlot
    <2>2. new \in T /\ name \notin NamesIn(S)
      BY <1>1, <1>5
    <2> HIDE DEF S, T, new
    <2>3. /\ NamesIn(T) = NamesIn(S) \union {name}
          /\ EntriesIn(T) = WithEntry(S, name, InfoOf(new))
      <3>1. T = S \union {new}
        BY <1>5 DEF new
      <3> QED BY <1>2, <2>1, <2>2, <3>1, EntersMap
    <2>4. FM!Enter(name)
      BY <1>1, <1>3, <2>2, <2>3 DEF FM!Enter, WithEntry
    <2>5. name \in DOMAIN EntriesOf(compound') \ DOMAIN EntriesOf(compound)
      BY <1>1, <2>2, <2>3
    <2> QED BY <2>4, <2>5 DEF FM!Next
  <1>6. ASSUME NEW slot \in S, T = S \ {slot}
        PROVE  [FM!Next]_(EntriesOf(compound))
    <2> DEFINE n == slot.name
    <2> HIDE DEF S, T
    <2>1. /\ n \in NamesIn(S) /\ NamesIn(T) = NamesIn(S) \ {n}
          /\ EntriesIn(T) = WithoutEntry(S, n)
      BY <1>2, <1>6, LeavesMap
    <2>2. n \in DOMAIN EntriesOf(compound) /\ FM!Leave(n)
      BY <1>1, <2>1 DEF FM!Leave, WithoutEntry
    <2> QED BY <2>2 DEF FM!Next
  <1>7. ASSUME NEW name \in Name, NEW type \in EntryType, AddEntry(name, type)
        PROVE  [FM!Next]_(EntriesOf(compound))
    BY <1>5, <1>7, AddEntryKeeps
  <1>8. ASSUME NEW name \in Name, writeNewMetaDataForEntry(name)
        PROVE  [FM!Next]_(EntriesOf(compound))
    BY <1>5, <1>8, WriteNewMetaDataKeeps
  <1>9. ASSUME NEW name \in Name, NEW type \in EntryType, RemoveEntry(name, type)
        PROVE  [FM!Next]_(EntriesOf(compound))
    BY <1>6, <1>9, RemoveEntryKeeps
  <1>10. ASSUME NEW name \in Name, putMetaDataOutOfUse(name)
         PROVE  [FM!Next]_(EntriesOf(compound))
    BY <1>6, <1>10, PutOutOfUseKeeps
  <1>11. ASSUME NEW srcName \in Name, NEW dstName \in Name, Rename(srcName, dstName)
         PROVE  [FM!Next]_(EntriesOf(compound))
    <2>1. dstName \notin NamesIn(S)
      BY <1>1, <1>11, RenameKeeps
    <2>2. PICK slot \in S, new \in T :
              /\ T = (S \ {slot}) \union {new}
              /\ slot.name = srcName /\ new.name = dstName /\ InfoOf(new) = InfoOf(slot)
      BY <1>11, RenameKeeps
    <2> HIDE DEF S, T
    <2>3. /\ srcName \in NamesIn(S) /\ NamesIn(T) = (NamesIn(S) \ {srcName}) \union {dstName}
          /\ EntriesIn(T) = WithRenamed(S, srcName, dstName)
      BY <1>2, <2>1, <2>2, RenamesInMap
    <2>4. FM!Rename(srcName, dstName)
      BY <1>1, <2>3 DEF FM!Rename, WithRenamed
    <2>5. srcName \in DOMAIN EntriesOf(compound) /\ dstName \in Name \ DOMAIN EntriesOf(compound)
      BY <1>1, <2>1, <2>3
    <2> QED BY <2>4, <2>5 DEF FM!Next
  <1> QED BY <1>4, <1>7, <1>8, <1>9, <1>10, <1>11 DEF Next, LookingAction

(* No tables are an empty map. *)
LEMMA MapInit == Init => FM!Init
  <1> SUFFICES ASSUME Init PROVE FM!Init
    OBVIOUS
  <1>1. compound.buckets = << >>
    BY DEF Init
  <1>2. AliveNames(compound) = {}
    BY <1>1 DEF AliveNames, Buckets
  <1> QED BY <1>2 DEF FM!Init, EntriesOf

(* A compound folder is a map from names to entries, whichever buckets     *)
(* they are in (CompoundFolder.hpp).                                       *)
THEOREM RefinesFolderMap == ASSUME NoMisuse PROVE Spec => ImplementsFolderMap
  <1>1. NoMisuse
    OBVIOUS
  <1>2. IInv /\ IInv' /\ [Next]_vars => [FM!Next]_(EntriesOf(compound))
    BY <1>1, MapStep
  <1> QED BY <1>2, MapInit, CompoundInvariant, PTL DEF Spec, ImplementsFolderMap, FM!Spec

-----------------------------------------------------------------------------
(* With the calls the code serves, a rename takes effect.                  *)
THEOREM RenamesTakeEffect == ASSUME NoMisuse PROVE Spec => RenameTakesEffect
  <1> DEFINE Effect ==
        \A srcName, dstName \in Name :
            Rename(srcName, dstName) =>
                srcName \notin AliveNames(compound') /\ dstName \in AliveNames(compound')
  <1>1. ASSUME NoMisuse, IInv PROVE Effect
    <2>1. ASSUME NEW srcName \in Name, NEW dstName \in Name, Rename(srcName, dstName)
          PROVE  srcName \notin AliveNames(compound') /\ dstName \in AliveNames(compound')
      <3> DEFINE S == AliveSlots(compound)
      <3> DEFINE T == AliveSlots(compound')
      <3>1. /\ AliveNames(compound) = NamesIn(S) /\ AliveNames(compound') = NamesIn(T)
            /\ dstName \notin AliveNames(compound)
        BY <1>1, <2>1, EntriesNow, RenameKeeps
      <3>2. PICK slot \in S, new \in T :
                /\ T = (S \ {slot}) \union {new}
                /\ slot.name = srcName /\ new.name = dstName /\ InfoOf(new) = InfoOf(slot)
        BY <1>1, <2>1, RenameKeeps
      <3>3. Apart(S)
        <4>1. TablesInv(compound)
          BY <1>1 DEF IInv, Good
        <4> QED BY <4>1, SlotsDiffer DEF Apart
      <3> HIDE DEF S, T
      <3>4. srcName \in NamesIn(S) /\ NamesIn(T) = (NamesIn(S) \ {srcName}) \union {dstName}
        BY <3>1, <3>2, <3>3, RenamesInMap
      <3> QED BY <3>1, <3>4
    <2> QED BY <2>1
  <1>2. NoMisuse
    OBVIOUS
  <1>3. IInv /\ [Next]_vars => [Effect]_vars
    BY <1>1, <1>2
  <1> HIDE DEF Effect
  <1>4. RenameTakesEffect <=> [][Effect]_vars
    BY DEF RenameTakesEffect, Effect
  <1> QED BY <1>3, <1>4, CompoundInvariant, PTL DEF Spec

(* Whoever opens the folder again finds the same entries.                  *)
THEOREM EntriesStayOnDisk == ASSUME NoMisuse PROVE Spec => []EntriesAreOnDisk
  <1>1. ASSUME IInv PROVE EntriesAreOnDisk
    <2> DEFINE d == OpenedCompound(compound)
    <2>1. AliveSlots(d) = AliveSlots(compound)
      BY <1>1, OpenedAgain DEF IInv, Good
    <2>2. EntriesOf(d) = EntriesIn(AliveSlots(d)) /\ EntriesOf(compound) = EntriesIn(AliveSlots(compound))
      BY EntriesNow
    <2> HIDE DEF d
    <2>3. EntriesOf(d) = EntriesOf(compound)
      BY <2>1, <2>2
    <2> QED BY <2>3 DEF EntriesAreOnDisk, d
  <1> QED BY <1>1, CompoundInvariant, PTL
-----------------------------------------------------------------------------
(* The folders of an image together: FolderBuckets, on the blocks and with *)
(* the buckets of CompoundFolder.                                          *)
CONSTANT Root
VARIABLES kind, lists, extra, removing, kept

Bk == INSTANCE FolderBuckets

Volume == IsFiniteSet(Block) /\ Root \notin Block

(* The slot of b in the table t is one of the right kind.                  *)
Leads(t, b) ==
    /\ kind[b] # "free"
    /\ kind[b] = "bucket" => t \in Bk!Folders
    /\ kind[b] # "bucket" => t \in Block /\ kind[t] = "bucket"

(* What keeps a block in use: a table lists it, or it is a bucket without  *)
(* entries.                                                                *)
Kept(b) == (\E t \in Bk!Table : b \in lists[t]) \/ (kind[b] = "bucket" /\ lists[b] = {})

(* Every slot leads to a block in use, no two to one, and what is in use   *)
(* is kept.                                                                *)
Linked ==
    /\ \A t \in Bk!Table : \A b \in lists[t] : Leads(t, b)
    /\ \A t, u \in Bk!Table : \A b \in lists[t] : b \in lists[u] => t = u
    /\ \A b \in Block : kind[b] # "free" => Kept(b)

BucketsInv == Bk!TypeOK /\ Linked

(* Linked has all that the property says.                                  *)
LEMMA LinkedIs ==
    ASSUME Volume, Bk!TypeOK, Linked
    PROVE  Bk!OnlyEmptiedBucketsAreLost
  <1>1. /\ Block \subseteq Bk!Table /\ lists \in [Bk!Table -> SUBSET Block]
    BY DEF Bk!TypeOK, Bk!Table
  <1>2. ASSUME NEW b \in Block
        PROVE  LET by == {t \in Bk!Table : b \in lists[t]}
               IN  IF kind[b] = "free"
                   THEN by = {} /\ lists[b] = {}
                   ELSE \/ by = {} /\ b \in Bk!Emptied
                        \/ \E t \in by :
                            /\ by = {t}
                            /\ IF kind[b] = "bucket" THEN t \in Bk!Folders ELSE t \in Block /\ kind[t] = "bucket"
    <2> DEFINE by == {t \in Bk!Table : b \in lists[t]}
    <2>1. CASE kind[b] = "free"
      <3>1. by = {}
        BY <2>1 DEF Linked, Leads
      <3>2. ASSUME NEW x \in lists[b] PROVE FALSE
        <4>1. b \in Bk!Table /\ Leads(b, x)
          BY <1>1 DEF Linked
        <4>2. b # Root
          BY DEF Volume
        <4> QED BY <2>1, <4>1, <4>2 DEF Leads, Bk!Folders
      <3> QED BY <2>1, <3>1, <3>2
    <2>2. CASE kind[b] # "free" /\ by # {}
      <3>1. PICK t \in Bk!Table : b \in lists[t]
        BY <2>2
      <3>2. by = {t}
        BY <3>1 DEF Linked
      <3>3. Leads(t, b)
        BY <3>1 DEF Linked
      <3> QED BY <2>2, <3>1, <3>2, <3>3 DEF Leads
    <2>3. CASE kind[b] # "free" /\ by = {}
      BY <2>3 DEF Linked, Kept, Bk!Emptied
    <2> QED BY <2>1, <2>2, <2>3
  <1> QED BY <1>2 DEF Bk!OnlyEmptiedBucketsAreLost

(* Counting is the same in the instance.                                   *)
LEMMA SameCardinality == \A S : Bk!Cardinality(S) = Cardinality(S)
  BY DEF Bk!Cardinality, Cardinality

(* The instance has a copy of IsFiniteSet.                                 *)
LEMMA SameFinite == \A S : Bk!IsFiniteSet(S) <=> IsFiniteSet(S)
  BY DEF Bk!IsFiniteSet, IsFiniteSet

(* Where an entry is: a folder, a bucket it lists, a file or folder in     *)
(* that.                                                                   *)
LEMMA PlaceOfEntry ==
    ASSUME Volume, BucketsInv,
           NEW f \in Bk!Folders, NEW k \in lists[f], NEW b \in lists[k]
    PROVE  /\ k \in Block /\ kind[k] = "bucket" /\ k # b /\ f # k /\ f \in Bk!Table
           /\ b \in Block /\ kind[b] \in {"file", "folder"}
           /\ \A t \in Bk!Table : k \in lists[t] => t = f
           /\ \A t \in Bk!Table : b \in lists[t] => t = k
           /\ k \notin lists[k]
  <1>1. f \in Bk!Table /\ Block \subseteq Bk!Table /\ lists \in [Bk!Table -> SUBSET Block]
        /\ kind \in [Block -> {"free", "file", "folder", "bucket"}]
    BY DEF BucketsInv, Bk!TypeOK, Bk!Table, Bk!Folders
  <1>2. k \in Block /\ Leads(f, k) /\ b \in Block /\ Leads(k, b)
    BY <1>1 DEF BucketsInv, Linked
  <1>3. kind[k] = "bucket"
    BY <1>2 DEF Leads, Bk!Folders, Volume
  <1>4. kind[b] # "bucket" /\ kind[b] # "free"
    BY <1>2, <1>3 DEF Leads, Bk!Folders, Volume
  <1>5. kind[b] \in {"file", "folder"}
    BY <1>1, <1>2, <1>4
  <1>6. f # k
    BY <1>2, <1>3 DEF Bk!Folders, Volume
  <1>7. \A t \in Bk!Table : (k \in lists[t] => t = f) /\ (b \in lists[t] => t = k)
    BY <1>1, <1>2 DEF BucketsInv, Linked
  <1>9. k \notin lists[k]
    BY <1>1, <1>2, <1>6, <1>7
  <1> QED BY <1>1, <1>2, <1>3, <1>4, <1>5, <1>6, <1>7, <1>9

(* A file lists nothing.                                                   *)
LEMMA FilesListNothing ==
    ASSUME Volume, Bk!TypeOK, Linked, NEW b \in Block, kind[b] \in {"file", "free"}
    PROVE  lists[b] = {}
  <1>1. b \in Bk!Table /\ b # Root
    BY DEF Bk!Table, Volume
  <1>2. ASSUME NEW x \in lists[b] PROVE FALSE
    <2>1. Leads(b, x)
      BY <1>1 DEF Linked
    <2> QED BY <1>1, <2>1 DEF Leads, Bk!Folders
  <1> QED BY <1>2

(* An entry is removed that leads to buckets without entries at the most:  *)
(* these are lost, and nothing else is.                                    *)
LEMMA RemovedKeeps ==
    ASSUME Volume, BucketsInv,
           NEW f \in Bk!Folders, NEW k \in lists[f], NEW b \in lists[k],
           \A j \in lists[b] : kind[j] = "bucket" /\ lists[j] = {},
           Bk!Removed(f, k, b), extra' = extra, kept' = kept, removing' \in Seq(Block)
    PROVE  BucketsInv'
  <1> DEFINE emptied == Bk!Reported(k) = 1
  <1>1. /\ k \in Block /\ kind[k] = "bucket" /\ k # b /\ f # k /\ f \in Bk!Table
        /\ b \in Block /\ kind[b] \in {"file", "folder"}
        /\ \A t \in Bk!Table : k \in lists[t] => t = f
        /\ \A t \in Bk!Table : b \in lists[t] => t = k
        /\ k \notin lists[k]
    BY PlaceOfEntry
  <1>2. /\ kind \in [Block -> {"free", "file", "folder", "bucket"}]
        /\ lists \in [Bk!Table -> SUBSET Block] /\ extra \in [Block -> Nat]
        /\ Block \subseteq Bk!Table /\ Root \in Bk!Table /\ Root \notin Block /\ f # b
    <2>1. f # b
      BY <1>1
    <2> QED BY <2>1 DEF BucketsInv, Bk!TypeOK, Bk!Table, Volume
  <1>3. /\ kind' = [kind EXCEPT ![b] = "free", ![k] = IF emptied THEN "free" ELSE @]
        /\ lists' = [lists EXCEPT ![b] = {}, ![k] = @ \ {b}, ![f] = IF emptied THEN @ \ {k} ELSE @]
    BY DEF Bk!Removed
  <1>4. emptied => lists[k] = {b}
    <2>1. IsFiniteSet(lists[k]) /\ lists[k] \subseteq Block
      BY <1>1, <1>2, FS_Subset DEF Volume
    <2>2. Cardinality(lists[k]) \in Nat /\ Cardinality(lists[k]) # 0 /\ extra[k] \in Nat
      BY <1>1, <1>2, <2>1, FS_CardinalityType, FS_EmptySet
    <2>3. emptied <=> Cardinality(lists[k]) = 1 /\ extra[k] = 0
      <3> DEFINE n == Cardinality(lists[k])
      <3> HIDE DEF n
      <3> DEFINE x == extra[k]
      <3>1. n \in Nat /\ n # 0 /\ x \in Nat
        BY <2>2 DEF n
      <3>2. emptied <=> n + x = 1
        BY SameCardinality DEF Bk!Reported, n, emptied
      <3> HIDE DEF x, emptied
      <3>3. emptied <=> n = 1 /\ x = 0
        BY <3>1, <3>2
      <3> QED BY <3>3 DEF n, x
    <2>4. Cardinality(lists[k]) = 1 <=> \E x : lists[k] = {x}
      BY <2>1, FS_Singleton
    <2> QED BY <2>3, <2>4
  <1> HIDE DEF emptied
  <1>5. /\ \A x \in Block : kind'[x] = IF x = b \/ (x = k /\ emptied) THEN "free" ELSE kind[x]
        /\ \A t \in Bk!Table : lists'[t] = IF t = b THEN {}
                                           ELSE IF t = k THEN lists[t] \ {b}
                                           ELSE IF t = f /\ emptied THEN lists[t] \ {k} ELSE lists[t]
    BY <1>1, <1>2, <1>3
  <1>6. /\ kind' \in [Block -> {"free", "file", "folder", "bucket"}]
        /\ lists' \in [Bk!Table -> SUBSET Block]
    BY <1>1, <1>2, <1>3
  <1>7. Linked'
    <2>1. ASSUME NEW t \in Bk!Table, NEW x \in lists'[t] PROVE Leads(t, x)'
      <3>0. lists'[t] \subseteq lists[t]
        BY <1>5
      <3>1. x \in lists[t] /\ x \in Block /\ Leads(t, x)
        BY <1>2, <2>1, <3>0 DEF BucketsInv, Linked
      <3>2. x # b /\ t # b
        BY <1>1, <1>5, <2>1, <3>1
      <3>3. x = k => t = f /\ ~emptied
        BY <1>1, <1>5, <2>1, <3>1
      <3>4. t = k => ~emptied
        BY <1>1, <1>4, <1>5, <2>1
      <3>5. kind'[x] = kind[x] /\ (t \in Block => kind'[t] = kind[t])
        BY <1>5, <3>1, <3>2, <3>3, <3>4
      <3> QED BY <3>1, <3>5 DEF Leads, Bk!Folders
    <2>2. ASSUME NEW t \in Bk!Table, NEW u \in Bk!Table, NEW x \in lists'[t], x \in lists'[u] PROVE t = u
      <3>1. x \in lists[t] /\ x \in lists[u]
        BY <1>5, <2>2
      <3> QED BY <3>1 DEF BucketsInv, Linked
    <2>3. ASSUME NEW x \in Block, kind'[x] # "free" PROVE Kept(x)'
      <3>1. x # b /\ (x = k => ~emptied) /\ kind[x] # "free" /\ kind'[x] = kind[x]
        BY <1>5, <2>3
      <3>2. CASE kind[x] = "bucket" /\ lists[x] = {}
        <4>1. lists'[x] \subseteq lists[x]
          BY <1>2, <1>5
        <4> QED BY <3>1, <3>2, <4>1 DEF Kept
      <3>3. CASE \E t \in Bk!Table : x \in lists[t]
        <4>1. PICK t \in Bk!Table : x \in lists[t]
          BY <3>3
        <4>2. CASE t = b
          BY <3>2, <4>1, <4>2
        <4>3. CASE t # b
          <5>1. x \in lists'[t]
            BY <1>5, <3>1, <4>1, <4>3
          <5> QED BY <5>1 DEF Kept, Bk!Table
        <4> QED BY <4>2, <4>3
      <3> QED BY <3>1, <3>2, <3>3 DEF BucketsInv, Linked, Kept
    <2> QED BY <2>1, <2>2, <2>3 DEF Linked, Bk!Table
  <1> QED BY <1>6, <1>7 DEF BucketsInv, Bk!TypeOK

(* A block comes into a bucket of a folder, an old or a new one; it is     *)
(* new itself, or has left the bucket it was in.                           *)
Entered(f, to, b, type) ==
    /\ b # to /\ type \in {"file", "folder"} /\ kind[b] \in {"free", type}
    /\ kind' \in [Block -> {"free", "file", "folder", "bucket"}]
    /\ \A x \in Block : kind'[x] = IF x = b THEN type ELSE IF x = to THEN "bucket" ELSE kind[x]
    /\ lists' \in [Bk!Table -> SUBSET Block]
    /\ \A t \in Bk!Table : lists'[t] = IF t = f THEN (lists[t] \ {b}) \union {to}
                                       ELSE IF t = to THEN (lists[t] \ {b}) \union {b} ELSE lists[t] \ {b}

(* A new slot that leads to a block nobody lists keeps the tables linked.  *)
LEMMA EnteredKeeps ==
    ASSUME Volume, BucketsInv,
           NEW f \in Bk!Folders, NEW to \in Bk!BucketsFor(f), NEW b \in Block, NEW type,
           Entered(f, to, b, type)
    PROVE  /\ kind' \in [Block -> {"free", "file", "folder", "bucket"}]
           /\ lists' \in [Bk!Table -> SUBSET Block]
           /\ Linked'
  <1>1. /\ kind \in [Block -> {"free", "file", "folder", "bucket"}]
        /\ lists \in [Bk!Table -> SUBSET Block]
        /\ Block \subseteq Bk!Table /\ Root \in Bk!Table /\ Root \notin Block /\ f \in Bk!Table
    BY DEF BucketsInv, Bk!TypeOK, Bk!Table, Volume, Bk!Folders
  <1>2. to \in Block /\ (to \in lists[f] \/ kind[to] = "free")
    BY <1>1 DEF Bk!BucketsFor, Bk!Free
  <1>3. /\ \A t \in Bk!Table : \A x \in lists[t] : x \in Block /\ Leads(t, x)
        /\ \A t, u \in Bk!Table : \A x \in lists[t] : x \in lists[u] => t = u
        /\ \A x \in Block : kind[x] # "free" => Kept(x)
    BY <1>1 DEF BucketsInv, Linked
  <1>4. kind[to] \in {"free", "bucket"} /\ f # to /\ (f \in Block => f # b \/ type = "folder")
    <2>1. to \in lists[f] => kind[to] = "bucket"
      BY <1>1, <1>3 DEF Leads, Bk!Folders
    <2>2. kind[to] \in {"free", "bucket"}
      BY <1>2, <2>1
    <2>3. f \in Block => kind[f] = "folder"
      BY <1>1 DEF Bk!Folders
    <2> QED BY <1>1, <1>2, <2>2, <2>3 DEF Entered
  <1>5. /\ \A x \in Block : kind'[x] = IF x = b THEN type ELSE IF x = to THEN "bucket" ELSE kind[x]
        /\ type \in {"file", "folder"} /\ kind[b] \in {"free", type} /\ b # to
    BY DEF Entered
  <1>6. /\ kind' \in [Block -> {"free", "file", "folder", "bucket"}]
        /\ lists' \in [Bk!Table -> SUBSET Block]
    BY DEF Entered
  <1>7. \A t \in Bk!Table : lists'[t] = IF t = f THEN (lists[t] \ {b}) \union {to}
                                       ELSE IF t = to THEN (lists[t] \ {b}) \union {b} ELSE lists[t] \ {b}
    BY DEF Entered
  <1>8. \A x \in Block : kind[x] # "free" /\ x # b => kind'[x] = kind[x]
    BY <1>4, <1>5
  <1>9. \A x \in Block : kind[x] = "folder" => kind'[x] = "folder"
    BY <1>4, <1>5
  <1>10. ASSUME NEW t \in Bk!Table, NEW x \in Block
         PROVE  x \in lists'[t] <=> \/ x \in lists[t] /\ x # b
                                    \/ t = f /\ x = to
                                    \/ t = to /\ x = b
    BY <1>4, <1>7
  <1>11. ASSUME NEW t \in Bk!Table, NEW x \in lists'[t] PROVE Leads(t, x)'
    <2>0. x \in Block
      BY <1>6
    <2>1. CASE x = b
      <3>1. t = to
        BY <1>5, <1>10, <2>0, <2>1
      <3> QED BY <1>2, <1>5, <2>1, <3>1 DEF Leads
    <2>2. CASE x = to /\ t = f
      <3>1. f \in {Root} \union {y \in Block : kind'[y] = "folder"}
        BY <1>9 DEF Bk!Folders
      <3>2. kind'[x] = "bucket"
        BY <1>2, <1>5, <2>2
      <3>3. t \in Bk!Folders'
        BY <2>2, <3>1 DEF Bk!Folders
      <3> QED BY <3>2, <3>3 DEF Leads
    <2>3. CASE x \in lists[t] /\ x # b
      <3>1. Leads(t, x) /\ kind'[x] = kind[x]
        BY <1>3, <1>8, <2>0, <2>3 DEF Leads
      <3>2. t \in Block /\ kind[t] = "bucket" => kind'[t] = "bucket"
        BY <1>5
      <3> QED BY <1>9, <3>1, <3>2 DEF Leads, Bk!Folders
    <2> QED BY <1>10, <2>0, <2>1, <2>2, <2>3
  <1>12. ASSUME NEW t \in Bk!Table, NEW u \in Bk!Table, NEW x \in lists'[t], x \in lists'[u] PROVE t = u
    <2>0. x \in Block
      BY <1>6
    <2>1. x = to => \A s \in Bk!Table : to \in lists[s] => s = f
      <3>1. kind[to] = "free" => \A s \in Bk!Table : to \notin lists[s]
        BY <1>3 DEF Leads
      <3> QED BY <1>1, <1>2, <1>3, <3>1
    <2>2. CASE x = b
      BY <1>5, <1>10, <1>12, <2>0, <2>2
    <2>3. CASE x = to
      <3>1. t = f /\ u = f
        BY <1>5, <1>10, <1>12, <2>0, <2>1, <2>3
      <3> QED BY <3>1
    <2>4. CASE x # b /\ x # to
      <3>1. x \in lists[t] /\ x \in lists[u]
        BY <1>10, <1>12, <2>0, <2>4
      <3> QED BY <1>3, <3>1
    <2> QED BY <2>2, <2>3, <2>4
  <1>13. ASSUME NEW x \in Block, kind'[x] # "free" PROVE Kept(x)'
    <2>1. CASE x = b
      BY <1>1, <1>2, <1>10, <2>1 DEF Kept, Bk!Table
    <2>2. CASE x = to
      BY <1>1, <1>10, <2>2 DEF Kept, Bk!Table
    <2>3. CASE x # b /\ x # to
      <3>1. kind[x] # "free" /\ kind'[x] = kind[x]
        BY <1>5, <1>13, <2>3
      <3>2. CASE \E t \in Bk!Table : x \in lists[t]
        BY <1>10, <2>3, <3>2 DEF Kept, Bk!Table
      <3>3. CASE kind[x] = "bucket" /\ lists[x] = {}
        <4>1. x # f
          BY <1>1, <3>3 DEF Bk!Folders
        <4>2. lists'[x] = {}
          BY <1>1, <1>7, <2>3, <3>3, <4>1
        <4> QED BY <3>1, <3>3, <4>2 DEF Kept
      <3> QED BY <1>3, <3>1, <3>2, <3>3 DEF Kept
    <2> QED BY <2>1, <2>2, <2>3
  <1>14. Linked'
    BY <1>11, <1>12, <1>13 DEF Linked, Bk!Table
  <1> QED BY <1>6, <1>14

(* Adding an entry, with a bucket if need be, keeps the invariant.         *)
LEMMA AddKeeps ==
    ASSUME Volume, BucketsInv,
           NEW f \in Bk!Folders, NEW b \in Bk!Free, NEW type \in {"file", "folder"},
           Bk!AddEntry(f, b, type)
    PROVE  BucketsInv'
  <1>1. PICK k \in Bk!BucketsFor(f) \ {b} :
            /\ kind' = [kind EXCEPT ![k] = "bucket", ![b] = type]
            /\ lists' = [lists EXCEPT ![f] = @ \union {k}, ![k] = @ \union {b}]
    BY DEF Bk!AddEntry
  <1>2. removing = << >> /\ extra' = extra /\ removing' = removing /\ kept' = kept
    BY DEF Bk!AddEntry
  <1>3. b \in Block /\ kind[b] = "free" /\ lists \in [Bk!Table -> SUBSET Block]
    BY DEF Bk!Free, BucketsInv, Bk!TypeOK
  <1>4. \A t \in Bk!Table : b \notin lists[t]
    BY <1>3 DEF BucketsInv, Linked, Leads
  <1>5. /\ kind' \in [Block -> {"free", "file", "folder", "bucket"}]
        /\ lists' \in [Bk!Table -> SUBSET Block] /\ Linked'
    <2>1. k \in Bk!BucketsFor(f) /\ b # k /\ k # f /\ k \in Block /\ f \in Bk!Table
      <3>1. k \in Block /\ f \in Bk!Table /\ (k \in lists[f] \/ kind[k] = "free")
        BY <1>1, <1>3 DEF Bk!BucketsFor, Bk!Free, Bk!Folders, Bk!Table
      <3>2. k \in lists[f] => kind[k] = "bucket"
        BY <3>1 DEF BucketsInv, Linked, Leads, Bk!Folders, Volume
      <3> QED BY <1>1, <3>1, <3>2 DEF Bk!Folders, Volume
    <2>2. \A t \in Bk!Table : lists[t] = lists[t] \ {b}
      BY <1>4
    <2>3. Entered(f, k, b, type)
      BY <1>1, <1>3, <2>1, <2>2 DEF Entered, Bk!Table, BucketsInv, Bk!TypeOK
    <2> QED BY <1>3, <2>1, <2>3, EnteredKeeps
  <1> QED BY <1>2, <1>5 DEF BucketsInv, Bk!TypeOK

(* So does moving one to another folder.                                   *)
LEMMA MoveKeeps ==
    ASSUME Volume, BucketsInv,
           NEW g \in Bk!Folders, NEW k \in lists[g], NEW b \in lists[k], NEW f \in Bk!Folders,
           Bk!MoveEntry(g, k, b, f)
    PROVE  BucketsInv'
  <1>1. PICK to \in Bk!BucketsFor(f) :
            /\ kind' = [kind EXCEPT ![to] = "bucket"]
            /\ lists' = [lists EXCEPT ![k] = @ \ {b}, ![f] = @ \union {to}, ![to] = @ \union {b}]
    BY DEF Bk!MoveEntry
  <1>2. /\ removing = << >> /\ removing' = removing /\ kept' = kept
        /\ extra' = IF g = Root THEN [extra EXCEPT ![k] = @ + 1] ELSE extra
    BY DEF Bk!MoveEntry
  <1>3. /\ k \in Block /\ kind[k] = "bucket" /\ k # b /\ g # k /\ g \in Bk!Table
        /\ b \in Block /\ kind[b] \in {"file", "folder"}
        /\ \A t \in Bk!Table : k \in lists[t] => t = g
        /\ \A t \in Bk!Table : b \in lists[t] => t = k
    BY PlaceOfEntry
  <1>4. /\ kind \in [Block -> {"free", "file", "folder", "bucket"}]
        /\ lists \in [Bk!Table -> SUBSET Block] /\ extra \in [Block -> Nat]
        /\ Block \subseteq Bk!Table
    BY DEF BucketsInv, Bk!TypeOK, Bk!Table
  <1>5. to \in Block /\ to # b
    <2>1. to \in lists[f] => f = k \/ to # b
      BY <1>3 DEF Bk!Folders, Bk!Table
    <2>2. f # k
      BY <1>3 DEF Bk!Folders, Volume
    <2> QED BY <1>3, <1>4, <2>1, <2>2 DEF Bk!BucketsFor, Bk!Free, Bk!Folders, Bk!Table
  <1>6. /\ kind' \in [Block -> {"free", "file", "folder", "bucket"}]
        /\ lists' \in [Bk!Table -> SUBSET Block] /\ Linked'
    <2>1. \A t \in Bk!Table : t # k => lists[t] = lists[t] \ {b}
      BY <1>3, <1>4
    <2>2. f # k /\ f \in Bk!Table /\ f # to
      <3>1. f # k /\ f \in Bk!Table
        BY <1>3 DEF Bk!Folders, Bk!Table, Volume
      <3>2. to \in lists[f] => kind[to] = "bucket"
        BY <3>1 DEF BucketsInv, Linked, Leads, Bk!Folders, Volume
      <3> QED BY <1>5, <3>1, <3>2 DEF Bk!BucketsFor, Bk!Free, Bk!Folders, Volume
    <2>3. \A t \in Bk!Table : lists'[t] = IF t = f THEN (lists[t] \ {b}) \union {to}
                                         ELSE IF t = to THEN (lists[t] \ {b}) \union {b} ELSE lists[t] \ {b}
      BY <1>1, <1>3, <1>4, <1>5, <2>1, <2>2
    <2>4. lists' \in [Bk!Table -> SUBSET Block]
      BY <1>1, <1>3, <1>4, <1>5, <2>2
    <2>5. /\ kind' \in [Block -> {"free", "file", "folder", "bucket"}]
          /\ \A x \in Block : kind'[x] = IF x = b THEN kind[b] ELSE IF x = to THEN "bucket" ELSE kind[x]
      BY <1>1, <1>3, <1>4, <1>5
    <2>6. Entered(f, to, b, kind[b])
      BY <1>3, <1>5, <2>3, <2>4, <2>5 DEF Entered
    <2> QED BY <1>3, <2>6, EnteredKeeps
  <1>7. extra' \in [Block -> Nat]
    BY <1>2, <1>3, <1>4
  <1> QED BY <1>2, <1>6, <1>7 DEF BucketsInv, Bk!TypeOK

(* Files go, by themselves or on the way of a removal.                     *)
LEMMA FileKeeps ==
    ASSUME Volume, BucketsInv,
           NEW f \in Bk!Folders, NEW k \in lists[f], NEW b \in lists[k], kind[b] = "file",
           Bk!Removed(f, k, b), extra' = extra, removing' = removing, kept' = kept
    PROVE  BucketsInv'
  <1>1. b \in Block /\ kind[b] \in {"file", "free"}
    BY PlaceOfEntry
  <1>2. lists[b] = {}
    BY <1>1, FilesListNothing DEF BucketsInv
  <1>3. removing' \in Seq(Block)
    BY DEF BucketsInv, Bk!TypeOK
  <1> QED BY <1>2, <1>3, RemovedKeeps

(* The index of a folder without entries lists buckets without entries.    *)
LEMMA UnlinkKeeps ==
    ASSUME Volume, BucketsInv,
           NEW f \in Bk!Folders, NEW k \in lists[f], NEW b \in lists[k], Bk!UnlinkFolder(f, k, b)
    PROVE  BucketsInv'
  <1>1. /\ removing # << >> /\ b = Bk!Last(removing) /\ \A j \in lists[b] : lists[j] = {}
        /\ Bk!Removed(f, k, b) /\ removing' = Bk!Front(removing) /\ extra' = extra /\ kept' = kept
    BY DEF Bk!UnlinkFolder
  <1>2. b \in Block /\ kind[b] \in {"file", "folder"}
    BY PlaceOfEntry
  <1>3. ASSUME NEW j \in lists[b] PROVE kind[j] = "bucket" /\ lists[j] = {}
    <2>1. j \in Block /\ Leads(b, j) /\ b # Root
      BY <1>2 DEF BucketsInv, Bk!TypeOK, Linked, Bk!Table, Volume
    <2>2. kind[j] = "bucket"
      BY <1>2, <2>1 DEF Leads
    <2> QED BY <1>1, <2>2
  <1>4. removing' \in Seq(Block)
    <2>1. removing \in Seq(Block) /\ Len(removing) \in Nat /\ Len(removing) # 0
      BY <1>1 DEF BucketsInv, Bk!TypeOK
    <2> QED BY <1>1, <2>1 DEF Bk!Front
  <1> QED BY <1>1, <1>3, <1>4, RemovedKeeps

(* An empty image satisfies the invariant.                                 *)
LEMMA BucketsInit == ASSUME Volume, Bk!Init PROVE BucketsInv
  <1>1. /\ kind = [b \in Block |-> "free"] /\ lists = [t \in Bk!Table |-> {}] /\ extra = [b \in Block |-> 0]
        /\ removing = << >> /\ kept = {}
    BY DEF Bk!Init
  <1>2. Bk!TypeOK
    BY <1>1 DEF Bk!TypeOK
  <1>3. Linked
    BY <1>1 DEF Linked
  <1> QED BY <1>2, <1>3 DEF BucketsInv

(* Every step keeps it.                                                    *)
LEMMA BucketsKept ==
    ASSUME Volume, BucketsInv, [Bk!Next]_(Bk!vars)
    PROVE  BucketsInv'
  <1>1. ASSUME kind' = kind, lists' = lists, extra' \in [Block -> Nat],
               removing' \in Seq(Block), kept' \subseteq Block
        PROVE  BucketsInv'
    BY <1>1 DEF BucketsInv, Bk!TypeOK, Linked, Kept, Leads, Bk!Folders, Bk!Table
  <1>2. extra \in [Block -> Nat] /\ removing \in Seq(Block) /\ kept \subseteq Block
    BY DEF BucketsInv, Bk!TypeOK
  <1>3. CASE Bk!Mount
    BY <1>1, <1>2, <1>3 DEF Bk!Mount
  <1>4. ASSUME NEW f \in Bk!Folders, NEW b \in Bk!Free, NEW type \in {"file", "folder"},
               Bk!AddEntry(f, b, type)
        PROVE  BucketsInv'
    BY <1>4, AddKeeps
  <1>5. ASSUME NEW f \in Bk!Folders, NEW k \in lists[f], NEW b \in lists[k],
               \/ \E to \in Bk!Folders : Bk!MoveEntry(f, k, b, to)
               \/ Bk!removeFile(f, k, b)
               \/ Bk!UnlinkFolder(f, k, b)
               \/ Bk!removeFolder(b)
               \/ Bk!RemoveFileIn(k, b)
               \/ Bk!RemoveFolderIn(k, b)
        PROVE  BucketsInv'
    <2>0. b \in Block
      BY PlaceOfEntry
    <2>1. CASE \E to \in Bk!Folders : Bk!MoveEntry(f, k, b, to)
      BY <2>1, MoveKeeps
    <2>2. CASE Bk!removeFile(f, k, b)
      <3>1. /\ kind[b] = "file" /\ Bk!Removed(f, k, b) /\ extra' = extra /\ removing' = removing
            /\ kept' = kept
        BY <2>2 DEF Bk!removeFile
      <3> QED BY <3>1, FileKeeps
    <2>3. CASE Bk!UnlinkFolder(f, k, b)
      BY <2>3, UnlinkKeeps
    <2>4. CASE Bk!removeFolder(b)
      <3>1. /\ kind' = kind /\ lists' = lists /\ extra' = extra
            /\ removing' = <<b>> /\ kept' \subseteq Block
        BY <2>4 DEF Bk!removeFolder
      <3>2. removing' \in Seq(Block)
        BY <2>0, <3>1
      <3> QED BY <1>1, <1>2, <3>1, <3>2
    <2>5. CASE Bk!RemoveFileIn(k, b)
      <3> DEFINE top == Bk!Last(removing)
      <3>1. /\ removing # << >> /\ k \in lists[top] /\ kind[b] = "file" /\ Bk!Removed(top, k, b)
            /\ extra' = extra /\ removing' = removing /\ kept' = kept
        BY <2>5 DEF Bk!RemoveFileIn
      <3>2. top \in Block
        <4>1. removing \in Seq(Block) /\ Len(removing) \in Nat /\ Len(removing) # 0
          BY <1>2, <3>1
        <4> QED BY <4>1 DEF Bk!Last
      <3>3. top = f
        BY <3>1, <3>2, PlaceOfEntry DEF Bk!Table
      <3> QED BY <3>1, <3>3, FileKeeps
    <2>6. CASE Bk!RemoveFolderIn(k, b)
      <3>1. /\ removing' = Append(removing, b)
            /\ kind' = kind /\ lists' = lists /\ extra' = extra /\ kept' = kept
        BY <2>6 DEF Bk!RemoveFolderIn
      <3>2. removing' \in Seq(Block)
        BY <1>2, <2>0, <3>1
      <3> QED BY <1>1, <1>2, <3>1, <3>2
    <2> QED BY <1>5, <2>1, <2>2, <2>3, <2>4, <2>5, <2>6
  <1>6. CASE UNCHANGED Bk!vars
    BY <1>1, <1>2, <1>6 DEF Bk!vars
  <1> QED BY <1>3, <1>4, <1>5, <1>6 DEF Bk!Next

(* A block is in use if and only if exactly one table in use lists it, in  *)
(* the middle of a removal too, but for buckets without entries.           *)
THEOREM LosesOnlyEmptied ==
    ASSUME Bk!BucketsAssumption
    PROVE  Bk!Spec => []Bk!OnlyEmptiedBucketsAreLost
  <1>1. Volume
    BY SameFinite DEF Bk!BucketsAssumption, Volume
  <1>2. Bk!Init => BucketsInv
    BY <1>1, BucketsInit
  <1>3. BucketsInv /\ [Bk!Next]_(Bk!vars) => BucketsInv'
    BY <1>1, BucketsKept
  <1>4. BucketsInv => Bk!OnlyEmptiedBucketsAreLost
    BY <1>1, LinkedIs DEF BucketsInv
  <1> QED BY <1>2, <1>3, <1>4, PTL DEF Bk!Spec
=============================================================================
