-------------------------- MODULE EntryTableProofs --------------------------
(***************************************************************************)
(* What every operation on a table of entries preserves, and what it does  *)
(* to the slots in use.  ContentFolderProofs and CompoundFolderProofs cite *)
(* it: the one has a table, the other an index and a table per bucket.     *)
(***************************************************************************)
EXTENDS EntryTable, FiniteSetTheorems, WellFoundedInduction, TLAPS

(* Buckets of a compound folder are named by numbers. *)
AnyName == Name \union Int

(* The slots of a table, of buckets and of entries. *)
Slot == [inUse : BOOLEAN, name : AnyName, type : EntryType, start : Block \union {NoBlock}]

(* The fields of the record. *)
Fields == {"slots", "count", "entryCount", "deadEntryCount", "checkForEarlyMetaData", "infos"}

(* A table has its slots, and its object counts every one of them. *)
TableType(f) ==
    /\ Fields \subseteq DOMAIN f
    /\ f.slots \in Seq(Slot)
    /\ f.count = Len(f.slots) /\ f.entryCount = Len(f.slots)
    /\ f.deadEntryCount \in Int
    /\ f.checkForEarlyMetaData \in BOOLEAN

(* A slot in use is the first one with its name, dead ones included. *)
AliveFirst(f) == \A i \in Alive(f), j \in Seen(f) : f.slots[i].name = f.slots[j].name => i <= j

(* A cached info is that of the slot in use with its name. *)
InfosFresh(f) ==
    \A n \in DOMAIN f.infos :
        \E i \in Alive(f) : f.slots[i].name = n /\ f.infos[n] = InfoOf(f.slots[i])

(* Where there are dead slots they are looked for. *)
DeadSought(f) == Dead(f) # {} => f.checkForEarlyMetaData

(* No dead slot is counted that is not there. *)
DeadCounted(f) == f.deadEntryCount <= Cardinality(Dead(f))

(* What is true of every table between two operations. *)
TableInv(f) == TableType(f) /\ AliveFirst(f) /\ InfosFresh(f) /\ DeadSought(f) /\ DeadCounted(f)

(* Only the infos differ, which are no part of the table. *)
SameTable(f, g) == DOMAIN g = DOMAIN f /\ \A x \in DOMAIN f \ {"infos"} : g[x] = f[x]

-----------------------------------------------------------------------------
(* The fields, one by one. *)
LEMMA FieldNames ==
    /\ "slots" \in Fields /\ "count" \in Fields /\ "entryCount" \in Fields
    /\ "deadEntryCount" \in Fields /\ "checkForEarlyMetaData" \in Fields /\ "infos" \in Fields
  BY DEF Fields

(* What Earliest chooses exists. *)
LEMMA EarliestExists ==
    ASSUME NEW S, S \subseteq Nat, S # {}
    PROVE  Earliest(S) \in S /\ \A i \in S : Earliest(S) <= i
  <1> DEFINE Less == {p \in Nat \X Nat : p[1] < p[2]}
  <1>1. IsWellFoundedOn(Less, Nat)
    BY NatLessThanWellFounded DEF OpToRel
  <1>2. PICK m \in S : \A y \in S : ~(<<y, m>> \in Less)
    <2> HIDE DEF Less
    <2> QED BY <1>1, WFMin
  <1>3. ASSUME NEW i \in S PROVE m <= i
    <2>1. i \in Nat /\ m \in Nat /\ ~(<<i, m>> \in Less)
      BY <1>2
    <2>2. ~(i < m)
      BY <2>1, Zenon
    <2> QED BY <2>1, <2>2
  <1> QED BY <1>3 DEF Earliest

(* The sets the operators are built from. *)
LEMMA SlotSets ==
    ASSUME NEW f, TableType(f)
    PROVE  /\ Seen(f) = 1 .. Len(f.slots) /\ Len(f.slots) \in Nat
           /\ Seen(f) \subseteq Nat
           /\ IsFiniteSet(Seen(f)) /\ IsFiniteSet(Dead(f)) /\ IsFiniteSet(Alive(f))
           /\ \A i \in Seen(f) : f.slots[i] \in Slot
  <1>1. Len(f.slots) \in Nat /\ Seen(f) = 1 .. Len(f.slots)
    BY DEF TableType, Seen
  <1>2. IsFiniteSet(Seen(f))
    BY <1>1, FS_Interval
  <1>3. Dead(f) \subseteq Seen(f) /\ Alive(f) \subseteq Seen(f)
    BY DEF Dead, Alive
  <1>4. IsFiniteSet(Dead(f)) /\ IsFiniteSet(Alive(f))
    BY <1>2, <1>3, FS_Subset
  <1>5. \A i \in Seen(f) : f.slots[i] \in Slot
    BY <1>1 DEF TableType
  <1> QED BY <1>1, <1>2, <1>4, <1>5

(* A name has one slot in use at most, and the look-up that does not ask   *)
(* whether a slot is in use finds it (ContentFolder.cpp:707-716).          *)
LEMMA IndexOfAlive ==
    ASSUME NEW f, TableInv(f), NEW i \in Alive(f)
    PROVE  /\ doGetMetaDataIndexForEntry(f, f.slots[i].name) = i
           /\ \A j \in Alive(f) : f.slots[j].name = f.slots[i].name => j = i
  <1>1. Seen(f) \subseteq Nat /\ i \in Seen(f) /\ Alive(f) \subseteq Seen(f)
    BY SlotSets DEF TableInv, Alive
  <1>2. \A j \in Seen(f) : f.slots[i].name = f.slots[j].name => i <= j
    BY DEF TableInv, AliveFirst
  <1>3. \A j \in Alive(f) : f.slots[j].name = f.slots[i].name => j = i
    <2> SUFFICES ASSUME NEW j \in Alive(f), f.slots[j].name = f.slots[i].name PROVE j = i
      OBVIOUS
    <2>1. i <= j /\ j <= i
      BY <1>1, <1>2 DEF TableInv, AliveFirst
    <2> QED BY <1>1, <2>1
  <1> DEFINE S == Named(f, f.slots[i].name)
  <1>4. i \in S /\ S \subseteq Nat /\ \A j \in S : i <= j
    BY <1>1, <1>2 DEF Named
  <1>5. Earliest(S) \in S /\ \A j \in S : Earliest(S) <= j
    <2> HIDE DEF S
    <2> QED BY <1>4, EarliestExists
  <1>6. Earliest(S) = i
    <2> HIDE DEF S
    <2>1. Earliest(S) <= i /\ i <= Earliest(S) /\ Earliest(S) \in Nat /\ i \in Nat
      BY <1>4, <1>5
    <2> QED BY <2>1
  <1>7. S # {}
    BY <1>4
  <1> QED BY <1>3, <1>6, <1>7 DEF doGetMetaDataIndexForEntry

(* The slot in use that has a name, chosen as the look-ups choose it.      *)
LEMMA OnlySlotOfName ==
    ASSUME NEW f, TableInv(f), NEW i \in Alive(f), NEW name, f.slots[i].name = name
    PROVE  Named(f, name) \intersect Alive(f) = {i} /\ Earliest({i}) = i
  <1>1. \A j \in Alive(f) : f.slots[j].name = name => j = i
    BY IndexOfAlive
  <1>2. i \in Seen(f)
    BY DEF Alive
  <1>3. Named(f, name) \intersect Alive(f) = {i}
    BY <1>1, <1>2 DEF Named
  <1>4. Earliest({i}) = i
    <2>1. i \in Nat
      BY <1>2, SlotSets DEF TableInv
    <2> QED BY <2>1 DEF Earliest
  <1> QED BY <1>3, <1>4

(* What a look-up by name returns: the entry of the slot in use with the   *)
(* name, from the cache or not, and nothing if there is none               *)
(* (ContentFolder.cpp:626-650).                                            *)
LEMMA LookUpAnswers ==
    ASSUME NEW f, TableInv(f), NEW name
    PROVE  /\ \A i \in Alive(f) : f.slots[i].name = name => doGetNamedEntryInfo(f, name) = InfoOf(f.slots[i])
           /\ (\A i \in Alive(f) : f.slots[i].name # name) => doGetNamedEntryInfo(f, name) = NoInfo
  <1>1. ASSUME NEW i \in Alive(f), f.slots[i].name = name
        PROVE  doGetNamedEntryInfo(f, name) = InfoOf(f.slots[i])
    <2>1. \A j \in Alive(f) : f.slots[j].name = name => j = i
      BY <1>1, IndexOfAlive
    <2>2. CASE name \in DOMAIN f.infos
      BY <2>1, <2>2 DEF TableInv, InfosFresh, doGetNamedEntryInfo
    <2>3. CASE name \notin DOMAIN f.infos
      <3>1. Named(f, name) \intersect Alive(f) = {i} /\ Earliest({i}) = i
        BY <1>1, OnlySlotOfName
      <3> QED BY <2>3, <3>1 DEF doGetNamedEntryInfo
    <2> QED BY <2>2, <2>3
  <1>2. ASSUME \A i \in Alive(f) : f.slots[i].name # name
        PROVE  doGetNamedEntryInfo(f, name) = NoInfo
    <2>1. name \notin DOMAIN f.infos
      BY <1>2 DEF TableInv, InfosFresh
    <2>2. Named(f, name) \intersect Alive(f) = {}
      BY <1>2 DEF Named
    <2> QED BY <2>1, <2>2 DEF doGetNamedEntryInfo
  <1> QED BY <1>1, <1>2

(* The infos of slots in use may be added to the cache.                    *)
LEMMA WithInfosKeeps ==
    ASSUME NEW f, TableInv(f), NEW I, I \subseteq Alive(f), NEW g, g = WithInfos(f, I)
    PROVE  TableInv(g) /\ SameTable(f, g)
  <1>1. SameTable(f, g)
    BY DEF WithInfos, SameTable
  <1>2. /\ g.slots = f.slots /\ g.count = f.count /\ g.entryCount = f.entryCount
        /\ g.deadEntryCount = f.deadEntryCount
        /\ g.checkForEarlyMetaData = f.checkForEarlyMetaData
        /\ Fields \subseteq DOMAIN g
    BY FieldNames DEF WithInfos, TableInv, TableType
  <1>3. Seen(g) = Seen(f) /\ Alive(g) = Alive(f) /\ Dead(g) = Dead(f)
    BY <1>2 DEF Seen, Alive, Dead
  <1>4. TableType(g) /\ AliveFirst(g) /\ DeadSought(g) /\ DeadCounted(g)
    BY <1>2, <1>3 DEF TableInv, TableType, AliveFirst, DeadSought, DeadCounted
  <1>5. InfosFresh(g)
    <2> DEFINE N == DOMAIN f.infos \union {f.slots[i].name : i \in I}
    <2>1. g.infos = [n \in N |-> IF n \in DOMAIN f.infos
                                THEN f.infos[n]
                                ELSE InfoOf(f.slots[Earliest({i \in I : f.slots[i].name = n})])]
      BY DEF WithInfos, TableInv, TableType, Fields
    <2>2. DOMAIN g.infos = N
      BY <2>1
    <2> SUFFICES ASSUME NEW n \in N
                 PROVE  \E i \in Alive(f) : f.slots[i].name = n /\ g.infos[n] = InfoOf(f.slots[i])
      <3> HIDE DEF N
      <3> QED BY <1>2, <1>3, <2>2 DEF InfosFresh
    <2>3. CASE n \in DOMAIN f.infos
      BY <2>1, <2>3 DEF TableInv, InfosFresh
    <2>4. CASE n \notin DOMAIN f.infos
      <3> DEFINE S == {i \in I : f.slots[i].name = n}
      <3>1. S # {} /\ S \subseteq Alive(f)
        BY <2>4
      <3>2. S \subseteq Nat
        BY <3>1, SlotSets DEF TableInv, Alive
      <3>3. Earliest(S) \in S
        <4> HIDE DEF S
        <4> QED BY <3>1, <3>2, EarliestExists
      <3>4. g.infos[n] = InfoOf(f.slots[Earliest(S)])
        BY <2>1, <2>4
      <3> QED BY <3>1, <3>3, <3>4
    <2> QED BY <2>3, <2>4
  <1> QED BY <1>1, <1>4, <1>5 DEF TableInv

(* Looking up and listing change the infos only, and keep them fresh       *)
(* (ContentFolder.cpp:424-465, 626-650).                                   *)
LEMMA LookingKeeps ==
    ASSUME NEW f, TableInv(f), NEW name, NEW type
    PROVE  /\ TableInv(AfterLookUp(f, name)) /\ SameTable(f, AfterLookUp(f, name))
           /\ TableInv(listAllEntries(f)) /\ SameTable(f, listAllEntries(f))
           /\ TableInv(doListEntriesBasedOnType(f, type)) /\ SameTable(f, doListEntriesBasedOnType(f, type))
  <1> DEFINE hits == Named(f, name) \intersect Alive(f)
  <1> DEFINE met == {i \in Alive(f) : hits = {} \/ i <= Earliest(hits)}
  <1>1. TableInv(WithInfos(f, met)) /\ SameTable(f, WithInfos(f, met))
    <2>1. met \subseteq Alive(f)
      OBVIOUS
    <2> HIDE DEF met
    <2> QED BY <2>1, WithInfosKeeps
  <1>2. TableInv(AfterLookUp(f, name)) /\ SameTable(f, AfterLookUp(f, name))
    <2>1. SameTable(f, f)
      BY DEF SameTable
    <2>2. AfterLookUp(f, name) = f \/ AfterLookUp(f, name) = WithInfos(f, met)
      BY DEF AfterLookUp
    <2> QED BY <1>1, <2>1, <2>2
  <1>3. TableInv(listAllEntries(f)) /\ SameTable(f, listAllEntries(f))
    BY WithInfosKeeps DEF listAllEntries
  <1> DEFINE I == {i \in Alive(f) : f.slots[i].type = type}
  <1>4. TableInv(WithInfos(f, I)) /\ SameTable(f, WithInfos(f, I))
    <2>1. I \subseteq Alive(f)
      OBVIOUS
    <2> HIDE DEF I
    <2> QED BY <2>1, WithInfosKeeps
  <1>5. doListEntriesBasedOnType(f, type) = WithInfos(f, I)
    BY DEF doListEntriesBasedOnType
  <1> QED BY <1>2, <1>3, <1>4, <1>5

-----------------------------------------------------------------------------
(* A new object finds the table as the last one left it                    *)
(* (ContentFolder.cpp:176-232).                                            *)
LEMMA OpeningKeeps ==
    ASSUME NEW f, TableInv(f), NEW g, g = Opened(f.slots, f.count)
    PROVE  /\ TableInv(g)
           /\ g.slots = f.slots /\ g.count = f.count /\ Seen(g) = Seen(f) /\ Alive(g) = Alive(f)
           /\ g.deadEntryCount = Cardinality(Dead(g))
  <1>1. /\ Fields \subseteq DOMAIN g
        /\ g.slots = f.slots /\ g.count = f.count /\ g.entryCount = f.count
        /\ g.deadEntryCount = Cardinality({i \in 1 .. f.count : ~f.slots[i].inUse})
        /\ g.checkForEarlyMetaData \in BOOLEAN /\ g.checkForEarlyMetaData /\ g.infos = << >>
    BY DEF Opened, Fields
  <1>2. f.count = f.entryCount /\ f.count = Len(f.slots)
    BY DEF TableInv, TableType
  <1>3. Seen(g) = Seen(f) /\ Alive(g) = Alive(f) /\ Dead(g) = Dead(f)
    BY <1>1, <1>2 DEF Seen, Alive, Dead
  <1>4. Dead(g) = {i \in 1 .. f.count : ~f.slots[i].inUse}
    BY <1>1 DEF Dead, Alive, Seen
  <1>5. g.deadEntryCount = Cardinality(Dead(g)) /\ g.deadEntryCount \in Nat
    BY <1>1, <1>3, <1>4, SlotSets, FS_CardinalityType DEF TableInv
  <1>6. TableType(g)
    BY <1>1, <1>2, <1>5 DEF TableInv, TableType
  <1>7. AliveFirst(g)
    BY <1>1, <1>3 DEF TableInv, AliveFirst
  <1>8. InfosFresh(g)
    BY <1>1 DEF InfosFresh
  <1>9. DeadSought(g) /\ DeadCounted(g)
    BY <1>1, <1>5 DEF DeadSought, DeadCounted
  <1> QED BY <1>1, <1>3, <1>5, <1>6, <1>7, <1>8, <1>9 DEF TableInv

(* An empty table. *)
LEMMA OpeningEmpty == TableInv(Opened(<< >>, 0)) /\ Alive(Opened(<< >>, 0)) = {}
  <1> DEFINE g == Opened(<< >>, 0)
  <1>1. /\ Fields \subseteq DOMAIN g
        /\ g.slots = << >> /\ g.count = 0 /\ g.entryCount = 0
        /\ g.deadEntryCount = Cardinality({i \in 1 .. 0 : ~(<< >>[i]).inUse})
        /\ g.checkForEarlyMetaData \in BOOLEAN /\ g.checkForEarlyMetaData /\ g.infos = << >>
    BY DEF Opened, Fields
  <1>2. {i \in 1 .. 0 : ~(<< >>[i]).inUse} = {}
    OBVIOUS
  <1>3. g.deadEntryCount = 0
    BY <1>1, <1>2, FS_EmptySet
  <1> SUFFICES TableInv(g) /\ Alive(g) = {}
    OBVIOUS
  <1> HIDE DEF g
  <1>4. Seen(g) = {} /\ Alive(g) = {} /\ Dead(g) = {}
    BY <1>1 DEF Seen, Alive, Dead
  <1>5. TableType(g)
    BY <1>1, <1>3 DEF TableType
  <1>6. AliveFirst(g) /\ InfosFresh(g) /\ DeadSought(g)
    BY <1>1, <1>4 DEF AliveFirst, InfosFresh, DeadSought
  <1>7. DeadCounted(g)
    BY <1>3, <1>4, FS_EmptySet DEF DeadCounted
  <1> QED BY <1>4, <1>5, <1>6, <1>7 DEF TableInv

(* Which dead slot is written over, and that none is passed over           *)
(* (ContentFolder.cpp:724-752).                                            *)
LEMMA SlotSought ==
    ASSUME NEW f, TableInv(f), NEW at, at = doFindOffsetWhereMetaDataShouldBeWritten(f)
    PROVE  /\ at = 0 => Dead(f) = {}
           /\ at # 0 => at \in Dead(f) /\ \A i \in Dead(f) : at <= i
  <1>1. CASE Dead(f) = {}
    BY <1>1 DEF doFindOffsetWhereMetaDataShouldBeWritten
  <1>2. CASE Dead(f) # {}
    <2>1. Dead(f) \subseteq Nat /\ Dead(f) \subseteq Seen(f) /\ Seen(f) = 1 .. Len(f.slots)
      BY SlotSets DEF Dead, TableInv
    <2>2. Earliest(Dead(f)) \in Dead(f) /\ \A i \in Dead(f) : Earliest(Dead(f)) <= i
      BY <1>2, <2>1, EarliestExists
    <2>3. at = Earliest(Dead(f))
      BY <1>2 DEF TableInv, DeadSought, doFindOffsetWhereMetaDataShouldBeWritten
    <2> QED BY <2>1, <2>2, <2>3
  <1> QED BY <1>1, <1>2

-----------------------------------------------------------------------------
(* A new entry takes a slot that was not in use, at the end or a dead one, *)
(* and leaves every slot in use as it is.  The slot of its name is then    *)
(* the first with that name: the dead one that is taken is the first dead  *)
(* one, and one is taken whenever there is any (ContentFolder.cpp:281-318, *)
(* 724-752).                                                               *)
LEMMA EntryWritten ==
    ASSUME NEW f, TableInv(f), NEW name \in AnyName, NEW type \in EntryType, NEW start \in Block,
           \A i \in Alive(f) : f.slots[i].name # name,
           NEW g, g = doWriteNewMetaDataForEntry(f, name, type, start)
    PROVE  /\ TableInv(g)
           /\ g.infos = f.infos
           /\ \A i \in Alive(f) : g.slots[i] = f.slots[i]
           /\ \E at \in Seen(g) \ Alive(f) :
                   Alive(g) = Alive(f) \union {at} /\ g.slots[at] = NewSlot(name, type, start)
           /\ getAliveEntryCount(g) = getAliveEntryCount(f) + 1
  <1> DEFINE slot == NewSlot(name, type, start)
  <1> DEFINE at == doFindOffsetWhereMetaDataShouldBeWritten(f)
  <1>1. slot \in Slot /\ slot.inUse /\ slot.name = name /\ InfoOf(slot) = [type |-> type, start |-> start]
    BY DEF NewSlot, Slot, InfoOf
  <1>2. /\ Seen(f) = 1 .. Len(f.slots) /\ Len(f.slots) \in Nat /\ f.slots \in Seq(Slot)
        /\ f.entryCount = Len(f.slots)
        /\ f.deadEntryCount \in Int
        /\ Alive(f) \subseteq Seen(f) /\ Dead(f) \subseteq Seen(f)
        /\ IsFiniteSet(Dead(f))
    BY SlotSets DEF TableInv, TableType, Alive, Dead
  <1>3. /\ at = 0 => Dead(f) = {}
        /\ at # 0 => at \in Dead(f) /\ \A i \in Dead(f) : at <= i
    BY SlotSought
  <1>4. ASSUME NEW w \in Seen(g),
               TableType(g),
               g.infos = f.infos,
               Seen(f) \subseteq Seen(g), Seen(g) \subseteq Seen(f) \union {w},
               g.slots[w] = slot, w \notin Alive(f),
               \A i \in Seen(f) \ {w} : g.slots[i] = f.slots[i],
               \A i \in Seen(g) : i \notin Alive(f) => w <= i,
               Dead(g) # {} => g.checkForEarlyMetaData,
               g.deadEntryCount <= Cardinality(Dead(g)),
               getAliveEntryCount(g) = getAliveEntryCount(f) + 1
        PROVE  /\ TableInv(g)
               /\ \A i \in Alive(f) : g.slots[i] = f.slots[i]
               /\ Alive(g) = Alive(f) \union {w} /\ w \in Seen(g) \ Alive(f)
    <2> HIDE DEF slot
    <2>1. \A i \in Alive(f) : i # w /\ g.slots[i] = f.slots[i]
      BY <1>2, <1>4
    <2>2. Alive(g) = Alive(f) \union {w}
      BY <1>1, <1>2, <1>4, <2>1 DEF Alive
    <2>3. InfosFresh(g)
      BY <1>4, <2>1, <2>2 DEF TableInv, InfosFresh
    <2>4. AliveFirst(g)
      <3> SUFFICES ASSUME NEW i \in Alive(g), NEW j \in Seen(g), g.slots[i].name = g.slots[j].name
                   PROVE  i <= j
        BY DEF AliveFirst
      <3>1. i \in Nat /\ j \in Nat /\ w \in Nat
        BY <1>4, SlotSets DEF Alive
      <3>2. CASE i = w
        <4>1. j \notin Alive(f)
          BY <1>1, <1>4, <2>1, <3>2
        <4> QED BY <1>4, <3>2, <4>1
      <3>3. CASE i # w
        <4>1. i \in Alive(f) /\ g.slots[i] = f.slots[i]
          BY <2>1, <2>2, <3>3
        <4>2. j # w
          BY <1>1, <1>4, <4>1
        <4>3. j \in Seen(f) /\ g.slots[j] = f.slots[j]
          BY <1>4, <4>2
        <4> QED BY <4>1, <4>3 DEF TableInv, AliveFirst
      <3> QED BY <3>2, <3>3
    <2> QED BY <1>4, <2>1, <2>2, <2>3, <2>4 DEF TableInv, DeadSought, DeadCounted
  <1>5. CASE at # 0
    <2>1. /\ g.slots = [f.slots EXCEPT ![at] = slot] /\ g.deadEntryCount = f.deadEntryCount - 1
          /\ g.count = f.count /\ g.entryCount = f.entryCount /\ g.infos = f.infos
          /\ g.checkForEarlyMetaData = f.checkForEarlyMetaData
          /\ Fields \subseteq DOMAIN g
      <3> HIDE DEF slot
      <3>1. g = [f EXCEPT !.slots[at] = slot, !.deadEntryCount = @ - 1]
        BY <1>5 DEF doWriteNewMetaDataForEntry, WrittenOver, slot
      <3> HIDE DEF at
      <3> QED BY <3>1, FieldNames DEF TableInv, TableType
    <2>2. at \in Dead(f) /\ at \in Seen(f) /\ at \notin Alive(f) /\ \A i \in Dead(f) : at <= i
      BY <1>2, <1>3, <1>5 DEF Dead
    <2> HIDE DEF at, slot
    <2>3. g.slots \in Seq(Slot) /\ Len(g.slots) = Len(f.slots) /\ g.slots[at] = slot
      BY <1>1, <1>2, <2>1, <2>2
    <2>4. \A i \in Seen(f) \ {at} : g.slots[i] = f.slots[i]
      BY <1>2, <2>1
    <2>5. TableType(g)
      BY <1>2, <2>1, <2>3 DEF TableInv, TableType
    <2>6. Seen(g) = Seen(f)
      BY <2>1 DEF Seen
    <2>7. Dead(g) = Dead(f) \ {at}
      BY <1>1, <2>2, <2>3, <2>4, <2>6 DEF Dead, Alive
    <2>8. g.deadEntryCount <= Cardinality(Dead(g))
      <3>1. Cardinality(Dead(g)) = Cardinality(Dead(f)) - 1
        BY <1>2, <2>2, <2>7, FS_RemoveElement
      <3>2. Cardinality(Dead(f)) \in Nat
        BY <1>2, FS_CardinalityType
      <3> QED BY <1>2, <2>1, <3>1, <3>2 DEF TableInv, DeadCounted
    <2>9. Dead(g) # {} => g.checkForEarlyMetaData
      BY <2>1, <2>7 DEF TableInv, DeadSought
    <2>10. \A i \in Seen(g) : i \notin Alive(f) => at <= i
      BY <2>2, <2>6 DEF Dead
    <2>11. getAliveEntryCount(g) = getAliveEntryCount(f) + 1
      BY <1>2, <2>1 DEF getAliveEntryCount
    <2> QED BY <1>4, <2>1, <2>2, <2>3, <2>4, <2>5, <2>6, <2>8, <2>9, <2>10, <2>11 DEF slot
  <1>6. CASE at = 0
    <2> DEFINE end == Len(f.slots) + 1
    <2>1. /\ g.slots = Append(f.slots, slot) /\ g.deadEntryCount = f.deadEntryCount
          /\ g.count = f.entryCount + 1 /\ g.entryCount = f.entryCount + 1 /\ g.infos = f.infos
          /\ g.checkForEarlyMetaData \in BOOLEAN
          /\ Fields \subseteq DOMAIN g
      <3> HIDE DEF slot
      <3>1. g = Appended(f, slot)
        BY <1>6 DEF doWriteNewMetaDataForEntry, slot
      <3> QED BY <3>1, FieldNames DEF Appended, TableInv, TableType
    <2>2. Dead(f) = {}
      BY <1>3, <1>6
    <2> HIDE DEF at, slot
    <2>3. g.slots \in Seq(Slot) /\ Len(g.slots) = end /\ g.slots[end] = slot
      BY <1>1, <1>2, <2>1
    <2>4. \A i \in Seen(f) : g.slots[i] = f.slots[i]
      BY <1>2, <2>1
    <2>5. TableType(g)
      BY <1>2, <2>1, <2>3 DEF TableInv, TableType
    <2>6. Seen(g) = Seen(f) \union {end} /\ end \notin Seen(f)
      BY <1>2, <2>1 DEF Seen
    <2>7. Alive(f) = Seen(f)
      BY <2>2 DEF Dead, Alive
    <2>8. Dead(g) = {}
      BY <1>1, <2>3, <2>4, <2>6, <2>7 DEF Dead, Alive
    <2>9. g.deadEntryCount <= Cardinality(Dead(g))
      BY <2>1, <2>2, <2>8 DEF TableInv, DeadCounted
    <2>10. getAliveEntryCount(g) = getAliveEntryCount(f) + 1
      BY <1>2, <2>1 DEF getAliveEntryCount
    <2>11. \A i \in Seen(g) : i \notin Alive(f) => end <= i
      BY <1>2, <2>6, <2>7
    <2> HIDE DEF end
    <2> QED BY <1>4, <2>1, <2>3, <2>4, <2>5, <2>6, <2>7, <2>8, <2>9, <2>10, <2>11 DEF slot
  <1> QED BY <1>5, <1>6

-----------------------------------------------------------------------------
(* Putting an entry out of use clears its slot, no other one, and drops    *)
(* its info and no other one.  The slot is not counted here: one more is   *)
(* dead than before (ContentFolder.cpp:467-491).                           *)
LEMMA PutOutOfUse ==
    ASSUME NEW f, TableInv(f), NEW i \in Alive(f),
           NEW g, g = doPutMetaDataOutOfUse(f, f.slots[i].name)
    PROVE  /\ TableInv(g)
           /\ Alive(g) = Alive(f) \ {i} /\ Dead(g) = Dead(f) \union {i}
           /\ \A j \in Alive(g) : g.slots[j] = f.slots[j]
           /\ g.entryCount = f.entryCount /\ g.deadEntryCount = f.deadEntryCount
           /\ Cardinality(Dead(g)) = Cardinality(Dead(f)) + 1
  <1> DEFINE name == f.slots[i].name
  <1> DEFINE dead == [f.slots[i] EXCEPT !.inUse = FALSE, !.type = "folder", !.start = NoBlock]
  <1>1. /\ Seen(f) = 1 .. Len(f.slots) /\ Len(f.slots) \in Nat /\ f.slots \in Seq(Slot)
        /\ i \in Seen(f) /\ Alive(f) \subseteq Seen(f) /\ Seen(f) \subseteq Nat
        /\ f.slots[i] \in Slot
        /\ IsFiniteSet(Dead(f))
    BY SlotSets DEF TableInv, TableType, Alive
  <1>2. doGetMetaDataIndexForEntry(f, name) = i /\ \A j \in Alive(f) : f.slots[j].name = name => j = i
    BY IndexOfAlive
  <1>3. /\ g.slots = [f.slots EXCEPT ![i] = dead]
        /\ g.count = f.count /\ g.entryCount = f.entryCount
        /\ g.deadEntryCount = f.deadEntryCount
        /\ g.checkForEarlyMetaData
        /\ g.checkForEarlyMetaData \in BOOLEAN
        /\ g.infos = [n \in DOMAIN f.infos \ {name} |-> f.infos[n]]
        /\ Fields \subseteq DOMAIN g
    <2> HIDE DEF name
    <2>1. i # 0
      BY <1>1
    <2>2. g = invalidateEntryInEntryInfoCache(
                  [metaDataToOutOfUse(f, i) EXCEPT !.checkForEarlyMetaData = TRUE], name)
      BY <1>2, <2>1 DEF doPutMetaDataOutOfUse, name
    <2> DEFINE h == [metaDataToOutOfUse(f, i) EXCEPT !.checkForEarlyMetaData = TRUE]
    <2>3. /\ h.slots = [f.slots EXCEPT ![i] = dead]
          /\ h.count = f.count /\ h.entryCount = f.entryCount
          /\ h.deadEntryCount = f.deadEntryCount
          /\ h.checkForEarlyMetaData
          /\ h.checkForEarlyMetaData \in BOOLEAN
          /\ h.infos = f.infos
          /\ Fields \subseteq DOMAIN h
      BY FieldNames DEF metaDataToOutOfUse, TableInv, TableType
    <2> HIDE DEF h, dead
    <2>4. g = [h EXCEPT !.infos = [n \in DOMAIN h.infos \ {name} |-> h.infos[n]]]
      BY <2>2 DEF invalidateEntryInEntryInfoCache, h
    <2> QED BY <2>3, <2>4 DEF TableInv, TableType, Fields
  <1>4. dead \in Slot /\ ~dead.inUse /\ dead.name = name
    BY <1>1 DEF Slot, EntryType
  <1> HIDE DEF name, dead
  <1>5. /\ g.slots \in Seq(Slot) /\ Len(g.slots) = Len(f.slots)
        /\ g.slots[i] = dead /\ \A j \in Seen(f) \ {i} : g.slots[j] = f.slots[j]
    BY <1>1, <1>3, <1>4
  <1>6. TableType(g)
    BY <1>3, <1>5 DEF TableInv, TableType
  <1>7. Seen(g) = Seen(f)
    BY <1>3 DEF Seen
  <1>8. Alive(g) = Alive(f) \ {i} /\ Dead(g) = Dead(f) \union {i} /\ i \notin Dead(f)
    BY <1>1, <1>4, <1>5, <1>7 DEF Alive, Dead
  <1>9. Cardinality(Dead(g)) = Cardinality(Dead(f)) + 1
    BY <1>1, <1>8, FS_AddElement
  <1>10. DeadCounted(g)
    <2>1. Cardinality(Dead(f)) \in Nat
      BY <1>1, FS_CardinalityType
    <2> QED BY <1>3, <1>9, <2>1 DEF TableInv, TableType, DeadCounted
  <1>11. AliveFirst(g)
    <2>1. \A j \in Seen(f) : g.slots[j].name = f.slots[j].name
      BY <1>4, <1>5 DEF name
    <2> QED BY <1>7, <1>8, <2>1 DEF TableInv, AliveFirst, Alive
  <1>12. InfosFresh(g)
    <2> SUFFICES ASSUME NEW n \in DOMAIN f.infos, n # name
                 PROVE  \E j \in Alive(g) : g.slots[j].name = n /\ g.infos[n] = InfoOf(g.slots[j])
      BY <1>3 DEF InfosFresh
    <2>1. PICK j \in Alive(f) : f.slots[j].name = n /\ f.infos[n] = InfoOf(f.slots[j])
      BY DEF TableInv, InfosFresh
    <2>2. j # i
      BY <2>1 DEF name
    <2>3. g.infos[n] = f.infos[n]
      BY <1>3
    <2> QED BY <1>1, <1>5, <1>8, <2>1, <2>2, <2>3
  <1>13. DeadSought(g)
    BY <1>3 DEF DeadSought
  <1>14. \A j \in Alive(g) : g.slots[j] = f.slots[j]
    BY <1>1, <1>5, <1>8
  <1> QED BY <1>3, <1>6, <1>8, <1>9, <1>10, <1>11, <1>12, <1>13, <1>14 DEF TableInv

(* A removal counts it (ContentFolder.cpp:551-558).                        *)
LEMMA EntryIsBuried ==
    ASSUME NEW f, TableInv(f), NEW i \in Alive(f), NEW g, g = Buried(f, f.slots[i].name)
    PROVE  /\ TableInv(g)
           /\ Alive(g) = Alive(f) \ {i}
           /\ \A j \in Alive(g) : g.slots[j] = f.slots[j]
           /\ getAliveEntryCount(g) = getAliveEntryCount(f) - 1
  <1> DEFINE h == doPutMetaDataOutOfUse(f, f.slots[i].name)
  <1>1. /\ TableInv(h)
        /\ Fields \subseteq DOMAIN h
        /\ Alive(h) = Alive(f) \ {i} /\ Dead(h) = Dead(f) \union {i}
        /\ \A j \in Alive(h) : h.slots[j] = f.slots[j]
        /\ h.entryCount = f.entryCount /\ h.deadEntryCount = f.deadEntryCount
        /\ Cardinality(Dead(h)) = Cardinality(Dead(f)) + 1
    BY PutOutOfUse DEF TableInv, TableType
  <1>2. g = [h EXCEPT !.deadEntryCount = @ + 1]
    BY DEF Buried
  <1> HIDE DEF h
  <1>3. /\ g.slots = h.slots /\ g.count = h.count /\ g.entryCount = h.entryCount
        /\ g.deadEntryCount = h.deadEntryCount + 1
        /\ g.checkForEarlyMetaData = h.checkForEarlyMetaData /\ g.infos = h.infos
        /\ Fields \subseteq DOMAIN g
    BY <1>1, <1>2 DEF TableInv, TableType, Fields
  <1>4. Seen(g) = Seen(h) /\ Alive(g) = Alive(h) /\ Dead(g) = Dead(h)
    BY <1>3 DEF Seen, Alive, Dead
  <1>5. TableType(g)
    <2>1. /\ Fields \subseteq DOMAIN h /\ h.slots \in Seq(Slot) /\ h.deadEntryCount \in Int
          /\ h.count = Len(h.slots) /\ h.entryCount = Len(h.slots)
          /\ h.checkForEarlyMetaData \in BOOLEAN
      BY <1>1 DEF TableInv, TableType
    <2>2. Fields \subseteq DOMAIN g
      BY <1>1, <1>3, <2>1
    <2>3. g.checkForEarlyMetaData \in BOOLEAN
      BY <1>3, <2>1
    <2> QED BY <1>3, <2>1, <2>2, <2>3 DEF TableType
  <1>9. AliveFirst(g) /\ InfosFresh(g) /\ DeadSought(g)
    BY <1>1, <1>3, <1>4 DEF TableInv, AliveFirst, InfosFresh, DeadSought
  <1>6. IsFiniteSet(Dead(f)) /\ Cardinality(Dead(f)) \in Nat
    BY SlotSets, FS_CardinalityType DEF TableInv
  <1>7. DeadCounted(g)
    BY <1>1, <1>3, <1>4, <1>6 DEF TableInv, TableType, DeadCounted
  <1>8. getAliveEntryCount(g) = getAliveEntryCount(f) - 1
    <2>1. f.entryCount \in Nat /\ f.deadEntryCount \in Int
      BY SlotSets DEF TableInv, TableType
    <2> QED BY <1>1, <1>3, <2>1 DEF getAliveEntryCount
  <1> QED BY <1>1, <1>3, <1>4, <1>5, <1>7, <1>8, <1>9 DEF TableInv

-----------------------------------------------------------------------------
(* A rename gives the entry a name no slot has, moves nothing, and drops   *)
(* the info under the old name (ContentFolder.cpp:499-531).                *)
LEMMA EntryRenamed ==
    ASSUME NEW f, TableInv(f), NEW i \in Alive(f), NEW dst \in AnyName, Named(f, dst) = {},
           NEW g, g = updateMetaDataWithNewFilename(f, f.slots[i].name, dst)
    PROVE  /\ TableInv(g)
           /\ Alive(g) = Alive(f)
           /\ g.slots[i] = [f.slots[i] EXCEPT !.name = dst]
           /\ \A j \in Alive(f) \ {i} : g.slots[j] = f.slots[j]
           /\ getAliveEntryCount(g) = getAliveEntryCount(f)
  <1> DEFINE name == f.slots[i].name
  <1> DEFINE slot == [f.slots[i] EXCEPT !.name = dst]
  <1>1. /\ Seen(f) = 1 .. Len(f.slots) /\ Len(f.slots) \in Nat /\ f.slots \in Seq(Slot)
        /\ i \in Seen(f) /\ Alive(f) \subseteq Seen(f) /\ Seen(f) \subseteq Nat
        /\ f.slots[i] \in Slot /\ f.slots[i].inUse
    BY SlotSets DEF TableInv, TableType, Alive
  <1>2. doGetMetaDataIndexForEntry(f, name) = i /\ \A j \in Alive(f) : f.slots[j].name = name => j = i
    BY IndexOfAlive
  <1>3. /\ g.slots = [f.slots EXCEPT ![i] = slot]
        /\ g.count = f.count /\ g.entryCount = f.entryCount
        /\ g.deadEntryCount = f.deadEntryCount
        /\ g.checkForEarlyMetaData = f.checkForEarlyMetaData
        /\ g.infos = [n \in DOMAIN f.infos \ {name} |-> f.infos[n]]
        /\ Fields \subseteq DOMAIN g
    <2> HIDE DEF name
    <2>1. i # 0
      BY <1>1
    <2> DEFINE h == [f EXCEPT !.slots[i].name = dst]
    <2>2. g = invalidateEntryInEntryInfoCache(h, name)
      BY <1>2, <2>1 DEF updateMetaDataWithNewFilename, name
    <2>3. /\ h.slots = [f.slots EXCEPT ![i] = slot]
          /\ h.count = f.count /\ h.entryCount = f.entryCount
          /\ h.deadEntryCount = f.deadEntryCount
          /\ h.checkForEarlyMetaData = f.checkForEarlyMetaData
          /\ h.infos = f.infos
          /\ Fields \subseteq DOMAIN h
      BY FieldNames DEF TableInv, TableType
    <2> HIDE DEF h, slot
    <2>4. g = [h EXCEPT !.infos = [n \in DOMAIN h.infos \ {name} |-> h.infos[n]]]
      BY <2>2 DEF invalidateEntryInEntryInfoCache
    <2> QED BY <2>3, <2>4 DEF TableInv, TableType, Fields
  <1>4. slot \in Slot /\ slot.inUse /\ slot.name = dst /\ InfoOf(slot) = InfoOf(f.slots[i])
    BY <1>1 DEF Slot, InfoOf
  <1> HIDE DEF slot
  <1>5. /\ g.slots \in Seq(Slot) /\ Len(g.slots) = Len(f.slots)
        /\ g.slots[i] = slot /\ \A j \in Seen(f) \ {i} : g.slots[j] = f.slots[j]
    BY <1>1, <1>3, <1>4
  <1>6. TableType(g)
    BY <1>3, <1>5 DEF TableInv, TableType
  <1>7. Seen(g) = Seen(f)
    BY <1>3 DEF Seen
  <1>8. Alive(g) = Alive(f) /\ Dead(g) = Dead(f)
    BY <1>1, <1>4, <1>5, <1>7 DEF Alive, Dead
  <1>9. \A j \in Seen(f) : f.slots[j].name # dst
    BY DEF Named
  <1>10. AliveFirst(g)
    <2> SUFFICES ASSUME NEW k \in Alive(f), NEW j \in Seen(f), g.slots[k].name = g.slots[j].name
                 PROVE  k <= j
      BY <1>7, <1>8 DEF AliveFirst
    <2>1. CASE k = i \/ j = i
      <3>1. k = j
        BY <1>1, <1>4, <1>5, <1>9, <2>1
      <3> QED BY <1>1, <3>1
    <2>2. CASE k # i /\ j # i
      BY <1>1, <1>5, <2>2 DEF TableInv, AliveFirst
    <2> QED BY <2>1, <2>2
  <1>11. InfosFresh(g)
    <2> SUFFICES ASSUME NEW n \in DOMAIN f.infos, n # name
                 PROVE  \E j \in Alive(g) : g.slots[j].name = n /\ g.infos[n] = InfoOf(g.slots[j])
      BY <1>3 DEF InfosFresh
    <2>1. PICK j \in Alive(f) : f.slots[j].name = n /\ f.infos[n] = InfoOf(f.slots[j])
      BY DEF TableInv, InfosFresh
    <2>2. j # i
      BY <2>1
    <2>3. g.infos[n] = f.infos[n]
      BY <1>3
    <2> QED BY <1>1, <1>5, <1>8, <2>1, <2>2, <2>3
  <1>12. DeadSought(g) /\ DeadCounted(g)
    BY <1>3, <1>8 DEF TableInv, DeadSought, DeadCounted
  <1>13. \A j \in Alive(f) \ {i} : g.slots[j] = f.slots[j]
    BY <1>1, <1>5
  <1>14. getAliveEntryCount(g) = getAliveEntryCount(f)
    BY <1>3 DEF getAliveEntryCount
  <1> QED BY <1>3, <1>5, <1>6, <1>8, <1>10, <1>11, <1>12, <1>13, <1>14 DEF TableInv, slot
=============================================================================
