------------------------ MODULE BlockAllocatorProofs ------------------------
(***************************************************************************)
(* Proofs about BlockAllocator, for every volume and every set of files.   *)
(***************************************************************************)
EXTENDS BlockAllocator, FiniteSetTheorems, TLAPS

-----------------------------------------------------------------------------
(* Arithmetic and counting. *)

(* A counter that stays within its width is not changed by the modulus. *)
LEMMA WithinModulus ==
    ASSUME NEW m \in Nat, NEW x \in Int, m > 0
    PROVE  /\ x % m \in 0 .. m - 1
           /\ x \in 0 .. m - 1 => x % m = x
    OBVIOUS

(* Dividing by no less than the multiplier does not exceed the             *)
(* multiplicand.                                                           *)
LEMMA QuotientBound ==
    ASSUME NEW e \in Nat, NEW s \in Nat \ {0}, NEW t \in Nat
    PROVE  (e * s) \div (t + s) \in 0 .. e
    OBVIOUS

(* The bits of the bitmap are finitely many, no more than the blocks. *)
LEMMA BitmapFinite ==
    ASSUME NEW S \in SUBSET BitmapIds
    PROVE  IsFiniteSet(S) /\ Cardinality(S) \in 0 .. Blocks
<1>1. IsFiniteSet(BitmapIds) /\ Cardinality(BitmapIds) = Bitmapped
    BY FS_Interval, VolumeAssumption DEF BitmapIds
<1>2. IsFiniteSet(S) /\ Cardinality(S) <= Cardinality(BitmapIds)
    BY <1>1, FS_Subset
<1>3. Cardinality(S) \in Nat
    BY <1>2, FS_CardinalityType
<1> QED
    BY <1>1, <1>2, <1>3, VolumeAssumption

(* What is not in use is available: the two share the bits between them. *)
LEMMA AvailableCount ==
    ASSUME inUse \in SUBSET BitmapIds
    PROVE  /\ Cardinality(Available) \in Nat
           /\ Cardinality(Available) + Cardinality(inUse) = Bitmapped
<1>1. IsFiniteSet(BitmapIds) /\ Cardinality(BitmapIds) = Bitmapped
    BY FS_Interval, VolumeAssumption DEF BitmapIds
<1>2. BitmapIds \intersect inUse = inUse
    OBVIOUS
<1>3. Cardinality(Available) = Bitmapped - Cardinality(inUse)
    BY <1>1, <1>2, FS_Difference DEF Available
<1>4. Cardinality(Available) \in Nat /\ Cardinality(inUse) \in Nat
    BY BitmapFinite DEF Available
<1> QED
    BY <1>3, <1>4, VolumeAssumption

(* Asked for as many blocks as are available or more, getNAvailableBlocks  *)
(* returns all of them.                                                    *)
LEMMA AllAvailableReturned ==
    ASSUME inUse \in SUBSET BitmapIds, NEW n \in Nat, Cardinality(Available) <= n
    PROVE  LowestAvailable(n) = Available
<1> SUFFICES ASSUME NEW b \in Available
             PROVE  Cardinality({c \in Available : c < b}) < n
    BY DEF LowestAvailable
<1> DEFINE Below == {c \in Available : c < b}
<1>1. IsFiniteSet(Available) /\ IsFiniteSet(Below)
    BY BitmapFinite DEF Available
<1>2. Below \in SUBSET Available
    OBVIOUS
<1>3. Below # Available
    BY VolumeAssumption DEF Available, BitmapIds
<1>4. Cardinality(Below) <= Cardinality(Available) /\ Cardinality(Available) # Cardinality(Below)
    BY <1>1, <1>2, <1>3, FS_Subset
<1> HIDE DEF Below
<1>5. Cardinality(Below) \in Nat /\ Cardinality(Available) \in Nat
    BY <1>1, FS_CardinalityType
<1>6. Cardinality(Below) < n
    BY <1>4, <1>5
<1> QED
    BY <1>6 DEF Below

(* A sequence without repetition has as many elements as places. *)
LEMMA DistinctElements ==
    ASSUME NEW S, NEW s \in Seq(S),
           \A i, j \in 1 .. Len(s) : s[i] = s[j] => i = j
    PROVE  LET E == {s[i] : i \in 1 .. Len(s)}
           IN  IsFiniteSet(E) /\ Cardinality(E) = Len(s)
<1> DEFINE E == {s[i] : i \in 1 .. Len(s)}
           n == Len(s)
           place == [i \in 1 .. n |-> s[i]]
<1>1. n \in Nat
    OBVIOUS
<1>2. place \in [1 .. n -> E] /\ IsInjective(place)
    BY DEF IsInjective
<1>3. \A e \in E : \E i \in 1 .. n : place[i] = e
    OBVIOUS
<1>4. place \in Bijection(1 .. n, E)
    BY <1>2, <1>3 DEF Bijection, Injection, Surjection
<1> HIDE DEF n, place, E
<1>5. IsFiniteSet(1 .. n) /\ Cardinality(1 .. n) = n
    BY <1>1, FS_Interval
<1>6. IsFiniteSet(E) /\ Cardinality(E) = n
    BY <1>4, <1>5, FS_Bijection DEF ExistsBijection
<1> QED
    BY <1>6 DEF E, n

(* So a chain that is not shared has as many blocks as it has places. *)
LEMMA ChainLength ==
    ASSUME NEW f \in Files, chain \in [Files -> Seq(Ids)], Unshared(f)
    PROVE  IsFiniteSet(BlocksOf(f)) /\ Cardinality(BlocksOf(f)) = Len(chain[f])
    BY DistinctElements DEF BlocksOf, Unshared

-----------------------------------------------------------------------------
(* Type correctness. *)

(* The blocks counted as written at mount are no more than the image is    *)
(* long.                                                                   *)
LEMMA InitialBlocksBounded ==
    ASSUME extent \in Nat
    PROVE  InitialBlocksWritten \in 0 .. extent
<1> DEFINE e == extent
<1>1. (e * BlockSize) \div (BlockMeta + BlockSize) \in 0 .. e
    BY QuotientBound, VolumeAssumption
<1> QED
    BY <1>1 DEF InitialBlocksWritten

(* The number of blocks known to be written is a natural number. *)
LEMMA KnownWrittenType ==
    ASSUME extent \in Nat, blocksWritten \in Nat
    PROVE  KnownWritten \in Nat
    BY InitialBlocksBounded DEF KnownWritten

(* The deque a refill or a mount builds holds bits of the bitmap only. *)
LEMMA PopulatedType ==
    ASSUME TypeOK, NEW n \in Int
    PROVE  LowestAvailable(n) \in SUBSET BitmapIds /\ Padding(n) \in Nat
    BY AvailableCount DEF TypeOK, LowestAvailable, Available, Padding

(* The variables of a new image are within their types. *)
LEMMA TypeInit == Init => TypeOK
<1> SUFFICES ASSUME Init PROVE TypeOK
    OBVIOUS
<1>1. inUse \in SUBSET BitmapIds
    BY VolumeAssumption DEF Init, BitmapIds
<1>2. Padding(Blocks - 1) \in Nat
    BY <1>1, AvailableCount, VolumeAssumption DEF Padding
<1>3. LowestAvailable(Blocks - 1) \in SUBSET BitmapIds
    BY DEF LowestAvailable, Available
<1>4. chain \in [Files -> Seq(Ids)]
  <2>1. <<0>> \in Seq(Ids) /\ << >> \in Seq(Ids)
      BY VolumeAssumption DEF Ids
  <2> QED
      BY <2>1 DEF Init
<1>5. next \in [Ids -> Ids \union {Unwritten}]
    BY DEF Init
<1>6. extent \in 0 .. Blocks /\ freeBlocks \in 0 .. CounterModulus - 1
    BY VolumeAssumption DEF Init
<1> QED
    BY <1>1, <1>2, <1>3, <1>4, <1>5, <1>6 DEF Init, TypeOK, Status

(* A mount computes values of the right types from any image. *)
LEMMA TypeMount == TypeOK /\ Mount => TypeOK'
<1> SUFFICES ASSUME TypeOK, Mount PROVE TypeOK'
    OBVIOUS
<1> DEFINE free == Blocks - Cardinality(inUse)
<1>1. Cardinality(inUse) \in 0 .. Blocks
    BY BitmapFinite DEF TypeOK
<1>2. free \in 0 .. Blocks
    BY <1>1, VolumeAssumption
<1>3. LowestAvailable(free) \in SUBSET BitmapIds /\ Padding(free) \in Nat
    BY <1>2, PopulatedType
<1> QED
    BY <1>2, <1>3, VolumeAssumption DEF Mount, TypeOK, image, Status

(* Linking a block leaves every link an id, or not written. *)
LEMMA LinkedNextType ==
    ASSUME TypeOK, NEW f \in Files, NEW id \in Ids, LinkBlock(f, id)
    PROVE  next' \in [Ids -> Ids \union {Unwritten}]
<1> DEFINE written == IF MustWrite(id) THEN [next EXCEPT ![id] = id] ELSE next
<1>1. written \in [Ids -> Ids \union {Unwritten}]
    BY DEF TypeOK
<1>2. next' = written \/ \E b : next' = [written EXCEPT ![b] = id]
    BY DEF LinkBlock
<1> HIDE DEF written
<1> QED
    BY <1>1, <1>2

(* Handing out a block keeps the types. *)
LEMMA TypeNewBlock ==
    ASSUME TypeOK, NEW f \in Files, NewWritableFileBlock(f)
    PROVE  TypeOK'
<1>1. PICK id \in Ids :
        /\ IF UseBlockCache THEN PopBlock(id) ELSE NextAvailableBlock(id)
        /\ WriteIfSparse(id)
        /\ Register(id)
        /\ LinkBlock(f, id)
    BY DEF NewWritableFileBlock
<1>2. cache' \in SUBSET BitmapIds /\ pad' \in Nat /\ overrun' \in BOOLEAN
  <2>1. CASE UseBlockCache
    <3>1. LowestAvailable(freeBlocks) \in SUBSET BitmapIds /\ Padding(freeBlocks) \in Nat
        BY PopulatedType DEF TypeOK
    <3>2. cache = {} /\ ~PopEmptiesDeque /\ Popped(id) => pad - 1 \in Nat
        BY DEF TypeOK, Popped, IsLowest
    <3> QED
        BY <1>1, <2>1, <3>1, <3>2 DEF PopBlock, TypeOK
  <2>2. CASE ~UseBlockCache
      BY <1>1, <2>2 DEF NextAvailableBlock, TypeOK
  <2> QED
      BY <2>1, <2>2
<1>3. extent' \in 0 .. Blocks /\ blocksWritten' \in Nat
    BY <1>1, KnownWrittenType, VolumeAssumption DEF WriteIfSparse, TypeOK, Ids
<1>4. inUse' \in SUBSET BitmapIds /\ freeBlocks' \in 0 .. CounterModulus - 1
    BY <1>1, WithinModulus, VolumeAssumption DEF Register, TypeOK
<1>5. chain' \in [Files -> Seq(Ids)]
    BY <1>1 DEF LinkBlock, TypeOK
<1>7. next' \in [Ids -> Ids \union {Unwritten}]
    BY <1>1, LinkedNextType DEF LinkBlock, TypeOK
<1>6. status' \in Status
    BY DEF NewWritableFileBlock, TypeOK
<1> QED
    BY <1>2, <1>3, <1>4, <1>5, <1>6, <1>7 DEF TypeOK

(* Unlinking a file keeps the types: the counter wraps, if it must. *)
LEMMA TypeUnlink ==
    ASSUME TypeOK, NEW f \in Files, Unlink(f)
    PROVE  TypeOK'
<1>1. freeBlocks' \in 0 .. CounterModulus - 1
  <2>1. freeBlocks + Len(chain[f]) \in Int
      BY DEF TypeOK
  <2> QED
      BY <2>1, WithinModulus, VolumeAssumption DEF Unlink
<1>2. chain' \in [Files -> Seq(Ids)]
  <2>1. << >> \in Seq(Ids)
      OBVIOUS
  <2> QED
      BY <2>1 DEF Unlink, TypeOK
<1>3. next' \in [Ids -> Ids \union {Unwritten}]
    BY DEF Unlink, TypeOK
<1> QED
    BY <1>1, <1>2, <1>3 DEF Unlink, TypeOK

(* Truncating a file keeps the types. *)
LEMMA TypeTruncate ==
    ASSUME TypeOK, NEW f \in Files, NEW k \in 1 .. MaxChain, Truncate(f, k)
    PROVE  TypeOK'
<1>1. SubSeq(chain[f], 1, k) \in Seq(Ids) /\ chain[f][k] \in Ids
    BY DEF Truncate, TypeOK
<1> QED
    BY <1>1 DEF Truncate, TypeOK, session

(* Every step keeps the types. *)
LEMMA TypeStep == TypeOK /\ [Next]_vars => TypeOK'
<1> SUFFICES ASSUME TypeOK, [Next]_vars PROVE TypeOK'
    OBVIOUS
<1>1. CASE Mount
    BY <1>1, TypeMount
<1>2. ASSUME NEW f \in Files, NewWritableFileBlock(f) PROVE TypeOK'
    BY <1>2, TypeNewBlock
<1>3. CASE AbortWhenFull
    BY <1>3 DEF AbortWhenFull, TypeOK, Status, image, session
<1>4. CASE UndefinedPop
    BY <1>4 DEF UndefinedPop, TypeOK, Status, image, session
<1>5. ASSUME NEW f \in Files, Unlink(f) PROVE TypeOK'
    BY <1>5, TypeUnlink
<1>6. ASSUME NEW f \in Files, NEW k \in 1 .. MaxChain, Truncate(f, k) PROVE TypeOK'
    BY <1>6, TypeTruncate
<1>7. CASE UNCHANGED vars
    BY <1>7 DEF vars, image, session, TypeOK
<1> QED
    BY <1>1, <1>2, <1>3, <1>4, <1>5, <1>6, <1>7 DEF Next

(* On every volume, with and without the block cache, the state of the     *)
(* allocator stays well typed: no bit outside the bitmap is set, only ids  *)
(* of the volume are linked, no counter of the builder goes below zero.    *)
THEOREM TypeCorrect == Spec => []TypeOK
<1> QED
    BY TypeInit, TypeStep, PTL DEF Spec

-----------------------------------------------------------------------------
(* The inductive invariant.  SoundInv is what IInv says of a sound volume; *)
(* the steps that keep the volume sound are proved to preserve it one by   *)
(* one.                                                                    *)

SoundInv ==
    /\ Exclusive
    /\ HandedOutIsMarked
    /\ \A f \in Files : LinksAreChain(f)
    /\ freeBlocks + Cardinality(inUse) = Blocks
    /\ UseBlockCache => cache \intersect inUse = {}
    /\ inUse \subseteq 0 .. extent - 1
    /\ blocksWritten <= extent
    /\ FreeHeaders
    /\ CacheCoversUnwritten

(* The inductive invariant in the parts the steps below are about. *)
LEMMA IInvSplit ==
    IInv <=> (TypeOK /\ (~UseBlockCache /\ Bitmapped = Blocks => Sound) /\ (Sound => SoundInv))
    BY DEF IInv, SoundInv, ExclusiveWhileSound, MarkedWhileSound, ChainsOnDisk,
           FreeCountExact, CacheIsFree, HeadersWritten

(* The invariant of the sound states holds of a new image. *)
LEMMA SoundInit == Init /\ Sound => SoundInv
<1> SUFFICES ASSUME Init, Sound PROVE SoundInv
    OBVIOUS
<1>1. \A f \in Files : chain[f] = IF f = Root THEN <<0>> ELSE << >>
    BY DEF Init
<1>2. Exclusive /\ HandedOutIsMarked
    BY <1>1 DEF Init, Exclusive, Unshared, HandedOutIsMarked, BlocksOf
<1>3. \A f \in Files : LinksAreChain(f)
  <2>1. next[0] = 0
      BY VolumeAssumption DEF Init, Ids
  <2> QED
      BY <1>1, <2>1 DEF LinksAreChain
<1>4. inUse \in SUBSET BitmapIds /\ Cardinality(inUse) = 1
  <2>1. Cardinality({0}) = 1
      BY FS_Singleton
  <2> QED
      BY <2>1, VolumeAssumption DEF Init, BitmapIds
<1>5. Cardinality(Available) <= Blocks - 1
    BY <1>4, AvailableCount, VolumeAssumption
<1>6. cache = Available
    BY <1>4, <1>5, AllAvailableReturned, VolumeAssumption DEF Init
<1>7. extent \in 1 .. Blocks
    BY VolumeAssumption DEF Init
<1>8. FreeHeaders /\ CacheCoversUnwritten
    BY <1>6, <1>7, VolumeAssumption
    DEF Init, FreeHeaders, CacheCoversUnwritten, Available, BitmapIds, Ids, Sound
<1> QED
    BY <1>2, <1>3, <1>4, <1>6, <1>7, <1>8, VolumeAssumption DEF Init, SoundInv, Available

(* A mount finds in the bitmap and the links what the session before it    *)
(* left there.                                                             *)
LEMMA SoundMount ==
    ASSUME TypeOK, Sound, SoundInv, Mount
    PROVE  SoundInv'
<1> DEFINE free == Blocks - Cardinality(inUse)
<1>1. Cardinality(inUse) \in 0 .. Blocks
    BY BitmapFinite DEF TypeOK
<1>2. Cardinality(Available) <= free
    BY <1>1, AvailableCount, VolumeAssumption DEF TypeOK
<1>3. LowestAvailable(free) = Available
    BY <1>1, <1>2, AllAvailableReturned, VolumeAssumption DEF TypeOK
<1>4. UNCHANGED <<inUse, next, extent, chain>>
    BY DEF Mount, image
<1>5. Exclusive' /\ HandedOutIsMarked' /\ (\A f \in Files : LinksAreChain(f))'
    BY <1>4 DEF SoundInv, Exclusive, Unshared, HandedOutIsMarked, BlocksOf, LinksAreChain
<1>6. cache' = Available /\ freeBlocks' = free /\ blocksWritten' = 0
    BY <1>3 DEF Mount
<1>7. CacheCoversUnwritten'
    BY <1>4, <1>6 DEF SoundInv, CacheCoversUnwritten, Available, BitmapIds, Ids, Sound, TypeOK
<1>8. FreeHeaders'
    BY <1>4 DEF SoundInv, FreeHeaders
<1>9. (inUse \subseteq 0 .. extent - 1)' /\ blocksWritten' <= extent'
    BY <1>4, <1>6 DEF SoundInv, TypeOK
<1>10. freeBlocks' + Cardinality(inUse') = Blocks
    BY <1>1, <1>4, <1>6, VolumeAssumption
<1>11. cache' \intersect inUse' = {}
    BY <1>4, <1>6 DEF Available
<1> QED
    BY <1>5, <1>6, <1>7, <1>8, <1>9, <1>10, <1>11 DEF SoundInv

(* The block a sound volume hands out: free, at most the first one past    *)
(* the end of the image, and no longer in the deque.                       *)
LEMMA ChosenBlock ==
    ASSUME TypeOK, Sound, SoundInv, Sound', NEW id \in Ids,
           IF UseBlockCache THEN PopBlock(id) ELSE NextAvailableBlock(id)
    PROVE  /\ id \in Available
           /\ id <= extent
           /\ UseBlockCache => cache' = cache \ {id}
<1>1. CASE UseBlockCache
  <2>1. ~PopEmptiesDeque /\ cache # {} /\ Popped(id)
      BY <1>1 DEF PopBlock, Sound
  <2>2. IsLowest(id, cache)
      BY <2>1 DEF Popped
  <2>3. id \in Available
      BY <1>1, <2>2 DEF IsLowest, SoundInv, TypeOK, Available
  <2>4. ~(id > extent)
    <3> SUFFICES ASSUME id > extent PROVE FALSE
        OBVIOUS
    <3>1. extent \in BitmapIds
        BY <2>3, VolumeAssumption DEF TypeOK, Available, BitmapIds
    <3>2. extent \in cache
        BY <1>1, <3>1 DEF SoundInv, CacheCoversUnwritten, TypeOK
    <3> QED
        BY <2>2, <3>2 DEF IsLowest, TypeOK, Ids
  <2>5. cache' = cache \ {id}
      BY <1>1, <2>1 DEF PopBlock
  <2> QED
      BY <1>1, <2>3, <2>4, <2>5 DEF TypeOK, Ids
<1>2. CASE ~UseBlockCache
  <2>1. IsLowest(id, Available)
      BY <1>2, VolumeAssumption DEF NextAvailableBlock, Sound
  <2>2. ~(id > extent)
    <3> SUFFICES ASSUME id > extent PROVE FALSE
        OBVIOUS
    <3>1. extent \in BitmapIds
        BY <2>1, VolumeAssumption DEF TypeOK, IsLowest, Available, BitmapIds
    <3>2. extent \in Available
        BY <3>1 DEF SoundInv, TypeOK, Available
    <3> QED
        BY <2>1, <3>2 DEF IsLowest, TypeOK, Ids
  <2> QED
      BY <1>2, <2>1, <2>2 DEF IsLowest, TypeOK, Ids
<1> QED
    BY <1>1, <1>2

(* What WriteIfSparse and LinkBlock leave in the image for such a block:   *)
(* its header is there, with its own index as next index, and the image    *)
(* has grown by one block exactly if the block was the first past its end. *)
LEMMA WrittenBlock ==
    ASSUME TypeOK, Sound, SoundInv, NEW f \in Files, NEW id \in Available,
           id <= extent, WriteIfSparse(id), LinkBlock(f, id)
    PROVE  /\ extent' = IF id = extent THEN extent + 1 ELSE extent
           /\ blocksWritten' <= extent'
           /\ chain' = [chain EXCEPT ![f] = Append(@, id)]
           /\ next' = IF chain[f] = << >>
                      THEN [next EXCEPT ![id] = id]
                      ELSE [[next EXCEPT ![id] = id] EXCEPT ![chain[f][Len(chain[f])]] = id]
<1>1. KnownWritten \in 0 .. extent
    BY InitialBlocksBounded DEF KnownWritten, SoundInv, TypeOK
<1>2. id \in Nat /\ id \in Ids
    BY VolumeAssumption DEF Available, BitmapIds, Ids
<1>3. extent' = IF id = extent THEN extent + 1 ELSE extent
    BY <1>1, <1>2 DEF WriteIfSparse, MustWrite, TypeOK
<1>4. blocksWritten' <= extent'
    BY <1>1, <1>2, <1>3 DEF WriteIfSparse, MustWrite, TypeOK
<1>5. ~MustWrite(id) => next[id] = id
    BY <1>1, <1>2 DEF MustWrite, SoundInv, FreeHeaders, Available, TypeOK
<1>6. (IF MustWrite(id) THEN [next EXCEPT ![id] = id] ELSE next) = [next EXCEPT ![id] = id]
    BY <1>2, <1>5 DEF TypeOK
<1> QED
    BY <1>3, <1>4, <1>6 DEF LinkBlock

(* Handing out a free block keeps the chains apart and their links true.   *)
LEMMA ChainsNewBlock ==
    ASSUME TypeOK, SoundInv, NEW f \in Files, NEW id \in Available,
           chain' = [chain EXCEPT ![f] = Append(@, id)],
           next' = IF chain[f] = << >>
                   THEN [next EXCEPT ![id] = id]
                   ELSE [[next EXCEPT ![id] = id] EXCEPT ![chain[f][Len(chain[f])]] = id],
           inUse' = inUse \union {id}
    PROVE  Exclusive' /\ HandedOutIsMarked' /\ (\A g \in Files : LinksAreChain(g))'
<1> DEFINE n == Len(chain[f])
<1>1. n \in Nat /\ id \in Ids
    BY VolumeAssumption DEF TypeOK, Available, BitmapIds, Ids
<1>2. \A g \in Files : \A i \in 1 .. Len(chain[g]) :
        chain[g][i] \in Ids /\ chain[g][i] \in inUse /\ chain[g][i] # id
    BY DEF TypeOK, SoundInv, HandedOutIsMarked, BlocksOf, Available
<1>3. \A g \in Files : g # f => chain'[g] = chain[g]
    BY DEF TypeOK
<1>4. /\ Len(chain'[f]) = n + 1
      /\ chain'[f][n + 1] = id
      /\ \A i \in 1 .. n : chain'[f][i] = chain[f][i]
    BY DEF TypeOK
<1>5. \A g, h \in Files : \A i \in 1 .. Len(chain[g]), j \in 1 .. Len(chain[h]) :
        chain[g][i] = chain[h][j] => g = h /\ i = j
    BY DEF SoundInv, Exclusive, Unshared
<1> HIDE DEF n
<1>6. ASSUME NEW g \in Files, NEW i \in 1 .. Len(chain'[g]),
             NEW h \in Files, NEW j \in 1 .. Len(chain'[h]),
             chain'[g][i] = chain'[h][j]
      PROVE  g = h /\ i = j
  <2>1. CASE g # f /\ h # f
      BY <2>1, <1>3, <1>5, <1>6
  <2>2. CASE g = f /\ h # f
    <3>1. h # f /\ chain'[h][j] = chain[h][j] /\ j \in 1 .. Len(chain[h])
        BY <2>2, <1>3
    <3>2. i # n + 1
        BY <3>1, <2>2, <1>2, <1>4, <1>6
    <3>3. i \in 1 .. n /\ chain'[g][i] = chain[f][i]
        BY <2>2, <3>2, <1>1, <1>4
    <3> QED
        BY <3>1, <3>3, <2>2, <1>5, <1>6 DEF n
  <2>3. CASE g # f /\ h = f
    <3>1. g # f /\ chain'[g][i] = chain[g][i] /\ i \in 1 .. Len(chain[g])
        BY <2>3, <1>3
    <3>2. j # n + 1
        BY <3>1, <2>3, <1>2, <1>4, <1>6
    <3>3. j \in 1 .. n /\ chain'[h][j] = chain[f][j]
        BY <2>3, <3>2, <1>1, <1>4
    <3> QED
        BY <3>1, <3>3, <2>3, <1>5, <1>6 DEF n
  <2>4. CASE g = f /\ h = f
      BY <2>4, <1>1, <1>2, <1>4, <1>5, <1>6 DEF n
  <2> QED
      BY <2>1, <2>2, <2>3, <2>4
<1>7. Exclusive'
    BY <1>6 DEF Exclusive, Unshared
<1>8. ASSUME NEW g \in Files, NEW i \in 1 .. Len(chain'[g])
      PROVE  chain'[g][i] \in inUse'
    BY <1>1, <1>2, <1>3, <1>4, <1>8 DEF n
<1>9. HandedOutIsMarked'
    BY <1>8 DEF HandedOutIsMarked, BlocksOf
<1>10. next'[id] = id
    BY <1>1, <1>2 DEF TypeOK, n
<1>11. n > 0 => next'[chain[f][n]] = id
    BY <1>1, <1>2 DEF TypeOK, n
<1>12. \A b \in Ids : b # id /\ (n > 0 => b # chain[f][n]) => next'[b] = next[b]
    BY <1>1, <1>2 DEF TypeOK, n
<1>13. ASSUME NEW g \in Files, NEW i \in 1 .. Len(chain'[g])
       PROVE  next'[chain'[g][i]] = IF i < Len(chain'[g]) THEN chain'[g][i + 1] ELSE chain'[g][i]
  <2>1. CASE g # f
    <3>1. chain'[g] = chain[g] /\ i \in 1 .. Len(chain[g])
        BY <2>1, <1>3
    <3>2. chain[g][i] \in Ids /\ chain[g][i] # id
        BY <3>1, <1>2
    <3>3. n > 0 => chain[g][i] # chain[f][n]
        BY <2>1, <3>1, <1>1, <1>5 DEF n
    <3>4. next'[chain[g][i]] = next[chain[g][i]]
        BY <3>2, <3>3, <1>12
    <3> QED
        BY <3>1, <3>4 DEF SoundInv, LinksAreChain
  <2>2. CASE g = f /\ i = n + 1
      BY <2>2, <1>1, <1>4, <1>10
  <2>3. CASE g = f /\ i = n
    <3>1. n > 0 /\ chain'[f][i] = chain[f][n]
        BY <2>3, <1>1, <1>4, <1>13
    <3> QED
        BY <2>3, <3>1, <1>1, <1>4, <1>11
  <2>4. CASE g = f /\ i < n
    <3>1. i \in 1 .. n /\ i + 1 \in 1 .. n /\ n \in 1 .. n
        BY <2>4, <1>1, <1>4, <1>13
    <3>2. chain[f][i] \in Ids /\ chain[f][i] # id /\ chain[f][i] # chain[f][n]
        BY <2>4, <3>1, <1>2, <1>5 DEF n
    <3>3. next'[chain[f][i]] = next[chain[f][i]]
        BY <3>2, <1>12
    <3>4. next[chain[f][i]] = chain[f][i + 1]
        BY <2>4, <3>1 DEF SoundInv, LinksAreChain, n
    <3> QED
        BY <2>4, <3>1, <3>3, <3>4, <1>1, <1>4
  <2> QED
      BY <2>1, <2>2, <2>3, <2>4, <1>1, <1>4
<1>14. (\A g \in Files : LinksAreChain(g))'
    BY <1>13 DEF LinksAreChain
<1> QED
    BY <1>7, <1>9, <1>14

(* Handing out a block from a deque, or a bitmap, that still has one keeps *)
(* the invariant.                                                          *)
LEMMA SoundNewBlock ==
    ASSUME TypeOK, Sound, SoundInv, Sound', NEW f \in Files, NewWritableFileBlock(f)
    PROVE  SoundInv'
<1>1. PICK id \in Ids :
        /\ IF UseBlockCache THEN PopBlock(id) ELSE NextAvailableBlock(id)
        /\ WriteIfSparse(id)
        /\ Register(id)
        /\ LinkBlock(f, id)
    BY DEF NewWritableFileBlock
<1>2. /\ id \in Available
      /\ id <= extent
      /\ UseBlockCache => cache' = cache \ {id}
    BY <1>1, ChosenBlock
<1>3. /\ extent' = IF id = extent THEN extent + 1 ELSE extent
      /\ blocksWritten' <= extent'
      /\ chain' = [chain EXCEPT ![f] = Append(@, id)]
      /\ next' = IF chain[f] = << >>
                 THEN [next EXCEPT ![id] = id]
                 ELSE [[next EXCEPT ![id] = id] EXCEPT ![chain[f][Len(chain[f])]] = id]
    BY <1>1, <1>2, WrittenBlock
<1>4. inUse' = inUse \union {id} /\ id \notin inUse
    BY <1>1, <1>2 DEF Register, Available
<1>5. Exclusive' /\ HandedOutIsMarked' /\ (\A g \in Files : LinksAreChain(g))'
    BY <1>2, <1>3, <1>4, ChainsNewBlock
<1>6. freeBlocks' + Cardinality(inUse') = Blocks
  <2>1. inUse' \in SUBSET BitmapIds
      BY <1>2, <1>4 DEF TypeOK, Available
  <2>2. IsFiniteSet(inUse) /\ Cardinality(inUse) \in Nat
      BY BitmapFinite DEF TypeOK
  <2>3. Cardinality(inUse') = Cardinality(inUse) + 1
      BY <1>4, <2>2, FS_AddElement
  <2>4. Cardinality(inUse') \in 0 .. Blocks
      BY <2>1, BitmapFinite
  <2>5. freeBlocks - 1 \in 0 .. CounterModulus - 1
      BY <2>2, <2>3, <2>4, VolumeAssumption DEF SoundInv, TypeOK
  <2>6. freeBlocks' = freeBlocks - 1
      BY <1>1, <2>5, WithinModulus, VolumeAssumption DEF Register
  <2> QED
      BY <2>2, <2>3, <2>6, VolumeAssumption DEF SoundInv, TypeOK
<1>7. UseBlockCache => cache' \intersect inUse' = {}
    BY <1>2, <1>4 DEF SoundInv
<1>8. inUse' \subseteq 0 .. extent' - 1
    BY <1>2, <1>3, <1>4 DEF SoundInv, TypeOK, Available, BitmapIds
<1>9. FreeHeaders'
  <2> SUFFICES ASSUME NEW b \in Ids \ inUse'
               PROVE  next'[b] = IF b < extent' THEN b ELSE Unwritten
      BY DEF FreeHeaders
  <2>1. b \in Ids \ inUse /\ b # id
      BY <1>4
  <2>2. chain[f] # << >> => chain[f][Len(chain[f])] \in inUse
      BY DEF SoundInv, HandedOutIsMarked, BlocksOf, TypeOK
  <2>3. next'[b] = next[b]
      BY <1>3, <2>1, <2>2 DEF TypeOK
  <2>4. b < extent' <=> b < extent
      BY <1>2, <1>3, <2>1 DEF TypeOK, Ids
  <2> QED
      BY <2>1, <2>3, <2>4 DEF SoundInv, FreeHeaders
<1>10. CacheCoversUnwritten'
    BY <1>2, <1>3 DEF SoundInv, CacheCoversUnwritten, TypeOK, Ids, BitmapIds
<1> QED
    BY <1>3, <1>5, <1>6, <1>7, <1>8, <1>9, <1>10 DEF SoundInv

(* Unlinking gives back the blocks of one file and no other's. *)
LEMMA SoundUnlink ==
    ASSUME TypeOK, Sound, SoundInv, NEW f \in Files, Unlink(f)
    PROVE  SoundInv'
<1>1. \A g \in Files : chain'[g] = IF g = f THEN << >> ELSE chain[g]
    BY DEF Unlink, TypeOK
<1>2. BlocksOf(f) \subseteq inUse /\ UNCHANGED <<extent, cache, pad, blocksWritten>>
    BY DEF Unlink, SoundInv, HandedOutIsMarked
<1>3. Exclusive'
    BY <1>1 DEF SoundInv, Exclusive, Unshared
<1>4. ASSUME NEW g \in Files, g # f, NEW i \in 1 .. Len(chain[g])
      PROVE  chain[g][i] \in Ids /\ chain[g][i] \in inUse /\ chain[g][i] \notin BlocksOf(f)
    BY <1>4 DEF SoundInv, HandedOutIsMarked, BlocksOf, Exclusive, Unshared, TypeOK
<1>5. HandedOutIsMarked'
    BY <1>1, <1>4 DEF HandedOutIsMarked, BlocksOf, Unlink
<1>6. (\A g \in Files : LinksAreChain(g))'
    BY <1>1, <1>4 DEF LinksAreChain, SoundInv, Unlink
<1>7. freeBlocks' + Cardinality(inUse') = Blocks
  <2>1. IsFiniteSet(BlocksOf(f)) /\ Cardinality(BlocksOf(f)) = Len(chain[f])
      BY ChainLength DEF Unlink, TypeOK
  <2>2. IsFiniteSet(inUse) /\ Cardinality(inUse) \in Nat
      BY BitmapFinite DEF TypeOK
  <2>3. inUse \intersect BlocksOf(f) = BlocksOf(f)
      BY <1>2
  <2>4. Cardinality(inUse') = Cardinality(inUse) - Len(chain[f])
    <3>1. Cardinality(inUse \ BlocksOf(f)) =
            Cardinality(inUse) - Cardinality(inUse \intersect BlocksOf(f))
        BY <2>2, FS_Difference
    <3>2. inUse' = inUse \ BlocksOf(f)
        BY DEF Unlink
    <3> QED
        BY ONLY <2>1, <2>3, <3>1, <3>2
  <2>5. Cardinality(inUse') \in 0 .. Blocks
      BY BitmapFinite DEF Unlink, TypeOK
  <2>6. freeBlocks + Len(chain[f]) = Blocks - Cardinality(inUse')
      BY <2>2, <2>4 DEF SoundInv, TypeOK
  <2>7. freeBlocks' = freeBlocks + Len(chain[f])
      BY <2>5, <2>6, WithinModulus, VolumeAssumption DEF Unlink
  <2> QED
      BY <2>5, <2>6, <2>7, VolumeAssumption
<1>8. UseBlockCache => cache' \intersect inUse' = {}
    BY <1>2 DEF SoundInv, Unlink
<1>9. (inUse \subseteq 0 .. extent - 1)' /\ blocksWritten' <= extent'
    BY <1>2 DEF SoundInv, Unlink
<1>10. FreeHeaders'
  <2> SUFFICES ASSUME NEW b \in Ids \ inUse'
               PROVE  next'[b] = IF b < extent THEN b ELSE Unwritten
      BY <1>2 DEF FreeHeaders
  <2>1. CASE b \in BlocksOf(f)
      BY <2>1, <1>2 DEF SoundInv, Unlink, Ids, TypeOK
  <2>2. CASE b \notin BlocksOf(f)
      BY <2>2 DEF SoundInv, FreeHeaders, Unlink
  <2> QED
      BY <2>1, <2>2
<1>11. CacheCoversUnwritten'
    BY <1>2 DEF SoundInv, CacheCoversUnwritten
<1> QED
    BY <1>3, <1>5, <1>6, <1>7, <1>8, <1>9, <1>10, <1>11 DEF SoundInv

(* Truncating cuts one chain; the blocks behind stay in use. *)
LEMMA SoundTruncate ==
    ASSUME TypeOK, Sound, SoundInv, NEW f \in Files, NEW k \in 1 .. MaxChain, Truncate(f, k)
    PROVE  SoundInv'
<1>1. k \in 1 .. Len(chain[f]) /\ UNCHANGED <<inUse, extent, freeBlocks, cache, pad, blocksWritten>>
    BY DEF Truncate, session
<1>2. /\ Len(chain'[f]) = k
      /\ \A i \in 1 .. k : chain'[f][i] = chain[f][i]
      /\ \A g \in Files : g # f => chain'[g] = chain[g]
    BY <1>1 DEF Truncate, TypeOK
<1>3. \A g \in Files : \A i \in 1 .. Len(chain'[g]) :
        i \in 1 .. Len(chain[g]) /\ chain'[g][i] = chain[g][i]
    BY <1>1, <1>2
<1>4. Exclusive'
    BY <1>3 DEF SoundInv, Exclusive, Unshared
<1>5. HandedOutIsMarked'
    BY <1>1, <1>3 DEF SoundInv, HandedOutIsMarked, BlocksOf
<1>6. ASSUME NEW g \in Files, NEW i \in 1 .. Len(chain'[g])
      PROVE  next'[chain'[g][i]] = IF i < Len(chain'[g]) THEN chain'[g][i + 1] ELSE chain'[g][i]
  <2>1. chain[g][i] \in Ids /\ chain[f][k] \in Ids
      BY <1>1, <1>3, <1>6 DEF TypeOK
  <2>2. CASE g = f /\ i = k
      BY <2>1, <2>2, <1>2, <1>3 DEF Truncate, TypeOK
  <2>3. CASE ~(g = f /\ i = k)
    <3>1. chain[g][i] # chain[f][k]
        BY <2>3, <1>1, <1>3, <1>6 DEF SoundInv, Exclusive, Unshared
    <3>2. next'[chain[g][i]] = next[chain[g][i]]
        BY <2>1, <3>1 DEF Truncate, TypeOK
    <3>3. next[chain[g][i]] = IF i < Len(chain[g]) THEN chain[g][i + 1] ELSE chain[g][i]
        BY <1>3, <1>6 DEF SoundInv, LinksAreChain
    <3>4. CASE g # f
        BY <3>2, <3>3, <3>4, <1>2
    <3>5. CASE g = f
        BY <2>3, <3>2, <3>3, <3>5, <1>1, <1>2, <1>6
    <3> QED
        BY <3>4, <3>5
  <2> QED
      BY <2>2, <2>3
<1>7. (\A g \in Files : LinksAreChain(g))'
    BY <1>6 DEF LinksAreChain
<1>8. FreeHeaders'
  <2> SUFFICES ASSUME NEW b \in Ids \ inUse
               PROVE  next'[b] = next[b]
      BY <1>1 DEF SoundInv, FreeHeaders
  <2>1. chain[f][k] \in inUse
      BY <1>1 DEF SoundInv, HandedOutIsMarked, BlocksOf
  <2> QED
      BY <2>1 DEF Truncate, TypeOK
<1> QED
    BY <1>1, <1>4, <1>5, <1>7, <1>8 DEF SoundInv, CacheCoversUnwritten

(* A new image satisfies the inductive invariant. *)
LEMMA IInvInit == Init => IInv
    BY TypeInit, SoundInit, IInvSplit DEF Init, Sound

(* What was overrun once stays so; without the block cache, on a volume    *)
(* with a bit for every block, nothing ever is.                            *)
LEMMA OverrunStep ==
    ASSUME TypeOK, [Next]_vars
    PROVE  /\ Sound' => Sound
           /\ ~UseBlockCache /\ Bitmapped = Blocks => (Sound => Sound')
<1>1. ASSUME NEW f \in Files, NewWritableFileBlock(f)
      PROVE  /\ Sound' => Sound
             /\ ~UseBlockCache /\ Bitmapped = Blocks => (Sound => Sound')
  <2>1. PICK id \in Ids : IF UseBlockCache THEN PopBlock(id) ELSE NextAvailableBlock(id)
      BY <1>1 DEF NewWritableFileBlock
  <2>2. CASE UseBlockCache
    <3>1. overrun' = (overrun \/ PopEmptiesDeque \/ cache = {})
        BY <2>1, <2>2 DEF PopBlock
    <3> QED
        BY <2>2, <3>1 DEF Sound
  <2>3. CASE ~UseBlockCache
    <3>1. /\ overrun' = (overrun \/ Available = {})
          /\ Available = {} => Bitmapped < Blocks
        BY <2>1, <2>3 DEF NextAvailableBlock
    <3>2. Bitmapped = Blocks => Available # {}
        BY <3>1, VolumeAssumption
    <3> QED
        BY <3>1, <3>2 DEF Sound
  <2> QED
      BY <2>2, <2>3
<1>2. CASE Mount \/ AbortWhenFull \/ UndefinedPop \/ UNCHANGED vars
    BY <1>2 DEF Mount, AbortWhenFull, UndefinedPop, vars, Sound
<1>3. ASSUME NEW f \in Files, Unlink(f) PROVE overrun' = overrun
    BY <1>3 DEF Unlink
<1>4. ASSUME NEW f \in Files, NEW k \in 1 .. MaxChain, Truncate(f, k) PROVE overrun' = overrun
    BY <1>4 DEF Truncate
<1> QED
    BY <1>1, <1>2, <1>3, <1>4 DEF Next, Sound

(* A step that leaves the volume and the chains alone keeps the invariant. *)
LEMMA SoundStutter ==
    ASSUME SoundInv,
           UNCHANGED <<inUse, next, extent, freeBlocks, cache, pad, blocksWritten, chain>>
    PROVE  SoundInv'
<1>1. Exclusive' /\ HandedOutIsMarked'
    BY DEF SoundInv, Exclusive, Unshared, HandedOutIsMarked, BlocksOf
<1>2. (\A f \in Files : LinksAreChain(f))'
    BY DEF SoundInv, LinksAreChain
<1>3. FreeHeaders' /\ CacheCoversUnwritten'
    BY DEF SoundInv, FreeHeaders, CacheCoversUnwritten
<1> QED
    BY <1>1, <1>2, <1>3 DEF SoundInv

(* Every step keeps the inductive invariant. *)
LEMMA IInvStep == IInv /\ [Next]_vars => IInv'
<1> SUFFICES ASSUME IInv, [Next]_vars PROVE IInv'
    OBVIOUS
<1>1. TypeOK /\ TypeOK' /\ (~UseBlockCache /\ Bitmapped = Blocks => Sound) /\ (Sound => SoundInv)
    BY TypeStep, IInvSplit
<1>2. /\ Sound' => Sound
      /\ ~UseBlockCache /\ Bitmapped = Blocks => (Sound => Sound')
    BY OverrunStep, <1>1
<1>3. ~UseBlockCache /\ Bitmapped = Blocks => Sound'
    BY <1>1, <1>2
<1>4. ASSUME Sound' PROVE SoundInv'
  <2>1. Sound /\ SoundInv
      BY <1>1, <1>2, <1>4
  <2>2. CASE Mount
      BY <2>1, <2>2, <1>1, SoundMount
  <2>3. ASSUME NEW f \in Files, NewWritableFileBlock(f) PROVE SoundInv'
      BY <2>1, <2>3, <1>1, <1>4, SoundNewBlock
  <2>4. CASE AbortWhenFull \/ UndefinedPop \/ UNCHANGED vars
    <3>1. UNCHANGED <<inUse, next, extent, freeBlocks, cache, pad, blocksWritten, chain>>
        BY <2>4 DEF AbortWhenFull, UndefinedPop, vars, image, session
    <3> QED
        BY <2>1, <3>1, SoundStutter
  <2>5. ASSUME NEW f \in Files, Unlink(f) PROVE SoundInv'
      BY <2>1, <2>5, <1>1, SoundUnlink
  <2>6. ASSUME NEW f \in Files, NEW k \in 1 .. MaxChain, Truncate(f, k) PROVE SoundInv'
      BY <2>1, <2>6, <1>1, SoundTruncate
  <2> QED
      BY <2>2, <2>3, <2>4, <2>5, <2>6 DEF Next
<1> QED
    BY <1>1, <1>3, <1>4
    DEF IInv, SoundInv, ExclusiveWhileSound, MarkedWhileSound, ChainsOnDisk, FreeCountExact,
        CacheIsFree, HeadersWritten

(* The inductive invariant holds in every reachable state. *)
LEMMA IInvCorrect == Spec => []IInv
    BY IInvInit, IInvStep, PTL DEF Spec

-----------------------------------------------------------------------------

(* While no deque ran empty and the bitmap was not overrun, no block id    *)
(* that buildWritableFileBlock returns belongs to a file already, whatever *)
(* the number of blocks, files and sessions.                               *)
THEOREM HandedOutOnce == Spec => []ExclusiveWhileSound
<1>1. IInv => ExclusiveWhileSound
    BY DEF IInv
<1> QED
    BY <1>1, IInvCorrect, PTL

(* Every block handed out has its bit set, across unlinks, truncations and *)
(* new mounts.                                                             *)
THEOREM HandedOutMarked == Spec => []MarkedWhileSound
<1>1. IInv => MarkedWhileSound
    BY DEF IInv
<1> QED
    BY <1>1, IInvCorrect, PTL

(* The next indexes written by setNextIndex, writeBlock and                *)
(* FileBlock::unlink make of every file a list with its own blocks that    *)
(* ends in a block that is its own successor.                              *)
THEOREM WalksTerminate == Spec => []ChainsOnDisk
<1>1. IInv => ChainsOnDisk
    BY DEF IInv
<1> QED
    BY <1>1, IInvCorrect, PTL

(* CoreIO::freeBlocks is exact over a whole session: the increments and    *)
(* decrements of registerBlockWithVolumeBitmap and unlink agree with the   *)
(* bitmap a new mount counts.                                              *)
THEOREM FreeBlocksExact == Spec => []FreeCountExact
<1>1. IInv => FreeCountExact
    BY DEF IInv
<1> QED
    BY <1>1, IInvCorrect, PTL

(* No block is used before writeBlock put its header in the image.         *)
THEOREM NoHeaderMissing == Spec => []HeadersWritten
<1>1. IInv => HeadersWritten
    BY DEF IInv
<1> QED
    BY <1>1, IInvCorrect, PTL

(* writeBlock never seeks over a block that is not in the image.           *)
THEOREM GrowsWithoutHoles == Spec => GrowsByOne
<1>1. IInv /\ [Next]_vars => [Sound' => extent' <= extent + 1]_vars
  <2> SUFFICES ASSUME IInv, [Next]_vars, Sound' PROVE extent' <= extent + 1
      OBVIOUS
  <2>1. TypeOK /\ extent \in Nat
      BY DEF IInv, TypeOK
  <2>2. Sound /\ SoundInv
      BY IInvSplit, OverrunStep, <2>1
  <2>3. ASSUME NEW f \in Files, NewWritableFileBlock(f) PROVE extent' <= extent + 1
    <3>1. PICK id \in Ids :
            /\ IF UseBlockCache THEN PopBlock(id) ELSE NextAvailableBlock(id)
            /\ WriteIfSparse(id)
            /\ LinkBlock(f, id)
        BY <2>3 DEF NewWritableFileBlock
    <3>2. id \in Available /\ id <= extent
        BY <2>1, <2>2, <3>1, ChosenBlock
    <3>3. extent' = IF id = extent THEN extent + 1 ELSE extent
        BY <2>1, <2>2, <3>1, <3>2, WrittenBlock
    <3> QED
        BY <2>1, <3>3
  <2>4. ASSUME UNCHANGED extent PROVE extent' <= extent + 1
      BY <2>1, <2>4
  <2>5. Mount \/ AbortWhenFull \/ UndefinedPop \/ UNCHANGED vars => UNCHANGED extent
      BY DEF Mount, AbortWhenFull, UndefinedPop, image, vars
  <2>6. \A f \in Files : Unlink(f) => UNCHANGED extent
      BY DEF Unlink
  <2>7. \A f \in Files : \A k \in 1 .. MaxChain : Truncate(f, k) => UNCHANGED extent
      BY DEF Truncate
  <2> QED
      BY <2>3, <2>4, <2>5, <2>6, <2>7 DEF Next
<1> QED
    BY <1>1, IInvCorrect, PTL DEF Spec, GrowsByOne

-----------------------------------------------------------------------------
(* The refinement.  Without the block cache, on a volume whose every block *)
(* has a bit, the block builder, the volume bitmap and the chains of the   *)
(* files together are the abstract pool of BlockPool.                      *)

held == [f \in Files |-> BlocksOf(f)]

(* What the abstract pool calls held are the blocks of the chains. *)
LEMMA HeldNow ==
    /\ Pool!HeldBySomebody = UNION {BlocksOf(g) : g \in Files}
    /\ TypeOK => held \in [Files -> SUBSET Ids]
<1>1. TypeOK => \A f \in Files : BlocksOf(f) \subseteq Ids
    BY DEF TypeOK, BlocksOf
<1> QED
    BY <1>1 DEF held, Pool!HeldBySomebody

(* A new image is a pool of which only the root folder's block is held. *)
LEMMA PoolInit == Init => Pool!Init
<1> SUFFICES ASSUME Init PROVE Pool!Init
    OBVIOUS
<1>1. TypeOK
    BY TypeInit
<1>2. \A f \in Files : BlocksOf(f) = IF f = Root THEN {0} ELSE {}
    BY DEF Init, BlocksOf
<1>3. Pool!Disjoint
    BY <1>2 DEF Pool!Disjoint
<1> QED
    BY <1>1, <1>3, HeldNow DEF Pool!Init, held

(* A block the builder chooses is held by nobody: the pool lets it go. *)
LEMMA NewBlockTakes ==
    ASSUME TypeOK, Sound, SoundInv, Sound', NEW f \in Files, NewWritableFileBlock(f)
    PROVE  Pool!Take(f)
<1>1. PICK id \in Ids :
        /\ IF UseBlockCache THEN PopBlock(id) ELSE NextAvailableBlock(id)
        /\ WriteIfSparse(id)
        /\ LinkBlock(f, id)
    BY DEF NewWritableFileBlock
<1>2. id \in Available /\ id <= extent
    BY <1>1, ChosenBlock
<1>3. chain' = [chain EXCEPT ![f] = Append(@, id)]
    BY <1>1, <1>2, WrittenBlock
<1>4. id \notin Pool!HeldBySomebody
    BY <1>2, HeldNow DEF Available, SoundInv, HandedOutIsMarked, Pool!HeldBySomebody
<1>5. BlocksOf(f)' = BlocksOf(f) \union {id}
  <2>1. /\ Len(chain'[f]) = Len(chain[f]) + 1
        /\ chain'[f][Len(chain[f]) + 1] = id
        /\ \A i \in 1 .. Len(chain[f]) : chain'[f][i] = chain[f][i]
        /\ Len(chain[f]) \in Nat
      BY <1>3 DEF TypeOK
  <2> QED
      BY <2>1 DEF BlocksOf
<1>6. \A g \in Files : g # f => BlocksOf(g)' = BlocksOf(g)
    BY <1>3 DEF BlocksOf, TypeOK
<1>7. held' = [held EXCEPT ![f] = @ \union {id}]
    BY <1>5, <1>6 DEF held
<1> QED
    BY <1>4, <1>7 DEF Pool!Take, held

(* A step that takes blocks from one file only gives them back to the      *)
(* pool.                                                                   *)
LEMMA ShortenGives ==
    ASSUME NEW f \in Files,
           BlocksOf(f)' \subseteq BlocksOf(f),
           \A g \in Files : g # f => BlocksOf(g)' = BlocksOf(g)
    PROVE  Pool!Give(f)
<1>1. held'[f] \in SUBSET held[f] /\ held' = [held EXCEPT ![f] = held'[f]]
    BY DEF held
<1> QED
    BY <1>1 DEF Pool!Give, held

(* Unlinking gives back all the blocks of a file. *)
LEMMA UnlinkGives == ASSUME TypeOK, NEW f \in Files, Unlink(f) PROVE Pool!Give(f)
<1>1. \A g \in Files : chain'[g] = IF g = f THEN << >> ELSE chain[g]
    BY DEF Unlink, TypeOK
<1>2. BlocksOf(f)' \subseteq BlocksOf(f)
    BY <1>1 DEF BlocksOf
<1>3. \A g \in Files : g # f => BlocksOf(g)' = BlocksOf(g)
    BY <1>1 DEF BlocksOf
<1> QED
    BY <1>2, <1>3, ShortenGives

(* Truncating gives back the blocks behind the new end. *)
LEMMA TruncateGives ==
    ASSUME TypeOK, NEW f \in Files, NEW k \in 1 .. MaxChain, Truncate(f, k)
    PROVE  Pool!Give(f)
<1>1. k \in 1 .. Len(chain[f])
    BY DEF Truncate
<1>2. /\ Len(chain'[f]) = k
      /\ \A i \in 1 .. k : chain'[f][i] = chain[f][i]
      /\ \A g \in Files : g # f => chain'[g] = chain[g]
    BY <1>1 DEF Truncate, TypeOK
<1>3. BlocksOf(f)' \subseteq BlocksOf(f)
    BY <1>1, <1>2 DEF BlocksOf
<1>4. \A g \in Files : g # f => BlocksOf(g)' = BlocksOf(g)
    BY <1>2 DEF BlocksOf
<1> QED
    BY <1>3, <1>4, ShortenGives

(* Every step of the allocator is a step of the pool, or changes nothing   *)
(* in it.                                                                  *)
LEMMA PoolStep ==
    ASSUME ~UseBlockCache, Bitmapped = Blocks, IInv, [Next]_vars
    PROVE  [Pool!Next]_held
<1>1. TypeOK /\ Sound /\ SoundInv
    BY IInvSplit
<1>2. Sound'
    BY <1>1, OverrunStep
<1>3. ASSUME NEW f \in Files, NewWritableFileBlock(f) PROVE Pool!Next
    BY <1>1, <1>2, <1>3, NewBlockTakes DEF Pool!Next
<1>4. ASSUME NEW f \in Files, Unlink(f) PROVE Pool!Next
    BY <1>1, <1>4, UnlinkGives DEF Pool!Next
<1>5. ASSUME NEW f \in Files, NEW k \in 1 .. MaxChain, Truncate(f, k) PROVE Pool!Next
    BY <1>1, <1>5, TruncateGives DEF Pool!Next
<1>6. CASE Mount \/ AbortWhenFull \/ UndefinedPop \/ UNCHANGED vars
  <2>1. UNCHANGED chain
      BY <1>6 DEF Mount, AbortWhenFull, UndefinedPop, vars
  <2> QED
      BY <2>1 DEF held, BlocksOf
<1> QED
    BY <1>3, <1>4, <1>5, <1>6 DEF Next

(* buildWritableFileBlock, File::unlink and File::truncate hand out and    *)
(* take back blocks as the pool does: a block has to come back before it   *)
(* is handed out a second time.                                            *)
THEOREM RefinesBlockPool ==
    ASSUME ~UseBlockCache, Bitmapped = Blocks
    PROVE  Spec => ImplementsBlockPool
<1>1. Init => Pool!Init
    BY PoolInit
<1>2. IInv /\ [Next]_vars => [Pool!Next]_held
    BY PoolStep
<1> QED
    BY <1>1, <1>2, IInvCorrect, PTL DEF Spec, ImplementsBlockPool, Pool!Spec, held
=============================================================================
