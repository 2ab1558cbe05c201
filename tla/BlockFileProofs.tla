--------------------------- MODULE BlockFileProofs ---------------------------
(***************************************************************************)
(* A chain of file blocks under a File object implements a file of bytes,  *)
(* for every size and number of blocks and every sequence of the calls     *)
(* File serves.                                                            *)
(***************************************************************************)
EXTENDS BlockFile, SequenceTheorems, WellFoundedInduction, TLAPS

(* The calls File cannot serve are not made. *)
NoMisuse == Misuse = {}

(***************************************************************************)
(* The inductive invariant.  hdr, dat and n are header, data and used, c a *)
(* chain and f a File object.                                              *)
(***************************************************************************)

ImageType(hdr, dat) ==
    /\ hdr \in [Ids -> [size : 0 .. Space, next : Ids]]
    /\ dat \in [Ids -> [1 .. Space -> Bytes]]

(* The blocks of the chain were handed out in its order. *)
Ordered(n, c) ==
    /\ c \in Seq(Ids) /\ c # << >> /\ c[1] = 1
    /\ \A i \in 1 .. Len(c) : i <= c[i] /\ c[i] <= n
    /\ \A i, j \in 1 .. Len(c) : i < j => c[i] < c[j]

Linked(hdr, c) ==
    /\ \A i \in 1 .. Len(c) - 1 : hdr[c[i]].next = c[i + 1]
    /\ hdr[c[Len(c)]].next = c[Len(c)]

(* Full but for the last block, and the last one is there for its bytes.   *)
Packed(hdr, c) ==
    /\ \A i \in 1 .. Len(c) - 1 : hdr[c[i]].size = Space
    /\ Len(c) > 1 => hdr[c[Len(c)]].size > 0

(* The blocks not handed out yet. *)
Fresh(hdr, n) == \A b \in Ids : b > n => hdr[b] = [size |-> 0, next |-> b]

Sound(hdr, dat, n, c) ==
    /\ ImageType(hdr, dat)
    /\ n \in 1 .. MaxBlocks
    /\ Ordered(n, c)
    /\ Linked(hdr, c)
    /\ Packed(hdr, c)
    /\ Fresh(hdr, n)

Total(hdr, c) == (Len(c) - 1) * Space + hdr[c[Len(c)]].size

WorkingBlocks ==
    [id : Ids, seekPos : Int, next : Ids, bytesWritten : Nat, initialBytesWritten : Nat]

Objects ==
    [mode : Modes, fileSize : Nat, blockCount : Nat, blockIndex : Int, pos : Int,
     work : WorkingBlocks]

(* What the File object keeps of the whole chain. *)
Counted(hdr, c, f) ==
    /\ f \in Objects
    /\ f.fileSize = Total(hdr, c)
    /\ f.blockCount = Len(c)

(* Where the object stands in the chain, and what its working block keeps  *)
(* of the header.                                                          *)
Stands(hdr, c, f) ==
    /\ f.blockIndex \in 0 .. Len(c) - 1
    /\ f.work.id = c[f.blockIndex + 1]
    /\ f.work.next = hdr[f.work.id].next
    /\ f.work.bytesWritten = hdr[f.work.id].size
    /\ f.mode = "Overwrite" => f.work.initialBytesWritten = f.work.bytesWritten
    /\ f.work.seekPos \in 0 .. f.work.bytesWritten
    /\ f.pos = f.blockIndex * Space + f.work.seekPos

IInv ==
    /\ start \in {NoBlock, 1}
    /\ standing \in {"usable", "unpositioned", "unusable"}
    /\ start = NoBlock =>
          ImageType(header, data) /\ used = 0 /\ Fresh(header, 0) /\ standing = "unusable"
    /\ start = 1 => Sound(header, data, used, Chain)
    /\ standing # "unusable" => start = 1 /\ Counted(header, Chain, file)
    /\ standing = "usable" => Stands(header, Chain, file)
-----------------------------------------------------------------------------
(***************************************************************************)
(* Induction and arithmetic.                                               *)
(***************************************************************************)

(* A set with 0 in it, and with every number the next one up to n, has all *)
(* up to n.                                                                *)
LEMMA Counting ==
    ASSUME NEW n \in Nat, NEW S, 0 \in S, \A k \in 0 .. n - 1 : k \in S => k + 1 \in S
    PROVE  0 .. n \subseteq S
  <1> DEFINE Less == {p \in Nat \X Nat : p[1] < p[2]}
  <1> DEFINE bad == (0 .. n) \ S
  <1>1. IsWellFoundedOn(Less, Nat)
    BY NatLessThanWellFounded DEF OpToRel
  <1>2. SUFFICES ASSUME bad # {} PROVE FALSE
    OBVIOUS
  <1>3. bad \subseteq Nat
    OBVIOUS
  <1>4. PICK m \in bad : \A y \in bad : ~(<<y, m>> \in Less)
    <2> HIDE DEF Less, bad
    <2> QED BY <1>1, <1>2, <1>3, WFMin
  <1>5. m \in 1 .. n /\ m - 1 \in 0 .. n - 1 /\ m - 1 \in Nat /\ m \in Nat
    BY <1>4
  <1>6. m - 1 \in bad
    BY <1>4, <1>5
  <1>7. <<m - 1, m>> \in Less
    BY <1>5
  <1> QED BY <1>4, <1>6, <1>7, Zenon

(* Division with remainder by the space of a block. *)
LEMMA Division ==
    ASSUME NEW k \in Nat
    PROVE  /\ k \div Space \in Nat
           /\ k % Space \in 0 .. Space - 1
           /\ k = (k \div Space) * Space + (k % Space)
  <1>1. Space \in Nat /\ Space > 0
    BY FileAssumption
  <1>2. k = (k \div Space) * Space + (k % Space) /\ k % Space \in 0 .. Space - 1
    BY <1>1
  <1>3. k \div Space \in Nat
    BY <1>1
  <1> QED BY <1>2, <1>3

(* The places of a block come before those of the blocks after it. *)
LEMMA PlacesInOrder ==
    ASSUME NEW i \in Int, NEW j \in Int, i < j
    PROVE  i * Space + Space <= j * Space /\ i * Space \in Int /\ j * Space \in Int
  <1>1. Space \in Nat /\ Space > 0
    BY FileAssumption
  <1>2. j - i - 1 \in Nat
    OBVIOUS
  <1>3. (j - i - 1) * Space >= 0
    BY <1>1, <1>2
  <1>4. (j - i - 1) * Space = j * Space - i * Space - Space
    BY <1>1
  <1> QED BY <1>1, <1>3, <1>4

(* Two places in blocks are the same only if block and position are.       *)
LEMMA PlacesDiffer ==
    ASSUME NEW i \in Int, NEW j \in Int, NEW s \in 1 .. Space, NEW t \in 1 .. Space,
           i * Space + s = j * Space + t
    PROVE  i = j /\ s = t
  <1>1. Space \in Nat /\ Space > 0 /\ i * Space \in Int /\ j * Space \in Int
    BY FileAssumption
  <1>2. ~(i < j)
    <2>1. SUFFICES ASSUME i < j PROVE FALSE
      OBVIOUS
    <2>2. i * Space + Space <= j * Space
      BY <2>1, PlacesInOrder
    <2> QED BY <1>1, <2>2
  <1>3. ~(j < i)
    <2>1. SUFFICES ASSUME j < i PROVE FALSE
      OBVIOUS
    <2>2. j * Space + Space <= i * Space
      BY <2>1, PlacesInOrder
    <2> QED BY <1>1, <2>2
  <1>4. i = j
    BY <1>2, <1>3
  <1> QED BY <1>1, <1>4

-----------------------------------------------------------------------------
(***************************************************************************)
(* Chains and what is in them.                                             *)
(***************************************************************************)

(* What is known of the blocks of a chain. *)
LEMMA ChainType ==
    ASSUME NEW n \in 0 .. MaxBlocks, NEW c, Ordered(n, c)
    PROVE  /\ Len(c) \in 1 .. MaxBlocks /\ Len(c) \in Nat /\ c \in Seq(Ids)
           /\ \A i \in 1 .. Len(c) : c[i] \in Ids /\ c[i] <= n
           /\ \A i, j \in 1 .. Len(c) : c[i] = c[j] => i = j
           /\ 1 \in 1 .. Len(c) /\ Len(c) \in 1 .. Len(c)
  <1>1. MaxBlocks \in Nat \ {0}
    BY FileAssumption
  <1>2. c \in Seq(Ids) /\ Len(c) \in Nat /\ Len(c) > 0 /\ \A i \in 1 .. Len(c) : c[i] \in Ids
    BY DEF Ordered
  <1>3. Len(c) \in 1 .. Len(c) /\ 1 \in 1 .. Len(c)
    BY <1>2
  <1>4. Len(c) <= c[Len(c)] /\ c[Len(c)] <= n
    BY <1>3 DEF Ordered
  <1>5. c[Len(c)] \in Nat
    BY <1>1, <1>2, <1>3 DEF Ids
  <1>6. Len(c) \in 1 .. MaxBlocks
    BY <1>1, <1>2, <1>4, <1>5
  <1>7. ASSUME NEW i \in 1 .. Len(c), NEW j \in 1 .. Len(c), c[i] = c[j] PROVE i = j
    <2>1. c[i] \in Nat /\ c[j] \in Nat
      BY <1>1, <1>2 DEF Ids
    <2>2. ~(i < j) /\ ~(j < i)
      BY <1>7, <2>1 DEF Ordered
    <2> QED BY <1>2, <2>2
  <1> QED BY <1>2, <1>3, <1>6, <1>7 DEF Ordered

(* FileBlockIterator walks a chain to its end. *)
LEMMA ChainIs ==
    ASSUME NEW n \in 0 .. MaxBlocks, NEW c, Ordered(n, c), NEW hdr, Linked(hdr, c)
    PROVE  ChainFrom(hdr, 1) = c
  <1> DEFINE Walk(w) ==
        w = [k \in 1 .. MaxBlocks |->
                IF k = 1 THEN <<1>>
                ELSE LET d == w[k - 1]
                     IN  IF hdr[Last(d)].next = Last(d) THEN d ELSE Append(d, hdr[Last(d)].next)]
  <1> DEFINE upTo(k) == IF k < Len(c) THEN SubSeq(c, 1, k) ELSE c
  <1>1. /\ Len(c) \in 1 .. MaxBlocks /\ Len(c) \in Nat /\ c \in Seq(Ids) /\ c[1] = 1
        /\ MaxBlocks \in Nat /\ MaxBlocks >= 1
        /\ \A i \in 1 .. Len(c) : c[i] \in Nat
    BY ChainType, FileAssumption DEF Ordered, Ids
  <1>2. upTo(1) = <<1>>
    <2>1. ASSUME NEW k \in 1 .. MaxBlocks, k < Len(c)
          PROVE  LET s == SubSeq(c, 1, k)
                 IN  s \in Seq(Ids) /\ Len(s) = k /\ \A i \in 1 .. k : s[i] = c[i]
      BY <1>1, <2>1
    <2>2. upTo(1) \in Seq(Ids) /\ Len(upTo(1)) = 1 /\ upTo(1)[1] = 1
      <3>1. CASE 1 < Len(c)
        <4>1. 1 \in 1 .. MaxBlocks /\ 1 \in 1 .. 1
          BY <1>1
        <4>2. upTo(1) = SubSeq(c, 1, 1)
          BY <3>1
        <4>3. SubSeq(c, 1, 1) \in Seq(Ids) /\ Len(SubSeq(c, 1, 1)) = 1 /\ SubSeq(c, 1, 1)[1] = c[1]
          BY <2>1, <3>1, <4>1, Zenon
        <4>4. c[1] = 1
          BY <1>1
        <4> HIDE DEF upTo, Walk
        <4> QED BY <4>2, <4>3, <4>4
      <3>2. CASE Len(c) = 1
        <4>1. upTo(1) = c
          BY <3>2
        <4>2. c[1] = 1 /\ c \in Seq(Ids)
          BY <1>1
        <4> HIDE DEF upTo, Walk
        <4> QED BY <3>2, <4>1, <4>2
      <3>3. 1 < Len(c) \/ Len(c) = 1
        <4>1. \A l \in 1 .. MaxBlocks : 1 < l \/ l = 1
          OBVIOUS
        <4> HIDE DEF upTo, Walk
        <4> QED BY <1>1, <4>1, Zenon
      <3> HIDE DEF upTo, Walk
      <3> QED BY <3>1, <3>2, <3>3
    <2> HIDE DEF upTo
    <2> QED BY <2>2
  <1>3. ASSUME NEW k \in 1 .. MaxBlocks - 1, NEW d, d = upTo(k)
        PROVE  upTo(k + 1) = IF hdr[Last(d)].next = Last(d) THEN d ELSE Append(d, hdr[Last(d)].next)
    <2>1. CASE k < Len(c)
      <3>1. d \in Seq(Ids) /\ Len(d) = k /\ Last(d) = c[k] /\ (\A i \in 1 .. k : d[i] = c[i])
        BY <1>1, <1>3, <2>1 DEF Last
      <3>2. k \in 1 .. Len(c) /\ k + 1 \in 1 .. Len(c) /\ k < k + 1
        BY <1>1, <2>1
      <3>3. hdr[c[k]].next = c[k + 1] /\ c[k] < c[k + 1]
        BY <1>1, <2>1, <3>2 DEF Linked, Ordered
      <3>4. c[k] # c[k + 1]
        BY <1>1, <3>2, <3>3
      <3>5. upTo(k + 1) = SubSeq(c, 1, k + 1)
        BY <1>1, <2>1
      <3>6. SubSeq(c, 1, k + 1) = Append(d, c[k + 1])
        BY <1>1, <1>3, <2>1, <3>1, <3>2
      <3> QED BY <3>1, <3>3, <3>4, <3>5, <3>6
    <2>2. CASE ~(k < Len(c))
      <3>1. d = c /\ upTo(k + 1) = c
        BY <1>1, <1>3, <2>2
      <3>2. hdr[Last(c)].next = Last(c)
        BY DEF Linked, Last
      <3> QED BY <3>1, <3>2
    <2> QED BY <2>1, <2>2
  <1> HIDE DEF upTo
  <1>4. Walk([k \in 1 .. MaxBlocks |-> upTo(k)])
    <2> DEFINE w == [k \in 1 .. MaxBlocks |-> upTo(k)]
    <2>1. ASSUME NEW k \in 1 .. MaxBlocks, k # 1
          PROVE  w[k] = LET d == w[k - 1]
                        IN  IF hdr[Last(d)].next = Last(d) THEN d ELSE Append(d, hdr[Last(d)].next)
      <3>1. k - 1 \in 1 .. MaxBlocks - 1 /\ (k - 1) + 1 = k /\ k - 1 \in 1 .. MaxBlocks
        BY <1>1, <2>1
      <3>2. w[k] = upTo(k) /\ w[k - 1] = upTo(k - 1)
        BY <3>1
      <3> HIDE DEF w
      <3> QED BY <1>3, <3>1, <3>2
    <2>2. w[1] = <<1>>
      BY <1>1, <1>2
    <2>3. w = [k \in 1 .. MaxBlocks |-> w[k]]
      OBVIOUS
    <2> HIDE DEF w
    <2>4. Walk(w)
      BY <2>1, <2>2, <2>3, Zenon
    <2> QED BY <2>4 DEF w
  <1> DEFINE f == CHOOSE w : Walk(w)
  <1>5. Walk(f)
    BY <1>4, ZenonT(60)
  <1>6. ChainFrom(hdr, 1) = f[MaxBlocks]
    BY DEF ChainFrom, NoBlock
  <1> HIDE DEF f
  <1> DEFINE S == {k \in 0 .. MaxBlocks - 1 : f[k + 1] = upTo(k + 1)}
  <1>7. 0 \in S
    <2>1. f[1] = <<1>>
      BY <1>1, <1>5
    <2> QED BY <1>1, <1>2, <2>1
  <1>8. ASSUME NEW k \in 0 .. (MaxBlocks - 1) - 1, k \in S PROVE k + 1 \in S
    <2> HIDE DEF S
    <2>1. k + 2 \in 1 .. MaxBlocks /\ k + 2 # 1 /\ (k + 2) - 1 = k + 1 /\ k + 1 \in 1 .. MaxBlocks - 1
          /\ k + 1 \in 0 .. MaxBlocks - 1 /\ (k + 1) + 1 = k + 2
      BY <1>1, SMTT(30)
    <2>2. f[k + 2] = LET d == f[k + 1]
                     IN  IF hdr[Last(d)].next = Last(d) THEN d ELSE Append(d, hdr[Last(d)].next)
      BY <1>5, <2>1, ZenonT(60)
    <2>3. f[k + 1] = upTo(k + 1)
      BY <1>8 DEF S
    <2>4. f[k + 2] = upTo(k + 2)
      BY <1>3, <2>1, <2>2, <2>3
    <2> QED BY <2>1, <2>4 DEF S
  <1>9. f[MaxBlocks] = upTo(MaxBlocks)
    <2>1. MaxBlocks - 1 \in Nat
      BY <1>1
    <2>2. 0 .. MaxBlocks - 1 \subseteq S
      <3> HIDE DEF S
      <3> QED BY <1>7, <1>8, <2>1, Counting
    <2>3. MaxBlocks - 1 \in S /\ (MaxBlocks - 1) + 1 = MaxBlocks
      BY <1>1, <2>1, <2>2
    <2> QED BY <2>3
  <1>10. upTo(MaxBlocks) = c
    BY <1>1 DEF upTo
  <1> QED BY <1>6, <1>9, <1>10
(* The sizes of the blocks of a sound chain. *)
LEMMA Sizes ==
    ASSUME NEW hdr, NEW dat, NEW n, NEW c, Sound(hdr, dat, n, c)
    PROVE  /\ Len(c) \in Nat /\ Len(c) >= 1 /\ Total(hdr, c) \in Nat
           /\ Space \in Nat /\ Space > 0
           /\ \A i \in 1 .. Len(c) : /\ c[i] \in Ids
                                     /\ hdr[c[i]].size \in 0 .. Space
                                     /\ hdr[c[i]].next \in Ids
                                     /\ dat[c[i]] \in [1 .. Space -> Bytes]
                                     /\ i < Len(c) => hdr[c[i]].size = Space
           /\ Len(c) \in 1 .. Len(c) /\ 1 \in 1 .. Len(c)
           /\ (Len(c) - 1) * Space \in Nat
           /\ Total(hdr, c) = (Len(c) - 1) * Space + hdr[c[Len(c)]].size
  <1>1. n \in 0 .. MaxBlocks /\ Ordered(n, c) /\ Space \in Nat /\ Space > 0
    BY FileAssumption DEF Sound
  <1>2. /\ Len(c) \in Nat /\ Len(c) \in 1 .. MaxBlocks
        /\ (\A i \in 1 .. Len(c) : c[i] \in Ids) /\ Len(c) \in 1 .. Len(c) /\ 1 \in 1 .. Len(c)
    BY <1>1, ChainType
  <1>3. ASSUME NEW i \in 1 .. Len(c)
        PROVE  /\ c[i] \in Ids
               /\ hdr[c[i]].size \in 0 .. Space
               /\ hdr[c[i]].next \in Ids
               /\ dat[c[i]] \in [1 .. Space -> Bytes]
               /\ i < Len(c) => hdr[c[i]].size = Space
    <2>1. c[i] \in Ids
      BY <1>2
    <2>2. hdr[c[i]].size \in 0 .. Space /\ hdr[c[i]].next \in Ids /\ dat[c[i]] \in [1 .. Space -> Bytes]
      BY <2>1 DEF Sound, ImageType
    <2>3. i < Len(c) => i \in 1 .. Len(c) - 1
      BY <1>2
    <2> QED BY <2>1, <2>2, <2>3 DEF Sound, Packed
  <1>4. (Len(c) - 1) * Space \in Nat
    <2>1. \A l \in 1 .. MaxBlocks : l - 1 \in Nat
      OBVIOUS
    <2> QED BY <1>1, <1>2, <2>1
  <1>5. hdr[c[Len(c)]].size \in Nat
    BY <1>1, <1>2, <1>3
  <1> QED BY <1>1, <1>2, <1>3, <1>4, <1>5 DEF Total

(* Every place in a block is one of the file. *)
LEMMA PlaceInFile ==
    ASSUME NEW hdr, NEW dat, NEW n, NEW c, Sound(hdr, dat, n, c),
           NEW i \in 1 .. Len(c), NEW s \in 1 .. hdr[c[i]].size
    PROVE  (i - 1) * Space + s \in 1 .. Total(hdr, c) /\ s \in 1 .. Space
  <1> DEFINE L == Len(c)
  <1> DEFINE size == hdr[c[i]].size
  <1>1. /\ L \in Nat /\ Space \in Nat /\ Space > 0 /\ size \in 0 .. Space /\ (L - 1) * Space \in Nat
        /\ Total(hdr, c) = (L - 1) * Space + hdr[c[L]].size /\ hdr[c[L]].size \in Nat
        /\ Total(hdr, c) \in Nat
    BY Sizes
  <1>2. i \in 1 .. L /\ s \in 1 .. size
    OBVIOUS
  <1>3. CASE i = L
    BY <1>1, <1>2, <1>3
  <1>4. CASE i # L
    <2> HIDE DEF L, size
    <2>1. i - 1 < L - 1 /\ i - 1 \in Int /\ L - 1 \in Int /\ i - 1 >= 0
      BY <1>1, <1>2, <1>4
    <2>2. (i - 1) * Space + Space <= (L - 1) * Space
      BY <2>1, PlacesInOrder
    <2>3. (i - 1) * Space \in Int /\ (i - 1) * Space >= 0
      BY <1>1, <2>1
    <2> DEFINE a == (i - 1) * Space
    <2> DEFINE b == (L - 1) * Space
    <2>4. a \in Int /\ a >= 0 /\ a + Space <= b /\ b \in Nat
      BY <1>1, <2>2, <2>3
    <2>5. Total(hdr, c) \in Nat /\ b <= Total(hdr, c)
      BY <1>1
    <2>6. s \in 1 .. Space
      BY <1>1, <1>2
    <2> HIDE DEF a, b
    <2>7. a + s \in 1 .. Total(hdr, c)
      BY <1>1, <2>4, <2>5, <2>6
    <2> QED BY <2>6, <2>7 DEF a
  <1> QED BY <1>3, <1>4

(* Every byte of the file is at a place in a block. *)
LEMMA PlaceOfByte ==
    ASSUME NEW hdr, NEW dat, NEW n, NEW c, Sound(hdr, dat, n, c),
           NEW k \in 1 .. Total(hdr, c)
    PROVE  /\ (k - 1) \div Space + 1 \in 1 .. Len(c)
           /\ ((k - 1) % Space) + 1 \in 1 .. hdr[c[(k - 1) \div Space + 1]].size
           /\ k = ((k - 1) \div Space) * Space + (((k - 1) % Space) + 1)
  <1> DEFINE L == Len(c)
  <1> DEFINE q == (k - 1) \div Space
  <1> DEFINE r == (k - 1) % Space
  <1>1. /\ L \in Nat /\ L >= 1 /\ Space \in Nat /\ Space > 0 /\ (L - 1) * Space \in Nat
        /\ Total(hdr, c) = (L - 1) * Space + hdr[c[L]].size /\ hdr[c[L]].size \in 0 .. Space
        /\ \A i \in 1 .. L : i < L => hdr[c[i]].size = Space
    BY Sizes
  <1>2. k - 1 \in Nat /\ k \in Nat /\ k <= Total(hdr, c)
    BY Sizes
  <1>3. q \in Nat /\ r \in 0 .. Space - 1 /\ k - 1 = q * Space + r
    BY <1>2, Division
  <1> HIDE DEF q, r, L
  <1>4. q * Space \in Nat
    BY <1>1, <1>3
  <1>5. k = q * Space + (r + 1)
    BY <1>1, <1>2, <1>3, <1>4
  <1>6. q <= L - 1
    <2>1. SUFFICES ASSUME L - 1 < q PROVE FALSE
      BY <1>1, <1>3
    <2>2. (L - 1) * Space + Space <= q * Space
      BY <1>1, <1>3, <2>1, PlacesInOrder
    <2> QED BY <1>1, <1>2, <1>3, <1>4, <1>5, <2>2
  <1>7. q + 1 \in 1 .. L
    BY <1>1, <1>3, <1>6
  <1>8. r + 1 \in 1 .. hdr[c[q + 1]].size
    <2>1. CASE q + 1 < L
      BY <1>1, <1>3, <1>7, <2>1
    <2>2. CASE q + 1 = L
      <3>1. q = L - 1
        BY <1>1, <1>3, <2>2
      <3> QED BY <1>1, <1>2, <1>3, <1>4, <1>5, <2>2, <3>1
    <2> QED BY <1>1, <1>7, <2>1, <2>2
  <1> QED BY <1>5, <1>7, <1>8 DEF q, r, L

(* The bytes of a file are those at the places of its blocks. *)
Holds(hdr, dat, c, content) ==
    /\ content \in Seq(Bytes)
    /\ Len(content) = Total(hdr, c)
    /\ \A i \in 1 .. Len(c) : \A s \in 1 .. hdr[c[i]].size :
          content[(i - 1) * Space + s] = dat[c[i]][s]

(* There is such a sequence, and only one. *)
LEMMA BytesExist ==
    ASSUME NEW hdr, NEW dat, NEW n, NEW c, Sound(hdr, dat, n, c)
    PROVE  \E content : Holds(hdr, dat, c, content)
  <1> DEFINE at(k) == dat[c[(k - 1) \div Space + 1]][((k - 1) % Space) + 1]
  <1> DEFINE content == [k \in 1 .. Total(hdr, c) |-> at(k)]
  <1>1. /\ Total(hdr, c) \in Nat /\ Space \in Nat /\ Space > 0
        /\ \A i \in 1 .. Len(c) : /\ dat[c[i]] \in [1 .. Space -> Bytes]
                                  /\ hdr[c[i]].size \in 0 .. Space
    BY Sizes
  <1>2. ASSUME NEW k \in 1 .. Total(hdr, c) PROVE at(k) \in Bytes
    <2> DEFINE i == (k - 1) \div Space + 1
    <2> DEFINE s == ((k - 1) % Space) + 1
    <2>1. i \in 1 .. Len(c) /\ s \in 1 .. hdr[c[i]].size
      BY PlaceOfByte
    <2> HIDE DEF i, s
    <2>2. s \in 1 .. Space
      BY <1>1, <2>1
    <2>3. dat[c[i]][s] \in Bytes
      BY <1>1, <2>1, <2>2
    <2> QED BY <2>3 DEF i, s
  <1>3. content \in Seq(Bytes) /\ Len(content) = Total(hdr, c)
    <2> HIDE DEF at
    <2> QED BY <1>1, <1>2
  <1>4. ASSUME NEW i \in 1 .. Len(c), NEW s \in 1 .. hdr[c[i]].size
        PROVE  content[(i - 1) * Space + s] = dat[c[i]][s]
    <2> DEFINE k == (i - 1) * Space + s
    <2> DEFINE q == (k - 1) \div Space
    <2> DEFINE r == ((k - 1) % Space) + 1
    <2>1. k \in 1 .. Total(hdr, c) /\ s \in 1 .. Space
      BY PlaceInFile
    <2>2. k = q * Space + r /\ q + 1 \in 1 .. Len(c) /\ r \in 1 .. hdr[c[q + 1]].size
      <3> HIDE DEF k
      <3> QED BY <2>1, PlaceOfByte
    <2>3. content[k] = dat[c[q + 1]][r]
      BY <2>1
    <2>4. i - 1 = q /\ s = r
      <3>1. (i - 1) * Space + s = q * Space + r
        BY <2>2
      <3>2. i - 1 \in Int /\ q \in Int /\ r \in 1 .. Space
        <4> HIDE DEF q, r
        <4>1. hdr[c[q + 1]].size \in 0 .. Space
          BY <1>1, <2>2
        <4>2. q + 1 \in Int
          BY <2>2
        <4>3. q \in Int
          <5>1. k - 1 \in Nat
            BY <1>1, <2>1
          <5> HIDE DEF k
          <5> QED BY <5>1, Division DEF q
        <4> QED BY <1>1, <2>2, <4>1, <4>3
      <3> HIDE DEF q, r
      <3> QED BY <2>1, <3>1, <3>2, PlacesDiffer
    <2> HIDE DEF k, q, r, content
    <2>5. q + 1 = i
      BY <2>4
    <2> QED BY <2>3, <2>4, <2>5 DEF k
  <1> HIDE DEF content
  <1> QED BY <1>3, <1>4 DEF Holds

LEMMA BytesUnique ==
    ASSUME NEW hdr, NEW dat, NEW n, NEW c, Sound(hdr, dat, n, c),
           NEW x, Holds(hdr, dat, c, x), NEW y, Holds(hdr, dat, c, y)
    PROVE  x = y
  <1>1. ASSUME NEW k \in 1 .. Total(hdr, c) PROVE x[k] = y[k]
    <2> DEFINE i == (k - 1) \div Space + 1
    <2> DEFINE s == ((k - 1) % Space) + 1
    <2>1. i \in 1 .. Len(c) /\ s \in 1 .. hdr[c[i]].size /\ k = ((k - 1) \div Space) * Space + s
      BY PlaceOfByte
    <2>2. i - 1 = (k - 1) \div Space
      <3>1. k - 1 \in Nat
        BY Sizes
      <3>2. (k - 1) \div Space \in Nat
        BY <3>1, Division
      <3> QED BY <3>2
    <2> HIDE DEF i, s
    <2>3. k = (i - 1) * Space + s
      BY <2>1, <2>2
    <2> QED BY <2>1, <2>3 DEF Holds
  <1> QED BY <1>1 DEF Holds
(* A prefix of a sequence grows by what comes after it. *)
LEMMA PrefixGrows ==
    ASSUME NEW s \in Seq(Bytes), NEW a \in Nat, NEW b \in Nat, a + b <= Len(s),
           NEW t \in Seq(Bytes), Len(t) = b, \A i \in 1 .. b : t[i] = s[a + i]
    PROVE  SubSeq(s, 1, a + b) = SubSeq(s, 1, a) \o t
  <1> DEFINE u == SubSeq(s, 1, a)
  <1> DEFINE v == SubSeq(s, 1, a + b)
  <1>1. /\ u \in Seq(Bytes) /\ Len(u) = a /\ (\A i \in 1 .. a : u[i] = s[i])
        /\ v \in Seq(Bytes) /\ Len(v) = a + b /\ (\A i \in 1 .. a + b : v[i] = s[i])
    OBVIOUS
  <1>2. t \in Seq(Bytes) /\ Len(t) = b
    OBVIOUS
  <1> HIDE DEF u, v
  <1>3. /\ u \o t \in Seq(Bytes) /\ Len(u \o t) = a + b
        /\ \A i \in 1 .. a + b : (u \o t)[i] = IF i <= a THEN u[i] ELSE t[i - a]
    <2>1. u \in Seq(Bytes) /\ t \in Seq(Bytes)
      BY <1>1
    <2>2. /\ u \o t \in Seq(Bytes) /\ Len(u \o t) = Len(u) + Len(t)
          /\ \A i \in 1 .. Len(u) + Len(t) :
                (u \o t)[i] = IF i <= Len(u) THEN u[i] ELSE t[i - Len(u)]
      BY <2>1, ConcatProperties, Zenon
    <2>3. Len(u) = a /\ Len(t) = b
      BY <1>1, <1>2
    <2> QED BY <2>2, <2>3, Zenon
  <1>4. ASSUME NEW i \in 1 .. a + b PROVE (u \o t)[i] = v[i]
    <2>1. CASE i <= a
      <3>1. i \in 1 .. a
        BY <2>1
      <3> QED BY <1>1, <1>3, <2>1, <3>1
    <2>2. CASE i > a
      <3>1. i - a \in 1 .. b /\ a + (i - a) = i /\ ~(i <= a)
        BY <2>2
      <3>2. t[i - a] = s[i]
        BY <3>1, Zenon
      <3>3. (u \o t)[i] = t[i - a] /\ v[i] = s[i]
        BY <1>1, <1>3, <3>1, Zenon
      <3> QED BY <3>2, <3>3
    <2>3. i <= a \/ i > a
      OBVIOUS
    <2> QED BY <2>1, <2>2, <2>3, Zenon
  <1> QED BY <1>1, <1>3, <1>4 DEF u, v

(* The bytes of the blocks before block k + 1 of a chain. *)
UpTo(hdr, c, k) == IF k = Len(c) THEN Total(hdr, c) ELSE k * Space

LEMMA UpToGrows ==
    ASSUME NEW hdr, NEW dat, NEW n, NEW c, Sound(hdr, dat, n, c), NEW k \in 1 .. Len(c)
    PROVE  /\ UpTo(hdr, c, k - 1) = (k - 1) * Space /\ (k - 1) * Space \in Nat
           /\ UpTo(hdr, c, k) = (k - 1) * Space + hdr[c[k]].size
           /\ UpTo(hdr, c, k) <= Total(hdr, c)
  <1> DEFINE L == Len(c)
  <1>1. /\ L \in Nat /\ L >= 1 /\ Space \in Nat /\ Space > 0 /\ Total(hdr, c) \in Nat
        /\ Total(hdr, c) = (L - 1) * Space + hdr[c[L]].size
        /\ hdr[c[k]].size \in 0 .. Space /\ (k < L => hdr[c[k]].size = Space)
    BY Sizes
  <1> HIDE DEF L
  <1>2. k \in 1 .. L
    BY DEF L
  <1>3. k - 1 # L /\ k - 1 \in Nat
    BY <1>1, <1>2
  <1>4. (k - 1) * Space \in Nat
    BY <1>1, <1>3
  <1>5. UpTo(hdr, c, k) = (k - 1) * Space + hdr[c[k]].size
    <2>1. CASE k = L
      BY <1>1, <2>1 DEF UpTo, L
    <2>2. CASE k # L
      <3>1. k < L /\ k \in Nat
        BY <1>1, <1>2, <2>2
      <3>2. k * Space = (k - 1) * Space + Space
        BY <1>1, <3>1
      <3>3. UpTo(hdr, c, k) = k * Space
        BY <2>2 DEF UpTo, L
      <3> QED BY <1>1, <3>1, <3>2, <3>3
    <2> QED BY <2>1, <2>2
  <1>6. UpTo(hdr, c, k) <= Total(hdr, c)
    <2>1. CASE k = L
      BY <1>1, <2>1 DEF UpTo, L
    <2>2. CASE k # L
      <3>1. k - 1 < L - 1 /\ L - 1 \in Int /\ k < L
        BY <1>1, <1>2, <1>3, <2>2
      <3>2. (k - 1) * Space + Space <= (L - 1) * Space /\ (L - 1) * Space \in Int
        BY <1>3, <3>1, PlacesInOrder
      <3>3. hdr[c[L]].size \in Nat
        BY Sizes DEF L
      <3> DEFINE a == (k - 1) * Space
      <3> DEFINE b == (L - 1) * Space
      <3>4. a \in Nat /\ b \in Int /\ a + Space <= b /\ b <= Total(hdr, c)
        BY <1>1, <1>4, <3>2, <3>3
      <3>5. UpTo(hdr, c, k) = a + Space
        BY <1>1, <1>5, <3>1
      <3> HIDE DEF a, b
      <3> QED BY <1>1, <3>4, <3>5
    <2> QED BY <2>1, <2>2
  <1> QED BY <1>3, <1>4, <1>5, <1>6 DEF UpTo, L

(* The sizes of the blocks of a sound chain make up the size of the file. *)
LEMMA SizeIs ==
    ASSUME NEW hdr, NEW dat, NEW n, NEW c, Sound(hdr, dat, n, c)
    PROVE  SizeOf(hdr, c) = Total(hdr, c)
  <1> DEFINE Sums(w) == w = [k \in 0 .. Len(c) |-> IF k = 0 THEN 0 ELSE w[k - 1] + hdr[c[k]].size]
  <1> DEFINE upTo(k) == UpTo(hdr, c, k)
  <1>1. Len(c) \in Nat /\ Len(c) >= 1 /\ upTo(Len(c)) = Total(hdr, c)
    BY Sizes DEF UpTo
  <1>2. upTo(0) = 0
    BY <1>1, FileAssumption DEF UpTo
  <1>3. ASSUME NEW k \in 1 .. Len(c) PROVE upTo(k) = upTo(k - 1) + hdr[c[k]].size
    BY UpToGrows
  <1> HIDE DEF upTo
  <1>4. Sums([k \in 0 .. Len(c) |-> upTo(k)])
    <2> DEFINE w == [k \in 0 .. Len(c) |-> upTo(k)]
    <2>1. ASSUME NEW k \in 0 .. Len(c), k # 0 PROVE w[k] = w[k - 1] + hdr[c[k]].size
      <3>1. k \in 1 .. Len(c) /\ k - 1 \in 0 .. Len(c)
        BY <1>1, <2>1
      <3>2. w[k] = upTo(k) /\ w[k - 1] = upTo(k - 1)
        BY <3>1
      <3> HIDE DEF w
      <3> QED BY <1>3, <3>1, <3>2
    <2>2. w[0] = 0
      BY <1>1, <1>2
    <2>3. w = [k \in 0 .. Len(c) |-> w[k]]
      OBVIOUS
    <2> HIDE DEF w
    <2>4. Sums(w)
      BY <2>1, <2>2, <2>3
    <2> QED BY <2>4 DEF w
  <1> DEFINE f == CHOOSE w : Sums(w)
  <1>5. Sums(f)
    BY <1>4
  <1>6. SizeOf(hdr, c) = f[Len(c)]
    BY DEF SizeOf
  <1> HIDE DEF f
  <1> DEFINE S == {k \in 0 .. Len(c) : f[k] = upTo(k)}
  <1>7. 0 \in S
    BY <1>1, <1>2, <1>5
  <1>8. ASSUME NEW k \in 0 .. Len(c) - 1, k \in S PROVE k + 1 \in S
    <2>1. k + 1 \in 1 .. Len(c) /\ k + 1 \in 0 .. Len(c) /\ k + 1 # 0 /\ (k + 1) - 1 = k
      BY <1>1
    <2>2. f[k + 1] = f[k] + hdr[c[k + 1]].size
      BY <1>5, <2>1
    <2>3. upTo(k + 1) = upTo(k) + hdr[c[k + 1]].size
      BY <1>3, <2>1
    <2> QED BY <1>8, <2>1, <2>2, <2>3
  <1>9. 0 .. Len(c) \subseteq S
    <2> HIDE DEF S
    <2> QED BY <1>1, <1>7, <1>8, Counting
  <1>10. f[Len(c)] = upTo(Len(c))
    BY <1>1, <1>9
  <1> QED BY <1>1, <1>6, <1>10

(* The bytes read block by block are those at the places. *)
LEMMA ContentIs ==
    ASSUME NEW hdr, NEW dat, NEW n, NEW c, Sound(hdr, dat, n, c),
           NEW content, Holds(hdr, dat, c, content)
    PROVE  ContentOf(hdr, dat, c) = content
  <1> DEFINE Joins(w) ==
        w = [k \in 0 .. Len(c) |->
                IF k = 0 THEN << >> ELSE w[k - 1] \o BytesOf(dat[c[k]], 0, hdr[c[k]].size)]
  <1> DEFINE upTo(k) == SubSeq(content, 1, UpTo(hdr, c, k))
  <1>1. /\ Len(c) \in Nat /\ Len(c) >= 1 /\ content \in Seq(Bytes) /\ Len(content) = Total(hdr, c)
        /\ Total(hdr, c) \in Nat
    BY Sizes DEF Holds
  <1>2. upTo(0) = << >>
    <2>1. UpTo(hdr, c, 0) = 0
      BY <1>1, FileAssumption DEF UpTo
    <2> QED BY <1>1, <2>1
  <1>3. ASSUME NEW k \in 1 .. Len(c)
        PROVE  upTo(k) = upTo(k - 1) \o BytesOf(dat[c[k]], 0, hdr[c[k]].size)
    <2> DEFINE a == (k - 1) * Space
    <2> DEFINE b == hdr[c[k]].size
    <2> DEFINE t == BytesOf(dat[c[k]], 0, b)
    <2>1. UpTo(hdr, c, k - 1) = a /\ UpTo(hdr, c, k) = a + b /\ a \in Nat /\ a + b <= Total(hdr, c)
      BY UpToGrows
    <2>2. b \in 0 .. Space /\ Space \in Nat
      BY Sizes
    <2>3. ASSUME NEW i \in 1 .. b PROVE t[i] = content[a + i]
      <3>1. t[i] = IF 0 + i <= Space THEN dat[c[k]][0 + i] ELSE Foreign
        BY DEF BytesOf
      <3>2. i <= Space /\ 0 + i = i
        BY <2>2
      <3>3. content[a + i] = dat[c[k]][i]
        BY DEF Holds
      <3> QED BY <3>1, <3>2, <3>3
    <2>4. t \in Seq(Bytes) /\ Len(t) = b
      <3>1. \A i \in 1 .. b : t[i] \in Bytes
        <4>1. \A i \in 1 .. b : a + i \in 1 .. Len(content)
          <5>1. b \in Nat
            BY <2>2
          <5> HIDE DEF a, b
          <5> QED BY <1>1, <2>1, <5>1
        <4> HIDE DEF a, b, t
        <4> QED BY <1>1, <2>3, <4>1
      <3>2. t = [i \in 1 .. b |-> t[i]] /\ b \in Nat
        BY <2>2 DEF BytesOf
      <3> HIDE DEF t, b, a
      <3> QED BY <3>1, <3>2
    <2>5. SubSeq(content, 1, a + b) = SubSeq(content, 1, a) \o t
      <3>1. b \in Nat
        BY <2>2
      <3>2. a \in Nat /\ a + b <= Len(content)
        BY <1>1, <2>1
      <3> HIDE DEF a, b, t
      <3>3. \A i \in 1 .. b : t[i] = content[a + i]
        BY <2>3
      <3>4. content \in Seq(Bytes)
        BY <1>1
      <3> QED BY <2>4, <3>1, <3>2, <3>3, <3>4, PrefixGrows
    <2> QED BY <2>1, <2>5
  <1>4. upTo(Len(c)) = content
    BY <1>1 DEF UpTo
  <1> HIDE DEF upTo
  <1>5. Joins([k \in 0 .. Len(c) |-> upTo(k)])
    <2> DEFINE w == [k \in 0 .. Len(c) |-> upTo(k)]
    <2>1. ASSUME NEW k \in 0 .. Len(c), k # 0
          PROVE  w[k] = w[k - 1] \o BytesOf(dat[c[k]], 0, hdr[c[k]].size)
      <3>1. k \in 1 .. Len(c) /\ k - 1 \in 0 .. Len(c)
        BY <1>1, <2>1
      <3>2. w[k] = upTo(k) /\ w[k - 1] = upTo(k - 1)
        BY <3>1
      <3> HIDE DEF w
      <3> QED BY <1>3, <3>1, <3>2
    <2>2. w[0] = << >>
      BY <1>1, <1>2
    <2>3. w = [k \in 0 .. Len(c) |-> w[k]]
      OBVIOUS
    <2> HIDE DEF w
    <2>4. Joins(w)
      BY <2>1, <2>2, <2>3
    <2> QED BY <2>4 DEF w
  <1> DEFINE f == CHOOSE w : Joins(w)
  <1>6. Joins(f)
    BY <1>5, ZenonT(60)
  <1>7. ContentOf(hdr, dat, c) = f[Len(c)]
    BY DEF ContentOf
  <1> HIDE DEF f
  <1> DEFINE S == {k \in 0 .. Len(c) : f[k] = upTo(k)}
  <1>8. 0 \in S
    BY <1>1, <1>2, <1>6
  <1>9. ASSUME NEW k \in 0 .. Len(c) - 1, k \in S PROVE k + 1 \in S
    <2>1. k + 1 \in 1 .. Len(c) /\ k + 1 \in 0 .. Len(c) /\ k + 1 # 0 /\ (k + 1) - 1 = k
      BY <1>1
    <2>2. f[k + 1] = f[k] \o BytesOf(dat[c[k + 1]], 0, hdr[c[k + 1]].size)
      BY <1>6, <2>1
    <2>3. upTo(k + 1) = upTo(k) \o BytesOf(dat[c[k + 1]], 0, hdr[c[k + 1]].size)
      BY <1>3, <2>1
    <2> QED BY <1>9, <2>1, <2>2, <2>3
  <1>10. 0 .. Len(c) \subseteq S
    <2> HIDE DEF S
    <2> QED BY <1>1, <1>8, <1>9, Counting
  <1>11. f[Len(c)] = upTo(Len(c))
    BY <1>1, <1>10
  <1> QED BY <1>4, <1>7, <1>11

(* The content of a sound chain. *)
LEMMA ContentHeld ==
    ASSUME NEW hdr, NEW dat, NEW n, NEW c, Sound(hdr, dat, n, c)
    PROVE  Holds(hdr, dat, c, ContentOf(hdr, dat, c))
  <1>1. PICK content : Holds(hdr, dat, c, content)
    BY BytesExist
  <1> QED BY <1>1, ContentIs
-----------------------------------------------------------------------------
(***************************************************************************)
(* Positions.                                                              *)
(***************************************************************************)

(* Where PositionFromBegin is right. *)
LEMMA BeginExact ==
    ASSUME NEW off \in Nat, ~(off > Space /\ off % Space = 0),
           NEW t, t = PositionFromBegin(off)
    PROVE  t[1] \in Nat /\ t[2] \in 0 .. Space /\ t[1] * Space + t[2] = off
  <1>1. Space \in Nat /\ Space > 0
    BY FileAssumption
  <1>2. CASE off > Space
    <2>1. off \div Space \in Nat /\ off % Space \in 0 .. Space - 1
          /\ off = (off \div Space) * Space + (off % Space)
      BY Division
    <2>2. off % Space # 0
      BY <1>2
    <2> DEFINE q == off \div Space
    <2> DEFINE r == off % Space
    <2>3. t = <<q, r>>
      <3>1. r > 0
        BY <1>1, <2>1, <2>2
      <3> QED BY <1>2, <3>1 DEF PositionFromBegin
    <2>4. r \in 0 .. Space
      BY <1>1, <2>1
    <2> HIDE DEF q, r
    <2> QED BY <2>1, <2>3, <2>4 DEF q, r
  <1>3. CASE ~(off > Space)
    <2>1. t = <<0, off>>
      BY <1>3 DEF PositionFromBegin
    <2>2. off \in 0 .. Space /\ 0 * Space = 0
      BY <1>1, <1>3
    <2> QED BY <2>1, <2>2
  <1> QED BY <1>2, <1>3

(* From the end, where the last block has size bytes. *)
LEMMA EndExact ==
    ASSUME NEW off \in Int, off <= 0, ~(Abs(off) > Space /\ Abs(off) % Space = 0),
           NEW last \in Nat, NEW size \in 0 .. Space,
           NEW t, t = PositionFromEnd(off, last, size)
    PROVE  t[1] \in Int /\ t[2] \in 0 .. Space /\ t[1] * Space + t[2] = last * Space + size + off
  <1> DEFINE b == PositionFromBegin(Abs(off))
  <1>1. Space \in Nat /\ Space > 0 /\ Abs(off) \in Nat /\ Abs(off) = -off
    BY FileAssumption DEF Abs
  <1>2. b[1] \in Nat /\ b[2] \in 0 .. Space /\ b[1] * Space + b[2] = Abs(off)
    <2> DEFINE a == Abs(off)
    <2>1. a \in Nat /\ ~(a > Space /\ a % Space = 0)
      BY <1>1
    <2> HIDE DEF a
    <2> QED BY <2>1, BeginExact DEF a
  <1>3. t = IF size - b[2] < 0
            THEN <<last - b[1] - 1, Space + (size - b[2])>>
            ELSE <<last - b[1], size - b[2]>>
    BY DEF PositionFromEnd
  <1> DEFINE q == b[1]
  <1> DEFINE r == b[2]
  <1>4. q \in Nat /\ r \in 0 .. Space /\ q * Space + r = -off
    BY <1>1, <1>2
  <1>5. t = IF size - r < 0
            THEN <<last - q - 1, Space + (size - r)>>
            ELSE <<last - q, size - r>>
    BY <1>3
  <1> HIDE DEF q, r, b
  <1>6. q * Space \in Int /\ last * Space \in Int
    BY <1>1, <1>4
  <1>7. CASE size - r < 0
    <2>1. t[1] = last - q - 1 /\ t[2] = Space + (size - r)
      BY <1>5, <1>7
    <2>2. (last - q - 1) * Space = last * Space - q * Space - Space
      BY <1>1, <1>4
    <2>3. t[2] \in 0 .. Space /\ t[1] \in Int
      BY <1>1, <1>4, <1>7, <2>1
    <2> QED BY <1>1, <1>4, <1>6, <2>1, <2>2, <2>3
  <1>8. CASE ~(size - r < 0)
    <2>1. t[1] = last - q /\ t[2] = size - r
      BY <1>5, <1>8
    <2>2. (last - q) * Space = last * Space - q * Space
      BY <1>1, <1>4
    <2>3. t[2] \in 0 .. Space /\ t[1] \in Int
      BY <1>1, <1>4, <1>8, <2>1
    <2> QED BY <1>1, <1>4, <1>6, <2>1, <2>2, <2>3
  <1> QED BY <1>7, <1>8

(* t is a block and a position in it, and together they are pos. *)
Place(t, pos) == t[1] \in Int /\ t[2] \in 0 .. Space /\ t[1] * Space + t[2] = pos

(* From the current position, at seekPos in the block of that index. *)
LEMMA CurrentExact ==
    ASSUME NEW off \in Int, NEW index \in Int, NEW seekPos \in Int
    PROVE  Place(PositionFromCurrent(off, index, seekPos), index * Space + seekPos + off)
  <1> DEFINE t == PositionFromCurrent(off, index, seekPos)
  <1>. SUFFICES t[1] \in Int /\ t[2] \in 0 .. Space /\ t[1] * Space + t[2] = index * Space + seekPos + off
    BY DEF Place
  <1> DEFINE addition == off + seekPos
  <1> DEFINE q == Abs(addition) \div Space
  <1> DEFINE r == Abs(addition) % Space
  <1>1. Space \in Nat /\ Space > 0 /\ addition \in Int
    BY FileAssumption
  <1>2. q \in Nat /\ r \in 0 .. Space - 1 /\ Abs(addition) = q * Space + r
    <2>1. Abs(addition) \in Nat
      BY <1>1 DEF Abs
    <2> DEFINE a == Abs(addition)
    <2> HIDE DEF a
    <2>2. a \div Space \in Nat /\ a % Space \in 0 .. Space - 1 /\ a = (a \div Space) * Space + (a % Space)
      BY <2>1, Division DEF a
    <2> QED BY <2>2 DEF a
  <1>3. t = IF addition >= 0 THEN <<index + q, r>> ELSE <<index - (q + 1), Space - r>>
    BY DEF PositionFromCurrent
  <1>4. Abs(addition) = IF addition < 0 THEN -addition ELSE addition
    BY DEF Abs
  <1>5. addition = off + seekPos
    OBVIOUS
  <1> HIDE DEF q, r, addition, t
  <1>6. q * Space \in Int /\ index * Space \in Int
    BY <1>1, <1>2
  <1>7. CASE addition >= 0
    <2>1. t[1] = index + q /\ t[2] = r
      BY <1>3, <1>7
    <2>2. (index + q) * Space = index * Space + q * Space
      BY <1>1, <1>2
    <2>3. addition = q * Space + r
      BY <1>1, <1>2, <1>4, <1>7
    <2> QED BY <1>1, <1>2, <1>5, <1>6, <2>1, <2>2, <2>3
  <1>8. CASE ~(addition >= 0)
    <2>1. t[1] = index - (q + 1) /\ t[2] = Space - r
      BY <1>3, <1>8
    <2>2. (index - (q + 1)) * Space = index * Space - q * Space - Space
      BY <1>1, <1>2
    <2>3. addition = -(q * Space + r)
      BY <1>1, <1>2, <1>4, <1>6, <1>8
    <2> QED BY <1>1, <1>2, <1>5, <1>6, <2>1, <2>2, <2>3
  <1> QED BY <1>7, <1>8
(* The offsets of a seek that Next makes and Seekable permits. *)
SeekArguments(f, off, way) ==
    /\ off \in Int
    /\ way \in {"beg", "end", "cur"}
    /\ way = "beg" => off >= 0
    /\ way = "end" => off <= 0
    /\ way = "cur" => Stands(header, Chain, f)
    /\ way # "cur" => ~(Abs(off) > Space /\ Abs(off) % Space = 0)

(* The block and the position in it that a seek computes are where the     *)
(* stream position it reports is.                                          *)
LEMMA TargetExact ==
    ASSUME Sound(header, data, used, Chain), NEW f, Counted(header, Chain, f),
           NEW off, NEW way, SeekArguments(f, off, way),
           NEW t, t = Target(f, off, way)
    PROVE  /\ t[1] \in Int /\ t[2] \in 0 .. Space
           /\ t[1] * Space + t[2] = StreamPosition(f, off, way)
  <1>1. /\ Len(Chain) \in Nat /\ Len(Chain) >= 1 /\ Space \in Nat /\ Space > 0
        /\ header[Chain[Len(Chain)]].size \in 0 .. Space
        /\ Total(header, Chain) = (Len(Chain) - 1) * Space + header[Chain[Len(Chain)]].size
    BY Sizes
  <1>2. f.blockCount = Len(Chain) /\ f.fileSize = Total(header, Chain)
    BY DEF Counted
  <1>3. off \in Int /\ way \in {"beg", "end", "cur"}
    BY DEF SeekArguments
  <1>4. CASE way = "beg"
    <2>1. off \in Nat /\ Abs(off) = off
      BY <1>3, <1>4 DEF SeekArguments, Abs
    <2>2. ~(off > Space /\ off % Space = 0)
      BY <1>4, <2>1 DEF SeekArguments
    <2>3. t = PositionFromBegin(off) /\ StreamPosition(f, off, way) = off
      BY <1>4 DEF Target, StreamPosition
    <2>4. t[1] \in Nat /\ t[2] \in 0 .. Space /\ t[1] * Space + t[2] = off
      BY <2>1, <2>2, <2>3, BeginExact
    <2> QED BY <2>3, <2>4
  <1>5. CASE way = "end"
    <2> DEFINE last == Len(Chain) - 1
    <2> DEFINE size == header[Chain[Len(Chain)]].size
    <2>1. t = PositionFromEnd(off, last, size)
      BY <1>2, <1>5 DEF Target
    <2>2. StreamPosition(f, off, way) = last * Space + size + off
      BY <1>1, <1>2, <1>5 DEF StreamPosition
    <2>3. last \in Nat /\ size \in 0 .. Space
      BY <1>1
    <2>4. off <= 0 /\ ~(Abs(off) > Space /\ Abs(off) % Space = 0)
      BY <1>5 DEF SeekArguments
    <2> HIDE DEF last, size
    <2>5. t[1] \in Int /\ t[2] \in 0 .. Space /\ t[1] * Space + t[2] = last * Space + size + off
      BY <1>3, <2>1, <2>3, <2>4, EndExact
    <2> QED BY <2>2, <2>5
  <1>6. CASE way = "cur"
    <2>1. t = PositionFromCurrent(off, f.blockIndex, f.work.seekPos)
      BY <1>6 DEF Target
    <2>2. f.blockIndex \in Int /\ f.work.seekPos \in Int
      BY DEF Counted, Objects, WorkingBlocks
    <2>3. StreamPosition(f, off, way) = f.blockIndex * Space + f.work.seekPos + off
      BY <1>6 DEF StreamPosition, SeekArguments, Stands
    <2>4. t[1] \in Int /\ t[2] \in 0 .. Space
          /\ t[1] * Space + t[2] = f.blockIndex * Space + f.work.seekPos + off
      <3> DEFINE index == f.blockIndex
      <3> DEFINE seekPos == f.work.seekPos
      <3>1. index \in Int /\ seekPos \in Int /\ t = PositionFromCurrent(off, index, seekPos)
        BY <2>1, <2>2
      <3> HIDE DEF index, seekPos
      <3>2. Place(t, index * Space + seekPos + off)
        BY <1>3, <3>1, CurrentExact, Zenon
      <3> QED BY <3>2 DEF index, seekPos, Place
    <2> QED BY <2>3, <2>4
  <1> QED BY <1>3, <1>4, <1>5, <1>6

(* A place that is not behind the end is not behind the bytes of its block. *)
LEMMA WithinBlock ==
    ASSUME NEW hdr, NEW dat, NEW n, NEW c, Sound(hdr, dat, n, c),
           NEW i \in 0 .. Len(c) - 1, NEW s \in 0 .. Space, i * Space + s <= Total(hdr, c)
    PROVE  s \in 0 .. hdr[c[i + 1]].size
  <1> DEFINE L == Len(c)
  <1>1. /\ L \in Nat /\ L >= 1 /\ Space \in Nat /\ Space > 0 /\ (L - 1) * Space \in Nat
        /\ Total(hdr, c) = (L - 1) * Space + hdr[c[L]].size /\ hdr[c[L]].size \in 0 .. Space
        /\ \A k \in 1 .. L : k < L => hdr[c[k]].size = Space
    BY Sizes
  <1> HIDE DEF L
  <1>2. i \in 0 .. L - 1
    BY DEF L
  <1>3. CASE i + 1 < L
    <2>1. i + 1 \in 1 .. L
      BY <1>1, <1>2
    <2> QED BY <1>1, <1>3, <2>1
  <1>4. CASE i = L - 1
    <2>1. i + 1 = L
      BY <1>1, <1>4
    <2> QED BY <1>1, <1>4, <2>1
  <1> QED BY <1>1, <1>2, <1>3, <1>4

(* A seek puts the object where it says. *)
LEMMA PositionedRight ==
    ASSUME Sound(header, data, used, Chain), NEW f, Counted(header, Chain, f),
           NEW off, NEW way, SeekArguments(f, off, way),
           InBounds(f, Target(f, off, way)), StreamPosition(f, off, way) <= Total(header, Chain),
           NEW g, g = Positioned(f, off, way)
    PROVE  /\ Counted(header, Chain, g) /\ Stands(header, Chain, g)
           /\ g.mode = f.mode /\ g.pos \in 0 .. Total(header, Chain)
  <1> DEFINE t == Target(f, off, way)
  <1> DEFINE i == t[1]
  <1> DEFINE s == t[2]
  <1>1. i \in Int /\ s \in 0 .. Space /\ i * Space + s = StreamPosition(f, off, way)
    BY TargetExact
  <1>2. Len(Chain) \in Nat /\ Total(header, Chain) \in Nat /\ Space \in Nat /\ Space > 0
    BY Sizes
  <1>3. f.blockCount = Len(Chain)
    BY DEF Counted
  <1>4. i \in 0 .. Len(Chain) - 1
    BY <1>1, <1>2, <1>3 DEF InBounds
  <1> DEFINE b == Chain[i + 1]
  <1>5. g = [f EXCEPT !.blockIndex = i,
                      !.work = [BlockAt(header, b) EXCEPT !.seekPos = s],
                      !.pos = StreamPosition(f, off, way)]
    BY DEF Positioned
  <1> HIDE DEF t, i, s
  <1>6. i + 1 \in 1 .. Len(Chain)
    BY <1>2, <1>4
  <1>7. b \in Ids /\ header[b].size \in 0 .. Space /\ header[b].next \in Ids
    BY <1>6, Sizes
  <1>8. s \in 0 .. header[b].size
    BY <1>1, <1>4, WithinBlock
  <1>9. StreamPosition(f, off, way) \in 0 .. Total(header, Chain)
    <2>1. i * Space \in Nat
      BY <1>2, <1>4
    <2> QED BY <1>1, <1>2, <2>1
  <1> HIDE DEF b
  <1>10. [BlockAt(header, b) EXCEPT !.seekPos = s]
           = [id |-> b, seekPos |-> s, next |-> header[b].next,
              bytesWritten |-> header[b].size, initialBytesWritten |-> header[b].size]
    BY DEF BlockAt
  <1> DEFINE work == [BlockAt(header, b) EXCEPT !.seekPos = s]
  <1>11. /\ work.id = b /\ work.seekPos = s /\ work.next = header[b].next
         /\ work.bytesWritten = header[b].size /\ work.initialBytesWritten = header[b].size
         /\ work \in WorkingBlocks
    BY <1>2, <1>7, <1>8, <1>10 DEF WorkingBlocks
  <1> HIDE DEF work
  <1>12. /\ g.mode = f.mode /\ g.fileSize = f.fileSize /\ g.blockCount = f.blockCount
         /\ g.blockIndex = i /\ g.work = work /\ g.pos = StreamPosition(f, off, way)
         /\ g \in Objects
    <2> DEFINE pos == StreamPosition(f, off, way)
    <2>1. g = [f EXCEPT !.blockIndex = i, !.work = work, !.pos = pos]
      BY <1>5 DEF work
    <2>2. i \in Int /\ pos \in Int /\ work \in WorkingBlocks /\ f \in Objects
      BY <1>1, <1>9, <1>11 DEF Counted
    <2> HIDE DEF pos
    <2>3. /\ g.mode = f.mode /\ g.fileSize = f.fileSize /\ g.blockCount = f.blockCount
          /\ g.blockIndex = i /\ g.work = work /\ g.pos = pos /\ g \in Objects
      BY <2>1, <2>2 DEF Objects
    <2> QED BY <2>3 DEF pos
  <1>13. Counted(header, Chain, g)
    BY <1>12 DEF Counted
  <1>14. Stands(header, Chain, g)
    BY <1>1, <1>4, <1>8, <1>11, <1>12 DEF Stands, b
  <1> QED BY <1>9, <1>12, <1>13, <1>14
-----------------------------------------------------------------------------
(***************************************************************************)
(* The steps that leave the image as it is.                                *)
(***************************************************************************)

(* Before there is a start block there is nothing. *)
LEMMA NothingStored ==
    ASSUME NEW hdr, NEW dat
    PROVE  ContentOf(hdr, dat, << >>) = << >>
  <1> DEFINE c == << >>
  <1> DEFINE Joins(w) ==
        w = [k \in 0 .. Len(c) |->
                IF k = 0 THEN << >> ELSE w[k - 1] \o BytesOf(dat[c[k]], 0, hdr[c[k]].size)]
  <1>1. Len(c) = 0
    OBVIOUS
  <1>2. Joins([k \in 0 .. Len(c) |-> << >>])
    BY <1>1
  <1> DEFINE f == CHOOSE w : Joins(w)
  <1>3. Joins(f)
    <2> HIDE DEF Joins
    <2> QED BY <1>2
  <1>4. ContentOf(hdr, dat, c) = f[Len(c)]
    BY DEF ContentOf
  <1> HIDE DEF f
  <1>5. f[0] = << >>
    BY <1>1, <1>3
  <1> QED BY <1>1, <1>4, <1>5

LEMMA InitRight == Init => IInv /\ Abstract!Init
  <1> SUFFICES ASSUME Init PROVE IInv /\ Abstract!Init
    OBVIOUS
  <1>1. Space \in Nat /\ MaxBlocks \in Nat \ {0} /\ Zero \in Bytes
    BY FileAssumption
  <1>2. ImageType(header, data)
    BY <1>1 DEF Init, ImageType, Ids
  <1>3. IInv
    BY <1>2 DEF Init, IInv, Fresh, NoBlock
  <1>4. Content = << >>
    <2>1. Chain = << >>
      BY DEF Init, Chain, ChainFrom
    <2> QED BY <2>1, NothingStored DEF Content
  <1>5. standing # "usable" /\ call = NoCall
    BY DEF Init
  <1> QED BY <1>3, <1>4, <1>5 DEF Abstract!Init, Abstract!Unknown, Abstract!NoCall, NoCall

(* The chain and the bytes of a file that is there. *)
LEMMA ContentRight ==
    ASSUME IInv, start # NoBlock
    PROVE  /\ start = 1 /\ Sound(header, data, used, Chain)
           /\ Holds(header, data, Chain, Content)
           /\ Content \in Seq(Bytes) /\ Len(Content) = Total(header, Chain)
           /\ Total(header, Chain) \in Nat
  <1>1. start = 1 /\ Sound(header, data, used, Chain)
    BY DEF IInv
  <1>2. Holds(header, data, Chain, Content)
    BY <1>1, ContentHeld DEF Content
  <1> QED BY <1>1, <1>2, Sizes DEF Holds

(* A usable object stands within the file. *)
LEMMA PositionRight ==
    ASSUME IInv, standing = "usable"
    PROVE  file.pos \in 0 .. Total(header, Chain) /\ start # NoBlock
  <1>1. start # NoBlock /\ Stands(header, Chain, file) /\ Counted(header, Chain, file)
    BY DEF IInv, NoBlock
  <1>2. Sound(header, data, used, Chain)
    BY <1>1, ContentRight
  <1> DEFINE i == file.blockIndex
  <1> DEFINE s == file.work.seekPos
  <1>3. i \in 0 .. Len(Chain) - 1 /\ file.pos = i * Space + s /\ s \in 0 .. header[Chain[i + 1]].size
    BY <1>1 DEF Stands
  <1>4. /\ Len(Chain) \in Nat /\ Space \in Nat /\ Space > 0 /\ Total(header, Chain) \in Nat
        /\ \A k \in 1 .. Len(Chain) : header[Chain[k]].size \in 0 .. Space
    BY <1>2, Sizes
  <1> HIDE DEF i, s
  <1>5. i + 1 \in 1 .. Len(Chain) /\ i * Space \in Nat /\ i \in Nat
    BY <1>3, <1>4
  <1>6. CASE s = 0
    <2>1. file.pos = (i + 1 - 1) * Space
      BY <1>3, <1>4, <1>5, <1>6
    <2>2. UpTo(header, Chain, i + 1) = (i + 1 - 1) * Space + header[Chain[i + 1]].size
          /\ UpTo(header, Chain, i + 1) <= Total(header, Chain) /\ (i + 1 - 1) * Space \in Nat
      BY <1>2, <1>5, UpToGrows
    <2>3. header[Chain[i + 1]].size \in Nat
      BY <1>4, <1>5
    <2> QED BY <1>1, <1>4, <2>1, <2>2, <2>3
  <1>7. CASE s # 0
    <2>1. s \in 1 .. header[Chain[i + 1]].size
      <3>1. header[Chain[i + 1]].size \in Nat
        BY <1>4, <1>5
      <3> QED BY <1>3, <1>7, <3>1
    <2>2. (i + 1 - 1) * Space + s \in 1 .. Total(header, Chain)
      BY <1>2, <1>5, <2>1, PlaceInFile
    <2>3. i + 1 - 1 = i
      BY <1>5
    <2> QED BY <1>1, <1>3, <1>4, <2>2, <2>3
  <1> QED BY <1>6, <1>7

(* A step that moves the object and leaves the image alone. *)
LEMMA OnlyTheObject ==
    ASSUME IInv, start # NoBlock, UNCHANGED image, Counted(header, Chain, file'),
           standing' \in {"usable", "unpositioned"},
           standing' = "usable" => Stands(header, Chain, file')
    PROVE  IInv' /\ Chain' = Chain /\ Content' = Content
  <1>1. header' = header /\ data' = data /\ start' = start /\ used' = used
    BY DEF image
  <1>2. Chain' = Chain
    BY <1>1 DEF Chain
  <1>3. Content' = Content
    BY <1>1, <1>2 DEF Content
  <1>4. start = 1 /\ Sound(header, data, used, Chain) /\ 1 # NoBlock
    BY DEF IInv, NoBlock
  <1>5. IInv'
    BY <1>1, <1>2, <1>4 DEF IInv
  <1> QED BY <1>2, <1>3, <1>5

(* A file that has just been given its start block is empty. *)
LEMMA CreateRight ==
    ASSUME IInv, Create
    PROVE  IInv' /\ UNCHANGED <<Content, standing, file, call>>
  <1> DEFINE c == <<1>>
  <1>1. /\ start = NoBlock /\ start' = 1 /\ used' = 1 /\ header' = header /\ data' = data
        /\ UNCHANGED <<file, standing, call>>
        /\ ImageType(header, data) /\ Fresh(header, 0) /\ standing = "unusable"
    BY DEF Create, IInv
  <1>2. MaxBlocks \in Nat \ {0} /\ 1 \in Ids /\ Space \in Nat
    BY FileAssumption DEF Ids
  <1>3. header[1] = [size |-> 0, next |-> 1]
    BY <1>1, <1>2 DEF Fresh
  <1>4. c \in Seq(Ids) /\ Len(c) = 1 /\ c[1] = 1 /\ c # << >>
    BY <1>2
  <1>5. Ordered(1, c)
    BY <1>4 DEF Ordered
  <1>6. Linked(header, c)
    BY <1>3, <1>4 DEF Linked
  <1>7. Packed(header, c)
    BY <1>4 DEF Packed
  <1>8. Fresh(header, 1)
    BY <1>1 DEF Fresh, Ids
  <1>9. Sound(header, data, 1, c)
    BY <1>1, <1>2, <1>5, <1>6, <1>7, <1>8 DEF Sound
  <1>10. Chain' = c
    <2>1. ChainFrom(header, 1) = c
      BY <1>2, <1>5, <1>6, ChainIs
    <2> QED BY <1>1, <2>1 DEF Chain
  <1>11. Content' = << >>
    <2>1. Total(header, c) = 0
      BY <1>2, <1>3, <1>4 DEF Total
    <2>2. Holds(header, data, c, << >>)
      BY <1>2, <1>3, <1>4, <2>1 DEF Holds
    <2>3. ContentOf(header, data, c) = << >>
      BY <1>9, <2>2, ContentIs
    <2> QED BY <1>1, <1>10, <2>3 DEF Content
  <1>12. Content = << >>
    <2>1. Chain = << >>
      BY <1>1 DEF Chain, ChainFrom
    <2> QED BY <2>1, NothingStored DEF Content
  <1>13. IInv'
    BY <1>1, <1>9, <1>10 DEF IInv, NoBlock
  <1> QED BY <1>1, <1>11, <1>12, <1>13
(* An object that moved within the file is a seek of the abstract file. *)
LEMMA MovedIsSeek ==
    ASSUME IInv, start # NoBlock, Chain' = Chain, Content' = Content, call' = NoCall,
           standing' = "usable" => file'.pos \in 0 .. Total(header, Chain)
    PROVE  Abstract!Seek
  <1>1. Len(Content) = Total(header, Chain)
    BY ContentRight
  <1>2. (IF standing' = "usable" THEN file'.pos ELSE -1) \in 0 .. Len(Content) \union {-1}
    BY <1>1
  <1> QED BY <1>2 DEF Abstract!Seek, Abstract!Unknown, Abstract!NoCall, NoCall

(* An opened file stands at its beginning, or in append mode at its end. *)
LEMMA OpenRight ==
    ASSUME IInv, NEW mode \in Modes, Open(mode)
    PROVE  IInv' /\ Abstract!Seek
  <1> DEFINE counted == [mode |-> mode, fileSize |-> SizeOf(header, Chain), blockCount |-> Len(Chain),
                         blockIndex |-> 0, pos |-> 0, work |-> BlockAt(header, start)]
  <1>1. /\ start # NoBlock /\ standing' = "usable" /\ call' = NoCall /\ UNCHANGED image
        /\ file' = IF mode = "Append" THEN Positioned(counted, 0, "end") ELSE counted
    BY DEF Open
  <1>2. start = 1 /\ Sound(header, data, used, Chain) /\ Total(header, Chain) \in Nat
    BY <1>1, ContentRight
  <1>3. /\ Len(Chain) \in Nat /\ Len(Chain) >= 1 /\ 1 \in 1 .. Len(Chain)
        /\ Len(Chain) \in 1 .. Len(Chain) /\ Space \in Nat /\ Space > 0
        /\ \A k \in 1 .. Len(Chain) :
              Chain[k] \in Ids /\ header[Chain[k]].size \in 0 .. Space /\ header[Chain[k]].next \in Ids
    BY <1>2, Sizes
  <1>4. Chain[1] = 1
    BY <1>2 DEF Sound, Ordered
  <1>5. SizeOf(header, Chain) = Total(header, Chain)
    BY <1>2, SizeIs
  <1> DEFINE work == BlockAt(header, start)
  <1>6. /\ work.id = 1 /\ work.seekPos = 0 /\ work.next = header[1].next
        /\ work.bytesWritten = header[1].size /\ work.initialBytesWritten = header[1].size
        /\ work \in WorkingBlocks
    BY <1>2, <1>3, <1>4 DEF BlockAt, WorkingBlocks
  <1> HIDE DEF work
  <1>7. counted = [mode |-> mode, fileSize |-> Total(header, Chain), blockCount |-> Len(Chain),
                   blockIndex |-> 0, pos |-> 0, work |-> work]
    BY <1>5 DEF work
  <1>8. /\ counted.mode = mode /\ counted.fileSize = Total(header, Chain)
        /\ counted.blockCount = Len(Chain) /\ counted.blockIndex = 0 /\ counted.pos = 0
        /\ counted.work = work /\ counted \in Objects
    BY <1>2, <1>3, <1>6, <1>7 DEF Objects
  <1> HIDE DEF counted
  <1>9. Counted(header, Chain, counted)
    BY <1>8 DEF Counted
  <1>10. Stands(header, Chain, counted)
    <2>1. 0 \in 0 .. Len(Chain) - 1 /\ 0 * Space + 0 = 0 /\ 0 + 1 = 1
      BY <1>3
    <2>2. 0 \in 0 .. header[1].size
      BY <1>3, <1>4
    <2> QED BY <1>4, <1>6, <1>8, <2>1, <2>2 DEF Stands
  <1>11. CASE mode # "Append"
    <2>1. file' = counted
      BY <1>1, <1>11
    <2>2. counted.pos \in 0 .. Total(header, Chain)
      BY <1>2, <1>8
    <2>3. IInv' /\ Chain' = Chain /\ Content' = Content
      BY <1>1, <1>9, <1>10, <2>1, OnlyTheObject
    <2> QED BY <1>1, <2>1, <2>2, <2>3, MovedIsSeek
  <1>12. CASE mode = "Append"
    <2> DEFINE g == Positioned(counted, 0, "end")
    <2>1. file' = g
      BY <1>1, <1>12
    <2>2. SeekArguments(counted, 0, "end")
      BY <1>3 DEF SeekArguments, Abs
    <2>3. StreamPosition(counted, 0, "end") <= Total(header, Chain)
      BY <1>2, <1>8 DEF StreamPosition
    <2>4. InBounds(counted, Target(counted, 0, "end"))
      <3> DEFINE size == header[Chain[Len(Chain)]].size
      <3> DEFINE last == Len(Chain) - 1
      <3>1. Target(counted, 0, "end") = PositionFromEnd(0, last, size)
        BY <1>8 DEF Target
      <3>2. size \in Nat /\ last \in Nat
        BY <1>3
      <3>3. PositionFromBegin(Abs(0)) = <<0, 0>>
        BY <1>3 DEF PositionFromBegin, Abs
      <3> HIDE DEF size, last
      <3>4. PositionFromEnd(0, last, size)[1] = last
        BY <3>2, <3>3 DEF PositionFromEnd
      <3> QED BY <1>3, <1>8, <3>1, <3>2, <3>4 DEF InBounds, last
    <2>5. Counted(header, Chain, g) /\ Stands(header, Chain, g) /\ g.pos \in 0 .. Total(header, Chain)
      <3> HIDE DEF g
      <3> QED BY <1>2, <1>9, <2>2, <2>3, <2>4, PositionedRight DEF g
    <2> HIDE DEF g
    <2>6. IInv' /\ Chain' = Chain /\ Content' = Content
      BY <1>1, <2>1, <2>5, OnlyTheObject
    <2> QED BY <1>1, <2>1, <2>5, <2>6, MovedIsSeek
  <1> QED BY <1>11, <1>12

(* A seek leads to the position asked for, to none, or nowhere. *)
LEMMA SeekRight ==
    ASSUME NoMisuse, IInv, NEW off \in Int, NEW way \in {"beg", "end", "cur"},
           way = "beg" => off >= 0, way = "end" => off <= 0, Seek(off, way)
    PROVE  IInv' /\ Abstract!Seek
  <1>1. /\ standing = "usable" \/ (standing = "unpositioned" /\ way # "cur")
        /\ Seekable(off, way) /\ call' = NoCall /\ UNCHANGED image
    BY DEF Seek
  <1>2. start # NoBlock /\ Counted(header, Chain, file)
        /\ (standing = "usable" => Stands(header, Chain, file))
    BY <1>1 DEF IInv, NoBlock
  <1>3. /\ Sound(header, data, used, Chain) /\ Len(Content) = Total(header, Chain)
        /\ Total(header, Chain) \in Nat
    BY <1>2, ContentRight
  <1>4. SeekArguments(file, off, way)
    BY <1>1, <1>2 DEF SeekArguments, Seekable, NoMisuse
  <1>5. CASE InBounds(file, Target(file, off, way))
    <2> DEFINE g == Positioned(file, off, way)
    <2>1. file' = g /\ standing' = "usable"
      BY <1>5 DEF Seek
    <2>2. StreamPosition(file, off, way) <= Total(header, Chain)
      <3>1. ~(StreamPosition(file, off, way) > Len(Content))
        BY <1>1, <1>5 DEF Seekable, NoMisuse
      <3>2. StreamPosition(file, off, way) \in Int
        BY <1>2 DEF StreamPosition, Counted, Objects
      <3> QED BY <1>3, <3>1, <3>2
    <2>3. Counted(header, Chain, g) /\ Stands(header, Chain, g) /\ g.pos \in 0 .. Total(header, Chain)
      <3> HIDE DEF g
      <3> QED BY <1>2, <1>3, <1>4, <1>5, <2>2, PositionedRight DEF g
    <2> HIDE DEF g
    <2>4. IInv' /\ Chain' = Chain /\ Content' = Content
      BY <1>1, <1>2, <2>1, <2>3, OnlyTheObject
    <2> QED BY <1>1, <1>2, <2>1, <2>3, <2>4, MovedIsSeek
  <1>6. CASE ~InBounds(file, Target(file, off, way)) /\ way = "cur"
    <2>1. file' = file /\ standing' = standing /\ standing = "usable"
      BY <1>1, <1>6 DEF Seek
    <2>2. file.pos \in 0 .. Total(header, Chain)
      BY <2>1, PositionRight
    <2>3. IInv' /\ Chain' = Chain /\ Content' = Content
      BY <1>1, <1>2, <2>1, OnlyTheObject
    <2> QED BY <1>1, <1>2, <2>1, <2>2, <2>3, MovedIsSeek
  <1>7. CASE ~InBounds(file, Target(file, off, way)) /\ way # "cur"
    <2>1. file' = [file EXCEPT !.work.seekPos = 0] /\ standing' = "unpositioned"
      BY <1>7 DEF Seek
    <2>2. file \in Objects /\ file.fileSize = Total(header, Chain) /\ file.blockCount = Len(Chain)
      BY <1>2 DEF Counted
    <2>3. /\ file' \in Objects /\ file'.fileSize = file.fileSize
          /\ file'.blockCount = file.blockCount
      BY <2>1, <2>2 DEF Objects, WorkingBlocks
    <2>4. Counted(header, Chain, file')
      BY <2>2, <2>3 DEF Counted
    <2>5. IInv' /\ Chain' = Chain /\ Content' = Content
      BY <1>1, <1>2, <2>1, <2>4, OnlyTheObject
    <2> QED BY <1>1, <1>2, <2>1, <2>5, MovedIsSeek
  <1> QED BY <1>5, <1>6, <1>7
-----------------------------------------------------------------------------
(***************************************************************************)
(* The loops of read and write.                                            *)
(***************************************************************************)

(* A round of the loop for n bytes, or for those of bytes, and none when   *)
(* it is done.                                                             *)
ReadRound(st, n) ==
    IF st.atEnd \/ Len(st.bytes) = n THEN st ELSE readWorkingBlockBytes(st, n)

WriteRound(st, bytes) ==
    IF st.wrote = Len(bytes) THEN st ELSE writeBytes(st, bytes)

Round(loop, arg, st) ==
    IF loop = "read" THEN ReadRound(st, arg) ELSE WriteRound(st, arg)

(* The states of a loop from the first one on, for n rounds. *)
Looped(loop, arg, first, n, w) ==
    w = [k \in 0 .. n |-> IF k = 0 THEN first ELSE Round(loop, arg, w[k - 1])]

(* Every loop can be run for any number of rounds. *)
LEMMA LoopRuns ==
    ASSUME NEW loop, NEW arg, NEW first, NEW n \in Nat
    PROVE  \E w : Looped(loop, arg, first, n, w)
  <1> DEFINE S == {m \in 0 .. n : \E w : Looped(loop, arg, first, m, w)}
  <1>1. 0 \in S
    <2> DEFINE w == [k \in 0 .. 0 |-> first]
    <2>1. \A k \in 0 .. 0 : k = 0
      OBVIOUS
    <2>2. w = [k \in 0 .. 0 |-> IF k = 0 THEN first ELSE Round(loop, arg, w[k - 1])]
      <3> HIDE DEF S
      <3> QED BY <2>1, Zenon
    <2>3. Looped(loop, arg, first, 0, w)
      BY <2>2, Zenon DEF Looped
    <2>4. 0 \in 0 .. n
      OBVIOUS
    <2> QED BY <2>3, <2>4
  <1>2. ASSUME NEW m \in 0 .. n - 1, m \in S PROVE m + 1 \in S
    <2>1. PICK w : Looped(loop, arg, first, m, w)
      BY <1>2
    <2> DEFINE last == Round(loop, arg, w[m])
    <2> HIDE DEF last
    <2> DEFINE g == [k \in 0 .. m + 1 |-> IF k = m + 1 THEN last ELSE w[k]]
    <2>2. \A k \in 0 .. m : g[k] = w[k]
      <3>1. \A k \in 0 .. m : k \in 0 .. m + 1 /\ k # m + 1
        OBVIOUS
      <3> HIDE DEF S
      <3> QED BY <3>1
    <2>3. ASSUME NEW k \in 0 .. m + 1
          PROVE  g[k] = IF k = 0 THEN first ELSE Round(loop, arg, g[k - 1])
      <3>1. CASE k = m + 1
        <4>1. m \in 0 .. m /\ k - 1 = m /\ k # 0
          BY <3>1
        <4>2. g[k] = last /\ g[k - 1] = w[m]
          BY <2>2, <3>1, <4>1
        <4> HIDE DEF g
        <4> QED BY <4>1, <4>2 DEF last
      <3>2. CASE k # m + 1 /\ k # 0
        <4>1. k \in 0 .. m /\ k - 1 \in 0 .. m
          BY <3>2
        <4>2. w[k] = Round(loop, arg, w[k - 1])
          BY <2>1, <3>2, <4>1 DEF Looped
        <4> HIDE DEF g
        <4> QED BY <2>2, <3>2, <4>1, <4>2
      <3>3. CASE k # m + 1 /\ k = 0
        <4>1. 0 \in 0 .. m
          OBVIOUS
        <4>2. w[0] = first
          BY <2>1, <4>1 DEF Looped
        <4> HIDE DEF g
        <4> QED BY <2>2, <3>3, <4>1, <4>2
      <3> QED BY <3>1, <3>2, <3>3
    <2>4. g = [k \in 0 .. m + 1 |-> g[k]]
      OBVIOUS
    <2> HIDE DEF g
    <2>5. Looped(loop, arg, first, m + 1, g)
      BY <2>3, <2>4 DEF Looped
    <2>6. m + 1 \in 0 .. n
      OBVIOUS
    <2> QED BY <2>5, <2>6
  <1>3. 0 .. n \subseteq S
    <2> HIDE DEF S
    <2> QED BY <1>1, <1>2, Counting
  <1>4. n \in S
    BY <1>3
  <1> QED BY <1>4

(* What a loop leaves is what its last round leaves. *)
LEMMA ReadLooped ==
    ASSUME NEW f, NEW n \in Nat
    PROVE  \E w : /\ Looped("read", n, [file |-> f, bytes |-> << >>, atEnd |-> FALSE], n, w)
                  /\ ReadLoop(f, n) = w[n]
  <1> DEFINE first == [file |-> f, bytes |-> << >>, atEnd |-> FALSE]
  <1> DEFINE w == CHOOSE g : Looped("read", n, first, n, g)
  <1>1. Looped("read", n, first, n, w)
    <2> HIDE DEF first
    <2> QED BY LoopRuns
  <1>2. ReadLoop(f, n) = w[n]
    BY DEF ReadLoop, Looped, Round, ReadRound
  <1> QED BY <1>1, <1>2

LEMMA WriteLooped ==
    ASSUME NEW bytes, Len(bytes) \in Nat,
           NEW first, first = [header |-> header, data |-> data, used |-> used, file |-> file,
                               wrote |-> 0]
    PROVE  \E w : /\ Looped("write", bytes, first, Len(bytes), w)
                  /\ WriteLoop(bytes) = w[Len(bytes)]
  <1> DEFINE w == CHOOSE g : Looped("write", bytes, first, Len(bytes), g)
  <1>1. Looped("write", bytes, first, Len(bytes), w)
    BY LoopRuns
  <1>2. WriteLoop(bytes) = w[Len(bytes)]
    BY DEF WriteLoop, Looped, Round, WriteRound
  <1> QED BY <1>1, <1>2
-----------------------------------------------------------------------------
(***************************************************************************)
(* Reading.                                                                *)
(***************************************************************************)

(* No block has been read to its end while there is another one. *)
Reading(hdr, c, f) ==
    f.work.seekPos < f.work.bytesWritten \/ f.blockIndex + 1 = Len(c)

(* Of n bytes from the position of f on, those in st have been read, and   *)
(* its object stands behind them.                                          *)
HasRead(st, n, f) ==
    LET m == Len(st.bytes)
        g == [st.file EXCEPT !.pos = f.pos + m]
    IN  /\ st.bytes \in Seq(Bytes) /\ m <= n /\ f.pos + m <= Total(header, Chain)
        /\ \A i \in 1 .. m : st.bytes[i] = Content[f.pos + i]
        /\ st.file \in Objects /\ st.file.pos = f.pos
        /\ Counted(header, Chain, g) /\ Stands(header, Chain, g) /\ Reading(header, Chain, g)
        /\ st.atEnd \in BOOLEAN /\ (st.atEnd => f.pos + m = Total(header, Chain))

(* The block behind the one that was read to its end. *)
LEMMA NextBlock ==
    ASSUME NEW hdr, NEW dat, NEW n, NEW c, Sound(hdr, dat, n, c), NEW i \in 0 .. Len(c) - 2
    PROVE  /\ hdr[c[i + 1]].next = c[i + 2] /\ hdr[c[i + 1]].size = Space
           /\ c[i + 2] \in Ids /\ hdr[c[i + 2]].size \in 1 .. Space /\ hdr[c[i + 2]].next \in Ids
           /\ (i + 1) * Space = i * Space + Space /\ i * Space \in Nat
  <1> DEFINE L == Len(c)
  <1>1. /\ L \in Nat /\ L >= 1 /\ Space \in Nat /\ Space > 0
        /\ \A k \in 1 .. L : /\ c[k] \in Ids /\ hdr[c[k]].size \in 0 .. Space
                             /\ hdr[c[k]].next \in Ids
                             /\ k < L => hdr[c[k]].size = Space
    BY Sizes
  <1>2. \A k \in 1 .. L - 1 : hdr[c[k]].next = c[k + 1]
    BY DEF Sound, Linked
  <1>3. L > 1 => hdr[c[L]].size > 0
    BY DEF Sound, Packed
  <1> HIDE DEF L
  <1>4. i \in 0 .. L - 2
    BY DEF L
  <1>5. i + 1 \in 1 .. L - 1 /\ i + 1 \in 1 .. L /\ i + 1 < L /\ (i + 1) + 1 = i + 2
        /\ i + 2 \in 1 .. L /\ i \in Nat
    BY <1>1, <1>4
  <1>6. hdr[c[i + 2]].size > 0
    <2>1. CASE i + 2 < L
      BY <1>1, <1>5, <2>1
    <2>2. CASE i + 2 = L
      BY <1>3, <1>5, <2>2
    <2> QED BY <1>1, <1>5, <2>1, <2>2
  <1>7. (i + 1) * Space = i * Space + Space /\ i * Space \in Nat
    BY <1>1, <1>5
  <1> QED BY <1>1, <1>2, <1>5, <1>6, <1>7

(* A round gives the bytes that come next, one of them at least unless the *)
(* end is reached.                                                         *)
LEMMA RoundReads ==
    ASSUME IInv, standing = "usable", NEW n \in Nat, NEW st, HasRead(st, n, file),
           ~st.atEnd, Len(st.bytes) # n,
           NEW new, new = readWorkingBlockBytes(st, n)
    PROVE  HasRead(new, n, file) /\ (new.atEnd \/ Len(new.bytes) > Len(st.bytes))
  <1> DEFINE m == Len(st.bytes)
  <1> DEFINE p == file.pos
  <1> DEFINE T == Total(header, Chain)
  <1> DEFINE g == [st.file EXCEPT !.pos = p + m]
  <1> DEFINE bi == st.file.blockIndex
  <1> DEFINE at == st.file.work.seekPos
  <1> DEFINE id == st.file.work.id
  <1> DEFINE size == bytesToBlockEnd(st.file.work)
  <1> DEFINE k == Least(size, n - m)
  <1> DEFINE B == BytesOf(data[id], at, k)
  <1> DEFINE read == [st.file EXCEPT !.work.seekPos = @ + k]
  <1> DEFINE moved == bi + 1 < st.file.blockCount /\ k = size
  <1> DEFINE object == IF moved
                       THEN [read EXCEPT !.blockIndex = @ + 1, !.work = BlockAt(header, @.next)]
                       ELSE read
  <1> DEFINE h == [object EXCEPT !.pos = p + (m + k)]
  <1>1. start # NoBlock /\ p \in 0 .. T
    BY PositionRight
  <1>2. /\ Sound(header, data, used, Chain) /\ Holds(header, data, Chain, Content)
        /\ Content \in Seq(Bytes) /\ Len(Content) = T /\ T \in Nat
    BY <1>1, ContentRight
  <1>3. /\ Len(Chain) \in Nat /\ Len(Chain) >= 1 /\ Space \in Nat /\ Space > 0
        /\ \A i \in 1 .. Len(Chain) : /\ Chain[i] \in Ids /\ header[Chain[i]].size \in 0 .. Space
                                      /\ header[Chain[i]].next \in Ids
                                      /\ data[Chain[i]] \in [1 .. Space -> Bytes]
                                      /\ i < Len(Chain) => header[Chain[i]].size = Space
        /\ T = (Len(Chain) - 1) * Space + header[Chain[Len(Chain)]].size
    BY <1>2, Sizes
  <1>4. /\ st.bytes \in Seq(Bytes) /\ m \in Nat /\ m < n /\ p + m <= T
        /\ (\A i \in 1 .. m : st.bytes[i] = Content[p + i])
        /\ st.file \in Objects /\ st.file.pos = p
        /\ Counted(header, Chain, g) /\ Stands(header, Chain, g) /\ Reading(header, Chain, g)
    BY DEF HasRead
  <1>5. /\ g.mode = st.file.mode /\ g.fileSize = st.file.fileSize
        /\ g.blockCount = st.file.blockCount /\ g.blockIndex = bi /\ g.work = st.file.work
        /\ g.pos = p + m
    BY <1>4 DEF Objects
  <1>6. /\ st.file.fileSize = T /\ st.file.blockCount = Len(Chain)
        /\ bi \in 0 .. Len(Chain) - 1 /\ id = Chain[bi + 1] /\ st.file.work.next = header[id].next
        /\ st.file.work.bytesWritten = header[id].size /\ at \in 0 .. header[id].size
        /\ (st.file.mode = "Overwrite" =>
              st.file.work.initialBytesWritten = st.file.work.bytesWritten)
        /\ p + m = bi * Space + at
        /\ (at < header[id].size \/ bi + 1 = Len(Chain))
    BY <1>4, <1>5 DEF Counted, Stands, Reading
  <1>7. /\ bi + 1 \in 1 .. Len(Chain) /\ id \in Ids /\ header[id].size \in 0 .. Space
        /\ header[id].next \in Ids /\ data[id] \in [1 .. Space -> Bytes] /\ bi * Space \in Nat
    <2> HIDE DEF bi, id, at, m, p, T, g
    <2>1. bi + 1 \in 1 .. Len(Chain) /\ bi \in Nat /\ id = Chain[bi + 1]
      BY <1>3, <1>6
    <2>2. bi * Space \in Nat
      BY <1>3, <2>1
    <2> QED BY <1>3, <2>1, <2>2
  <1>8. size = header[id].size - at /\ size \in Nat /\ at + size = header[id].size /\ at \in Nat
    <2> DEFINE z == header[id].size
    <2>1. z \in 0 .. Space /\ at \in 0 .. z /\ st.file.work.bytesWritten = z
      BY <1>6, <1>7
    <2>2. size = IF at <= z THEN z - at ELSE MaxRequest + 1
      BY <2>1 DEF bytesToBlockEnd
    <2> HIDE DEF size, at, id, z
    <2>3. size = z - at /\ size \in Nat /\ at + size = z /\ at \in Nat
      BY <1>3, <2>1, <2>2
    <2> QED BY <2>3 DEF z
  <1>9. k \in 0 .. size /\ k \in Nat /\ m + k \in 0 .. n /\ (k = 0 => size = 0) /\ at + k \in 0 .. header[id].size
    <2>1. size \in Nat /\ n - m \in Nat /\ n - m > 0
      BY <1>4, <1>8
    <2>2. k = IF size < n - m THEN size ELSE n - m
      BY DEF Least
    <2> DEFINE z == header[id].size
    <2>3. z \in Nat /\ at + size = z /\ at \in Nat
      BY <1>7, <1>8
    <2> HIDE DEF size, m, at, k, z
    <2>4. k \in 0 .. size /\ k <= n - m /\ k \in Nat /\ (k = 0 => size = 0)
      BY <2>1, <2>2
    <2>5. m + k \in 0 .. n
      BY <1>4, <2>4
    <2>6. at + k \in 0 .. z
      BY <2>1, <2>3, <2>4
    <2> QED BY <2>4, <2>5, <2>6 DEF z
  <1>10. new = [file |-> object, bytes |-> st.bytes \o B, atEnd |-> k = 0]
    BY DEF readWorkingBlockBytes
  <1>11. new.file = object /\ new.bytes = st.bytes \o B /\ new.atEnd = (k = 0)
    <2> HIDE DEF object, B, k
    <2> QED BY <1>10
  <1>12. ASSUME NEW i \in 1 .. k PROVE B[i] = Content[p + m + i] /\ B[i] \in Bytes /\ p + m + i <= T
    <2> HIDE DEF k, size, at, bi, id, p, m, T
    <2>1. at + i \in 1 .. header[id].size /\ at + i \in 1 .. Space
      <3> DEFINE z == header[id].size
      <3>1. z \in 0 .. Space /\ at + k \in 0 .. z /\ at \in Nat /\ k \in Nat /\ i \in 1 .. k
        BY <1>7, <1>8, <1>9
      <3> HIDE DEF z
      <3>2. at + i \in 1 .. z /\ at + i \in 1 .. Space
        BY <1>3, <3>1
      <3> QED BY <3>2 DEF z
    <2>2. B[i] = data[id][at + i]
      BY <2>1 DEF BytesOf
    <2>3. (bi + 1 - 1) * Space + (at + i) \in 1 .. Total(header, Chain)
      BY <1>2, <1>6, <1>7, <2>1, PlaceInFile
    <2>4. Content[(bi + 1 - 1) * Space + (at + i)] = data[id][at + i]
      BY <1>2, <1>6, <1>7, <2>1 DEF Holds
    <2>5. (bi + 1 - 1) * Space + (at + i) = p + m + i
      <3>1. bi + 1 - 1 = bi
        BY <1>6, <1>3
      <3>2. i \in Nat
        BY <1>9
      <3> QED BY <1>6, <1>7, <1>8, <3>1, <3>2
    <2>6. data[id][at + i] \in Bytes
      BY <1>7, <2>1
    <2> QED BY <2>2, <2>3, <2>4, <2>5, <2>6 DEF T
  <1>13. B \in Seq(Bytes) /\ Len(B) = k
    <2>1. B = [i \in 1 .. k |-> B[i]]
      BY DEF BytesOf
    <2> HIDE DEF B, k
    <2> QED BY <1>9, <1>12, <2>1
  <1>14. p + (m + k) <= T
    <2>1. CASE k = 0
      BY <1>4, <2>1
    <2>2. CASE k # 0
      <3> HIDE DEF k, p, m, T
      <3>1. k \in 1 .. k
        BY <1>9, <2>2
      <3>2. p + m + k <= T
        BY <1>12, <3>1
      <3> QED BY <1>1, <1>2, <1>4, <1>9, <3>2
    <2> QED BY <2>1, <2>2
  <1> HIDE DEF k, size, B, m, p, T
  <1>15. /\ new.bytes \in Seq(Bytes) /\ Len(new.bytes) = m + k
         /\ \A i \in 1 .. m + k : new.bytes[i] = Content[p + i]
    <2>1. /\ new.bytes \in Seq(Bytes) /\ Len(new.bytes) = m + k
          /\ \A i \in 1 .. m + k : new.bytes[i] = IF i <= m THEN st.bytes[i] ELSE B[i - m]
      <3> DEFINE A == st.bytes
      <3>1. A \in Seq(Bytes) /\ B \in Seq(Bytes) /\ Len(A) = m /\ Len(B) = k /\ new.bytes = A \o B
        BY <1>4, <1>11, <1>13 DEF m
      <3> HIDE DEF A
      <3>2. /\ A \o B \in Seq(Bytes) /\ Len(A \o B) = Len(A) + Len(B)
            /\ \A i \in 1 .. Len(A) + Len(B) :
                  (A \o B)[i] = IF i <= Len(A) THEN A[i] ELSE B[i - Len(A)]
        BY <3>1, ConcatProperties, Zenon
      <3>3. /\ new.bytes \in Seq(Bytes) /\ Len(new.bytes) = m + k
            /\ \A i \in 1 .. m + k : new.bytes[i] = IF i <= m THEN A[i] ELSE B[i - m]
        BY <3>1, <3>2, Zenon
      <3> QED BY <3>3 DEF A
    <2>2. ASSUME NEW i \in 1 .. m + k PROVE new.bytes[i] = Content[p + i]
      <3>1. CASE i <= m
        <4>1. i \in 1 .. m
          BY <1>4, <1>9, <3>1
        <4> QED BY <1>4, <2>1, <3>1, <4>1
      <3>2. CASE ~(i <= m)
        <4>1. i - m \in 1 .. k /\ p + m + (i - m) = p + i
          BY <1>1, <1>2, <1>4, <1>9, <3>2
        <4>2. B[i - m] = Content[p + i]
          BY <1>12, <4>1
        <4> QED BY <2>1, <3>2, <4>2
      <3> QED BY <3>1, <3>2
    <2> QED BY <2>1, <2>2
  <1>16. /\ object \in Objects /\ object.pos = p
         /\ Counted(header, Chain, h) /\ Stands(header, Chain, h) /\ Reading(header, Chain, h)
    <2> DEFINE work == st.file.work
    <2>1. /\ work \in WorkingBlocks /\ work.id = id /\ work.seekPos = at /\ work.next = header[id].next
          /\ work.bytesWritten = header[id].size /\ at + k \in Int /\ st.file \in Objects
          /\ p + (m + k) \in Int /\ bi + 1 \in Int
      <3>1. st.file \in Objects /\ work \in WorkingBlocks
        BY <1>4 DEF Objects
      <3>2. p \in Nat /\ m \in Nat /\ k \in Nat /\ at \in Nat /\ bi \in Int
        <4>1. m \in Nat /\ k \in Nat /\ at \in Nat
          BY <1>4, <1>8, <1>9
        <4>2. p \in Nat
          BY <1>1, <1>2
        <4>3. bi \in Int
          BY <1>6
        <4> QED BY <4>1, <4>2, <4>3
      <3>3. /\ work.id = id /\ work.seekPos = at /\ work.next = header[id].next
            /\ work.bytesWritten = header[id].size
        BY <1>6
      <3> HIDE DEF bi, at, id, work
      <3> QED BY <3>1, <3>2, <3>3
    <2> DEFINE after == [work EXCEPT !.seekPos = at + k]
    <2>2. read = [st.file EXCEPT !.work = after]
      BY <2>1 DEF Objects, WorkingBlocks
    <2>3. /\ after \in WorkingBlocks /\ after.id = id /\ after.seekPos = at + k
          /\ after.next = header[id].next /\ after.bytesWritten = header[id].size
          /\ after.initialBytesWritten = work.initialBytesWritten
      BY <2>1 DEF WorkingBlocks
    <2> HIDE DEF after
    <2>4. /\ read \in Objects /\ read.mode = st.file.mode /\ read.fileSize = st.file.fileSize
          /\ read.blockCount = st.file.blockCount /\ read.blockIndex = bi /\ read.work = after
          /\ read.pos = p
      BY <1>4, <2>1, <2>2, <2>3 DEF Objects
    <2> HIDE DEF read
    <2>5. CASE ~moved
      <3>1. object = read
        BY <2>5
      <3> HIDE DEF object, moved
      <3>2. /\ h \in Objects /\ h.mode = st.file.mode /\ h.fileSize = st.file.fileSize
            /\ h.blockCount = st.file.blockCount /\ h.blockIndex = bi /\ h.work = after
            /\ h.pos = p + (m + k)
        BY <2>1, <2>4, <3>1 DEF Objects
      <3> HIDE DEF h
      <3>3. Counted(header, Chain, h)
        BY <1>6, <3>2 DEF Counted, T
      <3>4. p + (m + k) = bi * Space + (at + k)
        <4> DEFINE a == bi * Space
        <4>1. p + m = a + at /\ a \in Nat
          BY <1>6, <1>7
        <4>2. m \in Nat /\ k \in Nat /\ at \in Nat
          BY <1>4, <1>8, <1>9
        <4>3. p \in Nat
          BY <1>1, <1>2
        <4> HIDE DEF a, at
        <4>4. p + (m + k) = a + (at + k)
          BY <4>1, <4>2, <4>3
        <4> QED BY <4>4 DEF a
      <3>5. Stands(header, Chain, h)
        <4> HIDE DEF bi, at, id
        <4> QED BY <1>6, <1>9, <2>3, <3>2, <3>4 DEF Stands
      <3>6. at + k < header[id].size \/ bi + 1 = Len(Chain)
        <4>1. ~(bi + 1 < Len(Chain) /\ k = size)
          BY <1>6, <2>5 DEF moved
        <4> DEFINE z == header[id].size
        <4>2. k \in 0 .. size /\ size \in Nat /\ at + size = z /\ at \in Nat
          BY <1>8, <1>9
        <4> HIDE DEF bi, at, id, z
        <4>3. bi + 1 = Len(Chain) \/ k # size
          BY <1>3, <1>7, <4>1
        <4>4. k # size => at + k < z
          BY <4>2
        <4> QED BY <4>3, <4>4 DEF z
      <3>7. Reading(header, Chain, h)
        <4> HIDE DEF bi, at, id
        <4> QED BY <2>3, <3>2, <3>6 DEF Reading
      <3> QED BY <2>4, <3>1, <3>3, <3>5, <3>7
    <2>6. CASE moved
      <3> DEFINE next == BlockAt(header, header[id].next)
      <3>1. bi + 1 < Len(Chain) /\ k = size
        BY <1>6, <2>6
      <3>2. object = [read EXCEPT !.blockIndex = bi + 1, !.work = next]
        <4>1. object = [read EXCEPT !.blockIndex = @ + 1, !.work = BlockAt(header, @.next)]
          BY <2>6
        <4> HIDE DEF object, moved
        <4>2. read.blockIndex = bi /\ read.work.next = header[id].next
          BY <2>3, <2>4
        <4> QED BY <4>1, <4>2
      <3> HIDE DEF object, moved
      <3>3. /\ header[id].next = Chain[bi + 2] /\ header[id].size = Space
            /\ Chain[bi + 2] \in Ids /\ header[Chain[bi + 2]].size \in 1 .. Space
            /\ header[Chain[bi + 2]].next \in Ids
            /\ (bi + 1) * Space = bi * Space + Space
        <4>1. bi \in 0 .. Len(Chain) - 2
          <5> HIDE DEF bi
          <5> QED BY <1>3, <1>6, <3>1
        <4> HIDE DEF bi, id
        <4> QED BY <1>2, <1>6, <4>1, NextBlock, ZenonT(60)
      <3> DEFINE b == Chain[bi + 2]
      <3>4. /\ next.id = b /\ next.seekPos = 0 /\ next.next = header[b].next
            /\ next.bytesWritten = header[b].size /\ next.initialBytesWritten = header[b].size
            /\ next \in WorkingBlocks
        <4> HIDE DEF b
        <4>1. header[id].next = b /\ b \in Ids /\ header[b].size \in Nat /\ header[b].next \in Ids
          BY <1>3, <3>3 DEF b
        <4> QED BY <4>1 DEF BlockAt, WorkingBlocks
      <3> HIDE DEF next
      <3>5. /\ object \in Objects /\ object.mode = st.file.mode /\ object.fileSize = st.file.fileSize
            /\ object.blockCount = st.file.blockCount /\ object.blockIndex = bi + 1
            /\ object.work = next /\ object.pos = p
        <4> HIDE DEF bi, at, id
        <4> QED BY <2>1, <2>4, <3>2, <3>4 DEF Objects
      <3>6. /\ h \in Objects /\ h.mode = st.file.mode /\ h.fileSize = st.file.fileSize
            /\ h.blockCount = st.file.blockCount /\ h.blockIndex = bi + 1 /\ h.work = next
            /\ h.pos = p + (m + k)
        <4> HIDE DEF bi, at, id
        <4> QED BY <2>1, <3>5 DEF Objects
      <3> HIDE DEF h
      <3>7. Counted(header, Chain, h)
        BY <1>6, <3>6 DEF Counted, T
      <3>8. p + (m + k) = (bi + 1) * Space + 0
        <4> DEFINE a == bi * Space
        <4>1. /\ p + m = a + at /\ p \in Nat /\ m \in Nat /\ a \in Nat /\ at \in Nat /\ k \in Nat
              /\ at + k = Space /\ Space \in Nat /\ (bi + 1) * Space = a + Space
          BY <1>1, <1>2, <1>3, <1>4, <1>6, <1>7, <1>8, <1>9, <3>1, <3>3
        <4> DEFINE q == (bi + 1) * Space
        <4> HIDE DEF a, at, q
        <4>2. p + (m + k) = q + 0
          BY <4>1 DEF q
        <4> QED BY <4>2 DEF q
      <3>9. bi + 1 \in 0 .. Len(Chain) - 1 /\ (bi + 1) + 1 = bi + 2 /\ 0 \in 0 .. header[b].size
        <4>1. header[b].size \in 1 .. Space
          BY <3>3
        <4> HIDE DEF bi, b
        <4> QED BY <1>3, <1>6, <3>1, <4>1
      <3>10. Stands(header, Chain, h)
        <4>1. h.blockIndex \in 0 .. Len(Chain) - 1 /\ h.work.id = Chain[h.blockIndex + 1] /\ h.work.id = b
          BY <3>4, <3>6, <3>9
        <4>2. h.pos = h.blockIndex * Space + h.work.seekPos
          BY <3>4, <3>6, <3>8
        <4> HIDE DEF bi, at, id, b
        <4> QED BY <3>4, <3>6, <3>9, <4>1, <4>2 DEF Stands
      <3>11. Reading(header, Chain, h)
        <4>1. 0 < header[b].size
          BY <1>3, <3>3
        <4> HIDE DEF bi, at, id, b
        <4> QED BY <3>4, <3>6, <4>1 DEF Reading
      <3> QED BY <3>5, <3>7, <3>10, <3>11
    <2> QED BY <2>5, <2>6
  <1>17. k = 0 => p + (m + k) = T
    <2> SUFFICES ASSUME k = 0 PROVE p + m = T
      BY <1>1, <1>4
    <2>1. at = header[id].size /\ bi + 1 = Len(Chain)
      BY <1>6, <1>8, <1>9
    <2>2. bi = Len(Chain) - 1
      BY <1>3, <1>6, <2>1
    <2> QED BY <1>3, <1>6, <2>1, <2>2
  <1>18. HasRead(new, n, file)
    <2>1. Len(new.bytes) = m + k /\ m + k <= n /\ new.file = object /\ new.atEnd = (k = 0)
      BY <1>9, <1>11, <1>15
    <2> HIDE DEF object
    <2> QED BY <1>14, <1>15, <1>16, <1>17, <2>1 DEF HasRead, p, T
  <1>19. new.atEnd \/ Len(new.bytes) > m
    <2>1. CASE k = 0
      BY <1>11, <2>1
    <2>2. CASE k # 0
      <3>1. m + k > m
        BY <1>4, <1>9, <2>2
      <3> QED BY <1>15, <3>1, Zenon
    <2> QED BY <2>1, <2>2
  <1> QED BY <1>18, <1>19 DEF m
(* A read gives what was asked for, or all that is left, and stands behind *)
(* it.                                                                     *)
LEMMA ReadRight ==
    ASSUME NoMisuse, IInv, NEW n \in 1 .. MaxRequest, Read(n)
    PROVE  IInv' /\ Abstract!Read
  <1> DEFINE done == ReadLoop(file, n)
  <1> DEFINE m == Len(done.bytes)
  <1> DEFINE T == Total(header, Chain)
  <1> DEFINE first == [file |-> file, bytes |-> << >>, atEnd |-> FALSE]
  <1>1. /\ standing = "usable" /\ ~AtInnerBoundary
        /\ file' = [done.file EXCEPT !.pos = @ + m]
        /\ call' = [asked |-> n, bytes |-> done.bytes] /\ UNCHANGED <<image, standing>>
    BY DEF Read, NoMisuse
  <1>2. start # NoBlock /\ file.pos \in 0 .. T /\ Counted(header, Chain, file) /\ Stands(header, Chain, file)
    BY <1>1, PositionRight DEF IInv
  <1>3. /\ Sound(header, data, used, Chain) /\ Content \in Seq(Bytes) /\ Len(Content) = T /\ T \in Nat
    BY <1>2, ContentRight
  <1>4. n \in Nat /\ n > 0
    BY FileAssumption
  <1>5. PICK w : Looped("read", n, first, n, w) /\ done = w[n]
    BY <1>4, ReadLooped
  <1>6. w[0] = first /\ \A k \in 0 .. n - 1 : w[k + 1] = ReadRound(w[k], n)
    <2>1. w[0] = first
      BY <1>4, <1>5 DEF Looped
    <2>2. ASSUME NEW k \in 0 .. n - 1 PROVE w[k + 1] = ReadRound(w[k], n)
      <3>1. k + 1 \in 0 .. n /\ k + 1 # 0 /\ (k + 1) - 1 = k
        BY <1>4
      <3>2. w[k + 1] = Round("read", n, w[(k + 1) - 1])
        BY <1>5, <3>1, Zenon DEF Looped
      <3> QED BY <3>1, <3>2 DEF Round
    <2> QED BY <2>1, <2>2
  <1>7. HasRead(first, n, file)
    <2> DEFINE g == [file EXCEPT !.pos = file.pos + 0]
    <2>1. file \in Objects
      BY <1>2 DEF Counted
    <2>2. g = file
      BY <1>2, <2>1 DEF Objects
    <2>3. Reading(header, Chain, file)
      <3>1. /\ file.work.seekPos \in 0 .. file.work.bytesWritten /\ file.work.bytesWritten \in Nat
            /\ file.blockIndex \in 0 .. Len(Chain) - 1 /\ file.blockCount = Len(Chain)
        BY <1>2, <2>1 DEF Counted, Stands, Objects, WorkingBlocks
      <3>2. Len(Chain) \in Nat
        BY <1>3, Sizes
      <3> QED BY <1>1, <3>1, <3>2 DEF AtInnerBoundary, Reading
    <2>4. /\ first.file = file /\ first.bytes = << >> /\ first.atEnd = FALSE /\ Len(first.bytes) = 0
      OBVIOUS
    <2>5. /\ << >> \in Seq(Bytes) /\ 0 <= n /\ file.pos + 0 <= T
          /\ \A i \in 1 .. 0 : << >>[i] = Content[file.pos + i]
      BY <1>2, <1>3, <1>4
    <2> HIDE DEF first, T
    <2> QED BY <1>2, <2>1, <2>2, <2>3, <2>4, <2>5 DEF HasRead, T
  <1> HIDE DEF first
  <1> DEFINE S == {k \in 0 .. n : HasRead(w[k], n, file) /\ (w[k].atEnd \/ Len(w[k].bytes) >= k)}
  <1>8. 0 \in S
    <2>1. Len(w[0].bytes) >= 0
      BY <1>6 DEF first
    <2>2. 0 \in 0 .. n
      BY <1>4
    <2> QED BY <1>6, <1>7, <2>1, <2>2
  <1>9. ASSUME NEW k \in 0 .. n - 1, k \in S PROVE k + 1 \in S
    <2> DEFINE st == w[k]
    <2> DEFINE new == w[k + 1]
    <2>1. HasRead(st, n, file) /\ (st.atEnd \/ Len(st.bytes) >= k) /\ new = ReadRound(st, n)
      BY <1>6, <1>9
    <2> HIDE DEF st, new
    <2>2. Len(st.bytes) \in Nat /\ st.atEnd \in BOOLEAN
      BY <2>1 DEF HasRead
    <2>3. HasRead(new, n, file) /\ (new.atEnd \/ Len(new.bytes) >= k + 1)
      <3>1. CASE st.atEnd \/ Len(st.bytes) = n
        <4>1. new = st
          BY <2>1, <3>1 DEF ReadRound
        <4>2. st.atEnd \/ Len(st.bytes) >= k + 1
          BY <1>4, <3>1
        <4> QED BY <2>1, <4>1, <4>2
      <3>2. CASE ~(st.atEnd \/ Len(st.bytes) = n)
        <4>1. new = readWorkingBlockBytes(st, n)
          BY <2>1, <3>2 DEF ReadRound
        <4>2. HasRead(new, n, file) /\ (new.atEnd \/ Len(new.bytes) > Len(st.bytes))
          BY <1>1, <1>4, <2>1, <3>2, <4>1, RoundReads
        <4>3. Len(new.bytes) \in Nat
          BY <4>2 DEF HasRead
        <4>4. Len(new.bytes) > Len(st.bytes) => Len(new.bytes) >= k + 1
          BY <2>1, <2>2, <3>2, <4>3
        <4> QED BY <4>2, <4>4
      <3> QED BY <3>1, <3>2
    <2>4. k + 1 \in 0 .. n
      BY <1>4
    <2> QED BY <2>3, <2>4 DEF new
  <1>10. HasRead(done, n, file) /\ (done.atEnd \/ m >= n)
    <2>1. 0 .. n \subseteq S
      <3> HIDE DEF S
      <3> QED BY <1>4, <1>8, <1>9, Counting
    <2>2. n \in S
      BY <1>4, <2>1
    <2> HIDE DEF done
    <2> QED BY <1>5, <2>2
  <1> HIDE DEF done
  <1> DEFINE g == [done.file EXCEPT !.pos = file.pos + m]
  <1>11. /\ done.bytes \in Seq(Bytes) /\ m \in Nat /\ m <= n /\ file.pos + m <= T
         /\ \A i \in 1 .. m : done.bytes[i] = Content[file.pos + i]
         /\ done.file \in Objects /\ done.file.pos = file.pos
         /\ Counted(header, Chain, g) /\ Stands(header, Chain, g)
         /\ (done.atEnd => file.pos + m = T)
    BY <1>10 DEF HasRead
  <1>12. file' = g
    BY <1>1, <1>11
  <1>13. g.pos = file.pos + m
    BY <1>11 DEF Objects
  <1> HIDE DEF g, m, T
  <1>14. IInv' /\ Chain' = Chain /\ Content' = Content
    BY <1>1, <1>2, <1>11, <1>12, OnlyTheObject
  <1>15. done.bytes = SubSeq(Content, file.pos + 1, file.pos + m)
    <2> DEFINE p == file.pos
    <2> DEFINE s == SubSeq(Content, p + 1, p + m)
    <2>1. p \in Nat /\ m \in Nat /\ p + m <= Len(Content)
      BY <1>2, <1>3, <1>11
    <2> HIDE DEF p
    <2>2. s \in Seq(Bytes) /\ Len(s) = m /\ \A i \in 1 .. m : s[i] = Content[p + i]
      BY <1>3, <2>1
    <2> HIDE DEF s
    <2>3. Len(done.bytes) = m /\ \A i \in 1 .. m : done.bytes[i] = s[i]
      BY <1>11, <2>2 DEF m, p
    <2>4. done.bytes = s
      BY <1>11, <2>1, <2>2, <2>3
    <2> QED BY <2>4 DEF s, p
  <1>16. Abstract!Read
    <2>1. standing' = "usable" /\ file'.pos = file.pos + m /\ file.pos # -1 /\ file.pos \in Nat
      <3>1. file.pos \in Nat
        BY <1>2, <1>3
      <3>2. file'.pos = file.pos + m
        BY <1>12, <1>13
      <3>3. standing' = "usable"
        BY <1>1
      <3> QED BY <3>1, <3>2, <3>3
    <2>2. m \in 0 .. Len(Content) - file.pos
      BY <1>2, <1>3, <1>11
    <2>3. m = n \/ (m = Len(Content) - file.pos /\ m < n)
      BY <1>2, <1>3, <1>4, <1>10, <1>11 DEF m
    <2>4. call'.bytes = done.bytes /\ call'.asked = n
      BY <1>1
    <2> QED BY <1>1, <1>14, <1>15, <2>1, <2>2, <2>3, <2>4 DEF Abstract!Read, Abstract!Unknown
  <1> QED BY <1>14, <1>16
-----------------------------------------------------------------------------
(***************************************************************************)
(* Writing.                                                                *)
(***************************************************************************)

(* old, with the first w of bytes over it from p on. *)
Reach(old, p, w) == IF p + w > Len(old) THEN p + w ELSE Len(old)

Overlaid(old, p, bytes, w) ==
    [i \in 1 .. Reach(old, p, w) |-> IF i \in p + 1 .. p + w THEN bytes[i - p] ELSE old[i]]

(* The state of the loop of File::write. *)
IsState(st) ==
    st = [header |-> st.header, data |-> st.data, used |-> st.used, file |-> st.file,
          wrote |-> st.wrote]

(* The last block of a file has no space left. *)
Full(hdr, c) == hdr[c[Len(c)]].size = Space

(* The first st.wrote of bytes have been written from the position p of a  *)
(* file on that held old, and c is its chain now.  In overwrite mode they  *)
(* all fit in what is there, or the file ends with a full block, where the *)
(* object goes over to append mode.                                        *)
HasWritten(st, bytes, p, old, c) ==
    /\ bytes \in Seq(Bytes) /\ old \in Seq(Bytes) /\ p \in 0 .. Len(old)
    /\ IsState(st)
    /\ Sound(st.header, st.data, st.used, c)
    /\ Counted(st.header, c, st.file) /\ Stands(st.header, c, st.file)
    /\ st.wrote \in 0 .. Len(bytes) /\ st.file.pos = p + st.wrote
    /\ Holds(st.header, st.data, c, Overlaid(old, p, bytes, st.wrote))
    /\ \/ st.file.mode = "Append" /\ st.file.pos = Total(st.header, c)
       \/ st.file.mode = "Overwrite"
             /\ (p + Len(bytes) <= Total(st.header, c) \/ Full(st.header, c))

LEMMA BytesInOrder ==
    ASSUME NEW l \in Nat, NEW X \in [1 .. l -> Bytes]
    PROVE  X \in Seq(Bytes) /\ Len(X) = l
  OBVIOUS

(* It is a sequence of bytes, as long as both of them need. *)
LEMMA OverlaidType ==
    ASSUME NEW old \in Seq(Bytes), NEW p \in Nat, p <= Len(old),
           NEW bytes \in Seq(Bytes), NEW w \in Nat, w <= Len(bytes),
           NEW l, l = Reach(old, p, w)
    PROVE  /\ Overlaid(old, p, bytes, w) \in Seq(Bytes)
           /\ Len(Overlaid(old, p, bytes, w)) = l /\ l \in Nat
           /\ \A x \in 1 .. l : Overlaid(old, p, bytes, w)[x] =
                 IF x \in p + 1 .. p + w THEN bytes[x - p] ELSE old[x]
  <1> DEFINE L == Len(old)
  <1> DEFINE X == Overlaid(old, p, bytes, w)
  <1>1. L \in Nat /\ p <= L /\ Len(bytes) \in Nat
    OBVIOUS
  <1>2. l \in Nat /\ l = IF p + w > L THEN p + w ELSE L
    <2>1. l = IF p + w > L THEN p + w ELSE L
      BY DEF Reach
    <2> HIDE DEF L
    <2> QED BY <1>1, <2>1
  <1>3. /\ X = [x \in 1 .. l |-> X[x]]
        /\ \A x \in 1 .. l : X[x] = IF x \in p + 1 .. p + w THEN bytes[x - p] ELSE old[x]
    BY DEF Overlaid
  <1> HIDE DEF X
  <1>4. ASSUME NEW x \in 1 .. l PROVE X[x] \in Bytes
    <2>1. CASE x \in p + 1 .. p + w
      <3>1. x - p \in 1 .. Len(bytes)
        BY <1>1, <2>1
      <3>2. bytes[x - p] \in Bytes
        BY <3>1
      <3> QED BY <1>3, <2>1, <3>2, Zenon
    <2>2. CASE ~(x \in p + 1 .. p + w)
      <3>1. x \in 1 .. L
        BY <1>1, <1>2, <2>2
      <3>2. old[x] \in Bytes
        BY <3>1
      <3> QED BY <1>3, <2>2, <3>2, Zenon
    <2> QED BY <2>1, <2>2
  <1>5. X \in [1 .. l -> Bytes]
    BY <1>3, <1>4
  <1>6. X \in Seq(Bytes) /\ Len(X) = l
    BY <1>2, <1>5, BytesInOrder, Zenon
  <1> QED BY <1>2, <1>3, <1>6 DEF X

(* dat2 is dat with the k bytes behind the first w in block b from at on. *)
Put(dat, dat2, b, at, bytes, w, k) ==
    /\ dat2 \in [Ids -> [1 .. Space -> Bytes]]
    /\ \A s \in 1 .. Space :
          dat2[b][s] = IF s \in at + 1 .. at + k THEN bytes[w + (s - at)] ELSE dat[b][s]
    /\ \A e \in Ids : e # b => dat2[e] = dat[e]

(* Of the chain c the chain d has all but its block j, which gets no bytes *)
(* but the k behind at.                                                    *)
SameBut(hdr, c, hdr2, d, j, at, k) ==
    /\ \A i \in 1 .. Len(d) : i # j =>
          i \in 1 .. Len(c) /\ d[i] = c[i] /\ hdr2[d[i]].size = hdr[c[i]].size
    /\ \A s \in 1 .. hdr2[d[j]].size : s \in at + 1 .. at + k \/
          (j \in 1 .. Len(c) /\ d[j] = c[j] /\ s \in 1 .. hdr[c[j]].size)

(* A write into the block at index j of a chain, from at on, when no other *)
(* block is changed and the block gets no bytes but those written.         *)
LEMMA WriteHeld ==
    ASSUME NEW hdr, NEW dat, NEW n, NEW c, Sound(hdr, dat, n, c),
           NEW old, NEW p \in Nat, NEW bytes \in Seq(Bytes), NEW w \in Nat, NEW k \in Nat,
           w + k <= Len(bytes), p <= Len(old), old \in Seq(Bytes),
           Holds(hdr, dat, c, Overlaid(old, p, bytes, w)),
           NEW hdr2, NEW dat2, NEW n2, NEW d, Sound(hdr2, dat2, n2, d),
           NEW j \in 1 .. Len(d), NEW at \in Nat, at + k <= Space,
           p + w = (j - 1) * Space + at,
           Total(hdr2, d) = Len(Overlaid(old, p, bytes, w + k)),
           Put(dat, dat2, d[j], at, bytes, w, k), SameBut(hdr, c, hdr2, d, j, at, k)
    PROVE  Holds(hdr2, dat2, d, Overlaid(old, p, bytes, w + k))
  <1> DEFINE X == Overlaid(old, p, bytes, w)
  <1> DEFINE Y == Overlaid(old, p, bytes, w + k)
  <1> DEFINE L == Len(old)
  <1> DEFINE lx == IF p + w > L THEN p + w ELSE L
  <1> DEFINE ly == IF p + (w + k) > L THEN p + (w + k) ELSE L
  <1>1. L \in Nat /\ p <= L /\ lx \in Nat /\ ly \in Nat /\ lx <= ly
        /\ Space \in Nat /\ Space > 0 /\ Len(bytes) \in Nat
    <2>1. L \in Nat /\ p <= L /\ Len(bytes) \in Nat /\ Space \in Nat /\ Space > 0
      BY FileAssumption
    <2> HIDE DEF L
    <2> QED BY <2>1
  <1>2. /\ X \in Seq(Bytes) /\ Len(X) = lx
        /\ \A x \in 1 .. lx : X[x] = IF x \in p + 1 .. p + w THEN bytes[x - p] ELSE old[x]
    <2>1. w <= Len(bytes)
      BY <1>1
    <2>2. lx = Reach(old, p, w)
      BY DEF Reach
    <2> HIDE DEF lx
    <2> QED BY <2>1, <2>2, OverlaidType
  <1>3. /\ Y \in Seq(Bytes) /\ Len(Y) = ly
        /\ \A x \in 1 .. ly : Y[x] = IF x \in p + 1 .. p + (w + k) THEN bytes[x - p] ELSE old[x]
    <2>1. w + k \in Nat
      OBVIOUS
    <2>2. ly = Reach(old, p, w + k)
      BY DEF Reach
    <2> DEFINE v == w + k
    <2>3. v \in Nat /\ v <= Len(bytes) /\ ly = Reach(old, p, v)
      BY <2>1, <2>2
    <2> HIDE DEF ly, v
    <2>4. /\ Overlaid(old, p, bytes, v) \in Seq(Bytes)
          /\ Len(Overlaid(old, p, bytes, v)) = ly
          /\ \A x \in 1 .. ly : Overlaid(old, p, bytes, v)[x] =
                IF x \in p + 1 .. p + v THEN bytes[x - p] ELSE old[x]
      BY <2>3, OverlaidType
    <2> QED BY <2>4 DEF v
  <1> HIDE DEF X, Y
  <1>6. ASSUME NEW x \in 1 .. lx, ~(x \in p + w + 1 .. p + w + k)
        PROVE  Y[x] = X[x]
    <2>1. x \in 1 .. ly /\ (x \in p + 1 .. p + (w + k) <=> x \in p + 1 .. p + w)
      BY <1>1, <1>6
    <2> HIDE DEF lx, ly
    <2> QED BY <1>2, <1>3, <2>1, Zenon
  <1>7. X \in Seq(Bytes) /\ Len(X) = Total(hdr, c) /\ Total(hdr, c) = lx
        /\ \A i \in 1 .. Len(c) : \A s \in 1 .. hdr[c[i]].size : X[(i - 1) * Space + s] = dat[c[i]][s]
    <2>1. X \in Seq(Bytes) /\ Len(X) = Total(hdr, c)
          /\ \A i \in 1 .. Len(c) : \A s \in 1 .. hdr[c[i]].size :
                X[(i - 1) * Space + s] = dat[c[i]][s]
      BY DEF Holds, X
    <2> QED BY <1>2, <2>1
  <1>8. Total(hdr2, d) = ly
    BY <1>3 DEF Y
  <1>9. ASSUME NEW i \in 1 .. Len(d), NEW s \in 1 .. hdr2[d[i]].size
        PROVE  Y[(i - 1) * Space + s] = dat2[d[i]][s]
    <2> DEFINE x == (i - 1) * Space + s
    <2>1. x \in 1 .. ly /\ s \in 1 .. Space /\ i - 1 \in Int /\ j - 1 \in Int
      <3>1. x \in 1 .. Total(hdr2, d) /\ s \in 1 .. Space
        BY PlaceInFile
      <3>2. \A l \in 1 .. Len(d) : l - 1 \in Int
        OBVIOUS
      <3>3. x \in 1 .. ly
        BY <1>8, <3>1
      <3> HIDE DEF x, ly
      <3> QED BY <3>1, <3>2, <3>3
    <2>2. CASE i \in 1 .. Len(c) /\ d[i] = c[i] /\ s \in 1 .. hdr[c[i]].size
               /\ dat2[d[i]][s] = dat[c[i]][s] /\ ~(x \in p + w + 1 .. p + w + k)
      <3>1. x \in 1 .. lx
        <4>1. x \in 1 .. Total(hdr, c)
          BY <2>2, PlaceInFile
        <4> HIDE DEF x, lx
        <4> QED BY <1>7, <4>1
      <3>2. X[x] = dat[c[i]][s]
        BY <1>7, <2>2
      <3> HIDE DEF x, lx, ly
      <3>3. Y[x] = dat2[d[i]][s]
        BY <1>6, <2>2, <3>1, <3>2
      <3> QED BY <3>3 DEF x
    <2>3. CASE i # j
      <3>1. ~(x \in p + w + 1 .. p + w + k)
        <4>1. SUFFICES ASSUME x \in p + w + 1 .. p + w + k PROVE FALSE
          OBVIOUS
        <4> DEFINE t == x - (p + w) + at
        <4>2. t \in 1 .. Space /\ x = (j - 1) * Space + t
          <5> DEFINE a == (j - 1) * Space
          <5>1. a \in Int /\ p + w = a + at /\ x \in p + w + 1 .. p + w + k
            BY <1>1, <2>1, <4>1
          <5> HIDE DEF a, x
          <5> QED BY <1>1, <5>1 DEF a
        <4>3. (i - 1) * Space + s = (j - 1) * Space + t
          BY <4>2
        <4> HIDE DEF t, x
        <4>4. i - 1 = j - 1
          <5> DEFINE u == i - 1
          <5> DEFINE v == j - 1
          <5>1. u \in Int /\ v \in Int /\ s \in 1 .. Space
            BY <2>1
          <5>2. t \in 1 .. Space /\ u * Space + s = v * Space + t
            BY <4>2, <4>3
          <5> HIDE DEF u, v
          <5>3. u = v
            BY <5>1, <5>2, PlacesDiffer, ZenonT(60)
          <5> QED BY <5>3 DEF u, v
        <4> QED BY <2>1, <2>3, <4>4
      <3>2. i \in 1 .. Len(c) /\ d[i] = c[i] /\ hdr2[d[i]].size = hdr[c[i]].size
        BY <2>3 DEF SameBut
      <3>3. dat2[d[i]] = dat[c[i]]
        <4>1. n2 \in 0 .. MaxBlocks /\ Ordered(n2, d)
          BY FileAssumption DEF Sound
        <4>2. (\A q, r \in 1 .. Len(d) : d[q] = d[r] => q = r) /\ d[i] \in Ids
          BY <4>1, ChainType
        <4> QED BY <2>3, <3>2, <4>2 DEF Put
      <3> QED BY <2>2, <3>1, <3>2, <3>3
    <2>4. CASE i = j /\ s \in at + 1 .. at + k
      <3>1. x \in p + 1 .. p + (w + k) /\ x - p = w + (s - at)
        <4> DEFINE a == (j - 1) * Space
        <4>1. a \in Int /\ p + w = a + at /\ x = a + s
          BY <1>1, <2>1, <2>4
        <4> HIDE DEF a, x
        <4> QED BY <2>1, <2>4, <4>1, SMTT(30)
      <3> HIDE DEF x, ly
      <3>2. Y[x] = bytes[w + (s - at)]
        BY <1>3, <2>1, <3>1
      <3>3. dat2[d[i]][s] = bytes[w + (s - at)]
        BY <2>1, <2>4 DEF Put
      <3> QED BY <3>2, <3>3 DEF x
    <2>5. CASE i = j /\ ~(s \in at + 1 .. at + k)
      <3>1. i \in 1 .. Len(c) /\ d[i] = c[i] /\ s \in 1 .. hdr[c[i]].size
        BY <2>5 DEF SameBut
      <3>2. dat2[d[i]][s] = dat[c[i]][s]
        BY <2>1, <2>5, <3>1 DEF Put
      <3>3. ~(x \in p + w + 1 .. p + w + k)
        <4> DEFINE a == (j - 1) * Space
        <4> DEFINE q == p + w
        <4>1. a \in Int /\ q = a + at /\ x = a + s /\ at \in Int /\ k \in Int
          BY <1>1, <2>1, <2>5
        <4>2. s \in Int /\ ~(s \in at + 1 .. at + k)
          BY <2>1, <2>5
        <4> HIDE DEF a, x, q
        <4>3. ~(x \in q + 1 .. q + k)
          BY <4>1, <4>2
        <4> QED BY <4>3 DEF q
      <3> QED BY <2>2, <3>1, <3>2, <3>3
    <2> HIDE DEF x
    <2> QED BY <2>3, <2>4, <2>5 DEF x
  <1> QED BY <1>3, <1>8, <1>9 DEF Holds, Y

(* dat with the bytes of a chunk in block b from at on. *)
Patched(dat, b, at, chunk) ==
    [dat EXCEPT ![b] = [i \in 1 .. Space |->
        IF i \in at + 1 .. at + Len(chunk) THEN chunk[i - at] ELSE dat[b][i]]]

(* g is f behind k bytes that made its file more bytes longer. *)
Moved(f, g, k, more) ==
    /\ g \in Objects /\ g.mode = f.mode
    /\ g.fileSize = f.fileSize + more
    /\ g.blockCount = f.blockCount /\ g.blockIndex = f.blockIndex
    /\ g.pos = f.pos + k
    /\ g.work.id = f.work.id /\ g.work.next = f.work.next
    /\ g.work.seekPos = f.work.seekPos + k
    /\ g.work.bytesWritten = f.work.bytesWritten + more
    /\ g.work.initialBytesWritten = f.work.initialBytesWritten

(* What a chunk of k bytes changes in a state of the loop, when it is      *)
(* appended or does not reach past the bytes of the block.                 *)
LEMMA Stored ==
    ASSUME NEW st, IsState(st), ImageType(st.header, st.data),
           st.file \in Objects, st.file.work.id \in Ids, NEW chunk, Len(chunk) \in Nat,
           st.file.mode # "Append" =>
              st.file.work.seekPos + Len(chunk) <= st.file.work.initialBytesWritten
    PROVE  LET new == writeToWorkingBlock(st, chunk)
               k == Len(chunk)
               b == st.file.work.id
               append == st.file.mode = "Append"
           IN  /\ IsState(new) /\ new.used = st.used /\ new.wrote = st.wrote + k
               /\ new.header = IF append
                               THEN [st.header EXCEPT ![b].size = st.file.work.bytesWritten + k]
                               ELSE st.header
               /\ new.data = Patched(st.data, b, st.file.work.seekPos, chunk)
               /\ Moved(st.file, new.file, k, IF append THEN k ELSE 0)
  <1> SUFFICES ASSUME NEW f, f = st.file, NEW k \in Nat, k = Len(chunk),
                      f \in Objects, f.work.id \in Ids,
                      f.mode # "Append" => f.work.seekPos + k <= f.work.initialBytesWritten,
                      NEW new, new = writeToWorkingBlock(st, chunk)
               PROVE  /\ IsState(new) /\ new.used = st.used /\ new.wrote = st.wrote + k
                      /\ new.header = IF f.mode = "Append"
                            THEN [st.header EXCEPT ![f.work.id].size = f.work.bytesWritten + k]
                            ELSE st.header
                      /\ new.data = Patched(st.data, f.work.id, f.work.seekPos, chunk)
                      /\ Moved(f, new.file, k, IF f.mode = "Append" THEN k ELSE 0)
    OBVIOUS
  <1> DEFINE block == [i \in 1 .. Space |->
                         IF i \in f.work.seekPos + 1 .. f.work.seekPos + k
                         THEN chunk[i - f.work.seekPos] ELSE st.data[f.work.id][i]]
  <1> DEFINE more == IF f.mode = "Append" THEN k ELSE 0
  <1> DEFINE work == [f.work EXCEPT !.seekPos = f.work.seekPos + k,
                                    !.bytesWritten = f.work.bytesWritten + more]
  <1> DEFINE object == [f EXCEPT !.work = work, !.pos = f.pos + k, !.fileSize = f.fileSize + more]
  <1>1. /\ f.work \in WorkingBlocks /\ f.work.seekPos \in Int /\ f.work.bytesWritten \in Nat
        /\ f.pos \in Int /\ f.fileSize \in Nat /\ f.work.initialBytesWritten \in Nat
        /\ more \in Nat
    BY DEF Objects, WorkingBlocks
  <1>2. f.work.seekPos + k > f.work.initialBytesWritten => f.mode = "Append"
    BY <1>1
  <1>3. /\ IsState(new) /\ new.used = st.used /\ new.wrote = st.wrote + k
        /\ new.header = IF f.mode = "Append"
                        THEN [st.header EXCEPT ![f.work.id].size = f.work.bytesWritten + k]
                        ELSE st.header
        /\ new.data = [st.data EXCEPT ![f.work.id] = block]
        /\ new.file = object
    <2>1. PICK h, d, u, o, x : st = [header |-> h, data |-> d, used |-> u, file |-> o, wrote |-> x]
      BY DEF IsState
    <2>2. h = st.header /\ d = st.data /\ u = st.used /\ o = f /\ x = st.wrote
      BY <2>1
    <2>3. /\ IsState(new) /\ new.used = st.used /\ new.wrote = st.wrote + k
          /\ new.data = [st.data EXCEPT ![f.work.id] = block]
      <3>1. new.data = [st.data EXCEPT ![f.work.id] = block]
        BY <2>1, <2>2, ZenonT(60) DEF writeToWorkingBlock
      <3>2. new.used = st.used
        BY <2>1, <2>2, ZenonT(60) DEF writeToWorkingBlock
      <3>3. new.wrote = st.wrote + k
        BY <2>1, <2>2, ZenonT(60) DEF writeToWorkingBlock
      <3>4. IsState(new)
        BY <2>1, <2>2, ZenonT(60) DEF writeToWorkingBlock, IsState
      <3> QED BY <3>1, <3>2, <3>3, <3>4
    <2>4. CASE f.mode = "Append"
      <3>1. new.header = [st.header EXCEPT ![f.work.id].size = f.work.bytesWritten + k]
        BY <2>1, <2>2, <2>4, ZenonT(60) DEF writeToWorkingBlock
      <3>2. new.file = [f EXCEPT !.work.seekPos = @ + k, !.work.bytesWritten = @ + k,
                                 !.pos = @ + k, !.fileSize = @ + k]
        BY <2>1, <2>2, <2>4, ZenonT(60) DEF writeToWorkingBlock
      <3>3. more = k
        BY <2>4
      <3>4. new.file = object
        <4> HIDE DEF more
        <4> QED BY <3>2, <3>3, ZenonT(60) DEF Objects, WorkingBlocks
      <3> HIDE DEF object, block, more
      <3> QED BY <2>3, <2>4, <3>1, <3>4
    <2>5. CASE f.mode # "Append"
      <3>1. new.header = [st.header EXCEPT ![f.work.id].size = @]
        BY <1>2, <2>1, <2>2, <2>5, ZenonT(60) DEF writeToWorkingBlock
      <3>2. new.header = st.header
        BY <3>1 DEF ImageType
      <3>3. new.file = [f EXCEPT !.work.seekPos = @ + k, !.work.bytesWritten = @,
                                 !.pos = @ + k, !.fileSize = @]
        BY <1>2, <2>1, <2>2, <2>5, ZenonT(60) DEF writeToWorkingBlock
      <3>4. more = 0
        BY <2>5
      <3>5. f.work.bytesWritten + more = f.work.bytesWritten /\ f.fileSize + more = f.fileSize
        BY <1>1, <3>4
      <3>6. new.file = object
        <4>1. new.file = [f EXCEPT !.work = [f.work EXCEPT !.seekPos = f.work.seekPos + k,
                                                           !.bytesWritten = f.work.bytesWritten],
                                   !.pos = f.pos + k, !.fileSize = f.fileSize]
          BY <3>3 DEF Objects, WorkingBlocks
        <4> HIDE DEF more
        <4> QED BY <3>5, <4>1
      <3> HIDE DEF object, block, more
      <3> QED BY <2>3, <2>5, <3>2, <3>6
    <2> HIDE DEF object, block
    <2> QED BY <2>4, <2>5
  <1>4. f.work.seekPos + k \in Int /\ f.work.bytesWritten + more \in Nat
        /\ f.pos + k \in Int /\ f.fileSize + more \in Nat
    <2> HIDE DEF more
    <2>1. f.work.seekPos + k \in Int
      BY <1>1
    <2>2. f.pos + k \in Int
      BY <1>1
    <2>3. f.work.bytesWritten + more \in Nat
      BY <1>1
    <2>4. f.fileSize + more \in Nat
      BY <1>1
    <2> QED BY <2>1, <2>2, <2>3, <2>4
  <1> HIDE DEF block, more
  <1>5. /\ work \in WorkingBlocks /\ work.id = f.work.id /\ work.next = f.work.next
        /\ work.seekPos = f.work.seekPos + k /\ work.bytesWritten = f.work.bytesWritten + more
        /\ work.initialBytesWritten = f.work.initialBytesWritten
    BY <1>1, <1>4 DEF WorkingBlocks
  <1> HIDE DEF work
  <1>6. /\ object \in Objects /\ object.mode = f.mode /\ object.work = work
        /\ object.fileSize = f.fileSize + more /\ object.pos = f.pos + k
        /\ object.blockCount = f.blockCount /\ object.blockIndex = f.blockIndex
    BY <1>4, <1>5 DEF Objects
  <1> HIDE DEF object
  <1>7. /\ IsState(new) /\ new.used = st.used /\ new.wrote = st.wrote + k
        /\ new.header = IF f.mode = "Append"
                        THEN [st.header EXCEPT ![f.work.id].size = f.work.bytesWritten + k]
                        ELSE st.header
        /\ new.data = [st.data EXCEPT ![f.work.id] = block]
        /\ new.file = object
    BY <1>3 DEF IsState
  <1>8. Moved(f, new.file, k, more)
    BY <1>5, <1>6, <1>7 DEF Moved
  <1> QED BY <1>7, <1>8 DEF block, more, Patched

(* The same for a chunk that is added at the end of the file. *)
AppendedTo(st, chunk, new) ==
    /\ IsState(new) /\ new.used = st.used /\ new.wrote = st.wrote + Len(chunk)
    /\ new.header = [st.header EXCEPT ![st.file.work.id].size = st.file.work.bytesWritten + Len(chunk)]
    /\ new.data = Patched(st.data, st.file.work.id, st.file.work.seekPos, chunk)
    /\ Moved(st.file, new.file, Len(chunk), Len(chunk))

LEMMA StoredAtEnd ==
    ASSUME NEW st, IsState(st), ImageType(st.header, st.data),
           st.file \in Objects, st.file.work.id \in Ids, st.file.mode = "Append",
           NEW chunk, Len(chunk) \in Nat
    PROVE  AppendedTo(st, chunk, writeToWorkingBlock(st, chunk))
  BY Stored DEF AppendedTo

(* A piece of a sequence. *)
LEMMA Piece ==
    ASSUME NEW bytes \in Seq(Bytes), NEW w \in Nat, NEW k \in Nat, w + k <= Len(bytes)
    PROVE  /\ SubSeq(bytes, w + 1, w + k) \in Seq(Bytes)
           /\ Len(SubSeq(bytes, w + 1, w + k)) = k
           /\ \A i \in 1 .. k : SubSeq(bytes, w + 1, w + k)[i] = bytes[w + i]
  OBVIOUS

(* An object at the end of a file is in its last block, behind its bytes. *)
LEMMA AtTheEnd ==
    ASSUME NEW hdr, NEW dat, NEW n, NEW c, Sound(hdr, dat, n, c),
           NEW f, f \in Objects, Stands(hdr, c, f), f.pos = Total(hdr, c)
    PROVE  f.blockIndex = Len(c) - 1 /\ f.work.seekPos = hdr[c[Len(c)]].size
  <1> DEFINE L == Len(c)
  <1> DEFINE last == hdr[c[L]].size
  <1> DEFINE i == f.blockIndex
  <1> DEFINE at == f.work.seekPos
  <1>1. /\ L \in Nat /\ L >= 1 /\ Space \in Nat /\ Space > 0
        /\ \A l \in 1 .. L : hdr[c[l]].size \in 0 .. Space
        /\ Total(hdr, c) = (L - 1) * Space + last /\ last \in 0 .. Space
    BY Sizes
  <1>2. /\ i \in 0 .. L - 1 /\ f.work.id = c[i + 1] /\ f.work.bytesWritten = hdr[f.work.id].size
        /\ at \in 0 .. f.work.bytesWritten /\ f.pos = i * Space + at
    BY DEF Stands
  <1>3. i + 1 \in 1 .. L
    BY <1>1, <1>2
  <1>4. at \in 0 .. Space
    <2>1. hdr[c[i + 1]].size \in 0 .. Space /\ at \in 0 .. hdr[c[i + 1]].size
      BY <1>1, <1>2, <1>3
    <2> DEFINE z == hdr[c[i + 1]].size
    <2> HIDE DEF at, z
    <2> QED BY <1>1, <2>1 DEF z
  <1>5. L > 1 => last > 0
    BY DEF Sound, Packed
  <1> HIDE DEF i, at, last, L
  <1>6. i = L - 1
    <2>1. SUFFICES ASSUME i # L - 1 PROVE FALSE
      OBVIOUS
    <2>2. i < L - 1 /\ i \in Int /\ L - 1 \in Int
      BY <1>1, <1>2, <2>1
    <2>3. i * Space + Space <= (L - 1) * Space /\ i * Space \in Int /\ (L - 1) * Space \in Int
      BY <2>2, PlacesInOrder
    <2>4. last > 0
      BY <1>1, <1>2, <1>5, <2>2
    <2>5. i * Space + at = (L - 1) * Space + last
      BY <1>1, <1>2
    <2> QED BY <1>1, <1>4, <2>3, <2>4, <2>5
  <1>7. at = last
    <2> DEFINE a == (L - 1) * Space
    <2>1. a \in Int /\ a + at = a + last
      BY <1>1, <1>2, <1>6
    <2> HIDE DEF a
    <2> QED BY <1>1, <1>4, <2>1
  <1> QED BY <1>6, <1>7 DEF i, at, last, L

(* The chunk of a round. *)
LEMMA ChunkFits ==
    ASSUME NEW n \in Nat, NEW w \in 0 .. n, w # n, NEW at \in Int, 0 <= at, at < Space,
           NEW k, k = Least(n - w, Space - at)
    PROVE  k \in Nat /\ k > 0 /\ w + k <= n /\ at + k <= Space
  BY FileAssumption DEF Least

LEMMA PiecePut ==
    ASSUME NEW dat \in [Ids -> [1 .. Space -> Bytes]], NEW b \in Ids, NEW at \in Nat,
           NEW bytes \in Seq(Bytes), NEW w \in Nat, NEW k \in Nat, w + k <= Len(bytes),
           at + k <= Space
    PROVE  Put(dat, Patched(dat, b, at, SubSeq(bytes, w + 1, w + k)), b, at, bytes, w, k)
  <1> DEFINE chunk == SubSeq(bytes, w + 1, w + k)
  <1> DEFINE block == [i \in 1 .. Space |->
                         IF i \in at + 1 .. at + k THEN chunk[i - at] ELSE dat[b][i]]
  <1>1. Len(bytes) \in Nat /\ Space \in Nat
    BY FileAssumption
  <1>2. chunk \in Seq(Bytes) /\ Len(chunk) = k /\ \A i \in 1 .. k : chunk[i] = bytes[w + i]
    BY Piece
  <1>3. Patched(dat, b, at, chunk) = [dat EXCEPT ![b] = block]
    <2> HIDE DEF chunk
    <2> QED BY <1>2 DEF Patched
  <1> HIDE DEF chunk
  <1>4. ASSUME NEW s \in 1 .. Space
        PROVE  /\ block[s] = IF s \in at + 1 .. at + k THEN bytes[w + (s - at)] ELSE dat[b][s]
               /\ block[s] \in Bytes
    <2>1. CASE s \in at + 1 .. at + k
      <3>1. s - at \in 1 .. k
        BY <2>1
      <3>2. chunk[s - at] = bytes[w + (s - at)] /\ chunk[s - at] \in Bytes
        BY <1>2, <3>1
      <3> QED BY <2>1, <3>2
    <2>2. CASE ~(s \in at + 1 .. at + k)
      BY <1>1, <2>2
    <2> QED BY <2>1, <2>2
  <1>5. block \in [1 .. Space -> Bytes]
    <2>1. block = [i \in 1 .. Space |-> block[i]]
      OBVIOUS
    <2> HIDE DEF block
    <2> QED BY <1>4, <2>1
  <1> HIDE DEF block
  <1>6. Put(dat, Patched(dat, b, at, chunk), b, at, bytes, w, k)
    BY <1>3, <1>4, <1>5 DEF Put
  <1> QED BY <1>6 DEF chunk

(* What a file that is there says of the place of an object. *)
LEMMA PlaceOfObject ==
    ASSUME NEW hdr, NEW dat, NEW n, NEW c, Sound(hdr, dat, n, c),
           NEW f, f \in Objects, Stands(hdr, c, f)
    PROVE  /\ f.blockIndex \in Nat /\ f.blockIndex + 1 \in 1 .. Len(c)
           /\ f.work.id \in Ids /\ f.work.id = c[f.blockIndex + 1]
           /\ f.work.seekPos \in Nat /\ f.work.seekPos <= hdr[f.work.id].size
           /\ hdr[f.work.id].size \in 0 .. Space /\ f.work.bytesWritten = hdr[f.work.id].size
           /\ f.pos = f.blockIndex * Space + f.work.seekPos
           /\ \A l \in 1 .. Len(c) : l # f.blockIndex + 1 => c[l] # f.work.id
  <1> DEFINE i == f.blockIndex
  <1> DEFINE b == f.work.id
  <1> DEFINE at == f.work.seekPos
  <1>1. /\ Len(c) \in Nat /\ Space \in Nat
        /\ \A l \in 1 .. Len(c) : c[l] \in Ids /\ hdr[c[l]].size \in 0 .. Space
    BY Sizes
  <1>2. /\ i \in 0 .. Len(c) - 1 /\ b = c[i + 1] /\ f.work.bytesWritten = hdr[b].size
        /\ at \in 0 .. f.work.bytesWritten /\ f.pos = i * Space + at
    BY DEF Stands
  <1> HIDE DEF i, b, at
  <1>3. i \in Nat /\ i + 1 \in 1 .. Len(c)
    BY <1>1, <1>2
  <1>4. b \in Ids /\ hdr[b].size \in 0 .. Space
    BY <1>1, <1>2, <1>3
  <1>5. at \in Nat /\ at <= hdr[b].size
    <2> DEFINE z == hdr[b].size
    <2>1. at \in 0 .. z /\ z \in 0 .. Space
      BY <1>2, <1>4
    <2> HIDE DEF z
    <2>2. at \in Nat /\ at <= z
      BY <2>1
    <2> QED BY <2>2 DEF z
  <1>6. \A l \in 1 .. Len(c) : l # i + 1 => c[l] # b
    <2>1. n \in 0 .. MaxBlocks /\ Ordered(n, c)
      BY FileAssumption DEF Sound
    <2>2. \A x, y \in 1 .. Len(c) : c[x] = c[y] => x = y
      BY <2>1, ChainType
    <2> QED BY <1>2, <1>3, <2>2
  <1> QED BY <1>2, <1>3, <1>4, <1>5, <1>6 DEF i, b, at

(* The bytes of a file are replaced by some that do not reach past them.   *)
LEMMA ReplacedRight ==
    ASSUME NEW hdr, NEW dat, NEW n, NEW c, Sound(hdr, dat, n, c),
           NEW f, Counted(hdr, c, f), Stands(hdr, c, f),
           NEW bytes \in Seq(Bytes), NEW old \in Seq(Bytes), NEW p \in Nat, p <= Len(old),
           NEW w \in Nat, f.pos = p + w,
           Holds(hdr, dat, c, Overlaid(old, p, bytes, w)),
           NEW k \in Nat, k > 0, w + k <= Len(bytes), f.work.seekPos + k <= hdr[f.work.id].size,
           NEW dat2, Put(dat, dat2, f.work.id, f.work.seekPos, bytes, w, k),
           NEW g, Moved(f, g, k, 0)
    PROVE  /\ Sound(hdr, dat2, n, c) /\ Counted(hdr, c, g) /\ Stands(hdr, c, g)
           /\ Holds(hdr, dat2, c, Overlaid(old, p, bytes, w + k))
  <1> DEFINE i == f.blockIndex
  <1> DEFINE b == f.work.id
  <1> DEFINE at == f.work.seekPos
  <1> DEFINE size == hdr[b].size
  <1> DEFINE T == Total(hdr, c)
  <1> DEFINE m == Len(bytes)
  <1> DEFINE v == w + k
  <1>0. f \in Objects
    BY DEF Counted
  <1>1. /\ i \in Nat /\ i + 1 \in 1 .. Len(c) /\ b \in Ids /\ b = c[i + 1] /\ at \in Nat
        /\ at <= size /\ size \in 0 .. Space /\ f.work.bytesWritten = size
        /\ f.pos = i * Space + at /\ \A l \in 1 .. Len(c) : l # i + 1 => c[l] # b
    BY <1>0, PlaceOfObject
  <1>2. /\ T \in Nat /\ Len(c) \in Nat /\ Space \in Nat /\ m \in Nat
        /\ \A l \in 1 .. Len(c) : c[l] \in Ids
    BY Sizes
  <1>3. Put(dat, dat2, b, at, bytes, w, k) /\ Stands(hdr, c, f) /\ Counted(hdr, c, f) /\ Moved(f, g, k, 0)
        /\ f.pos = p + w /\ v <= m /\ at + k <= size /\ v \in Nat
    OBVIOUS
  <1>4. i * Space \in Nat
    <2>1. i \in Nat /\ Space \in Nat
      BY <1>1, <1>2
    <2> HIDE DEF i
    <2> QED BY <2>1
  <1>5. g.fileSize = f.fileSize /\ g.work.bytesWritten = f.work.bytesWritten
    <2>1. f.fileSize \in Nat /\ f.work.bytesWritten \in Nat
      BY <1>0 DEF Objects, WorkingBlocks
    <2>2. g.fileSize = f.fileSize + 0 /\ g.work.bytesWritten = f.work.bytesWritten + 0
      BY <1>3 DEF Moved
    <2> QED BY <2>1, <2>2
  <1> HIDE DEF i, b, at, size, T, m
  <1>6. at + k \in 0 .. size /\ at + k \in 1 .. size /\ at + k <= Space
    <2>1. at \in Nat /\ size \in Nat /\ size <= Space /\ k \in Nat /\ k > 0 /\ at + k <= size /\ Space \in Nat
      BY <1>1, <1>2, <1>3
    <2> QED BY <2>1
  <1>13. p + v <= T
    <2> DEFINE z == at + k
    <2> DEFINE a == i * Space
    <2>1. z \in 1 .. hdr[c[i + 1]].size
      BY <1>1, <1>6 DEF size
    <2> HIDE DEF z
    <2> DEFINE e == i + 1
    <2>2. e \in 1 .. Len(c) /\ e - 1 = i /\ z \in 1 .. hdr[c[e]].size
      BY <1>1, <2>1
    <2> HIDE DEF e
    <2>3. (e - 1) * Space + z \in 1 .. T
      BY <2>2, PlaceInFile DEF T
    <2>4. a + z \in 1 .. T
      BY <2>2, <2>3
    <2>5. p + v = a + z
      <3>1. a \in Nat /\ p + w = a + at
        BY <1>1, <1>3, <1>4
      <3> HIDE DEF a
      <3> QED BY <1>1, <3>1 DEF z, v
    <2> QED BY <2>4, <2>5
  <1>7. Sound(hdr, dat2, n, c)
    BY <1>3 DEF Sound, ImageType, Put
  <1>8. Counted(hdr, c, g)
    BY <1>3, <1>5 DEF Counted, Moved
  <1>9. g.pos = i * Space + (at + k)
    <2> DEFINE a == i * Space
    <2>1. g.pos = a + at + k
      BY <1>1, <1>3 DEF Moved
    <2> HIDE DEF a
    <2>2. g.pos = a + (at + k)
      BY <1>1, <1>4, <2>1 DEF a
    <2> QED BY <2>2 DEF a
  <1>10. Stands(hdr, c, g)
    BY <1>1, <1>3, <1>5, <1>6, <1>9 DEF Stands, Moved, i, b, at, size
  <1>11. T = Len(Overlaid(old, p, bytes, v))
    <2> DEFINE l == Len(old)
    <2> HIDE DEF v
    <2>1. Len(Overlaid(old, p, bytes, v)) = Reach(old, p, v)
      BY <1>3, OverlaidType DEF m
    <2>2. T = Reach(old, p, w)
      <3>1. w <= m
        <4>1. w <= v
          BY DEF v
        <4> QED BY <1>2, <1>3, <4>1
      <3>2. Len(Overlaid(old, p, bytes, w)) = Reach(old, p, w)
        BY <3>1, OverlaidType DEF m
      <3> QED BY <3>2 DEF Holds, T
    <2>3. Reach(old, p, v) = Reach(old, p, w)
      <3>1. l \in Nat /\ p <= l /\ v = w + k
        BY DEF v
      <3>2. p + v <= IF p + w > l THEN p + w ELSE l
        BY <1>13, <2>2 DEF Reach
      <3>3. (IF p + v > l THEN p + v ELSE l) = IF p + w > l THEN p + w ELSE l
        <4> HIDE DEF l
        <4> QED BY <1>2, <1>3, <3>1, <3>2
      <3> QED BY <3>3 DEF Reach
    <2> QED BY <2>1, <2>2, <2>3
  <1>12. Holds(hdr, dat2, c, Overlaid(old, p, bytes, w + k))
    <2> DEFINE j == i + 1
    <2>1. j \in 1 .. Len(c) /\ c[j] = b /\ p + w = (j - 1) * Space + at
      <3>1. (i + 1) - 1 = i
        BY <1>1
      <3> QED BY <1>1, <1>3, <3>1
    <2>2. SameBut(hdr, c, hdr, c, j, at, k)
      BY <2>1 DEF SameBut
    <2>3. Put(dat, dat2, c[j], at, bytes, w, k)
      BY <1>3, <2>1
    <2>5. w + k <= Len(bytes) /\ at + k <= Space /\ at \in Nat
      BY <1>1, <1>3, <1>6
    <2>6. Total(hdr, c) = Len(Overlaid(old, p, bytes, w + k))
      BY <1>11 DEF T, v
    <2> HIDE DEF j
    <2> QED BY <1>7, <2>1, <2>2, <2>3, <2>5, <2>6, WriteHeld
  <1> QED BY <1>7, <1>8, <1>10, <1>12

(* How far the bytes over the end of old reach. *)
LEMMA ReachGrows ==
    ASSUME NEW old \in Seq(Bytes), NEW p \in Nat, p <= Len(old), NEW bytes \in Seq(Bytes),
           NEW w \in Nat, NEW v \in Nat, w <= v, v <= Len(bytes),
           NEW l \in Nat, l = Len(Overlaid(old, p, bytes, w)), l = p + w
    PROVE  Len(Overlaid(old, p, bytes, v)) = p + v
  <1> DEFINE lo == Len(old)
  <1>1. lo \in Nat /\ w <= Len(bytes) /\ p <= lo
    <2>1. Len(bytes) \in Nat /\ lo \in Nat
      OBVIOUS
    <2> HIDE DEF lo
    <2>3. w <= Len(bytes)
      BY <2>1
    <2> QED BY <2>1, <2>3 DEF lo
  <1>2. ASSUME NEW u \in Nat, u <= Len(bytes) PROVE Len(Overlaid(old, p, bytes, u)) = Reach(old, p, u)
    <2> DEFINE r == Reach(old, p, u)
    <2>1. r = Reach(old, p, u)
      OBVIOUS
    <2> HIDE DEF r
    <2>2. Len(Overlaid(old, p, bytes, u)) = r
      BY ONLY <1>2, <2>1, old \in Seq(Bytes), bytes \in Seq(Bytes), p \in Nat, p <= Len(old), OverlaidType
    <2> QED BY <2>1, <2>2
  <1>3. p + w = Reach(old, p, w)
    BY <1>1, <1>2
  <1>4. p + w >= lo
    <2>1. p + w = IF p + w > lo THEN p + w ELSE lo
      BY <1>3 DEF Reach
    <2> HIDE DEF lo
    <2> QED BY <1>1, <2>1
  <1>5. Reach(old, p, v) = p + v
    <2>1. (IF p + v > lo THEN p + v ELSE lo) = p + v
      <3> HIDE DEF lo
      <3> QED BY <1>1, <1>4
    <2> QED BY <2>1 DEF Reach
  <1> QED BY <1>2, <1>5

(* hdr2 is hdr with the size z for block b. *)
Resized(hdr, hdr2, b, z) ==
    /\ hdr2 \in [Ids -> [size : 0 .. Space, next : Ids]]
    /\ hdr2[b].size = z
    /\ \A e \in Ids : hdr2[e].next = hdr[e].next
    /\ \A e \in Ids : e # b => hdr2[e] = hdr[e]

LEMMA HeaderResized ==
    ASSUME NEW hdr \in [Ids -> [size : 0 .. Space, next : Ids]], NEW b \in Ids, NEW z \in 0 .. Space
    PROVE  Resized(hdr, [hdr EXCEPT ![b].size = z], b, z)
  <1> DEFINE hdr2 == [hdr EXCEPT ![b].size = z]
  <1>1. [hdr[b] EXCEPT !.size = z] \in [size : 0 .. Space, next : Ids]
    OBVIOUS
  <1>2. hdr2 = [hdr EXCEPT ![b] = [hdr[b] EXCEPT !.size = z]]
    OBVIOUS
  <1> HIDE DEF hdr2
  <1>3. hdr2[b].size = z
    BY <1>2
  <1>4. \A e \in Ids : hdr2[e].next = hdr[e].next
    BY <1>2
  <1> DEFINE new == [hdr[b] EXCEPT !.size = z]
  <1> DEFINE R == [size : 0 .. Space, next : Ids]
  <1>5. new \in R /\ hdr \in [Ids -> R] /\ hdr2 = [hdr EXCEPT ![b] = new]
    BY <1>1, <1>2
  <1> HIDE DEF new, R
  <1>6. hdr2 \in [Ids -> R] /\ \A e \in Ids : e # b => hdr2[e] = hdr[e]
    BY <1>5
  <1>7. Resized(hdr, hdr2, b, z)
    BY <1>3, <1>4, <1>6 DEF Resized, R
  <1> QED BY <1>7 DEF hdr2

(* The file grows within its last block. *)
LEMMA AppendedRight ==
    ASSUME NEW hdr, NEW dat, NEW n, NEW c, Sound(hdr, dat, n, c),
           NEW f, Counted(hdr, c, f), Stands(hdr, c, f), f.mode = "Append",
           f.pos = Total(hdr, c),
           NEW bytes \in Seq(Bytes), NEW old \in Seq(Bytes), NEW p \in Nat, p <= Len(old),
           NEW w \in Nat, f.pos = p + w, Holds(hdr, dat, c, Overlaid(old, p, bytes, w)),
           NEW k \in Nat, k > 0, w + k <= Len(bytes), f.work.seekPos + k <= Space,
           NEW dat2, Put(dat, dat2, f.work.id, f.work.seekPos, bytes, w, k),
           NEW g, Moved(f, g, k, k),
           NEW hdr2, Resized(hdr, hdr2, f.work.id, f.work.bytesWritten + k)
    PROVE  /\ Sound(hdr2, dat2, n, c) /\ Counted(hdr2, c, g) /\ Stands(hdr2, c, g)
           /\ g.pos = Total(hdr2, c)
           /\ Holds(hdr2, dat2, c, Overlaid(old, p, bytes, w + k))
  <1> DEFINE i == f.blockIndex
  <1> DEFINE b == f.work.id
  <1> DEFINE at == f.work.seekPos
  <1> DEFINE size == hdr[b].size
  <1> DEFINE T == Total(hdr, c)
  <1> DEFINE L == Len(c)
  <1> DEFINE a == (L - 1) * Space
  <1>00. Len(Overlaid(old, p, bytes, w + k)) = p + w + k
    <2>1. p + w = Len(Overlaid(old, p, bytes, w))
      BY DEF Holds
    <2>2. SUFFICES ASSUME NEW v \in Nat, v = w + k, NEW l \in Nat, l = p + w
                   PROVE  Len(Overlaid(old, p, bytes, v)) = p + v
      OBVIOUS
    <2>3. w <= v /\ v <= Len(bytes) /\ l = Len(Overlaid(old, p, bytes, w))
      BY <2>1, <2>2
    <2> QED BY <2>2, <2>3, ReachGrows
  <1>0. f \in Objects
    BY DEF Counted
  <1>1. /\ i \in Nat /\ i + 1 \in 1 .. L /\ b \in Ids /\ b = c[i + 1] /\ at \in Nat
        /\ size \in 0 .. Space /\ f.work.bytesWritten = size
        /\ f.pos = i * Space + at /\ \A l \in 1 .. L : l # i + 1 => c[l] # b
    BY <1>0, PlaceOfObject
  <1>2. /\ T \in Nat /\ L \in Nat /\ L >= 1 /\ Space \in Nat /\ a \in Nat
        /\ T = a + hdr[c[L]].size
        /\ \A l \in 1 .. L : c[l] \in Ids
    BY Sizes
  <1>3. i = L - 1 /\ at = hdr[c[L]].size
    BY <1>0, AtTheEnd
  <1>4. i + 1 = L
    BY <1>2, <1>3
  <1>5. b = c[L] /\ at = size
    BY <1>1, <1>3, <1>4, ZenonT(60)
  <1>6. /\ Put(dat, dat2, b, at, bytes, w, k) /\ Stands(hdr, c, f) /\ Counted(hdr, c, f)
        /\ Moved(f, g, k, k) /\ f.pos = p + w /\ at + k <= Space /\ f.pos = T
        /\ f.mode = "Append" /\ Sound(hdr, dat, n, c)
        /\ ImageType(hdr, dat) /\ Ordered(n, c) /\ Linked(hdr, c) /\ Packed(hdr, c) /\ Fresh(hdr, n)
        /\ n \in 1 .. MaxBlocks
    BY DEF Sound
  <1>7. Resized(hdr, hdr2, b, f.work.bytesWritten + k)
    OBVIOUS
  <1>8. /\ hdr2 \in [Ids -> [size : 0 .. Space, next : Ids]]
        /\ hdr2[b].size = at + k /\ \A e \in Ids : hdr2[e].next = hdr[e].next
        /\ \A e \in Ids : e # b => hdr2[e] = hdr[e]
    <2>1. f.work.bytesWritten = at
      BY <1>1, <1>5
    <2> HIDE DEF b, at, size
    <2> QED BY <2>1, <1>7 DEF Resized
  <1> HIDE DEF i, b, at, size, T, L
  <1>9. Sound(hdr2, dat2, n, c)
    <2>1. ImageType(hdr2, dat2)
      BY <1>6, <1>8 DEF ImageType, Put
    <2>2. Linked(hdr2, c)
      <3>1. L \in 1 .. L /\ \A l \in 1 .. L - 1 : l \in 1 .. L
        BY <1>2
      <3> QED BY <1>2, <1>6, <1>8, <3>1 DEF Linked, L
    <2>3. Packed(hdr2, c)
      <3>1. ASSUME NEW l \in 1 .. L - 1 PROVE hdr2[c[l]] = hdr[c[l]]
        <4>1. l \in 1 .. L /\ l # i + 1
          BY <1>2, <1>4
        <4> QED BY <1>1, <1>2, <1>8, <4>1
      <3>2. hdr2[c[L]].size > 0
        BY <1>1, <1>5, <1>8
      <3> QED BY <1>6, <3>1, <3>2 DEF Packed, L
    <2>4. Fresh(hdr2, n)
      <3>1. L \in 1 .. L
        BY <1>2
      <3>2. c[L] <= n /\ b \in Nat /\ n \in Nat
        <4>1. c[L] <= n
          BY <1>6, <3>1 DEF Ordered, L
        <4>2. b \in Nat
          <5>1. b \in Ids
            BY <1>1
          <5> QED BY <5>1, FileAssumption DEF Ids
        <4> QED BY <1>6, <4>1, <4>2, FileAssumption
      <3>3. b <= n
        BY <1>5, <3>2
      <3>4. ASSUME NEW e \in Ids, e > n PROVE e # b
        BY <3>2, <3>3, <3>4
      <3> QED BY <1>6, <1>8, <3>4 DEF Fresh
    <2> QED BY <1>6, <2>1, <2>2, <2>3, <2>4 DEF Sound
  <1>10. Total(hdr2, c) = T + k /\ Total(hdr2, c) = a + (at + k)
    <2>1. Total(hdr2, c) = a + (at + k)
      BY <1>5, <1>8 DEF Total, L
    <2>2. T = a + at
      BY <1>2, <1>3
    <2>3. a \in Nat /\ at \in Nat
      BY <1>1, <1>2
    <2> HIDE DEF a
    <2> QED BY <2>1, <2>2, <2>3
  <1>11. Counted(hdr2, c, g)
    BY <1>6, <1>10 DEF Counted, Moved, T
  <1>12. g.pos = Total(hdr2, c) /\ g.pos = i * Space + (at + k)
    <2>1. g.pos = T + k
      BY <1>6 DEF Moved
    <2> QED BY <1>3, <1>10, <2>1
  <1>13. Stands(hdr2, c, g)
    <2>1. /\ g.blockIndex = i /\ g.work.id = b /\ g.work.next = f.work.next
          /\ g.work.seekPos = at + k /\ g.work.bytesWritten = size + k /\ g.mode = "Append"
      BY <1>1, <1>6 DEF Moved, i, b, at
    <2>2. i \in 0 .. L - 1 /\ at + k \in 0 .. at + k
      <3>1. i \in 0 .. L - 1
        BY <1>2, <1>3
      <3>2. at \in Nat
        BY <1>1
      <3>3. at + k \in 0 .. at + k
        BY <3>2
      <3> QED BY <3>1, <3>3
    <2>3. f.work.next = hdr[b].next
      BY <1>6 DEF Stands, b
    <2> QED BY <1>1, <1>5, <1>8, <1>12, <2>1, <2>2, <2>3 DEF Stands, L
  <1>14. Holds(hdr2, dat2, c, Overlaid(old, p, bytes, w + k))
    <2> DEFINE j == i + 1
    <2>1. j \in 1 .. Len(c) /\ c[j] = b /\ p + w = (j - 1) * Space + at
      <3>1. (i + 1) - 1 = i
        BY <1>1
      <3> QED BY <1>1, <1>6, <3>1 DEF L
    <2>2. SameBut(hdr, c, hdr2, c, j, at, k)
      <3>1. ASSUME NEW l \in 1 .. Len(c), l # j PROVE hdr2[c[l]].size = hdr[c[l]].size
        BY <1>1, <1>2, <1>8, <3>1 DEF L
      <3>2. ASSUME NEW s \in 1 .. hdr2[c[j]].size PROVE s \in at + 1 .. at + k \/ s \in 1 .. hdr[c[j]].size
        <4>1. s \in 1 .. at + k /\ hdr[c[j]].size = at
          BY <1>5, <1>8, <2>1 DEF size
        <4> QED BY <1>1, <4>1
      <3> QED BY <2>1, <3>1, <3>2 DEF SameBut
    <2>3. Put(dat, dat2, c[j], at, bytes, w, k)
      BY <1>6, <2>1
    <2>4. w + k <= Len(bytes) /\ at + k <= Space /\ at \in Nat
      BY <1>1, <1>6
    <2>5. Total(hdr2, c) = Len(Overlaid(old, p, bytes, w + k))
      <3> HIDE DEF T, L, a, i, b, at, size
      <3> QED BY <1>00, <1>6, <1>10
    <2> HIDE DEF j
    <2> QED BY <1>6, <1>9, <2>1, <2>2, <2>3, <2>4, <2>5, WriteHeld
  <1> QED BY <1>9, <1>11, <1>12, <1>13, <1>14

(* r is f with the block id added to its chain. *)
Taken(f, r, id) ==
    /\ r \in Objects /\ r.mode = "Append" /\ r.fileSize = f.fileSize
    /\ r.blockCount = f.blockCount + 1 /\ r.blockIndex = f.blockCount /\ r.pos = f.pos
    /\ r.work.id = id /\ r.work.next = id /\ r.work.seekPos = 0 /\ r.work.bytesWritten = 0

(* d is the chain c with the block n + 1 behind it. *)
Longer(c, d, n) ==
    /\ Ordered(n + 1, d) /\ Len(d) = Len(c) + 1 /\ Len(c) \in Nat /\ Len(c) >= 1
    /\ d[Len(c) + 1] = n + 1 /\ n + 1 \in Ids
    /\ \A i \in 1 .. Len(c) : d[i] = c[i]
    /\ \A i \in 1 .. Len(c) : d[i] \in Ids /\ d[i] <= n /\ d[i] # n + 1

LEMMA ChainGrows ==
    ASSUME NEW n \in 1 .. MaxBlocks - 1, NEW c, Ordered(n, c)
    PROVE  Longer(c, Append(c, n + 1), n)
  <1> DEFINE d == Append(c, n + 1)
  <1>1. MaxBlocks \in Nat /\ n \in 0 .. MaxBlocks /\ n \in Nat
    BY FileAssumption
  <1>2. n + 1 \in Ids
    BY <1>1 DEF Ids
  <1>3. /\ Len(c) \in 1 .. MaxBlocks /\ Len(c) \in Nat /\ c \in Seq(Ids)
        /\ \A i \in 1 .. Len(c) : c[i] \in Ids /\ c[i] <= n
    BY <1>1, ChainType
  <1>4. /\ d \in Seq(Ids) /\ Len(d) = Len(c) + 1 /\ d[Len(c) + 1] = n + 1
        /\ \A i \in 1 .. Len(c) : d[i] = c[i]
    BY <1>2, <1>3
  <1> HIDE DEF d
  <1>5. \A i \in 1 .. Len(c) : d[i] \in Nat
    <2>1. \A e \in Ids : e \in Nat
      BY <1>1 DEF Ids
    <2> QED BY <1>3, <1>4, <2>1
  <1> DEFINE L == Len(c)
  <1>6. L \in Nat /\ L >= 1 /\ Len(d) = L + 1
    BY <1>1, <1>3, <1>4
  <1>7. c[1] = 1 /\ (\A i \in 1 .. L : i <= c[i])
        /\ \A i, j \in 1 .. L : i < j => c[i] < c[j]
    BY DEF Ordered
  <1> HIDE DEF L
  <1>8. L <= n
    <2>1. L \in 1 .. L /\ c[L] \in Nat
      BY <1>4, <1>5, <1>6 DEF L
    <2>2. L <= c[L] /\ c[L] <= n
      BY <1>3, <1>7, <2>1 DEF L
    <2> QED BY <1>1, <1>6, <2>1, <2>2
  <1>9. ASSUME NEW i \in 1 .. L + 1 PROVE i <= d[i] /\ d[i] <= n + 1
    <2>1. CASE i = L + 1
      <3>1. d[i] = n + 1
        BY <1>4, <2>1 DEF L
      <3>2. L + 1 <= n + 1 /\ n + 1 <= n + 1
        BY <1>1, <1>6, <1>8
      <3> QED BY <2>1, <3>1, <3>2
    <2>2. CASE i # L + 1
      <3>1. i \in 1 .. L
        BY <1>6, <2>2
      <3>2. i <= d[i] /\ d[i] <= n /\ d[i] \in Nat
        BY <1>3, <1>4, <1>5, <1>7, <3>1 DEF L
      <3> QED BY <1>1, <3>2
    <2> QED BY <2>1, <2>2
  <1>10. ASSUME NEW i \in 1 .. L + 1, NEW j \in 1 .. L + 1, i < j PROVE d[i] < d[j]
    <2>1. i \in 1 .. L
      BY <1>6, <1>10
    <2>2. d[i] \in Nat /\ d[i] <= n /\ d[i] = c[i]
      BY <1>3, <1>4, <1>5, <2>1 DEF L
    <2>3. CASE j = L + 1
      BY <1>1, <1>4, <2>2, <2>3 DEF L
    <2>4. CASE j # L + 1
      <3>1. j \in 1 .. L
        BY <1>6, <2>4
      <3> QED BY <1>4, <1>7, <1>10, <2>1, <3>1 DEF L
    <2> QED BY <2>3, <2>4
  <1>11. d # << >> /\ d[1] = 1
    <2>1. 1 \in 1 .. L
      BY <1>6
    <2>2. d[1] = 1
      BY <1>4, <1>7, <2>1 DEF L
    <2>3. Len(d) # 0
      BY <1>6
    <2> QED BY <2>2, <2>3
  <1>12. Ordered(n + 1, d)
    BY <1>4, <1>6, <1>9, <1>10, <1>11 DEF Ordered
  <1>13. ASSUME NEW i \in 1 .. L PROVE d[i] # n + 1 /\ d[i] \in Ids /\ d[i] <= n
    <2>1. d[i] \in Nat /\ d[i] <= n /\ d[i] \in Ids
      BY <1>3, <1>4, <1>5 DEF L
    <2>2. ASSUME d[i] = n + 1 PROVE FALSE
      BY <1>1, <2>1, <2>2
    <2> QED BY <2>1, <2>2
  <1> QED BY <1>1, <1>2, <1>4, <1>6, <1>12, <1>13 DEF L, d, Longer

(* The headers of a chain with the block id, of k bytes, behind its last. *)
Extended(hdr, hdr2, last, id, k) ==
    /\ hdr2 \in [Ids -> [size : 0 .. Space, next : Ids]]
    /\ hdr2[id].size = k /\ hdr2[id].next = id
    /\ hdr2[last].size = Space /\ hdr2[last].next = id
    /\ \A e \in Ids : e # id /\ e # last => hdr2[e] = hdr[e]

LEMMA HeadersGrow ==
    ASSUME NEW hdr \in [Ids -> [size : 0 .. Space, next : Ids]], NEW last \in Ids, NEW id \in Ids,
           last # id, hdr[last].size = Space, hdr[id].next = id, NEW k \in 0 .. Space
    PROVE  Extended(hdr, [[hdr EXCEPT ![last].next = id] EXCEPT ![id].size = k], last, id, k)
  <1> DEFINE hdr1 == [hdr EXCEPT ![last].next = id]
  <1> DEFINE hdr2 == [hdr1 EXCEPT ![id].size = k]
  <1> DEFINE R == [size : 0 .. Space, next : Ids]
  <1>1. [hdr[last] EXCEPT !.next = id] \in R
    OBVIOUS
  <1>2. hdr1 = [hdr EXCEPT ![last] = [hdr[last] EXCEPT !.next = id]]
    OBVIOUS
  <1>3. /\ hdr1 \in [Ids -> R]
        /\ hdr1[last].size = Space /\ hdr1[last].next = id
        /\ \A e \in Ids : e # last => hdr1[e] = hdr[e]
    <2> HIDE DEF hdr1
    <2>1. hdr1[last] = [hdr[last] EXCEPT !.next = id]
      BY <1>2
    <2>2. hdr1[last].size = Space /\ hdr1[last].next = id
      BY <2>1
    <2> DEFINE new == [hdr[last] EXCEPT !.next = id]
    <2>3. new \in R /\ hdr \in [Ids -> R] /\ hdr1 = [hdr EXCEPT ![last] = new]
      BY <1>1, <1>2
    <2> HIDE DEF new, R
    <2>4. hdr1 \in [Ids -> R] /\ \A e \in Ids : e # last => hdr1[e] = hdr[e]
      BY <2>3
    <2> QED BY <2>2, <2>4
  <1> HIDE DEF hdr1
  <1>4. hdr1[id].next = id
    BY <1>3
  <1>5. hdr2 = [hdr1 EXCEPT ![id] = [hdr1[id] EXCEPT !.size = k]]
    BY <1>3
  <1>6. [hdr1[id] EXCEPT !.size = k] \in R
    <2>1. hdr1[id] \in R
      BY <1>3
    <2> QED BY <2>1
  <1>7. /\ hdr2 \in [Ids -> R] /\ hdr2[id].size = k /\ hdr2[id].next = id
        /\ \A e \in Ids : e # id => hdr2[e] = hdr1[e]
    <2> HIDE DEF hdr2
    <2> DEFINE new == [hdr1[id] EXCEPT !.size = k]
    <2>1. new \in R /\ hdr1 \in [Ids -> R] /\ hdr2 = [hdr1 EXCEPT ![id] = new]
      BY <1>3, <1>5, <1>6
    <2>2. hdr2[id] = [hdr1[id] EXCEPT !.size = k] /\ hdr1[id] \in R
      BY <2>1
    <2>3. hdr2[id].size = k /\ hdr2[id].next = id
      BY <1>4, <2>2
    <2> HIDE DEF new, R
    <2>4. hdr2 \in [Ids -> R] /\ \A e \in Ids : e # id => hdr2[e] = hdr1[e]
      BY <2>1
    <2> QED BY <2>3, <2>4
  <1> HIDE DEF hdr2
  <1>8. Extended(hdr, hdr2, last, id, k)
    BY <1>3, <1>7 DEF Extended
  <1> QED BY <1>8 DEF hdr1, hdr2

(* The file grows into a new block. *)
LEMMA AddedRight ==
    ASSUME NEW hdr, NEW dat, NEW n, NEW c, Sound(hdr, dat, n, c),
           NEW f, Counted(hdr, c, f), hdr[c[Len(c)]].size = Space, n + 1 <= MaxBlocks,
           f.pos = Total(hdr, c),
           NEW bytes \in Seq(Bytes), NEW old \in Seq(Bytes), NEW p \in Nat, p <= Len(old),
           NEW w \in Nat, f.pos = p + w, Holds(hdr, dat, c, Overlaid(old, p, bytes, w)),
           NEW k \in Nat, k > 0, w + k <= Len(bytes), k <= Space,
           NEW r, Taken(f, r, n + 1),
           NEW dat2, Put(dat, dat2, n + 1, 0, bytes, w, k),
           NEW g, Moved(r, g, k, k),
           NEW hdr2, Extended(hdr, hdr2, c[Len(c)], n + 1, k), NEW d, Longer(c, d, n)
    PROVE  /\ Sound(hdr2, dat2, n + 1, d) /\ Counted(hdr2, d, g) /\ Stands(hdr2, d, g)
           /\ g.pos = Total(hdr2, d)
           /\ Holds(hdr2, dat2, d, Overlaid(old, p, bytes, w + k))
  <1>0. Len(Overlaid(old, p, bytes, w + k)) = p + w + k
    <2>1. p + w = Len(Overlaid(old, p, bytes, w))
      BY DEF Holds
    <2>2. SUFFICES ASSUME NEW v \in Nat, v = w + k, NEW l \in Nat, l = p + w
                   PROVE  Len(Overlaid(old, p, bytes, v)) = p + v
      OBVIOUS
    <2>3. w <= v /\ v <= Len(bytes) /\ l = Len(Overlaid(old, p, bytes, w))
      BY <2>1, <2>2
    <2> QED BY <2>2, <2>3, ReachGrows
  <1> DEFINE id == n + 1
  <1> DEFINE L == Len(c)
  <1> DEFINE last == c[L]
  <1> DEFINE T == Total(hdr, c)
  <1> DEFINE a == (L - 1) * Space
  <1>1. /\ Sound(hdr, dat, n, c) /\ ImageType(hdr, dat) /\ n \in 1 .. MaxBlocks /\ Ordered(n, c)
        /\ Linked(hdr, c) /\ Packed(hdr, c) /\ Fresh(hdr, n)
    BY DEF Sound
  <1>2. n \in 1 .. MaxBlocks - 1 /\ n \in Nat /\ Space \in Nat /\ Space > 0
    BY <1>1, FileAssumption
  <1>3. /\ Ordered(id, d) /\ Len(d) = L + 1 /\ L \in Nat /\ L >= 1 /\ d[L + 1] = id /\ id \in Ids
        /\ \A i \in 1 .. L : d[i] = c[i]
        /\ \A i \in 1 .. L : d[i] \in Ids /\ d[i] <= n /\ d[i] # id
    BY DEF Longer
  <1>4. last \in Ids /\ last # id /\ d[L] = last /\ L \in 1 .. L
    <2>1. L \in 1 .. L
      BY <1>3
    <2>2. d[L] = last
      BY <1>3, <2>1
    <2> HIDE DEF L, last, id
    <2> QED BY <1>3, <2>1, <2>2
  <1>5. /\ Put(dat, dat2, id, 0, bytes, w, k) /\ Counted(hdr, c, f) /\ Moved(r, g, k, k)
        /\ Taken(f, r, id) /\ hdr[last].size = Space /\ f.pos = T /\ f.pos = p + w
        /\ Extended(hdr, hdr2, last, id, k)
        /\ k \in 1 .. Space /\ k \in 0 .. Space
    BY <1>2
  <1>6. T \in Nat /\ a \in Nat /\ T = a + Space
    <2>1. /\ Total(hdr, c) \in Nat /\ (Len(c) - 1) * Space \in Nat
          /\ Total(hdr, c) = (Len(c) - 1) * Space + hdr[c[Len(c)]].size
      BY <1>1, Sizes
    <2> QED BY <1>5, <2>1
  <1>7. hdr[id].size = 0 /\ hdr[id].next = id
    <2>1. id > n
      BY <1>2
    <2>2. hdr[id] = [size |-> 0, next |-> id]
      <3> HIDE DEF id
      <3> QED BY <1>1, <1>3, <2>1 DEF Fresh
    <2> QED BY <2>2
  <1> HIDE DEF id, L, last, T
  <1>8. /\ hdr2 \in [Ids -> [size : 0 .. Space, next : Ids]]
        /\ hdr2[id].size = k /\ hdr2[id].next = id
        /\ hdr2[last].size = Space /\ hdr2[last].next = id
        /\ \A e \in Ids : e # id /\ e # last => hdr2[e] = hdr[e]
    BY <1>5 DEF Extended
  <1>9. Sound(hdr2, dat2, id, d)
    <2>1. ImageType(hdr2, dat2)
      BY <1>5, <1>8 DEF ImageType, Put
    <2>2. Linked(hdr2, d)
      <3>1. hdr2[d[Len(d)]].next = d[Len(d)]
        BY <1>3, <1>8
      <3>2. ASSUME NEW i \in 1 .. Len(d) - 1 PROVE hdr2[d[i]].next = d[i + 1]
        <4>1. i \in 1 .. L
          BY <1>3
        <4>2. CASE i = L
          BY <1>3, <1>4, <1>8, <4>2
        <4>3. CASE i # L
          <5>1. i \in 1 .. L - 1 /\ i + 1 \in 1 .. L
            BY <1>3, <4>1, <4>3
          <5>2. hdr[c[i]].next = c[i + 1]
            BY <1>1, <5>1 DEF Linked, L
          <5>3. c[i] # last
            <6>1. n \in 0 .. MaxBlocks
              BY <1>1, FileAssumption
            <6>2. \A x, y \in 1 .. L : c[x] = c[y] => x = y
              BY <1>1, <6>1, ChainType DEF L
            <6> QED BY <1>4, <4>1, <4>3, <6>2 DEF last
          <5>4. hdr2[d[i]] = hdr[c[i]]
            <6>1. d[i] = c[i] /\ d[i] \in Ids /\ d[i] # id
              BY <1>3, <4>1
            <6> QED BY <1>8, <5>3, <6>1
          <5> QED BY <1>3, <5>1, <5>2, <5>4
        <4> QED BY <4>2, <4>3
      <3> QED BY <3>1, <3>2 DEF Linked
    <2>3. Packed(hdr2, d)
      <3>1. hdr2[d[Len(d)]].size > 0
        BY <1>3, <1>5, <1>8
      <3>2. ASSUME NEW i \in 1 .. Len(d) - 1 PROVE hdr2[d[i]].size = Space
        <4>1. i \in 1 .. L /\ d[i] \in Ids /\ d[i] # id /\ d[i] = c[i]
          BY <1>3
        <4>2. CASE d[i] = last
          BY <1>8, <4>2
        <4>3. CASE d[i] # last
          <5>1. i # L
            BY <1>4, <4>3
          <5>2. i \in 1 .. L - 1
            BY <1>3, <4>1, <5>1
          <5>3. hdr[c[i]].size = Space
            BY <1>1, <5>2 DEF Packed, L
          <5>4. hdr2[d[i]] = hdr[c[i]]
            BY <1>8, <4>1, <4>3
          <5> QED BY <5>3, <5>4
        <4> QED BY <4>2, <4>3
      <3> QED BY <3>1, <3>2 DEF Packed
    <2>4. Fresh(hdr2, id)
      <3>1. ASSUME NEW e \in Ids, e > id PROVE e # id /\ e # last /\ e > n
        <4>1. e \in Nat /\ last \in Nat
          BY <1>4, FileAssumption DEF Ids
        <4>2. last <= n
          BY <1>3, <1>4
        <4> QED BY <1>2, <3>1, <4>1, <4>2 DEF id
      <3> QED BY <1>1, <1>8, <3>1 DEF Fresh
    <2>5. id \in 1 .. MaxBlocks
      BY <1>3 DEF Ids
    <2> QED BY <1>3, <2>1, <2>2, <2>3, <2>4, <2>5 DEF Sound
  <1>10. L * Space = T
    <2>1. L * Space = (L - 1) * Space + Space
      BY <1>2, <1>3
    <2> QED BY <1>6, <2>1
  <1>11. Total(hdr2, d) = T + k
    <2>1. (L + 1) - 1 = L
      BY <1>3
    <2> QED BY <1>3, <1>8, <1>10, <2>1 DEF Total
  <1>12. Counted(hdr2, d, g)
    BY <1>3, <1>5, <1>11 DEF Counted, Moved, Taken, T, L
  <1>13. g.pos = T + k
    BY <1>5 DEF Moved, Taken
  <1>14. Stands(hdr2, d, g)
    <2>1. /\ g.blockIndex = L /\ g.work.id = id /\ g.work.next = id
          /\ g.work.seekPos = k /\ g.work.bytesWritten = k /\ g.mode = "Append"
      <3>1. /\ g.blockIndex = L /\ g.work.id = id /\ g.work.next = id
            /\ g.work.seekPos = 0 + k /\ g.work.bytesWritten = 0 + k /\ g.mode = "Append"
        BY <1>5 DEF Moved, Taken, Counted, L
      <3> QED BY <3>1
    <2>2. L \in 0 .. Len(d) - 1 /\ k \in 0 .. k
      BY <1>3
    <2>3. g.pos = L * Space + k
      BY <1>10, <1>13
    <2> QED BY <1>3, <1>8, <2>1, <2>2, <2>3 DEF Stands
  <1>15. Holds(hdr2, dat2, d, Overlaid(old, p, bytes, w + k))
    <2> DEFINE j == L + 1
    <2>1. j \in 1 .. Len(d) /\ d[j] = id /\ p + w = (j - 1) * Space + 0
      <3>1. (L + 1) - 1 = L
        BY <1>3
      <3> QED BY <1>3, <1>5, <1>6, <1>10, <3>1
    <2>2. SameBut(hdr, c, hdr2, d, j, 0, k)
      <3>1. ASSUME NEW l \in 1 .. Len(d), l # j
            PROVE  l \in 1 .. Len(c) /\ d[l] = c[l] /\ hdr2[d[l]].size = hdr[c[l]].size
        <4>1. l \in 1 .. L
          BY <1>3, <3>1
        <4>2. d[l] = c[l] /\ d[l] \in Ids /\ d[l] # id
          BY <1>3, <4>1
        <4>3. hdr2[d[l]].size = hdr[c[l]].size
          <5>1. CASE d[l] = last
            BY <1>5, <1>8, <4>2, <5>1
          <5>2. CASE d[l] # last
            BY <1>8, <4>2, <5>2
          <5> QED BY <5>1, <5>2
        <4> QED BY <4>1, <4>2, <4>3 DEF L
      <3>2. ASSUME NEW s \in 1 .. hdr2[d[j]].size PROVE s \in 0 + 1 .. 0 + k
        <4>1. s \in 1 .. k
          BY <1>8, <2>1
        <4> QED BY <4>1
      <3> QED BY <3>1, <3>2 DEF SameBut
    <2>3. Put(dat, dat2, d[j], 0, bytes, w, k)
      BY <1>5, <2>1
    <2>4. w + k <= Len(bytes) /\ 0 + k <= Space /\ 0 \in Nat
      BY <1>5
    <2>5. Total(hdr2, d) = Len(Overlaid(old, p, bytes, w + k))
      <3> HIDE DEF T, L, a, id, last
      <3> QED BY <1>0, <1>5, <1>11
    <2> DEFINE at == 0
    <2>6. /\ at \in Nat /\ at + k <= Space /\ p + w = (j - 1) * Space + at
          /\ SameBut(hdr, c, hdr2, d, j, at, k) /\ Put(dat, dat2, d[j], at, bytes, w, k)
      BY <2>1, <2>2, <2>3, <2>4
    <2>7. j \in 1 .. Len(d) /\ w + k <= Len(bytes) /\ p <= Len(old)
      BY <2>1, <2>4
    <2> HIDE DEF j, at
    <2> QED BY <1>1, <1>9, <2>5, <2>6, <2>7, WriteHeld
  <1> QED BY <1>9, <1>11, <1>12, <1>13, <1>14, <1>15 DEF id

(* A chunk that replaces bytes of the working block. *)
LEMMA ChunkReplaces ==
    ASSUME NEW bytes, NEW p, NEW old, NEW c, NEW st, HasWritten(st, bytes, p, old, c),
           st.file.mode = "Overwrite", NEW k \in Nat, k > 0, st.wrote + k <= Len(bytes),
           st.file.work.seekPos + k <= Space,
           NEW new, new = writeToWorkingBlock(st, SubSeq(bytes, st.wrote + 1, st.wrote + k))
    PROVE  HasWritten(new, bytes, p, old, c) /\ new.wrote = st.wrote + k /\ new.used = st.used
  <1> DEFINE f == st.file
  <1> DEFINE w == st.wrote
  <1> DEFINE hdr == st.header
  <1> DEFINE dat == st.data
  <1> DEFINE b == f.work.id
  <1> DEFINE i == f.blockIndex
  <1> DEFINE at == f.work.seekPos
  <1> DEFINE size == hdr[b].size
  <1> DEFINE N == Len(bytes)
  <1> DEFINE T == Total(hdr, c)
  <1> DEFINE chunk == SubSeq(bytes, w + 1, w + k)
  <1>1. /\ bytes \in Seq(Bytes) /\ old \in Seq(Bytes) /\ p \in 0 .. Len(old) /\ IsState(st)
        /\ Sound(hdr, dat, st.used, c) /\ Counted(hdr, c, f) /\ Stands(hdr, c, f)
        /\ w \in 0 .. N /\ f.pos = p + w /\ Holds(hdr, dat, c, Overlaid(old, p, bytes, w))
        /\ f.mode = "Overwrite" /\ (p + N <= T \/ Full(hdr, c))
    BY DEF HasWritten
  <1>2. f \in Objects
    BY <1>1 DEF Counted
  <1>3. /\ i \in Nat /\ i + 1 \in 1 .. Len(c) /\ b \in Ids
        /\ b = c[i + 1] /\ at \in Nat /\ at <= size /\ size \in 0 .. Space
        /\ f.work.bytesWritten = size /\ f.pos = i * Space + at
    <2> HIDE DEF f, hdr, dat
    <2> QED BY <1>1, <1>2, PlaceOfObject
  <1>4. N \in Nat /\ Len(old) \in Nat /\ T \in Nat /\ Space \in Nat /\ Len(c) \in Nat
    BY <1>1, Sizes
  <1>5. /\ w \in Nat /\ p \in Nat /\ p <= Len(old) /\ w + k <= N /\ at + k <= Space /\ k \in Nat
    BY <1>1, <1>4
  <1>6. chunk \in Seq(Bytes) /\ Len(chunk) = k
    <2> HIDE DEF w
    <2> QED BY <1>1, <1>5, Piece
  <1>7. at + k <= f.work.initialBytesWritten
    <2> DEFINE s == at + k
    <2>1. s \in 0 .. Space
      <3> HIDE DEF at
      <3> QED BY <1>3, <1>4, <1>5
    <2>2. i \in 0 .. Len(c) - 1
      <3> HIDE DEF i
      <3> QED BY <1>3, <1>4
    <2>3. CASE Full(hdr, c)
      <3>1. size = Space
        <4>1. /\ Len(c) \in Nat /\ \A l \in 1 .. Len(c) : l < Len(c) => hdr[c[l]].size = Space
          BY <1>1, Sizes
        <4>2. i + 1 < Len(c) \/ i + 1 = Len(c)
          <5> HIDE DEF i
          <5> QED BY <1>3, <1>4
        <4> QED BY <1>3, <2>3, <4>1, <4>2 DEF Full
      <3>2. f.work.initialBytesWritten = size
        BY <1>1, <1>3 DEF Stands
      <3> QED BY <1>5, <3>1, <3>2
    <2>4. CASE p + N <= T
      <3>1. i * Space + s <= T
        <4> DEFINE a == i * Space
        <4>1. a \in Nat
          <5> HIDE DEF i
          <5> QED BY <1>3, <1>4
        <4>2. p + w = a + at
          <5> HIDE DEF f, w, at, i
          <5> QED BY <1>1, <1>3
        <4>3. p + N <= T
          BY <2>4
        <4>4. p \in Nat /\ w \in Nat /\ at \in Nat /\ w + k <= N /\ N \in Nat /\ T \in Nat
          BY <1>3, <1>4, <1>5
        <4> HIDE DEF a, at, w, N, T
        <4>5. a + (at + k) <= T
          BY <4>1, <4>2, <4>3, <4>4
        <4> QED BY <4>5 DEF a
      <3> HIDE DEF s
      <3>2. s \in 0 .. hdr[c[i + 1]].size
        BY <1>1, <2>1, <2>2, <3>1, WithinBlock
      <3>3. f.work.initialBytesWritten = size
        BY <1>1, <1>3 DEF Stands
      <3>4. s <= size
        BY <1>3, <3>2
      <3> QED BY <3>3, <3>4 DEF s
    <2> QED BY <1>1, <2>3, <2>4
  <1>8. /\ IsState(new) /\ new.used = st.used /\ new.wrote = w + k /\ new.header = hdr
        /\ new.data = Patched(dat, b, at, chunk) /\ Moved(f, new.file, k, 0)
    <2>1. ImageType(st.header, st.data)
      BY <1>1 DEF Sound
    <2>2. /\ Len(chunk) \in Nat /\ st.file \in Objects /\ st.file.work.id \in Ids
          /\ st.file.mode # "Append"
          /\ st.file.work.seekPos + Len(chunk) <= st.file.work.initialBytesWritten
      BY <1>1, <1>2, <1>3, <1>6, <1>7
    <2>3. new = writeToWorkingBlock(st, chunk)
      OBVIOUS
    <2> HIDE DEF chunk
    <2>4. LET res == writeToWorkingBlock(st, chunk)
              count == Len(chunk)
              append == st.file.mode = "Append"
          IN  /\ IsState(res) /\ res.used = st.used /\ res.wrote = st.wrote + count
              /\ res.header = IF append
                              THEN [st.header EXCEPT ![b].size = st.file.work.bytesWritten + count]
                              ELSE st.header
              /\ res.data = Patched(st.data, b, st.file.work.seekPos, chunk)
              /\ Moved(st.file, res.file, count, IF append THEN count ELSE 0)
      BY <1>1, <2>1, <2>2, Stored
    <2> QED BY <1>6, <2>2, <2>3, <2>4, ZenonT(60)
  <1> DEFINE dat2 == Patched(dat, b, at, chunk)
  <1> DEFINE g == new.file
  <1>9. Put(dat, dat2, b, at, bytes, w, k)
    <2>1. dat \in [Ids -> [1 .. Space -> Bytes]]
      BY <1>1 DEF Sound, ImageType
    <2> HIDE DEF dat, b, at, w
    <2> QED BY <1>1, <1>3, <1>5, <2>1, PiecePut
  <1> HIDE DEF dat2, g
  <1>10. /\ Sound(hdr, dat2, st.used, c) /\ Counted(hdr, c, g) /\ Stands(hdr, c, g)
         /\ Holds(hdr, dat2, c, Overlaid(old, p, bytes, w + k))
    <2>1. Moved(f, g, k, 0)
      BY <1>8 DEF g
    <2>2. f.work.seekPos + k <= hdr[f.work.id].size
          /\ Put(dat, dat2, f.work.id, f.work.seekPos, bytes, w, k)
      <3>1. f.work.initialBytesWritten = size
        BY <1>1, <1>3 DEF Stands
      <3> QED BY <1>7, <1>9, <3>1
    <2> HIDE DEF f, w, hdr, dat
    <2> QED BY <1>1, <1>5, <2>1, <2>2, ReplacedRight
  <1>11. g.pos = p + (w + k) /\ g.mode = "Overwrite" /\ w + k \in 0 .. N
    <2>1. g.pos = f.pos + k /\ g.mode = f.mode
      BY <1>8 DEF Moved, g
    <2>2. (p + w) + k = p + (w + k)
      BY <1>5
    <2>3. w + k \in 0 .. N
      BY <1>4, <1>5
    <2> QED BY <1>1, <2>1, <2>2, <2>3
  <1>12. HasWritten(new, bytes, p, old, c)
    <2>1. /\ new.header = hdr /\ new.data = dat2 /\ new.file = g /\ new.wrote = w + k
          /\ new.used = st.used /\ IsState(new)
      BY <1>8 DEF dat2, g
    <2> HIDE DEF f, w, hdr, dat
    <2> QED BY <1>1, <1>10, <1>11, <2>1 DEF HasWritten
  <1> QED BY <1>8, <1>12

(* A chunk that the last block has space for. *)
LEMMA ChunkAppends ==
    ASSUME NEW bytes, NEW p, NEW old, NEW c, NEW st, HasWritten(st, bytes, p, old, c),
           st.file.mode = "Append", NEW k \in Nat, k > 0, st.wrote + k <= Len(bytes),
           st.file.work.seekPos + k <= Space,
           NEW new, new = writeToWorkingBlock(st, SubSeq(bytes, st.wrote + 1, st.wrote + k))
    PROVE  HasWritten(new, bytes, p, old, c) /\ new.wrote = st.wrote + k /\ new.used = st.used
  <1> DEFINE f == st.file
  <1> DEFINE w == st.wrote
  <1> DEFINE hdr == st.header
  <1> DEFINE dat == st.data
  <1> DEFINE b == f.work.id
  <1> DEFINE at == f.work.seekPos
  <1> DEFINE N == Len(bytes)
  <1> DEFINE T == Total(hdr, c)
  <1> DEFINE chunk == SubSeq(bytes, w + 1, w + k)
  <1>1. /\ bytes \in Seq(Bytes) /\ old \in Seq(Bytes) /\ p \in 0 .. Len(old) /\ IsState(st)
        /\ Sound(hdr, dat, st.used, c) /\ Counted(hdr, c, f) /\ Stands(hdr, c, f)
        /\ w \in 0 .. N /\ f.pos = p + w /\ Holds(hdr, dat, c, Overlaid(old, p, bytes, w))
        /\ f.mode = "Append" /\ f.pos = T
    BY DEF HasWritten
  <1>2. f \in Objects
    BY <1>1 DEF Counted
  <1>3. b \in Ids /\ at \in Nat
    <2> HIDE DEF f, hdr, dat
    <2> QED BY <1>1, <1>2, PlaceOfObject
  <1>4. N \in Nat /\ Len(old) \in Nat
    BY <1>1
  <1>5. /\ w \in Nat /\ p \in Nat /\ p <= Len(old) /\ w + k <= N /\ at + k <= Space /\ k \in Nat
    BY <1>1, <1>4
  <1>6. chunk \in Seq(Bytes) /\ Len(chunk) = k
    <2> HIDE DEF w
    <2> QED BY <1>1, <1>5, Piece
  <1> DEFINE hdr2 == [hdr EXCEPT ![b].size = f.work.bytesWritten + k]
  <1>8. /\ IsState(new) /\ new.used = st.used /\ new.wrote = w + k /\ new.header = hdr2
        /\ new.data = Patched(dat, b, at, chunk) /\ Moved(f, new.file, k, k)
    <2>1. ImageType(st.header, st.data)
      BY <1>1 DEF Sound
    <2>2. /\ Len(chunk) \in Nat /\ st.file \in Objects /\ st.file.work.id \in Ids
          /\ st.file.mode = "Append"
      BY <1>1, <1>2, <1>3, <1>6
    <2>3. new = writeToWorkingBlock(st, chunk)
      OBVIOUS
    <2> HIDE DEF chunk
    <2>4. LET res == writeToWorkingBlock(st, chunk)
              size == Len(chunk)
              append == st.file.mode = "Append"
          IN  /\ IsState(res) /\ res.used = st.used /\ res.wrote = st.wrote + size
              /\ res.header = IF append
                              THEN [st.header EXCEPT ![b].size = st.file.work.bytesWritten + size]
                              ELSE st.header
              /\ res.data = Patched(st.data, b, st.file.work.seekPos, chunk)
              /\ Moved(st.file, res.file, size, IF append THEN size ELSE 0)
      BY <1>1, <2>1, <2>2, Stored
    <2> QED BY <1>6, <2>2, <2>3, <2>4, ZenonT(60)
  <1> DEFINE dat2 == Patched(dat, b, at, chunk)
  <1> DEFINE g == new.file
  <1>9. Put(dat, dat2, b, at, bytes, w, k)
    <2>1. dat \in [Ids -> [1 .. Space -> Bytes]]
      BY <1>1 DEF Sound, ImageType
    <2> HIDE DEF dat, b, at, w
    <2> QED BY <1>1, <1>3, <1>5, <2>1, PiecePut
  <1> HIDE DEF dat2, g
  <1>10. /\ Sound(hdr2, dat2, st.used, c) /\ Counted(hdr2, c, g) /\ Stands(hdr2, c, g)
         /\ g.pos = Total(hdr2, c) /\ Holds(hdr2, dat2, c, Overlaid(old, p, bytes, w + k))
    <2>1. Moved(f, g, k, k)
      BY <1>8 DEF g
    <2>2. f.work.seekPos + k <= Space /\ Put(dat, dat2, f.work.id, f.work.seekPos, bytes, w, k)
      BY <1>5, <1>9
    <2>3. Resized(hdr, hdr2, f.work.id, f.work.bytesWritten + k)
      <3> DEFINE z == f.work.bytesWritten + k
      <3>1. f.work.bytesWritten = at
        <4> DEFINE i == f.blockIndex
        <4>1. i = Len(c) - 1 /\ at = hdr[c[Len(c)]].size
          <5> HIDE DEF f, hdr, dat
          <5> QED BY <1>1, <1>2, AtTheEnd
        <4>2. i \in Nat /\ b = c[i + 1] /\ f.work.bytesWritten = hdr[b].size
          <5> HIDE DEF f, hdr, dat
          <5> QED BY <1>1, <1>2, PlaceOfObject
        <4>3. Len(c) \in Nat
          BY <1>1, Sizes
        <4> HIDE DEF b, i, at
        <4>4. i + 1 = Len(c)
          BY <4>1, <4>2, <4>3
        <4> QED BY <4>1, <4>2, <4>4
      <3>2. z \in 0 .. Space
        <4>1. Space \in Nat
          BY FileAssumption
        <4> HIDE DEF at
        <4> QED BY <1>3, <1>5, <3>1, <4>1
      <3>3. hdr \in [Ids -> [size : 0 .. Space, next : Ids]]
        BY <1>1 DEF Sound, ImageType
      <3> HIDE DEF z, hdr, b
      <3>4. Resized(hdr, [hdr EXCEPT ![b].size = z], b, z)
        BY <1>3, <3>2, <3>3, HeaderResized
      <3> QED BY <3>4 DEF z, b
    <2>4. f.pos = Total(hdr, c)
      BY <1>1
    <2> HIDE DEF f, w, hdr, dat, hdr2
    <2>5. k > 0
      OBVIOUS
    <2> QED BY <1>1, <1>5, <2>1, <2>2, <2>3, <2>4, <2>5, AppendedRight, ZenonT(60)
  <1>11. g.pos = p + (w + k) /\ g.mode = "Append" /\ w + k \in 0 .. N
    <2>1. g.pos = f.pos + k /\ g.mode = f.mode
      BY <1>8 DEF Moved, g
    <2>2. (p + w) + k = p + (w + k)
      BY <1>5
    <2>3. w + k \in 0 .. N
      BY <1>4, <1>5
    <2> QED BY <1>1, <2>1, <2>2, <2>3
  <1>12. HasWritten(new, bytes, p, old, c)
    <2>1. /\ new.header = hdr2 /\ new.data = dat2 /\ new.file = g /\ new.wrote = w + k
          /\ new.used = st.used /\ IsState(new)
      BY <1>8 DEF dat2, g
    <2> HIDE DEF f, w, hdr, dat, hdr2
    <2> QED BY <1>1, <1>10, <1>11, <2>1 DEF HasWritten
  <1> QED BY <1>8, <1>12

(* A new block is the working block of the object, behind the one that was. *)
LEMMA BlockTaken ==
    ASSUME NEW st, IsState(st), ImageType(st.header, st.data), st.file \in Objects,
           st.file.work.id \in Ids, st.used + 1 \in Ids,
           NEW ready, ready = newWritableFileBlock([st EXCEPT !.file.mode = "Append"])
    PROVE  /\ IsState(ready) /\ ready.used = st.used + 1 /\ ready.wrote = st.wrote
           /\ ready.header = [st.header EXCEPT ![st.file.work.id].next = st.used + 1]
           /\ ready.data = st.data
           /\ Taken(st.file, ready.file, st.used + 1)
  <1>1. PICK h, d, u, o, x : st = [header |-> h, data |-> d, used |-> u, file |-> o, wrote |-> x]
    BY DEF IsState
  <1>2. h = st.header /\ d = st.data /\ u = st.used /\ o = st.file /\ x = st.wrote
    BY <1>1
  <1> DEFINE moved == [o EXCEPT !.mode = "Append"]
  <1> DEFINE id == u + 1
  <1> DEFINE block == [id |-> id, seekPos |-> 0, next |-> id,
                       bytesWritten |-> 0, initialBytesWritten |-> 0]
  <1>3. o \in Objects /\ id \in Ids /\ o.work.id \in Ids
    BY <1>2
  <1>4. [st EXCEPT !.file.mode = "Append"]
          = [header |-> h, data |-> d, used |-> u, file |-> moved, wrote |-> x]
    BY <1>1
  <1>5. /\ moved \in Objects /\ moved.mode = "Append" /\ moved.fileSize = o.fileSize
        /\ moved.blockCount = o.blockCount /\ moved.pos = o.pos /\ moved.work = o.work
    BY <1>3 DEF Objects, Modes
  <1> HIDE DEF moved
  <1> DEFINE state == [header |-> h, data |-> d, used |-> u, file |-> moved, wrote |-> x]
  <1>6. ready = newWritableFileBlock(state)
    BY <1>4
  <1>7. ready.used = id
    BY <1>6, ZenonT(60) DEF newWritableFileBlock
  <1>8. ready.header = [h EXCEPT ![o.work.id].next = id]
    <2>1. ready.header = [h EXCEPT ![moved.work.id].next = id]
      BY <1>6, ZenonT(60) DEF newWritableFileBlock
    <2> QED BY <1>5, <2>1
  <1>9. ready.data = d
    BY <1>6, ZenonT(60) DEF newWritableFileBlock
  <1>10. ready.wrote = x
    BY <1>6, ZenonT(60) DEF newWritableFileBlock
  <1>11. IsState(ready)
    BY <1>6, ZenonT(60) DEF newWritableFileBlock, IsState
  <1>12. ready.file = [moved EXCEPT !.blockCount = @ + 1, !.blockIndex = moved.blockCount,
                                    !.work = block]
    BY <1>6, ZenonT(60) DEF newWritableFileBlock
  <1>13. Taken(o, ready.file, id)
    <2>1. block \in WorkingBlocks
      BY <1>3 DEF WorkingBlocks
    <2>2. block.id = id /\ block.next = id /\ block.seekPos = 0 /\ block.bytesWritten = 0
      OBVIOUS
    <2>3. moved.blockCount \in Nat
      BY <1>5 DEF Objects
    <2> DEFINE count == moved.blockCount + 1
    <2>4. count \in Nat /\ moved.blockCount \in Int
      BY <2>3
    <2>5. ready.file = [moved EXCEPT !.blockCount = count, !.blockIndex = moved.blockCount,
                                     !.work = block]
      BY <1>12
    <2> HIDE DEF block, id, count
    <2>6. /\ ready.file \in Objects /\ ready.file.mode = "Append"
          /\ ready.file.fileSize = moved.fileSize /\ ready.file.blockCount = count
          /\ ready.file.blockIndex = moved.blockCount /\ ready.file.pos = moved.pos
          /\ ready.file.work = block
      BY <1>5, <2>1, <2>4, <2>5 DEF Objects
    <2> QED BY <1>5, <2>2, <2>6 DEF Taken, count
  <1> HIDE DEF id
  <1> QED BY <1>2, <1>7, <1>8, <1>9, <1>10, <1>11, <1>13 DEF id

(* A chunk for which the file is given a new block. *)
LEMMA ChunkAdds ==
    ASSUME NEW bytes, NEW p, NEW old, NEW c, NEW st, HasWritten(st, bytes, p, old, c),
           st.file.mode = "Append", st.file.work.seekPos = Space, st.used + 1 <= MaxBlocks,
           NEW k \in Nat, k > 0, st.wrote + k <= Len(bytes), k <= Space,
           NEW ready, ready = newWritableFileBlock([st EXCEPT !.file.mode = "Append"]),
           NEW new, new = writeToWorkingBlock(ready, SubSeq(bytes, st.wrote + 1, st.wrote + k))
    PROVE  /\ HasWritten(new, bytes, p, old, Append(c, st.used + 1))
           /\ new.wrote = st.wrote + k
  <1> DEFINE f == st.file
  <1> DEFINE w == st.wrote
  <1> DEFINE hdr == st.header
  <1> DEFINE dat == st.data
  <1> DEFINE n == st.used
  <1> DEFINE id == n + 1
  <1> DEFINE last == c[Len(c)]
  <1> DEFINE N == Len(bytes)
  <1> DEFINE chunk == SubSeq(bytes, w + 1, w + k)
  <1> DEFINE d == Append(c, id)
  <1>1. /\ bytes \in Seq(Bytes) /\ old \in Seq(Bytes) /\ p \in 0 .. Len(old) /\ IsState(st)
        /\ Sound(hdr, dat, n, c) /\ Counted(hdr, c, f) /\ Stands(hdr, c, f)
        /\ w \in 0 .. N /\ f.pos = p + w /\ Holds(hdr, dat, c, Overlaid(old, p, bytes, w))
        /\ f.mode = "Append" /\ f.pos = Total(hdr, c)
    BY DEF HasWritten
  <1>2. f \in Objects
    BY <1>1 DEF Counted
  <1>3. /\ hdr \in [Ids -> [size : 0 .. Space, next : Ids]]
        /\ dat \in [Ids -> [1 .. Space -> Bytes]]
        /\ n \in 1 .. MaxBlocks /\ Ordered(n, c) /\ Fresh(hdr, n)
    BY <1>1 DEF Sound, ImageType
  <1>4. n \in 1 .. MaxBlocks - 1 /\ n \in Nat /\ n + 1 > n /\ Space \in Nat
    <2>1. MaxBlocks \in Nat /\ Space \in Nat /\ n + 1 <= MaxBlocks
      BY FileAssumption
    <2> HIDE DEF n
    <2> QED BY <1>3, <2>1
  <1> HIDE DEF hdr, dat, n
  <1>5. Longer(c, d, n) /\ id \in Ids /\ \A i \in 1 .. Len(c) : c[i] \in Ids /\ c[i] # id
    <2>1. Longer(c, d, n)
      BY <1>3, <1>4, ChainGrows
    <2> HIDE DEF d
    <2> QED BY <2>1 DEF Longer
  <1>6. last \in Ids /\ last # id /\ hdr[last].size = Space /\ f.work.id = last
    <2> DEFINE i == f.blockIndex
    <2> DEFINE at == f.work.seekPos
    <2> DEFINE b == f.work.id
    <2>1. i = Len(c) - 1 /\ at = hdr[c[Len(c)]].size
      <3> HIDE DEF f
      <3> QED BY <1>1, <1>2, AtTheEnd
    <2>2. i \in Nat /\ i + 1 \in 1 .. Len(c) /\ b = c[i + 1]
      <3> HIDE DEF f
      <3> QED BY <1>1, <1>2, PlaceOfObject
    <2>3. Len(c) \in Nat /\ at = Space
      BY <1>1, Sizes
    <2> HIDE DEF f, i, at, b
    <2>4. i + 1 = Len(c) /\ Len(c) \in 1 .. Len(c)
      BY <2>1, <2>2, <2>3
    <2>5. last \in Ids /\ last # id
      BY <1>5, <2>4
    <2>6. hdr[last].size = Space /\ b = last
      BY <2>1, <2>2, <2>3, <2>4
    <2> QED BY <2>5, <2>6 DEF b
  <1>7. hdr[id].next = id
    <2>1. hdr[id] = [size |-> 0, next |-> id]
      BY <1>3, <1>4, <1>5 DEF Fresh
    <2> QED BY <2>1
  <1> DEFINE hdr1 == [hdr EXCEPT ![last].next = id]
  <1>8. /\ IsState(ready) /\ ready.used = id /\ ready.wrote = w /\ ready.data = dat
        /\ ready.header = hdr1 /\ Taken(f, ready.file, id)
    <2>1. ImageType(st.header, st.data) /\ st.file.work.id \in Ids /\ st.used + 1 \in Ids
          /\ st.file.work.id = last /\ st.file \in Objects
      BY <1>1, <1>2, <1>5, <1>6 DEF Sound, hdr, dat, n
    <2> HIDE DEF last
    <2>2. /\ IsState(ready) /\ ready.used = st.used + 1 /\ ready.wrote = st.wrote
          /\ ready.header = [st.header EXCEPT ![last].next = st.used + 1]
          /\ ready.data = st.data /\ Taken(st.file, ready.file, st.used + 1)
      BY <1>1, <2>1, BlockTaken
    <2> QED BY <2>2 DEF hdr, dat, n
  <1> HIDE DEF hdr1
  <1> DEFINE r == ready.file
  <1>9. r \in Objects /\ r.work.id = id /\ r.mode = "Append" /\ r.work.seekPos = 0
        /\ r.work.bytesWritten = 0
    BY <1>8 DEF Taken
  <1>10. N \in Nat /\ Len(old) \in Nat /\ w \in Nat /\ p \in Nat /\ p <= Len(old) /\ w + k <= N
    <2>1. N \in Nat /\ Len(old) \in Nat
      BY <1>1
    <2> QED BY <1>1, <2>1
  <1>11. chunk \in Seq(Bytes) /\ Len(chunk) = k
    <2> HIDE DEF w
    <2> QED BY <1>1, <1>10, Piece
  <1> DEFINE hdr2 == [hdr1 EXCEPT ![id].size = k]
  <1> DEFINE dat2 == Patched(dat, id, 0, chunk)
  <1>12. Extended(hdr, hdr2, last, id, k)
    <2>1. k \in 0 .. Space
      BY <1>4
    <2> HIDE DEF last, id
    <2> QED BY <1>3, <1>5, <1>6, <1>7, <2>1, HeadersGrow DEF hdr1
  <1>13. /\ IsState(new) /\ new.used = id /\ new.wrote = w + k /\ new.header = hdr2
         /\ new.data = dat2 /\ Moved(r, new.file, k, k)
    <2>1. hdr1 \in [Ids -> [size : 0 .. Space, next : Ids]]
      <3>1. [hdr[last] EXCEPT !.next = id] \in [size : 0 .. Space, next : Ids]
        <4>1. hdr[last] \in [size : 0 .. Space, next : Ids] /\ id \in Ids
          BY <1>3, <1>5, <1>6
        <4> HIDE DEF hdr, last, id
        <4> QED BY <4>1
      <3>2. hdr1 = [hdr EXCEPT ![last] = [hdr[last] EXCEPT !.next = id]]
        BY <1>3, <1>6 DEF hdr1
      <3> DEFINE x == [hdr[last] EXCEPT !.next = id]
      <3> DEFINE R == [size : 0 .. Space, next : Ids]
      <3>3. hdr1 = [hdr EXCEPT ![last] = x] /\ x \in R /\ hdr \in [Ids -> R]
        BY <1>3, <3>1, <3>2
      <3> HIDE DEF x, R
      <3>4. hdr1 \in [Ids -> R]
        BY <3>3
      <3> QED BY <3>4 DEF R
    <2>2. ImageType(ready.header, ready.data)
      BY <1>3, <1>8, <2>1 DEF ImageType
    <2>3. /\ Len(chunk) \in Nat /\ ready.file \in Objects /\ ready.file.work.id \in Ids
          /\ ready.file.mode = "Append"
      BY <1>5, <1>9, <1>11
    <2>4. new = writeToWorkingBlock(ready, chunk)
      OBVIOUS
    <2> HIDE DEF chunk
    <2>5. AppendedTo(ready, chunk, writeToWorkingBlock(ready, chunk))
      BY <1>8, <2>2, <2>3, StoredAtEnd
    <2>6. /\ IsState(new) /\ new.used = id /\ new.wrote = w + k
          /\ new.header = [hdr1 EXCEPT ![id].size = 0 + k]
          /\ new.data = Patched(dat, id, 0, chunk) /\ Moved(r, new.file, k, k)
      BY <1>8, <1>9, <1>11, <2>3, <2>4, <2>5, ZenonT(60) DEF AppendedTo
    <2>7. 0 + k = k
      OBVIOUS
    <2> QED BY <2>6, <2>7, Zenon
  <1> DEFINE g == new.file
  <1>14. Put(dat, dat2, id, 0, bytes, w, k)
    <2> DEFINE at == 0
    <2>1. at \in Nat /\ at + k <= Space
      BY <1>4
    <2> HIDE DEF at, id, w
    <2>2. Put(dat, Patched(dat, id, at, SubSeq(bytes, w + 1, w + k)), id, at, bytes, w, k)
      BY <1>1, <1>3, <1>5, <1>10, <2>1, PiecePut
    <2> QED BY <2>2 DEF at
  <1> HIDE DEF hdr2, dat2, g, d
  <1>15. /\ Sound(hdr2, dat2, id, d) /\ Counted(hdr2, d, g) /\ Stands(hdr2, d, g)
         /\ g.pos = Total(hdr2, d) /\ Holds(hdr2, dat2, d, Overlaid(old, p, bytes, w + k))
    <2>1. Moved(r, g, k, k) /\ Taken(f, r, n + 1) /\ Put(dat, dat2, n + 1, 0, bytes, w, k)
          /\ Extended(hdr, hdr2, c[Len(c)], n + 1, k) /\ hdr[c[Len(c)]].size = Space
      BY <1>6, <1>8, <1>12, <1>13, <1>14 DEF g
    <2>2. n + 1 <= MaxBlocks /\ k > 0 /\ k <= Space
      BY DEF n
    <2> HIDE DEF f, w, r
    <2> QED BY <1>1, <1>5, <1>10, <2>1, <2>2, AddedRight
  <1>16. g.pos = p + (w + k) /\ g.mode = "Append" /\ w + k \in 0 .. N
    <2>1. g.pos = r.pos + k /\ g.mode = r.mode /\ r.pos = f.pos
      BY <1>8, <1>13 DEF Moved, Taken, g
    <2>2. (p + w) + k = p + (w + k)
      BY <1>10
    <2>3. w + k \in 0 .. N
      BY <1>10
    <2> QED BY <1>1, <1>9, <2>1, <2>2, <2>3
  <1>17. HasWritten(new, bytes, p, old, d)
    <2>1. /\ new.header = hdr2 /\ new.data = dat2 /\ new.file = g /\ new.wrote = w + k
          /\ new.used = id /\ IsState(new)
      BY <1>13 DEF dat2, hdr2, g
    <2> HIDE DEF f, w
    <2> QED BY <1>1, <1>15, <1>16, <2>1 DEF HasWritten
  <1> QED BY <1>13, <1>17 DEF d, n

(* The object goes on with the next block of the chain. *)
LEMMA BlockEntered ==
    ASSUME NEW bytes, NEW p, NEW old, NEW c, NEW st, HasWritten(st, bytes, p, old, c),
           st.file.mode = "Overwrite", st.file.pos < Total(st.header, c),
           st.file.work.seekPos = Space
    PROVE  LET ready == checkAndUpdateWorkingBlockWithNew(st)
           IN  /\ HasWritten(ready, bytes, p, old, c) /\ ready.wrote = st.wrote
               /\ ready.used = st.used /\ ready.file.mode = "Overwrite"
               /\ ready.file.work.seekPos = 0
  <1> SUFFICES ASSUME NEW ready, ready = checkAndUpdateWorkingBlockWithNew(st)
               PROVE  /\ HasWritten(ready, bytes, p, old, c) /\ ready.wrote = st.wrote
                      /\ ready.used = st.used /\ ready.file.mode = "Overwrite"
                      /\ ready.file.work.seekPos = 0
    OBVIOUS
  <1> DEFINE f == st.file
  <1> DEFINE w == st.wrote
  <1> DEFINE hdr == st.header
  <1> DEFINE dat == st.data
  <1> DEFINE n == st.used
  <1> DEFINE N == Len(bytes)
  <1> DEFINE i == f.blockIndex
  <1> DEFINE b == c[i + 2]
  <1> DEFINE T == Total(hdr, c)
  <1> DEFINE L == Len(c)
  <1>1. /\ bytes \in Seq(Bytes) /\ old \in Seq(Bytes) /\ p \in 0 .. Len(old) /\ IsState(st)
        /\ Sound(hdr, dat, n, c) /\ Counted(hdr, c, f) /\ Stands(hdr, c, f)
        /\ w \in 0 .. N /\ f.pos = p + w /\ Holds(hdr, dat, c, Overlaid(old, p, bytes, w))
        /\ f.mode = "Overwrite" /\ (p + N <= T \/ Full(hdr, c)) /\ f.pos < T
    BY DEF HasWritten
  <1>2. f \in Objects
    BY <1>1 DEF Counted
  <1>3. /\ i \in Nat /\ i + 1 \in 1 .. L /\ f.work.id = c[i + 1] /\ f.pos = i * Space + f.work.seekPos
    <2> HIDE DEF f, hdr, dat, n
    <2> QED BY <1>1, <1>2, PlaceOfObject
  <1>4. /\ L \in Nat /\ L >= 1 /\ Space \in Nat /\ T \in Nat /\ T = (L - 1) * Space + hdr[c[L]].size
        /\ hdr[c[L]].size \in 0 .. Space
    <2> HIDE DEF hdr, dat, n
    <2> QED BY <1>1, Sizes
  <1>6. i \in 0 .. L - 2
    <2>1. SUFFICES ASSUME i = L - 1 PROVE FALSE
      <3> HIDE DEF i, L
      <3> QED BY <1>3, <1>4
    <2> DEFINE a == i * Space
    <2> DEFINE size == hdr[c[L]].size
    <2>2. T = a + size /\ f.pos = a + Space /\ a \in Nat /\ size \in 0 .. Space
      <3>1. T = a + size
        BY <1>4, <2>1
      <3>2. f.pos = a + Space
        BY <1>3
      <3>3. a \in Nat
        <4> HIDE DEF i
        <4> QED BY <1>3, <1>4
      <3> QED BY <1>4, <3>1, <3>2, <3>3
    <2> DEFINE pos == f.pos
    <2>3. T = a + size /\ pos = a + Space /\ pos < T
      BY <1>1, <2>2
    <2> HIDE DEF a, size, T, pos
    <2> QED BY <1>4, <2>2, <2>3
  <1>7. /\ hdr[c[i + 1]].next = b /\ b \in Ids /\ hdr[b].size \in 1 .. Space /\ hdr[b].next \in Ids
        /\ (i + 1) * Space = i * Space + Space
    <2> HIDE DEF hdr, dat, n, i
    <2> QED BY <1>1, <1>6, NextBlock
  <1>8. f.work.next = b
    BY <1>1, <1>3, <1>7 DEF Stands
  <1> DEFINE block == BlockAt(hdr, b)
  <1>9. /\ block \in WorkingBlocks /\ block.id = b /\ block.seekPos = 0 /\ block.next = hdr[b].next
        /\ block.bytesWritten = hdr[b].size /\ block.initialBytesWritten = hdr[b].size
    <2> HIDE DEF b, hdr
    <2>1. hdr[b].size \in Nat
      BY <1>4, <1>7
    <2> QED BY <1>7, <2>1 DEF BlockAt, WorkingBlocks
  <1>0. ready = [[st EXCEPT !.file.mode = "Overwrite"] EXCEPT
                    !.file.blockIndex = @ + 1,
                    !.file.work = BlockAt(st.header, @.next)]
    <2>1. ~(st.file.pos >= st.file.fileSize)
      <3> DEFINE pos == st.file.pos
      <3>1. st.file.fileSize = T /\ pos < T /\ pos \in Int
        BY <1>1, <1>2 DEF Counted, Objects
      <3> HIDE DEF T, pos
      <3>2. ~(pos >= T)
        BY <1>4, <3>1
      <3> QED BY <3>1, <3>2 DEF pos
    <2>2. ~(st.file.work.seekPos < Space)
      BY <1>4
    <2> QED BY <2>1, <2>2 DEF checkAndUpdateWorkingBlockWithNew
  <1> DEFINE g == ready.file
  <1>10. /\ IsState(ready) /\ ready.header = hdr /\ ready.data = dat /\ ready.used = n
         /\ ready.wrote = w /\ g = [f EXCEPT !.mode = "Overwrite", !.blockIndex = i + 1, !.work = block]
    <2>1. PICK h, d, u, o, x : st = [header |-> h, data |-> d, used |-> u, file |-> o, wrote |-> x]
      BY <1>1 DEF IsState
    <2>2. h = st.header /\ d = st.data /\ u = st.used /\ o = st.file /\ x = st.wrote
      BY <2>1
    <2>3. ready.header = hdr /\ ready.data = dat /\ ready.used = n /\ ready.wrote = w
      BY <1>0, <2>1, <2>2
    <2>4. IsState(ready)
      BY <1>0, <2>1 DEF IsState
    <2>5. ready.file = [o EXCEPT !.mode = "Overwrite", !.blockIndex = o.blockIndex + 1,
                                 !.work = BlockAt(h, o.work.next)]
      BY <1>0, <1>2, <2>1, <2>2 DEF Objects
    <2> QED BY <1>8, <2>2, <2>3, <2>4, <2>5
  <1>11. /\ g \in Objects /\ g.mode = "Overwrite" /\ g.fileSize = f.fileSize
         /\ g.blockCount = f.blockCount /\ g.blockIndex = i + 1 /\ g.work = block /\ g.pos = f.pos
    <2> DEFINE e == i + 1
    <2>1. e \in Int
      BY <1>3
    <2>2. g = [f EXCEPT !.mode = "Overwrite", !.blockIndex = e, !.work = block]
      BY <1>10
    <2> HIDE DEF e, block, g, f
    <2>3. /\ g \in Objects /\ g.mode = "Overwrite" /\ g.fileSize = f.fileSize
          /\ g.blockCount = f.blockCount /\ g.blockIndex = e /\ g.work = block /\ g.pos = f.pos
      BY <1>2, <1>9, <2>1, <2>2 DEF Objects, Modes
    <2> QED BY <2>3 DEF e
  <1> HIDE DEF g, block
  <1>12. Counted(hdr, c, g)
    BY <1>1, <1>11 DEF Counted
  <1>13. Stands(hdr, c, g)
    <2>1. i + 1 \in 0 .. L - 1 /\ (i + 1) + 1 = i + 2
      <3> HIDE DEF i, L
      <3> QED BY <1>4, <1>6
    <2>2. g.pos = (i + 1) * Space + 0
      <3>1. g.pos = i * Space + Space
        BY <1>3, <1>11
      <3> DEFINE q == (i + 1) * Space
      <3>2. q \in Int
        <4> HIDE DEF i
        <4> QED BY <1>3, <1>4
      <3> HIDE DEF q
      <3>3. g.pos = q + 0
        BY <1>7, <3>1, <3>2 DEF q
      <3> QED BY <3>3 DEF q
    <2>3. 0 \in 0 .. hdr[b].size
      <3> DEFINE z == hdr[b].size
      <3>1. z \in 1 .. Space
        BY <1>7
      <3> HIDE DEF z
      <3>2. 0 \in 0 .. z
        BY <1>4, <3>1
      <3> QED BY <3>2 DEF z
    <2> HIDE DEF i, hdr, f
    <2> QED BY <1>9, <1>11, <2>1, <2>2, <2>3 DEF Stands, L, b
  <1>14. HasWritten(ready, bytes, p, old, c)
    <2>1. g.pos = p + w
      BY <1>1, <1>11
    <2> HIDE DEF f, hdr, dat, n, w
    <2> QED BY <1>1, <1>10, <1>11, <1>12, <1>13, <2>1 DEF HasWritten, g
  <1> QED BY <1>9, <1>10, <1>11, <1>14 DEF g

(* What the steps of a round do to the form of the state. *)
LEMMA NewBlockState ==
    ASSUME NEW st, IsState(st)
    PROVE  IsState(newWritableFileBlock(st)) /\ newWritableFileBlock(st).used = st.used + 1
  <1>1. SUFFICES ASSUME NEW h, NEW d, NEW u, NEW o, NEW x,
               st = [header |-> h, data |-> d, used |-> u, file |-> o, wrote |-> x],
               NEW s, s = newWritableFileBlock(st)
        PROVE  IsState(s) /\ s.used = u + 1
    BY DEF IsState
  <1>2. IsState(s)
    BY <1>1, ZenonT(60) DEF IsState, newWritableFileBlock
  <1>3. s.used = u + 1
    BY <1>1 DEF newWritableFileBlock
  <1> QED BY <1>2, <1>3

LEMMA StoredState ==
    ASSUME NEW st, IsState(st), NEW chunk
    PROVE  IsState(writeToWorkingBlock(st, chunk)) /\ writeToWorkingBlock(st, chunk).used = st.used
  <1>1. SUFFICES ASSUME NEW h, NEW d, NEW u, NEW o, NEW x,
               st = [header |-> h, data |-> d, used |-> u, file |-> o, wrote |-> x],
               NEW s, s = writeToWorkingBlock(st, chunk)
        PROVE  IsState(s) /\ s.used = u
    BY DEF IsState
  <1>2. IsState(s)
    BY <1>1, ZenonT(60) DEF IsState, writeToWorkingBlock
  <1>3. s.used = u
    BY <1>1 DEF writeToWorkingBlock
  <1> QED BY <1>2, <1>3

(* A round hands out blocks but takes none back. *)
LEMMA UsedGrows ==
    ASSUME NEW bytes, NEW st, IsState(st), st.used \in Nat, NEW new, new = writeBytes(st, bytes)
    PROVE  IsState(new) /\ new.used \in Nat /\ new.used >= st.used
  <1> DEFINE ready == checkAndUpdateWorkingBlockWithNew(st)
  <1>1. IsState(ready) /\ (ready.used = st.used \/ ready.used = st.used + 1)
    <2>1. PICK h, d, u, o, x : st = [header |-> h, data |-> d, used |-> u, file |-> o, wrote |-> x]
      BY DEF IsState
    <2> DEFINE mode == IF st.file.pos >= st.file.fileSize THEN "Append" ELSE st.file.mode
    <2>2. CASE st.file.work.seekPos < Space
      <3>1. ready = st
        BY <2>2 DEF checkAndUpdateWorkingBlockWithNew
      <3> QED BY <3>1
    <2>3. CASE ~(st.file.work.seekPos < Space)
      <3> DEFINE moved == [st EXCEPT !.file.mode = mode]
      <3> DEFINE next == [moved EXCEPT !.file.blockIndex = @ + 1,
                                       !.file.work = BlockAt(st.header, @.next)]
      <3>1. ready = IF mode = "Overwrite" THEN next ELSE newWritableFileBlock(moved)
        BY <2>3 DEF checkAndUpdateWorkingBlockWithNew
      <3>2. IsState(moved) /\ moved.used = st.used
        <4> HIDE DEF mode
        <4> QED BY <2>1 DEF IsState
      <3>3. IsState(next) /\ next.used = st.used
        <4> SUFFICES ASSUME NEW s, s = next PROVE IsState(s) /\ s.used = st.used
          OBVIOUS
        <4> HIDE DEF mode
        <4>2. IsState(s)
          BY <2>1 DEF IsState
        <4>3. s.used = st.used
          BY <2>1
        <4> QED BY <3>2, <4>2, <4>3
      <3>4. IsState(newWritableFileBlock(moved)) /\ newWritableFileBlock(moved).used = moved.used + 1
        BY <3>2, NewBlockState
      <3> HIDE DEF moved, next, mode
      <3> QED BY <3>1, <3>2, <3>3, <3>4
    <2> QED BY <2>2, <2>3
  <1> HIDE DEF ready
  <1> DEFINE k == Least(Len(bytes) - st.wrote, Space - ready.file.work.seekPos)
  <1> DEFINE chunk == SubSeq(bytes, st.wrote + 1, st.wrote + k)
  <1>2. new = writeToWorkingBlock(ready, chunk)
    BY DEF writeBytes, ready
  <1> HIDE DEF chunk
  <1>3. IsState(new) /\ new.used = ready.used
    BY <1>1, <1>2, StoredState
  <1>4. ready.used \in Nat /\ ready.used >= st.used
    BY <1>1
  <1> QED BY <1>3, <1>4

(* The end of a full block is in the file. *)
LEMMA FullBlockInFile ==
    ASSUME NEW hdr, NEW dat, NEW n, NEW c, Sound(hdr, dat, n, c),
           NEW f, f \in Objects, Stands(hdr, c, f), f.work.seekPos = Space, f.pos # Total(hdr, c)
    PROVE  f.pos < Total(hdr, c)
  <1> DEFINE i == f.blockIndex
  <1> DEFINE T == Total(hdr, c)
  <1> DEFINE pos == f.pos
  <1>1. /\ i \in Nat /\ i + 1 \in 1 .. Len(c) /\ f.work.id = c[i + 1] /\ pos = i * Space + Space
        /\ Space <= hdr[c[i + 1]].size /\ hdr[c[i + 1]].size \in 0 .. Space
    BY PlaceOfObject
  <1>2. Space \in Nat /\ Space > 0 /\ T \in Nat
    BY Sizes
  <1>3. Space \in 1 .. hdr[c[i + 1]].size
    <2> DEFINE z == hdr[c[i + 1]].size
    <2> HIDE DEF z
    <2> QED BY <1>1, <1>2 DEF z
  <1>4. (i + 1 - 1) * Space + Space \in 1 .. T
    <2> HIDE DEF i, T
    <2> QED BY <1>1, <1>3, PlaceInFile DEF T
  <1>5. i + 1 - 1 = i
    BY <1>1
  <1>6. pos \in 1 .. T /\ pos # T
    BY <1>1, <1>4, <1>5
  <1> HIDE DEF pos, T
  <1>7. pos < T
    BY <1>2, <1>6
  <1> QED BY <1>7 DEF pos, T

(* At the end of the file the object goes over to append mode.             *)
LEMMA ModeSwitched ==
    ASSUME NEW bytes, NEW p, NEW old, NEW c, NEW st, HasWritten(st, bytes, p, old, c),
           st.file.pos = Total(st.header, c)
    PROVE  LET s == [st EXCEPT !.file.mode = "Append"]
           IN  /\ HasWritten(s, bytes, p, old, c) /\ s.wrote = st.wrote
               /\ s.file.mode = "Append" /\ s.file.work = st.file.work
  <1> SUFFICES ASSUME NEW s, s = [st EXCEPT !.file.mode = "Append"]
               PROVE  /\ HasWritten(s, bytes, p, old, c) /\ s.wrote = st.wrote
                      /\ s.file.mode = "Append" /\ s.file.work = st.file.work
    OBVIOUS
  <1>1. PICK h, d, u, o, x : st = [header |-> h, data |-> d, used |-> u, file |-> o, wrote |-> x]
    BY DEF HasWritten, IsState
  <1>2. h = st.header /\ d = st.data /\ u = st.used /\ o = st.file /\ x = st.wrote
    BY <1>1
  <1>3. Counted(h, c, o) /\ Stands(h, c, o) /\ o \in Objects
    BY <1>2 DEF HasWritten, Counted
  <1> DEFINE g == [o EXCEPT !.mode = "Append"]
  <1>4. s = [header |-> h, data |-> d, used |-> u, file |-> g, wrote |-> x]
    BY <1>1
  <1>5. /\ g \in Objects /\ g.mode = "Append" /\ g.fileSize = o.fileSize
        /\ g.blockCount = o.blockCount /\ g.blockIndex = o.blockIndex /\ g.work = o.work
        /\ g.pos = o.pos
    BY <1>3 DEF Objects, Modes
  <1> HIDE DEF g
  <1>6. /\ s.header = h /\ s.data = d /\ s.used = u /\ s.file = g /\ s.wrote = x /\ IsState(s)
    <2>1. s.header = h /\ s.data = d /\ s.used = u /\ s.file = g /\ s.wrote = x
      BY <1>4
    <2>2. IsState(s)
      BY <1>4, <2>1 DEF IsState
    <2> QED BY <2>1, <2>2
  <1>7. Counted(h, c, g) /\ Stands(h, c, g)
    BY <1>3, <1>5 DEF Counted, Stands
  <1>8. /\ bytes \in Seq(Bytes) /\ old \in Seq(Bytes) /\ p \in 0 .. Len(old)
        /\ Sound(h, d, u, c) /\ x \in 0 .. Len(bytes) /\ o.pos = p + x /\ o.pos = Total(h, c)
        /\ Holds(h, d, c, Overlaid(old, p, bytes, x))
    BY <1>2 DEF HasWritten
  <1>9. HasWritten(s, bytes, p, old, c)
    BY <1>5, <1>6, <1>7, <1>8 DEF HasWritten
  <1> QED BY <1>2, <1>5, <1>6, <1>9

(* In append mode a full block is followed by a new one, or there was none *)
(* left.                                                                   *)
LEMMA RoundAddsBlock ==
    ASSUME NEW bytes, NEW p, NEW old, NEW c, NEW st, HasWritten(st, bytes, p, old, c),
           st.wrote # Len(bytes), st.file.mode = "Append", st.file.work.seekPos = Space,
           NEW ready, ready = newWritableFileBlock([st EXCEPT !.file.mode = "Append"]),
           NEW k, k = Least(Len(bytes) - st.wrote, Space - ready.file.work.seekPos),
           NEW new, new = writeToWorkingBlock(ready, SubSeq(bytes, st.wrote + 1, st.wrote + k))
    PROVE  \/ new.used > MaxBlocks
           \/ \E d : HasWritten(new, bytes, p, old, d) /\ new.wrote > st.wrote
  <1> DEFINE N == Len(bytes)
  <1> DEFINE w == st.wrote
  <1>2. /\ bytes \in Seq(Bytes) /\ IsState(st) /\ Sound(st.header, st.data, st.used, c)
        /\ Counted(st.header, c, st.file) /\ w \in 0 .. N /\ w # N
        /\ p \in 0 .. Len(old) /\ old \in Seq(Bytes)
    BY DEF HasWritten
  <1>3. N \in Nat /\ w \in Nat /\ Space \in Nat /\ Space > 0 /\ w < N /\ st.file \in Objects
    <2>1. N \in Nat
      BY <1>2
    <2>2. st.file \in Objects /\ Space \in Nat /\ Space > 0
      BY <1>2, FileAssumption DEF Counted
    <2> HIDE DEF N, w
    <2> QED BY <1>2, <2>1, <2>2
  <1>5. st.used \in Nat /\ st.used + 1 \in Nat
    BY <1>2, FileAssumption DEF Sound
  <1>6. CASE st.used + 1 > MaxBlocks
    <2> DEFINE moved == [st EXCEPT !.file.mode = "Append"]
    <2>1. IsState(ready) /\ ready.used = st.used + 1
      <3>1. PICK h, d, u, o, x :
              st = [header |-> h, data |-> d, used |-> u, file |-> o, wrote |-> x]
        BY <1>2 DEF IsState
      <3>2. IsState(moved) /\ moved.used = st.used
        BY <3>1 DEF IsState
      <3>3. ready = newWritableFileBlock(moved)
        OBVIOUS
      <3> HIDE DEF moved
      <3> QED BY <3>2, <3>3, NewBlockState
    <2> DEFINE chunk == SubSeq(bytes, w + 1, w + k)
    <2>2. new = writeToWorkingBlock(ready, chunk)
      OBVIOUS
    <2> HIDE DEF chunk
    <2>3. new.used = ready.used
      BY <2>1, <2>2, StoredState
    <2> QED BY <1>6, <2>1, <2>3
  <1>7. CASE ~(st.used + 1 > MaxBlocks)
    <2>1. ImageType(st.header, st.data) /\ st.file.work.id \in Ids /\ st.used + 1 \in Ids
      <3>1. ImageType(st.header, st.data)
        BY <1>2 DEF Sound
      <3>2. st.file.work.id \in Ids
        BY <1>3 DEF Objects, WorkingBlocks
      <3>3. st.used \in 1 .. MaxBlocks /\ MaxBlocks \in Nat
        BY <1>2, FileAssumption DEF Sound
      <3>4. st.used + 1 \in Ids
        BY <1>7, <3>3 DEF Ids
      <3> QED BY <3>1, <3>2, <3>4
    <2>2. st.used + 1 <= MaxBlocks
      <3>1. MaxBlocks \in Nat
        BY FileAssumption
      <3> QED BY <1>5, <1>7, <3>1
    <2>3. Taken(st.file, ready.file, st.used + 1)
      BY <1>2, <1>3, <2>1, BlockTaken
    <2>4. ready.file.work.seekPos = 0
      BY <2>3 DEF Taken
    <2>5. k \in Nat /\ k > 0 /\ w + k <= N /\ k <= Space
      <3> DEFINE zero == 0
      <3>1. k = Least(N - w, Space - zero) /\ zero \in Int /\ 0 <= zero /\ zero < Space
        BY <1>3, <2>4
      <3> HIDE DEF N, w, zero
      <3>2. k \in Nat /\ k > 0 /\ w + k <= N /\ zero + k <= Space
        BY <1>2, <1>3, <3>1, ChunkFits
      <3> QED BY <3>2 DEF zero
    <2>6. HasWritten(new, bytes, p, old, Append(c, st.used + 1)) /\ new.wrote = w + k
      BY <2>2, <2>5, ChunkAdds
    <2>7. w + k > w
      BY <1>3, <2>5
    <2> QED BY <2>6, <2>7
  <1> QED BY <1>6, <1>7

(* A round writes more of the bytes, or there was no block left for them.  *)
LEMMA RoundWrites ==
    ASSUME NEW bytes, NEW p, NEW old, NEW c, NEW st, HasWritten(st, bytes, p, old, c),
           st.wrote # Len(bytes), NEW new, new = writeBytes(st, bytes)
    PROVE  \/ new.used > MaxBlocks
           \/ \E d : HasWritten(new, bytes, p, old, d) /\ new.wrote > st.wrote
  <1> DEFINE N == Len(bytes)
  <1> DEFINE w == st.wrote
  <1> DEFINE at == st.file.work.seekPos
  <1> DEFINE ready == checkAndUpdateWorkingBlockWithNew(st)
  <1> DEFINE k == Least(N - w, Space - ready.file.work.seekPos)
  <1>1. new = writeToWorkingBlock(ready, SubSeq(bytes, w + 1, w + k))
    BY DEF writeBytes
  <1>2. /\ bytes \in Seq(Bytes) /\ IsState(st) /\ Sound(st.header, st.data, st.used, c)
        /\ Counted(st.header, c, st.file) /\ Stands(st.header, c, st.file)
        /\ w \in 0 .. N /\ w # N /\ st.file.pos = p + w /\ p \in 0 .. Len(old) /\ old \in Seq(Bytes)
        /\ \/ st.file.mode = "Append" /\ st.file.pos = Total(st.header, c)
           \/ st.file.mode = "Overwrite"
    BY DEF HasWritten
  <1>3. N \in Nat /\ w \in Nat /\ p \in Nat /\ Space \in Nat /\ Space > 0 /\ w < N
        /\ st.file \in Objects
    <2>1. N \in Nat /\ Len(old) \in Nat
      BY <1>2
    <2>2. st.file \in Objects /\ Space \in Nat /\ Space > 0
      BY <1>2, FileAssumption DEF Counted
    <2> HIDE DEF N, w
    <2> QED BY <1>2, <2>1, <2>2
  <1>4. at \in Nat /\ at <= Space
    <2> DEFINE f == st.file
    <2> DEFINE hdr == st.header
    <2> DEFINE dat == st.data
    <2> DEFINE b == f.work.id
    <2>1. at \in Nat /\ at <= hdr[b].size /\ hdr[b].size \in 0 .. Space
      <3> HIDE DEF f, hdr, dat
      <3> QED BY <1>2, <1>3, PlaceOfObject DEF f, hdr, dat
    <2> DEFINE z == hdr[b].size
    <2> HIDE DEF at, z
    <2> QED BY <1>3, <2>1 DEF z
  <1>5. st.used \in Nat /\ st.used + 1 \in Nat
    BY <1>2, FileAssumption DEF Sound
  <1>6. CASE at < Space
    <2>1. ready = st
      BY <1>6 DEF checkAndUpdateWorkingBlockWithNew
    <2>2. k \in Nat /\ k > 0 /\ w + k <= N /\ at + k <= Space
      <3>1. k = Least(N - w, Space - at) /\ at \in Int /\ 0 <= at
        BY <1>4, <2>1
      <3> HIDE DEF k, at, N, w
      <3> QED BY <1>2, <1>3, <1>4, <1>6, <3>1, ChunkFits
    <2>3. new = writeToWorkingBlock(st, SubSeq(bytes, st.wrote + 1, st.wrote + k))
      BY <1>1, <2>1
    <2> HIDE DEF k
    <2>4. HasWritten(new, bytes, p, old, c) /\ new.wrote = w + k
      <3>1. CASE st.file.mode = "Append"
        BY <2>2, <2>3, <3>1, ChunkAppends
      <3>2. CASE st.file.mode = "Overwrite"
        BY <2>2, <2>3, <3>2, ChunkReplaces
      <3> QED BY <1>2, <3>1, <3>2
    <2>5. w + k > w
      BY <1>3, <2>2
    <2> QED BY <2>4, <2>5
  <1>7. CASE at = Space /\ st.file.mode = "Overwrite" /\ st.file.pos < Total(st.header, c)
    <2> HIDE DEF ready
    <2>2. HasWritten(ready, bytes, p, old, c) /\ ready.wrote = w /\ ready.file.mode = "Overwrite"
          /\ ready.file.work.seekPos = 0
      <3>1. /\ st.file.mode = "Overwrite" /\ st.file.pos < Total(st.header, c)
            /\ st.file.work.seekPos = Space
        BY <1>2, <1>7
      <3> QED BY <3>1, BlockEntered DEF ready
    <2>3. k \in Nat /\ k > 0 /\ w + k <= N /\ 0 + k <= Space
      <3> DEFINE zero == 0
      <3>1. k = Least(N - w, Space - zero) /\ zero \in Int /\ 0 <= zero /\ zero < Space
        BY <1>3, <2>2
      <3> HIDE DEF k, N, w, zero
      <3>2. k \in Nat /\ k > 0 /\ w + k <= N /\ zero + k <= Space
        BY <1>2, <1>3, <3>1, ChunkFits
      <3> QED BY <3>2 DEF zero
    <2>4. new = writeToWorkingBlock(ready, SubSeq(bytes, ready.wrote + 1, ready.wrote + k))
      BY <1>1, <2>2
    <2>5. ready.wrote + k <= Len(bytes) /\ ready.file.work.seekPos + k <= Space
      BY <2>2, <2>3
    <2> HIDE DEF k
    <2>6. HasWritten(new, bytes, p, old, c) /\ new.wrote = ready.wrote + k
      BY <2>2, <2>3, <2>4, <2>5, ChunkReplaces
    <2>7. w + k > w
      BY <1>3, <2>3
    <2> QED BY <2>2, <2>6, <2>7
  <1>8. ASSUME NEW s, HasWritten(s, bytes, p, old, c), s.wrote = w, s.file.mode = "Append",
               s.file.work.seekPos = Space,
               ready = newWritableFileBlock([s EXCEPT !.file.mode = "Append"])
        PROVE  \/ new.used > MaxBlocks
               \/ \E d : HasWritten(new, bytes, p, old, d) /\ new.wrote > w
    <2> HIDE DEF ready
    <2>1. k = Least(Len(bytes) - s.wrote, Space - ready.file.work.seekPos) /\ s.wrote # Len(bytes)
      BY <1>8
    <2>2. new = writeToWorkingBlock(ready, SubSeq(bytes, s.wrote + 1, s.wrote + k))
      BY <1>1, <1>8
    <2> HIDE DEF k
    <2> QED BY <1>8, <2>1, <2>2, RoundAddsBlock
  <1>10. CASE at = Space /\ st.file.mode = "Append"
    <2>1. ready = newWritableFileBlock([st EXCEPT !.file.mode = "Append"])
      <3>1. ~(at < Space)
        BY <1>3, <1>10
      <3> QED BY <1>10, <3>1 DEF checkAndUpdateWorkingBlockWithNew
    <2> QED BY <1>8, <1>10, <2>1
  <1>11. CASE at = Space /\ st.file.mode = "Overwrite" /\ st.file.pos = Total(st.header, c)
    <2> DEFINE s == [st EXCEPT !.file.mode = "Append"]
    <2>1. HasWritten(s, bytes, p, old, c) /\ s.wrote = w /\ s.file.mode = "Append"
          /\ s.file.work = st.file.work
      BY <1>11, ModeSwitched
    <2>2. ready = newWritableFileBlock(s)
      <3>1. ~(at < Space)
        BY <1>3, <1>11
      <3>2. st.file.pos >= st.file.fileSize
        <4> DEFINE pos == st.file.pos
        <4>1. pos = st.file.fileSize /\ pos \in Int
          BY <1>2, <1>3, <1>11 DEF Counted, Objects
        <4> HIDE DEF pos
        <4>2. pos >= st.file.fileSize
          BY <4>1
        <4> QED BY <4>2 DEF pos
      <3> QED BY <3>1, <3>2 DEF checkAndUpdateWorkingBlockWithNew
    <2>3. [s EXCEPT !.file.mode = "Append"] = s
      BY <1>2, <1>3 DEF IsState, Objects
    <2> HIDE DEF s, ready
    <2> QED BY <1>8, <1>11, <2>1, <2>2, <2>3
  <1>12. CASE at = Space /\ st.file.mode = "Overwrite" /\ st.file.pos # Total(st.header, c)
    <2>1. st.file.pos < Total(st.header, c)
      BY <1>2, <1>3, <1>12, FullBlockInFile
    <2> QED BY <1>7, <1>12, <2>1
  <1>9. at < Space \/ at = Space
    <2> HIDE DEF at
    <2> QED BY <1>3, <1>4
  <1> QED BY <1>2, <1>6, <1>9, <1>10, <1>11, <1>12

(* No bytes over a file leave it as it is. *)
LEMMA NothingOver ==
    ASSUME NEW old \in Seq(Bytes), NEW p \in 0 .. Len(old), NEW bytes
    PROVE  Overlaid(old, p, bytes, 0) = old
  <1> DEFINE l == Len(old)
  <1>1. l \in Nat /\ old = [i \in 1 .. l |-> old[i]]
    OBVIOUS
  <1>2. Reach(old, p, 0) = l
    <2>1. (IF p + 0 > l THEN p + 0 ELSE l) = l
      <3>1. p \in 0 .. l
        OBVIOUS
      <3> HIDE DEF l
      <3> QED BY <1>1, <3>1
    <2> QED BY <2>1 DEF Reach
  <1>3. \A i \in 1 .. l : ~(i \in p + 1 .. p + 0)
    <2>1. p \in 0 .. l
      OBVIOUS
    <2> HIDE DEF l
    <2> QED BY <1>1, <2>1
  <1>4. Overlaid(old, p, bytes, 0)
          = [i \in 1 .. l |-> IF i \in p + 1 .. p + 0 THEN bytes[i - p] ELSE old[i]]
    BY <1>2 DEF Overlaid
  <1> HIDE DEF l
  <1>5. [i \in 1 .. l |-> IF i \in p + 1 .. p + 0 THEN bytes[i - p] ELSE old[i]]
          = [i \in 1 .. l |-> old[i]]
    BY <1>3
  <1> QED BY <1>1, <1>4, <1>5

(* A file that takes the whole of its blocks has no space in the last.     *)
LEMMA FullAtTheEnd ==
    ASSUME NEW hdr, NEW dat, NEW n, NEW c, Sound(hdr, dat, n, c), ~(Total(hdr, c) < Len(c) * Space)
    PROVE  Full(hdr, c)
  <1> DEFINE L == Len(c)
  <1> DEFINE size == hdr[c[L]].size
  <1> DEFINE a == (L - 1) * Space
  <1> DEFINE q == L * Space
  <1>1. /\ L \in Nat /\ L \in 1 .. L /\ Space \in Nat /\ a \in Nat /\ size \in 0 .. Space
        /\ Total(hdr, c) = a + size
    BY Sizes
  <1>2. q = a + Space /\ q \in Int
    <2> HIDE DEF L
    <2> QED BY <1>1
  <1>3. ~(a + size < q)
    BY <1>1
  <1> HIDE DEF a, q, size
  <1>4. size = Space
    BY <1>1, <1>2, <1>3
  <1> QED BY <1>4 DEF size, Full

(* A write puts its bytes over those of the file and stands behind them.   *)
LEMMA WriteRight ==
    ASSUME NoMisuse, IInv, NEW bytes \in Requests, Write(bytes)
    PROVE  IInv' /\ Abstract!Write
  <1> DEFINE done == WriteLoop(bytes)
  <1> DEFINE N == Len(bytes)
  <1> DEFINE p == file.pos
  <1> DEFINE T == Total(header, Chain)
  <1> DEFINE first == [header |-> header, data |-> data, used |-> used, file |-> file, wrote |-> 0]
  <1>1. /\ standing = "usable" /\ file.mode # "ReadOnly" /\ done.used <= MaxBlocks
        /\ header' = done.header /\ data' = done.data /\ used' = done.used /\ file' = done.file
        /\ call' = [asked |-> N, bytes |-> bytes] /\ start' = start /\ standing' = standing
    BY DEF Write
  <1>2. start # NoBlock /\ p \in 0 .. T /\ Counted(header, Chain, file) /\ Stands(header, Chain, file)
    BY <1>1, PositionRight DEF IInv
  <1>3. /\ Sound(header, data, used, Chain) /\ Content \in Seq(Bytes) /\ Len(Content) = T /\ T \in Nat
        /\ Holds(header, data, Chain, Content) /\ start = 1
    BY <1>2, ContentRight
  <1>4. bytes \in Seq(Bytes) /\ N \in Nat
    BY FileAssumption
  <1>5. PICK w : Looped("write", bytes, first, N, w) /\ done = w[N]
    <2> HIDE DEF done
    <2> QED BY <1>4, WriteLooped DEF done
  <1>6. w[0] = first /\ \A k \in 0 .. N - 1 : w[k + 1] = WriteRound(w[k], bytes)
    <2> HIDE DEF N, first
    <2>1. w[0] = first
      BY <1>4, <1>5 DEF Looped
    <2>2. ASSUME NEW k \in 0 .. N - 1 PROVE w[k + 1] = WriteRound(w[k], bytes)
      <3>1. k + 1 \in 0 .. N /\ k + 1 # 0 /\ (k + 1) - 1 = k
        BY <1>4
      <3>2. w[k + 1] = Round("write", bytes, w[(k + 1) - 1])
        BY <1>5, <3>1, Zenon DEF Looped
      <3> QED BY <3>1, <3>2 DEF Round
    <2> QED BY <2>1, <2>2
  <1>7. HasWritten(first, bytes, p, Content, Chain)
    <2>1. IsState(first) /\ first.header = header /\ first.data = data /\ first.used = used
          /\ first.file = file /\ first.wrote = 0
      BY DEF IsState
    <2>2. p \in 0 .. Len(Content) /\ 0 \in 0 .. N /\ p = p + 0
      BY <1>2, <1>3, <1>4
    <2>3. Overlaid(Content, p, bytes, 0) = Content
      BY <1>3, <2>2, NothingOver
    <2>4. \/ file.mode = "Append" /\ p = T
          \/ file.mode = "Overwrite" /\ (p + N <= T \/ Full(header, Chain))
      <3>1. file.mode \in {"Append", "Overwrite"}
        BY <1>1, <1>2 DEF Counted, Objects, Modes
      <3>2. Writable(N)
        BY DEF Write
      <3>3. /\ file.mode = "Append" => ~(p < T)
            /\ file.mode = "Overwrite" => ~(p + N > T) \/ ~(T < Len(Chain) * Space)
        BY <1>3, <3>2 DEF Writable, NoMisuse
      <3> HIDE DEF p, N, T
      <3>4. ~(p < T) => p = T
        BY <1>2, <1>3
      <3>5. ~(p + N > T) => p + N <= T
        BY <1>2, <1>3, <1>4
      <3>6. ~(T < Len(Chain) * Space) => Full(header, Chain)
        BY <1>3, FullAtTheEnd DEF T
      <3> QED BY <3>1, <3>3, <3>4, <3>5, <3>6
    <2> HIDE DEF first
    <2> QED BY <1>2, <1>3, <1>4, <2>1, <2>2, <2>3, <2>4 DEF HasWritten
  <1>8. IsState(first) /\ first.used \in Nat
    <2>1. used \in Nat
      BY <1>3, FileAssumption DEF Sound
    <2> QED BY <1>7, <2>1 DEF HasWritten
  <1> HIDE DEF first, done, p
  <1> DEFINE Written(st, k) ==
        /\ IsState(st) /\ st.used \in Nat
        /\ \/ st.used > MaxBlocks
           \/ \E d : HasWritten(st, bytes, p, Content, d) /\ st.wrote >= k
  <1>9. ASSUME NEW st, NEW k \in 0 .. N - 1, Written(st, k)
        PROVE  Written(WriteRound(st, bytes), k + 1)
    <2> DEFINE new == WriteRound(st, bytes)
    <2>1. IsState(st) /\ st.used \in Nat /\ MaxBlocks \in Nat
      BY <1>9, FileAssumption
    <2>2. CASE st.wrote = N
      <3>1. new = st
        BY <2>2 DEF WriteRound
      <3>2. N >= k + 1
        <4> HIDE DEF N
        <4> QED BY <1>4
      <3>3. Written(st, k + 1)
        <4> HIDE DEF N
        <4> QED BY <1>9, <2>2, <3>2
      <3> QED BY <3>1, <3>3
    <2>3. CASE st.wrote # N
      <3>1. new = writeBytes(st, bytes)
        BY <2>3 DEF WriteRound
      <3> HIDE DEF new
      <3>2. IsState(new) /\ new.used \in Nat /\ new.used >= st.used
        BY <2>1, <3>1, UsedGrows
      <3>3. CASE st.used > MaxBlocks
        <4>1. new.used > MaxBlocks
          BY <2>1, <3>2, <3>3
        <4> QED BY <3>2, <4>1 DEF new
      <3>4. CASE ~(st.used > MaxBlocks)
        <4>1. PICK c : HasWritten(st, bytes, p, Content, c) /\ st.wrote >= k
          BY <1>9, <3>4
        <4>2. new.used > MaxBlocks \/ \E d : HasWritten(new, bytes, p, Content, d) /\ new.wrote > st.wrote
          BY <2>3, <3>1, <4>1, RoundWrites
        <4>3. ASSUME NEW d, HasWritten(new, bytes, p, Content, d), new.wrote > st.wrote
              PROVE  new.wrote >= k + 1
          <5>1. st.wrote \in 0 .. N /\ new.wrote \in 0 .. N
            BY <4>1, <4>3 DEF HasWritten
          <5> HIDE DEF N
          <5> QED BY <1>4, <4>1, <4>3, <5>1
        <4>4. Written(new, k + 1)
          <5> HIDE DEF N
          <5> QED BY <3>2, <4>2, <4>3
        <4> QED BY <4>4 DEF new
      <3> QED BY <3>3, <3>4
    <2> QED BY <2>2, <2>3
  <1>10. Written(first, 0)
    <2>1. first.wrote >= 0
      BY DEF first
    <2> QED BY <1>7, <1>8, <2>1
  <1> HIDE DEF Written
  <1> DEFINE S == {k \in 0 .. N : Written(w[k], k)}
  <1>11. Written(done, N)
    <2> HIDE DEF N
    <2>1. 0 \in S
      BY <1>4, <1>6, <1>10
    <2>2. ASSUME NEW k \in 0 .. N - 1, k \in S PROVE k + 1 \in S
      <3>1. Written(w[k], k)
        BY <2>2
      <3>2. Written(w[k + 1], k + 1)
        BY <1>6, <1>9, <3>1
      <3>3. k + 1 \in 0 .. N
        BY <1>4
      <3> QED BY <3>2, <3>3
    <2>3. 0 .. N \subseteq S
      <3> HIDE DEF S
      <3> QED BY <1>4, <2>1, <2>2, Counting
    <2>4. N \in S
      BY <1>4, <2>3
    <2> QED BY <1>5, <2>4
  <1>12. PICK d : HasWritten(done, bytes, p, Content, d) /\ done.wrote >= N
    <2>1. MaxBlocks \in Nat
      BY FileAssumption
    <2> QED BY <1>1, <1>11, <2>1 DEF Written
  <1>13. done.wrote = N
    <2>1. done.wrote \in 0 .. N
      BY <1>12 DEF HasWritten
    <2> HIDE DEF N
    <2> QED BY <1>4, <1>12, <2>1
  <1>14. /\ Sound(header', data', used', d) /\ Counted(header', d, file') /\ Stands(header', d, file')
         /\ file'.pos = p + N /\ Holds(header', data', d, Overlaid(Content, p, bytes, N))
    BY <1>1, <1>12, <1>13 DEF HasWritten
  <1>15. Chain' = d
    <2>1. Ordered(used', d) /\ Linked(header', d) /\ used' \in 0 .. MaxBlocks
      BY <1>14, FileAssumption DEF Sound
    <2>2. ChainFrom(header', 1) = d
      BY <2>1, ChainIs
    <2> QED BY <1>1, <1>3, <2>2 DEF Chain
  <1>16. Content' = Overlaid(Content, p, bytes, N)
    <2>1. ContentOf(header', data', d) = Overlaid(Content, p, bytes, N)
      BY <1>14, ContentIs
    <2> QED BY <1>15, <2>1 DEF Content
  <1>17. IInv'
    BY <1>1, <1>3, <1>14, <1>15 DEF IInv, NoBlock
  <1>18. Abstract!Write
    <2>1. p \in Nat /\ p # -1 /\ (IF standing = "usable" THEN file.pos ELSE -1) = p
          /\ (IF standing' = "usable" THEN file'.pos ELSE -1) = p + N
      BY <1>1, <1>2, <1>3, <1>14 DEF p
    <2>2. call'.bytes = bytes /\ call'.asked = N
      BY <1>1
    <2>3. Content' = [i \in 1 .. (IF p + N > Len(Content) THEN p + N ELSE Len(Content)) |->
                        IF i \in p + 1 .. p + N THEN bytes[i - p] ELSE Content[i]]
      BY <1>16 DEF Overlaid, Reach
    <2> QED BY <2>1, <2>2, <2>3 DEF Abstract!Write, Abstract!Unknown
  <1> QED BY <1>17, <1>18
-----------------------------------------------------------------------------
(***************************************************************************)
(* Truncating.                                                             *)
(***************************************************************************)

(* The block and the place in it where a file of newSize bytes ends.       *)
LEMMA EndsAt ==
    ASSUME NEW newSize \in Nat,
           NEW leftOver, leftOver = newSize % Space,
           NEW index, index = IF newSize < Space THEN 0
                              ELSE IF leftOver = 0 THEN newSize \div Space - 1
                              ELSE newSize \div Space,
           NEW size, size = IF newSize >= Space /\ leftOver = 0 THEN Space ELSE leftOver
    PROVE  /\ index \in Nat /\ size \in 0 .. Space /\ newSize = index * Space + size
           /\ index > 0 => size > 0
  <1> DEFINE q == newSize \div Space
  <1>1. /\ Space \in Nat /\ Space > 0 /\ q \in Nat /\ leftOver \in 0 .. Space - 1
        /\ newSize = q * Space + leftOver
    <2>1. /\ newSize \div Space \in Nat /\ newSize % Space \in 0 .. Space - 1
          /\ newSize = (newSize \div Space) * Space + (newSize % Space)
      BY Division
    <2>2. Space \in Nat /\ Space > 0
      BY FileAssumption
    <2> QED BY <2>1, <2>2, Zenon
  <1>2. /\ index = IF newSize < Space THEN 0 ELSE IF leftOver = 0 THEN q - 1 ELSE q
        /\ size = IF newSize >= Space /\ leftOver = 0 THEN Space ELSE leftOver
    OBVIOUS
  <1> HIDE DEF q
  <1>3. q * Space \in Nat
    BY <1>1
  <1>4. CASE newSize < Space
    <2>1. q = 0
      <3>1. SUFFICES ASSUME 0 < q PROVE FALSE
        BY <1>1
      <3>2. 0 * Space + Space <= q * Space
        BY <1>1, <3>1, PlacesInOrder
      <3> QED BY <1>1, <1>3, <1>4, <3>2
    <2>2. index = 0 /\ size = leftOver /\ ~(newSize >= Space)
      BY <1>1, <1>2, <1>4
    <2> QED BY <1>1, <2>1, <2>2
  <1>5. CASE ~(newSize < Space) /\ leftOver = 0
    <2>1. q # 0
      BY <1>1, <1>5
    <2>2. index = q - 1 /\ size = Space /\ q - 1 \in Nat
      BY <1>1, <1>2, <1>5, <2>1
    <2>3. (q - 1) * Space + Space = q * Space
      BY <1>1
    <2> QED BY <1>1, <1>3, <1>5, <2>2, <2>3
  <1>6. CASE ~(newSize < Space) /\ leftOver # 0
    <2>1. index = q /\ size = leftOver
      BY <1>1, <1>2, <1>6
    <2> QED BY <1>1, <1>6, <2>1
  <1> QED BY <1>4, <1>5, <1>6

(* The first blocks of a chain. *)
LEMMA ChainCut ==
    ASSUME NEW n \in 0 .. MaxBlocks, NEW c, Ordered(n, c), NEW l \in 1 .. Len(c)
    PROVE  /\ Ordered(n, SubSeq(c, 1, l)) /\ Len(SubSeq(c, 1, l)) = l
           /\ \A i \in 1 .. l : SubSeq(c, 1, l)[i] = c[i]
  <1> DEFINE d == SubSeq(c, 1, l)
  <1>1. c \in Seq(Ids) /\ Len(c) \in Nat /\ l \in Nat /\ l >= 1 /\ l <= Len(c)
    BY DEF Ordered
  <1>2. d \in Seq(Ids) /\ Len(d) = l /\ \A i \in 1 .. l : d[i] = c[i]
    BY <1>1
  <1>3. \A i \in 1 .. l : i \in 1 .. Len(c)
    BY <1>1
  <1> HIDE DEF d
  <1>4. d # << >> /\ d[1] = c[1]
    <2>1. Len(d) # 0 /\ 1 \in 1 .. l
      BY <1>1, <1>2
    <2> QED BY <1>2, <2>1
  <1>5. Ordered(n, d)
    BY <1>2, <1>3, <1>4 DEF Ordered
  <1> QED BY <1>2, <1>5 DEF d

(* hdr2 is hdr with block b for the last one, of z bytes. *)
Ended(hdr, hdr2, b, z) ==
    /\ hdr2 \in [Ids -> [size : 0 .. Space, next : Ids]]
    /\ hdr2[b].size = z /\ hdr2[b].next = b
    /\ \A e \in Ids : e # b => hdr2[e] = hdr[e]

(* A file that ends in block l of its chain, at the place z.               *)
LEMMA CutRight ==
    ASSUME NEW hdr, NEW dat, NEW n, NEW c, Sound(hdr, dat, n, c),
           NEW content, Holds(hdr, dat, c, content),
           NEW l \in 1 .. Len(c), NEW z \in 0 .. Space, l > 1 => z > 0,
           NEW size \in Nat, size = (l - 1) * Space + z, size <= Total(hdr, c),
           NEW d, Len(d) = l, Ordered(n, d), \A i \in 1 .. l : d[i] = c[i],
           NEW hdr2, Ended(hdr, hdr2, c[l], z)
    PROVE  Sound(hdr2, dat, n, d) /\ Holds(hdr2, dat, d, SubSeq(content, 1, size))
  <1> DEFINE b == c[l]
  <1>1. /\ ImageType(hdr, dat) /\ n \in 1 .. MaxBlocks /\ Ordered(n, c)
        /\ Linked(hdr, c) /\ Packed(hdr, c) /\ Fresh(hdr, n)
    BY DEF Sound
  <1>2. /\ Len(c) \in Nat /\ l \in Nat /\ l >= 1 /\ l <= Len(c) /\ Space \in Nat /\ Space > 0
        /\ l \in 1 .. l /\ Total(hdr, c) \in Nat
        /\ \A i \in 1 .. l : i \in 1 .. Len(c)
        /\ \A i \in 1 .. Len(c) : c[i] \in Ids /\ hdr[c[i]].size \in 0 .. Space
                                  /\ (i < Len(c) => hdr[c[i]].size = Space)
    <2>1. Len(c) \in Nat
      BY Sizes
    <2>2. l \in Nat /\ l >= 1 /\ l <= Len(c) /\ l \in 1 .. l /\ \A i \in 1 .. l : i \in 1 .. Len(c)
      BY <2>1
    <2> QED BY <2>1, <2>2, Sizes
  <1>3. n \in 0 .. MaxBlocks /\ MaxBlocks \in Nat
    BY <1>1, FileAssumption
  <1>4. /\ \A i, j \in 1 .. Len(c) : c[i] = c[j] => i = j
        /\ b \in Ids /\ b <= n /\ d[l] = b
    BY <1>1, <1>2, <1>3, ChainType
  <1>5. /\ hdr2 \in [Ids -> [size : 0 .. Space, next : Ids]]
        /\ hdr2[b].size = z /\ hdr2[b].next = b
        /\ \A e \in Ids : e # b => hdr2[e] = hdr[e]
    BY DEF Ended
  <1>6. \A i \in 1 .. l : i # l => d[i] = c[i] /\ d[i] # b /\ hdr2[d[i]] = hdr[c[i]]
    BY <1>2, <1>4, <1>5
  <1>7. Sound(hdr2, dat, n, d)
    <2>1. ImageType(hdr2, dat)
      BY <1>1, <1>5 DEF ImageType
    <2>2. Linked(hdr2, d)
      <3>1. ASSUME NEW i \in 1 .. l - 1 PROVE hdr2[d[i]].next = d[i + 1]
        <4>1. i \in 1 .. l /\ i # l /\ i + 1 \in 1 .. l /\ i \in 1 .. Len(c) - 1
          BY <1>2
        <4>2. hdr[c[i]].next = c[i + 1]
          BY <1>1, <4>1 DEF Linked
        <4> QED BY <1>6, <4>1, <4>2
      <3> HIDE DEF b
      <3> QED BY <1>4, <1>5, <3>1 DEF Linked
    <2>3. Packed(hdr2, d)
      <3>1. ASSUME NEW i \in 1 .. l - 1 PROVE hdr2[d[i]].size = Space
        <4>1. i \in 1 .. l /\ i # l /\ i < Len(c) /\ i \in 1 .. Len(c)
          BY <1>2
        <4> QED BY <1>2, <1>6, <4>1
      <3> HIDE DEF b
      <3> QED BY <1>4, <1>5, <3>1 DEF Packed
    <2>4. Fresh(hdr2, n)
      <3>1. ASSUME NEW e \in Ids, e > n PROVE e # b
        <4>1. e \in Nat /\ n \in Nat
          BY <1>1, <1>3 DEF Ids
        <4> HIDE DEF b
        <4> QED BY <1>4, <3>1, <4>1
      <3> QED BY <1>1, <1>5, <3>1 DEF Fresh
    <2> QED BY <1>1, <2>1, <2>2, <2>3, <2>4 DEF Sound
  <1> DEFINE s2 == SubSeq(content, 1, size)
  <1>8. content \in Seq(Bytes) /\ Len(content) = Total(hdr, c)
        /\ \A i \in 1 .. Len(c) : \A s \in 1 .. hdr[c[i]].size :
              content[(i - 1) * Space + s] = dat[c[i]][s]
    BY DEF Holds
  <1>9. s2 \in Seq(Bytes) /\ Len(s2) = size /\ \A x \in 1 .. size : s2[x] = content[x]
    BY <1>2, <1>8
  <1>10. Total(hdr2, d) = size
    <2> HIDE DEF b
    <2> QED BY <1>4, <1>5 DEF Total
  <1>11. z <= hdr[b].size
    <2> DEFINE i == l - 1
    <2>1. i \in 0 .. Len(c) - 1 /\ i + 1 = l
      BY <1>2
    <2>2. i * Space + z <= Total(hdr, c)
      OBVIOUS
    <2> HIDE DEF i
    <2>3. z \in 0 .. hdr[c[i + 1]].size
      BY <2>1, <2>2, WithinBlock
    <2> QED BY <2>1, <2>3
  <1> HIDE DEF s2, b
  <1>12. ASSUME NEW i \in 1 .. Len(d), NEW s \in 1 .. hdr2[d[i]].size
         PROVE  s2[(i - 1) * Space + s] = dat[d[i]][s]
    <2>1. i \in 1 .. l /\ i \in 1 .. Len(c) /\ d[i] = c[i]
      BY <1>2
    <2>2. s \in 1 .. hdr[c[i]].size
      <3>1. CASE i = l
        <4> DEFINE y == hdr[c[i]].size
        <4>1. s \in 1 .. z /\ z <= y /\ y \in 0 .. Space
          BY <1>2, <1>4, <1>5, <1>11, <2>1, <3>1 DEF b
        <4> HIDE DEF y
        <4>2. s \in 1 .. y
          BY <1>2, <4>1
        <4> QED BY <4>2 DEF y
      <3>2. CASE i # l
        BY <1>6, <2>1, <3>2
      <3> QED BY <3>1, <3>2
    <2> DEFINE x == (i - 1) * Space + s
    <2>3. x \in 1 .. size
      <3>1. (i - 1) * Space + s \in 1 .. Total(hdr2, d)
        BY <1>7, PlaceInFile
      <3> QED BY <1>10, <3>1
    <2>4. content[x] = dat[c[i]][s]
      BY <1>8, <2>1, <2>2
    <2> HIDE DEF x
    <2>5. s2[x] = dat[d[i]][s]
      BY <1>9, <2>1, <2>3, <2>4
    <2> QED BY <2>5 DEF x
  <1>13. Holds(hdr2, dat, d, s2)
    BY <1>9, <1>10, <1>12 DEF Holds
  <1> QED BY <1>7, <1>13 DEF s2

(* Blocks are cut off at the new end. *)
LEMMA TruncateRight ==
    ASSUME NoMisuse, IInv, NEW newSize \in 0 .. MaxBlocks * Space, Truncate(newSize)
    PROVE  IInv' /\ Abstract!Truncate
  <1> DEFINE leftOver == newSize % Space
  <1> DEFINE index == IF newSize < Space THEN 0
                      ELSE IF leftOver = 0 THEN newSize \div Space - 1 ELSE newSize \div Space
  <1> DEFINE size == IF newSize >= Space /\ leftOver = 0 THEN Space ELSE leftOver
  <1> DEFINE block == Chain[index + 1]
  <1> DEFINE T == Total(header, Chain)
  <1>1. /\ start # NoBlock /\ index < Len(Chain) /\ ~(newSize > Len(Content))
        /\ header' = [header EXCEPT ![block] = [size |-> size, next |-> block]]
        /\ standing' = "unusable" /\ call' = NoCall
        /\ data' = data /\ start' = start /\ used' = used
    BY DEF Truncate, NoMisuse
  <1>2. newSize \in Nat
    <2>1. MaxBlocks \in Nat /\ Space \in Nat
      BY FileAssumption
    <2>2. MaxBlocks * Space \in Nat
      BY <2>1
    <2> QED BY <2>2
  <1>3. /\ Sound(header, data, used, Chain) /\ Content \in Seq(Bytes) /\ Len(Content) = T /\ T \in Nat
        /\ Holds(header, data, Chain, Content) /\ start = 1
    BY <1>1, ContentRight
  <1>4. /\ index \in Nat /\ size \in 0 .. Space /\ newSize = index * Space + size
        /\ index > 0 => size > 0
    <2> HIDE DEF T
    <2> QED BY <1>2, EndsAt
  <1> HIDE DEF index, size, leftOver
  <1> DEFINE l == index + 1
  <1> DEFINE d == SubSeq(Chain, 1, l)
  <1> DEFINE kept == SubSeq(Content, 1, newSize)
  <1>5. Len(Chain) \in Nat /\ Ordered(used, Chain) /\ used \in 0 .. MaxBlocks
        /\ header \in [Ids -> [size : 0 .. Space, next : Ids]]
    <2>1. used \in 1 .. MaxBlocks /\ MaxBlocks \in Nat
      BY <1>3, FileAssumption DEF Sound
    <2>2. used \in 0 .. MaxBlocks
      BY <2>1
    <2> QED BY <1>3, <2>2, Sizes DEF Sound, ImageType
  <1>6. l \in 1 .. Len(Chain) /\ l - 1 = index
    BY <1>1, <1>4, <1>5
  <1> HIDE DEF l, d
  <1>7. /\ Ordered(used, d) /\ Len(d) = l /\ \A i \in 1 .. l : d[i] = Chain[i]
    BY <1>5, <1>6, ChainCut DEF d
  <1>8. block \in Ids /\ block = Chain[l]
    <2>1. Chain[l] \in Ids
      BY <1>5, <1>6, ChainType
    <2> QED BY <2>1 DEF l
  <1>9. Ended(header, header', Chain[l], size)
    <2> DEFINE R == [size : 0 .. Space, next : Ids]
    <2> DEFINE new == [size |-> size, next |-> block]
    <2>1. new \in R /\ new.size = size /\ new.next = block
      <3> HIDE DEF block
      <3> QED BY <1>4, <1>8
    <2>2. header \in [Ids -> R] /\ header' = [header EXCEPT ![block] = new]
      BY <1>1, <1>5
    <2> HIDE DEF R, new, block
    <2>3. header' \in [Ids -> R] /\ header'[block] = new /\ \A e \in Ids : e # block => header'[e] = header[e]
      BY <1>8, <2>1, <2>2
    <2> QED BY <1>8, <2>1, <2>3 DEF Ended, R
  <1>10. newSize = (l - 1) * Space + size /\ newSize <= T /\ (l > 1 => size > 0)
    <2>1. newSize = (l - 1) * Space + size
      BY <1>4, <1>6
    <2>2. newSize <= T
      <3> HIDE DEF T
      <3> QED BY <1>1, <1>2, <1>3
    <2>3. l > 1 => size > 0
      BY <1>4 DEF l
    <2> QED BY <2>1, <2>2, <2>3
  <1>11. Sound(header', data, used, d) /\ Holds(header', data, d, kept)
    <2> HIDE DEF block
    <2> QED BY <1>2, <1>3, <1>4, <1>6, <1>7, <1>9, <1>10, CutRight
  <1>12. Chain' = d
    <2>1. Linked(header', d)
      BY <1>11 DEF Sound
    <2>2. ChainFrom(header', 1) = d
      BY <1>5, <1>7, <2>1, ChainIs
    <2> QED BY <1>1, <1>3, <2>2 DEF Chain
  <1>13. Content' = kept
    <2> HIDE DEF kept
    <2>1. ContentOf(header', data, d) = kept
      BY <1>11, ContentIs
    <2> QED BY <1>1, <1>12, <2>1 DEF Content
  <1>14. IInv'
    <2>1. standing' # "usable" /\ ~(standing' # "unusable") /\ start' # NoBlock /\ start' = 1
      BY <1>1, <1>3
    <2> QED BY <1>1, <1>3, <1>11, <1>12, <2>1 DEF IInv
  <1>15. Abstract!Truncate
    <2>1. newSize \in 0 .. Len(Content)
      BY <1>2, <1>3, <1>10
    <2> QED BY <1>1, <1>13, <2>1 DEF Abstract!Truncate, Abstract!Unknown, Abstract!NoCall, NoCall
  <1> QED BY <1>14, <1>15
-----------------------------------------------------------------------------
(***************************************************************************)
(* The theorems.                                                           *)
(***************************************************************************)

LEMMA StutterRight ==
    ASSUME IInv, UNCHANGED vars
    PROVE  IInv' /\ UNCHANGED <<Content, IF standing = "usable" THEN file.pos ELSE -1, call>>
  <1>1. /\ header' = header /\ data' = data /\ start' = start /\ used' = used
        /\ file' = file /\ standing' = standing /\ call' = call
    BY DEF vars, image
  <1>2. Chain' = Chain
    BY <1>1 DEF Chain
  <1>3. Content' = Content
    BY <1>1, <1>2 DEF Content
  <1>4. IInv'
    BY <1>1, <1>2 DEF IInv
  <1> QED BY <1>1, <1>3, <1>4

LEMMA StepRight ==
    ASSUME NoMisuse, IInv, [Next]_vars
    PROVE  /\ IInv'
           /\ [Abstract!Next]_<<Content, IF standing = "usable" THEN file.pos ELSE -1, call>>
  <1>1. MaxBlocks * Space \in Nat /\ MaxOffset \in Nat
    BY FileAssumption
  <1>2. CASE UNCHANGED vars
    BY <1>2, StutterRight
  <1>3. CASE Create
    BY <1>3, CreateRight
  <1>4. ASSUME NEW mode \in Modes, Open(mode) PROVE IInv' /\ Abstract!Seek
    BY <1>4, OpenRight
  <1>5. ASSUME NEW off \in 0 .. MaxBlocks * Space, Seek(off, "beg") PROVE IInv' /\ Abstract!Seek
    <2>1. off \in Int /\ off >= 0
      BY <1>1
    <2> QED BY <1>5, <2>1, SeekRight
  <1>6. ASSUME NEW off \in -MaxBlocks * Space .. 0, Seek(off, "end") PROVE IInv' /\ Abstract!Seek
    <2>1. off \in Int /\ off <= 0
      BY <1>1
    <2> QED BY <1>6, <2>1, SeekRight
  <1>7. ASSUME NEW off \in -MaxOffset .. MaxOffset, Seek(off, "cur") PROVE IInv' /\ Abstract!Seek
    <2>1. off \in Int
      BY <1>1
    <2> QED BY <1>7, <2>1, SeekRight
  <1>8. ASSUME NEW n \in 1 .. MaxRequest, Read(n) PROVE IInv' /\ Abstract!Read
    BY <1>8, ReadRight
  <1>9. ASSUME NEW bytes \in Requests, Write(bytes) PROVE IInv' /\ Abstract!Write
    BY <1>9, WriteRight
  <1>10. ASSUME NEW newSize \in 0 .. MaxBlocks * Space, Truncate(newSize)
         PROVE  IInv' /\ Abstract!Truncate
    BY <1>10, TruncateRight
  <1> QED BY <1>2, <1>3, <1>4, <1>5, <1>6, <1>7, <1>8, <1>9, <1>10 DEF Next, Abstract!Next

(* Whatever File is asked for that it can serve, the chain in the image is *)
(* sound and the object agrees with it.                                    *)
THEOREM FileInvariant == ASSUME NoMisuse PROVE Spec => []IInv
  <1>1. Init => IInv
    BY InitRight
  <1>2. IInv /\ [Next]_vars => IInv'
    BY StepRight
  <1> QED BY <1>1, <1>2, PTL DEF Spec

(* PackedChain, for blocks of every size: a chain that was written,        *)
(* overwritten and truncated in any order has no partly filled block but   *)
(* the last (checkAndUpdateWorkingBlockWithNew, File::truncate).           *)
THEOREM PackedCorrect == ASSUME NoMisuse PROVE Spec => []PackedChain
  <1>1. IInv => PackedChain
    <2> SUFFICES ASSUME IInv PROVE PackedChain
      OBVIOUS
    <2>1. CASE start = NoBlock
      <3>1. Chain = << >>
        BY <2>1 DEF Chain, ChainFrom
      <3> QED BY <3>1 DEF PackedChain
    <2>2. CASE start # NoBlock
      BY <2>2, ContentRight DEF Sound, Packed, PackedChain
    <2> QED BY <2>1, <2>2
  <1> QED BY <1>1, FileInvariant, PTL

(* PositionExact: the position arithmetic of File::seek, from the begin,   *)
(* the end and the current position, and the steps of read and write from  *)
(* block to block never part tell() from the working block.                *)
THEOREM PositionsCorrect == ASSUME NoMisuse PROVE Spec => []PositionExact
  <1>1. IInv => PositionExact
    BY DEF IInv, Stands, PositionExact
  <1> QED BY <1>1, FileInvariant, PTL

(* SizeExact: the size and the count of blocks that File keeps by          *)
(* increments are those of the chain in the image.                         *)
THEOREM SizesCorrect == ASSUME NoMisuse PROVE Spec => []SizeExact
  <1>1. IInv => SizeExact
    <2> SUFFICES ASSUME IInv, standing = "usable"
                 PROVE  file.fileSize = Len(Content) /\ file.blockCount = Len(Chain)
      BY DEF SizeExact
    <2>1. start # NoBlock /\ Counted(header, Chain, file)
      BY PositionRight DEF IInv
    <2>2. Len(Content) = Total(header, Chain)
      BY <2>1, ContentRight
    <2> QED BY <2>1, <2>2 DEF Counted
  <1> QED BY <1>1, FileInvariant, PTL

(* ImplementsByteFile: the chain of blocks is a file of bytes.  What was   *)
(* written is what is read, a write changes the bytes it covers and no     *)
(* other, and a truncation keeps those before the new end.                 *)
THEOREM RefinesByteFile == ASSUME NoMisuse PROVE Spec => ImplementsByteFile
  <1>1. Init => Abstract!Init
    BY InitRight
  <1>2. IInv /\ [Next]_vars
          => [Abstract!Next]_<<Content, IF standing = "usable" THEN file.pos ELSE -1, call>>
    BY StepRight
  <1> QED BY <1>1, <1>2, FileInvariant, PTL DEF Spec, ImplementsByteFile, Abstract!Spec
=============================================================================
