------------------------- MODULE VolumeBitmapProofs -------------------------
(***************************************************************************)
(* For every number of blocks and every width of a byte, an update of the  *)
(* volume bitmap concerns its block alone, and what reads the bitmap finds *)
(* the lowest available blocks and counts those in use.                    *)
(***************************************************************************)
EXTENDS VolumeBitmap, FiniteSetTheorems, WellFoundedInduction, TLAPS

(* Division with remainder by the width of a byte. *)
LEMMA Division ==
    ASSUME NEW b \in Nat
    PROVE  /\ b \div ByteWidth \in Nat
           /\ b % ByteWidth \in Bits
           /\ b = ByteWidth * (b \div ByteWidth) + (b % ByteWidth)
  <1>1. ByteWidth \in Nat /\ ByteWidth > 0
    BY ByteWidthAssumption
  <1>2. b = ByteWidth * (b \div ByteWidth) + (b % ByteWidth) /\ b % ByteWidth \in 0 .. ByteWidth - 1
    BY <1>1
  <1>3. b \div ByteWidth \in Nat
    BY <1>1
  <1> QED BY <1>2, <1>3 DEF Bits

(* No other multiple of the width is as close below. *)
LEMMA DivisionUnique ==
    ASSUME NEW q \in Nat, NEW r \in Bits, NEW p \in Nat, NEW s \in Bits,
           ByteWidth * q + r = ByteWidth * p + s
    PROVE  q = p /\ r = s
  <1>1. ByteWidth \in Nat /\ ByteWidth > 0 /\ r \in 0 .. ByteWidth - 1 /\ s \in 0 .. ByteWidth - 1
    BY ByteWidthAssumption DEF Bits
  <1>2. ASSUME NEW x \in Nat, NEW y \in Nat, x < y
        PROVE  ByteWidth * x + ByteWidth <= ByteWidth * y
    <2>1. y - x - 1 \in Nat
      BY <1>2
    <2>2. ByteWidth * (y - x - 1) >= 0
      BY <1>1, <2>1
    <2>3. ByteWidth * (y - x - 1) = ByteWidth * y - ByteWidth * x - ByteWidth
      BY <1>1
    <2> QED BY <1>1, <2>2, <2>3
  <1>3. ByteWidth * q \in Nat /\ ByteWidth * p \in Nat
    BY <1>1
  <1>4. ~(q < p)
    BY <1>1, <1>2, <1>3
  <1>5. ~(p < q)
    BY <1>1, <1>2, <1>3
  <1> QED BY <1>1, <1>3, <1>4, <1>5

(* The detour of the code over the byte before ends where division does:   *)
(* setBlockToInUse and isBlockInUse look at the bit of the block, and at a *)
(* byte that the bitmap has (DetailKnoxCrypt.hpp:199-215, 244-260).        *)
LEMMA Located ==
    ASSUME NEW b \in Bitmapped
    PROVE  /\ byteThatStoresBit(b) \in Bytes
           /\ bitOfBlock(b) \in Bits
           /\ b = ByteWidth * byteThatStoresBit(b) + bitOfBlock(b)
  <1>1. ByteWidth \in Nat /\ ByteWidth > 0 /\ Blocks \in Nat
    BY ByteWidthAssumption, BlocksAssumption
  <1>2. ByteCount \in Nat
    BY <1>1 DEF ByteCount
  <1>3. b \in Nat /\ b < ByteCount * ByteWidth
    BY <1>1, <1>2 DEF Bitmapped
  <1>4. /\ byteThatStoresBit(b) \in Nat
        /\ bitOfBlock(b) \in Bits
        /\ b = ByteWidth * byteThatStoresBit(b) + bitOfBlock(b)
    <2>1. CASE b < ByteWidth
      BY <1>1, <1>3, <2>1 DEF byteThatStoresBit, bitOfBlock, Bits
    <2>2. CASE ~(b < ByteWidth)
      <3> DEFINE q == b \div ByteWidth
      <3> DEFINE r == b % ByteWidth
      <3>1. q \in Nat /\ r \in 0 .. ByteWidth - 1 /\ b = ByteWidth * q + r
        BY <1>3, Division DEF Bits
      <3>2. b - r = ByteWidth * q
        BY <1>1, <1>3, <3>1
      <3>3. (b - r) \div ByteWidth = q
        <4>1. b - r \in Nat
          <5> HIDE DEF q, r
          <5>1. ByteWidth * q \in Nat
            BY <1>1, <3>1
          <5> QED BY <3>2, <5>1
        <4>2. /\ (b - r) \div ByteWidth \in Nat
              /\ (b - r) % ByteWidth \in Bits
              /\ b - r = ByteWidth * ((b - r) \div ByteWidth) + ((b - r) % ByteWidth)
          BY <4>1, Division
        <4>3. 0 \in Bits /\ ByteWidth * q + 0 = b - r
          BY <1>1, <3>1, <3>2 DEF Bits
        <4> DEFINE d == (b - r) \div ByteWidth
        <4> DEFINE m == (b - r) % ByteWidth
        <4>4. d \in Nat /\ m \in Bits /\ ByteWidth * d + m = ByteWidth * q + 0
          BY <4>2, <4>3
        <4>5. d = q
          <5> HIDE DEF d, m, q, r
          <5> QED BY <3>1, <4>3, <4>4, DivisionUnique
        <4> QED BY <4>5
      <3>4. byteThatStoresBit(b) = (q - 1) + 1 /\ bitOfBlock(b) = r
        BY <2>2, <3>3 DEF byteThatStoresBit, bitOfBlock
      <3>5. byteThatStoresBit(b) = q
        BY <3>1, <3>4
      <3> QED BY <3>1, <3>4, <3>5 DEF Bits
    <2> QED BY <2>1, <2>2
  <1>5. byteThatStoresBit(b) < ByteCount
    <2> DEFINE q == byteThatStoresBit(b)
    <2>1. q \in Nat /\ bitOfBlock(b) \in Nat /\ b = ByteWidth * q + bitOfBlock(b)
      BY <1>1, <1>4 DEF Bits
    <2>2. SUFFICES ASSUME q >= ByteCount PROVE FALSE
      BY <1>2, <2>1
    <2>3. ByteWidth * (q - ByteCount) >= 0
      BY <1>1, <1>2, <2>1, <2>2
    <2>4. ByteWidth * (q - ByteCount) = ByteWidth * q - ByteCount * ByteWidth
      BY <1>1, <1>2, <2>1
    <2>5. ByteWidth * q \in Nat /\ ByteCount * ByteWidth \in Nat
      BY <1>1, <1>2, <2>1
    <2> QED BY <1>3, <2>1, <2>3, <2>4, <2>5
  <1> QED BY <1>1, <1>2, <1>4, <1>5 DEF Bytes

(* Two blocks have two bits: an update sets or clears that of its block    *)
(* and leaves every other one (DetailKnoxCrypt.hpp:194-223).               *)
LEMMA BitFlipped ==
    ASSUME TypeOK, NEW b \in Bitmapped, NEW set \in BOOLEAN, updateVolumeBitmapWithOne(b, set)
    PROVE  /\ TypeOK'
           /\ InUse' = IF set THEN InUse \union {b} ELSE InUse \ {b}
  <1> DEFINE byte(c) == byteThatStoresBit(c)
  <1> DEFINE bit(c) == bitOfBlock(c)
  <1>1. \A c \in Bitmapped :
            byte(c) \in Bytes /\ bit(c) \in Bits /\ c = ByteWidth * byte(c) + bit(c)
    BY Located
  <1>2. \A bm \in [Bytes -> SUBSET Bits], c \in Bitmapped : isBlockInUse(bm, c) <=> bit(c) \in bm[byte(c)]
    BY <1>1 DEF isBlockInUse, isBitSetInByte, FullByte
  <1>3. \A c \in Bitmapped : byte(c) = byte(b) /\ bit(c) = bit(b) => c = b
    <2>1. TAKE c \in Bitmapped
    <2>2. HAVE byte(c) = byte(b) /\ bit(c) = bit(b)
    <2>3. c = ByteWidth * byte(c) + bit(c) /\ b = ByteWidth * byte(b) + bit(b)
      BY <1>1
    <2> HIDE DEF byte, bit
    <2> QED BY <2>2, <2>3
  <1>4. bitmap' = [bitmap EXCEPT ![byte(b)] = IF set THEN @ \union {bit(b)} ELSE @ \ {bit(b)}]
    BY DEF updateVolumeBitmapWithOne, setBlockToInUse, setBitInByte
  <1>5. bitmap \in [Bytes -> SUBSET Bits] /\ byte(b) \in Bytes /\ bit(b) \in Bits
    BY <1>1 DEF TypeOK
  <1>6. bitmap' \in [Bytes -> SUBSET Bits]
    <2> HIDE DEF byte, bit
    <2> QED BY <1>4, <1>5
  <1>7. ASSUME NEW c \in Bitmapped
        PROVE  bit(c) \in bitmap'[byte(c)] <=> IF c = b THEN set ELSE bit(c) \in bitmap[byte(c)]
    <2>1. byte(c) \in Bytes /\ (c # b => byte(c) # byte(b) \/ bit(c) # bit(b))
      BY <1>1, <1>3
    <2> HIDE DEF byte, bit
    <2> QED BY <1>4, <1>5, <2>1
  <1>8. ASSUME NEW c \in Bitmapped
        PROVE  c \in InUse' <=> IF c = b THEN set ELSE c \in InUse
    <2>1. c \in InUse' <=> bit(c) \in bitmap'[byte(c)]
      BY <1>2, <1>6 DEF InUse
    <2>2. c \in InUse <=> bit(c) \in bitmap[byte(c)]
      BY <1>2, <1>5 DEF InUse
    <2> QED BY <1>7, <2>1, <2>2
  <1>9. InUse \subseteq Bitmapped /\ InUse' \subseteq Bitmapped
    BY DEF InUse
  <1> QED BY <1>6, <1>8, <1>9 DEF TypeOK

(* The bytes stay bytes. *)
THEOREM BytesCorrect == Spec => []TypeOK
  <1>1. Init => TypeOK
    BY DEF Init, TypeOK
  <1>2. TypeOK /\ [Next]_bitmap => TypeOK'
    <2> SUFFICES ASSUME TypeOK, [Next]_bitmap PROVE TypeOK'
      OBVIOUS
    <2>1. CASE Next
      BY <2>1, BitFlipped DEF Next
    <2>2. CASE UNCHANGED bitmap
      BY <2>2 DEF TypeOK
    <2> QED BY <2>1, <2>2
  <1> QED BY <1>1, <1>2, PTL DEF Spec

(* Every update sets or clears the bit of its block and of no other, for   *)
(* every number of blocks and every width of a byte (setBlockToInUse,      *)
(* isBlockInUse).                                                          *)
THEOREM UpdatesCorrect == Spec => UpdatesOnlyItsBlock
  <1> DEFINE A == \A block \in Bitmapped, set \in BOOLEAN :
                     updateVolumeBitmapWithOne(block, set) =>
                         InUse' = IF set THEN InUse \union {block} ELSE InUse \ {block}
  <1>1. TypeOK /\ [Next]_bitmap => [A]_bitmap
    <2>1. SUFFICES ASSUME TypeOK PROVE A
      OBVIOUS
    <2> QED BY <2>1, BitFlipped
  <1> QED BY <1>1, BytesCorrect, PTL DEF Spec, UpdatesOnlyItsBlock

-----------------------------------------------------------------------------
(* What Lowest chooses exists. *)
LEMMA LowestExists ==
    ASSUME NEW S, S \subseteq Nat, S # {}
    PROVE  Lowest(S) \in S /\ \A x \in S : Lowest(S) <= x
  <1> DEFINE Less == {p \in Nat \X Nat : p[1] < p[2]}
  <1>1. IsWellFoundedOn(Less, Nat)
    BY NatLessThanWellFounded DEF OpToRel
  <1>2. PICK m \in S : \A y \in S : ~(<<y, m>> \in Less)
    <2> HIDE DEF Less
    <2> QED BY <1>1, WFMin
  <1>3. ASSUME NEW x \in S PROVE m <= x
    <2>1. x \in Nat /\ m \in Nat /\ ~(<<x, m>> \in Less)
      BY <1>2
    <2>2. ~(x < m)
      BY <2>1, Zenon
    <2> QED BY <2>1, <2>2
  <1> QED BY <1>3 DEF Lowest

(* The lowest bit of a byte that is not set, if there is one. *)
LEMMA LowestBit ==
    ASSUME NEW byte \in SUBSET Bits, byte # FullByte
    PROVE  /\ getNextAvailableBitInAByte(byte) \in Bits \ byte
           /\ \A j \in 0 .. getNextAvailableBitInAByte(byte) - 1 : j \in byte
  <1> DEFINE unset == Bits \ byte
  <1>1. unset \subseteq Nat /\ unset # {}
    <2>1. Bits \subseteq Nat
      BY ByteWidthAssumption DEF Bits
    <2>2. unset # {}
      BY DEF FullByte
    <2> QED BY <2>1, <2>2
  <1>2. Lowest(unset) \in unset /\ \A x \in unset : Lowest(unset) <= x
    BY <1>1, LowestExists
  <1>3. \A j \in 0 .. Lowest(unset) - 1 : j \in byte
    BY <1>1, <1>2, ByteWidthAssumption DEF Bits
  <1>4. \E i \in Bits : ~isBitSetInByte(byte, i) /\ \A j \in 0 .. i - 1 : isBitSetInByte(byte, j)
    BY <1>2, <1>3 DEF isBitSetInByte
  <1> QED BY <1>4 DEF getNextAvailableBitInAByte, isBitSetInByte

(* Where there is an available block, the scan finds the lowest: the first *)
(* byte that is not full, and its lowest unset bit                         *)
(* (DetailKnoxCrypt.hpp:306-348).                                          *)
LEMMA ScanFindsLowest ==
    ASSUME TypeOK, Available # {}
    PROVE  getNextAvailableBlock(bitmap) = Lowest(Available)
  <1> DEFINE open == {i \in Bytes : getNextAvailableBitInAByte(bitmap[i]) > -1}
  <1> DEFINE first == CHOOSE i \in open : \A j \in open : i <= j
  <1> DEFINE g == getNextAvailableBitInAByte(bitmap[first])
  <1>1. ByteWidth \in Nat /\ ByteWidth > 0 /\ Blocks \in Nat /\ ByteCount \in Nat
    BY ByteWidthAssumption, BlocksAssumption DEF ByteCount
  <1>2. Bytes \subseteq Nat /\ Bits \subseteq Nat
    BY <1>1 DEF Bytes, Bits
  <1>3. \A i \in Bytes : bitmap[i] \in SUBSET Bits /\ (i \in open <=> bitmap[i] # FullByte)
    <2> SUFFICES ASSUME NEW i \in Bytes
                 PROVE  bitmap[i] \in SUBSET Bits /\ (i \in open <=> bitmap[i] # FullByte)
      OBVIOUS
    <2>1. bitmap[i] \in SUBSET Bits
      BY DEF TypeOK
    <2>2. CASE bitmap[i] = FullByte
      BY <2>1, <2>2 DEF getNextAvailableBitInAByte
    <2>3. CASE bitmap[i] # FullByte
      <3>1. getNextAvailableBitInAByte(bitmap[i]) \in Nat
        BY <1>2, <2>1, <2>3, LowestBit
      <3> QED BY <2>1, <2>3, <3>1
    <2> QED BY <2>2, <2>3
  <1>4. \A b \in Bitmapped : b \in Available <=> bitOfBlock(b) \notin bitmap[byteThatStoresBit(b)]
    BY Located DEF Available, InUse, isBlockInUse, isBitSetInByte, FullByte
  <1>5. \A b \in Available : byteThatStoresBit(b) \in open
    BY <1>3, <1>4, Located DEF Available, FullByte
  <1>6. first \in open /\ \A j \in open : first <= j
    <2>1. open # {} /\ open \subseteq Nat
      BY <1>2, <1>5
    <2>2. first = Lowest(open)
      BY DEF Lowest
    <2> HIDE DEF open, first
    <2> QED BY <2>1, <2>2, LowestExists
  <1>7. g \in Bits /\ g \notin bitmap[first] /\ \A j \in 0 .. g - 1 : j \in bitmap[first]
    <2>1. first \in Bytes
      BY <1>6
    <2>2. bitmap[first] \in SUBSET Bits /\ bitmap[first] # FullByte
      BY <1>3, <1>6, <2>1
    <2> QED BY <2>2, LowestBit
  <1> DEFINE id == ByteWidth * first + g
  <1>8. first \in Nat /\ first < ByteCount /\ g \in Nat /\ g < ByteWidth
    <2>1. first \in Bytes
      BY <1>6
    <2> HIDE DEF first, g
    <2> QED BY <1>1, <1>7, <2>1 DEF Bytes, Bits
  <1>9. id \in Bitmapped
    <2> HIDE DEF first, g
    <2>1. ByteWidth * (ByteCount - first - 1) >= 0
      BY <1>1, <1>8
    <2>2. ByteWidth * (ByteCount - first - 1) = ByteCount * ByteWidth - ByteWidth * first - ByteWidth
      BY <1>1, <1>8
    <2>3. ByteWidth * first \in Nat /\ ByteCount * ByteWidth \in Nat
      BY <1>1, <1>8
    <2> QED BY <1>1, <1>8, <2>1, <2>2, <2>3 DEF Bitmapped
  <1>10. byteThatStoresBit(id) = first /\ bitOfBlock(id) = g
    <2>1. /\ byteThatStoresBit(id) \in Nat /\ bitOfBlock(id) \in Bits
          /\ ByteWidth * byteThatStoresBit(id) + bitOfBlock(id) = ByteWidth * first + g
      BY <1>2, <1>9, Located
    <2> HIDE DEF first, g, id
    <2> QED BY <1>7, <1>8, <2>1, DivisionUnique
  <1>11. id \in Available
    BY <1>4, <1>7, <1>9, <1>10
  <1>12. ASSUME NEW b \in Available PROVE id <= b
    <2> DEFINE y == byteThatStoresBit(b)
    <2> DEFINE x == bitOfBlock(b)
    <2>1. y \in Nat /\ x \in Nat /\ x < ByteWidth /\ b = ByteWidth * y + x /\ x \notin bitmap[y]
      <3>1. y \in Bytes /\ x \in Bits /\ b = ByteWidth * y + x
        BY Located DEF Available
      <3>2. x \notin bitmap[y]
        BY <1>4 DEF Available
      <3> HIDE DEF y, x
      <3> QED BY <1>1, <1>2, <3>1, <3>2 DEF Bits
    <2>2. first <= y
      BY <1>5, <1>6
    <2> HIDE DEF first, g, y, x
    <2>3. CASE y = first
      <3>1. g <= x
        BY <1>7, <1>8, <2>1, <2>3
      <3> QED BY <1>1, <1>8, <2>1, <2>3, <3>1
    <2>4. CASE first < y
      <3>1. ByteWidth * (y - first - 1) >= 0
        BY <1>1, <1>8, <2>1, <2>4
      <3>2. ByteWidth * (y - first - 1) = ByteWidth * y - ByteWidth * first - ByteWidth
        BY <1>1, <1>8, <2>1
      <3>3. ByteWidth * first \in Nat /\ ByteWidth * y \in Nat
        BY <1>1, <1>8, <2>1
      <3> QED BY <1>1, <1>8, <2>1, <3>1, <3>2, <3>3
    <2> QED BY <1>8, <2>1, <2>2, <2>3, <2>4
  <1>13. id < Blocks
    <2>1. Blocks \div ByteWidth = ByteCount /\ Blocks = ByteWidth * (Blocks \div ByteWidth) + (Blocks % ByteWidth)
      BY <1>1, Division DEF ByteCount
    <2>2. Blocks % ByteWidth \in Nat
      BY <1>1, <1>2, Division
    <2>3. id \in Nat /\ id < ByteCount * ByteWidth
      BY <1>1, <1>9 DEF Bitmapped
    <2>4. ByteWidth * ByteCount \in Nat /\ ByteWidth * ByteCount = ByteCount * ByteWidth
      BY <1>1
    <2> HIDE DEF id
    <2> QED BY <1>1, <2>1, <2>2, <2>3, <2>4
  <1>14. getNextAvailableBlock(bitmap) = id
    <2>1. open # {}
      BY <1>6
    <2>2. id # Blocks
      BY <1>1, <1>13
    <2> QED BY <2>1, <2>2 DEF getNextAvailableBlock
  <1>15. Lowest(Available) = id
    <2>1. Available \subseteq Int
      BY <1>1 DEF Available, Bitmapped
    <2> HIDE DEF id
    <2>2. \A m \in Available : (\A x \in Available : m <= x) => m = id
      BY <1>11, <1>12, <2>1
    <2> QED BY <1>11, <1>12, <2>2 DEF Lowest
  <1> QED BY <1>14, <1>15

(* On a volume whose block count is a multiple of the width, the count of  *)
(* a full bitmap is the block count.                                       *)
LEMMA ScanFindsNone ==
    ASSUME TypeOK, Available = {}, Blocks % ByteWidth = 0
    PROVE  getNextAvailableBlock(bitmap) = NoBlock
  <1> DEFINE open == {i \in Bytes : getNextAvailableBitInAByte(bitmap[i]) > -1}
  <1>1. ByteWidth \in Nat /\ ByteWidth > 0 /\ Blocks \in Nat /\ ByteCount \in Nat
    BY ByteWidthAssumption, BlocksAssumption DEF ByteCount
  <1>2. ASSUME NEW i \in Bytes PROVE bitmap[i] = FullByte
    <2>1. SUFFICES ASSUME NEW j \in Bits, j \notin bitmap[i] PROVE FALSE
      BY DEF TypeOK, FullByte
    <2>2. i \in Nat /\ i < ByteCount /\ j \in Nat /\ j < ByteWidth
      BY <1>1 DEF Bytes, Bits
    <2> DEFINE b == ByteWidth * i + j
    <2>3. b \in Bitmapped
      <3>1. ByteWidth * (ByteCount - i - 1) >= 0
        BY <1>1, <2>2
      <3>2. ByteWidth * (ByteCount - i - 1) = ByteCount * ByteWidth - ByteWidth * i - ByteWidth
        BY <1>1, <2>2
      <3>3. ByteWidth * i \in Nat /\ ByteCount * ByteWidth \in Nat
        BY <1>1, <2>2
      <3> QED BY <1>1, <2>2, <3>1, <3>2, <3>3 DEF Bitmapped
    <2>4. byteThatStoresBit(b) = i /\ bitOfBlock(b) = j
      <3>1. /\ byteThatStoresBit(b) \in Nat /\ bitOfBlock(b) \in Bits
            /\ ByteWidth * byteThatStoresBit(b) + bitOfBlock(b) = ByteWidth * i + j
        BY <1>1, <2>3, Located DEF Bytes
      <3> HIDE DEF b
      <3> QED BY <2>1, <2>2, <3>1, DivisionUnique
    <2>5. b \in Available
      <3> HIDE DEF b
      <3> QED BY <2>1, <2>3, <2>4 DEF Available, InUse, isBlockInUse, isBitSetInByte, FullByte
    <2> QED BY <2>5
  <1>3. open = {}
    BY <1>2 DEF getNextAvailableBitInAByte
  <1>4. ByteWidth * ByteCount = Blocks
    <2>1. Blocks = ByteWidth * (Blocks \div ByteWidth) + (Blocks % ByteWidth)
      BY <1>1, Division
    <2>2. ByteWidth * ByteCount \in Nat
      BY <1>1
    <2> QED BY <1>1, <2>1, <2>2 DEF ByteCount
  <1> QED BY <1>3, <1>4 DEF getNextAvailableBlock

(* getNextAvailableBlock finds the lowest available block, or that there   *)
(* is none.                                                                *)
THEOREM ScanCorrect == Spec => []NextIsLowestAvailable
  <1>1. TypeOK => NextIsLowestAvailable
    BY ScanFindsLowest, ScanFindsNone DEF NextIsLowestAvailable
  <1> QED BY <1>1, BytesCorrect, PTL
-----------------------------------------------------------------------------
(* The bit of a byte that the block of that number has. *)
LEMMA Placed ==
    ASSUME NEW i \in Bytes, NEW j \in Bits, NEW b, b = ByteWidth * i + j
    PROVE  b \in Bitmapped /\ byteThatStoresBit(b) = i /\ bitOfBlock(b) = j
  <1>1. ByteWidth \in Nat /\ ByteWidth > 0 /\ ByteCount \in Nat
    BY ByteWidthAssumption, BlocksAssumption DEF ByteCount
  <1>2. i \in Nat /\ i < ByteCount /\ j \in Nat /\ j < ByteWidth
    BY <1>1 DEF Bytes, Bits
  <1>3. b \in Bitmapped
    <2>1. ByteWidth * (ByteCount - i - 1) >= 0
      BY <1>1, <1>2
    <2>2. ByteWidth * (ByteCount - i - 1) = ByteCount * ByteWidth - ByteWidth * i - ByteWidth
      BY <1>1, <1>2
    <2>3. ByteWidth * i \in Nat /\ ByteCount * ByteWidth \in Nat
      BY <1>1, <1>2
    <2> QED BY <1>1, <1>2, <2>1, <2>2, <2>3 DEF Bitmapped
  <1>4. /\ byteThatStoresBit(b) \in Nat /\ bitOfBlock(b) \in Bits
        /\ ByteWidth * byteThatStoresBit(b) + bitOfBlock(b) = ByteWidth * i + j
    BY <1>1, <1>3, Located DEF Bytes
  <1>5. byteThatStoresBit(b) = i /\ bitOfBlock(b) = j
    <2> DEFINE y == byteThatStoresBit(b)
    <2> DEFINE x == bitOfBlock(b)
    <2>1. y \in Nat /\ x \in Bits /\ i \in Nat /\ j \in Bits /\ ByteWidth * y + x = ByteWidth * i + j
      BY <1>2, <1>4
    <2> HIDE DEF y, x
    <2>2. y = i /\ x = j
      BY <2>1, DivisionUnique
    <2> QED BY <2>2 DEF y, x
  <1> QED BY <1>3, <1>5

(* A block is in use while its bit is set: that of a full byte is. *)
LEMMA InUseByBit ==
    ASSUME TypeOK, NEW b \in Bitmapped
    PROVE  b \in InUse <=> bitOfBlock(b) \in bitmap[byteThatStoresBit(b)]
  BY Located DEF InUse, isBlockInUse, isBitSetInByte, FullByte

(* Byte by byte, full ones at once, the same number is counted as block by *)
(* block (DetailKnoxCrypt.hpp:262-304).                                    *)
LEMMA CountsAllInUse == ASSUME TypeOK PROVE CountAgrees
  <1> DEFINE full == {i \in Bytes : bitmap[i] = FullByte}
  <1> DEFINE A == full \X Bits
  <1> DEFINE B == {at \in (Bytes \ full) \X Bits : isBitSetInByte(bitmap[at[1]], at[2])}
  <1> DEFINE place == [b \in InUse |-> <<byteThatStoresBit(b), bitOfBlock(b)>>]
  <1>1. ByteWidth \in Nat /\ ByteWidth > 0 /\ ByteCount \in Nat
    BY ByteWidthAssumption, BlocksAssumption DEF ByteCount
  <1>2. IsFiniteSet(Bytes) /\ IsFiniteSet(Bits) /\ Cardinality(Bits) = ByteWidth /\ IsFiniteSet(Bitmapped)
    <2>1. 0 \in Int /\ ByteWidth - 1 \in Int /\ ByteCount - 1 \in Int /\ (ByteCount * ByteWidth) - 1 \in Int
      BY <1>1
    <2>2. IsFiniteSet(Bytes) /\ IsFiniteSet(Bitmapped)
      BY <2>1, FS_Interval DEF Bytes, Bitmapped
    <2>3. /\ IsFiniteSet(0 .. ByteWidth - 1)
          /\ Cardinality(0 .. ByteWidth - 1) = IF 0 > ByteWidth - 1 THEN 0 ELSE (ByteWidth - 1) - 0 + 1
      BY <2>1, FS_Interval
    <2> QED BY <1>1, <2>2, <2>3 DEF Bits
  <1>3. full \subseteq Bytes /\ IsFiniteSet(full) /\ IsFiniteSet(Bytes \ full)
    <2>1. full \in SUBSET Bytes /\ Bytes \ full \in SUBSET Bytes
      OBVIOUS
    <2> HIDE DEF full
    <2> QED BY <1>2, <2>1, FS_Subset
  <1>4. IsFiniteSet(A) /\ Cardinality(A) = ByteWidth * Cardinality(full)
    <2>1. Cardinality(full) \in Nat
      BY <1>3, FS_CardinalityType
    <2>2. IsFiniteSet(A) /\ Cardinality(A) = Cardinality(full) * Cardinality(Bits)
      BY <1>2, <1>3, FS_Product
    <2> QED BY <1>1, <1>2, <2>1, <2>2
  <1>5. IsFiniteSet(B)
    <2>1. IsFiniteSet((Bytes \ full) \X Bits)
      BY <1>2, <1>3, FS_Product
    <2>2. B \in SUBSET ((Bytes \ full) \X Bits)
      OBVIOUS
    <2> QED BY <2>1, <2>2, FS_Subset
  <1>6. A \intersect B = {}
    OBVIOUS
  <1>7. place \in Bijection(InUse, A \union B)
    <2>1. ASSUME NEW b \in InUse
          PROVE  /\ place[b] = <<byteThatStoresBit(b), bitOfBlock(b)>> /\ place[b] \in A \union B
                 /\ b = ByteWidth * byteThatStoresBit(b) + bitOfBlock(b)
      <3>1. /\ b \in Bitmapped /\ byteThatStoresBit(b) \in Bytes /\ bitOfBlock(b) \in Bits
            /\ b = ByteWidth * byteThatStoresBit(b) + bitOfBlock(b)
        BY Located DEF InUse
      <3>2. bitOfBlock(b) \in bitmap[byteThatStoresBit(b)]
        BY <3>1, InUseByBit
      <3> QED BY <3>1, <3>2 DEF isBitSetInByte
    <2>2. ASSUME NEW b \in InUse, NEW c \in InUse, place[b] = place[c]
          PROVE  b = c
      <3>1. byteThatStoresBit(b) = byteThatStoresBit(c) /\ bitOfBlock(b) = bitOfBlock(c)
        BY <2>1, <2>2
      <3> QED BY <2>1, <3>1
    <2>3. ASSUME NEW at \in A \union B PROVE \E b \in InUse : place[b] = at
      <3>1. PICK i \in Bytes, j \in Bits : at = <<i, j>> /\ j \in bitmap[i]
        <4>1. CASE at \in A
          <5>1. PICK i \in full, j \in Bits : at = <<i, j>>
            BY <4>1
          <5>2. i \in Bytes /\ j \in bitmap[i]
            BY <5>1 DEF FullByte
          <5> QED BY <5>1, <5>2
        <4>2. CASE at \in B
          <5>1. PICK i \in Bytes, j \in Bits : at = <<i, j>>
            BY <4>2
          <5>2. j \in bitmap[i]
            BY <4>2, <5>1 DEF isBitSetInByte
          <5> QED BY <5>1, <5>2
        <4> QED BY <4>1, <4>2
      <3> DEFINE b == ByteWidth * i + j
      <3>2. b \in Bitmapped /\ byteThatStoresBit(b) = i /\ bitOfBlock(b) = j
        BY Placed
      <3> HIDE DEF b
      <3>3. b \in InUse
        BY <3>1, <3>2, InUseByBit
      <3> QED BY <2>1, <3>1, <3>2, <3>3
    <2>4. DOMAIN place = InUse /\ place = [b \in InUse |-> place[b]]
      OBVIOUS
    <2> HIDE DEF place, A, B
    <2> QED BY <2>1, <2>2, <2>3, <2>4, Zenon DEF Bijection, Injection, Surjection, IsInjective
  <1>8. IsFiniteSet(InUse) /\ Cardinality(InUse) = Cardinality(A \union B)
    <2>1. InUse \in SUBSET Bitmapped
      BY DEF InUse
    <2>2. IsFiniteSet(InUse)
      BY <1>2, <2>1, FS_Subset
    <2>3. ExistsBijection(InUse, A \union B)
      BY <1>7 DEF ExistsBijection
    <2> HIDE DEF A, B
    <2> QED BY <2>2, <2>3, FS_Bijection
  <1>9. Cardinality(A \union B) = Cardinality(A) + Cardinality(B)
    <2> HIDE DEF A, B
    <2>1. Cardinality(A \intersect B) = 0 /\ Cardinality(A) \in Nat /\ Cardinality(B) \in Nat
      BY <1>4, <1>5, <1>6, FS_EmptySet, FS_CardinalityType
    <2>2. Cardinality(A \union B) = Cardinality(A) + Cardinality(B) - Cardinality(A \intersect B)
      BY <1>4, <1>5, FS_Union
    <2> QED BY <2>1, <2>2
  <1>10. getNumberOfAllocatedBlocks(bitmap) = ByteWidth * Cardinality(full) + Cardinality(B)
    BY DEF getNumberOfAllocatedBlocks
  <1> HIDE DEF A, B, full
  <1> QED BY <1>4, <1>8, <1>9, <1>10 DEF CountAgrees

(* The count a mount computes is that of the blocks in use. *)
THEOREM CountCorrect == Spec => []CountAgrees
  <1>1. TypeOK => CountAgrees
    BY CountsAllInUse
  <1> QED BY <1>1, BytesCorrect, PTL

-----------------------------------------------------------------------------
(***************************************************************************)
(* The scan for several blocks.                                            *)
(***************************************************************************)

(* One round of the inner loop. *)
Round(bm, found, n) ==
    IF n = 0 THEN << >>
    ELSE LET i == (n - 1) \div ByteWidth
             b == (n - 1) % ByteWidth
         IN  IF isBitSetInByte(bm[i], b) THEN found ELSE Append(found, b + ByteWidth * i)

(* The blocks found after n rounds, for every n up to the last. *)
Rounds(bm, last, f) == f = [n \in 0 .. last |-> Round(bm, f[n - 1], n)]

(* The recursion has a value: were there a number of rounds for which it   *)
(* has none, take the least, and go one round on from the one before.      *)
LEMMA RoundsExist == ASSUME NEW bm, NEW last \in Nat PROVE \E f : Rounds(bm, last, f)
  <1> DEFINE bad == {m \in Nat : ~ \E f : Rounds(bm, m, f)}
  <1>1. SUFFICES ASSUME bad # {} PROVE FALSE
    OBVIOUS
  <1> DEFINE m == Lowest(bad)
  <1>2. m \in bad /\ \A k \in bad : m <= k
    <2>1. bad \subseteq Nat
      OBVIOUS
    <2> HIDE DEF bad
    <2> QED BY <1>1, <2>1, LowestExists
  <1>3. m \in Nat /\ ~ \E f : Rounds(bm, m, f)
    BY <1>2
  <1> HIDE DEF m
  <1>4. CASE m = 0
    <2> DEFINE f == [n \in 0 .. 0 |-> << >>]
    <2>1. f = [n \in 0 .. 0 |-> Round(bm, f[n - 1], n)]
      BY DEF Round
    <2>2. Rounds(bm, 0, f)
      BY <2>1, Zenon DEF Rounds
    <2> QED BY <1>3, <1>4, <2>2
  <1>5. CASE m > 0
    <2>1. m - 1 \in Nat /\ m - 1 \notin bad
      BY <1>2, <1>3, <1>5
    <2>2. PICK f : Rounds(bm, m - 1, f)
      BY <2>1
    <2> DEFINE g == [n \in 0 .. m |-> IF n = m THEN Round(bm, f[m - 1], m) ELSE f[n]]
    <2>3. \A n \in 0 .. m - 1 : g[n] = f[n]
      BY <1>3, <2>1
    <2>4. ASSUME NEW n \in 0 .. m PROVE g[n] = Round(bm, g[n - 1], n)
      <3>1. CASE n = m
        <4>1. g[m - 1] = f[m - 1]
          BY <1>3, <1>5, <2>1, <2>3
        <4> QED BY <1>3, <3>1, <4>1
      <3>2. CASE n # m /\ n # 0
        <4>1. n \in 0 .. m - 1 /\ n - 1 \in 0 .. m - 1
          BY <1>3, <3>2
        <4>2. f[n] = Round(bm, f[n - 1], n)
          BY <2>2, <4>1 DEF Rounds
        <4> HIDE DEF g
        <4> QED BY <2>3, <4>1, <4>2
      <3>3. CASE n = 0 /\ n # m
        <4>1. n \in 0 .. m - 1
          BY <1>3, <3>3
        <4>2. f[n] = Round(bm, f[n - 1], n)
          BY <2>2, <4>1 DEF Rounds
        <4> HIDE DEF g
        <4> QED BY <2>3, <3>3, <4>1, <4>2 DEF Round
      <3> QED BY <3>1, <3>2, <3>3
    <2>5. g = [n \in 0 .. m |-> g[n]]
      OBVIOUS
    <2> HIDE DEF g
    <2>6. Rounds(bm, m, g)
      BY <2>4, <2>5 DEF Rounds
    <2> QED BY <1>3, <2>6
  <1> QED BY <1>3, <1>4, <1>5

(* What getNAvailableBlocks finds is what the last round leaves. *)
LEMMA FoundInRounds ==
    ASSUME NEW bm, NEW last, last = ByteCount * ByteWidth
    PROVE  \E f : Rounds(bm, last, f) /\ blocksFound(bm) = f[last]
  <1>1. last \in Nat
    BY ByteWidthAssumption, BlocksAssumption DEF ByteCount
  <1> DEFINE f == CHOOSE g : Rounds(bm, last, g)
  <1>2. Rounds(bm, last, f)
    BY <1>1, RoundsExist
  <1>3. blocksFound(bm) = f[last]
    BY DEF blocksFound, Rounds, Round
  <1> QED BY <1>2, <1>3

(* The blocks in S, in order. *)
Lists(s, S) ==
    /\ s \in Seq(Nat)
    /\ \A i, j \in 1 .. Len(s) : i < j => s[i] < s[j]
    /\ S = {s[i] : i \in 1 .. Len(s)}

(* The number that is higher than all others comes last. *)
LEMMA OneMore ==
    ASSUME NEW s, NEW S, Lists(s, S), NEW n \in Nat, \A x \in S : x < n
    PROVE  Lists(Append(s, n), S \union {n})
  <1> DEFINE t == Append(s, n)
  <1>1. /\ t \in Seq(Nat) /\ Len(s) \in Nat /\ Len(t) = Len(s) + 1
        /\ t[Len(s) + 1] = n /\ \A i \in 1 .. Len(s) : t[i] = s[i] /\ s[i] \in Nat /\ s[i] \in S
    BY DEF Lists
  <1> HIDE DEF t
  <1>2. ASSUME NEW i \in 1 .. Len(t), NEW j \in 1 .. Len(t), i < j PROVE t[i] < t[j]
    <2>1. i \in 1 .. Len(s) /\ t[i] = s[i] /\ s[i] < n
      BY <1>1, <1>2
    <2>2. CASE j = Len(s) + 1
      BY <1>1, <2>1, <2>2
    <2>3. CASE j # Len(s) + 1
      <3>1. j \in 1 .. Len(s) /\ t[j] = s[j]
        BY <1>1, <1>2, <2>3
      <3> QED BY <1>2, <2>1, <3>1 DEF Lists
    <2> QED BY <2>2, <2>3
  <1>3. S \union {n} = {t[i] : i \in 1 .. Len(t)}
    <2>1. 1 .. Len(t) = (1 .. Len(s)) \union {Len(s) + 1}
      BY <1>1
    <2>2. S = {t[i] : i \in 1 .. Len(s)}
      BY <1>1 DEF Lists
    <2> QED BY <1>1, <2>1, <2>2
  <1> QED BY <1>1, <1>2, <1>3 DEF Lists, t

(* After n rounds the blocks below n that are available are found, in      *)
(* order: were there a number for which they are not, take the least.      *)
LEMMA RoundsFindLowest ==
    ASSUME TypeOK, NEW last, last = ByteCount * ByteWidth, NEW f, Rounds(bitmap, last, f),
           NEW k \in 0 .. last
    PROVE  Lists(f[k], {b \in Available : b < k})
  <1> DEFINE below(n) == {b \in Available : b < n}
  <1> DEFINE bad == {n \in 0 .. last : ~Lists(f[n], below(n))}
  <1>1. ByteWidth \in Nat /\ ByteWidth > 0 /\ ByteCount \in Nat /\ last \in Nat
    BY ByteWidthAssumption, BlocksAssumption DEF ByteCount
  <1>2. SUFFICES ASSUME bad # {} PROVE FALSE
    OBVIOUS
  <1> DEFINE m == Lowest(bad)
  <1>3. m \in bad /\ \A n \in bad : m <= n
    <2>1. bad \subseteq Nat
      BY <1>1
    <2> HIDE DEF bad
    <2> QED BY <1>2, <2>1, LowestExists
  <1>4. m \in 0 .. last /\ ~Lists(f[m], below(m))
    BY <1>3
  <1> HIDE DEF m
  <1>5. f[m] = Round(bitmap, f[m - 1], m)
    BY <1>4 DEF Rounds
  <1>6. Available \subseteq Nat
    BY <1>1 DEF Available, Bitmapped
  <1>7. CASE m = 0
    <2>1. below(m) = {}
      <3> HIDE DEF bad
      <3>1. \A x \in Available : ~(x < 0)
        BY <1>6
      <3> QED BY <1>7, <3>1, Zenon
    <2>2. f[m] = << >>
      <3> HIDE DEF bad, below
      <3> QED BY <1>5, <1>7 DEF Round
    <2>3. Lists(<< >>, {})
      BY DEF Lists
    <2> HIDE DEF below
    <2> QED BY <1>4, <2>1, <2>2, <2>3
  <1>8. CASE m # 0
    <2> DEFINE b == m - 1
    <2> DEFINE y == b \div ByteWidth
    <2> DEFINE x == b % ByteWidth
    <2>1. b \in 0 .. last /\ b \in Nat /\ b < m /\ b \notin bad
      <3>1. b \in 0 .. last /\ b \in Nat /\ b < m
        BY <1>1, <1>4, <1>8
      <3> HIDE DEF bad
      <3>2. b \notin bad
        BY <1>3, <1>4, <3>1
      <3> QED BY <3>1, <3>2
    <2>2. Lists(f[b], below(b))
      BY <2>1
    <2>3. b \in Bitmapped
      BY <1>1, <1>4, <2>1 DEF Bitmapped
    <2>4. y \in Nat /\ x \in Bits /\ b = ByteWidth * y + x
      BY <2>1, Division
    <2>5. y = byteThatStoresBit(b) /\ x = bitOfBlock(b)
      <3> DEFINE p == byteThatStoresBit(b)
      <3> DEFINE r == bitOfBlock(b)
      <3>1. p \in Nat /\ r \in Bits /\ b = ByteWidth * p + r
        BY <1>1, <2>3, Located DEF Bytes
      <3> HIDE DEF b, y, x, p, r
      <3>2. ByteWidth * y + x = ByteWidth * p + r
        BY <2>4, <3>1
      <3>3. y = p /\ x = r
        BY <2>4, <3>1, <3>2, DivisionUnique
      <3> QED BY <3>3 DEF p, r
    <2>6. f[m] = IF x \in bitmap[y] THEN f[b] ELSE Append(f[b], b)
      <3>1. f[m] = IF isBitSetInByte(bitmap[y], x) THEN f[b] ELSE Append(f[b], x + ByteWidth * y)
        BY <1>5, <1>8 DEF Round
      <3>2. x + ByteWidth * y = b
        <4> HIDE DEF y, x, b
        <4>1. x \in Nat /\ ByteWidth * y \in Nat
          BY <1>1, <2>4 DEF Bits
        <4> QED BY <2>1, <2>4, <4>1
      <3> HIDE DEF y, x, b
      <3> QED BY <3>1, <3>2 DEF isBitSetInByte
    <2>7. x \in bitmap[y] <=> b \notin Available
      <3> HIDE DEF y, x, b
      <3> QED BY <2>3, <2>5, InUseByBit DEF Available
    <2>8. \A a \in Available : a < m <=> a < b \/ a = b
      BY <1>1, <1>4, <1>6, <1>8
    <2> HIDE DEF b, y, x
    <2>9. CASE b \in Available
      <3>1. below(m) = below(b) \union {b} /\ \A a \in below(b) : a < b
        BY <2>8, <2>9
      <3> HIDE DEF below
      <3>2. Lists(Append(f[b], b), below(b) \union {b})
        BY <2>1, <2>2, <3>1, OneMore
      <3> QED BY <1>4, <2>6, <2>7, <2>9, <3>1, <3>2
    <2>10. CASE b \notin Available
      <3>1. below(m) = below(b)
        BY <2>8, <2>10
      <3> HIDE DEF below
      <3> QED BY <1>4, <2>2, <2>6, <2>7, <2>10, <3>1
    <2> QED BY <2>9, <2>10
  <1> QED BY <1>7, <1>8

(* In a list each is the lowest of those that come with it or after it,    *)
(* and there are as many as it is long.                                    *)
LEMMA ListsLowest ==
    ASSUME NEW s, NEW S, Lists(s, S)
    PROVE  /\ IsFiniteSet(S) /\ Cardinality(S) = Len(s) /\ Len(s) \in Nat
           /\ \A i \in 1 .. Len(s) : s[i] = Lowest(S \ {s[j] : j \in 1 .. i - 1})
  <1>1. /\ s \in Seq(Nat) /\ Len(s) \in Nat
        /\ \A i \in 1 .. Len(s) : s[i] \in Nat
        /\ \A i, j \in 1 .. Len(s) : i < j => s[i] < s[j]
        /\ S = {s[i] : i \in 1 .. Len(s)}
    BY DEF Lists
  <1>2. \A i, j \in 1 .. Len(s) : s[i] = s[j] => i = j
    BY <1>1
  <1>3. IsFiniteSet(S) /\ Cardinality(S) = Len(s)
    <2>1. /\ IsFiniteSet(1 .. Len(s))
          /\ Cardinality(1 .. Len(s)) = IF 1 > Len(s) THEN 0 ELSE Len(s) - 1 + 1
      BY <1>1, FS_Interval
    <2> DEFINE g == [i \in 1 .. Len(s) |-> s[i]]
    <2>2. g \in Bijection(1 .. Len(s), S)
      <3>1. /\ DOMAIN g = 1 .. Len(s) /\ g = [i \in 1 .. Len(s) |-> g[i]]
            /\ \A i \in 1 .. Len(s) : g[i] = s[i] /\ g[i] \in S
        BY <1>1
      <3>2. \A i, j \in 1 .. Len(s) : g[i] = g[j] => i = j
        BY <1>2
      <3>3. \A x \in S : \E i \in 1 .. Len(s) : g[i] = x
        BY <1>1
      <3> HIDE DEF g
      <3> QED BY <3>1, <3>2, <3>3, Zenon DEF Bijection, Injection, Surjection, IsInjective
    <2>3. ExistsBijection(1 .. Len(s), S)
      BY <2>2 DEF ExistsBijection
    <2>4. IsFiniteSet(S) /\ Cardinality(S) = Cardinality(1 .. Len(s))
      BY <2>1, <2>3, FS_Bijection
    <2> QED BY <1>1, <2>1, <2>4
  <1>4. ASSUME NEW i \in 1 .. Len(s) PROVE s[i] = Lowest(S \ {s[j] : j \in 1 .. i - 1})
    <2> DEFINE rest == S \ {s[j] : j \in 1 .. i - 1}
    <2>1. s[i] \in rest
      <3>1. \A j \in 1 .. i - 1 : j \in 1 .. Len(s) /\ j # i
        BY <1>1
      <3> QED BY <1>1, <1>2, <3>1
    <2>2. ASSUME NEW x \in rest PROVE s[i] <= x /\ x \in Nat
      <3>1. PICK j \in 1 .. Len(s) : x = s[j]
        BY <1>1
      <3>2. ~(j < i)
        BY <1>1, <3>1
      <3> QED BY <1>1, <3>1, <3>2
    <2> HIDE DEF rest
    <2>3. \A m \in rest : (\A x \in rest : m <= x) => m = s[i]
      BY <1>1, <2>1, <2>2
    <2> QED BY <2>1, <2>2, <2>3 DEF Lowest, rest
  <1> QED BY <1>1, <1>3, <1>4

(* getNAvailableBlocks gives the lowest blocks that are available, in      *)
(* order, and zeros for those that are not (DetailKnoxCrypt.hpp:359-392).  *)
THEOREM ScanForManyCorrect == Spec => []NAvailableAreLowest
  <1>1. ASSUME TypeOK PROVE NAvailableAreLowest
    <2> DEFINE found == blocksFound(bitmap)
    <2> DEFINE last == ByteCount * ByteWidth
    <2>1. last \in Nat
      BY ByteWidthAssumption, BlocksAssumption DEF ByteCount
    <2>2. Lists(found, Available)
      <3>1. PICK f : Rounds(bitmap, last, f) /\ found = f[last]
        BY FoundInRounds
      <3>2. last \in 0 .. last /\ {b \in Available : b < last} = Available
        BY <2>1 DEF Available, Bitmapped
      <3>3. Lists(f[last], {b \in Available : b < last})
        BY <1>1, <3>1, <3>2, RoundsFindLowest
      <3> HIDE DEF found, last
      <3> QED BY <3>1, <3>2, <3>3
    <2> HIDE DEF found, last
    <2>3. /\ IsFiniteSet(Available) /\ Cardinality(Available) = Len(found) /\ Len(found) \in Nat
          /\ \A i \in 1 .. Len(found) : found[i] = Lowest(Available \ {found[j] : j \in 1 .. i - 1})
      BY <2>2, ListsLowest
    <2>4. ASSUME NEW n \in 1 .. Blocks,
                 NEW result, result = getNAvailableBlocks(bitmap, n),
                 NEW k, k = IF n <= Cardinality(Available) THEN n ELSE Cardinality(Available)
          PROVE  /\ Len(result) = n
                 /\ \A i \in 1 .. k : result[i] = Lowest(Available \ {result[j] : j \in 1 .. i - 1})
                 /\ \A i \in k + 1 .. n : result[i] = 0
      <3>1. result = [i \in 1 .. n |-> IF i <= Len(found) THEN found[i] ELSE 0]
        BY <2>4 DEF getNAvailableBlocks, found
      <3>2. n \in Nat /\ k \in Nat /\ k <= n /\ k <= Len(found) /\ (k = n \/ k = Len(found))
        BY <2>3, <2>4, BlocksAssumption
      <3>3. Len(result) = n
        BY <3>1, <3>2
      <3>4. \A i \in 1 .. k : result[i] = found[i]
        BY <2>3, <3>1, <3>2
      <3>5. ASSUME NEW i \in 1 .. k
            PROVE  result[i] = Lowest(Available \ {result[j] : j \in 1 .. i - 1})
        <4>1. {result[j] : j \in 1 .. i - 1} = {found[j] : j \in 1 .. i - 1}
          <5>1. \A j \in 1 .. i - 1 : result[j] = found[j]
            BY <3>2, <3>4
          <5> QED BY <5>1
        <4>2. i \in 1 .. Len(found)
          BY <2>3, <3>2
        <4> QED BY <2>3, <3>4, <4>1, <4>2
      <3>6. \A i \in k + 1 .. n : result[i] = 0
        BY <2>3, <3>1, <3>2
      <3> QED BY <3>3, <3>5, <3>6
    <2> QED BY <2>4 DEF NAvailableAreLowest
  <1> QED BY <1>1, BytesCorrect, PTL
=============================================================================
