-------------------------- MODULE FuseLayerProofs --------------------------
(***************************************************************************)
(* What the file system keeps under every sequence of FUSE callbacks, for  *)
(* every set of names and of blocks, paths and files of every size and any *)
(* number of callbacks, as long as none of the calls of Misuse is made     *)
(* that breaks it; each theorem names those it excludes.                   *)
(*                                                                         *)
(* The image is a tree: no two entries lead to one block, and every block  *)
(* that is allocated has a path.  Each operation changes what is at the    *)
(* paths in one way (a path more, a subtree gone, a subtree elsewhere),    *)
(* and the caches are compared with what is at the paths.                  *)
(***************************************************************************)
EXTENDS FuseLayer, SequenceTheorems, WellFoundedInduction, TLAPS

-----------------------------------------------------------------------------
(* Paths.                                                                  *)

(* A set with 0 and with the next of each of its numbers has all of them.  *)
LEMMA Counting ==
    ASSUME NEW S, 0 \in S, \A k \in Nat : k \in S => k + 1 \in S
    PROVE  Nat \subseteq S
<1> DEFINE Less == {p \in Nat \X Nat : p[1] < p[2]}
<1> DEFINE bad == Nat \ S
<1>1. IsWellFoundedOn(Less, Nat)
    BY NatLessThanWellFounded DEF OpToRel
<1>2. SUFFICES ASSUME bad # {} PROVE FALSE
    OBVIOUS
<1>3. bad \subseteq Nat
    OBVIOUS
<1>4. PICK m \in bad : \A y \in bad : ~(<<y, m>> \in Less)
    <2> HIDE DEF Less, bad
    <2> QED BY <1>1, <1>2, <1>3, WFMin
<1>5. m - 1 \in Nat /\ m \in Nat /\ (m - 1) + 1 = m
    BY <1>4
<1>6. m - 1 \in bad
    BY <1>4, <1>5
<1>7. <<m - 1, m>> \in Less
    BY <1>5
<1> QED BY <1>4, <1>6, <1>7, Zenon

(* A path is what it ends in, behind what is in front of it.               *)
LEMMA FrontLast ==
    ASSUME NEW p \in Seq(Name), p # << >>
    PROVE  /\ Front(p) \in Seq(Name) /\ Last(p) \in Name
           /\ Len(p) \in Nat \ {0} /\ Len(Front(p)) = Len(p) - 1
           /\ p = Append(Front(p), Last(p))
           /\ Last(p) = p[Len(p)]
           /\ \A i \in 1 .. Len(p) - 1 : Front(p)[i] = p[i]
<1>1. Len(p) \in Nat \ {0} /\ \A i \in 1 .. Len(p) : p[i] \in Name
    BY EmptySeq, ElementOfSeq
<1>2. \A i \in 1 .. Len(p) - 1 : p[i] \in Name
    BY <1>1
<1>3. /\ Front(p) \in Seq(Name) /\ Len(Front(p)) = Len(p) - 1
      /\ \A i \in 1 .. Len(p) - 1 : Front(p)[i] = p[i]
  <2>1. 1 \in Int /\ Len(p) - 1 \in Int
    BY <1>1
  <2>2. Front(p) = SubSeq(p, 1, Len(p) - 1)
    BY DEF Front
  <2> DEFINE n == Len(p) - 1
  <2>3. /\ SubSeq(p, 1, n) \in Seq(Name)
        /\ Len(SubSeq(p, 1, n)) = IF 1 <= n THEN n - 1 + 1 ELSE 0
        /\ \A i \in 1 .. n - 1 + 1 : SubSeq(p, 1, n)[i] = p[1 + i - 1]
    <3>1. n \in Int /\ \A i \in 1 .. n : p[i] \in Name
      BY <1>2, <2>1
    <3> HIDE DEF n
    <3> QED BY <3>1, <2>1, SubSeqProperties
  <2>4. n = Len(p) - 1 /\ n \in Nat /\ Front(p) = SubSeq(p, 1, n)
    BY <1>1, <2>2
  <2> HIDE DEF n
  <2>5. \A i \in 1 .. n : Front(p)[i] = p[i]
    BY <2>3, <2>4
  <2>6. Len(Front(p)) = n
    BY <2>3, <2>4
  <2> QED BY <2>3, <2>4, <2>5, <2>6
<1>4. Last(p) \in Name /\ Last(p) = p[Len(p)]
    BY <1>1 DEF Last
<1>5. Append(Front(p), Last(p)) = p
  <2> DEFINE q == Append(Front(p), Last(p))
  <2>1. /\ q \in Seq(Name) /\ Len(q) = Len(Front(p)) + 1
        /\ \A i \in 1 .. Len(Front(p)) : q[i] = Front(p)[i]
        /\ q[Len(Front(p)) + 1] = Last(p)
    BY <1>3, <1>4, AppendProperties
  <2>2. Len(q) = Len(p) /\ \A i \in 1 .. Len(q) : q[i] = p[i]
    BY <1>1, <1>3, <1>4, <2>1
  <2> HIDE DEF q
  <2> QED BY <2>1, <2>2, SeqEqual DEF q
<1> QED BY <1>1, <1>3, <1>4, <1>5

LEMMA AppendFront ==
    ASSUME NEW p \in Seq(Name), NEW n \in Name
    PROVE  /\ Append(p, n) \in Seq(Name) /\ Append(p, n) # << >>
           /\ Len(Append(p, n)) = Len(p) + 1
           /\ Front(Append(p, n)) = p /\ Last(Append(p, n)) = n
<1> DEFINE q == Append(p, n)
<1>1. q \in Seq(Name) /\ q # << >> /\ Len(q) = Len(p) + 1
    BY AppendProperties
<1>2. /\ Front(q) \in Seq(Name) /\ Last(q) \in Name
      /\ q = Append(Front(q), Last(q))
    <2> HIDE DEF q
    <2> QED BY <1>1, FrontLast
<1>3. Front(q) = p /\ Last(q) = n
  <2> SUFFICES ASSUME NEW f, NEW l, f = Front(q), l = Last(q) PROVE f = p /\ l = n
    OBVIOUS
  <2>1. f \in Seq(Name) /\ l \in Name /\ Append(p, n) = Append(f, l)
    BY <1>2
  <2>2. /\ Len(Append(p, n)) = Len(p) + 1 /\ Append(p, n)[Len(p) + 1] = n
        /\ \A i \in 1 .. Len(p) : Append(p, n)[i] = p[i]
    BY AppendProperties
  <2>3. /\ Len(Append(f, l)) = Len(f) + 1 /\ Append(f, l)[Len(f) + 1] = l
        /\ \A i \in 1 .. Len(f) : Append(f, l)[i] = f[i]
    BY <2>1, AppendProperties
  <2>4. Len(p) \in Nat /\ Len(f) \in Nat
    BY <2>1, LenProperties
  <2>5. Len(p) = Len(f) /\ n = l /\ \A i \in 1 .. Len(p) : p[i] = f[i]
    BY <2>1, <2>2, <2>3, <2>4
  <2> QED BY <2>1, <2>5, SeqEqual
<1> QED BY <1>1, <1>3

(* A set with the root's path, and with each path of which it has the      *)
(* front, has them all.                                                    *)
LEMMA PathInduction ==
    ASSUME NEW S, << >> \in S, \A p \in Seq(Name) : p # << >> /\ Front(p) \in S => p \in S
    PROVE  Seq(Name) \subseteq S
<1> DEFINE long == {k \in Nat : \A p \in Seq(Name) : Len(p) = k => p \in S}
<1>1. 0 \in long
    BY EmptySeq
<1>2. ASSUME NEW k \in Nat, k \in long PROVE k + 1 \in long
  <2> SUFFICES ASSUME NEW p \in Seq(Name), Len(p) = k + 1 PROVE p \in S
    OBVIOUS
  <2>1. p # << >>
    BY EmptySeq
  <2>2. Front(p) \in Seq(Name) /\ Len(Front(p)) = k
    BY <2>1, FrontLast
  <2> QED BY <1>2, <2>1, <2>2
<1>3. Nat \subseteq long
    <2> HIDE DEF long
    <2> QED BY <1>1, <1>2, Counting
<1> QED BY <1>3, LenProperties

(* The paths that are modelled: those of 1 to MaxDepth names.              *)
LEMMA PathIs == Path = {p \in Seq(Name) : Len(p) \in 1 .. MaxDepth}
<1>1. MaxDepth \in Nat \ {0}
    BY CoreAssumption
<1>2. ASSUME NEW p \in Path PROVE p \in Seq(Name) /\ Len(p) \in 1 .. MaxDepth
  <2>1. PICK n \in 0 .. MaxDepth : p \in [1 .. n -> Name]
    BY DEF Path, SeqOf
  <2>2. p \in Seq(Name) /\ Len(p) = n
    BY <1>1, <2>1
  <2>3. p # << >>
    BY DEF Path
  <2> QED BY <1>1, <2>2, <2>3, EmptySeq
<1>3. ASSUME NEW p \in Seq(Name), Len(p) \in 1 .. MaxDepth PROVE p \in Path
  <2>1. p \in [1 .. Len(p) -> Name] /\ Len(p) \in 0 .. MaxDepth /\ p # << >>
    BY <1>1, <1>3, LenProperties
  <2> QED BY <2>1 DEF Path, SeqOf
<1> QED BY <1>2, <1>3

(* A path above or at another one has the same names, as far as it goes.   *)
LEMMA PrefixIs ==
    ASSUME NEW p \in Seq(Name), NEW q \in Seq(Name)
    PROVE  IsPrefix(p, q) <=> Len(p) <= Len(q) /\ \A i \in 1 .. Len(p) : p[i] = q[i]
<1>1. Len(p) \in Nat /\ Len(q) \in Nat
    BY LenProperties
<1>2. SubSeq(p, 1, Len(p)) = p
    BY SubSeqFull
<1>3. ASSUME Len(p) <= Len(q)
      PROVE  SubSeq(q, 1, Len(p)) = p <=> \A i \in 1 .. Len(p) : p[i] = q[i]
  <2> DEFINE n == Len(p)
  <2>1. n \in Int /\ \A i \in 1 .. n : q[i] \in Name
    BY <1>1, <1>3, ElementOfSeq
  <2>2. /\ SubSeq(q, 1, n) \in Seq(Name)
        /\ Len(SubSeq(q, 1, n)) = IF 1 <= n THEN n - 1 + 1 ELSE 0
        /\ \A i \in 1 .. n - 1 + 1 : SubSeq(q, 1, n)[i] = q[1 + i - 1]
    <3> HIDE DEF n
    <3> QED BY <2>1, SubSeqProperties
  <2>3. /\ Len(SubSeq(q, 1, n)) = Len(p)
        /\ \A i \in 1 .. Len(p) : SubSeq(q, 1, n)[i] = q[i]
    BY <1>1, <2>2
  <2>4. n = Len(p)
    OBVIOUS
  <2> HIDE DEF n
  <2>5. ASSUME \A i \in 1 .. Len(p) : p[i] = q[i] PROVE SubSeq(q, 1, n) = p
    BY <2>2, <2>3, <2>5, SeqEqual
  <2> QED BY <2>3, <2>4, <2>5
<1> QED BY <1>1, <1>2, <1>3 DEF IsPrefix

LEMMA PrefixOrder ==
    ASSUME NEW p \in Seq(Name), NEW q \in Seq(Name)
    PROVE  /\ IsPrefix(p, p) /\ IsPrefix(<< >>, p)
           /\ IsPrefix(p, q) => Len(p) \in Nat /\ Len(q) \in Nat /\ Len(p) <= Len(q)
           /\ IsPrefix(p, q) /\ Len(q) <= Len(p) => p = q
           /\ IsPrefix(p, << >>) => p = << >>
<1>1. Len(p) \in Nat /\ Len(q) \in Nat /\ << >> \in Seq(Name) /\ Len(<< >>) = 0
    BY LenProperties, EmptySeq
<1>2. IsPrefix(p, p)
    BY <1>1, PrefixIs
<1>3. IsPrefix(<< >>, p)
  <2> SUFFICES ASSUME NEW e \in Seq(Name), Len(e) = 0 PROVE IsPrefix(e, p)
    BY <1>1
  <2>1. Len(e) <= Len(p) /\ \A i \in 1 .. Len(e) : e[i] = p[i]
    BY <1>1
  <2> QED BY <2>1, PrefixIs
<1>4. IsPrefix(p, q) => Len(p) <= Len(q) /\ \A i \in 1 .. Len(p) : p[i] = q[i]
    BY PrefixIs
<1>5. IsPrefix(p, q) /\ Len(q) <= Len(p) => p = q
  <2> SUFFICES ASSUME IsPrefix(p, q), Len(q) <= Len(p) PROVE p = q
    OBVIOUS
  <2>1. Len(p) = Len(q)
    BY <1>1, <1>4
  <2> QED BY <1>4, <2>1, SeqEqual
<1>6. IsPrefix(p, << >>) => p = << >>
  <2>1. IsPrefix(p, << >>) => Len(p) <= Len(<< >>)
    BY <1>1, PrefixIs
  <2> QED BY <1>1, <2>1, EmptySeq
<1> QED BY <1>1, <1>2, <1>3, <1>4, <1>5, <1>6

LEMMA PrefixTransitive ==
    ASSUME NEW p \in Seq(Name), NEW q \in Seq(Name), NEW r \in Seq(Name),
           IsPrefix(p, q), IsPrefix(q, r)
    PROVE  IsPrefix(p, r)
<1>1. Len(p) \in Nat /\ Len(q) \in Nat /\ Len(r) \in Nat
    BY LenProperties
<1>2. Len(p) <= Len(q) /\ \A i \in 1 .. Len(p) : p[i] = q[i]
    BY PrefixIs
<1>3. Len(q) <= Len(r) /\ \A i \in 1 .. Len(q) : q[i] = r[i]
    BY PrefixIs
<1>4. Len(p) <= Len(r) /\ \A i \in 1 .. Len(p) : p[i] = r[i]
    BY <1>1, <1>2, <1>3
<1> QED BY <1>4, PrefixIs

(* What is below a path is below it a step further up.                     *)
LEMMA PrefixFront ==
    ASSUME NEW p \in Seq(Name), NEW q \in Seq(Name), q # << >>
    PROVE  /\ IsPrefix(p, Front(q)) => IsPrefix(p, q) /\ p # q
           /\ IsPrefix(p, q) /\ p # q => IsPrefix(p, Front(q))
           /\ IsPrefix(Front(q), q) /\ ~IsPrefix(q, Front(q))
<1>1. /\ Front(q) \in Seq(Name) /\ Len(q) \in Nat \ {0} /\ Len(Front(q)) = Len(q) - 1
      /\ \A i \in 1 .. Len(q) - 1 : Front(q)[i] = q[i]
    BY FrontLast
<1>2. Len(p) \in Nat
    BY LenProperties
<1>3. IsPrefix(Front(q), q) /\ ~IsPrefix(q, Front(q))
  <2>1. Len(Front(q)) <= Len(q) /\ ~(Len(q) <= Len(Front(q)))
        /\ \A i \in 1 .. Len(Front(q)) : Front(q)[i] = q[i]
    BY <1>1
  <2> QED BY <1>1, <2>1, PrefixIs
<1>4. ASSUME IsPrefix(p, Front(q)) PROVE IsPrefix(p, q) /\ p # q
    BY <1>1, <1>3, <1>4, PrefixTransitive
<1>5. ASSUME IsPrefix(p, q), p # q PROVE IsPrefix(p, Front(q))
  <2>1. Len(p) <= Len(q) /\ (\A i \in 1 .. Len(p) : p[i] = q[i]) /\ ~(Len(q) <= Len(p))
    BY <1>5, PrefixIs, PrefixOrder
  <2>2. Len(p) <= Len(Front(q)) /\ \A i \in 1 .. Len(p) : p[i] = Front(q)[i]
    BY <1>1, <1>2, <2>1
  <2> QED BY <1>1, <2>2, PrefixIs
<1> QED BY <1>3, <1>4, <1>5

(* A path below src, when what is at src has been moved to dst.            *)
Moved(src, dst, q) == dst \o SubSeq(q, Len(src) + 1, Len(q))

(* The names of the path moved: those of dst, and then those behind src.   *)
LEMMA MovedIs ==
    ASSUME NEW src \in Seq(Name), NEW dst \in Seq(Name), NEW q \in Seq(Name), IsPrefix(src, q)
    PROVE  /\ Moved(src, dst, q) \in Seq(Name)
           /\ Len(src) \in Nat /\ Len(dst) \in Nat /\ Len(q) \in Nat /\ Len(src) <= Len(q)
           /\ Len(Moved(src, dst, q)) = Len(dst) + (Len(q) - Len(src))
           /\ \A i \in 1 .. Len(dst) : Moved(src, dst, q)[i] = dst[i]
           /\ \A i \in Len(dst) + 1 .. Len(dst) + (Len(q) - Len(src)) :
                Moved(src, dst, q)[i] = q[i - Len(dst) + Len(src)]
<1>1. Len(src) \in Nat /\ Len(dst) \in Nat /\ Len(q) \in Nat /\ Len(src) <= Len(q)
    BY LenProperties, PrefixOrder
<1> DEFINE m == Len(src) + 1
<1> DEFINE n == Len(q)
<1> DEFINE tail == SubSeq(q, m, n)
<1>2. m \in Int /\ n \in Int /\ (\A i \in m .. n : q[i] \in Name) /\ m = Len(src) + 1 /\ n = Len(q)
    BY <1>1, ElementOfSeq
<1>3. /\ tail \in Seq(Name) /\ Len(tail) = IF m <= n THEN n - m + 1 ELSE 0
      /\ \A i \in 1 .. n - m + 1 : tail[i] = q[m + i - 1]
    <2> HIDE DEF m, n
    <2> QED BY <1>2, SubSeqProperties
<1>4. Moved(src, dst, q) = dst \o tail
    BY DEF Moved
<1> HIDE DEF m, n, tail
<1>5. /\ tail \in Seq(Name) /\ Len(tail) = Len(q) - Len(src)
      /\ \A i \in 1 .. Len(tail) : tail[i] = q[Len(src) + i]
  <2>1. Len(tail) = Len(q) - Len(src) /\ n - m + 1 = Len(q) - Len(src)
    BY <1>1, <1>2, <1>3
  <2>2. ASSUME NEW i \in 1 .. Len(tail) PROVE tail[i] = q[Len(src) + i]
    <3>1. i \in 1 .. n - m + 1 /\ m + i - 1 = Len(src) + i
      BY <1>1, <1>2, <2>1
    <3> QED BY <1>3, <3>1
  <2> QED BY <1>3, <2>1, <2>2
<1>6. /\ dst \o tail \in Seq(Name)
      /\ Len(dst \o tail) = Len(dst) + Len(tail)
      /\ \A i \in 1 .. Len(dst) + Len(tail) :
            (dst \o tail)[i] = IF i <= Len(dst) THEN dst[i] ELSE tail[i - Len(dst)]
    BY <1>5, ConcatProperties
<1> SUFFICES ASSUME NEW w, w = dst \o tail
             PROVE  /\ w \in Seq(Name) /\ Len(w) = Len(dst) + (Len(q) - Len(src))
                    /\ \A i \in 1 .. Len(dst) : w[i] = dst[i]
                    /\ \A i \in Len(dst) + 1 .. Len(dst) + (Len(q) - Len(src)) :
                        w[i] = q[i - Len(dst) + Len(src)]
    BY <1>1, <1>4
<1>7. w \in Seq(Name) /\ Len(w) = Len(dst) + (Len(q) - Len(src))
    BY <1>5, <1>6
<1>8. \A i \in 1 .. Len(dst) : w[i] = dst[i]
    BY <1>1, <1>5, <1>6
<1>9. ASSUME NEW i \in Len(dst) + 1 .. Len(dst) + (Len(q) - Len(src))
      PROVE  w[i] = q[i - Len(dst) + Len(src)]
  <2>1. i - Len(dst) \in 1 .. Len(tail) /\ i \in 1 .. Len(dst) + Len(tail) /\ ~(i <= Len(dst))
    BY <1>1, <1>5
  <2>2. w[i] = tail[i - Len(dst)]
    BY <1>6, <2>1
  <2>3. tail[i - Len(dst)] = q[Len(src) + (i - Len(dst))]
    BY <1>5, <2>1
  <2>4. Len(src) + (i - Len(dst)) = i - Len(dst) + Len(src)
    BY <1>1
  <2> QED BY <2>2, <2>3, <2>4
<1> QED BY <1>7, <1>8, <1>9

LEMMA MovedFront ==
    ASSUME NEW src \in Seq(Name), NEW dst \in Seq(Name), NEW q \in Seq(Name), IsPrefix(src, q)
    PROVE  /\ IsPrefix(dst, Moved(src, dst, q))
           /\ q = src => Moved(src, dst, q) = dst
           /\ q # src => /\ Moved(src, dst, q) # << >> /\ Moved(src, dst, q) # dst
                         /\ Front(Moved(src, dst, q)) = Moved(src, dst, Front(q))
                         /\ Last(Moved(src, dst, q)) = Last(q)
<1> DEFINE w == Moved(src, dst, q)
<1> DEFINE behind == Len(q) - Len(src)
<1>1. /\ w \in Seq(Name)
      /\ Len(src) \in Nat /\ Len(dst) \in Nat /\ Len(q) \in Nat /\ Len(src) <= Len(q)
      /\ Len(w) = Len(dst) + behind
      /\ \A i \in 1 .. Len(dst) : w[i] = dst[i]
      /\ \A i \in Len(dst) + 1 .. Len(dst) + behind : w[i] = q[i - Len(dst) + Len(src)]
    BY MovedIs
<1> HIDE DEF w
<1>2. IsPrefix(dst, w)
  <2>1. Len(dst) <= Len(w) /\ \A i \in 1 .. Len(dst) : dst[i] = w[i]
    BY <1>1
  <2> QED BY <1>1, <2>1, PrefixIs
<1>3. q = src => w = dst
  <2> SUFFICES ASSUME q = src PROVE w = dst
    OBVIOUS
  <2>1. Len(w) = Len(dst)
    BY <1>1
  <2> QED BY <1>1, <2>1, SeqEqual
<1>4. ASSUME q # src
      PROVE  w # << >> /\ w # dst /\ Front(w) = Moved(src, dst, Front(q)) /\ Last(w) = Last(q)
  <2>1. Len(q) > Len(src) /\ q # << >>
    BY <1>1, <1>4, PrefixOrder
  <2>2. w # << >> /\ w # dst
    BY <1>1, <2>1, EmptySeq
  <2>3. /\ Front(q) \in Seq(Name) /\ Len(Front(q)) = Len(q) - 1 /\ Last(q) = q[Len(q)]
        /\ \A i \in 1 .. Len(q) - 1 : Front(q)[i] = q[i]
    BY <2>1, FrontLast
  <2>4. /\ Front(w) \in Seq(Name) /\ Len(Front(w)) = Len(w) - 1 /\ Last(w) = w[Len(w)]
        /\ \A i \in 1 .. Len(w) - 1 : Front(w)[i] = w[i]
    BY <1>1, <2>2, FrontLast
  <2>5. IsPrefix(src, Front(q))
    BY <1>4, <2>1, PrefixFront
  <2> DEFINE u == Moved(src, dst, Front(q))
  <2>6. /\ u \in Seq(Name) /\ Len(u) = Len(dst) + (Len(Front(q)) - Len(src))
        /\ \A i \in 1 .. Len(dst) : u[i] = dst[i]
        /\ \A i \in Len(dst) + 1 .. Len(dst) + (Len(Front(q)) - Len(src)) :
                u[i] = Front(q)[i - Len(dst) + Len(src)]
    BY <2>3, <2>5, MovedIs
  <2> HIDE DEF u
  <2>7. Len(u) = Len(Front(w))
    BY <1>1, <2>3, <2>4, <2>6
  <2>8. ASSUME NEW i \in 1 .. Len(u) PROVE u[i] = Front(w)[i]
    <3>1. Front(w)[i] = w[i] /\ i \in Nat
      BY <1>1, <2>1, <2>4, <2>7, <2>6
    <3>2. CASE i <= Len(dst)
      <4>1. i \in 1 .. Len(dst)
        BY <1>1, <3>1, <3>2
      <4> QED BY <1>1, <2>6, <3>1, <4>1
    <3>3. CASE ~(i <= Len(dst))
      <4> DEFINE j == i - Len(dst) + Len(src)
      <4>1. /\ i \in Len(dst) + 1 .. Len(dst) + (Len(Front(q)) - Len(src))
            /\ i \in Len(dst) + 1 .. Len(dst) + behind
            /\ j \in 1 .. Len(q) - 1
        BY <1>1, <2>1, <2>3, <2>6, <3>1, <3>3
      <4>2. u[i] = Front(q)[j] /\ w[i] = q[j]
        BY <1>1, <2>6, <4>1
      <4> QED BY <2>3, <3>1, <4>1, <4>2
    <3> QED BY <3>2, <3>3
  <2>9. Front(w) = u
    BY <2>4, <2>6, <2>7, <2>8, SeqEqual
  <2>10. Last(w) = Last(q)
    <3>1. /\ Len(w) \in Len(dst) + 1 .. Len(dst) + behind
          /\ Len(w) - Len(dst) + Len(src) = Len(q)
      BY <1>1, <2>1
    <3>2. w[Len(w)] = q[Len(q)]
      BY <1>1, <3>1
    <3> QED BY <2>3, <2>4, <3>2
  <2> QED BY <2>2, <2>9, <2>10 DEF u
<1> QED BY <1>2, <1>3, <1>4 DEF w

(* Moved back, it is where it was. *)
LEMMA MovedBack ==
    ASSUME NEW src \in Seq(Name), NEW dst \in Seq(Name), NEW q \in Seq(Name), IsPrefix(src, q)
    PROVE  Moved(dst, src, Moved(src, dst, q)) = q
<1> DEFINE back == {q2 \in Seq(Name) : IsPrefix(src, q2) => Moved(dst, src, Moved(src, dst, q2)) = q2}
<1>1. << >> \in back
  <2>1. << >> \in Seq(Name)
    BY EmptySeq
  <2>2. ASSUME IsPrefix(src, << >>) PROVE Moved(dst, src, Moved(src, dst, << >>)) = << >>
    <3>1. src = << >>
      BY <2>2, PrefixOrder, <2>1
    <3>2. Moved(src, dst, << >>) = dst
      BY <2>1, <2>2, <3>1, MovedFront
    <3>3. IsPrefix(dst, dst)
      BY PrefixOrder
    <3>4. Moved(dst, src, dst) = src
      BY <3>3, MovedFront
    <3> QED BY <3>1, <3>2, <3>4
  <2> QED BY <2>1, <2>2
<1>2. ASSUME NEW p \in Seq(Name), p # << >>, Front(p) \in back PROVE p \in back
  <2> SUFFICES ASSUME IsPrefix(src, p) PROVE Moved(dst, src, Moved(src, dst, p)) = p
    OBVIOUS
  <2>1. CASE p = src
    <3>1. Moved(src, dst, p) = dst /\ IsPrefix(dst, dst)
      BY <2>1, MovedFront, PrefixOrder
    <3> QED BY <2>1, <3>1, MovedFront
  <2>2. CASE p # src
    <3>1. IsPrefix(src, Front(p)) /\ Front(p) \in Seq(Name) /\ Last(p) \in Name
          /\ p = Append(Front(p), Last(p))
      BY <1>2, <2>2, PrefixFront, FrontLast
    <3> DEFINE w == Moved(src, dst, p)
    <3>2. /\ w \in Seq(Name) /\ IsPrefix(dst, w) /\ w # << >> /\ w # dst
          /\ Front(w) = Moved(src, dst, Front(p)) /\ Last(w) = Last(p)
      BY <2>2, MovedFront, MovedIs
    <3> DEFINE v == Moved(dst, src, w)
    <3>3. /\ v \in Seq(Name) /\ v # << >> /\ Front(v) = Moved(dst, src, Front(w)) /\ Last(v) = Last(w)
      <4> HIDE DEF w
      <4> QED BY <3>2, MovedFront, MovedIs
    <3>4. Front(v) = Front(p)
      BY <1>2, <3>1, <3>2, <3>3
    <3>5. v = Append(Front(v), Last(v))
      <4> HIDE DEF v
      <4> QED BY <3>3, FrontLast
    <3> QED BY <3>1, <3>2, <3>3, <3>4, <3>5
  <2> QED BY <2>1, <2>2
<1>3. Seq(Name) \subseteq back
    <2> HIDE DEF back
    <2> QED BY <1>1, <1>2, PathInduction
<1> QED BY <1>3
-----------------------------------------------------------------------------
(* What is at a path.                                                      *)

RootNode == [type |-> "folder", start |-> Root]

(* The entry of a name in what is at the path above. *)
Child(f, above, name) ==
    IF above.type = "folder" THEN EntryIn(f.table[above.start], name) ELSE NoInfo

(* The nodes on the way to a path. *)
IsWay(f, p, node) ==
    node = [k \in 0 .. Len(p) |-> IF k = 0 THEN RootNode ELSE Child(f, node[k - 1], p[k])]

LEMMA WayExists ==
    ASSUME NEW f, NEW p \in Seq(Name)
    PROVE  \E node : IsWay(f, p, node)
<1> DEFINE reached == {q \in Seq(Name) : \E node : IsWay(f, q, node)}
<1>1. << >> \in reached
  <2> DEFINE node == [k \in 0 .. 0 |-> RootNode]
  <2>1. << >> \in Seq(Name) /\ Len(<< >>) = 0
    BY EmptySeq
  <2>2. node = [k \in 0 .. Len(<< >>) |-> IF k = 0 THEN RootNode ELSE Child(f, node[k - 1], << >>[k])]
    BY <2>1
  <2> HIDE DEF node
  <2> QED BY <2>1, <2>2 DEF IsWay
<1>2. ASSUME NEW q \in Seq(Name), q # << >>, Front(q) \in reached PROVE q \in reached
  <2>1. PICK node : IsWay(f, Front(q), node)
    BY <1>2
  <2>2. /\ Len(q) \in Nat \ {0} /\ Len(Front(q)) = Len(q) - 1
        /\ \A i \in 1 .. Len(q) - 1 : Front(q)[i] = q[i]
    BY <1>2, FrontLast
  <2>3. /\ DOMAIN node = 0 .. Len(q) - 1
        /\ \A k \in 0 .. Len(q) - 1 : node[k] = IF k = 0 THEN RootNode ELSE Child(f, node[k - 1], Front(q)[k])
    BY <2>1, <2>2 DEF IsWay
  <2> DEFINE on == [k \in 0 .. Len(q) |-> IF k < Len(q) THEN node[k] ELSE Child(f, node[k - 1], q[k])]
  <2>4. ASSUME NEW k \in 0 .. Len(q) PROVE on[k] = IF k = 0 THEN RootNode ELSE Child(f, on[k - 1], q[k])
    <3>1. CASE k = 0
      <4>1. on[k] = node[k] /\ node[k] = RootNode
        BY <2>2, <2>3, <3>1
      <4> QED BY <3>1, <4>1
    <3>2. CASE k # 0
      <4>1. k - 1 \in 0 .. Len(q) /\ k - 1 < Len(q) /\ on[k - 1] = node[k - 1]
        BY <2>2, <3>2
      <4>2. CASE k < Len(q)
        <5>1. k \in 1 .. Len(q) - 1 /\ k \in 0 .. Len(q) - 1
          BY <2>2, <3>2, <4>2
        <5>2. on[k] = Child(f, node[k - 1], Front(q)[k]) /\ Front(q)[k] = q[k]
          BY <2>2, <2>3, <3>2, <4>2, <5>1
        <5> HIDE DEF on
        <5> QED BY <3>2, <4>1, <5>2
      <4>3. CASE ~(k < Len(q))
        <5>1. on[k] = Child(f, node[k - 1], q[k])
          BY <4>3
        <5> HIDE DEF on
        <5> QED BY <3>2, <4>1, <5>1
      <4> QED BY <4>2, <4>3
    <3> QED BY <3>1, <3>2
  <2>5. on = [k \in 0 .. Len(q) |-> on[k]]
    OBVIOUS
  <2> HIDE DEF on
  <2>6. on = [k \in 0 .. Len(q) |-> IF k = 0 THEN RootNode ELSE Child(f, on[k - 1], q[k])]
    BY <2>4, <2>5
  <2> QED BY <2>6 DEF IsWay
<1>3. Seq(Name) \subseteq reached
    <2> HIDE DEF reached
    <2> QED BY <1>1, <1>2, PathInduction
<1> QED BY <1>3

(* Two ways that go through the same names meet the same nodes. *)
LEMMA WayUnique ==
    ASSUME NEW f, NEW p \in Seq(Name), NEW q \in Seq(Name), IsPrefix(q, p),
           NEW node, IsWay(f, p, node), NEW other, IsWay(f, q, other)
    PROVE  node[Len(q)] = other[Len(q)]
<1>1. Len(p) \in Nat /\ Len(q) \in Nat /\ Len(q) <= Len(p) /\ \A i \in 1 .. Len(q) : q[i] = p[i]
    BY LenProperties, PrefixIs
<1>2. \A k \in 0 .. Len(p) : node[k] = IF k = 0 THEN RootNode ELSE Child(f, node[k - 1], p[k])
    BY DEF IsWay
<1>3. \A k \in 0 .. Len(q) : other[k] = IF k = 0 THEN RootNode ELSE Child(f, other[k - 1], q[k])
    BY DEF IsWay
<1> DEFINE same == {k \in Nat : k <= Len(q) => node[k] = other[k]}
<1>4. 0 \in same
    BY <1>1, <1>2, <1>3
<1>5. ASSUME NEW k \in Nat, k \in same PROVE k + 1 \in same
  <2> SUFFICES ASSUME NEW j, j = k + 1, j <= Len(q) PROVE node[j] = other[j]
    BY <1>1
  <2>1. j \in 0 .. Len(q) /\ j \in 0 .. Len(p) /\ j # 0 /\ j \in 1 .. Len(q) /\ j - 1 = k /\ k <= Len(q)
    BY <1>1
  <2>2. node[k] = other[k] /\ q[j] = p[j]
    BY <1>1, <1>5, <2>1
  <2>3. node[j] = Child(f, node[k], p[j])
    BY <1>2, <2>1
  <2>4. other[j] = Child(f, other[k], q[j])
    BY <1>3, <2>1
  <2> QED BY <2>2, <2>3, <2>4
<1>6. Nat \subseteq same
    <2> HIDE DEF same
    <2> QED BY <1>4, <1>5, Counting
<1> QED BY <1>1, <1>6

(* What is at a path is what the folder above it has under its last name.  *)
LEMMA NodeStep ==
    ASSUME NEW f, NEW p \in Seq(Name)
    PROVE  /\ NodeAt(f, << >>) = RootNode
           /\ p # << >> => NodeAt(f, p) = Child(f, NodeAt(f, Front(p)), Last(p))
<1> DEFINE way(q) == CHOOSE node : IsWay(f, q, node)
<1>1. ASSUME NEW q \in Seq(Name) PROVE IsWay(f, q, way(q)) /\ NodeAt(f, q) = way(q)[Len(q)]
  <2>1. IsWay(f, q, way(q))
    BY WayExists
  <2>2. NodeAt(f, q) = way(q)[Len(q)]
    BY DEF NodeAt, IsWay, Child, RootNode
  <2> QED BY <2>1, <2>2
<1> HIDE DEF way
<1>2. NodeAt(f, << >>) = RootNode
  <2>1. << >> \in Seq(Name) /\ Len(<< >>) = 0
    BY EmptySeq
  <2>2. IsWay(f, << >>, way(<< >>)) /\ NodeAt(f, << >>) = way(<< >>)[0]
    BY <1>1, <2>1
  <2> QED BY <2>1, <2>2 DEF IsWay
<1>3. ASSUME p # << >> PROVE NodeAt(f, p) = Child(f, NodeAt(f, Front(p)), Last(p))
  <2>1. /\ Front(p) \in Seq(Name) /\ Len(p) \in Nat \ {0} /\ Len(Front(p)) = Len(p) - 1
        /\ Last(p) = p[Len(p)] /\ IsPrefix(Front(p), p)
    BY <1>3, FrontLast, PrefixFront
  <2>2. /\ IsWay(f, p, way(p)) /\ NodeAt(f, p) = way(p)[Len(p)]
        /\ IsWay(f, Front(p), way(Front(p))) /\ NodeAt(f, Front(p)) = way(Front(p))[Len(Front(p))]
    BY <1>1, <2>1
  <2>3. way(p)[Len(Front(p))] = way(Front(p))[Len(Front(p))]
    BY <2>1, <2>2, WayUnique
  <2>4. way(p)[Len(p)] = Child(f, way(p)[Len(p) - 1], p[Len(p)])
    BY <2>1, <2>2 DEF IsWay
  <2> QED BY <2>1, <2>2, <2>3, <2>4
<1> QED BY <1>2, <1>3
-----------------------------------------------------------------------------
(* The image, and what is at the paths in it.                              *)

Entry == [type : {"file", "folder"}, start : Block]
Start == Block \union {Root}

Fields == {"table", "size", "owned", "folders", "cached"}

(* The image of a record that describes a file system. *)
ImageType(f) ==
    /\ Fields \subseteq DOMAIN f
    /\ DOMAIN f.table = Start
    /\ \A b \in Start :
        /\ DOMAIN f.table[b] \subseteq Name
        /\ \A n \in DOMAIN f.table[b] : f.table[b][n] \in Entry
    /\ f.size \in [Block -> 0 .. MaxSize]
    /\ f.owned \subseteq Block

(* The entry of a name in the folder that starts at a block. *)
At(f, b, n) == EntryIn(f.table[b], n)

(* Entries lead to blocks that are allocated. *)
SlotsOwned(f) == \A b \in Start, n \in Name : At(f, b, n) # NoInfo => At(f, b, n).start \in f.owned

(* No two entries lead to one block. *)
OneSlotEach(f) ==
    \A b, c \in Start, n, m \in Name :
        At(f, b, n) # NoInfo /\ At(f, b, n).start = At(f, c, m).start => b = c /\ n = m

(* A block that can be allocated has no entries of an earlier folder. *)
FreeEmpty(f) == \A b \in Block \ f.owned, n \in Name : At(f, b, n) = NoInfo

(* A path leads to every block that is allocated. *)
Reachable(f) == \A b \in f.owned : \E p \in Path : NodeAt(f, p).start = b

TreeInv(f) == ImageType(f) /\ SlotsOwned(f) /\ OneSlotEach(f) /\ FreeEmpty(f) /\ Reachable(f)

(* The folder objects are those of the folders at their paths, and have    *)
(* infos of files in them.                                                 *)
Object(f, p) == {"start", "sizes"} \subseteq DOMAIN f.folders[p]

CacheInv(f) ==
    /\ << >> \in DOMAIN f.folders
    /\ DOMAIN f.folders \subseteq Seq(Name)
    /\ \A p \in DOMAIN f.folders :
        Object(f, p) /\ NodeAt(f, p) = [type |-> "folder", start |-> f.folders[p].start]

InfosInv(f) ==
    \A p \in DOMAIN f.folders : \A n \in DOMAIN f.folders[p].sizes :
        n \in Name /\ At(f, f.folders[p].start, n).type = "file"

(* An info has the size of its file, unless the file was truncated.        *)
SizesInv(f, cut) ==
    \A p \in DOMAIN f.folders : \A n \in DOMAIN f.folders[p].sizes :
        LET start == At(f, f.folders[p].start, n).start
        IN  f.folders[p].sizes[n] = f.size[start] \/ start \in cut

(* The cached pair. *)
CachedFile ==
    [path : Path, of : Path, start : Block, mode : {"readOnly", "append", "overwrite"},
     size : Nat, cut : BOOLEAN, reports : BOOLEAN]

CachedType(f) == f.cached = NoFile \/ f.cached \in CachedFile

(* As long as the pair is named after its file, that is the file there.    *)
FileInv(f) ==
    LET c == f.cached
    IN  c # NoFile /\ c.of = c.path =>
            /\ NodeAt(f, c.of) = [type |-> "file", start |-> c.start]
            /\ ~c.cut => c.size = f.size[c.start]

CutInv(f) == f.cached # NoFile /\ f.cached.cut => f.cached.mode = "overwrite"

(* A block that can be allocated has no bytes of an earlier file. *)
FreeSizes(f) == \A b \in Block \ f.owned : f.size[b] = 0

LEMMA Constants == Block \subseteq Nat /\ Root \in Nat /\ Root \notin Block /\ MaxDepth \in Nat \ {0} /\ MaxSize \in Nat
BY CoreAssumption

(* Nothing is neither a file nor a folder, and has no block. *)
LEMMA NoInfoIs ==
    /\ NoInfo.type = "none" /\ NoInfo \notin Entry /\ NoInfo # RootNode /\ NoInfo.start \notin Start
    /\ RootNode.type = "folder" /\ RootNode.start = Root /\ RootNode \notin Entry /\ Root \in Start
    /\ \A e \in Entry : e # NoInfo /\ e # RootNode /\ e.type \in {"file", "folder"} /\ e.start \in Block
                        /\ e.start \in Start /\ e.start # Root
<1>1. NoInfo.type = "none" /\ NoInfo.start = -1 /\ RootNode.type = "folder" /\ RootNode.start = Root
    BY DEF NoInfo, RootNode
<1>2. \A e \in Entry : e.type \in {"file", "folder"} /\ e.start \in Block /\ e.start \in Start /\ e.start # Root
    BY Constants DEF Entry, Start
<1>3. -1 \notin Start /\ Root \in Start
    BY Constants DEF Start
<1> QED BY <1>1, <1>2, <1>3

(* The entries of a table are entries. *)
LEMMA AtType ==
    ASSUME NEW f, ImageType(f), NEW b \in Start, NEW n
    PROVE  /\ At(f, b, n) \in Entry \union {NoInfo}
           /\ At(f, b, n) # NoInfo <=> n \in DOMAIN f.table[b]
           /\ At(f, b, n) # NoInfo => n \in Name
           /\ n \in DOMAIN f.table[b] => At(f, b, n) = f.table[b][n]
BY NoInfoIs DEF At, EntryIn, ImageType

(* What is at a path: the root, an entry, or nothing. *)
LEMMA NodeType ==
    ASSUME NEW f, ImageType(f), NEW p \in Seq(Name)
    PROVE  NodeAt(f, p) \in Entry \union {RootNode, NoInfo}
<1> DEFINE good == {q \in Seq(Name) : NodeAt(f, q) \in Entry \union {RootNode, NoInfo}}
<1>1. << >> \in good
    BY EmptySeq, NodeStep
<1>2. ASSUME NEW q \in Seq(Name), q # << >>, Front(q) \in good PROVE q \in good
  <2>1. NodeAt(f, q) = Child(f, NodeAt(f, Front(q)), Last(q))
    BY <1>2, NodeStep
  <2>2. NodeAt(f, Front(q)).type = "folder" => NodeAt(f, Front(q)).start \in Start
    BY <1>2, NoInfoIs
  <2>3. Child(f, NodeAt(f, Front(q)), Last(q)) \in Entry \union {NoInfo}
    BY <2>2, AtType DEF Child, At
  <2> QED BY <2>1, <2>3
<1>3. Seq(Name) \subseteq good
    <2> HIDE DEF good
    <2> QED BY <1>1, <1>2, PathInduction
<1> QED BY <1>3

(* What there is below the root is an entry of a folder that there is.     *)
LEMMA NodeEntry ==
    ASSUME NEW f, ImageType(f), NEW p \in Seq(Name), p # << >>
    PROVE  LET above == NodeAt(f, Front(p))
           IN  /\ NodeAt(f, p) \in Entry \union {NoInfo}
               /\ Front(p) \in Seq(Name) /\ Last(p) \in Name
               /\ above.type = "folder" => above.start \in Start /\ NodeAt(f, p) = At(f, above.start, Last(p))
               /\ above.type # "folder" => NodeAt(f, p) = NoInfo
               /\ NodeAt(f, p) # NoInfo => above.type = "folder" /\ above # NoInfo
<1> DEFINE above == NodeAt(f, Front(p))
<1>1. Front(p) \in Seq(Name) /\ Last(p) \in Name
    BY FrontLast
<1>2. above \in Entry \union {RootNode, NoInfo}
    BY <1>1, NodeType
<1>3. NodeAt(f, p) = Child(f, above, Last(p))
    BY NodeStep
<1> HIDE DEF above
<1>4. above.type = "folder" => above.start \in Start /\ above # NoInfo
    BY <1>2, NoInfoIs
<1>5. above.type = "folder" => NodeAt(f, p) = At(f, above.start, Last(p))
    BY <1>3 DEF Child, At
<1>6. above.type # "folder" => NodeAt(f, p) = NoInfo
    BY <1>3 DEF Child
<1>7. NodeAt(f, p) \in Entry \union {NoInfo}
    BY <1>4, <1>5, <1>6, AtType
<1> QED BY <1>1, <1>4, <1>5, <1>6, <1>7 DEF above

LEMMA RootOnlyThere ==
    ASSUME NEW f, ImageType(f), NEW p \in Seq(Name)
    PROVE  NodeAt(f, p).start = Root <=> p = << >>
<1>1. p # << >> => NodeAt(f, p) \in Entry \union {NoInfo}
    BY NodeEntry
<1>2. p # << >> => NodeAt(f, p).start # Root
    BY <1>1, NoInfoIs
<1>3. NodeAt(f, << >>) = RootNode
    BY NodeStep
<1> QED BY <1>2, <1>3, NoInfoIs

(* What is above something is something, all the way up. *)
LEMMA AboveExists ==
    ASSUME NEW f, ImageType(f), NEW p \in Seq(Name), NEW q \in Seq(Name), IsPrefix(p, q), NodeAt(f, q) # NoInfo
    PROVE  NodeAt(f, p) # NoInfo
<1> DEFINE good == {r \in Seq(Name) : IsPrefix(p, r) /\ NodeAt(f, r) # NoInfo => NodeAt(f, p) # NoInfo}
<1>1. << >> \in good
    BY EmptySeq, PrefixOrder
<1>2. ASSUME NEW r \in Seq(Name), r # << >>, Front(r) \in good PROVE r \in good
  <2> SUFFICES ASSUME IsPrefix(p, r), NodeAt(f, r) # NoInfo, p # r PROVE NodeAt(f, p) # NoInfo
    OBVIOUS
  <2>1. NodeAt(f, Front(r)) # NoInfo
    BY <1>2, NodeEntry
  <2>2. IsPrefix(p, Front(r))
    BY <1>2, PrefixFront
  <2> QED BY <1>2, <2>1, <2>2
<1>3. Seq(Name) \subseteq good
    <2> HIDE DEF good
    <2> QED BY <1>1, <1>2, PathInduction
<1> QED BY <1>3

(* No two paths lead to one block. *)
LEMMA OnePath ==
    ASSUME NEW f, ImageType(f), OneSlotEach(f),
           NEW p \in Seq(Name), NEW q \in Seq(Name),
           NodeAt(f, p) # NoInfo, NodeAt(f, q) # NoInfo, NodeAt(f, p).start = NodeAt(f, q).start
    PROVE  p = q
<1> DEFINE same(r, s) == NodeAt(f, r) # NoInfo /\ NodeAt(f, s) # NoInfo /\ NodeAt(f, r).start = NodeAt(f, s).start
<1> DEFINE good == {r \in Seq(Name) : \A s \in Seq(Name) : same(r, s) => r = s}
<1>1. << >> \in good
    BY EmptySeq, RootOnlyThere
<1>2. ASSUME NEW r \in Seq(Name), r # << >>, Front(r) \in good PROVE r \in good
  <2> SUFFICES ASSUME NEW s \in Seq(Name), same(r, s) PROVE r = s
    OBVIOUS
  <2>1. s # << >>
    BY <1>2, RootOnlyThere
  <2> DEFINE b == NodeAt(f, Front(r)).start
  <2> DEFINE c == NodeAt(f, Front(s)).start
  <2>2. /\ b \in Start /\ Last(r) \in Name /\ NodeAt(f, r) = At(f, b, Last(r))
        /\ NodeAt(f, Front(r)) # NoInfo
    BY <1>2, NodeEntry
  <2>3. /\ c \in Start /\ Last(s) \in Name /\ NodeAt(f, s) = At(f, c, Last(s))
        /\ NodeAt(f, Front(s)) # NoInfo
    BY <2>1, NodeEntry
  <2>4. b = c /\ Last(r) = Last(s)
    <3> HIDE DEF b, c
    <3>1. At(f, b, Last(r)).start = At(f, c, Last(s)).start /\ At(f, b, Last(r)) # NoInfo
      BY <2>2, <2>3
    <3> QED BY <2>2, <2>3, <3>1 DEF OneSlotEach
  <2>5. Front(s) \in Seq(Name) /\ s = Append(Front(s), Last(s)) /\ r = Append(Front(r), Last(r))
    BY <1>2, <2>1, FrontLast
  <2>6. Front(r) = Front(s)
    BY <1>2, <2>2, <2>3, <2>4, <2>5
  <2> QED BY <2>4, <2>5, <2>6
<1>3. Seq(Name) \subseteq good
    <2> HIDE DEF good
    <2> QED BY <1>1, <1>2, PathInduction
<1> QED BY <1>3

(* The folder or file of a path has a block that is allocated. *)
LEMMA NodeOwned ==
    ASSUME NEW f, ImageType(f), SlotsOwned(f), NEW p \in Seq(Name), p # << >>, NodeAt(f, p) # NoInfo
    PROVE  NodeAt(f, p).start \in f.owned
<1>1. /\ NodeAt(f, Front(p)).start \in Start /\ Last(p) \in Name
      /\ NodeAt(f, p) = At(f, NodeAt(f, Front(p)).start, Last(p))
    BY NodeEntry
<1> QED BY <1>1 DEF SlotsOwned

(* Whatever there is has a path that is modelled. *)
LEMMA InPath ==
    ASSUME NEW f, TreeInv(f), NEW p \in Seq(Name), p # << >>, NodeAt(f, p) # NoInfo
    PROVE  p \in Path
<1>1. ImageType(f) /\ SlotsOwned(f) /\ OneSlotEach(f) /\ Reachable(f)
    BY DEF TreeInv
<1>2. NodeAt(f, p).start \in f.owned
    BY <1>1, NodeOwned
<1>3. PICK q \in Path : NodeAt(f, q).start = NodeAt(f, p).start
    BY <1>1, <1>2 DEF Reachable
<1>4. q \in Seq(Name)
    BY PathIs
<1>5. NodeAt(f, q) # NoInfo
  <2>1. f.owned \subseteq Start
    BY <1>1 DEF ImageType, Start
  <2> QED BY <1>2, <1>3, <2>1, NoInfoIs
<1> QED BY <1>1, <1>3, <1>4, <1>5, OnePath
-----------------------------------------------------------------------------
(* The changes of the tree.                                                *)

(* The nodes are those that the tables lead to. *)
LEMMA NodeSame ==
    ASSUME NEW f, NEW g, g.table = f.table, NEW p \in Seq(Name)
    PROVE  NodeAt(g, p) = NodeAt(f, p)
<1> DEFINE good == {q \in Seq(Name) : NodeAt(g, q) = NodeAt(f, q)}
<1>1. << >> \in good
    BY EmptySeq, NodeStep
<1>2. ASSUME NEW q \in Seq(Name), q # << >>, Front(q) \in good PROVE q \in good
  <2>1. NodeAt(f, q) = Child(f, NodeAt(f, Front(q)), Last(q))
    BY <1>2, NodeStep
  <2>2. NodeAt(g, q) = Child(g, NodeAt(g, Front(q)), Last(q))
    BY <1>2, NodeStep
  <2> QED BY <1>2, <2>1, <2>2 DEF Child
<1>3. Seq(Name) \subseteq good
    <2> HIDE DEF good
    <2> QED BY <1>1, <1>2, PathInduction
<1> QED BY <1>3

LEMMA TreeSame ==
    ASSUME NEW f, NEW g, TreeInv(f), Fields \subseteq DOMAIN g,
           g.table = f.table, g.owned = f.owned, g.size \in [Block -> 0 .. MaxSize]
    PROVE  TreeInv(g)
<1>1. ImageType(g) /\ SlotsOwned(g) /\ OneSlotEach(g) /\ FreeEmpty(g)
    BY DEF TreeInv, ImageType, SlotsOwned, OneSlotEach, FreeEmpty, At
<1>2. Reachable(g)
  <2>1. \A p \in Path : NodeAt(g, p) = NodeAt(f, p)
    BY PathIs, NodeSame
  <2> QED BY <2>1 DEF TreeInv, Reachable
<1> QED BY <1>1, <1>2 DEF TreeInv

(* Two entries of one folder, under one name, are at one path. *)
LEMMA SamePath ==
    ASSUME NEW f, TreeInv(f), NEW p \in Seq(Name), NEW q \in Seq(Name),
           NodeAt(f, p).type = "folder", NodeAt(f, q).type = "folder",
           NodeAt(f, p).start = NodeAt(f, q).start
    PROVE  p = q
BY OnePath, NoInfoIs DEF TreeInv

LEMMA Rejoined ==
    ASSUME NEW p \in Seq(Name), NEW q \in Seq(Name), p # << >>, q # << >>,
           Front(p) = Front(q), Last(p) = Last(q)
    PROVE  p = q
BY FrontLast

(* A folder's block is allocated, or the root's. *)
LEMMA FolderOwned ==
    ASSUME NEW f, TreeInv(f), NEW p \in Seq(Name), NodeAt(f, p) # NoInfo
    PROVE  NodeAt(f, p).start \in f.owned \union {Root} /\ NodeAt(f, p).start \in Start
<1>1. p # << >> => NodeAt(f, p).start \in f.owned
    BY NodeOwned DEF TreeInv
<1>2. NodeAt(f, << >>).start = Root
    BY NodeStep, NoInfoIs
<1>3. f.owned \subseteq Block
    BY DEF TreeInv, ImageType
<1> QED BY <1>1, <1>2, <1>3 DEF Start

(* An entry more: there is something more at its path, and nowhere else. *)
LEMMA SlotAdded ==
    ASSUME NEW f, NEW g, TreeInv(f), ImageType(g),
           NEW path \in Path, NEW new \in Entry, new.start \notin f.owned,
           NodeAt(f, Front(path)).type = "folder", NodeAt(f, path) = NoInfo,
           \A b \in Start, m \in Name :
               At(g, b, m) = IF b = NodeAt(f, Front(path)).start /\ m = Last(path) THEN new ELSE At(f, b, m),
           g.owned = f.owned \union {new.start}
    PROVE  /\ \A q \in Seq(Name) : NodeAt(g, q) = IF q = path THEN new ELSE NodeAt(f, q)
           /\ TreeInv(g)
<1> DEFINE b0 == NodeAt(f, Front(path)).start
<1>1. /\ ImageType(f) /\ SlotsOwned(f) /\ OneSlotEach(f) /\ FreeEmpty(f) /\ Reachable(f)
    BY DEF TreeInv
<1>2. /\ path \in Seq(Name) /\ path # << >> /\ Front(path) \in Seq(Name) /\ Last(path) \in Name
      /\ Front(path) # path
  <2>1. path \in Seq(Name) /\ path # << >>
    BY PathIs, EmptySeq
  <2> QED BY <2>1, FrontLast
<1>3. b0 \in f.owned \union {Root} /\ b0 \in Start
    BY <1>2, FolderOwned, NoInfoIs
<1>4. new.start \in Block /\ new.start # Root /\ new.start # b0 /\ new # NoInfo
    BY <1>3, NoInfoIs
<1>5. b0 = NodeAt(f, Front(path)).start
    OBVIOUS
<1> HIDE DEF b0
<1>6. /\ \A b \in Start, m \in Name : ~(b = b0 /\ m = Last(path)) => At(g, b, m) = At(f, b, m)
      /\ At(g, b0, Last(path)) = new
    BY <1>2, <1>3, <1>5
<1>7. At(f, b0, Last(path)) = NoInfo
    BY <1>1, <1>2, <1>5, NodeEntry
<1> DEFINE good == {q \in Seq(Name) : NodeAt(g, q) = IF q = path THEN new ELSE NodeAt(f, q)}
<1>8. << >> \in good
    BY <1>2, EmptySeq, NodeStep
<1>9. ASSUME NEW q \in Seq(Name), q # << >>, Front(q) \in good PROVE q \in good
  <2>1. Front(q) \in Seq(Name) /\ Last(q) \in Name /\ Front(q) # q
    BY <1>9, FrontLast
  <2>2. CASE Front(q) = path
    <3>1. q # path
      BY <2>1, <2>2
    <3>2. NodeAt(f, q) = NoInfo
      BY <1>1, <1>9, <2>2, NodeEntry, NoInfoIs
    <3>3. NodeAt(g, Front(q)) = new
      BY <1>9, <2>2
    <3>4. new.type = "folder" => NodeAt(g, q) = At(g, new.start, Last(q))
      BY <1>9, <3>3, NodeEntry
    <3>5. new.type # "folder" => NodeAt(g, q) = NoInfo
      BY <1>9, <3>3, NodeEntry
    <3>6. At(g, new.start, Last(q)) = At(f, new.start, Last(q)) /\ At(f, new.start, Last(q)) = NoInfo
      BY <1>1, <1>4, <1>6, <2>1 DEF FreeEmpty, Start
    <3> QED BY <3>1, <3>2, <3>4, <3>5, <3>6
  <2>3. CASE Front(q) # path
    <3>1. NodeAt(g, Front(q)) = NodeAt(f, Front(q))
      BY <1>9, <2>3
    <3>2. CASE NodeAt(f, Front(q)).type # "folder"
      <4>1. NodeAt(g, q) = NoInfo
        BY <1>9, <3>1, <3>2, NodeEntry
      <4>2. NodeAt(f, q) = NoInfo
        BY <1>1, <1>9, <3>2, NodeEntry
      <4>3. q # path
        BY <3>2
      <4> QED BY <4>1, <4>2, <4>3
    <3>3. CASE NodeAt(f, Front(q)).type = "folder"
      <4> DEFINE b == NodeAt(f, Front(q)).start
      <4>1. b \in Start /\ NodeAt(f, q) = At(f, b, Last(q))
        BY <1>1, <1>9, <3>3, NodeEntry
      <4>2. NodeAt(g, q) = At(g, b, Last(q))
        BY <1>9, <3>1, <3>3, NodeEntry
      <4>3. b = b0 => Front(q) = Front(path)
        BY <1>2, <1>5, <2>1, <3>3, SamePath
      <4> HIDE DEF b
      <4>4. b = b0 /\ Last(q) = Last(path) => q = path
        BY <1>2, <1>9, <4>3, Rejoined
      <4>5. CASE q = path
        <5>1. b = b0
          BY <1>5, <4>5 DEF b
        <5> QED BY <1>6, <4>2, <4>5, <5>1
      <4>6. CASE q # path
        <5>1. At(g, b, Last(q)) = At(f, b, Last(q))
          BY <1>6, <2>1, <4>1, <4>4, <4>6
        <5> QED BY <4>1, <4>2, <4>6, <5>1
      <4> QED BY <4>5, <4>6
    <3> QED BY <3>2, <3>3
  <2> QED BY <2>2, <2>3
<1>10. Seq(Name) \subseteq good
    <2> HIDE DEF good
    <2> QED BY <1>8, <1>9, PathInduction
<1>11. SlotsOwned(g)
  <2> SUFFICES ASSUME NEW b \in Start, NEW n \in Name, At(g, b, n) # NoInfo PROVE At(g, b, n).start \in g.owned
    BY DEF SlotsOwned
  <2>1. CASE b = b0 /\ n = Last(path)
    BY <1>6, <2>1
  <2>2. CASE ~(b = b0 /\ n = Last(path))
    BY <1>1, <1>6, <2>2 DEF SlotsOwned
  <2> QED BY <2>1, <2>2
<1>12. OneSlotEach(g)
  <2> SUFFICES ASSUME NEW b \in Start, NEW c \in Start, NEW n \in Name, NEW m \in Name,
                      At(g, b, n) # NoInfo, At(g, b, n).start = At(g, c, m).start
               PROVE  b = c /\ n = m
    BY DEF OneSlotEach
  <2>1. At(g, c, m) # NoInfo
    <3>1. At(g, b, n) \in Entry
      BY AtType
    <3>2. At(g, b, n).start \in Start /\ NoInfo.start \notin Start
      BY <3>1, NoInfoIs
    <3> QED BY <3>2
  <2>2. CASE b = b0 /\ n = Last(path) /\ ~(c = b0 /\ m = Last(path))
    <3>1. At(g, b, n) = new /\ At(g, c, m) = At(f, c, m)
      BY <1>6, <2>2
    <3>2. At(f, c, m).start \in f.owned
      BY <1>1, <2>1, <3>1 DEF SlotsOwned
    <3> QED BY <3>1, <3>2
  <2>3. CASE c = b0 /\ m = Last(path) /\ ~(b = b0 /\ n = Last(path))
    <3>1. At(g, c, m) = new /\ At(g, b, n) = At(f, b, n)
      BY <1>6, <2>3
    <3>2. At(f, b, n).start \in f.owned
      BY <1>1, <3>1 DEF SlotsOwned
    <3> QED BY <3>1, <3>2
  <2>4. CASE ~(b = b0 /\ n = Last(path)) /\ ~(c = b0 /\ m = Last(path))
    <3>1. At(g, b, n) = At(f, b, n) /\ At(g, c, m) = At(f, c, m)
      BY <1>6, <2>4
    <3> QED BY <1>1, <3>1 DEF OneSlotEach
  <2> QED BY <2>2, <2>3, <2>4
<1>13. FreeEmpty(g)
  <2> SUFFICES ASSUME NEW b \in Block \ g.owned, NEW n \in Name PROVE At(g, b, n) = NoInfo
    BY DEF FreeEmpty
  <2>1. b \in Start /\ b # b0 /\ b \in Block \ f.owned
    BY <1>3, Constants DEF Start
  <2> QED BY <1>1, <1>6, <2>1 DEF FreeEmpty
<1>14. Reachable(g)
  <2> SUFFICES ASSUME NEW b \in g.owned PROVE \E p \in Path : NodeAt(g, p).start = b
    BY DEF Reachable
  <2>1. CASE b = new.start
    BY <1>2, <1>10, <2>1
  <2>2. CASE b # new.start
    <3>1. b \in f.owned /\ b \in Start
      BY <1>1, <2>2 DEF ImageType, Start
    <3>2. PICK p \in Path : NodeAt(f, p).start = b
      BY <1>1, <3>1 DEF Reachable
    <3>3. p # path /\ p \in Seq(Name)
      BY <3>1, <3>2, NoInfoIs, PathIs
    <3> QED BY <1>10, <3>2, <3>3
  <2> QED BY <2>1, <2>2
<1> QED BY <1>10, <1>11, <1>12, <1>13, <1>14 DEF TreeInv

(* The blocks of what is at a path and below. *)
Gone(f, path) == {NodeAt(f, q).start : q \in Within(f, path)}

(* The entry of a path is taken out, and the tables of what is at the path *)
(* and below are emptied: there is nothing there any more.                 *)
LEMMA SlotsGone ==
    ASSUME NEW f, NEW g, TreeInv(f), ImageType(g), NEW path \in Path, NodeAt(f, path) # NoInfo,
           \A b \in Start, m \in Name :
               At(g, b, m) = IF b \in Gone(f, path) \/ (b = NodeAt(f, Front(path)).start /\ m = Last(path))
                             THEN NoInfo ELSE At(f, b, m),
           g.owned = f.owned \ Gone(f, path)
    PROVE  /\ \A q \in Seq(Name) : NodeAt(g, q) = IF IsPrefix(path, q) THEN NoInfo ELSE NodeAt(f, q)
           /\ TreeInv(g)
<1> DEFINE b0 == NodeAt(f, Front(path)).start
<1> DEFINE gone == Gone(f, path)
<1>1. /\ ImageType(f) /\ SlotsOwned(f) /\ OneSlotEach(f) /\ FreeEmpty(f) /\ Reachable(f)
    BY DEF TreeInv
<1>2. /\ path \in Seq(Name) /\ path # << >> /\ Front(path) \in Seq(Name) /\ Last(path) \in Name
      /\ Front(path) # path /\ ~IsPrefix(path, Front(path)) /\ ~IsPrefix(path, << >>)
  <2>1. path \in Seq(Name) /\ path # << >>
    BY PathIs, EmptySeq
  <2> QED BY <2>1, FrontLast, PrefixFront, PrefixOrder
<1>3. NodeAt(f, Front(path)).type = "folder" /\ b0 \in Start /\ NodeAt(f, path) = At(f, b0, Last(path))
    BY <1>1, <1>2, NodeEntry
<1>4. /\ b0 = NodeAt(f, Front(path)).start
      /\ gone = {NodeAt(f, q).start : q \in Within(f, path)} /\ g.owned = f.owned \ gone
    BY DEF Gone
<1>5. /\ \A b \in Start, m \in Name :
            b \notin gone /\ ~(b = b0 /\ m = Last(path)) => At(g, b, m) = At(f, b, m)
      /\ \A b \in Start, m \in Name : b \in gone => At(g, b, m) = NoInfo
      /\ At(g, b0, Last(path)) = NoInfo
    BY <1>2, <1>3
<1> HIDE DEF b0, gone
<1>6. ASSUME NEW q \in Seq(Name), NodeAt(f, q) # NoInfo
      PROVE  NodeAt(f, q).start \in gone <=> IsPrefix(path, q)
  <2>1. ASSUME IsPrefix(path, q) PROVE NodeAt(f, q).start \in gone
    <3>1. q # << >>
      BY <1>2, <2>1
    <3>2. q \in Path
      BY <1>6, <3>1, InPath
    <3>3. q \in Within(f, path)
      BY <1>6, <2>1, <3>2 DEF Within, Exists
    <3> QED BY <1>4, <3>3
  <2>2. ASSUME NodeAt(f, q).start \in gone PROVE IsPrefix(path, q)
    <3>1. PICK r \in Within(f, path) : NodeAt(f, q).start = NodeAt(f, r).start
      BY <1>4, <2>2
    <3>2. r \in Seq(Name) /\ IsPrefix(path, r) /\ NodeAt(f, r) # NoInfo
      BY PathIs DEF Within, Exists
    <3>3. r = q
      BY <1>1, <1>6, <3>1, <3>2, OnePath
    <3> QED BY <3>2, <3>3
  <2> QED BY <2>1, <2>2
<1> DEFINE good == {q \in Seq(Name) : NodeAt(g, q) = IF IsPrefix(path, q) THEN NoInfo ELSE NodeAt(f, q)}
<1>7. << >> \in good
    BY <1>2, EmptySeq, NodeStep
<1>8. ASSUME NEW q \in Seq(Name), q # << >>, Front(q) \in good PROVE q \in good
  <2>1. Front(q) \in Seq(Name) /\ Last(q) \in Name
    BY <1>8, FrontLast
  <2>2. CASE IsPrefix(path, q) /\ q # path
    <3>1. IsPrefix(path, Front(q))
      BY <1>2, <1>8, <2>2, PrefixFront
    <3>2. NodeAt(g, Front(q)) = NoInfo
      BY <1>8, <3>1
    <3>3. NodeAt(g, q) = NoInfo
      BY <1>8, <3>2, NodeEntry, NoInfoIs
    <3> QED BY <2>2, <3>3
  <2>3. CASE q = path
    <3>1. NodeAt(g, Front(q)) = NodeAt(f, Front(q))
      BY <1>2, <1>8, <2>3
    <3>2. NodeAt(g, q) = At(g, b0, Last(q))
      BY <1>3, <1>4, <1>8, <2>3, <3>1, NodeEntry
    <3>3. IsPrefix(path, q)
      BY <1>2, <2>3, PrefixOrder
    <3> QED BY <1>5, <2>3, <3>2, <3>3
  <2>4. CASE ~IsPrefix(path, q)
    <3>1. ~IsPrefix(path, Front(q)) /\ q # path
      BY <1>2, <1>8, <2>4, PrefixFront, PrefixOrder
    <3>2. NodeAt(g, Front(q)) = NodeAt(f, Front(q))
      BY <1>8, <3>1
    <3>3. CASE NodeAt(f, Front(q)).type # "folder"
      <4>1. NodeAt(g, q) = NoInfo
        BY <1>8, <3>2, <3>3, NodeEntry
      <4>2. NodeAt(f, q) = NoInfo
        BY <1>1, <1>8, <3>3, NodeEntry
      <4> QED BY <2>4, <4>1, <4>2
    <3>4. CASE NodeAt(f, Front(q)).type = "folder"
      <4> DEFINE b == NodeAt(f, Front(q)).start
      <4>1. b \in Start /\ NodeAt(f, q) = At(f, b, Last(q))
        BY <1>1, <1>8, <3>4, NodeEntry
      <4>2. NodeAt(g, q) = At(g, b, Last(q))
        BY <1>8, <3>2, <3>4, NodeEntry
      <4>3. b \notin gone
        BY <1>6, <2>1, <3>1, <3>4, NoInfoIs
      <4>4. b = b0 => Front(q) = Front(path)
        BY <1>2, <1>3, <1>4, <2>1, <3>4, SamePath
      <4> HIDE DEF b
      <4>5. ~(b = b0 /\ Last(q) = Last(path))
        BY <1>2, <1>8, <3>1, <4>4, Rejoined
      <4>6. At(g, b, Last(q)) = At(f, b, Last(q))
        BY <1>5, <2>1, <4>1, <4>3, <4>5
      <4> QED BY <2>4, <4>1, <4>2, <4>6
    <3> QED BY <3>3, <3>4
  <2> QED BY <2>2, <2>3, <2>4
<1>9. Seq(Name) \subseteq good
    <2> HIDE DEF good
    <2> QED BY <1>7, <1>8, PathInduction
<1>10. SlotsOwned(g)
  <2> SUFFICES ASSUME NEW b \in Start, NEW n \in Name, At(g, b, n) # NoInfo PROVE At(g, b, n).start \in g.owned
    BY DEF SlotsOwned
  <2>1. b \notin gone /\ ~(b = b0 /\ n = Last(path)) /\ At(g, b, n) = At(f, b, n)
    BY <1>5
  <2>2. At(f, b, n).start \in f.owned
    BY <1>1, <2>1 DEF SlotsOwned
  <2>3. ASSUME At(f, b, n).start \in gone PROVE FALSE
    <3>1. PICK r \in Within(f, path) : At(f, b, n).start = NodeAt(f, r).start
      BY <1>4, <2>3
    <3>2. r \in Seq(Name) /\ IsPrefix(path, r) /\ NodeAt(f, r) # NoInfo /\ r # << >>
      BY <1>2, PathIs DEF Within, Exists
    <3> DEFINE c == NodeAt(f, Front(r)).start
    <3>3. /\ Front(r) \in Seq(Name) /\ Last(r) \in Name /\ c \in Start /\ NodeAt(f, r) = At(f, c, Last(r))
          /\ NodeAt(f, Front(r)) # NoInfo
      BY <1>1, <3>2, NodeEntry
    <3>4. c = NodeAt(f, Front(r)).start
      OBVIOUS
    <3> HIDE DEF c
    <3>5. b = c /\ n = Last(r)
      BY <1>1, <2>1, <3>1, <3>3 DEF OneSlotEach
    <3>6. CASE r = path
      BY <1>4, <2>1, <3>4, <3>5, <3>6
    <3>7. CASE r # path
      <4>1. IsPrefix(path, Front(r))
        BY <1>2, <3>2, <3>7, PrefixFront
      <4>2. c \in gone
        BY <1>6, <3>3, <3>4, <4>1
      <4> QED BY <2>1, <3>5, <4>2
    <3> QED BY <3>6, <3>7
  <2> QED BY <1>4, <2>1, <2>2, <2>3
<1>11. \A b \in Start, n \in Name : At(g, b, n) # NoInfo => At(g, b, n) = At(f, b, n)
    BY <1>5
<1>12. OneSlotEach(g)
  <2> SUFFICES ASSUME NEW b \in Start, NEW c \in Start, NEW n \in Name, NEW m \in Name,
                      At(g, b, n) # NoInfo, At(g, b, n).start = At(g, c, m).start
               PROVE  b = c /\ n = m
    BY DEF OneSlotEach
  <2>1. At(g, c, m) # NoInfo
    <3>1. At(g, b, n) \in Entry
      BY AtType
    <3>2. At(g, b, n).start \in Start /\ NoInfo.start \notin Start
      BY <3>1, NoInfoIs
    <3> QED BY <3>2
  <2>2. At(g, b, n) = At(f, b, n) /\ At(g, c, m) = At(f, c, m)
    BY <1>11, <2>1
  <2> QED BY <1>1, <2>2 DEF OneSlotEach
<1>13. FreeEmpty(g)
  <2> SUFFICES ASSUME NEW b \in Block \ g.owned, NEW n \in Name PROVE At(g, b, n) = NoInfo
    BY DEF FreeEmpty
  <2>1. b \in Start /\ (b \in gone \/ b \in Block \ f.owned)
    BY <1>4 DEF Start
  <2>2. b \in Block \ f.owned => At(f, b, n) = NoInfo
    BY <1>1 DEF FreeEmpty
  <2> QED BY <1>5, <1>11, <2>1, <2>2
<1>14. Reachable(g)
  <2> SUFFICES ASSUME NEW b \in g.owned PROVE \E p \in Path : NodeAt(g, p).start = b
    BY DEF Reachable
  <2>1. b \in f.owned /\ b \notin gone /\ b \in Start
    BY <1>1, <1>4 DEF ImageType, Start
  <2>2. PICK p \in Path : NodeAt(f, p).start = b
    BY <1>1, <2>1 DEF Reachable
  <2>3. p \in Seq(Name) /\ NodeAt(f, p) # NoInfo
    BY <2>1, <2>2, NoInfoIs, PathIs
  <2>4. ~IsPrefix(path, p)
    BY <1>6, <2>1, <2>2, <2>3
  <2> QED BY <1>9, <2>2, <2>3, <2>4
<1> QED BY <1>9, <1>10, <1>12, <1>13, <1>14 DEF TreeInv

(* An entry is put elsewhere, but not below itself: what was at and below  *)
(* the old path is at and below the new one.                               *)
LEMMA SlotMoved ==
    ASSUME NEW f, NEW g, TreeInv(f), ImageType(g), NEW src \in Path, NEW dst \in Path,
           NodeAt(f, src) # NoInfo, NodeAt(f, dst) = NoInfo, NodeAt(f, Front(dst)).type = "folder",
           ~IsPrefix(src, dst),
           \A q \in Within(f, src) : Len(dst) + Len(q) - Len(src) <= MaxDepth,
           \A b \in Start, m \in Name :
               At(g, b, m) = IF b = NodeAt(f, Front(dst)).start /\ m = Last(dst) THEN NodeAt(f, src)
                             ELSE IF b = NodeAt(f, Front(src)).start /\ m = Last(src) THEN NoInfo
                             ELSE At(f, b, m),
           g.owned = f.owned
    PROVE  /\ \A q \in Seq(Name) :
                NodeAt(g, q) = IF IsPrefix(dst, q) THEN NodeAt(f, Moved(dst, src, q))
                               ELSE IF IsPrefix(src, q) THEN NoInfo
                               ELSE NodeAt(f, q)
           /\ TreeInv(g)
<1> DEFINE bs == NodeAt(f, Front(src)).start
<1> DEFINE bd == NodeAt(f, Front(dst)).start
<1>1. /\ ImageType(f) /\ SlotsOwned(f) /\ OneSlotEach(f) /\ FreeEmpty(f) /\ Reachable(f)
    BY DEF TreeInv
<1>2. /\ src \in Seq(Name) /\ src # << >> /\ Front(src) \in Seq(Name) /\ Last(src) \in Name
      /\ ~IsPrefix(src, Front(src)) /\ ~IsPrefix(src, << >>) /\ IsPrefix(src, src)
  <2>1. src \in Seq(Name) /\ src # << >>
    BY PathIs, EmptySeq
  <2> QED BY <2>1, FrontLast, PrefixFront, PrefixOrder
<1>3. /\ dst \in Seq(Name) /\ dst # << >> /\ Front(dst) \in Seq(Name) /\ Last(dst) \in Name
      /\ ~IsPrefix(dst, Front(dst)) /\ ~IsPrefix(dst, << >>) /\ IsPrefix(dst, dst)
  <2>1. dst \in Seq(Name) /\ dst # << >>
    BY PathIs, EmptySeq
  <2> QED BY <2>1, FrontLast, PrefixFront, PrefixOrder
<1>4. /\ NodeAt(f, Front(src)).type = "folder" /\ bs \in Start /\ NodeAt(f, src) = At(f, bs, Last(src))
      /\ NodeAt(f, src) \in Entry
    BY <1>1, <1>2, NodeEntry
<1>5. bd \in Start /\ At(f, bd, Last(dst)) = NoInfo
    BY <1>1, <1>3, NodeEntry
<1>6. ~IsPrefix(src, Front(dst))
    BY <1>2, <1>3, PrefixFront
<1>7. bs = NodeAt(f, Front(src)).start /\ bd = NodeAt(f, Front(dst)).start
    OBVIOUS
<1> HIDE DEF bs, bd
<1>8. ~(bs = bd /\ Last(src) = Last(dst))
    BY <1>4, <1>5
<1>9. /\ \A b \in Start, m \in Name :
            ~(b = bd /\ m = Last(dst)) /\ ~(b = bs /\ m = Last(src)) => At(g, b, m) = At(f, b, m)
      /\ At(g, bd, Last(dst)) = NodeAt(f, src)
      /\ At(g, bs, Last(src)) = NoInfo
    BY <1>2, <1>3, <1>4, <1>5, <1>7, <1>8

(* A folder at its old path, and with its old entries but for those two. *)
<1>10. ASSUME NEW q \in Seq(Name), NodeAt(f, q).type = "folder"
       PROVE  /\ NodeAt(f, q).start \in Start
              /\ NodeAt(f, q).start = bs => q = Front(src)
              /\ NodeAt(f, q).start = bd => q = Front(dst)
  <2>1. NodeAt(f, q).start \in Start
    BY <1>10, FolderOwned, NoInfoIs
  <2> QED BY <1>2, <1>3, <1>4, <1>7, <1>10, <2>1, SamePath
<1> DEFINE good == {q \in Seq(Name) :
                NodeAt(g, q) = IF IsPrefix(dst, q) THEN NodeAt(f, Moved(dst, src, q))
                               ELSE IF IsPrefix(src, q) THEN NoInfo
                               ELSE NodeAt(f, q)}
<1>11. << >> \in good
    BY <1>2, <1>3, EmptySeq, NodeStep
<1>12. ASSUME NEW q \in Seq(Name), q # << >>, Front(q) \in good PROVE q \in good
  <2>1. Front(q) \in Seq(Name) /\ Last(q) \in Name
    BY <1>12, FrontLast
  <2>2. CASE q = dst
    <3>1. NodeAt(g, Front(q)) = NodeAt(f, Front(q))
      BY <1>3, <1>6, <1>12, <2>2
    <3>2. NodeAt(g, q) = At(g, bd, Last(q))
      BY <1>7, <1>12, <2>2, <3>1, NodeEntry
    <3>3. Moved(dst, src, q) = src
      BY <1>2, <1>3, <2>2, MovedFront
    <3> QED BY <1>3, <1>9, <2>2, <3>2, <3>3
  <2>3. CASE IsPrefix(dst, q) /\ q # dst
    <3> DEFINE w == Moved(dst, src, Front(q))
    <3> DEFINE v == Moved(dst, src, q)
    <3>1. IsPrefix(dst, Front(q))
      BY <1>3, <1>12, <2>3, PrefixFront
    <3>2. w \in Seq(Name) /\ IsPrefix(src, w)
      BY <1>2, <1>3, <2>1, <3>1, MovedIs, MovedFront
    <3>3. v \in Seq(Name) /\ v # << >> /\ Front(v) = w /\ Last(v) = Last(q)
      BY <1>2, <1>3, <2>3, MovedIs, MovedFront
    <3>4. NodeAt(g, Front(q)) = NodeAt(f, w)
      BY <1>12, <3>1
    <3>5. NodeAt(g, q) = NodeAt(f, v)
      <4> HIDE DEF v, w
      <4>1. CASE NodeAt(f, w).type # "folder"
        <5>1. NodeAt(g, q) = NoInfo
          BY <1>12, <3>4, <4>1, NodeEntry
        <5>2. NodeAt(f, v) = NoInfo
          BY <1>1, <3>3, <4>1, NodeEntry
        <5> QED BY <5>1, <5>2
      <4>2. CASE NodeAt(f, w).type = "folder"
        <5> DEFINE b == NodeAt(f, w).start
        <5>1. b \in Start /\ NodeAt(f, v) = At(f, b, Last(q))
          BY <1>1, <3>3, <4>2, NodeEntry
        <5>2. NodeAt(g, q) = At(g, b, Last(q))
          BY <1>12, <3>4, <4>2, NodeEntry
        <5>3. b # bs /\ b # bd
          BY <1>2, <1>6, <1>10, <3>2, <4>2
        <5> HIDE DEF b
        <5> QED BY <1>9, <2>1, <5>1, <5>2, <5>3
      <4> QED BY <4>1, <4>2
    <3> QED BY <2>3, <3>5
  <2>4. CASE ~IsPrefix(dst, q) /\ IsPrefix(src, q)
    <3>1. ~IsPrefix(dst, Front(q))
      BY <1>3, <1>12, <2>4, PrefixFront
    <3>2. CASE q = src
      <4>1. NodeAt(g, Front(q)) = NodeAt(f, Front(q))
        BY <1>2, <1>12, <3>1, <3>2
      <4>2. NodeAt(g, q) = At(g, bs, Last(q))
        BY <1>4, <1>7, <1>12, <3>2, <4>1, NodeEntry
      <4> QED BY <1>9, <2>4, <3>2, <4>2
    <3>3. CASE q # src
      <4>1. IsPrefix(src, Front(q))
        BY <1>2, <1>12, <2>4, <3>3, PrefixFront
      <4>2. NodeAt(g, Front(q)) = NoInfo
        BY <1>12, <3>1, <4>1
      <4>3. NodeAt(g, q) = NoInfo
        BY <1>12, <4>2, NodeEntry, NoInfoIs
      <4> QED BY <2>4, <4>3
    <3> QED BY <3>2, <3>3
  <2>5. CASE ~IsPrefix(dst, q) /\ ~IsPrefix(src, q)
    <3>1. ~IsPrefix(dst, Front(q)) /\ ~IsPrefix(src, Front(q))
      BY <1>2, <1>3, <1>12, <2>5, PrefixFront
    <3>2. NodeAt(g, Front(q)) = NodeAt(f, Front(q)) /\ q # src /\ q # dst
      BY <1>2, <1>3, <1>12, <2>5, <3>1
    <3>3. CASE NodeAt(f, Front(q)).type # "folder"
      <4>1. NodeAt(g, q) = NoInfo
        BY <1>12, <3>2, <3>3, NodeEntry
      <4>2. NodeAt(f, q) = NoInfo
        BY <1>1, <1>12, <3>3, NodeEntry
      <4> QED BY <2>5, <4>1, <4>2
    <3>4. CASE NodeAt(f, Front(q)).type = "folder"
      <4> DEFINE b == NodeAt(f, Front(q)).start
      <4>1. b \in Start /\ NodeAt(f, q) = At(f, b, Last(q))
        BY <1>1, <1>12, <3>4, NodeEntry
      <4>2. NodeAt(g, q) = At(g, b, Last(q))
        BY <1>12, <3>2, <3>4, NodeEntry
      <4>3. (b = bs => Front(q) = Front(src)) /\ (b = bd => Front(q) = Front(dst))
        BY <1>10, <2>1, <3>4
      <4> HIDE DEF b
      <4>4. ~(b = bs /\ Last(q) = Last(src))
        BY <1>2, <1>12, <3>2, <4>3, Rejoined
      <4>5. ~(b = bd /\ Last(q) = Last(dst))
        BY <1>3, <1>12, <3>2, <4>3, Rejoined
      <4> QED BY <1>9, <2>1, <2>5, <4>1, <4>2, <4>4, <4>5
    <3> QED BY <3>3, <3>4
  <2> QED BY <2>2, <2>3, <2>4, <2>5
<1>13. Seq(Name) \subseteq good
    <2> HIDE DEF good
    <2> QED BY <1>11, <1>12, PathInduction
<1>14. ASSUME NEW b \in Start, NEW n \in Name, At(g, b, n) # NoInfo
       PROVE  \/ b = bd /\ n = Last(dst) /\ At(g, b, n) = At(f, bs, Last(src))
              \/ /\ ~(b = bd /\ n = Last(dst)) /\ ~(b = bs /\ n = Last(src))
                 /\ At(g, b, n) = At(f, b, n)
    BY <1>4, <1>9, <1>14
<1>15. SlotsOwned(g)
  <2> SUFFICES ASSUME NEW b \in Start, NEW n \in Name, At(g, b, n) # NoInfo PROVE At(g, b, n).start \in g.owned
    BY DEF SlotsOwned
  <2>1. At(f, bs, Last(src)).start \in f.owned
    BY <1>1, <1>2, <1>4 DEF SlotsOwned
  <2>2. At(f, b, n) # NoInfo => At(f, b, n).start \in f.owned
    BY <1>1 DEF SlotsOwned
  <2> QED BY <1>14, <2>1, <2>2
<1>16. OneSlotEach(g)
  <2> SUFFICES ASSUME NEW b \in Start, NEW c \in Start, NEW n \in Name, NEW m \in Name,
                      At(g, b, n) # NoInfo, At(g, b, n).start = At(g, c, m).start
               PROVE  b = c /\ n = m
    BY DEF OneSlotEach
  <2>1. At(g, c, m) # NoInfo
    <3>1. At(g, b, n) \in Entry
      BY AtType
    <3>2. At(g, b, n).start \in Start /\ NoInfo.start \notin Start
      BY <3>1, NoInfoIs
    <3> QED BY <3>2
  <2>2. ASSUME NEW x \in Start, NEW y \in Start, NEW k \in Name, NEW l \in Name,
               At(f, x, k) # NoInfo, At(f, x, k).start = At(f, y, l).start
        PROVE  x = y /\ k = l
    BY <1>1, <2>2 DEF OneSlotEach
  <2>3. CASE b = bd /\ n = Last(dst) /\ c = bd /\ m = Last(dst)
    BY <2>3
  <2>4. CASE b = bd /\ n = Last(dst) /\ ~(c = bd /\ m = Last(dst))
    <3>1. At(g, b, n) = At(f, bs, Last(src))
      BY <1>14, <2>4
    <3>2. At(g, c, m) = At(f, c, m) /\ ~(c = bs /\ m = Last(src))
      BY <1>14, <2>1, <2>4
    <3> QED BY <1>2, <1>4, <2>2, <3>1, <3>2
  <2>5. CASE ~(b = bd /\ n = Last(dst)) /\ c = bd /\ m = Last(dst)
    <3>1. At(g, c, m) = At(f, bs, Last(src))
      BY <1>14, <2>1, <2>5
    <3>2. At(g, b, n) = At(f, b, n) /\ ~(b = bs /\ n = Last(src))
      BY <1>14, <2>5
    <3> QED BY <1>2, <1>4, <2>2, <3>1, <3>2
  <2>6. CASE ~(b = bd /\ n = Last(dst)) /\ ~(c = bd /\ m = Last(dst))
    <3>1. At(g, b, n) = At(f, b, n)
      BY <1>14, <2>6
    <3>2. At(g, c, m) = At(f, c, m)
      BY <1>14, <2>1, <2>6
    <3> QED BY <2>2, <3>1, <3>2
  <2> QED BY <2>3, <2>4, <2>5, <2>6
<1>17. FreeEmpty(g)
  <2> SUFFICES ASSUME NEW b \in Block \ g.owned, NEW n \in Name PROVE At(g, b, n) = NoInfo
    BY DEF FreeEmpty
  <2>1. bd \in f.owned \union {Root}
    BY <1>3, <1>7, FolderOwned, NoInfoIs
  <2>2. b \in Start /\ b # bd /\ b \in Block \ f.owned
    BY <2>1, Constants DEF Start
  <2>3. At(f, b, n) = NoInfo
    BY <1>1, <2>2 DEF FreeEmpty
  <2> QED BY <1>14, <2>2, <2>3
<1>18. Reachable(g)
  <2> SUFFICES ASSUME NEW b \in g.owned PROVE \E p \in Path : NodeAt(g, p).start = b
    BY DEF Reachable
  <2>1. b \in f.owned /\ b \in Start
    BY <1>1 DEF ImageType, Start
  <2>2. PICK p \in Path : NodeAt(f, p).start = b
    BY <1>1, <2>1 DEF Reachable
  <2>3. p \in Seq(Name) /\ NodeAt(f, p) # NoInfo
    BY <2>1, <2>2, NoInfoIs, PathIs
  <2>4. CASE IsPrefix(src, p)
    <3> DEFINE w == Moved(src, dst, p)
    <3>1. /\ w \in Seq(Name) /\ Len(src) \in Nat /\ Len(dst) \in Nat /\ Len(p) \in Nat
          /\ Len(src) <= Len(p) /\ Len(w) = Len(dst) + (Len(p) - Len(src))
      BY <1>2, <1>3, <2>3, <2>4, MovedIs
    <3>2. IsPrefix(dst, w) /\ Moved(dst, src, w) = p
      BY <1>2, <1>3, <2>3, <2>4, MovedFront, MovedBack
    <3>3. p \in Within(f, src)
      BY <2>2, <2>3, <2>4 DEF Within, Exists
    <3> HIDE DEF w
    <3>4. Len(dst) \in 1 .. MaxDepth
      BY PathIs
    <3>5. Len(dst) + Len(p) - Len(src) <= MaxDepth
      BY <3>3
    <3>6. Len(w) \in 1 .. MaxDepth
      BY <3>1, <3>4, <3>5, Constants
    <3>7. w \in Path
      BY <3>1, <3>6, PathIs
    <3>8. NodeAt(g, w) = NodeAt(f, p)
      BY <1>13, <3>1, <3>2
    <3> QED BY <2>2, <3>7, <3>8
  <2>5. CASE ~IsPrefix(src, p)
    <3>1. ~IsPrefix(dst, p)
      BY <1>1, <1>3, <2>3, AboveExists
    <3>2. NodeAt(g, p) = NodeAt(f, p)
      BY <1>13, <2>3, <2>5, <3>1
    <3> QED BY <2>2, <3>2
  <2> QED BY <2>4, <2>5
<1> QED BY <1>13, <1>15, <1>16, <1>17, <1>18 DEF TreeInv
-----------------------------------------------------------------------------
(* Looking up.                                                             *)

(* What a look-up may do: more folders get an object, and more files an    *)
(* info, with the file's size.                                             *)
Looked(f, g) ==
    /\ Fields \subseteq DOMAIN g
    /\ g.table = f.table /\ g.size = f.size /\ g.owned = f.owned
    /\ DOMAIN f.folders \subseteq DOMAIN g.folders /\ DOMAIN g.folders \subseteq Seq(Name)
    /\ \A p \in DOMAIN g.folders :
        /\ Object(g, p)
        /\ p \in DOMAIN f.folders => g.folders[p].start = f.folders[p].start
        /\ p \notin DOMAIN f.folders => NodeAt(f, p) = [type |-> "folder", start |-> g.folders[p].start]
    /\ \A p \in DOMAIN g.folders : \A n \in DOMAIN g.folders[p].sizes :
        \/ /\ p \in DOMAIN f.folders /\ n \in DOMAIN f.folders[p].sizes
           /\ g.folders[p].sizes[n] = f.folders[p].sizes[n]
        \/ LET e == At(f, g.folders[p].start, n)
           IN  n \in Name /\ e.type = "file" /\ g.folders[p].sizes[n] = f.size[e.start]

LEMMA LookedSelf ==
    ASSUME NEW f, ImageType(f), CacheInv(f)
    PROVE  Looked(f, f)
BY DEF Looked, ImageType, CacheInv

LEMMA LookedTwice ==
    ASSUME NEW f, NEW g, NEW h, Looked(f, g), Looked(g, h)
    PROVE  Looked(f, h)
<1>1. /\ Fields \subseteq DOMAIN h
      /\ h.table = f.table /\ h.size = f.size /\ h.owned = f.owned
      /\ DOMAIN f.folders \subseteq DOMAIN h.folders /\ DOMAIN h.folders \subseteq Seq(Name)
    BY DEF Looked
<1>2. ASSUME NEW p \in DOMAIN h.folders
      PROVE  /\ Object(h, p)
             /\ p \in DOMAIN f.folders => h.folders[p].start = f.folders[p].start
             /\ p \notin DOMAIN f.folders => NodeAt(f, p) = [type |-> "folder", start |-> h.folders[p].start]
  <2>1. Object(h, p)
    BY DEF Looked
  <2>2. p \in DOMAIN g.folders => h.folders[p].start = g.folders[p].start
    BY DEF Looked
  <2>3. p \notin DOMAIN g.folders => NodeAt(f, p) = [type |-> "folder", start |-> h.folders[p].start]
    <3>1. g.table = f.table /\ p \in Seq(Name)
      BY DEF Looked
    <3>2. NodeAt(g, p) = NodeAt(f, p)
      BY <3>1, NodeSame
    <3> QED BY <3>2 DEF Looked
  <2>4. p \in DOMAIN f.folders => p \in DOMAIN g.folders /\ g.folders[p].start = f.folders[p].start
    BY DEF Looked
  <2>5. p \in DOMAIN g.folders /\ p \notin DOMAIN f.folders =>
            NodeAt(f, p) = [type |-> "folder", start |-> g.folders[p].start]
    BY DEF Looked
  <2> QED BY <2>1, <2>2, <2>3, <2>4, <2>5
<1>3. ASSUME NEW p \in DOMAIN h.folders, NEW n \in DOMAIN h.folders[p].sizes
      PROVE  \/ /\ p \in DOMAIN f.folders /\ n \in DOMAIN f.folders[p].sizes
                /\ h.folders[p].sizes[n] = f.folders[p].sizes[n]
             \/ LET e == At(f, h.folders[p].start, n)
                IN  n \in Name /\ e.type = "file" /\ h.folders[p].sizes[n] = f.size[e.start]
  <2>1. g.table = f.table /\ g.size = f.size
    BY DEF Looked
  <2>2. \/ /\ p \in DOMAIN g.folders /\ n \in DOMAIN g.folders[p].sizes
           /\ h.folders[p].sizes[n] = g.folders[p].sizes[n]
        \/ LET e == At(f, h.folders[p].start, n)
           IN  n \in Name /\ e.type = "file" /\ h.folders[p].sizes[n] = f.size[e.start]
    BY <2>1 DEF Looked, At
  <2>3. ASSUME p \in DOMAIN g.folders, n \in DOMAIN g.folders[p].sizes
        PROVE  \/ /\ p \in DOMAIN f.folders /\ n \in DOMAIN f.folders[p].sizes
                  /\ g.folders[p].sizes[n] = f.folders[p].sizes[n]
               \/ LET e == At(f, g.folders[p].start, n)
                  IN  n \in Name /\ e.type = "file" /\ g.folders[p].sizes[n] = f.size[e.start]
    BY <2>3 DEF Looked
  <2>4. p \in DOMAIN g.folders => h.folders[p].start = g.folders[p].start
    BY DEF Looked
  <2> QED BY <2>2, <2>3, <2>4
<1> QED BY <1>1, <1>2, <1>3 DEF Looked

LEMMA LookedImage ==
    ASSUME NEW f, NEW g, ImageType(f), CacheInv(f), Looked(f, g)
    PROVE  /\ ImageType(g) /\ CacheInv(g)
           /\ \A p \in Seq(Name) : NodeAt(g, p) = NodeAt(f, p)
           /\ \A b, n : At(g, b, n) = At(f, b, n)
<1>1. /\ Fields \subseteq DOMAIN g /\ g.table = f.table /\ g.size = f.size /\ g.owned = f.owned
      /\ DOMAIN f.folders \subseteq DOMAIN g.folders /\ DOMAIN g.folders \subseteq Seq(Name)
    BY DEF Looked
<1>2. \A p \in Seq(Name) : NodeAt(g, p) = NodeAt(f, p)
    BY <1>1, NodeSame
<1>3. ImageType(g)
    BY <1>1 DEF ImageType
<1>4. CacheInv(g)
  <2>1. ASSUME NEW p \in DOMAIN g.folders
        PROVE  Object(g, p) /\ NodeAt(g, p) = [type |-> "folder", start |-> g.folders[p].start]
    <3>1. Object(g, p) /\ NodeAt(g, p) = NodeAt(f, p)
      BY <1>1, <1>2 DEF Looked
    <3>2. CASE p \in DOMAIN f.folders
      <4>1. NodeAt(f, p) = [type |-> "folder", start |-> f.folders[p].start]
        BY <3>2 DEF CacheInv
      <4>2. g.folders[p].start = f.folders[p].start
        BY <3>2 DEF Looked
      <4> QED BY <3>1, <4>1, <4>2
    <3>3. CASE p \notin DOMAIN f.folders
      <4>1. NodeAt(f, p) = [type |-> "folder", start |-> g.folders[p].start]
        BY <3>3 DEF Looked
      <4> QED BY <3>1, <4>1
    <3> QED BY <3>2, <3>3
  <2> QED BY <1>1, <2>1 DEF CacheInv
<1> QED BY <1>1, <1>2, <1>3, <1>4 DEF At

LEMMA LookedKeeps ==
    ASSUME NEW f, NEW g, TreeInv(f), CacheInv(f), Looked(f, g)
    PROVE  /\ TreeInv(g) /\ CacheInv(g)
           /\ InfosInv(f) => InfosInv(g)
           /\ \A cut : SizesInv(f, cut) => SizesInv(g, cut)
           /\ \A p \in Seq(Name) : NodeAt(g, p) = NodeAt(f, p)
<1>1. /\ Fields \subseteq DOMAIN g /\ g.table = f.table /\ g.size = f.size /\ g.owned = f.owned
      /\ DOMAIN f.folders \subseteq DOMAIN g.folders /\ DOMAIN g.folders \subseteq Seq(Name)
    BY DEF Looked
<1>2. CacheInv(g) /\ \A p \in Seq(Name) : NodeAt(g, p) = NodeAt(f, p)
    BY LookedImage DEF TreeInv
<1>3. TreeInv(g)
    BY <1>1, TreeSame DEF TreeInv, ImageType
<1>5. ASSUME NEW p \in DOMAIN g.folders, NEW n \in DOMAIN g.folders[p].sizes
      PROVE  \/ /\ p \in DOMAIN f.folders /\ n \in DOMAIN f.folders[p].sizes
                /\ g.folders[p].sizes[n] = f.folders[p].sizes[n]
                /\ g.folders[p].start = f.folders[p].start
             \/ LET e == At(f, g.folders[p].start, n)
                IN  n \in Name /\ e.type = "file" /\ g.folders[p].sizes[n] = f.size[e.start]
    BY DEF Looked
<1>6. ASSUME NEW b, NEW n PROVE At(g, b, n) = At(f, b, n)
    BY <1>1 DEF At
<1>7. ASSUME InfosInv(f) PROVE InfosInv(g)
  <2> SUFFICES ASSUME NEW p \in DOMAIN g.folders, NEW n \in DOMAIN g.folders[p].sizes
               PROVE  n \in Name /\ At(f, g.folders[p].start, n).type = "file"
    BY <1>6 DEF InfosInv
  <2>1. p \in DOMAIN f.folders /\ n \in DOMAIN f.folders[p].sizes =>
            n \in Name /\ At(f, f.folders[p].start, n).type = "file"
    BY <1>7 DEF InfosInv
  <2> QED BY <1>5, <2>1
<1>8. ASSUME NEW cut, SizesInv(f, cut) PROVE SizesInv(g, cut)
  <2> SUFFICES ASSUME NEW p \in DOMAIN g.folders, NEW n \in DOMAIN g.folders[p].sizes
               PROVE  LET start == At(f, g.folders[p].start, n).start
                      IN  g.folders[p].sizes[n] = f.size[start] \/ start \in cut
    BY <1>1, <1>6 DEF SizesInv
  <2>1. p \in DOMAIN f.folders /\ n \in DOMAIN f.folders[p].sizes =>
            LET start == At(f, f.folders[p].start, n).start
            IN  f.folders[p].sizes[n] = f.size[start] \/ start \in cut
    BY <1>8 DEF SizesInv
  <2> QED BY <1>5, <2>1
<1> QED BY <1>2, <1>3, <1>7, <1>8

(* The infos of an object after a look-up: those it had, and others with   *)
(* their files' sizes.                                                     *)
InfosOf(f, folder, after) ==
    /\ {"start", "sizes"} \subseteq DOMAIN after
    /\ after.start = folder.start
    /\ \A n \in DOMAIN after.sizes :
        \/ n \in DOMAIN folder.sizes /\ after.sizes[n] = folder.sizes[n]
        \/ LET e == At(f, folder.start, n)
           IN  n \in Name /\ e.type = "file" /\ after.sizes[n] = f.size[e.start]

LEMMA InfosMadeIs ==
    ASSUME NEW f, ImageType(f), NEW folder, {"start", "sizes"} \subseteq DOMAIN folder, folder.start \in Start,
           NEW names, \A n \in names : n \in DOMAIN f.table[folder.start] /\ f.table[folder.start][n].type = "file"
    PROVE  /\ InfosOf(f, folder, InfosMade(f, folder, names))
           /\ DOMAIN InfosMade(f, folder, names).sizes = DOMAIN folder.sizes \union names
<1> DEFINE after == InfosMade(f, folder, names)
<1>1. /\ DOMAIN after = DOMAIN folder /\ after.start = folder.start
      /\ after.sizes = [n \in DOMAIN folder.sizes \union names |->
                            IF n \in DOMAIN folder.sizes THEN folder.sizes[n]
                            ELSE f.size[f.table[folder.start][n].start]]
    BY DEF InfosMade
<1> HIDE DEF after
<1>2. ASSUME NEW n \in names
      PROVE  n \in Name /\ At(f, folder.start, n).type = "file"
             /\ At(f, folder.start, n).start = f.table[folder.start][n].start
    BY <1>2, AtType
<1>3. ASSUME NEW n \in DOMAIN after.sizes
      PROVE  \/ n \in DOMAIN folder.sizes /\ after.sizes[n] = folder.sizes[n]
             \/ LET e == At(f, folder.start, n)
                IN  n \in Name /\ e.type = "file" /\ after.sizes[n] = f.size[e.start]
    BY <1>1, <1>2
<1> QED BY <1>1, <1>3 DEF InfosOf, after

LEMMA LookedUpIs ==
    ASSUME NEW f, ImageType(f), NEW folder, {"start", "sizes"} \subseteq DOMAIN folder, folder.start \in Start,
           NEW name, NEW seen
    PROVE  InfosOf(f, folder, LookedUp(f, folder, name, seen))
<1> DEFINE files == {n \in DOMAIN f.table[folder.start] : f.table[folder.start][n].type = "file"}
<1>1. PICK names : names \subseteq files /\ LookedUp(f, folder, name, seen) = InfosMade(f, folder, names)
  <2> DEFINE met == IF name \in DOMAIN f.table[folder.start] THEN files \intersect (seen \union {name}) ELSE files
  <2>1. LookedUp(f, folder, name, seen) = InfosMade(f, folder, met)
    BY DEF LookedUp
  <2> QED BY <2>1
<1> QED BY <1>1, InfosMadeIs

(* An object of the cache is that of the folder at its path. *)
LEMMA Cached ==
    ASSUME NEW f, ImageType(f), CacheInv(f), NEW p \in DOMAIN f.folders
    PROVE  /\ {"start", "sizes"} \subseteq DOMAIN f.folders[p] /\ p \in Seq(Name)
           /\ NodeAt(f, p).type = "folder" /\ NodeAt(f, p) # NoInfo
           /\ f.folders[p].start = NodeAt(f, p).start /\ f.folders[p].start \in Start
           /\ f.folders[<< >>].start = Root /\ << >> \in DOMAIN f.folders
<1>1. ASSUME NEW q \in DOMAIN f.folders
      PROVE  /\ {"start", "sizes"} \subseteq DOMAIN f.folders[q] /\ q \in Seq(Name)
             /\ NodeAt(f, q).type = "folder"
             /\ f.folders[q].start = NodeAt(f, q).start
    BY DEF CacheInv, Object
<1>2. NodeAt(f, p) \in Entry \union {RootNode, NoInfo}
    BY <1>1, NodeType
<1>3. f.folders[<< >>].start = Root /\ << >> \in DOMAIN f.folders
  <2>1. << >> \in DOMAIN f.folders
    BY DEF CacheInv
  <2> QED BY <1>1, <2>1, NodeStep, NoInfoIs
<1> QED BY <1>1, <1>2, <1>3, NoInfoIs

(* Through the cache or not, the entry of a path is what is there. *)
LEMMA EntryIs ==
    ASSUME NEW f, ImageType(f), CacheInv(f), NEW path \in Path, HasParent(f, path)
    PROVE  /\ NodeAt(f, Front(path)).type = "folder"
           /\ NodeAt(f, Front(path)).start \in Start
           /\ EntriesOf(f, path) = f.table[NodeAt(f, Front(path)).start]
           /\ EntryInfo(f, path) = NodeAt(f, path)
           /\ EntryInfo(f, path) = At(f, NodeAt(f, Front(path)).start, Last(path))
           /\ path \in Seq(Name) /\ path # << >> /\ Front(path) \in Seq(Name) /\ Last(path) \in Name
<1>1. path \in Seq(Name) /\ path # << >> /\ Front(path) \in Seq(Name) /\ Last(path) \in Name
    BY PathIs, EmptySeq, FrontLast
<1>2. NodeAt(f, Front(path)).type = "folder"
    BY Cached DEF HasParent
<1>3. EntriesOf(f, path) = f.table[NodeAt(f, Front(path)).start]
    BY Cached DEF EntriesOf, ParentOf
<1>4. NodeAt(f, Front(path)).start \in Start /\ NodeAt(f, path) = At(f, NodeAt(f, Front(path)).start, Last(path))
    BY <1>1, <1>2, NodeEntry
<1> QED BY <1>1, <1>2, <1>3, <1>4 DEF EntryInfo, At

LEMMA WithParentIs ==
    ASSUME NEW f, ImageType(f), CacheInv(f), NEW path \in Path, HasParent(f, path), NEW seen
    PROVE  LET g == WithParent(f, path, seen)
           IN  /\ Looked(f, g) /\ g.cached = f.cached
               /\ DOMAIN g.folders = DOMAIN f.folders \union {Front(path)}
               /\ g.folders[Front(path)].start = NodeAt(f, Front(path)).start
               /\ \A n \in DOMAIN g.folders[Front(path)].sizes :
                    Front(path) \in DOMAIN f.folders /\ n \in DOMAIN f.folders[Front(path)].sizes
<1> DEFINE g == WithParent(f, path, seen)
<1> DEFINE above == Front(path)
<1>1. ImageType(f) /\ above \in Seq(Name) /\ NodeAt(f, above).type = "folder"
    BY EntryIs DEF TreeInv
<1>2. CASE above \in DOMAIN f.folders
  <2>1. g = f
    BY <1>2 DEF WithParent
  <2> QED BY <1>1, <1>2, <2>1, Cached, LookedSelf
<1>3. CASE above \notin DOMAIN f.folders
  <2> DEFINE asked == LookedUp(f, f.folders[<< >>], path[1], seen)
  <2> DEFINE found == [start |-> NodeAt(f, above).start, sizes |-> << >>]
  <2>1. g = [f EXCEPT !.folders = With(With(f.folders, << >>, asked), above, found)]
    BY <1>3 DEF WithParent
  <2>2. << >> \in DOMAIN f.folders /\ above # << >>
    BY <1>3 DEF CacheInv
  <2>3. InfosOf(f, f.folders[<< >>], asked)
    BY <1>1, <2>2, Cached, LookedUpIs
  <2>4. /\ Fields \subseteq DOMAIN g /\ g.table = f.table /\ g.size = f.size /\ g.owned = f.owned
        /\ g.cached = f.cached
        /\ g.folders = With(With(f.folders, << >>, asked), above, found)
    BY <1>1, <2>1 DEF ImageType, Fields
  <2> HIDE DEF g, asked
  <2>5. /\ DOMAIN g.folders = DOMAIN f.folders \union {above}
        /\ g.folders[above] = found /\ g.folders[<< >>] = asked
        /\ \A p \in DOMAIN f.folders : p # << >> => g.folders[p] = f.folders[p]
    BY <1>3, <2>2, <2>4 DEF With
  <2>6. /\ {"start", "sizes"} \subseteq DOMAIN found /\ found.start = NodeAt(f, above).start
        /\ DOMAIN found.sizes = {}
    OBVIOUS
  <2> HIDE DEF found
  <2>7. NodeAt(f, above) = [type |-> "folder", start |-> found.start]
    <3>1. NodeAt(f, above) \in Entry \union {RootNode}
      BY <1>1, NodeType, NoInfoIs
    <3> QED BY <1>1, <2>6, <3>1 DEF Entry, RootNode
  <2>8. ASSUME NEW p \in DOMAIN g.folders
        PROVE  /\ Object(g, p)
               /\ p \in DOMAIN f.folders => g.folders[p].start = f.folders[p].start
               /\ p \notin DOMAIN f.folders => NodeAt(f, p) = [type |-> "folder", start |-> g.folders[p].start]
    <3>1. CASE p = above
      BY <1>3, <2>5, <2>6, <2>7, <3>1 DEF Object
    <3>2. CASE p = << >>
      BY <2>2, <2>3, <2>5, <3>2 DEF Object, InfosOf
    <3>3. CASE p # above /\ p # << >>
      BY <2>5, <3>3 DEF Object, CacheInv
    <3> QED BY <3>1, <3>2, <3>3
  <2>9. ASSUME NEW p \in DOMAIN g.folders, NEW n \in DOMAIN g.folders[p].sizes
        PROVE  \/ /\ p \in DOMAIN f.folders /\ n \in DOMAIN f.folders[p].sizes
                  /\ g.folders[p].sizes[n] = f.folders[p].sizes[n]
               \/ LET e == At(f, g.folders[p].start, n)
                  IN  n \in Name /\ e.type = "file" /\ g.folders[p].sizes[n] = f.size[e.start]
    <3>1. CASE p = above
      BY <2>5, <2>6, <3>1
    <3>2. CASE p = << >>
      BY <2>2, <2>3, <2>5, <3>2 DEF InfosOf
    <3>3. CASE p # above /\ p # << >>
      BY <2>5, <3>3
    <3> QED BY <3>1, <3>2, <3>3
  <2>10. DOMAIN g.folders \subseteq Seq(Name) /\ DOMAIN f.folders \subseteq DOMAIN g.folders
    BY <1>1, <2>5 DEF CacheInv
  <2>11. Looked(f, g)
    BY <2>4, <2>8, <2>9, <2>10 DEF Looked
  <2> QED BY <2>4, <2>5, <2>6, <2>11 DEF g
<1> QED BY <1>2, <1>3

(* Its infos alone are what a look-up changes of an object. *)
LEMMA ObjectLooked ==
    ASSUME NEW f, ImageType(f), CacheInv(f), NEW g, NEW p \in DOMAIN f.folders, NEW after,
           InfosOf(f, f.folders[p], after), DOMAIN g = DOMAIN f,
           g.table = f.table, g.size = f.size, g.owned = f.owned,
           g.folders = [f.folders EXCEPT ![p] = after]
    PROVE  Looked(f, g)
<1>1. DOMAIN g.folders = DOMAIN f.folders /\ g.folders[p] = after
      /\ \A q \in DOMAIN f.folders : q # p => g.folders[q] = f.folders[q]
    OBVIOUS
<1>2. Fields \subseteq DOMAIN g /\ DOMAIN g.folders \subseteq Seq(Name)
    BY <1>1 DEF TreeInv, ImageType, CacheInv
<1>3. ASSUME NEW q \in DOMAIN f.folders
      PROVE  Object(g, q) /\ g.folders[q].start = f.folders[q].start
    BY <1>1 DEF Object, InfosOf, CacheInv
<1>4. ASSUME NEW q \in DOMAIN f.folders, NEW n \in DOMAIN g.folders[q].sizes
      PROVE  \/ /\ q \in DOMAIN f.folders /\ n \in DOMAIN f.folders[q].sizes
                /\ g.folders[q].sizes[n] = f.folders[q].sizes[n]
             \/ LET e == At(f, g.folders[q].start, n)
                IN  n \in Name /\ e.type = "file" /\ g.folders[q].sizes[n] = f.size[e.start]
  <2>1. CASE q = p
    BY <1>1, <2>1 DEF InfosOf
  <2>2. CASE q # p
    BY <1>1, <2>2
  <2> QED BY <2>1, <2>2
<1> QED BY <1>1, <1>2, <1>3, <1>4 DEF Looked

LEMMA getInfoIs ==
    ASSUME NEW f, ImageType(f), CacheInv(f), NEW path \in Path, HasParent(f, path), NEW seen
    PROVE  LET g == getInfo(f, path, seen)
           IN  /\ Looked(f, g) /\ g.cached = f.cached
               /\ DOMAIN g.folders = DOMAIN f.folders \union {Front(path)}
               /\ g.folders[Front(path)].start = NodeAt(f, Front(path)).start
<1> DEFINE h == WithParent(f, path, seen)
<1> DEFINE g == getInfo(f, path, seen)
<1>1. /\ Looked(f, h) /\ h.cached = f.cached
      /\ DOMAIN h.folders = DOMAIN f.folders \union {Front(path)}
      /\ h.folders[Front(path)].start = NodeAt(f, Front(path)).start
    BY WithParentIs
<1>2. g = [h EXCEPT !.folders = [h.folders EXCEPT ![Front(path)] =
                                    LookedUp(f, h.folders[Front(path)], Last(path), seen)]]
    BY DEF getInfo
<1> HIDE DEF h, g
<1>3. ImageType(h) /\ CacheInv(h)
    BY <1>1, LookedImage
<1>4. /\ DOMAIN g = DOMAIN h /\ g.table = h.table /\ g.size = h.size /\ g.owned = h.owned
      /\ g.cached = h.cached
      /\ g.folders = [h.folders EXCEPT ![Front(path)] =
                            LookedUp(f, h.folders[Front(path)], Last(path), seen)]
    BY <1>2, <1>3 DEF ImageType, Fields
<1>5. InfosOf(h, h.folders[Front(path)], LookedUp(f, h.folders[Front(path)], Last(path), seen))
  <2>1. InfosOf(f, h.folders[Front(path)], LookedUp(f, h.folders[Front(path)], Last(path), seen))
    BY <1>1, <1>3, Cached, LookedUpIs
  <2>2. h.table = f.table /\ h.size = f.size
    BY <1>1 DEF Looked
  <2> QED BY <2>1, <2>2 DEF InfosOf, At
<1>6. Looked(h, g)
    BY <1>1, <1>3, <1>4, <1>5, ObjectLooked
<1>7. Looked(f, g)
    BY <1>1, <1>6, LookedTwice
<1>8. DOMAIN g.folders = DOMAIN h.folders /\ g.folders[Front(path)].start = h.folders[Front(path)].start
    BY <1>1, <1>4, <1>5 DEF InfosOf
<1> QED BY <1>1, <1>4, <1>7, <1>8 DEF g

LEMMA listFolderIs ==
    ASSUME NEW f, ImageType(f), CacheInv(f), NEW path \in Path \union {<< >>},
           path # << >> => HasParent(f, path), NEW seen
    PROVE  Looked(f, listFolder(f, path, seen)) /\ listFolder(f, path, seen).cached = f.cached
<1>1. CASE path # << >>
  <2>1. listFolder(f, path, seen) = getInfo(f, path, seen)
    BY <1>1 DEF listFolder
  <2> QED BY <1>1, <2>1, getInfoIs
<1>2. CASE path = << >>
  <2> DEFINE files == {n \in DOMAIN f.table[Root] : f.table[Root][n].type = "file"}
  <2> DEFINE g == listFolder(f, path, seen)
  <2>1. << >> \in DOMAIN f.folders /\ ImageType(f)
    BY DEF CacheInv, TreeInv
  <2>2. g = [f EXCEPT !.folders = [f.folders EXCEPT ![<< >>] = InfosMade(f, f.folders[<< >>], files)]]
    BY <1>2 DEF listFolder
  <2>3. InfosOf(f, f.folders[<< >>], InfosMade(f, f.folders[<< >>], files))
    BY <2>1, Cached, InfosMadeIs
  <2> HIDE DEF g
  <2>4. /\ DOMAIN g = DOMAIN f /\ g.table = f.table /\ g.size = f.size /\ g.owned = f.owned
        /\ g.cached = f.cached
        /\ g.folders = [f.folders EXCEPT ![<< >>] = InfosMade(f, f.folders[<< >>], files)]
    BY <2>1, <2>2 DEF ImageType, Fields
  <2>5. Looked(f, g)
    BY <2>1, <2>3, <2>4, ObjectLooked
  <2> QED BY <2>4, <2>5 DEF g
<1> QED BY <1>1, <1>2
-----------------------------------------------------------------------------
(* The operations.                                                         *)

(* The earliest of some blocks is one of them. *)
LEMMA EarliestIs ==
    ASSUME NEW S \in SUBSET Block, S # {}
    PROVE  Earliest(S) \in S
<1> DEFINE Less == {p \in Nat \X Nat : p[1] < p[2]}
<1>1. IsWellFoundedOn(Less, Nat)
    BY NatLessThanWellFounded DEF OpToRel
<1>2. S \subseteq Nat
    BY Constants
<1>3. PICK b \in S : \A c \in S : ~(<<c, b>> \in Less)
    <2> HIDE DEF Less
    <2> QED BY <1>1, <1>2, WFMin
<1>4. ASSUME NEW c \in S PROVE b <= c
  <2>1. b \in Nat /\ c \in Nat /\ ~(<<c, b>> \in Less)
    BY <1>2, <1>3
  <2>2. ~(c < b)
    BY <2>1
  <2> QED BY <2>1, <2>2
<1> QED BY <1>4 DEF Earliest

(* A table with an entry more. *)
LEMMA EntrySet ==
    ASSUME NEW f, ImageType(f), NEW b0 \in Start, NEW name \in Name, NEW e \in Entry, NEW g,
           DOMAIN g.table = Start, g.table[b0] = With(f.table[b0], name, e),
           \A b \in Start : b # b0 => g.table[b] = f.table[b]
    PROVE  /\ DOMAIN g.table = Start
           /\ \A b \in Start :
                /\ DOMAIN g.table[b] \subseteq Name
                /\ \A n \in DOMAIN g.table[b] : g.table[b][n] \in Entry
           /\ \A b \in Start, n \in Name : At(g, b, n) = IF b = b0 /\ n = name THEN e ELSE At(f, b, n)
<1>1. /\ DOMAIN f.table = Start
      /\ \A b \in Start :
        /\ DOMAIN f.table[b] \subseteq Name
        /\ \A n \in DOMAIN f.table[b] : f.table[b][n] \in Entry
    BY DEF ImageType
<1>2. /\ DOMAIN g.table[b0] = DOMAIN f.table[b0] \union {name}
      /\ \A n \in DOMAIN g.table[b0] : g.table[b0][n] = IF n = name THEN e ELSE f.table[b0][n]
    BY DEF With
<1>3. ASSUME NEW b \in Start
      PROVE  /\ DOMAIN g.table[b] \subseteq Name
             /\ \A n \in DOMAIN g.table[b] : g.table[b][n] \in Entry
    BY <1>1, <1>2
<1>4. ASSUME NEW b \in Start, NEW n \in Name
      PROVE  At(g, b, n) = IF b = b0 /\ n = name THEN e ELSE At(f, b, n)
    BY <1>1, <1>2 DEF At, EntryIn
<1> QED BY <1>3, <1>4

(* A table without an entry. *)
LEMMA EntryTaken ==
    ASSUME NEW f, ImageType(f), NEW b0 \in Start, NEW name \in Name, NEW g,
           DOMAIN g.table = Start,
           DOMAIN g.table[b0] = DOMAIN f.table[b0] \ {name},
           \A n \in DOMAIN g.table[b0] : g.table[b0][n] = f.table[b0][n],
           \A b \in Start : b # b0 => g.table[b] = f.table[b]
    PROVE  /\ DOMAIN g.table = Start
           /\ \A b \in Start :
                /\ DOMAIN g.table[b] \subseteq Name
                /\ \A n \in DOMAIN g.table[b] : g.table[b][n] \in Entry
           /\ \A b \in Start, n \in Name : At(g, b, n) = IF b = b0 /\ n = name THEN NoInfo ELSE At(f, b, n)
<1>1. /\ DOMAIN f.table = Start
      /\ \A b \in Start :
        /\ DOMAIN f.table[b] \subseteq Name
        /\ \A n \in DOMAIN f.table[b] : f.table[b][n] \in Entry
    BY DEF ImageType
<1>2. ASSUME NEW b \in Start
      PROVE  /\ DOMAIN g.table[b] \subseteq Name
             /\ \A n \in DOMAIN g.table[b] : g.table[b][n] \in Entry
    BY <1>1
<1>3. ASSUME NEW b \in Start, NEW n \in Name
      PROVE  At(g, b, n) = IF b = b0 /\ n = name THEN NoInfo ELSE At(f, b, n)
    BY <1>1 DEF At, EntryIn
<1> QED BY <1>2, <1>3

(* addFile and addFolder. *)
AddedTo(f, path, new, g) ==
    /\ new \in Entry /\ new.start \notin f.owned
    /\ NodeAt(f, path) = NoInfo
    /\ \A q \in Seq(Name) : NodeAt(g, q) = IF q = path THEN new ELSE NodeAt(f, q)
    /\ \A b \in Start, m \in Name :
        At(g, b, m) = IF b = NodeAt(f, Front(path)).start /\ m = Last(path) THEN new ELSE At(f, b, m)
    /\ g.size = f.size /\ g.owned = f.owned \union {new.start} /\ g.cached = f.cached
    /\ TreeInv(g) /\ CacheInv(g)

LEMMA AddedIs ==
    ASSUME NEW f, TreeInv(f), CacheInv(f), NEW path \in Path, CanAdd(f, path), NEW type \in {"file", "folder"}
    PROVE  LET g == Added(f, path, type)
               new == [type |-> type, start |-> Earliest(Block \ f.owned)]
           IN  /\ AddedTo(f, path, new, g)
               /\ \E h : Looked(f, h) /\ g.folders = h.folders
<1> DEFINE g == Added(f, path, type)
<1> DEFINE new == [type |-> type, start |-> Earliest(Block \ f.owned)]
<1> DEFINE h == getInfo(f, path, {})
<1> DEFINE b0 == NodeAt(f, Front(path)).start
<1>1. HasParent(f, path) /\ EntryInfo(f, path) = NoInfo /\ Block \ f.owned # {}
    BY DEF CanAdd
<1>2. new \in Entry /\ new.start \notin f.owned /\ new.start \in Block
    BY <1>1, EarliestIs DEF Entry
<1>3. /\ Looked(f, h) /\ h.cached = f.cached /\ h.folders[Front(path)].start = b0
    BY <1>1, getInfoIs DEF TreeInv
<1>4. /\ NodeAt(f, Front(path)).type = "folder" /\ b0 \in Start /\ NodeAt(f, path) = NoInfo
      /\ path \in Seq(Name) /\ path # << >> /\ Front(path) \in Seq(Name) /\ Last(path) \in Name
    BY <1>1, EntryIs DEF TreeInv
<1>5. g = [h EXCEPT !.table = [h.table EXCEPT ![h.folders[Front(path)].start] =
                                    With(h.table[h.folders[Front(path)].start], Last(path), new)],
                    !.owned = h.owned \union {new.start}]
    BY DEF Added, ParentOf
<1>6. b0 = NodeAt(f, Front(path)).start
    OBVIOUS
<1> HIDE DEF g, h, new, b0
<1>7. TreeInv(h) /\ CacheInv(h) /\ \A p \in Seq(Name) : NodeAt(h, p) = NodeAt(f, p)
    BY <1>3, LookedKeeps
<1>8. /\ DOMAIN g = DOMAIN h
      /\ g.table = [h.table EXCEPT ![b0] = With(h.table[b0], Last(path), new)]
      /\ g.owned = h.owned \union {new.start}
      /\ g.size = h.size /\ g.folders = h.folders /\ g.cached = h.cached
    BY <1>3, <1>5, <1>7 DEF TreeInv, ImageType, Fields
<1>9. h.table = f.table /\ h.size = f.size /\ h.owned = f.owned
    BY <1>3 DEF Looked
<1>10. g.table = [f.table EXCEPT ![b0] = With(f.table[b0], Last(path), new)]
    BY <1>8, <1>9
<1>11. /\ DOMAIN g.table = Start
       /\ \A b \in Start :
            /\ DOMAIN g.table[b] \subseteq Name
            /\ \A n \in DOMAIN g.table[b] : g.table[b][n] \in Entry
       /\ \A b \in Start, n \in Name : At(g, b, n) = IF b = b0 /\ n = Last(path) THEN new ELSE At(f, b, n)
  <2>1. ImageType(f) /\ DOMAIN f.table = Start
    BY DEF TreeInv, ImageType
  <2>2. /\ DOMAIN g.table = Start /\ g.table[b0] = With(f.table[b0], Last(path), new)
        /\ \A b \in Start : b # b0 => g.table[b] = f.table[b]
    BY <1>4, <1>10, <2>1
  <2> QED BY <1>2, <1>4, <2>1, <2>2, EntrySet
<1>12. ImageType(g)
    BY <1>2, <1>7, <1>8, <1>9, <1>11 DEF TreeInv, ImageType
<1>13. /\ \A q \in Seq(Name) : NodeAt(g, q) = IF q = path THEN new ELSE NodeAt(f, q)
       /\ TreeInv(g)
    BY <1>2, <1>4, <1>6, <1>8, <1>9, <1>11, <1>12, SlotAdded
<1>14. CacheInv(g)
  <2>1. ASSUME NEW p \in DOMAIN g.folders
        PROVE  Object(g, p) /\ NodeAt(g, p) = [type |-> "folder", start |-> g.folders[p].start]
    <3>1. p \in DOMAIN h.folders /\ p \in Seq(Name)
      BY <1>7, <1>8 DEF CacheInv
    <3>2. Object(h, p) /\ NodeAt(f, p) = [type |-> "folder", start |-> h.folders[p].start]
      BY <1>7, <3>1 DEF CacheInv
    <3>3. p # path
      BY <1>4, <3>2, NoInfoIs
    <3> QED BY <1>8, <1>13, <3>1, <3>2, <3>3 DEF Object
  <2> QED BY <1>7, <1>8, <2>1 DEF CacheInv
<1>15. AddedTo(f, path, new, g)
    BY <1>2, <1>3, <1>4, <1>6, <1>8, <1>9, <1>11, <1>13, <1>14 DEF AddedTo
<1> QED BY <1>3, <1>8, <1>15 DEF g, new

(* Objects of the same folders, with whatever infos. *)
LEMMA ObjectsSame ==
    ASSUME NEW f, NEW g, TreeInv(f), CacheInv(f), Fields \subseteq DOMAIN g,
           g.table = f.table, g.owned = f.owned, g.size \in [Block -> 0 .. MaxSize],
           DOMAIN g.folders \subseteq DOMAIN f.folders, << >> \in DOMAIN g.folders,
           \A p \in DOMAIN g.folders : Object(g, p) /\ g.folders[p].start = f.folders[p].start
    PROVE  /\ TreeInv(g) /\ CacheInv(g)
           /\ \A p \in Seq(Name) : NodeAt(g, p) = NodeAt(f, p)
           /\ \A b, n : At(g, b, n) = At(f, b, n)
<1>1. \A p \in Seq(Name) : NodeAt(g, p) = NodeAt(f, p)
    BY NodeSame
<1>2. TreeInv(g)
    BY TreeSame
<1>3. CacheInv(g)
  <2>1. ASSUME NEW p \in DOMAIN g.folders
        PROVE  p \in Seq(Name) /\ NodeAt(g, p) = [type |-> "folder", start |-> g.folders[p].start]
    <3>1. p \in Seq(Name) /\ NodeAt(f, p) = [type |-> "folder", start |-> f.folders[p].start]
      BY DEF CacheInv
    <3> QED BY <1>1, <3>1
  <2> QED BY <2>1 DEF CacheInv
<1> QED BY <1>1, <1>2, <1>3 DEF At

LEMMA NoFileIs ==
    ASSUME NEW c \in CachedFile
    PROVE  /\ c # NoFile /\ c.path \in Path /\ c.of \in Path /\ c.start \in Block /\ c.size \in Nat
           /\ c.mode \in {"readOnly", "append", "overwrite"} /\ c.cut \in BOOLEAN /\ c.reports \in BOOLEAN
<1>1. c.path # << >>
    BY PathIs, EmptySeq DEF CachedFile
<1> QED BY <1>1 DEF CachedFile, NoFile

(* openFile: the object it hands out is the cached one, or a new one. *)
OpenedTo(f, path, mode, g) ==
    /\ Looked(f, g)
    /\ IsCached(f, path, mode) =>
        /\ g.cached = f.cached
        /\ \A n \in DOMAIN g.folders[Front(path)].sizes :
            Front(path) \in DOMAIN f.folders /\ n \in DOMAIN f.folders[Front(path)].sizes
    /\ ~IsCached(f, path, mode) =>
        LET start == NodeAt(f, path).start
        IN  /\ NodeAt(f, path) = [type |-> "file", start |-> start] /\ start \in Block
            /\ g.cached = [path |-> IF f.cached = NoFile THEN path ELSE f.cached.path,
                           of |-> path, start |-> start, mode |-> mode,
                           size |-> f.size[start], cut |-> FALSE, reports |-> TRUE]
    /\ g.cached \in CachedFile

LEMMA setCachedFileIs ==
    ASSUME NEW f, TreeInv(f), CacheInv(f), CachedType(f), NEW path \in Path,
           NEW mode \in {"readOnly", "append", "overwrite"}, CanOpen(f, path, mode), NEW seen
    PROVE  OpenedTo(f, path, mode, setCachedFile(f, path, mode, seen))
<1> DEFINE g == setCachedFile(f, path, mode, seen)
<1>1. HasParent(f, path)
    BY DEF CanOpen
<1>2. CASE IsCached(f, path, mode)
  <2>1. g = WithParent(f, path, seen)
    BY <1>2 DEF setCachedFile
  <2>2. g.cached \in CachedFile
    BY <1>1, <1>2, <2>1, WithParentIs DEF CachedType, IsCached, TreeInv
  <2> QED BY <1>1, <1>2, <2>1, <2>2, WithParentIs DEF OpenedTo, TreeInv
<1>3. CASE ~IsCached(f, path, mode)
  <2> DEFINE h == getInfo(f, path, seen)
  <2> DEFINE start == NodeAt(f, path).start
  <2> DEFINE new == [path |-> IF f.cached = NoFile THEN path ELSE f.cached.path,
                     of |-> path, start |-> start, mode |-> mode,
                     size |-> f.size[start], cut |-> FALSE, reports |-> TRUE]
  <2>1. EntryInfo(f, path) = NodeAt(f, path) /\ EntryInfo(f, path).type = "file" /\ path \in Seq(Name)
    BY <1>1, <1>3, EntryIs DEF CanOpen, TreeInv
  <2>2. g = [h EXCEPT !.cached = new]
    BY <1>3, <2>1 DEF setCachedFile
  <2>3. Looked(f, h)
    BY <1>1, getInfoIs DEF TreeInv
  <2>4. NodeAt(f, path) = [type |-> "file", start |-> start] /\ start \in Block
    <3>1. NodeAt(f, path) \in Entry
      BY <2>1, NodeType, NoInfoIs DEF TreeInv
    <3> QED BY <2>1, <3>1 DEF Entry
  <2>5. new \in CachedFile
    <3>1. f.size[start] \in Nat
      BY <2>4, Constants DEF TreeInv, ImageType
    <3>2. f.cached # NoFile => f.cached.path \in Path
      BY NoFileIs DEF CachedType
    <3> QED BY <2>4, <3>1, <3>2 DEF CachedFile
  <2>6. start = NodeAt(f, path).start
    OBVIOUS
  <2> HIDE DEF g, h, start
  <2>7. DOMAIN g = DOMAIN h /\ g.cached = new /\ g.table = h.table /\ g.size = h.size
        /\ g.owned = h.owned /\ g.folders = h.folders
    BY <2>2, <2>3 DEF Looked, Fields
  <2>8. Looked(f, g)
    BY <2>3, <2>7 DEF Looked, Object
  <2> HIDE DEF new
  <2>9. OpenedTo(f, path, mode, g) <=>
            Looked(f, g) /\ NodeAt(f, path) = [type |-> "file", start |-> start] /\ start \in Block
            /\ g.cached = new /\ g.cached \in CachedFile
    BY <1>3, <2>6 DEF OpenedTo, new
  <2> QED BY <2>4, <2>5, <2>7, <2>8, <2>9 DEF g
<1> QED BY <1>2, <1>3

(* write and flush: the file has grown, and so has the size in the info    *)
(* that the object reports to.                                             *)
WrittenTo(f, g) ==
    LET c == f.cached
    IN  /\ g.table = f.table /\ g.owned = f.owned
        /\ g.size = [f.size EXCEPT ![c.start] = @ + 1]
        /\ g.cached = [c EXCEPT !.size = @ + 1]
        /\ DOMAIN g.folders = DOMAIN f.folders
        /\ \A p \in DOMAIN f.folders :
            /\ g.folders[p].start = f.folders[p].start
            /\ DOMAIN g.folders[p].sizes = DOMAIN f.folders[p].sizes
            /\ \A n \in DOMAIN f.folders[p].sizes :
                g.folders[p].sizes[n] =
                    IF c.reports /\ p = Front(c.of) /\ n = Last(c.of) THEN c.size + 1
                    ELSE f.folders[p].sizes[n]
        /\ TreeInv(g) /\ CacheInv(g)

LEMMA WrittenIs ==
    ASSUME NEW f, TreeInv(f), CacheInv(f), f.cached \in CachedFile, f.size[f.cached.start] < MaxSize
    PROVE  WrittenTo(f, Written(f))
<1> DEFINE c == f.cached
<1> DEFINE g == Written(f)
<1> DEFINE grown == [f EXCEPT !.size = [f.size EXCEPT ![c.start] = @ + 1],
                              !.cached = [c EXCEPT !.size = @ + 1]]
<1>1. /\ DOMAIN grown = DOMAIN f
      /\ grown.table = f.table /\ grown.owned = f.owned /\ grown.folders = f.folders
      /\ grown.size = [f.size EXCEPT ![c.start] = @ + 1]
      /\ grown.cached = [c EXCEPT !.size = @ + 1]
    BY DEF TreeInv, ImageType, Fields
<1>2. g = IF c.reports THEN [grown EXCEPT !.folders[Front(c.of)].sizes[Last(c.of)] = c.size + 1] ELSE grown
    BY Zenon DEF Written
<1> DEFINE object == f.folders[Front(c.of)]
<1> DEFINE infos == object.sizes
<1> HIDE DEF grown, g
<1>3. /\ DOMAIN g = DOMAIN f
      /\ g.table = f.table /\ g.owned = f.owned
      /\ g.size = [f.size EXCEPT ![c.start] = @ + 1]
      /\ g.cached = [c EXCEPT !.size = @ + 1]
      /\ g.folders = IF c.reports
                     THEN [f.folders EXCEPT ![Front(c.of)] =
                            [object EXCEPT !.sizes = [infos EXCEPT ![Last(c.of)] = c.size + 1]]]
                     ELSE f.folders
  <2>1. CASE c.reports
    <3>1. g = [grown EXCEPT !.folders =
                [grown.folders EXCEPT ![Front(c.of)] =
                    [grown.folders[Front(c.of)] EXCEPT !.sizes =
                        [grown.folders[Front(c.of)].sizes EXCEPT ![Last(c.of)] = c.size + 1]]]]
      BY <1>2, <2>1, Zenon
    <3>2. /\ DOMAIN g = DOMAIN grown
          /\ g.table = grown.table /\ g.owned = grown.owned /\ g.size = grown.size /\ g.cached = grown.cached
          /\ g.folders = [grown.folders EXCEPT ![Front(c.of)] =
                            [grown.folders[Front(c.of)] EXCEPT !.sizes =
                                [grown.folders[Front(c.of)].sizes EXCEPT ![Last(c.of)] = c.size + 1]]]
      BY <1>1, <3>1 DEF TreeInv, ImageType, Fields
    <3> QED BY <1>1, <2>1, <3>2
  <2>2. CASE ~c.reports
    BY <1>1, <1>2, <2>2
  <2> QED BY <2>1, <2>2
<1>4. DOMAIN g.folders = DOMAIN f.folders
    BY <1>3
<1>5. ASSUME NEW p \in DOMAIN f.folders
      PROVE  /\ Object(g, p)
             /\ g.folders[p].start = f.folders[p].start
             /\ DOMAIN g.folders[p].sizes = DOMAIN f.folders[p].sizes
             /\ \A n \in DOMAIN f.folders[p].sizes :
                 g.folders[p].sizes[n] =
                     IF c.reports /\ p = Front(c.of) /\ n = Last(c.of) THEN c.size + 1
                     ELSE f.folders[p].sizes[n]
  <2>1. {"start", "sizes"} \subseteq DOMAIN f.folders[p]
    BY DEF CacheInv, Object
  <2>2. CASE c.reports /\ p = Front(c.of)
    <3>1. g.folders[p] = [f.folders[p] EXCEPT !.sizes = [f.folders[p].sizes EXCEPT ![Last(c.of)] = c.size + 1]]
      BY <1>3, <2>2
    <3>2. /\ DOMAIN g.folders[p] = DOMAIN f.folders[p] /\ g.folders[p].start = f.folders[p].start
          /\ g.folders[p].sizes = [f.folders[p].sizes EXCEPT ![Last(c.of)] = c.size + 1]
      BY <2>1, <3>1
    <3> QED BY <2>1, <2>2, <3>2 DEF Object
  <2>3. CASE ~(c.reports /\ p = Front(c.of))
    <3>1. g.folders[p] = f.folders[p]
      BY <1>3, <2>3
    <3> QED BY <2>1, <2>3, <3>1 DEF Object
  <2> QED BY <2>2, <2>3
<1>6. g.size \in [Block -> 0 .. MaxSize]
  <2>1. f.size \in [Block -> 0 .. MaxSize] /\ c.start \in Block
    BY NoFileIs DEF TreeInv, ImageType
  <2>2. f.size[c.start] + 1 \in 0 .. MaxSize
    BY <2>1, Constants
  <2> QED BY <1>3, <2>1, <2>2
<1>7. TreeInv(g) /\ CacheInv(g)
  <2>1. Fields \subseteq DOMAIN g /\ << >> \in DOMAIN g.folders
    BY <1>3, <1>4 DEF TreeInv, ImageType, CacheInv
  <2> QED BY <1>3, <1>4, <1>5, <1>6, <2>1, ObjectsSame
<1> QED BY <1>3, <1>4, <1>5, <1>7 DEF WrittenTo, g

(* truncateFile, after the object h it is handed. *)
TruncatedTo(h, size, g) ==
    /\ g.table = h.table /\ g.owned = h.owned /\ g.folders = h.folders
    /\ g.size = [h.size EXCEPT ![h.cached.start] = size]
    /\ g.cached = [h.cached EXCEPT !.cut = TRUE]
    /\ TreeInv(g) /\ CacheInv(g)

LEMMA truncateFileIs ==
    ASSUME NEW f, NEW path, NEW size \in 0 .. MaxSize, NEW seen,
           NEW h, h = setCachedFile(f, path, "overwrite", seen),
           TreeInv(h), CacheInv(h), h.cached \in CachedFile
    PROVE  TruncatedTo(h, size, truncateFile(f, path, size, seen))
<1> DEFINE g == truncateFile(f, path, size, seen)
<1>1. g = [h EXCEPT !.size = [h.size EXCEPT ![h.cached.start] = size], !.cached = [h.cached EXCEPT !.cut = TRUE]]
    BY Zenon DEF truncateFile
<1> HIDE DEF g
<1>2. /\ DOMAIN g = DOMAIN h /\ g.table = h.table /\ g.owned = h.owned /\ g.folders = h.folders
      /\ g.size = [h.size EXCEPT ![h.cached.start] = size]
      /\ g.cached = [h.cached EXCEPT !.cut = TRUE]
    BY <1>1 DEF TreeInv, ImageType, Fields
<1>3. g.size \in [Block -> 0 .. MaxSize]
    BY <1>2 DEF TreeInv, ImageType
<1>4. TreeInv(g) /\ CacheInv(g)
  <2>1. Fields \subseteq DOMAIN g /\ << >> \in DOMAIN g.folders
    BY <1>2 DEF TreeInv, ImageType, CacheInv
  <2>2. \A p \in DOMAIN g.folders : Object(g, p) /\ g.folders[p].start = h.folders[p].start
    BY <1>2 DEF CacheInv, Object
  <2> QED BY <1>2, <1>3, <2>1, <2>2, ObjectsSame
<1> QED BY <1>2, <1>4 DEF TruncatedTo, g

(* The cached pair stays, though nothing may listen to it any more. *)
PairStays(f, g) ==
    \/ g.cached = f.cached
    \/ f.cached # NoFile /\ g.cached = [f.cached EXCEPT !.reports = FALSE]

(* Folder objects are dropped, and the cached pair may be. *)
Trimmed(f, g) ==
    /\ DOMAIN g = DOMAIN f /\ g.table = f.table /\ g.size = f.size /\ g.owned = f.owned
    /\ << >> \in DOMAIN f.folders => << >> \in DOMAIN g.folders
    /\ DOMAIN g.folders \subseteq DOMAIN f.folders
    /\ \A p \in DOMAIN g.folders : g.folders[p] = f.folders[p]

(* The folders removeFolderFromCache drops. *)
Lists(f, p, name) ==
    LET entries == f.table[f.folders[p].start]
    IN  name \in DOMAIN entries /\ entries[name].type = "folder"

Dropped(f, path) ==
    {q \in DOMAIN f.folders :
        /\ IsPrefix(path, q)
        /\ \A k \in Len(path) .. Len(q) :
            /\ SubSeq(q, 1, k) \in DOMAIN f.folders \ {<< >>}
            /\ k < Len(q) => Lists(f, SubSeq(q, 1, k), q[k + 1])}

LEMMA removeFolderFromCacheIs ==
    ASSUME NEW f, Fields \subseteq DOMAIN f, NEW path \in Seq(Name)
    PROVE  LET g == removeFolderFromCache(f, path)
           IN  /\ Trimmed(f, g) /\ PairStays(f, g)
               /\ DOMAIN g.folders = DOMAIN f.folders \ Dropped(f, path)
<1> DEFINE g == removeFolderFromCache(f, path)
<1>1. g = [f EXCEPT
            !.folders = [p \in DOMAIN f.folders \ Dropped(f, path) |-> f.folders[p]],
            !.cached = IF f.cached # NoFile /\ Front(f.cached.of) \in Dropped(f, path)
                       THEN [f.cached EXCEPT !.reports = FALSE] ELSE f.cached]
    BY DEF removeFolderFromCache, Dropped, Lists
<1>2. << >> \notin Dropped(f, path)
  <2> SUFFICES ASSUME << >> \in Dropped(f, path) PROVE FALSE
    OBVIOUS
  <2>1. << >> \in Seq(Name) /\ Len(<< >>) = 0
    BY EmptySeq
  <2>2. path = << >>
    BY <2>1, PrefixOrder DEF Dropped
  <2>3. SubSeq(<< >>, 1, 0) = << >>
    BY <2>1, SubSeqFull
  <2>4. 0 \in Len(path) .. Len(<< >>)
    BY <2>1, <2>2
  <2>5. SubSeq(<< >>, 1, 0) # << >>
    BY <2>4 DEF Dropped
  <2> QED BY <2>3, <2>5
<1> HIDE DEF g
<1>3. /\ DOMAIN g = DOMAIN f /\ g.table = f.table /\ g.size = f.size /\ g.owned = f.owned
      /\ g.folders = [p \in DOMAIN f.folders \ Dropped(f, path) |-> f.folders[p]]
      /\ g.cached = IF f.cached # NoFile /\ Front(f.cached.of) \in Dropped(f, path)
                    THEN [f.cached EXCEPT !.reports = FALSE] ELSE f.cached
    BY <1>1 DEF Fields
<1> QED BY <1>2, <1>3 DEF Trimmed, PairStays, g

LEMMA resetCachedFileIs ==
    ASSUME NEW f, Fields \subseteq DOMAIN f, NEW path
    PROVE  LET g == resetCachedFile(f, path)
           IN  /\ Trimmed(f, g) /\ g.folders = f.folders
               /\ g.cached = IF f.cached # NoFile /\ IsStrictPrefix(path, f.cached.path) THEN NoFile ELSE f.cached
BY DEF resetCachedFile, Trimmed, Fields

LEMMA TrimmedTwice ==
    ASSUME NEW f, NEW g, NEW h, Trimmed(f, g), Trimmed(g, h)
    PROVE  Trimmed(f, h)
BY DEF Trimmed

LEMMA PairStaysTwice ==
    ASSUME NEW f, NEW g, NEW h, f.cached = NoFile \/ f.cached \in CachedFile, PairStays(f, g), PairStays(g, h)
    PROVE  PairStays(f, h)
BY NoFileIs DEF PairStays, CachedFile

(* The entry of a path, and the info of it, are taken out of its folder. *)
EntryRemovedTo(u, path, g) ==
    /\ Fields \subseteq DOMAIN g /\ g.size = u.size /\ g.owned = u.owned
    /\ DOMAIN g.table = Start
    /\ \A b \in Start :
        /\ DOMAIN g.table[b] \subseteq Name
        /\ \A n \in DOMAIN g.table[b] : g.table[b][n] \in Entry
    /\ \A b \in Start, n \in Name :
        At(g, b, n) = IF b = NodeAt(u, Front(path)).start /\ n = Last(path) THEN NoInfo ELSE At(u, b, n)
    /\ DOMAIN g.folders = DOMAIN u.folders \union {Front(path)}
    /\ g.folders[Front(path)].start = NodeAt(u, Front(path)).start
    /\ Last(path) \notin DOMAIN g.folders[Front(path)].sizes
    /\ \E h :
        /\ Looked(u, h)
        /\ DOMAIN h.folders = DOMAIN g.folders
        /\ \A p \in DOMAIN h.folders :
            /\ Object(g, p) /\ g.folders[p].start = h.folders[p].start
            /\ DOMAIN g.folders[p].sizes \subseteq DOMAIN h.folders[p].sizes
            /\ \A n \in DOMAIN g.folders[p].sizes : g.folders[p].sizes[n] = h.folders[p].sizes[n]
    /\ PairStays(u, g)

LEMMA EntryRemovedIs ==
    ASSUME NEW u, ImageType(u), CacheInv(u), NEW path \in Path, HasParent(u, path), NEW seen
    PROVE  EntryRemovedTo(u, path, EntryRemoved(u, path, seen))
<1> DEFINE h == getInfo(u, path, seen)
<1> DEFINE g == EntryRemoved(u, path, seen)
<1> DEFINE above == Front(path)
<1> DEFINE b0 == NodeAt(u, above).start
<1> DEFINE cut == [h EXCEPT !.table = [h.table EXCEPT ![h.folders[above].start] =
                        [n \in DOMAIN h.table[h.folders[above].start] \ {Last(path)} |->
                            h.table[h.folders[above].start][n]]]]
<1>1. /\ Looked(u, h) /\ h.cached = u.cached
      /\ DOMAIN h.folders = DOMAIN u.folders \union {above}
      /\ h.folders[above].start = b0
    BY getInfoIs
<1>2. ImageType(h) /\ CacheInv(h) /\ h.table = u.table /\ h.size = u.size /\ h.owned = u.owned
    BY <1>1, LookedImage DEF Looked
<1>3. b0 \in Start /\ Last(path) \in Name
    BY EntryIs
<1>4. g = InfoDropped(cut, path)
    BY Zenon DEF EntryRemoved, ParentOf
<1>5. /\ DOMAIN cut = DOMAIN h /\ cut.size = h.size /\ cut.owned = h.owned /\ cut.folders = h.folders
      /\ cut.cached = h.cached
      /\ cut.table = [h.table EXCEPT ![h.folders[above].start] =
                        [n \in DOMAIN h.table[h.folders[above].start] \ {Last(path)} |->
                            h.table[h.folders[above].start][n]]]
    BY <1>2 DEF ImageType, Fields
<1>6. above = Front(path) /\ b0 = NodeAt(u, above).start
    OBVIOUS
<1> HIDE DEF cut, h, g, b0, above
<1>7. cut.table = [u.table EXCEPT ![b0] = [n \in DOMAIN u.table[b0] \ {Last(path)} |-> u.table[b0][n]]]
    BY <1>1, <1>2, <1>5
<1>8. /\ DOMAIN cut.table = Start
      /\ \A b \in Start :
            /\ DOMAIN cut.table[b] \subseteq Name
            /\ \A n \in DOMAIN cut.table[b] : cut.table[b][n] \in Entry
      /\ \A b \in Start, n \in Name : At(cut, b, n) = IF b = b0 /\ n = Last(path) THEN NoInfo ELSE At(u, b, n)
  <2>1. DOMAIN u.table = Start /\ DOMAIN cut.table = Start
    BY <1>7 DEF ImageType
  <2>2. /\ DOMAIN cut.table[b0] = DOMAIN u.table[b0] \ {Last(path)}
        /\ \A n \in DOMAIN cut.table[b0] : cut.table[b0][n] = u.table[b0][n]
        /\ \A b \in Start : b # b0 => cut.table[b] = u.table[b]
    BY <1>3, <1>7, <2>1
  <2> QED BY <1>3, <2>1, <2>2, EntryTaken
<1> DEFINE object == h.folders[above]
<1> DEFINE infos == object.sizes
<1> DEFINE pair == IF h.cached # NoFile /\ h.cached.of = path THEN [h.cached EXCEPT !.reports = FALSE] ELSE h.cached
<1>9. /\ DOMAIN g = DOMAIN cut /\ g.table = cut.table /\ g.size = cut.size /\ g.owned = cut.owned
      /\ g.folders = [h.folders EXCEPT ![above] =
                        [object EXCEPT !.sizes = [n \in DOMAIN infos \ {Last(path)} |-> infos[n]]]]
      /\ g.cached = pair
  <2>1. g = [cut EXCEPT
                !.folders = [cut.folders EXCEPT ![above] =
                    [cut.folders[above] EXCEPT !.sizes =
                        [n \in DOMAIN cut.folders[above].sizes \ {Last(path)} |-> cut.folders[above].sizes[n]]]],
                !.cached = IF cut.cached # NoFile /\ cut.cached.of = path
                           THEN [cut.cached EXCEPT !.reports = FALSE] ELSE cut.cached]
    BY <1>4, <1>6, Zenon DEF InfoDropped
  <2>2. {"folders", "cached", "table", "size", "owned"} \subseteq DOMAIN cut
    BY <1>2, <1>5 DEF ImageType, Fields
  <2>3. /\ DOMAIN g = DOMAIN cut /\ g.table = cut.table /\ g.size = cut.size /\ g.owned = cut.owned
        /\ g.folders = [cut.folders EXCEPT ![above] =
                    [cut.folders[above] EXCEPT !.sizes =
                        [n \in DOMAIN cut.folders[above].sizes \ {Last(path)} |-> cut.folders[above].sizes[n]]]]
        /\ g.cached = IF cut.cached # NoFile /\ cut.cached.of = path
                      THEN [cut.cached EXCEPT !.reports = FALSE] ELSE cut.cached
    BY <2>1, <2>2
  <2> QED BY <1>5, <2>3
<1>10. PairStays(u, g)
    BY <1>1, <1>9 DEF PairStays
<1>11. DOMAIN g.folders = DOMAIN h.folders
    BY <1>9
<1>12. ASSUME NEW p \in DOMAIN h.folders
       PROVE  /\ Object(g, p) /\ g.folders[p].start = h.folders[p].start
              /\ DOMAIN g.folders[p].sizes \subseteq DOMAIN h.folders[p].sizes
              /\ \A n \in DOMAIN g.folders[p].sizes : g.folders[p].sizes[n] = h.folders[p].sizes[n]
              /\ p = above => Last(path) \notin DOMAIN g.folders[p].sizes
  <2>1. {"start", "sizes"} \subseteq DOMAIN h.folders[p]
    BY <1>2 DEF CacheInv, Object
  <2>2. CASE p = above
    <3>1. g.folders[p] = [h.folders[p] EXCEPT !.sizes =
                            [n \in DOMAIN h.folders[p].sizes \ {Last(path)} |-> h.folders[p].sizes[n]]]
      BY <1>9, <2>2
    <3>2. /\ DOMAIN g.folders[p] = DOMAIN h.folders[p] /\ g.folders[p].start = h.folders[p].start
          /\ g.folders[p].sizes = [n \in DOMAIN h.folders[p].sizes \ {Last(path)} |-> h.folders[p].sizes[n]]
      BY <2>1, <3>1
    <3> QED BY <2>1, <3>2 DEF Object
  <2>3. CASE p # above
    <3>1. g.folders[p] = h.folders[p]
      BY <1>9, <2>3
    <3> QED BY <2>1, <2>3, <3>1 DEF Object
  <2> QED BY <2>2, <2>3
<1>13. Fields \subseteq DOMAIN g
    BY <1>2, <1>5, <1>9 DEF ImageType
<1>14. \A b, n : At(g, b, n) = At(cut, b, n)
    BY <1>9 DEF At
<1>15. /\ above \in DOMAIN h.folders
       /\ g.folders[above].start = b0 /\ Last(path) \notin DOMAIN g.folders[above].sizes
    BY <1>1, <1>12
<1>16. \E k :
        /\ Looked(u, k)
        /\ DOMAIN k.folders = DOMAIN g.folders
        /\ \A p \in DOMAIN k.folders :
            /\ Object(g, p) /\ g.folders[p].start = k.folders[p].start
            /\ DOMAIN g.folders[p].sizes \subseteq DOMAIN k.folders[p].sizes
            /\ \A n \in DOMAIN g.folders[p].sizes : g.folders[p].sizes[n] = k.folders[p].sizes[n]
    BY <1>1, <1>11, <1>12
<1>17. g.size = u.size /\ g.owned = u.owned /\ g.table = cut.table
    BY <1>2, <1>5, <1>9
<1>18. EntryRemovedTo(u, path, g)
    BY <1>1, <1>6, <1>8, <1>10, <1>11, <1>13, <1>14, <1>15, <1>16, <1>17 DEF EntryRemovedTo
<1> QED BY <1>18 DEF g

LEMMA GoneIs ==
    ASSUME NEW f, TreeInv(f), NEW path \in Path
    PROVE  /\ Gone(f, path) \subseteq f.owned
           /\ \A q \in Seq(Name) : NodeAt(f, q) # NoInfo =>
                (NodeAt(f, q).start \in Gone(f, path) <=> IsPrefix(path, q))
<1>1. path \in Seq(Name) /\ path # << >>
    BY PathIs, EmptySeq
<1>2. ASSUME NEW r \in Within(f, path)
      PROVE  r \in Seq(Name) /\ IsPrefix(path, r) /\ NodeAt(f, r) # NoInfo /\ r # << >>
    BY PathIs, EmptySeq DEF Within, Exists
<1>3. Gone(f, path) \subseteq f.owned
    BY <1>2, NodeOwned DEF TreeInv, Gone
<1>4. ASSUME NEW q \in Seq(Name), NodeAt(f, q) # NoInfo, IsPrefix(path, q)
      PROVE  NodeAt(f, q).start \in Gone(f, path)
  <2>1. q # << >>
    BY <1>1, <1>4, PrefixOrder
  <2>2. q \in Within(f, path)
    BY <1>4, <2>1, InPath DEF Within, Exists
  <2> QED BY <2>2 DEF Gone
<1>5. ASSUME NEW q \in Seq(Name), NodeAt(f, q) # NoInfo, NodeAt(f, q).start \in Gone(f, path)
      PROVE  IsPrefix(path, q)
  <2>1. PICK r \in Within(f, path) : NodeAt(f, q).start = NodeAt(f, r).start
    BY <1>5 DEF Gone
  <2>2. r = q
    BY <1>2, <1>5, <2>1, OnePath DEF TreeInv
  <2> QED BY <1>2, <2>2
<1> QED BY <1>3, <1>4, <1>5

LEMMA StrictIs ==
    ASSUME NEW p \in Seq(Name), NEW q \in Seq(Name)
    PROVE  IsStrictPrefix(p, q) <=> IsPrefix(p, q) /\ p # q
BY DEF IsStrictPrefix

(* The tables, sizes and blocks of what is at the path are given up; its   *)
(* entry is still there.                                                   *)
UnlinkedTo(f, path, u) ==
    /\ ImageType(u)
    /\ \A q \in Seq(Name) : ~IsStrictPrefix(path, q) => NodeAt(u, q) = NodeAt(f, q)
    /\ \A b \in Start, n \in Name : At(u, b, n) = IF b \in Gone(f, path) THEN NoInfo ELSE At(f, b, n)
    /\ u.owned = f.owned \ Gone(f, path)
    /\ u.size = [b \in Block |-> IF b \in Gone(f, path) THEN 0 ELSE f.size[b]]
    /\ u.folders = f.folders /\ u.cached = f.cached

LEMMA UnlinkedIs ==
    ASSUME NEW f, TreeInv(f), NEW path \in Path
    PROVE  UnlinkedTo(f, path, Unlinked(f, path))
<1> DEFINE u == Unlinked(f, path)
<1> DEFINE gone == Gone(f, path)
<1>1. path \in Seq(Name) /\ path # << >>
    BY PathIs, EmptySeq
<1>2. ImageType(f)
    BY DEF TreeInv
<1>3. gone \subseteq f.owned /\ gone \subseteq Block
    BY <1>2, GoneIs DEF ImageType
<1>4. u = [f EXCEPT !.table = [b \in DOMAIN f.table |-> IF b \in gone THEN << >> ELSE f.table[b]],
                    !.size = [b \in DOMAIN f.size |-> IF b \in gone THEN 0 ELSE f.size[b]],
                    !.owned = f.owned \ gone]
    BY DEF Unlinked, Gone
<1>5. gone = Gone(f, path)
    OBVIOUS
<1> HIDE DEF u, gone
<1>6. /\ DOMAIN u = DOMAIN f
      /\ u.table = [b \in Start |-> IF b \in gone THEN << >> ELSE f.table[b]]
      /\ u.size = [b \in Block |-> IF b \in gone THEN 0 ELSE f.size[b]]
      /\ u.owned = f.owned \ gone
      /\ u.folders = f.folders /\ u.cached = f.cached
    BY <1>2, <1>4 DEF ImageType, Fields
<1>7. ASSUME NEW b \in Start
      PROVE  u.table[b] = IF b \in gone THEN << >> ELSE f.table[b]
    BY <1>6
<1>8. DOMAIN << >> = {}
    OBVIOUS
<1>9. ASSUME NEW b \in Start, NEW n \in Name
      PROVE  At(u, b, n) = IF b \in gone THEN NoInfo ELSE At(f, b, n)
    BY <1>7, <1>8 DEF At, EntryIn
<1>10. ImageType(u)
  <2>1. Fields \subseteq DOMAIN u /\ DOMAIN u.table = Start /\ u.owned \subseteq Block
    BY <1>2, <1>6 DEF ImageType
  <2>2. u.size \in [Block -> 0 .. MaxSize]
    <3>1. f.size \in [Block -> 0 .. MaxSize] /\ 0 \in 0 .. MaxSize
      BY <1>2, Constants DEF ImageType
    <3> QED BY <1>6, <3>1
  <2>3. ASSUME NEW b \in Start
        PROVE  /\ DOMAIN u.table[b] \subseteq Name
               /\ \A n \in DOMAIN u.table[b] : u.table[b][n] \in Entry
    BY <1>2, <1>7, <1>8 DEF ImageType
  <2> QED BY <2>1, <2>2, <2>3 DEF ImageType
<1> DEFINE good == {q \in Seq(Name) : ~IsStrictPrefix(path, q) => NodeAt(u, q) = NodeAt(f, q)}
<1>11. << >> \in good
    BY EmptySeq, NodeStep
<1>12. ASSUME NEW q \in Seq(Name), q # << >>, Front(q) \in good PROVE q \in good
  <2> SUFFICES ASSUME ~IsStrictPrefix(path, q) PROVE NodeAt(u, q) = NodeAt(f, q)
    OBVIOUS
  <2>1. Front(q) \in Seq(Name) /\ Last(q) \in Name /\ ~IsPrefix(path, Front(q))
    BY <1>1, <1>12, FrontLast, PrefixFront, StrictIs
  <2>2. NodeAt(u, Front(q)) = NodeAt(f, Front(q))
    BY <1>1, <1>12, <2>1, StrictIs
  <2>3. CASE NodeAt(f, Front(q)).type # "folder"
    <3>1. NodeAt(u, q) = NoInfo
      BY <1>10, <1>12, <2>2, <2>3, NodeEntry
    <3>2. NodeAt(f, q) = NoInfo
      BY <1>2, <1>12, <2>3, NodeEntry
    <3> QED BY <3>1, <3>2
  <2>4. CASE NodeAt(f, Front(q)).type = "folder"
    <3> DEFINE b == NodeAt(f, Front(q)).start
    <3>1. b \in Start /\ NodeAt(f, q) = At(f, b, Last(q))
      BY <1>2, <1>12, <2>4, NodeEntry
    <3>2. NodeAt(u, q) = At(u, b, Last(q))
      BY <1>10, <1>12, <2>2, <2>4, NodeEntry
    <3>3. b \notin gone
      BY <1>5, <2>1, <2>4, GoneIs, NoInfoIs
    <3> HIDE DEF b
    <3> QED BY <1>9, <2>1, <3>1, <3>2, <3>3
  <2> QED BY <2>3, <2>4
<1>13. Seq(Name) \subseteq good
    <2> HIDE DEF good
    <2> QED BY <1>11, <1>12, PathInduction
<1>14. UnlinkedTo(f, path, u)
    BY <1>5, <1>6, <1>9, <1>10, <1>13 DEF UnlinkedTo
<1> QED BY <1>14 DEF u

(* The infos of one object. *)
InfosAt(f, p) ==
    \A n \in DOMAIN f.folders[p].sizes : n \in Name /\ At(f, f.folders[p].start, n).type = "file"

SizesAt(f, cut, p) ==
    \A n \in DOMAIN f.folders[p].sizes :
        LET start == At(f, f.folders[p].start, n).start
        IN  f.folders[p].sizes[n] = f.size[start] \/ start \in cut

(* The path is gone with what was below; its object, if it has one, is     *)
(* still in the cache.                                                     *)
RemovedTo(f, path, g) ==
    /\ TreeInv(g)
    /\ \A q \in Seq(Name) : NodeAt(g, q) = IF IsPrefix(path, q) THEN NoInfo ELSE NodeAt(f, q)
    /\ g.owned = f.owned \ Gone(f, path)
    /\ g.size = [b \in Block |-> IF b \in Gone(f, path) THEN 0 ELSE f.size[b]]
    /\ << >> \in DOMAIN g.folders /\ DOMAIN g.folders \subseteq Seq(Name)
    /\ DOMAIN g.folders \subseteq DOMAIN f.folders \union {Front(path)}
    /\ \A p \in DOMAIN g.folders :
        /\ Object(g, p) /\ ~IsStrictPrefix(path, p)
        /\ p # path => NodeAt(g, p) = [type |-> "folder", start |-> g.folders[p].start]
        /\ p # path /\ InfosInv(f) => InfosAt(g, p)
        /\ \A cut : p # path /\ InfosInv(f) /\ SizesInv(f, cut) => SizesAt(g, cut \intersect g.owned, p)

LEMMA RemovedIs ==
    ASSUME NEW f, TreeInv(f), CacheInv(f), NEW path \in Path, NodeAt(f, path) # NoInfo,
           \A q \in DOMAIN f.folders : ~IsStrictPrefix(path, q), NEW seen
    PROVE  LET g == EntryRemoved(Unlinked(f, path), path, seen)
           IN  RemovedTo(f, path, g) /\ PairStays(f, g)
<1> DEFINE u == Unlinked(f, path)
<1> DEFINE g == EntryRemoved(u, path, seen)
<1> DEFINE gone == Gone(f, path)
<1> DEFINE above == Front(path)
<1> DEFINE b0 == NodeAt(f, above).start
<1>1. UnlinkedTo(f, path, u)
    BY UnlinkedIs
<1>2. g = EntryRemoved(u, path, seen) /\ above = Front(path) /\ b0 = NodeAt(f, above).start /\ gone = Gone(f, path)
    OBVIOUS
<1> HIDE DEF u, g, gone, above, b0
<1>3. /\ ImageType(f) /\ path \in Seq(Name) /\ path # << >> /\ above \in Seq(Name) /\ Last(path) \in Name
      /\ ~IsPrefix(path, above) /\ ~IsPrefix(path, << >>)
  <2>1. path \in Seq(Name) /\ path # << >>
    BY PathIs, EmptySeq
  <2> QED BY <1>2, <2>1, FrontLast, PrefixFront, PrefixOrder DEF TreeInv
<1>4. NodeAt(f, above).type = "folder" /\ b0 \in Start
    BY <1>2, <1>3, NodeEntry
<1>5. /\ ImageType(u) /\ u.folders = f.folders /\ u.cached = f.cached /\ u.owned = f.owned \ gone
      /\ u.size = [b \in Block |-> IF b \in gone THEN 0 ELSE f.size[b]]
      /\ \A q \in Seq(Name) : ~IsStrictPrefix(path, q) => NodeAt(u, q) = NodeAt(f, q)
      /\ \A b \in Start, n \in Name : At(u, b, n) = IF b \in gone THEN NoInfo ELSE At(f, b, n)
    BY <1>1, <1>2 DEF UnlinkedTo
<1>6. CacheInv(u)
    BY <1>5 DEF CacheInv, Object
<1>7. NodeAt(u, above) = NodeAt(f, above)
    BY <1>3, <1>5, StrictIs
<1>8. HasParent(u, path)
    BY <1>2, <1>4, <1>7 DEF HasParent
<1>9. EntryRemovedTo(u, path, g)
    BY <1>2, <1>5, <1>6, <1>8, EntryRemovedIs
<1>10. /\ Fields \subseteq DOMAIN g /\ g.size = u.size /\ g.owned = u.owned
       /\ DOMAIN g.table = Start
       /\ \A b \in Start :
            /\ DOMAIN g.table[b] \subseteq Name
            /\ \A n \in DOMAIN g.table[b] : g.table[b][n] \in Entry
       /\ \A b \in Start, n \in Name : At(g, b, n) = IF b = b0 /\ n = Last(path) THEN NoInfo ELSE At(u, b, n)
       /\ DOMAIN g.folders = DOMAIN f.folders \union {above}
       /\ Last(path) \notin DOMAIN g.folders[above].sizes
    BY <1>2, <1>5, <1>7, <1>9 DEF EntryRemovedTo
<1>11. PairStays(f, g)
    BY <1>5, <1>9 DEF EntryRemovedTo, PairStays
<1>12. ImageType(g)
    BY <1>5, <1>10 DEF ImageType
<1>13. \A b \in Start, m \in Name :
            At(g, b, m) = IF b \in gone \/ (b = b0 /\ m = Last(path)) THEN NoInfo ELSE At(f, b, m)
    BY <1>5, <1>10
<1>14. /\ \A q \in Seq(Name) : NodeAt(g, q) = IF IsPrefix(path, q) THEN NoInfo ELSE NodeAt(f, q)
       /\ TreeInv(g)
  <2>2. g.owned = f.owned \ Gone(f, path)
    BY <1>2, <1>5, <1>10
  <2>3. \A b \in Start, m \in Name :
            At(g, b, m) = IF b \in Gone(f, path) \/ (b = NodeAt(f, Front(path)).start /\ m = Last(path))
                          THEN NoInfo ELSE At(f, b, m)
    BY <1>2, <1>13
  <2> QED BY <1>12, <2>2, <2>3, SlotsGone
<1>15. PICK h :
        /\ Looked(u, h)
        /\ DOMAIN h.folders = DOMAIN g.folders
        /\ \A p \in DOMAIN h.folders :
            /\ Object(g, p) /\ g.folders[p].start = h.folders[p].start
            /\ DOMAIN g.folders[p].sizes \subseteq DOMAIN h.folders[p].sizes
            /\ \A n \in DOMAIN g.folders[p].sizes : g.folders[p].sizes[n] = h.folders[p].sizes[n]
    BY <1>9 DEF EntryRemovedTo
<1>16. CacheInv(h) /\ \A q \in Seq(Name) : NodeAt(h, q) = NodeAt(u, q)
    BY <1>5, <1>6, <1>15, LookedImage
<1>17. << >> \in DOMAIN g.folders /\ DOMAIN g.folders \subseteq Seq(Name)
    BY <1>15, <1>16 DEF CacheInv
<1>18. ASSUME NEW p \in DOMAIN g.folders
       PROVE  /\ Object(g, p) /\ ~IsStrictPrefix(path, p) /\ p \in Seq(Name)
              /\ NodeAt(f, p) = [type |-> "folder", start |-> g.folders[p].start]
  <2>1. Object(g, p) /\ g.folders[p].start = h.folders[p].start /\ p \in Seq(Name)
    BY <1>15, <1>17
  <2>2. ~IsStrictPrefix(path, p)
    BY <1>3, <1>10, StrictIs
  <2>3. NodeAt(h, p) = [type |-> "folder", start |-> h.folders[p].start]
    BY <1>15, <1>16 DEF CacheInv
  <2>4. NodeAt(h, p) = NodeAt(f, p)
    BY <1>5, <1>16, <2>1, <2>2
  <2> QED BY <2>1, <2>2, <2>3, <2>4
<1>19. ASSUME NEW p \in DOMAIN g.folders, p # path
       PROVE  ~IsPrefix(path, p) /\ NodeAt(g, p) = [type |-> "folder", start |-> g.folders[p].start]
    BY <1>3, <1>14, <1>18, <1>19, StrictIs

(* What a look-up finds in a folder that stays. *)
<1>20. ASSUME NEW p \in DOMAIN g.folders, p # path, NEW n \in DOMAIN g.folders[p].sizes, InfosInv(f)
       PROVE  LET e == At(g, g.folders[p].start, n)
              IN  /\ n \in Name /\ e.type = "file" /\ e = At(f, g.folders[p].start, n)
                  /\ e.start \in g.owned /\ e.start \in Block /\ g.size[e.start] = f.size[e.start]
                  /\ \/ /\ p \in DOMAIN f.folders /\ n \in DOMAIN f.folders[p].sizes
                        /\ g.folders[p].start = f.folders[p].start
                        /\ g.folders[p].sizes[n] = f.folders[p].sizes[n]
                     \/ g.folders[p].sizes[n] = g.size[e.start]
  <2> DEFINE b == g.folders[p].start
  <2>1. /\ NodeAt(f, p).type = "folder" /\ NodeAt(f, p).start = b /\ NodeAt(f, p) # NoInfo
        /\ p \in Seq(Name) /\ ~IsPrefix(path, p)
    BY <1>18, <1>19, <1>20, NoInfoIs
  <2>2. b \in Start /\ b \notin gone
    BY <1>2, <2>1, FolderOwned, GoneIs
  <2>3. \/ /\ p \in DOMAIN f.folders /\ n \in DOMAIN f.folders[p].sizes
           /\ g.folders[p].sizes[n] = f.folders[p].sizes[n] /\ b = f.folders[p].start
        \/ n \in Name /\ At(u, b, n).type = "file" /\ g.folders[p].sizes[n] = u.size[At(u, b, n).start]
    <3>1. /\ n \in DOMAIN h.folders[p].sizes /\ g.folders[p].sizes[n] = h.folders[p].sizes[n]
          /\ b = h.folders[p].start /\ p \in DOMAIN h.folders
      BY <1>15
    <3>2. /\ \/ /\ p \in DOMAIN u.folders /\ n \in DOMAIN u.folders[p].sizes
                /\ h.folders[p].sizes[n] = u.folders[p].sizes[n]
             \/ LET e == At(u, h.folders[p].start, n)
                IN  n \in Name /\ e.type = "file" /\ h.folders[p].sizes[n] = u.size[e.start]
          /\ p \in DOMAIN u.folders => h.folders[p].start = u.folders[p].start
      BY <1>15, <3>1 DEF Looked
    <3> HIDE DEF b
    <3> QED BY <1>5, <3>1, <3>2
  <2>4. n \in Name /\ At(f, b, n).type = "file"
    <3>1. p \in DOMAIN f.folders /\ n \in DOMAIN f.folders[p].sizes =>
            n \in Name /\ At(f, f.folders[p].start, n).type = "file"
      BY <1>20 DEF InfosInv
    <3> HIDE DEF b
    <3>2. n \in Name => At(u, b, n) = At(f, b, n)
      BY <1>5, <2>2
    <3> QED BY <2>3, <3>1, <3>2
  <2>5. ~(b = b0 /\ n = Last(path))
    <3>1. b = b0 => p = above
      BY <1>2, <1>3, <1>4, <2>1, SamePath
    <3> QED BY <1>10, <3>1
  <2> HIDE DEF b
  <2>6. At(g, b, n) = At(f, b, n) /\ At(u, b, n) = At(f, b, n)
    BY <1>5, <1>13, <2>2, <2>4, <2>5
  <2>7. At(g, b, n) # NoInfo
    BY <2>4, <2>6, NoInfoIs
  <2>8. At(g, b, n).start \in g.owned
    BY <1>14, <2>2, <2>4, <2>7 DEF TreeInv, SlotsOwned
  <2>9. At(g, b, n).start \in Block /\ At(g, b, n).start \notin gone
    BY <1>5, <1>10, <1>12, <2>8 DEF ImageType
  <2>10. g.size[At(g, b, n).start] = f.size[At(g, b, n).start] /\ g.size = u.size
    BY <1>5, <1>10, <2>9
  <2>11. g.folders[p].start = b
    BY DEF b
  <2> QED BY <2>3, <2>4, <2>6, <2>8, <2>9, <2>10, <2>11
<1>21. ASSUME NEW p \in DOMAIN g.folders, p # path, InfosInv(f) PROVE InfosAt(g, p)
    BY <1>20, <1>21 DEF InfosAt
<1>22. ASSUME NEW p \in DOMAIN g.folders, NEW cut, p # path, InfosInv(f), SizesInv(f, cut)
       PROVE  SizesAt(g, cut \intersect g.owned, p)
  <2> SUFFICES ASSUME NEW n \in DOMAIN g.folders[p].sizes
               PROVE  LET start == At(g, g.folders[p].start, n).start
                      IN  g.folders[p].sizes[n] = g.size[start] \/ start \in cut \intersect g.owned
    BY DEF SizesAt
  <2> DEFINE e == At(g, g.folders[p].start, n)
  <2>1. /\ e = At(f, g.folders[p].start, n)
        /\ e.start \in g.owned /\ g.size[e.start] = f.size[e.start]
        /\ \/ /\ p \in DOMAIN f.folders /\ n \in DOMAIN f.folders[p].sizes
              /\ g.folders[p].start = f.folders[p].start
              /\ g.folders[p].sizes[n] = f.folders[p].sizes[n]
           \/ g.folders[p].sizes[n] = g.size[e.start]
    BY <1>20, <1>22
  <2>2. p \in DOMAIN f.folders /\ n \in DOMAIN f.folders[p].sizes =>
            LET start == At(f, f.folders[p].start, n).start
            IN  f.folders[p].sizes[n] = f.size[start] \/ start \in cut
    BY <1>22 DEF SizesInv
  <2> QED BY <2>1, <2>2
<1>23. g.owned = f.owned \ gone /\ g.size = [b \in Block |-> IF b \in gone THEN 0 ELSE f.size[b]]
    BY <1>5, <1>10
<1>24. RemovedTo(f, path, g)
    BY <1>2, <1>10, <1>14, <1>17, <1>18, <1>19, <1>21, <1>22, <1>23 DEF RemovedTo
<1>25. g = EntryRemoved(Unlinked(f, path), path, seen)
    BY <1>2 DEF u
<1> QED BY <1>11, <1>24, <1>25

(* Nothing is below a file. *)
LEMMA FileBelow ==
    ASSUME NEW f, ImageType(f), NEW p \in Seq(Name), NodeAt(f, p).type = "file",
           NEW q \in Seq(Name), NodeAt(f, q) # NoInfo, IsPrefix(p, q)
    PROVE  q = p
<1> DEFINE good == {r \in Seq(Name) : IsPrefix(p, r) /\ NodeAt(f, r) # NoInfo => r = p}
<1>1. << >> \in good
    BY EmptySeq, PrefixOrder
<1>2. ASSUME NEW r \in Seq(Name), r # << >>, Front(r) \in good PROVE r \in good
  <2> SUFFICES ASSUME IsPrefix(p, r), NodeAt(f, r) # NoInfo, p # r PROVE FALSE
    OBVIOUS
  <2>1. NodeAt(f, Front(r)) # NoInfo /\ NodeAt(f, Front(r)).type = "folder"
    BY <1>2, NodeEntry
  <2>2. IsPrefix(p, Front(r))
    BY <1>2, PrefixFront
  <2> QED BY <1>2, <2>1, <2>2
<1>3. Seq(Name) \subseteq good
    <2> HIDE DEF good
    <2> QED BY <1>1, <1>2, PathInduction
<1> QED BY <1>3

(* The path is gone, and the caches have followed. *)
GoneFrom(f, path, g) ==
    /\ TreeInv(g) /\ CacheInv(g)
    /\ \A q \in Seq(Name) : NodeAt(g, q) = IF IsPrefix(path, q) THEN NoInfo ELSE NodeAt(f, q)
    /\ g.owned = f.owned \ Gone(f, path)
    /\ g.size = [b \in Block |-> IF b \in Gone(f, path) THEN 0 ELSE f.size[b]]
    /\ InfosInv(f) => InfosInv(g)
    /\ \A cut : InfosInv(f) /\ SizesInv(f, cut) => SizesInv(g, cut \intersect g.owned)

LEMMA TrimmedImage ==
    ASSUME NEW f, NEW g, TreeInv(f), Trimmed(f, g)
    PROVE  /\ TreeInv(g)
           /\ \A p \in Seq(Name) : NodeAt(g, p) = NodeAt(f, p)
           /\ \A b, n : At(g, b, n) = At(f, b, n)
<1>1. \A p \in Seq(Name) : NodeAt(g, p) = NodeAt(f, p)
    BY NodeSame DEF Trimmed
<1>2. TreeInv(g)
    BY TreeSame DEF Trimmed, TreeInv, ImageType
<1> QED BY <1>1, <1>2 DEF Trimmed, At

LEMMA GoneWithObject ==
    ASSUME NEW f, NEW path, NEW g, NEW h, RemovedTo(f, path, g), Trimmed(g, h), path \notin DOMAIN h.folders
    PROVE  GoneFrom(f, path, h)
<1>1. /\ TreeInv(h) /\ \A p \in Seq(Name) : NodeAt(h, p) = NodeAt(g, p)
      /\ \A b, n : At(h, b, n) = At(g, b, n)
    BY TrimmedImage DEF RemovedTo
<1>2. /\ h.size = g.size /\ h.owned = g.owned
      /\ << >> \in DOMAIN h.folders /\ DOMAIN h.folders \subseteq DOMAIN g.folders
      /\ DOMAIN h.folders \subseteq Seq(Name)
      /\ \A p \in DOMAIN h.folders : h.folders[p] = g.folders[p]
    BY DEF Trimmed, RemovedTo
<1>3. ASSUME NEW p \in DOMAIN h.folders
      PROVE  /\ Object(h, p) /\ NodeAt(h, p) = [type |-> "folder", start |-> h.folders[p].start]
             /\ InfosInv(f) => InfosAt(h, p)
             /\ \A cut : InfosInv(f) /\ SizesInv(f, cut) => SizesAt(h, cut \intersect h.owned, p)
  <2>1. p \in DOMAIN g.folders /\ p # path /\ p \in Seq(Name) /\ h.folders[p] = g.folders[p]
    BY <1>2
  <2>2. /\ Object(g, p) /\ NodeAt(g, p) = [type |-> "folder", start |-> g.folders[p].start]
        /\ InfosInv(f) => InfosAt(g, p)
        /\ \A cut : InfosInv(f) /\ SizesInv(f, cut) => SizesAt(g, cut \intersect g.owned, p)
    BY <2>1 DEF RemovedTo
  <2>3. InfosAt(g, p) => InfosAt(h, p)
    BY <1>1, <2>1 DEF InfosAt
  <2>4. \A cut : SizesAt(g, cut, p) => SizesAt(h, cut, p)
    BY <1>1, <1>2, <2>1 DEF SizesAt
  <2> QED BY <1>1, <1>2, <2>1, <2>2, <2>3, <2>4 DEF Object
<1>4. CacheInv(h)
    BY <1>2, <1>3 DEF CacheInv
<1>5. InfosInv(f) => InfosInv(h)
    BY <1>3 DEF InfosInv, InfosAt
<1>6. ASSUME NEW cut, InfosInv(f), SizesInv(f, cut) PROVE SizesInv(h, cut \intersect h.owned)
    BY <1>3, <1>6 DEF SizesInv, SizesAt
<1>7. \A q \in Seq(Name) : NodeAt(h, q) = IF IsPrefix(path, q) THEN NoInfo ELSE NodeAt(f, q)
    BY <1>1 DEF RemovedTo
<1>8. h.owned = f.owned \ Gone(f, path) /\ h.size = [b \in Block |-> IF b \in Gone(f, path) THEN 0 ELSE f.size[b]]
    BY <1>2 DEF RemovedTo
<1> QED BY <1>1, <1>4, <1>5, <1>6, <1>7, <1>8 DEF GoneFrom

LEMMA removeFileIs ==
    ASSUME NEW f, TreeInv(f), CacheInv(f), NEW path \in Path, CanRemoveFile(f, path), NEW seen
    PROVE  LET g == removeFile(f, path, seen)
           IN  GoneFrom(f, path, g) /\ PairStays(f, g) /\ NodeAt(f, path).type = "file"
<1> DEFINE g == removeFile(f, path, seen)
<1>1. ImageType(f) /\ path \in Seq(Name) /\ path # << >> /\ NodeAt(f, path).type = "file"
    BY EntryIs DEF CanRemoveFile, TreeInv
<1>2. \A q \in DOMAIN f.folders : ~IsStrictPrefix(path, q) /\ q # path
    BY <1>1, Cached, FileBelow, StrictIs
<1>3. NodeAt(f, path) # NoInfo
    BY <1>1, NoInfoIs
<1>4. g = EntryRemoved(Unlinked(f, path), path, seen)
    BY DEF removeFile
<1>5. RemovedTo(f, path, g) /\ PairStays(f, g)
    BY <1>2, <1>3, <1>4, RemovedIs
<1> HIDE DEF g
<1>6. path \notin DOMAIN g.folders
  <2>1. path # Front(path)
    BY <1>1, FrontLast
  <2> QED BY <1>2, <1>5, <2>1 DEF RemovedTo
<1>7. Trimmed(g, g)
    BY DEF Trimmed
<1>8. GoneFrom(f, path, g)
    BY <1>5, <1>6, <1>7, GoneWithObject
<1> QED BY <1>1, <1>5, <1>8 DEF g

(* The cached pair after the path has been removed or moved, if it is that *)
(* of a folder.                                                            *)
PairFollows(f, path, g) ==
    \/ g.cached = NoFile
    \/ PairStays(f, g) /\ ~(f.cached # NoFile /\ IsStrictPrefix(path, f.cached.path))

LEMMA PairReset ==
    ASSUME NEW f, NEW g, CachedType(f), PairStays(f, g), Fields \subseteq DOMAIN g, NEW path
    PROVE  PairFollows(f, path, resetCachedFile(g, path))
<1> DEFINE h == resetCachedFile(g, path)
<1>1. h.cached = IF g.cached # NoFile /\ IsStrictPrefix(path, g.cached.path) THEN NoFile ELSE g.cached
    BY resetCachedFileIs
<1> HIDE DEF h
<1>2. CASE f.cached = NoFile
  <2>1. g.cached = NoFile
    BY <1>2 DEF PairStays
  <2> QED BY <1>1, <2>1 DEF PairFollows, h
<1>3. CASE f.cached \in CachedFile
  <2>1. f.cached # NoFile /\ g.cached.path = f.cached.path /\ g.cached # NoFile
    <3>1. f.cached # NoFile
      BY <1>3, NoFileIs
    <3>2. g.cached = f.cached \/ g.cached = [f.cached EXCEPT !.reports = FALSE]
      BY DEF PairStays
    <3>3. g.cached \in CachedFile /\ g.cached.path = f.cached.path
      BY <1>3, <3>2 DEF CachedFile
    <3> QED BY <3>1, <3>3, NoFileIs
  <2>2. CASE IsStrictPrefix(path, g.cached.path)
    BY <1>1, <2>1, <2>2 DEF PairFollows, h
  <2>3. CASE ~IsStrictPrefix(path, g.cached.path)
    <3>1. h.cached = g.cached
      BY <1>1, <2>3
    <3>2. PairStays(f, h)
      BY <3>1 DEF PairStays
    <3> QED BY <2>1, <2>3, <3>2 DEF PairFollows, h
  <2> QED BY <2>2, <2>3
<1> QED BY <1>2, <1>3 DEF CachedType

LEMMA removeFolderIs ==
    ASSUME NEW f, TreeInv(f), CacheInv(f), CachedType(f), NEW path \in Path, CanRemoveFolder(f, path, "Recursive"),
           \A q \in DOMAIN f.folders : ~IsStrictPrefix(path, q), NEW seen
    PROVE  LET g == removeFolder(f, path, seen)
           IN  GoneFrom(f, path, g) /\ PairFollows(f, path, g)
<1> DEFINE g1 == EntryRemoved(Unlinked(f, path), path, seen)
<1> DEFINE g2 == removeFolderFromCache(g1, path)
<1> DEFINE g3 == removeFolderFromCache(g2, Front(path))
<1> DEFINE g == resetCachedFile(g3, path)
<1>1. /\ ImageType(f) /\ path \in Seq(Name) /\ path # << >> /\ Front(path) \in Seq(Name)
      /\ NodeAt(f, path).type = "folder"
    BY EntryIs DEF CanRemoveFolder, TreeInv
<1>2. NodeAt(f, path) # NoInfo
    BY <1>1, NoInfoIs
<1>3. g = removeFolder(f, path, seen)
    BY DEF removeFolder, removeFile
<1>4. RemovedTo(f, path, g1) /\ PairStays(f, g1)
    BY <1>2, RemovedIs
<1> HIDE DEF g1
<1>5. Fields \subseteq DOMAIN g1
    BY <1>4 DEF RemovedTo, TreeInv, ImageType
<1>6. /\ Trimmed(g1, g2) /\ PairStays(g1, g2) /\ DOMAIN g2.folders = DOMAIN g1.folders \ Dropped(g1, path)
    BY <1>1, <1>5, removeFolderFromCacheIs
<1> HIDE DEF g2
<1>7. Fields \subseteq DOMAIN g2
    BY <1>5, <1>6 DEF Trimmed
<1>8. Trimmed(g2, g3) /\ PairStays(g2, g3)
    BY <1>1, <1>7, removeFolderFromCacheIs
<1> HIDE DEF g3
<1>9. Fields \subseteq DOMAIN g3
    BY <1>7, <1>8 DEF Trimmed
<1>10. Trimmed(g3, g)
    BY <1>9, resetCachedFileIs
<1>11. PairStays(f, g3)
    BY <1>4, <1>6, <1>8, PairStaysTwice DEF CachedType
<1>12. PairFollows(f, path, g)
    BY <1>9, <1>11, PairReset
<1>13. path \notin DOMAIN g2.folders
  <2> SUFFICES ASSUME path \in DOMAIN g1.folders PROVE path \in Dropped(g1, path)
    BY <1>6
  <2>1. Len(path) \in Nat /\ SubSeq(path, 1, Len(path)) = path /\ IsPrefix(path, path)
    BY <1>1, LenProperties, SubSeqFull, PrefixOrder
  <2>2. ASSUME NEW k \in Len(path) .. Len(path)
        PROVE  /\ SubSeq(path, 1, k) \in DOMAIN g1.folders \ {<< >>}
               /\ k < Len(path) => Lists(g1, SubSeq(path, 1, k), path[k + 1])
    <3>1. k = Len(path) /\ ~(k < Len(path))
      BY <2>1
    <3> QED BY <1>1, <2>1, <3>1
  <2> QED BY <2>1, <2>2 DEF Dropped
<1>14. Trimmed(g1, g)
    BY <1>6, <1>8, <1>10, TrimmedTwice
<1>15. path \notin DOMAIN g.folders
    BY <1>8, <1>10, <1>13 DEF Trimmed
<1> HIDE DEF g
<1>16. GoneFrom(f, path, g)
    BY <1>4, <1>14, <1>15, GoneWithObject
<1> QED BY <1>3, <1>12, <1>16

(* The first names of a path. *)
LEMMA FirstNames ==
    ASSUME NEW q \in Seq(Name), NEW k \in 0 .. Len(q)
    PROVE  LET s == SubSeq(q, 1, k)
           IN  /\ s \in Seq(Name) /\ Len(s) = k /\ IsPrefix(s, q)
               /\ \A p \in Seq(Name) : IsPrefix(p, q) /\ Len(p) <= k => IsPrefix(p, s)
               /\ \A p \in Seq(Name) : IsPrefix(p, q) /\ Len(p) = k => p = s
               /\ k > 0 => /\ s # << >> /\ Front(s) = SubSeq(q, 1, k - 1) /\ Last(s) = q[k]
<1>1. Len(q) \in Nat /\ k \in Int /\ \A i \in 1 .. Len(q) : q[i] \in Name
    BY LenProperties, ElementOfSeq
<1>2. ASSUME NEW j \in 0 .. Len(q)
      PROVE  /\ SubSeq(q, 1, j) \in Seq(Name) /\ Len(SubSeq(q, 1, j)) = j
             /\ \A i \in 1 .. j : SubSeq(q, 1, j)[i] = q[i]
  <2>1. j \in Int /\ \A i \in 1 .. j : q[i] \in Name
    BY <1>1
  <2>2. /\ SubSeq(q, 1, j) \in Seq(Name)
        /\ Len(SubSeq(q, 1, j)) = IF 1 <= j THEN j - 1 + 1 ELSE 0
        /\ \A i \in 1 .. j - 1 + 1 : SubSeq(q, 1, j)[i] = q[1 + i - 1]
    BY <2>1, SubSeqProperties
  <2> QED BY <1>1, <2>2
<1> DEFINE s == SubSeq(q, 1, k)
<1>3. s \in Seq(Name) /\ Len(s) = k /\ \A i \in 1 .. k : s[i] = q[i]
    BY <1>2
<1>4. s = SubSeq(q, 1, k)
    OBVIOUS
<1> HIDE DEF s
<1>5. IsPrefix(s, q)
    BY <1>1, <1>3, PrefixIs
<1>6. ASSUME NEW p \in Seq(Name), IsPrefix(p, q), Len(p) <= k PROVE IsPrefix(p, s)
  <2>1. Len(p) \in Nat /\ \A i \in 1 .. Len(p) : p[i] = q[i]
    BY <1>6, PrefixIs, LenProperties
  <2>2. Len(p) <= Len(s) /\ \A i \in 1 .. Len(p) : p[i] = s[i]
    BY <1>1, <1>3, <1>6, <2>1
  <2> QED BY <1>3, <2>2, PrefixIs
<1>7. ASSUME NEW p \in Seq(Name), IsPrefix(p, q), Len(p) = k PROVE p = s
  <2>1. IsPrefix(p, s) /\ Len(s) <= Len(p)
    BY <1>1, <1>3, <1>6, <1>7
  <2> QED BY <1>3, <2>1, PrefixOrder
<1>8. ASSUME k > 0 PROVE s # << >> /\ Front(s) = SubSeq(q, 1, k - 1) /\ Last(s) = q[k]
  <2>1. s # << >>
    BY <1>3, <1>8, EmptySeq
  <2>2. /\ Front(s) \in Seq(Name) /\ Len(Front(s)) = k - 1 /\ Last(s) = s[k]
        /\ \A i \in 1 .. k - 1 : Front(s)[i] = s[i]
    BY <1>3, <2>1, FrontLast
  <2> DEFINE j == k - 1
  <2>3. j \in 0 .. Len(q) /\ j = k - 1
    BY <1>1, <1>8
  <2> HIDE DEF j
  <2> DEFINE r == SubSeq(q, 1, j)
  <2>4. r \in Seq(Name) /\ Len(r) = j /\ \A i \in 1 .. j : r[i] = q[i]
    BY <1>2, <2>3
  <2>5. r = SubSeq(q, 1, k - 1)
    BY <2>3
  <2> HIDE DEF r
  <2>6. Front(s) = r
    <3>1. Len(Front(s)) = Len(r) /\ \A i \in 1 .. Len(r) : Front(s)[i] = r[i]
      BY <1>1, <1>3, <2>2, <2>3, <2>4
    <3> QED BY <2>2, <2>4, <3>1, SeqEqual
  <2>7. s[k] = q[k]
    BY <1>1, <1>3, <1>8
  <2> QED BY <2>1, <2>2, <2>5, <2>6, <2>7
<1> QED BY <1>3, <1>4, <1>5, <1>6, <1>7, <1>8

(* The image and the objects after the entry has been put elsewhere, and   *)
(* before folders are dropped.                                             *)
MovedTo(f, src, dst, g) ==
    /\ TreeInv(g)
    /\ \A b \in Start, m \in Name :
           At(g, b, m) = IF b = NodeAt(f, Front(dst)).start /\ m = Last(dst) THEN NodeAt(f, src)
                         ELSE IF b = NodeAt(f, Front(src)).start /\ m = Last(src) THEN NoInfo
                         ELSE At(f, b, m)
    /\ \A q \in Seq(Name) :
            NodeAt(g, q) = IF IsPrefix(dst, q) THEN NodeAt(f, Moved(dst, src, q))
                           ELSE IF IsPrefix(src, q) THEN NoInfo
                           ELSE NodeAt(f, q)
    /\ g.size = f.size /\ g.owned = f.owned
    /\ << >> \in DOMAIN g.folders /\ DOMAIN g.folders \subseteq Seq(Name)
    /\ DOMAIN g.folders = DOMAIN f.folders \union {Front(src), Front(dst)}
    /\ \A p \in DOMAIN g.folders :
        /\ Object(g, p)
        /\ NodeAt(f, p) = [type |-> "folder", start |-> g.folders[p].start]
        /\ InfosInv(f) => InfosAt(g, p)
        /\ \A cut : InfosInv(f) /\ SizesInv(f, cut) => SizesAt(g, cut, p)

(* Without a gap in the cache, no folder below the old path stays in it.   *)
LEMMA RenameDrops ==
    ASSUME NEW f, TreeInv(f), NEW src \in Path, NEW dst \in Path, NEW g, MovedTo(f, src, dst, g),
           NodeAt(f, src) # NoInfo, NodeAt(f, dst) = NoInfo, NodeAt(f, Front(dst)).type = "folder",
           ~IsPrefix(src, dst),
           \A q \in DOMAIN f.folders : IsStrictPrefix(src, q) =>
                \A k \in Len(src) .. Len(q) : SubSeq(q, 1, k) \in DOMAIN f.folders,
           NEW h, h = removeFolderFromCache(removeFolderFromCache(g, Front(src)), src)
    PROVE  /\ Trimmed(g, h) /\ PairStays(g, removeFolderFromCache(g, Front(src)))
           /\ PairStays(removeFolderFromCache(g, Front(src)), h)
           /\ \A q \in DOMAIN h.folders : ~IsPrefix(src, q)
<1> DEFINE y == removeFolderFromCache(g, Front(src))
<1> DEFINE bs == NodeAt(f, Front(src)).start
<1> DEFINE bd == NodeAt(f, Front(dst)).start
<1>1. /\ src \in Seq(Name) /\ src # << >> /\ Front(src) \in Seq(Name) /\ Last(src) \in Name
      /\ ~IsPrefix(src, Front(src)) /\ ~IsPrefix(src, << >>) /\ Len(src) \in Nat \ {0}
      /\ Len(Front(src)) = Len(src) - 1
  <2>1. src \in Seq(Name) /\ src # << >>
    BY PathIs, EmptySeq
  <2> QED BY <2>1, FrontLast, PrefixFront, PrefixOrder
<1>2. /\ dst \in Seq(Name) /\ dst # << >> /\ Front(dst) \in Seq(Name) /\ Last(dst) \in Name
      /\ ~IsPrefix(src, Front(dst))
  <2>1. dst \in Seq(Name) /\ dst # << >>
    BY PathIs, EmptySeq
  <2> QED BY <1>1, <2>1, FrontLast, PrefixFront
<1>3. ImageType(f) /\ ImageType(g) /\ Fields \subseteq DOMAIN g
    BY DEF TreeInv, MovedTo, ImageType
<1>4. /\ Trimmed(g, y) /\ PairStays(g, y) /\ DOMAIN y.folders = DOMAIN g.folders \ Dropped(g, Front(src))
    BY <1>1, <1>3, removeFolderFromCacheIs
<1>5. h = removeFolderFromCache(y, src)
    OBVIOUS
<1> HIDE DEF y
<1>6. Fields \subseteq DOMAIN y
    BY <1>3, <1>4 DEF Trimmed
<1>7. /\ Trimmed(y, h) /\ PairStays(y, h) /\ DOMAIN h.folders = DOMAIN y.folders \ Dropped(y, src)
    BY <1>1, <1>5, <1>6, removeFolderFromCacheIs
<1>8. Trimmed(g, h)
    BY <1>4, <1>7, TrimmedTwice
<1>9. /\ NodeAt(f, Front(src)).type = "folder" /\ NodeAt(f, src) = At(f, bs, Last(src)) /\ bs \in Start
    BY <1>1, <1>3, NodeEntry
<1>10. /\ At(f, bd, Last(dst)) = NoInfo /\ bd \in Start
    BY <1>2, <1>3, NodeEntry
<1>11. At(g, bs, Last(src)) = NoInfo
  <2>1. ~(bs = bd /\ Last(src) = Last(dst))
    BY <1>9, <1>10
  <2> HIDE DEF bs, bd
  <2> QED BY <1>1, <1>9, <2>1 DEF MovedTo, bs, bd
<1>12. ASSUME NEW q \in DOMAIN g.folders
       PROVE  /\ q \in Seq(Name) /\ NodeAt(f, q).type = "folder" /\ NodeAt(f, q).start = g.folders[q].start
              /\ g.folders[q].start \in Start
  <2>1. q \in Seq(Name) /\ NodeAt(f, q) = [type |-> "folder", start |-> g.folders[q].start]
    BY DEF MovedTo
  <2>2. NodeAt(f, q) # NoInfo
    BY <2>1, NoInfoIs
  <2> QED BY <2>1, <2>2, FolderOwned

(* The folder the path was in does not list it any more. *)
<1>13. ASSUME NEW r \in Dropped(g, Front(src)), IsPrefix(src, r) PROVE FALSE
  <2> DEFINE k == Len(src) - 1
  <2>1. r \in Seq(Name) /\ Len(src) <= Len(r) /\ Len(r) \in Nat
    BY <1>1, <1>12, <1>13, PrefixOrder DEF Dropped
  <2>2. k \in 0 .. Len(r) /\ k < Len(r) /\ k + 1 = Len(src) /\ Len(src) \in 0 .. Len(r) /\ k = Len(Front(src))
        /\ k \in Len(Front(src)) .. Len(r)
    BY <1>1, <2>1
  <2>3. SubSeq(r, 1, Len(src)) = src
    BY <1>1, <1>13, <2>1, <2>2, FirstNames
  <2>4. Front(src) = SubSeq(r, 1, Len(src) - 1) /\ Last(src) = r[Len(src)]
    <3> DEFINE j == Len(src)
    <3>1. j \in 0 .. Len(r) /\ j > 0 /\ SubSeq(r, 1, j) = src
      BY <1>1, <2>2, <2>3
    <3> HIDE DEF j
    <3>2. Front(src) = SubSeq(r, 1, j - 1) /\ Last(src) = r[j]
      BY <2>1, <3>1, FirstNames
    <3> QED BY <3>2 DEF j
  <2>5. SubSeq(r, 1, k) \in DOMAIN g.folders /\ Lists(g, SubSeq(r, 1, k), r[k + 1])
    BY <2>2 DEF Dropped
  <2>6. Front(src) \in DOMAIN g.folders /\ Lists(g, Front(src), Last(src))
    BY <2>2, <2>4, <2>5
  <2>7. g.folders[Front(src)].start = bs
    BY <1>12, <2>6
  <2>8. Last(src) \in DOMAIN g.table[bs]
    BY <2>6, <2>7 DEF Lists
  <2> QED BY <1>3, <1>9, <1>11, <2>8, AtType

(* What is cached below the old path is listed by the folder above. *)
<1>14. ASSUME NEW q \in Seq(Name), q # << >>, Front(q) \in DOMAIN g.folders, IsPrefix(src, Front(q)),
              q \in DOMAIN g.folders
       PROVE  Lists(g, Front(q), Last(q))
  <2> DEFINE b == g.folders[Front(q)].start
  <2>1. /\ Front(q) \in Seq(Name) /\ Last(q) \in Name /\ b \in Start /\ NodeAt(f, Front(q)).type = "folder"
        /\ NodeAt(f, Front(q)).start = b /\ NodeAt(f, q).type = "folder"
    BY <1>12, <1>14, FrontLast
  <2>2. NodeAt(f, q) = At(f, b, Last(q))
    BY <1>3, <1>14, <2>1, NodeEntry
  <2>3. b # bs
    BY <1>1, <1>9, <1>14, <2>1, SamePath
  <2>4. b # bd
    BY <1>2, <1>14, <2>1, SamePath
  <2>5. At(g, b, Last(q)) = At(f, b, Last(q))
    BY <2>1, <2>3, <2>4 DEF MovedTo
  <2>6. At(g, b, Last(q)).type = "folder" /\ At(g, b, Last(q)) # NoInfo
    BY <2>1, <2>2, <2>5, NoInfoIs
  <2>7. Last(q) \in DOMAIN g.table[b] /\ g.table[b][Last(q)].type = "folder"
    BY <1>3, <2>1, <2>6, AtType
  <2> QED BY <2>7 DEF Lists
<1>15. ASSUME NEW q \in DOMAIN g.folders, IsPrefix(src, q), NEW k \in Len(src) .. Len(q)
       PROVE  /\ SubSeq(q, 1, k) \in DOMAIN g.folders /\ IsPrefix(src, SubSeq(q, 1, k))
              /\ k \in 0 .. Len(q)
  <2>1. q \in Seq(Name) /\ Len(q) \in Nat
    BY <1>12, LenProperties
  <2>2. k \in 0 .. Len(q) /\ Len(src) <= k
    BY <1>1, <2>1
  <2>3. IsPrefix(src, SubSeq(q, 1, k))
    BY <1>1, <1>15, <2>1, <2>2, FirstNames
  <2>4. CASE q = src
    <3>1. k = Len(q)
      BY <2>1, <2>2, <2>4
    <3>2. SubSeq(q, 1, k) = q
      BY <2>1, <3>1, SubSeqFull
    <3> QED BY <2>2, <2>3, <3>2
  <2>5. CASE q # src
    <3>1. q \in DOMAIN f.folders
      BY <1>1, <1>2, <1>15 DEF MovedTo
    <3>2. IsStrictPrefix(src, q)
      BY <1>1, <1>15, <2>1, <2>5, StrictIs
    <3>3. SubSeq(q, 1, k) \in DOMAIN f.folders
      BY <3>1, <3>2
    <3> QED BY <2>2, <2>3, <3>3 DEF MovedTo
  <2> QED BY <2>4, <2>5
<1>16. ASSUME NEW q \in DOMAIN y.folders, IsPrefix(src, q) PROVE q \in Dropped(y, src)
  <2>1. q \in DOMAIN g.folders /\ q \in Seq(Name) /\ Len(q) \in Nat
    BY <1>4, <1>12, LenProperties
  <2>2. ASSUME NEW k \in Len(src) .. Len(q)
        PROVE  /\ SubSeq(q, 1, k) \in DOMAIN y.folders \ {<< >>}
               /\ k < Len(q) => Lists(y, SubSeq(q, 1, k), q[k + 1])
    <3> DEFINE s == SubSeq(q, 1, k)
    <3>1. s \in DOMAIN g.folders /\ IsPrefix(src, s)
      BY <1>15, <1>16, <2>1
    <3>2. s \in DOMAIN y.folders /\ y.folders[s] = g.folders[s]
      BY <1>4, <1>13, <3>1 DEF Trimmed
    <3>3. s # << >>
      BY <1>1, <3>1
    <3>4. ASSUME k < Len(q) PROVE Lists(y, s, q[k + 1])
      <4> DEFINE j == k + 1
      <4>1. j \in Len(src) .. Len(q) /\ j \in 0 .. Len(q) /\ j > 0 /\ j - 1 = k
        BY <1>1, <2>1, <3>4
      <4> HIDE DEF j
      <4> DEFINE t == SubSeq(q, 1, j)
      <4>2. t \in DOMAIN g.folders
        BY <1>15, <1>16, <2>1, <4>1
      <4>3. t \in Seq(Name) /\ t # << >> /\ Front(t) = s /\ Last(t) = q[j]
        BY <2>1, <4>1, FirstNames
      <4> HIDE DEF t, s
      <4>4. Lists(g, s, q[j])
        BY <1>14, <3>1, <4>2, <4>3
      <4>5. Lists(y, s, q[j])
        BY <1>4, <3>2, <4>4 DEF Lists, Trimmed
      <4> QED BY <4>5 DEF j
    <3> QED BY <3>2, <3>3, <3>4
  <2> QED BY <1>16, <2>2 DEF Dropped
<1>17. \A q \in DOMAIN h.folders : ~IsPrefix(src, q)
    BY <1>7, <1>16
<1> QED BY <1>4, <1>5, <1>7, <1>8, <1>17 DEF y

(* A parent that is found is found after look-ups too. *)
LEMMA ParentStays ==
    ASSUME NEW f, ImageType(f), CacheInv(f), NEW g, Looked(f, g), NEW path \in Path, HasParent(f, path)
    PROVE  HasParent(g, path)
BY LookedImage, EntryIs DEF HasParent

(* The look-ups of renameEntry. *)
LEMMA RenameLooks ==
    ASSUME NEW f, TreeInv(f), CacheInv(f), NEW src \in Path, NEW dst \in Path,
           HasParent(f, src), HasParent(f, dst), NEW seen
    PROVE  LET looked == getInfo(getInfo(WithParent(f, src, seen), dst, seen), src, seen)
           IN  /\ Looked(f, looked) /\ looked.cached = f.cached /\ HasParent(looked, src)
               /\ DOMAIN looked.folders = DOMAIN f.folders \union {Front(src), Front(dst)}
<1> DEFINE x == WithParent(f, src, seen)
<1> DEFINE y == getInfo(x, dst, seen)
<1> DEFINE z == getInfo(y, src, seen)
<1>1. ImageType(f)
    BY DEF TreeInv
<1>2. Looked(f, x) /\ x.cached = f.cached /\ DOMAIN x.folders = DOMAIN f.folders \union {Front(src)}
    BY <1>1, WithParentIs
<1>3. ImageType(x) /\ CacheInv(x) /\ HasParent(x, dst) /\ HasParent(x, src)
    BY <1>1, <1>2, LookedImage, ParentStays
<1>4. Looked(x, y) /\ y.cached = x.cached /\ DOMAIN y.folders = DOMAIN x.folders \union {Front(dst)}
    BY <1>3, getInfoIs
<1> HIDE DEF x
<1>5. ImageType(y) /\ CacheInv(y) /\ HasParent(y, src)
    BY <1>3, <1>4, LookedImage, ParentStays
<1>6. Looked(y, z) /\ z.cached = y.cached /\ DOMAIN z.folders = DOMAIN y.folders \union {Front(src)}
    BY <1>5, getInfoIs
<1> HIDE DEF y
<1>7. HasParent(z, src)
    BY <1>5, <1>6, ParentStays
<1> HIDE DEF z
<1>8. Looked(f, z)
    BY <1>2, <1>4, <1>6, LookedTwice
<1>9. DOMAIN z.folders = DOMAIN f.folders \union {Front(src), Front(dst)}
    BY <1>2, <1>4, <1>6
<1> QED BY <1>2, <1>4, <1>6, <1>7, <1>8, <1>9 DEF x, y, z

LEMMA EntryMoved ==
    ASSUME NEW f, TreeInv(f), CacheInv(f), NEW src \in Path, NEW dst \in Path, CanRename(f, src, dst),
           ~IsPrefix(src, dst),
           \A q \in Within(f, src) : Len(dst) + Len(q) - Len(src) <= MaxDepth,
           NEW x, Looked(f, x), x.cached = f.cached, HasParent(x, src),
           DOMAIN x.folders = DOMAIN f.folders \union {Front(src), Front(dst)},
           NEW seen
    PROVE  LET left == EntryRemoved(x, src, seen)
               g == [left EXCEPT !.table[ParentOf(left, dst).start] = With(@, Last(dst), EntryInfo(f, src))]
           IN  MovedTo(f, src, dst, g) /\ PairStays(f, g) /\ Fields \subseteq DOMAIN g
<1> DEFINE left == EntryRemoved(x, src, seen)
<1> DEFINE b1 == ParentOf(left, dst).start
<1> DEFINE g == [left EXCEPT !.table = [left.table EXCEPT ![b1] = With(left.table[b1], Last(dst), EntryInfo(f, src))]]
<1> DEFINE bs == NodeAt(f, Front(src)).start
<1> DEFINE bd == NodeAt(f, Front(dst)).start
<1> DEFINE info == NodeAt(f, src)
<1>1. /\ ImageType(f) /\ src \in Seq(Name) /\ src # << >> /\ Front(src) \in Seq(Name) /\ Last(src) \in Name
      /\ EntryInfo(f, src) = info /\ info \in Entry /\ bs \in Start /\ NodeAt(f, Front(src)).type = "folder"
      /\ info = At(f, bs, Last(src)) /\ NodeAt(f, src) # NoInfo
  <2>1. ImageType(f) /\ HasParent(f, src) /\ EntryInfo(f, src) # NoInfo
    BY DEF TreeInv, CanRename
  <2>2. EntryInfo(f, src) = At(f, bs, Last(src)) /\ bs \in Start
    BY <2>1, EntryIs
  <2>3. info \in Entry
    BY <2>1, <2>2, EntryIs, AtType
  <2> QED BY <2>1, <2>3, EntryIs
<1>2. /\ dst \in Seq(Name) /\ dst # << >> /\ Front(dst) \in Seq(Name) /\ Last(dst) \in Name
      /\ NodeAt(f, dst) = NoInfo /\ bd \in Start /\ NodeAt(f, Front(dst)).type = "folder"
      /\ At(f, bd, Last(dst)) = NoInfo
  <2>1. ImageType(f) /\ HasParent(f, dst) /\ EntryInfo(f, dst) = NoInfo
    BY DEF TreeInv, CanRename
  <2> QED BY <2>1, EntryIs
<1>3. /\ TreeInv(x) /\ ImageType(x) /\ CacheInv(x) /\ \A p \in Seq(Name) : NodeAt(x, p) = NodeAt(f, p)
      /\ InfosInv(f) => InfosInv(x)
      /\ \A cut : SizesInv(f, cut) => SizesInv(x, cut)
      /\ \A b, n : At(x, b, n) = At(f, b, n)
      /\ x.size = f.size /\ x.owned = f.owned
    BY LookedKeeps, LookedImage DEF TreeInv, Looked
<1>4. EntryRemovedTo(x, src, left)
    BY <1>3, EntryRemovedIs
<1> HIDE DEF left
<1>5. bs = NodeAt(f, Front(src)).start /\ bd = NodeAt(f, Front(dst)).start /\ info = NodeAt(f, src)
    OBVIOUS
<1> HIDE DEF bs, bd, info
<1>6. /\ Fields \subseteq DOMAIN left /\ left.size = f.size /\ left.owned = f.owned
      /\ DOMAIN left.table = Start
      /\ \A b \in Start :
            /\ DOMAIN left.table[b] \subseteq Name
            /\ \A n \in DOMAIN left.table[b] : left.table[b][n] \in Entry
      /\ \A b \in Start, n \in Name :
            At(left, b, n) = IF b = bs /\ n = Last(src) THEN NoInfo ELSE At(f, b, n)
      /\ DOMAIN left.folders = DOMAIN f.folders \union {Front(src), Front(dst)}
      /\ Last(src) \notin DOMAIN left.folders[Front(src)].sizes
    BY <1>1, <1>3, <1>4, <1>5 DEF EntryRemovedTo
<1>7. ImageType(left)
    BY <1>1, <1>6 DEF ImageType
<1>8. PICK h :
        /\ Looked(x, h)
        /\ DOMAIN h.folders = DOMAIN left.folders
        /\ \A p \in DOMAIN h.folders :
            /\ Object(left, p) /\ left.folders[p].start = h.folders[p].start
            /\ DOMAIN left.folders[p].sizes \subseteq DOMAIN h.folders[p].sizes
            /\ \A n \in DOMAIN left.folders[p].sizes : left.folders[p].sizes[n] = h.folders[p].sizes[n]
    BY <1>4 DEF EntryRemovedTo
<1>9. /\ CacheInv(h) /\ \A p \in Seq(Name) : NodeAt(h, p) = NodeAt(f, p)
      /\ InfosInv(f) => InfosInv(h)
      /\ \A cut : SizesInv(f, cut) => SizesInv(h, cut)
      /\ \A b, n : At(h, b, n) = At(f, b, n)
      /\ h.size = f.size
  <2>1. /\ CacheInv(h) /\ \A p \in Seq(Name) : NodeAt(h, p) = NodeAt(x, p)
        /\ InfosInv(x) => InfosInv(h)
        /\ \A cut : SizesInv(x, cut) => SizesInv(h, cut)
    BY <1>3, <1>8, LookedKeeps
  <2>2. h.table = x.table /\ h.size = x.size
    BY <1>8 DEF Looked
  <2>3. \A b, n : At(h, b, n) = At(x, b, n)
    BY <2>2 DEF At
  <2> QED BY <1>3, <2>1, <2>2, <2>3
<1>10. ASSUME NEW p \in DOMAIN left.folders
       PROVE  /\ p \in Seq(Name) /\ Object(left, p)
              /\ NodeAt(f, p) = [type |-> "folder", start |-> left.folders[p].start]
              /\ NodeAt(f, p).type = "folder" /\ NodeAt(f, p).start = left.folders[p].start
              /\ left.folders[p].start \in Start
  <2>1. p \in Seq(Name) /\ NodeAt(h, p) = [type |-> "folder", start |-> h.folders[p].start]
    BY <1>8, <1>9 DEF CacheInv
  <2>2. NodeAt(f, p) = [type |-> "folder", start |-> left.folders[p].start] /\ Object(left, p)
    BY <1>8, <1>9, <2>1
  <2>3. NodeAt(f, p) # NoInfo
    BY <2>2, NoInfoIs
  <2> QED BY <2>1, <2>2, <2>3, FolderOwned
<1>11. left.folders[Front(dst)].start = bd
    BY <1>5, <1>6, <1>10
<1>12. g = [left EXCEPT !.table = [left.table EXCEPT ![bd] = With(left.table[bd], Last(dst), info)]]
    BY <1>1, <1>11 DEF ParentOf
<1> HIDE DEF g
<1>13. /\ DOMAIN g = DOMAIN left /\ g.size = left.size /\ g.owned = left.owned
       /\ g.folders = left.folders /\ g.cached = left.cached
       /\ g.table = [left.table EXCEPT ![bd] = With(left.table[bd], Last(dst), info)]
    BY <1>6, <1>12 DEF Fields
<1>14. /\ DOMAIN g.table = Start
       /\ \A b \in Start :
            /\ DOMAIN g.table[b] \subseteq Name
            /\ \A n \in DOMAIN g.table[b] : g.table[b][n] \in Entry
       /\ \A b \in Start, n \in Name : At(g, b, n) = IF b = bd /\ n = Last(dst) THEN info ELSE At(left, b, n)
  <2>1. DOMAIN left.table = Start /\ bd \in Start /\ Last(dst) \in Name /\ info \in Entry
    BY <1>1, <1>2, <1>6
  <2>2. /\ DOMAIN g.table = Start /\ g.table[bd] = With(left.table[bd], Last(dst), info)
        /\ \A b \in Start : b # bd => g.table[b] = left.table[b]
    BY <1>13, <2>1
  <2> QED BY <1>7, <2>1, <2>2, EntrySet
<1>15. ImageType(g)
    BY <1>7, <1>13, <1>14 DEF ImageType
<1>16. \A b \in Start, m \in Name :
           At(g, b, m) = IF b = bd /\ m = Last(dst) THEN info
                         ELSE IF b = bs /\ m = Last(src) THEN NoInfo
                         ELSE At(f, b, m)
    BY <1>6, <1>14
<1>17. /\ \A b \in Start, m \in Name :
             At(g, b, m) = IF b = NodeAt(f, Front(dst)).start /\ m = Last(dst) THEN NodeAt(f, src)
                           ELSE IF b = NodeAt(f, Front(src)).start /\ m = Last(src) THEN NoInfo
                           ELSE At(f, b, m)
       /\ g.owned = f.owned
    BY <1>5, <1>6, <1>13, <1>16
<1>18. /\ \A q \in Seq(Name) :
            NodeAt(g, q) = IF IsPrefix(dst, q) THEN NodeAt(f, Moved(dst, src, q))
                           ELSE IF IsPrefix(src, q) THEN NoInfo
                           ELSE NodeAt(f, q)
       /\ TreeInv(g)
  <2>1. NodeAt(f, src) # NoInfo /\ NodeAt(f, dst) = NoInfo /\ NodeAt(f, Front(dst)).type = "folder"
    BY <1>1, <1>2
  <2> QED BY <1>15, <1>17, <2>1, SlotMoved
<1>19. PairStays(f, g)
    BY <1>4, <1>13 DEF EntryRemovedTo, PairStays

(* The infos that stay are of files that stay in their folders. *)
<1>20. ASSUME NEW p \in DOMAIN g.folders, NEW n \in DOMAIN g.folders[p].sizes, InfosInv(f)
       PROVE  LET e == At(g, g.folders[p].start, n)
              IN  /\ n \in Name /\ e.type = "file" /\ e = At(h, h.folders[p].start, n)
                  /\ n \in DOMAIN h.folders[p].sizes /\ p \in DOMAIN h.folders
                  /\ g.folders[p].sizes[n] = h.folders[p].sizes[n]
  <2> DEFINE b == g.folders[p].start
  <2>1. /\ p \in DOMAIN left.folders /\ p \in DOMAIN h.folders /\ n \in DOMAIN h.folders[p].sizes
        /\ b = h.folders[p].start /\ g.folders[p].sizes[n] = h.folders[p].sizes[n]
        /\ n \in DOMAIN left.folders[p].sizes
    BY <1>8, <1>13
  <2>2. p \in Seq(Name) /\ NodeAt(f, p).type = "folder" /\ NodeAt(f, p).start = b /\ b \in Start
    BY <1>10, <1>13, <2>1
  <2> HIDE DEF b
  <2>3. n \in Name /\ At(f, b, n).type = "file"
    BY <1>9, <1>20, <2>1 DEF InfosInv
  <2>4. ~(b = bs /\ n = Last(src))
    <3>1. b = bs => p = Front(src)
      BY <1>1, <1>5, <2>2, SamePath
    <3> QED BY <1>6, <2>1, <3>1
  <2>5. ~(b = bd /\ n = Last(dst))
    BY <1>2, <2>3, NoInfoIs
  <2>6. At(g, b, n) = At(f, b, n)
    BY <1>16, <2>2, <2>3, <2>4, <2>5
  <2> QED BY <1>9, <2>1, <2>3, <2>6 DEF b
<1>21. ASSUME NEW p \in DOMAIN g.folders
       PROVE  /\ Object(g, p) /\ p \in Seq(Name)
              /\ NodeAt(f, p) = [type |-> "folder", start |-> g.folders[p].start]
              /\ InfosInv(f) => InfosAt(g, p)
              /\ \A cut : InfosInv(f) /\ SizesInv(f, cut) => SizesAt(g, cut, p)
  <2>1. /\ Object(g, p) /\ p \in Seq(Name)
        /\ NodeAt(f, p) = [type |-> "folder", start |-> g.folders[p].start]
    BY <1>10, <1>13 DEF Object
  <2>2. InfosInv(f) => InfosAt(g, p)
    BY <1>20 DEF InfosAt
  <2>3. ASSUME NEW cut, InfosInv(f), SizesInv(f, cut) PROVE SizesAt(g, cut, p)
    <3> SUFFICES ASSUME NEW n \in DOMAIN g.folders[p].sizes
                 PROVE  LET start == At(g, g.folders[p].start, n).start
                        IN  g.folders[p].sizes[n] = g.size[start] \/ start \in cut
      BY DEF SizesAt
    <3> DEFINE e == At(g, g.folders[p].start, n)
    <3>1. /\ e = At(h, h.folders[p].start, n)
          /\ n \in DOMAIN h.folders[p].sizes /\ p \in DOMAIN h.folders
          /\ g.folders[p].sizes[n] = h.folders[p].sizes[n]
      BY <1>20, <2>3
    <3> HIDE DEF e
    <3>2. h.folders[p].sizes[n] = h.size[e.start] \/ e.start \in cut
      <4>1. SizesInv(h, cut)
        BY <1>9, <2>3
      <4> QED BY <3>1, <4>1 DEF SizesInv
    <3>3. g.size = h.size
      BY <1>6, <1>9, <1>13
    <3> QED BY <3>1, <3>2, <3>3 DEF e
  <2> QED BY <2>1, <2>2, <2>3
<1>22. << >> \in DOMAIN g.folders
    BY <1>6, <1>13 DEF CacheInv
<1>23. g.size = f.size /\ g.owned = f.owned /\ DOMAIN g.folders = DOMAIN f.folders \union {Front(src), Front(dst)}
       /\ Fields \subseteq DOMAIN g
    BY <1>6, <1>13
<1>24. MovedTo(f, src, dst, g)
    BY <1>17, <1>18, <1>21, <1>22, <1>23 DEF MovedTo
<1> QED BY <1>19, <1>23, <1>24, Zenon DEF g, left

(* The old path is gone, what was there is at the new one, and the caches  *)
(* have followed.                                                          *)
RenamedTo(f, src, dst, g) ==
    /\ TreeInv(g) /\ CacheInv(g)
    /\ \A q \in Seq(Name) :
            NodeAt(g, q) = IF IsPrefix(dst, q) THEN NodeAt(f, Moved(dst, src, q))
                           ELSE IF IsPrefix(src, q) THEN NoInfo
                           ELSE NodeAt(f, q)
    /\ g.size = f.size /\ g.owned = f.owned
    /\ InfosInv(f) => InfosInv(g)
    /\ \A cut : InfosInv(f) /\ SizesInv(f, cut) => SizesInv(g, cut)

LEMMA RenamedWithout ==
    ASSUME NEW f, TreeInv(f), NEW src \in Path, NEW dst \in Path, NEW g, NEW h,
           MovedTo(f, src, dst, g), NodeAt(f, dst) = NoInfo, Trimmed(g, h),
           \A q \in DOMAIN h.folders : ~IsPrefix(src, q)
    PROVE  RenamedTo(f, src, dst, h)
<1>1. /\ TreeInv(h) /\ \A p \in Seq(Name) : NodeAt(h, p) = NodeAt(g, p)
      /\ \A b, n : At(h, b, n) = At(g, b, n)
    BY TrimmedImage DEF MovedTo
<1>2. /\ h.size = g.size /\ h.owned = g.owned
      /\ << >> \in DOMAIN h.folders /\ DOMAIN h.folders \subseteq DOMAIN g.folders
      /\ DOMAIN h.folders \subseteq Seq(Name)
      /\ \A p \in DOMAIN h.folders : h.folders[p] = g.folders[p]
    BY DEF Trimmed, MovedTo
<1>3. ImageType(f) /\ dst \in Seq(Name)
    BY PathIs DEF TreeInv
<1>4. ASSUME NEW p \in DOMAIN h.folders
      PROVE  /\ Object(h, p) /\ NodeAt(h, p) = [type |-> "folder", start |-> h.folders[p].start]
             /\ InfosInv(f) => InfosAt(h, p)
             /\ \A cut : InfosInv(f) /\ SizesInv(f, cut) => SizesAt(h, cut, p)
  <2>1. p \in DOMAIN g.folders /\ p \in Seq(Name) /\ h.folders[p] = g.folders[p] /\ ~IsPrefix(src, p)
    BY <1>2
  <2>2. /\ Object(g, p) /\ NodeAt(f, p) = [type |-> "folder", start |-> g.folders[p].start]
        /\ InfosInv(f) => InfosAt(g, p)
        /\ \A cut : InfosInv(f) /\ SizesInv(f, cut) => SizesAt(g, cut, p)
    BY <2>1 DEF MovedTo
  <2>3. NodeAt(f, p) # NoInfo
    BY <2>2, NoInfoIs
  <2>4. ~IsPrefix(dst, p)
    BY <1>3, <2>1, <2>3, AboveExists
  <2>5. NodeAt(g, p) = NodeAt(f, p)
    BY <2>1, <2>4 DEF MovedTo
  <2>6. InfosAt(g, p) => InfosAt(h, p)
    BY <1>1, <2>1 DEF InfosAt
  <2>7. \A cut : SizesAt(g, cut, p) => SizesAt(h, cut, p)
    BY <1>1, <1>2, <2>1 DEF SizesAt
  <2>8. NodeAt(h, p) = [type |-> "folder", start |-> h.folders[p].start]
    BY <1>1, <2>1, <2>2, <2>5
  <2>9. Object(h, p)
    BY <2>1, <2>2 DEF Object
  <2> QED BY <2>2, <2>6, <2>7, <2>8, <2>9
<1>5. CacheInv(h)
    BY <1>2, <1>4 DEF CacheInv
<1>6. InfosInv(f) => InfosInv(h)
    BY <1>4 DEF InfosInv, InfosAt
<1>7. ASSUME NEW cut, InfosInv(f), SizesInv(f, cut) PROVE SizesInv(h, cut)
    BY <1>4, <1>7 DEF SizesInv, SizesAt
<1>8. /\ h.size = f.size /\ h.owned = f.owned
      /\ \A q \in Seq(Name) :
            NodeAt(h, q) = IF IsPrefix(dst, q) THEN NodeAt(f, Moved(dst, src, q))
                           ELSE IF IsPrefix(src, q) THEN NoInfo
                           ELSE NodeAt(f, q)
    BY <1>1, <1>2 DEF MovedTo
<1> QED BY <1>1, <1>5, <1>6, <1>7, <1>8 DEF RenamedTo

LEMMA renameEntryIs ==
    ASSUME NEW f, TreeInv(f), CacheInv(f), CachedType(f), NEW src \in Path, NEW dst \in Path,
           CanRename(f, src, dst), ~IsPrefix(src, dst),
           \A q \in Within(f, src) : Len(dst) + Len(q) - Len(src) <= MaxDepth,
           \A q \in DOMAIN f.folders : IsStrictPrefix(src, q) =>
                \A k \in Len(src) .. Len(q) : SubSeq(q, 1, k) \in DOMAIN f.folders,
           NEW seen
    PROVE  LET g == renameEntry(f, src, dst, seen)
           IN  /\ RenamedTo(f, src, dst, g) /\ PairFollows(f, src, g)
               /\ NodeAt(f, src) # NoInfo /\ NodeAt(f, dst) = NoInfo /\ NodeAt(f, Front(dst)).type = "folder"
<1> DEFINE x == getInfo(getInfo(WithParent(f, src, seen), dst, seen), src, seen)
<1> DEFINE info == EntryInfo(f, src)
<1> DEFINE left == EntryRemoved(x, src, seen)
<1> DEFINE g == [left EXCEPT !.table[ParentOf(left, dst).start] = With(@, Last(dst), info)]
<1> DEFINE g1 == removeFolderFromCache(g, Front(src))
<1> DEFINE g2 == removeFolderFromCache(g1, src)
<1> DEFINE g3 == IF info.type = "folder" THEN g2 ELSE g1
<1> DEFINE h == resetCachedFile(g3, src)
<1>1. h = renameEntry(f, src, dst, seen)
    BY Zenon DEF renameEntry
<1>2. HasParent(f, src) /\ HasParent(f, dst) /\ EntryInfo(f, src) # NoInfo /\ EntryInfo(f, dst) = NoInfo
    BY DEF CanRename
<1>3. /\ ImageType(f) /\ info = NodeAt(f, src) /\ NodeAt(f, src) # NoInfo /\ NodeAt(f, dst) = NoInfo
      /\ NodeAt(f, Front(dst)).type = "folder" /\ src \in Seq(Name) /\ Front(src) \in Seq(Name)
    BY <1>2, EntryIs DEF TreeInv
<1>4. /\ Looked(f, x) /\ x.cached = f.cached /\ HasParent(x, src)
      /\ DOMAIN x.folders = DOMAIN f.folders \union {Front(src), Front(dst)}
    BY <1>2, RenameLooks
<1> HIDE DEF x
<1>5. MovedTo(f, src, dst, g) /\ PairStays(f, g) /\ Fields \subseteq DOMAIN g
    BY <1>4, EntryMoved
<1> HIDE DEF g, left
<1>6. Trimmed(g, g1) /\ PairStays(g, g1) /\ DOMAIN g1.folders = DOMAIN g.folders \ Dropped(g, Front(src))
    BY <1>3, <1>5, removeFolderFromCacheIs
<1>7. Fields \subseteq DOMAIN g1
    BY <1>5, <1>6 DEF Trimmed
<1>8. Trimmed(g1, g2) /\ PairStays(g1, g2)
    BY <1>3, <1>7, removeFolderFromCacheIs
<1>9. Trimmed(g, g2) /\ \A q \in DOMAIN g2.folders : ~IsPrefix(src, q)
    BY <1>3, <1>5, RenameDrops
<1> HIDE DEF g1, g2
<1>10. Trimmed(g, g3) /\ PairStays(f, g3) /\ \A q \in DOMAIN g3.folders : ~IsPrefix(src, q)
  <2>1. PairStays(f, g1)
    BY <1>5, <1>6, PairStaysTwice DEF CachedType
  <2>2. CASE info.type = "folder"
    <3>1. PairStays(f, g2)
      BY <1>8, <2>1, PairStaysTwice DEF CachedType
    <3> QED BY <1>9, <2>2, <3>1
  <2>3. CASE info.type # "folder"
    <3>1. info.type = "file"
      BY <1>3, <2>3, NodeType, NoInfoIs
    <3>2. ASSUME NEW q \in DOMAIN g.folders, IsPrefix(src, q) PROVE FALSE
      <4>1. q \in Seq(Name) /\ NodeAt(f, q) = [type |-> "folder", start |-> g.folders[q].start]
        BY <1>5 DEF MovedTo
      <4>2. NodeAt(f, q) # NoInfo /\ NodeAt(f, q).type = "folder"
        BY <4>1, NoInfoIs
      <4>3. q = src
        BY <1>3, <3>1, <3>2, <4>1, <4>2, FileBelow
      <4> QED BY <1>3, <3>1, <4>2, <4>3
    <3>3. DOMAIN g1.folders \subseteq DOMAIN g.folders
      BY <1>6 DEF Trimmed
    <3> QED BY <1>6, <2>1, <2>3, <3>2, <3>3
  <2> QED BY <2>2, <2>3
<1> HIDE DEF g3
<1>11. Fields \subseteq DOMAIN g3
    BY <1>5, <1>10 DEF Trimmed
<1>12. Trimmed(g3, h) /\ h.folders = g3.folders
    BY <1>11, resetCachedFileIs
<1>13. PairFollows(f, src, h)
    BY <1>10, <1>11, PairReset
<1>14. Trimmed(g, h)
    BY <1>10, <1>12, TrimmedTwice
<1> HIDE DEF h
<1>15. RenamedTo(f, src, dst, h)
    BY <1>3, <1>5, <1>10, <1>12, <1>14, RenamedWithout
<1> QED BY <1>1, <1>3, <1>13, <1>15

(* A new file system, and one that is mounted again. *)
LEMMA EmptyFSIs ==
    /\ TreeInv(EmptyFS) /\ CacheInv(EmptyFS) /\ EmptyFS.cached = NoFile
    /\ EmptyFS.folders = RootOnly /\ EmptyFS.owned = {}
    /\ \A b \in Block : EmptyFS.size[b] = 0
    /\ \A p \in Seq(Name) : p # << >> => NodeAt(EmptyFS, p) = NoInfo
<1> DEFINE f == EmptyFS
<1>1. /\ f.table = [b \in Start |-> << >>] /\ f.size = [b \in Block |-> 0] /\ f.owned = {}
      /\ f.folders = RootOnly /\ f.cached = NoFile /\ DOMAIN f = Fields
    BY DEF EmptyFS, Start, Fields
<1> HIDE DEF f
<1>2. DOMAIN << >> = {}
    OBVIOUS
<1>3. ImageType(f)
  <2>1. f.size \in [Block -> 0 .. MaxSize]
    BY <1>1, Constants
  <2> QED BY <1>1, <1>2, <2>1 DEF ImageType
<1>4. \A b \in Start, n \in Name : At(f, b, n) = NoInfo
    BY <1>1, <1>2 DEF At, EntryIn
<1>5. TreeInv(f)
    BY <1>1, <1>3, <1>4 DEF TreeInv, SlotsOwned, OneSlotEach, FreeEmpty, Reachable, Start
<1>6. ASSUME NEW p \in Seq(Name), p # << >> PROVE NodeAt(f, p) = NoInfo
    BY <1>3, <1>4, <1>6, NodeEntry
<1>7. CacheInv(f)
  <2>1. DOMAIN f.folders = {<< >>} /\ f.folders[<< >>] = [start |-> Root, sizes |-> << >>]
    BY <1>1 DEF RootOnly
  <2>2. << >> \in Seq(Name) /\ NodeAt(f, << >>) = RootNode
    BY EmptySeq, NodeStep
  <2> QED BY <2>1, <2>2 DEF CacheInv, Object, RootNode
<1> QED BY <1>1, <1>5, <1>6, <1>7 DEF f

LEMMA MountedIs ==
    ASSUME NEW f, TreeInv(f)
    PROVE  LET g == Mounted(f)
           IN  /\ TreeInv(g) /\ CacheInv(g) /\ g.cached = NoFile
               /\ g.size = f.size /\ g.owned = f.owned
               /\ InfosInv(g) /\ \A cut : SizesInv(g, cut)
               /\ \A p \in Seq(Name) : NodeAt(g, p) = NodeAt(f, p)
<1> DEFINE g == Mounted(f)
<1>1. /\ DOMAIN g = DOMAIN f /\ g.table = f.table /\ g.size = f.size /\ g.owned = f.owned
      /\ g.folders = RootOnly /\ g.cached = NoFile
    BY DEF Mounted, TreeInv, ImageType, Fields
<1> HIDE DEF g
<1>2. Fields \subseteq DOMAIN g /\ g.size \in [Block -> 0 .. MaxSize]
    BY <1>1 DEF TreeInv, ImageType
<1>3. TreeInv(g) /\ \A p \in Seq(Name) : NodeAt(g, p) = NodeAt(f, p)
    BY <1>1, <1>2, TreeSame, NodeSame
<1>4. DOMAIN g.folders = {<< >>} /\ g.folders[<< >>] = [start |-> Root, sizes |-> << >>]
    BY <1>1 DEF RootOnly
<1>5. CacheInv(g)
  <2>1. << >> \in Seq(Name) /\ NodeAt(g, << >>) = RootNode
    BY EmptySeq, NodeStep
  <2> QED BY <1>4, <2>1 DEF CacheInv, Object, RootNode
<1>6. DOMAIN g.folders[<< >>].sizes = {}
    BY <1>4
<1>7. InfosInv(g) /\ \A cut : SizesInv(g, cut)
    BY <1>4, <1>6 DEF InfosInv, SizesInv
<1> QED BY <1>1, <1>3, <1>5, <1>7 DEF g

-----------------------------------------------------------------------------
(* The callbacks.                                                          *)

(* The image is a tree, and the folder objects are those of its folders.   *)
CachesInv == TreeInv(fs) /\ CacheInv(fs) /\ CachedType(fs)

(* No folder moves or goes while one below it is in the cache out of the   *)
(* reach of removeFolderFromCache.                                         *)
FoldersFollow == Misuse \intersect {"renameAbove", "removeAbove", "renameIntoItself"} = {}

(* What the callbacks do to the record. *)
LookedUpTo == Looked(fs, fs') /\ fs'.cached = fs.cached

MadeAt(path) ==
    /\ \E type \in {"file", "folder"} :
        AddedTo(fs, path, [type |-> type, start |-> Earliest(Block \ fs.owned)], fs')
    /\ NodeAt(fs, Front(path)).type = "folder"
    /\ \E h : Looked(fs, h) /\ fs'.folders = h.folders

LEMMA LookingCallbacks ==
    ASSUME CachesInv, NEW path \in Path \union {<< >>},
           \/ path \in Path /\ knoxcrypt_getattr(path)
           \/ knoxcrypt_readdir(path)
    PROVE  LookedUpTo /\ chopped' = chopped
<1>1. ASSUME path \in Path, knoxcrypt_getattr(path) PROVE LookedUpTo
  <2>1. PICK seen : fs' = getInfo(fs, path, seen)
      BY <1>1 DEF knoxcrypt_getattr
  <2>2. HasParent(fs, path)
      BY <1>1 DEF knoxcrypt_getattr
  <2> QED BY <1>1, <2>1, <2>2, getInfoIs DEF CachesInv, TreeInv, LookedUpTo
<1>2. ASSUME knoxcrypt_readdir(path) PROVE LookedUpTo
  <2>1. PICK seen : fs' = listFolder(fs, path, seen)
      BY <1>2 DEF knoxcrypt_readdir
  <2>2. path # << >> => HasParent(fs, path)
      BY <1>2 DEF knoxcrypt_readdir
  <2> QED BY <2>1, <2>2, listFolderIs DEF CachesInv, TreeInv, LookedUpTo
<1> QED BY <1>1, <1>2 DEF knoxcrypt_getattr, knoxcrypt_readdir

LEMMA MakingCallbacks ==
    ASSUME CachesInv, NEW path \in Path, knoxcrypt_mkdir(path) \/ knoxcrypt_create(path)
    PROVE  MadeAt(path) /\ chopped' = chopped
<1>1. PICK type \in {"file", "folder"} : fs' = Added(fs, path, type)
    BY DEF knoxcrypt_mkdir, knoxcrypt_create, addFile, addFolder
<1>2. CanAdd(fs, path)
    BY DEF knoxcrypt_mkdir, knoxcrypt_create
<1>3. NodeAt(fs, Front(path)).type = "folder"
    BY <1>2, EntryIs DEF CachesInv, TreeInv, CanAdd
<1>4. /\ AddedTo(fs, path, [type |-> type, start |-> Earliest(Block \ fs.owned)], fs')
      /\ \E h : Looked(fs, h) /\ fs'.folders = h.folders
    BY <1>1, <1>2, AddedIs DEF CachesInv
<1> QED BY <1>3, <1>4 DEF MadeAt, knoxcrypt_mkdir, knoxcrypt_create

LEMMA ReadCallback ==
    ASSUME CachesInv, NEW path \in Path, knoxcrypt_read(path)
    PROVE  OpenedTo(fs, path, "readOnly", fs') /\ chopped' = chopped
<1>1. PICK seen : fs' = setCachedFile(fs, path, "readOnly", seen)
    BY DEF knoxcrypt_read
<1>2. CanOpen(fs, path, "readOnly")
    BY DEF knoxcrypt_read, Opens
<1> QED BY <1>1, <1>2, setCachedFileIs DEF CachesInv, knoxcrypt_read

(* The device is handed out, and the file grows through it. *)
LEMMA WriteCallback ==
    ASSUME CachesInv, NEW path \in Path, knoxcrypt_write(path)
    PROVE  \E h : /\ OpenedTo(fs, path, "append", h)
                  /\ TreeInv(h) /\ CacheInv(h) /\ h.size[h.cached.start] < MaxSize
                  /\ WrittenTo(h, fs')
                  /\ chopped' = chopped \ {h.cached.start}
<1>1. PICK seen : LET h == setCachedFile(fs, path, "append", seen)
                  IN  /\ h.size[h.cached.start] < MaxSize
                      /\ fs' = Written(h)
                      /\ chopped' = chopped \ {h.cached.start}
    BY DEF knoxcrypt_write
<1> DEFINE h == setCachedFile(fs, path, "append", seen)
<1>2. CanOpen(fs, path, "append")
    BY DEF knoxcrypt_write, Opens
<1>3. OpenedTo(fs, path, "append", h)
    BY <1>2, setCachedFileIs DEF CachesInv
<1>4. h.size[h.cached.start] < MaxSize /\ fs' = Written(h) /\ chopped' = chopped \ {h.cached.start}
    BY <1>1
<1> HIDE DEF h
<1>5. Looked(fs, h) /\ h.cached \in CachedFile
    BY <1>3 DEF OpenedTo
<1>6. TreeInv(h) /\ CacheInv(h)
    BY <1>5, LookedKeeps DEF CachesInv
<1>7. WrittenTo(h, fs')
    BY <1>4, <1>5, <1>6, WrittenIs
<1> QED BY <1>3, <1>4, <1>6, <1>7

LEMMA TruncateCallback ==
    ASSUME CachesInv, NEW path \in Path, NEW size \in 0 .. MaxSize, knoxcrypt_truncate(path, size)
    PROVE  \E h : /\ OpenedTo(fs, path, "overwrite", h)
                  /\ TreeInv(h) /\ CacheInv(h)
                  /\ TruncatedTo(h, size, fs')
                  /\ chopped' = chopped \union {h.cached.start}
<1>1. PICK seen : LET after == truncateFile(fs, path, size, seen)
                  IN  fs' = after /\ chopped' = chopped \union {after.cached.start}
    BY DEF knoxcrypt_truncate
<1> DEFINE h == setCachedFile(fs, path, "overwrite", seen)
<1>2. CanOpen(fs, path, "overwrite")
    BY DEF knoxcrypt_truncate, Opens
<1>3. OpenedTo(fs, path, "overwrite", h)
    BY <1>2, setCachedFileIs DEF CachesInv
<1>4. Looked(fs, h) /\ h.cached \in CachedFile
    BY <1>3 DEF OpenedTo
<1>5. TreeInv(h) /\ CacheInv(h)
    BY <1>4, LookedKeeps DEF CachesInv
<1>6. TruncatedTo(h, size, fs')
    BY <1>1, <1>4, <1>5, truncateFileIs
<1> HIDE DEF h
<1>7. fs'.cached.start = h.cached.start
    BY <1>4, <1>6 DEF TruncatedTo, CachedFile
<1>8. chopped' = chopped \union {h.cached.start}
    BY <1>1, <1>7
<1> QED BY <1>3, <1>5, <1>6, <1>8

LEMMA UnlinkCallback ==
    ASSUME CachesInv, NEW path \in Path, knoxcrypt_unlink(path)
    PROVE  /\ GoneFrom(fs, path, fs') /\ PairStays(fs, fs') /\ NodeAt(fs, path).type = "file"
           /\ chopped' = chopped \intersect fs'.owned
<1>1. PICK seen : fs' = removeFile(fs, path, seen)
    BY DEF knoxcrypt_unlink
<1>2. CanRemoveFile(fs, path)
    BY DEF knoxcrypt_unlink
<1> QED BY <1>1, <1>2, removeFileIs DEF CachesInv, knoxcrypt_unlink

LEMMA RmdirCallback ==
    ASSUME CachesInv, FoldersFollow, NEW path \in Path, knoxcrypt_rmdir(path)
    PROVE  /\ GoneFrom(fs, path, fs') /\ PairFollows(fs, path, fs') /\ NodeAt(fs, path).type = "folder"
           /\ chopped' = chopped \intersect fs'.owned
<1>1. PICK seen : fs' = removeFolder(fs, path, seen)
    BY DEF knoxcrypt_rmdir
<1>2. CanRemoveFolder(fs, path, "Recursive")
    BY DEF knoxcrypt_rmdir
<1>3. \A q \in DOMAIN fs.folders : ~IsStrictPrefix(path, q)
    BY DEF knoxcrypt_rmdir, FoldersFollow, FolderCachedBelow
<1>4. NodeAt(fs, path).type = "folder"
    BY <1>2, EntryIs DEF CachesInv, TreeInv, CanRemoveFolder
<1> QED BY <1>1, <1>2, <1>3, <1>4, removeFolderIs DEF CachesInv, knoxcrypt_rmdir

LEMMA RenameCallback ==
    ASSUME CachesInv, FoldersFollow, NEW path \in Path, NEW newpath \in Path, knoxcrypt_rename(path, newpath)
    PROVE  /\ RenamedTo(fs, path, newpath, fs') /\ PairFollows(fs, path, fs')
           /\ NodeAt(fs, path) # NoInfo /\ NodeAt(fs, newpath) = NoInfo
           /\ NodeAt(fs, Front(newpath)).type = "folder" /\ ~IsPrefix(path, newpath)
           /\ \A q \in Within(fs, path) : Len(newpath) + Len(q) - Len(path) <= MaxDepth
           /\ chopped' = chopped
<1>1. PICK seen : fs' = renameEntry(fs, path, newpath, seen)
    BY DEF knoxcrypt_rename
<1>2. CanRename(fs, path, newpath) /\ chopped' = chopped
    BY DEF knoxcrypt_rename
<1>3. ~IsPrefix(path, newpath)
    BY DEF knoxcrypt_rename, FoldersFollow
<1>4. \A q \in DOMAIN fs.folders : IsStrictPrefix(path, q) =>
          \A k \in Len(path) .. Len(q) : SubSeq(q, 1, k) \in DOMAIN fs.folders
    BY DEF knoxcrypt_rename, FoldersFollow, GapInCacheBelow
<1>5. ASSUME NEW q \in Within(fs, path) PROVE Len(newpath) + Len(q) - Len(path) <= MaxDepth
  <2>1. Len(newpath) + Len(q) - Len(path) <= IF NodeAt(fs, q).type = "folder" THEN MaxDepth - 1 ELSE MaxDepth
      BY <1>5 DEF knoxcrypt_rename
  <2>2. Len(newpath) \in Nat /\ Len(q) \in Nat /\ Len(path) \in Nat
      BY PathIs, <1>5 DEF Within
  <2> QED BY <2>1, <2>2, Constants
<1> QED BY <1>1, <1>2, <1>3, <1>4, <1>5, renameEntryIs DEF CachesInv

-----------------------------------------------------------------------------
(* The caches.                                                             *)

(* The cached pair remains one. *)
LEMMA PairStaysType ==
    ASSUME NEW f, NEW g, CachedType(f), PairStays(f, g)
    PROVE  CachedType(g)
BY DEF CachedType, PairStays, CachedFile

LEMMA CachesKept ==
    ASSUME CachesInv, FoldersFollow, [Next]_vars
    PROVE  CachesInv'
<1>1. CASE UNCHANGED vars
    BY <1>1 DEF vars, CachesInv
<1>2. CASE Remount
    BY <1>2, MountedIs DEF Remount, CachesInv, CachedType
<1>3. ASSUME NEW path \in Path \union {<< >>}, LookedUpTo PROVE CachesInv'
    BY <1>3, LookedKeeps DEF LookedUpTo, CachesInv, CachedType
<1>4. ASSUME NEW path \in Path, MadeAt(path) PROVE CachesInv'
    BY <1>4 DEF MadeAt, AddedTo, CachesInv, CachedType
<1>5. ASSUME NEW path \in Path, knoxcrypt_read(path) PROVE CachesInv'
    BY <1>5, ReadCallback, LookedKeeps DEF OpenedTo, CachesInv, CachedType
<1>6. ASSUME NEW path \in Path, knoxcrypt_write(path) PROVE CachesInv'
  <2>1. PICK h : OpenedTo(fs, path, "append", h) /\ WrittenTo(h, fs')
      BY <1>6, WriteCallback
  <2>2. h.cached \in CachedFile /\ fs'.cached = [h.cached EXCEPT !.size = @ + 1]
      BY <2>1 DEF OpenedTo, WrittenTo
  <2>3. fs'.cached \in CachedFile
      BY <2>2 DEF CachedFile
  <2> QED BY <2>1, <2>3 DEF WrittenTo, CachesInv, CachedType
<1>7. ASSUME NEW path \in Path, NEW size \in 0 .. MaxSize, knoxcrypt_truncate(path, size) PROVE CachesInv'
  <2>1. PICK h : OpenedTo(fs, path, "overwrite", h) /\ TruncatedTo(h, size, fs')
      BY <1>7, TruncateCallback
  <2>2. h.cached \in CachedFile /\ fs'.cached = [h.cached EXCEPT !.cut = TRUE]
      BY <2>1 DEF OpenedTo, TruncatedTo
  <2>3. fs'.cached \in CachedFile
      BY <2>2 DEF CachedFile
  <2> QED BY <2>1, <2>3 DEF TruncatedTo, CachesInv, CachedType
<1>8. ASSUME NEW path \in Path, knoxcrypt_unlink(path) PROVE CachesInv'
    BY <1>8, UnlinkCallback, PairStaysType DEF GoneFrom, CachesInv
<1>9. ASSUME NEW path \in Path, knoxcrypt_rmdir(path) PROVE CachesInv'
  <2>1. GoneFrom(fs, path, fs') /\ PairFollows(fs, path, fs')
      BY <1>9, RmdirCallback
  <2>2. CachedType(fs')
      BY <2>1, PairStaysType DEF PairFollows, CachesInv, CachedType
  <2> QED BY <2>1, <2>2 DEF GoneFrom, CachesInv
<1>10. ASSUME NEW path \in Path, NEW newpath \in Path, knoxcrypt_rename(path, newpath) PROVE CachesInv'
  <2>1. RenamedTo(fs, path, newpath, fs') /\ PairFollows(fs, path, fs')
      BY <1>10, RenameCallback
  <2>2. CachedType(fs')
      BY <2>1, PairStaysType DEF PairFollows, CachesInv, CachedType
  <2> QED BY <2>1, <2>2 DEF RenamedTo, CachesInv
<1>11. ASSUME Callback PROVE CachesInv'
    BY <1>3, <1>4, <1>5, <1>6, <1>7, <1>8, <1>9, <1>10, <1>11, LookingCallbacks, MakingCallbacks DEF Callback
<1> QED BY <1>1, <1>2, <1>11 DEF Next

LEMMA CachesInit ==
    ASSUME Init
    PROVE  CachesInv
BY EmptyFSIs DEF Init, CachesInv, CachedType

(* The image is a tree, every entry of which leads to a block of its own,  *)
(* and every folder object is that of the folder at its path, whatever was *)
(* made, removed, renamed and looked up (CoreFS.cpp:459-462, 544-563), as  *)
(* long as no folder is moved or removed over the head of a cached one.    *)
THEOREM CachesHold ==
    ASSUME FoldersFollow
    PROVE  Spec => []CachesInv
<1>1. Init => CachesInv
    BY CachesInit
<1>2. CachesInv /\ [Next]_vars => CachesInv'
    BY CachesKept
<1> QED BY <1>1, <1>2, PTL DEF Spec

(* No call works on the table of a folder that is elsewhere or gone: the   *)
(* object removeFolderFromCache leaves in the cache is that of the folder  *)
(* now at its path (CoreFS.cpp:459-462, 544-563).                          *)
THEOREM FoldersCurrent ==
    ASSUME FoldersFollow
    PROVE  Spec => []CachedFoldersCurrent
<1>1. CachesInv => CachedFoldersCurrent
    BY DEF CachesInv, CacheInv, CachedFoldersCurrent
<1> QED BY <1>1, CachesHold, PTL

-----------------------------------------------------------------------------
(* The cached file.                                                        *)

PairInv == FileInv(fs) /\ CutInv(fs)

(* The file of the cached pair does not go or move. *)
PairKeepsFile == Misuse \subseteq {"returnToFirst", "truncateAgain", "orphanedWrite"}

(* The pair is about its file still, if neither the file's place nor its   *)
(* size has changed.                                                       *)
LEMMA FileStays ==
    ASSUME NEW f, NEW g, CachedType(f), FileInv(f), CutInv(f), PairStays(f, g),
           f.cached # NoFile /\ f.cached.of = f.cached.path =>
               /\ NodeAt(g, f.cached.of) = NodeAt(f, f.cached.of)
               /\ g.size[f.cached.start] = f.size[f.cached.start]
    PROVE  FileInv(g) /\ CutInv(g)
<1>1. CASE f.cached = NoFile
    BY <1>1 DEF PairStays, FileInv, CutInv
<1>2. CASE f.cached \in CachedFile
  <2>1. f.cached # NoFile
      BY <1>2, NoFileIs
  <2>2. /\ g.cached.of = f.cached.of /\ g.cached.path = f.cached.path /\ g.cached.start = f.cached.start
        /\ g.cached.cut = f.cached.cut /\ g.cached.mode = f.cached.mode /\ g.cached.size = f.cached.size
      BY <1>2 DEF PairStays, CachedFile
  <2> QED BY <2>1, <2>2 DEF FileInv, CutInv
<1> QED BY <1>1, <1>2 DEF CachedType

(* openFile keeps to that, whichever object it hands out. *)
LEMMA FileOpened ==
    ASSUME NEW f, NEW g, TreeInv(f), CacheInv(f), CachedType(f), FileInv(f), CutInv(f),
           NEW path \in Path, NEW mode, OpenedTo(f, path, mode, g)
    PROVE  FileInv(g) /\ CutInv(g)
<1>1. /\ Looked(f, g) /\ g.size = f.size
      /\ \A p \in Seq(Name) : NodeAt(g, p) = NodeAt(f, p)
    BY LookedKeeps DEF OpenedTo, Looked
<1>2. path \in Seq(Name)
    BY PathIs
<1>3. CASE IsCached(f, path, mode)
  <2>1. g.cached = f.cached /\ f.cached \in CachedFile
      BY <1>3 DEF OpenedTo, IsCached, CachedType
  <2>2. f.cached.of \in Seq(Name)
      BY <2>1, PathIs, NoFileIs
  <2> QED BY <1>1, <2>1, <2>2, FileStays DEF PairStays
<1>4. CASE ~IsCached(f, path, mode)
  <2> DEFINE start == NodeAt(f, path).start
  <2>1. /\ NodeAt(f, path) = [type |-> "file", start |-> start]
        /\ g.cached.of = path /\ g.cached.start = start /\ g.cached.cut = FALSE
        /\ g.cached.size = f.size[start]
      BY <1>4 DEF OpenedTo
  <2> QED BY <1>1, <1>2, <2>1 DEF FileInv, CutInv
<1> QED BY <1>3, <1>4

(* Nothing is at or below a path where nothing is. *)
LEMMA NothingBelow ==
    ASSUME NEW f, ImageType(f), NEW p \in Seq(Name), NEW q \in Seq(Name),
           NodeAt(f, p) = NoInfo, NodeAt(f, q) # NoInfo
    PROVE  ~IsPrefix(p, q)
BY AboveExists

(* What the pair is about, while it is named after it. *)
LEMMA PairIs ==
    ASSUME CachesInv, PairInv, fs.cached # NoFile, fs.cached.of = fs.cached.path
    PROVE  /\ fs.cached \in CachedFile /\ fs.cached.of \in Seq(Name) /\ fs.cached.start \in Block
           /\ NodeAt(fs, fs.cached.of) = [type |-> "file", start |-> fs.cached.start]
           /\ NodeAt(fs, fs.cached.of) # NoInfo
<1>1. fs.cached \in CachedFile
    BY DEF CachesInv, CachedType
<1>2. NodeAt(fs, fs.cached.of) = [type |-> "file", start |-> fs.cached.start]
    BY DEF PairInv, FileInv
<1> QED BY <1>1, <1>2, NoFileIs, PathIs, NoInfoIs

LEMMA PairKept ==
    ASSUME CachesInv, PairInv, FoldersFollow, PairKeepsFile, [Next]_vars
    PROVE  PairInv'
<1> USE DEF PairInv
<1> DEFINE c == fs.cached
           Named == c # NoFile /\ c.of = c.path
<1>a. TreeInv(fs) /\ CacheInv(fs) /\ CachedType(fs) /\ ImageType(fs)
    BY DEF CachesInv, TreeInv
<1>b. Named => /\ c \in CachedFile /\ c.of \in Seq(Name) /\ c.start \in Block
               /\ NodeAt(fs, c.of) = [type |-> "file", start |-> c.start]
               /\ NodeAt(fs, c.of) # NoInfo
    BY PairIs
<1>1. CASE UNCHANGED vars
    BY <1>1 DEF vars
<1>2. CASE Remount
    BY <1>2, <1>a, MountedIs DEF Remount, FileInv, CutInv
<1>3. ASSUME NEW path \in Path \union {<< >>}, LookedUpTo PROVE PairInv'
  <2>1. fs'.size = fs.size /\ PairStays(fs, fs')
      BY <1>3 DEF LookedUpTo, Looked, PairStays
  <2>2. \A p \in Seq(Name) : NodeAt(fs', p) = NodeAt(fs, p)
      BY <1>3, <1>a, LookedKeeps DEF LookedUpTo
  <2> QED BY <1>a, <1>b, <2>1, <2>2, FileStays
<1>4. ASSUME NEW path \in Path, MadeAt(path) PROVE PairInv'
  <2>1. PICK new : AddedTo(fs, path, new, fs')
      BY <1>4 DEF MadeAt
  <2>2. /\ fs'.size = fs.size /\ PairStays(fs, fs') /\ NodeAt(fs, path) = NoInfo
        /\ \A q \in Seq(Name) : q # path => NodeAt(fs', q) = NodeAt(fs, q)
      BY <2>1 DEF AddedTo, PairStays
  <2> QED BY <1>a, <1>b, <2>2, FileStays
<1>5. ASSUME NEW path \in Path, knoxcrypt_read(path) PROVE PairInv'
    BY <1>5, <1>a, ReadCallback, FileOpened
<1>6. ASSUME NEW path \in Path, knoxcrypt_write(path) PROVE PairInv'
  <2>1. PICK h : OpenedTo(fs, path, "append", h) /\ WrittenTo(h, fs') /\ TreeInv(h)
      BY <1>6, WriteCallback
  <2>2. FileInv(h) /\ CutInv(h) /\ h.cached \in CachedFile
      BY <1>a, <2>1, FileOpened DEF OpenedTo
  <2>3. /\ fs'.cached.of = h.cached.of /\ fs'.cached.path = h.cached.path
        /\ fs'.cached.start = h.cached.start /\ fs'.cached.cut = h.cached.cut
        /\ fs'.cached.mode = h.cached.mode /\ fs'.cached.size = h.cached.size + 1
      BY <2>1, <2>2 DEF WrittenTo, CachedFile
  <2>4. h.cached # NoFile /\ h.cached.start \in Block /\ h.cached.of \in Seq(Name)
      BY <2>2, NoFileIs, PathIs
  <2>5. fs'.size[h.cached.start] = h.size[h.cached.start] + 1
      BY <2>1, <2>4 DEF WrittenTo, TreeInv, ImageType
  <2>6. NodeAt(fs', h.cached.of) = NodeAt(h, h.cached.of)
      BY <2>1, <2>4, NodeSame DEF WrittenTo
  <2> QED BY <2>2, <2>3, <2>4, <2>5, <2>6 DEF FileInv, CutInv
<1>7. ASSUME NEW path \in Path, NEW size \in 0 .. MaxSize, knoxcrypt_truncate(path, size) PROVE PairInv'
  <2>1. PICK h : OpenedTo(fs, path, "overwrite", h) /\ TruncatedTo(h, size, fs')
      BY <1>7, TruncateCallback
  <2>2. FileInv(h) /\ CutInv(h) /\ h.cached \in CachedFile
      BY <1>a, <2>1, FileOpened DEF OpenedTo
  <2>3. /\ fs'.cached.of = h.cached.of /\ fs'.cached.path = h.cached.path
        /\ fs'.cached.start = h.cached.start /\ fs'.cached.cut /\ fs'.cached.mode = h.cached.mode
      BY <2>1, <2>2 DEF TruncatedTo, CachedFile
  <2>4. h.cached.mode = "overwrite"
    <3>1. ~IsCached(fs, path, "overwrite") => h.cached.mode = "overwrite"
        BY <2>1 DEF OpenedTo
    <3> QED BY <2>1, <3>1 DEF OpenedTo, IsCached
  <2>5. h.cached # NoFile /\ h.cached.of \in Seq(Name)
      BY <2>2, NoFileIs, PathIs
  <2>6. NodeAt(fs', h.cached.of) = NodeAt(h, h.cached.of)
      BY <2>1, <2>5, NodeSame DEF TruncatedTo
  <2> QED BY <2>2, <2>3, <2>4, <2>5, <2>6 DEF FileInv, CutInv
<1>8. ASSUME NEW path \in Path, knoxcrypt_unlink(path) PROVE PairInv'
  <2>1. GoneFrom(fs, path, fs') /\ PairStays(fs, fs') /\ NodeAt(fs, path).type = "file"
      BY <1>8, UnlinkCallback
  <2>2. path \in Seq(Name) /\ (Named => path # c.of)
      BY <1>8, PathIs DEF knoxcrypt_unlink, IsCachedFile, PairKeepsFile
  <2>3. Named => ~IsPrefix(path, c.of)
      BY <1>a, <1>b, <2>1, <2>2, FileBelow
  <2>4. Named => c.start \notin Gone(fs, path)
      BY <1>a, <1>b, <2>3, GoneIs
  <2> QED BY <1>a, <1>b, <2>1, <2>3, <2>4, FileStays DEF GoneFrom
<1>9. ASSUME NEW path \in Path, knoxcrypt_rmdir(path) PROVE PairInv'
  <2>1. GoneFrom(fs, path, fs') /\ PairFollows(fs, path, fs') /\ NodeAt(fs, path).type = "folder"
      BY <1>9, RmdirCallback
  <2>2. CASE fs'.cached = NoFile
      BY <2>2 DEF FileInv, CutInv
  <2>3. CASE PairStays(fs, fs') /\ ~(c # NoFile /\ IsStrictPrefix(path, c.path))
    <3>1. path \in Seq(Name) /\ (Named => path # c.of)
        BY <1>b, <2>1, PathIs
    <3>2. Named => ~IsPrefix(path, c.of)
        BY <1>b, <2>3, <3>1, StrictIs
    <3>3. Named => c.start \notin Gone(fs, path)
        BY <1>a, <1>b, <3>2, GoneIs
    <3> QED BY <1>a, <1>b, <2>1, <2>3, <3>2, <3>3, FileStays DEF GoneFrom
  <2> QED BY <2>1, <2>2, <2>3 DEF PairFollows
<1>10. ASSUME NEW path \in Path, NEW newpath \in Path, knoxcrypt_rename(path, newpath) PROVE PairInv'
  <2>1. /\ RenamedTo(fs, path, newpath, fs') /\ PairFollows(fs, path, fs')
        /\ NodeAt(fs, newpath) = NoInfo
      BY <1>10, RenameCallback
  <2>2. CASE fs'.cached = NoFile
      BY <2>2 DEF FileInv, CutInv
  <2>3. CASE PairStays(fs, fs') /\ ~(c # NoFile /\ IsStrictPrefix(path, c.path))
    <3>1. path \in Seq(Name) /\ newpath \in Seq(Name)
        BY PathIs
    <3>2. Named => path # c.of
        BY <1>10 DEF knoxcrypt_rename, IsCachedFile, PairKeepsFile
    <3>3. Named => ~IsPrefix(path, c.of)
        BY <1>b, <2>3, <3>1, <3>2, StrictIs
    <3>4. Named => ~IsPrefix(newpath, c.of)
        BY <1>a, <1>b, <2>1, <3>1, NothingBelow
    <3> QED BY <1>a, <1>b, <2>1, <2>3, <3>3, <3>4, FileStays DEF RenamedTo
  <2> QED BY <2>1, <2>2, <2>3 DEF PairFollows
<1>11. ASSUME Callback PROVE PairInv'
    BY <1>3, <1>4, <1>5, <1>6, <1>7, <1>8, <1>9, <1>10, <1>11, LookingCallbacks, MakingCallbacks DEF Callback
<1> QED BY <1>1, <1>2, <1>11 DEF Next

LEMMA PairHolds ==
    ASSUME FoldersFollow, PairKeepsFile
    PROVE  Spec => [](CachesInv /\ PairInv)
<1>1. Init => CachesInv /\ PairInv
    BY CachesInit, EmptyFSIs DEF Init, PairInv, FileInv, CutInv
<1>2. CachesInv /\ PairInv /\ [Next]_vars => (CachesInv /\ PairInv)'
    BY CachesKept, PairKept
<1> QED BY <1>1, <1>2, PTL DEF Spec

(* An object that openFile hands out again is one of the file that the     *)
(* path names and knows the file's size: neither another file's nor an     *)
(* earlier one's (CoreFS.cpp:385-401).  Of the calls of Misuse this stands *)
(* the write that is not reported; the others are excluded.                *)
THEOREM FileCurrent ==
    ASSUME Misuse \subseteq {"orphanedWrite"}
    PROVE  Spec => []CachedFileCurrent
<1>1. FoldersFollow /\ PairKeepsFile
    BY DEF FoldersFollow, PairKeepsFile
<1>2. CachesInv /\ PairInv => CachedFileCurrent
  <2> SUFFICES ASSUME CachesInv, PairInv, fs.cached # NoFile, Opens(fs.cached.path, fs.cached.mode),
                      fs.cached.cut => "truncateAgain" \in Misuse
               PROVE  /\ NodeAt(fs, fs.cached.path) = [type |-> "file", start |-> fs.cached.start]
                      /\ fs.cached.size = fs.size[fs.cached.start]
      BY DEF CachedFileCurrent
  <2>1. fs.cached.of = fs.cached.path
      BY DEF Opens, IsCached
  <2> QED BY <2>1 DEF PairInv, FileInv
<1> QED BY <1>1, <1>2, PairHolds, PTL

-----------------------------------------------------------------------------
(* The reported sizes.                                                     *)

ReportsInv == InfosInv(fs) /\ SizesInv(fs, chopped)

(* An info of a file knows which file it is of. *)
LEMMA InfoIs ==
    ASSUME NEW f, TreeInv(f), CacheInv(f), InfosInv(f), NEW p \in DOMAIN f.folders,
           NEW n \in DOMAIN f.folders[p].sizes
    PROVE  LET node == NodeAt(f, Append(p, n))
           IN  /\ Append(p, n) \in Seq(Name) /\ Append(p, n) # << >>
               /\ Front(Append(p, n)) = p /\ Last(Append(p, n)) = n
               /\ n \in Name
               /\ node = At(f, f.folders[p].start, n) /\ node # NoInfo
               /\ node.type = "file" /\ node.start \in Block /\ f.folders[p].start \in Start
<1>1. /\ p \in Seq(Name) /\ NodeAt(f, p).type = "folder" /\ f.folders[p].start = NodeAt(f, p).start
      /\ f.folders[p].start \in Start
    BY Cached DEF TreeInv
<1>2. n \in Name /\ At(f, f.folders[p].start, n).type = "file"
    BY DEF InfosInv
<1> DEFINE q == Append(p, n)
<1>3. q \in Seq(Name) /\ q # << >> /\ Front(q) = p /\ Last(q) = n
    BY <1>1, <1>2, AppendFront
<1> HIDE DEF q
<1>4. NodeAt(f, q) = At(f, f.folders[p].start, n)
    BY <1>1, <1>3, NodeEntry DEF TreeInv
<1>5. At(f, f.folders[p].start, n) # NoInfo /\ At(f, f.folders[p].start, n).start \in Block
    BY <1>1, <1>2, AtType, NoInfoIs DEF TreeInv
<1> QED BY <1>1, <1>2, <1>3, <1>4, <1>5 DEF q

(* A write through an object that knows the file's size, and reports it if *)
(* there is an info of the file. *)
LEMMA SizesWritten ==
    ASSUME NEW h, NEW g, TreeInv(h), CacheInv(h), InfosInv(h), NEW cut, SizesInv(h, cut),
           h.cached \in CachedFile, WrittenTo(h, g),
           NodeAt(h, h.cached.of) = [type |-> "file", start |-> h.cached.start],
           h.cached.size = h.size[h.cached.start],
           \/ h.cached.reports
           \/ \A p \in DOMAIN h.folders : p = Front(h.cached.of) => Last(h.cached.of) \notin DOMAIN h.folders[p].sizes
    PROVE  InfosInv(g) /\ SizesInv(g, cut \ {h.cached.start})
<1> DEFINE c == h.cached
<1>1. c.of \in Seq(Name) /\ c.of # << >> /\ c.start \in Block /\ c.size \in Nat /\ NodeAt(h, c.of) # NoInfo
    BY NoFileIs, PathIs, EmptySeq, NoInfoIs
<1>2. /\ \A b, n : At(g, b, n) = At(h, b, n)
      /\ DOMAIN g.folders = DOMAIN h.folders
      /\ g.size[c.start] = h.size[c.start] + 1
      /\ \A b \in Block : b # c.start => g.size[b] = h.size[b]
    BY <1>1 DEF WrittenTo, At, TreeInv, ImageType
<1>3. ASSUME NEW p \in DOMAIN h.folders PROVE
          g.folders[p].start = h.folders[p].start /\ DOMAIN g.folders[p].sizes = DOMAIN h.folders[p].sizes
    BY DEF WrittenTo
<1>4. InfosInv(g)
    BY <1>2, <1>3 DEF InfosInv
<1>5. ASSUME NEW p \in DOMAIN h.folders, NEW n \in DOMAIN h.folders[p].sizes
      PROVE  LET start == At(h, h.folders[p].start, n).start
             IN  g.folders[p].sizes[n] = g.size[start] \/ start \in cut \ {c.start}
  <2> DEFINE start == At(h, h.folders[p].start, n).start
             q == Append(p, n)
  <2>1. /\ q \in Seq(Name) /\ q # << >> /\ NodeAt(h, q) # NoInfo
        /\ NodeAt(h, q).start = start /\ start \in Block
        /\ Front(q) = p /\ Last(q) = n
      BY InfoIs
  <2> HIDE DEF q
  <2>2. g.folders[p].sizes[n] = IF c.reports /\ p = Front(c.of) /\ n = Last(c.of) THEN c.size + 1
                                ELSE h.folders[p].sizes[n]
      BY DEF WrittenTo
  <2>3. h.folders[p].sizes[n] = h.size[start] \/ start \in cut
      BY DEF SizesInv
  <2>4. CASE start = c.start
    <3>1. NodeAt(h, q).start = NodeAt(h, c.of).start
        BY <2>1, <2>4
    <3>2. q = c.of
        BY <1>1, <2>1, <3>1, OnePath DEF TreeInv
    <3>3. c.reports /\ p = Front(c.of) /\ n = Last(c.of)
        BY <2>1, <3>2
    <3> QED BY <1>2, <2>2, <2>4, <3>3
  <2>5. CASE start # c.start
    <3>1. ~(p = Front(c.of) /\ n = Last(c.of))
      <4>1. ASSUME p = Front(c.of), n = Last(c.of) PROVE q = c.of
          BY <1>1, <2>1, <4>1, Rejoined
      <4> QED BY <2>1, <2>5, <4>1
    <3> QED BY <1>2, <2>1, <2>2, <2>3, <2>5, <3>1
  <2> QED BY <2>4, <2>5
<1>6. ASSUME NEW p \in DOMAIN g.folders, NEW n \in DOMAIN g.folders[p].sizes
      PROVE  LET start == At(g, g.folders[p].start, n).start
             IN  g.folders[p].sizes[n] = g.size[start] \/ start \in cut \ {c.start}
  <2>1. /\ p \in DOMAIN h.folders /\ n \in DOMAIN h.folders[p].sizes
        /\ g.folders[p].start = h.folders[p].start
      BY <1>2, <1>3
  <2>2. At(g, g.folders[p].start, n) = At(h, h.folders[p].start, n)
      BY <1>2, <2>1
  <2> QED BY <1>5, <2>1, <2>2
<1>7. SizesInv(g, cut \ {c.start})
    BY <1>6 DEF SizesInv
<1> QED BY <1>4, <1>7

(* A new entry changes no info. *)
LEMMA SizesMade ==
    ASSUME NEW path \in Path, MadeAt(path), TreeInv(fs), CacheInv(fs), InfosInv(fs), NEW cut, SizesInv(fs, cut)
    PROVE  InfosInv(fs') /\ SizesInv(fs', cut)
<1>1. PICK new : AddedTo(fs, path, new, fs')
    BY DEF MadeAt
<1>2. PICK h : Looked(fs, h) /\ fs'.folders = h.folders
    BY DEF MadeAt
<1>3. TreeInv(h) /\ CacheInv(h) /\ InfosInv(h) /\ SizesInv(h, cut) /\ h.size = fs.size
    BY <1>2, LookedKeeps DEF Looked
<1>4. /\ path \in Seq(Name) /\ path # << >>
      /\ NodeAt(fs, path) = NoInfo /\ NodeAt(fs, Front(path)).type = "folder"
    BY <1>1, PathIs, EmptySeq DEF AddedTo, MadeAt
<1>5. At(fs, NodeAt(fs, Front(path)).start, Last(path)) = NoInfo
    BY <1>4, NodeEntry DEF TreeInv
<1>6. ASSUME NEW p \in DOMAIN h.folders, NEW n \in DOMAIN h.folders[p].sizes
      PROVE  n \in Name /\ At(fs', h.folders[p].start, n) = At(h, h.folders[p].start, n)
  <2>1. /\ n \in Name /\ h.folders[p].start \in Start
        /\ At(h, h.folders[p].start, n) # NoInfo
      BY <1>3, InfoIs
  <2>2. At(h, h.folders[p].start, n) = At(fs, h.folders[p].start, n)
      BY <1>2, LookedImage DEF TreeInv
  <2> QED BY <1>1, <1>5, <2>1, <2>2 DEF AddedTo
<1>7. fs'.size = h.size
    BY <1>1, <1>3 DEF AddedTo
<1>8. InfosInv(fs')
    BY <1>2, <1>3, <1>6 DEF InfosInv
<1>9. SizesInv(fs', cut)
    BY <1>2, <1>3, <1>6, <1>7 DEF SizesInv
<1> QED BY <1>8, <1>9

(* A file is truncated: that its infos are not told, chopped has. *)
LEMMA SizesTruncated ==
    ASSUME NEW h, NEW g, TreeInv(h), CacheInv(h), InfosInv(h), NEW cut, SizesInv(h, cut),
           h.cached \in CachedFile, NEW size, TruncatedTo(h, size, g)
    PROVE  InfosInv(g) /\ SizesInv(g, cut \union {h.cached.start})
<1>1. /\ g.folders = h.folders
      /\ \A b, n : At(g, b, n) = At(h, b, n)
      /\ \A b \in Block : b # h.cached.start => g.size[b] = h.size[b]
    BY DEF TruncatedTo, At, TreeInv, ImageType
<1>2. InfosInv(g)
    BY <1>1 DEF InfosInv
<1>3. ASSUME NEW p \in DOMAIN h.folders, NEW n \in DOMAIN h.folders[p].sizes
      PROVE  At(h, h.folders[p].start, n).start \in Block
    BY InfoIs
<1>4. SizesInv(g, cut \union {h.cached.start})
    BY <1>1, <1>3 DEF SizesInv
<1> QED BY <1>2, <1>4

(* The object a write goes through is the file's, knows its size, and      *)
(* reports it, unless there is nothing to report to.                       *)
LEMMA WritesReported ==
    ASSUME CachesInv, PairInv, NEW path \in Path, Misuse \subseteq {"truncateAgain"},
           knoxcrypt_write(path), NEW h, OpenedTo(fs, path, "append", h), CacheInv(h)
    PROVE  /\ h.cached \in CachedFile
           /\ NodeAt(h, h.cached.of) = [type |-> "file", start |-> h.cached.start]
           /\ h.cached.size = h.size[h.cached.start]
           /\ \/ h.cached.reports
              \/ \A p \in DOMAIN h.folders :
                    p = Front(h.cached.of) => Last(h.cached.of) \notin DOMAIN h.folders[p].sizes
<1>1. /\ h.cached \in CachedFile /\ h.size = fs.size /\ path \in Seq(Name)
      /\ \A p \in Seq(Name) : NodeAt(h, p) = NodeAt(fs, p)
    BY LookedKeeps, PathIs DEF OpenedTo, Looked, CachesInv
<1>2. CASE IsCached(fs, path, "append")
  <2>1. h.cached = fs.cached /\ fs.cached # NoFile /\ fs.cached.path = path /\ fs.cached.mode = "append"
      BY <1>2 DEF OpenedTo, IsCached
  <2>2. fs.cached.of = path
      BY <1>2 DEF knoxcrypt_write, Opens
  <2>3. ~fs.cached.cut
      BY <2>1 DEF PairInv, CutInv
  <2>4. /\ NodeAt(fs, path) = [type |-> "file", start |-> fs.cached.start]
        /\ fs.cached.size = fs.size[fs.cached.start]
      BY <2>1, <2>2, <2>3 DEF PairInv, FileInv
  <2>5. ASSUME ~fs.cached.reports, NEW p \in DOMAIN h.folders, p = Front(path), Last(path) \in DOMAIN h.folders[p].sizes
        PROVE  FALSE
    <3>1. p \in DOMAIN fs.folders /\ Last(path) \in DOMAIN fs.folders[p].sizes
        BY <1>2, <2>5 DEF OpenedTo
    <3> QED BY <1>2, <2>5, <3>1 DEF knoxcrypt_write, Orphaned, ParentOf
  <2> QED BY <1>1, <2>1, <2>2, <2>4, <2>5
<1>3. CASE ~IsCached(fs, path, "append")
  <2> DEFINE start == NodeAt(fs, path).start
  <2>1. /\ NodeAt(fs, path) = [type |-> "file", start |-> start]
        /\ h.cached.of = path /\ h.cached.start = start /\ h.cached.reports = TRUE
        /\ h.cached.size = fs.size[start]
      BY <1>3 DEF OpenedTo
  <2> QED BY <1>1, <2>1
<1> QED BY <1>2, <1>3

LEMMA ReportsKept ==
    ASSUME CachesInv, PairInv, ReportsInv, FoldersFollow, Misuse \subseteq {"truncateAgain"}, [Next]_vars
    PROVE  ReportsInv'
<1> USE DEF ReportsInv
<1>a. TreeInv(fs) /\ CacheInv(fs)
    BY DEF CachesInv
<1>1. CASE UNCHANGED vars
    BY <1>1 DEF vars
<1>2. CASE Remount
    BY <1>2, <1>a, MountedIs DEF Remount
<1>3. ASSUME NEW path \in Path \union {<< >>}, LookedUpTo, chopped' = chopped PROVE ReportsInv'
    BY <1>3, <1>a, LookedKeeps DEF LookedUpTo
<1>4. ASSUME NEW path \in Path, MadeAt(path), chopped' = chopped PROVE ReportsInv'
    BY <1>4, <1>a, SizesMade
<1>5. ASSUME NEW path \in Path, knoxcrypt_read(path) PROVE ReportsInv'
    BY <1>5, <1>a, ReadCallback, LookedKeeps DEF OpenedTo
<1>6. ASSUME NEW path \in Path, knoxcrypt_write(path) PROVE ReportsInv'
  <2>1. PICK h : /\ OpenedTo(fs, path, "append", h) /\ TreeInv(h) /\ CacheInv(h)
                 /\ WrittenTo(h, fs') /\ chopped' = chopped \ {h.cached.start}
      BY <1>6, WriteCallback
  <2>2. InfosInv(h) /\ SizesInv(h, chopped)
      BY <1>a, <2>1, LookedKeeps DEF OpenedTo
  <2> QED BY <1>6, <2>1, <2>2, WritesReported, SizesWritten
<1>7. ASSUME NEW path \in Path, NEW size \in 0 .. MaxSize, knoxcrypt_truncate(path, size) PROVE ReportsInv'
  <2>1. PICK h : /\ OpenedTo(fs, path, "overwrite", h) /\ TreeInv(h) /\ CacheInv(h)
                 /\ TruncatedTo(h, size, fs') /\ chopped' = chopped \union {h.cached.start}
      BY <1>7, TruncateCallback
  <2>2. InfosInv(h) /\ SizesInv(h, chopped) /\ h.cached \in CachedFile
      BY <1>a, <2>1, LookedKeeps DEF OpenedTo
  <2> QED BY <2>1, <2>2, SizesTruncated
<1>8. ASSUME NEW path \in Path, knoxcrypt_unlink(path) PROVE ReportsInv'
    BY <1>8, UnlinkCallback DEF GoneFrom
<1>9. ASSUME NEW path \in Path, knoxcrypt_rmdir(path) PROVE ReportsInv'
    BY <1>9, RmdirCallback DEF GoneFrom
<1>10. ASSUME NEW path \in Path, NEW newpath \in Path, knoxcrypt_rename(path, newpath) PROVE ReportsInv'
    BY <1>10, RenameCallback DEF RenamedTo
<1>11. ASSUME Callback PROVE ReportsInv'
    BY <1>3, <1>4, <1>5, <1>6, <1>7, <1>8, <1>9, <1>10, <1>11, LookingCallbacks, MakingCallbacks DEF Callback
<1> QED BY <1>1, <1>2, <1>11 DEF Next

(* The size getInfo reports is the file's, unless the file was truncated   *)
(* and not written since: every growth reaches the entry info that         *)
(* look-ups find (File.cpp:588-591, ContentFolder.cpp:366-368), as long as *)
(* the file of the cached pair is not removed or renamed, its first one is *)
(* not returned to, and no write goes through an object cut off from the   *)
(* info.                                                                   *)
THEOREM ReportedSizes ==
    ASSUME Misuse \subseteq {"truncateAgain"}
    PROVE  Spec => []SizesReported
<1>1. FoldersFollow /\ PairKeepsFile
    BY DEF FoldersFollow, PairKeepsFile
<1>2. Init => ReportsInv
  <2>1. DOMAIN EmptyFS.folders = {<< >>} /\ DOMAIN EmptyFS.folders[<< >>].sizes = {}
      BY EmptyFSIs DEF RootOnly
  <2> QED BY <2>1 DEF Init, ReportsInv, InfosInv, SizesInv
<1>3. CachesInv /\ PairInv /\ ReportsInv /\ [Next]_vars => ReportsInv'
    BY <1>1, ReportsKept
<1>4. CachesInv /\ ReportsInv => SizesReported
  <2> SUFFICES ASSUME CachesInv, ReportsInv, NEW p \in DOMAIN fs.folders, NEW n \in DOMAIN fs.folders[p].sizes
               PROVE  \/ fs.folders[p].sizes[n] = fs.size[NodeAt(fs, Append(p, n)).start]
                      \/ NodeAt(fs, Append(p, n)).start \in chopped
      BY DEF SizesReported
  <2>1. NodeAt(fs, Append(p, n)) = At(fs, fs.folders[p].start, n)
      BY InfoIs DEF CachesInv, ReportsInv
  <2> QED BY <2>1 DEF ReportsInv, SizesInv
<1>5. Spec => [](CachesInv /\ PairInv)
    BY <1>1, PairHolds
<1> QED BY <1>2, <1>3, <1>4, <1>5, PTL DEF Spec

-----------------------------------------------------------------------------
(* The tree of files.                                                      *)

(* What FileTree sees of a record at a path, and of all of it. *)
Seen(f, p) ==
    LET node == NodeAt(f, p)
    IN  [type |-> node.type, size |-> IF node.type = "file" THEN f.size[node.start] ELSE 0]

Used(f) == {q \in Path : NodeAt(f, q) # NoInfo}
TreeOf(f) == [p \in Used(f) |-> Seen(f, p)]

LEMMA TreeNow == Tree = TreeOf(fs) /\ Tree' = TreeOf(fs')
BY DEF Tree, TreeOf, Used, Seen, Exists, NodeAt

LEMMA PrefixInTree == \A p, q : FT!IsPrefix(p, q) <=> IsPrefix(p, q)
BY DEF FT!IsPrefix, IsPrefix

LEMMA FrontInTree == \A p : FT!Front(p) = Front(p)
BY DEF FT!Front, Front

(* The file of a path that is in the image. *)
LEMMA SeenIs ==
    ASSUME NEW f, TreeInv(f), NEW p \in Path, NodeAt(f, p) # NoInfo
    PROVE  /\ p \in Seq(Name) /\ NodeAt(f, p).type \in {"file", "folder"}
           /\ NodeAt(f, p).start \in f.owned /\ NodeAt(f, p).start \in Block
           /\ Seen(f, p).type = NodeAt(f, p).type
           /\ Seen(f, p) \in [type : {"file", "folder"}, size : 0 .. MaxSize]
<1>1. p \in Seq(Name) /\ p # << >>
    BY PathIs, EmptySeq
<1>2. NodeAt(f, p) \in Entry
    BY <1>1, NodeEntry DEF TreeInv
<1>3. NodeAt(f, p).start \in f.owned
    BY <1>1, NodeOwned DEF TreeInv
<1>4. f.size[NodeAt(f, p).start] \in 0 .. MaxSize
    BY <1>2, NoInfoIs DEF TreeInv, ImageType
<1> QED BY <1>1, <1>2, <1>3, <1>4, NoInfoIs, Constants DEF Seen

(* Nothing is seen of a change that changes neither nodes nor sizes. *)
LEMMA TreeUnchanged ==
    ASSUME NEW f, NEW g, \A p \in Seq(Name) : NodeAt(g, p) = NodeAt(f, p), g.size = f.size
    PROVE  TreeOf(g) = TreeOf(f)
<1>1. Used(g) = Used(f)
    BY PathIs DEF Used
<1>2. \A p \in Used(f) : Seen(g, p) = Seen(f, p)
    BY PathIs DEF Used, Seen
<1> QED BY <1>1, <1>2 DEF TreeOf

TreeWith(t, path, type) ==
    [q \in DOMAIN t \union {path} |-> IF q = path THEN [type |-> type, size |-> 0] ELSE t[q]]

LEMMA TreeMade ==
    ASSUME NEW f, NEW path \in Path, NEW type \in {"file", "folder"}, NEW start, NEW g,
           TreeInv(f), FreeSizes(f), AddedTo(f, path, [type |-> type, start |-> start], g)
    PROVE  /\ path \in DOMAIN TreeOf(g) \ DOMAIN TreeOf(f)
           /\ TreeOf(g) = TreeWith(TreeOf(f), path, type)
<1> DEFINE new == [type |-> type, start |-> start]
<1>1. /\ new \in Entry /\ new.start \notin f.owned /\ NodeAt(f, path) = NoInfo /\ g.size = f.size
      /\ \A q \in Seq(Name) : NodeAt(g, q) = IF q = path THEN new ELSE NodeAt(f, q)
    BY DEF AddedTo
<1>2. new # NoInfo /\ new.start \in Block /\ new.type = type
    BY <1>1, NoInfoIs
<1> HIDE DEF new
<1>3. Used(g) = Used(f) \union {path} /\ path \notin Used(f)
    BY <1>1, <1>2, PathIs DEF Used
<1>4. f.size[new.start] = 0
    BY <1>1, <1>2 DEF FreeSizes
<1>5. Seen(g, path) = [type |-> type, size |-> 0]
    BY <1>1, <1>2, <1>4, PathIs DEF Seen
<1>6. \A q \in Used(f) : Seen(g, q) = Seen(f, q)
    BY <1>1, <1>3, PathIs DEF Used, Seen
<1> QED BY <1>3, <1>5, <1>6 DEF TreeOf, TreeWith

(* One file has another size. *)
LEMMA TreeResized ==
    ASSUME NEW f, NEW path \in Path, NEW g, TreeInv(f), TreeInv(g), NodeAt(f, path).type = "file",
           \A p \in Seq(Name) : NodeAt(g, p) = NodeAt(f, p),
           \A b \in Block : b # NodeAt(f, path).start => g.size[b] = f.size[b]
    PROVE  /\ DOMAIN TreeOf(g) = DOMAIN TreeOf(f) /\ path \in DOMAIN TreeOf(f)
           /\ TreeOf(f)[path].type = "file"
           /\ TreeOf(g) = [TreeOf(f) EXCEPT ![path].size = TreeOf(g)[path].size]
           /\ TreeOf(g)[path].size \in 0 .. MaxSize
<1>1. Used(g) = Used(f) /\ path \in Used(f)
    BY PathIs, NoInfoIs DEF Used
<1>2. ASSUME NEW p \in Used(f), p # path PROVE Seen(g, p) = Seen(f, p)
  <2>1. /\ p \in Seq(Name) /\ path \in Seq(Name) /\ NodeAt(f, p) # NoInfo /\ NodeAt(f, path) # NoInfo
        /\ NodeAt(f, p).start \in Block
      BY <1>1, SeenIs, PathIs DEF Used
  <2>2. NodeAt(f, p).start # NodeAt(f, path).start
      BY <1>2, <2>1, OnePath DEF TreeInv
  <2> QED BY <2>1, <2>2 DEF Seen
<1>3. /\ Seen(f, path).type = "file" /\ Seen(f, path) \in [type : {"file", "folder"}, size : 0 .. MaxSize]
      /\ Seen(g, path).type = "file" /\ Seen(g, path) \in [type : {"file", "folder"}, size : 0 .. MaxSize]
    BY <1>1, SeenIs DEF Used
<1>4. Seen(g, path) = [Seen(f, path) EXCEPT !.size = Seen(g, path).size]
    BY <1>3
<1> QED BY <1>1, <1>2, <1>3, <1>4 DEF TreeOf

LEMMA TreeDeleted ==
    ASSUME NEW f, NEW path \in Path, NEW g, TreeInv(f), NodeAt(f, path) # NoInfo, GoneFrom(f, path, g)
    PROVE  /\ path \in DOMAIN TreeOf(f) \ DOMAIN TreeOf(g)
           /\ TreeOf(g) = [q \in DOMAIN TreeOf(f) \ {p \in DOMAIN TreeOf(f) : IsPrefix(path, p)} |-> TreeOf(f)[q]]
<1>1. /\ \A q \in Seq(Name) : NodeAt(g, q) = IF IsPrefix(path, q) THEN NoInfo ELSE NodeAt(f, q)
      /\ g.size = [b \in Block |-> IF b \in Gone(f, path) THEN 0 ELSE f.size[b]]
    BY DEF GoneFrom
<1>2. path \in Seq(Name) /\ IsPrefix(path, path)
    BY PathIs, PrefixOrder
<1>3. /\ Used(g) = Used(f) \ {p \in Used(f) : IsPrefix(path, p)}
      /\ path \in Used(f) /\ path \notin Used(g)
    BY <1>1, <1>2, PathIs DEF Used
<1>4. ASSUME NEW p \in Used(g) PROVE Seen(g, p) = Seen(f, p)
  <2>1. p \in Seq(Name) /\ ~IsPrefix(path, p) /\ NodeAt(f, p) # NoInfo /\ NodeAt(f, p).start \in Block
      BY <1>3, SeenIs DEF Used
  <2>2. NodeAt(f, p).start \notin Gone(f, path)
      BY <2>1, GoneIs
  <2> QED BY <1>1, <2>1, <2>2 DEF Seen
<1> QED BY <1>3, <1>4 DEF TreeOf

LEMMA TreeMoved ==
    ASSUME NEW f, NEW src \in Path, NEW dst \in Path, NEW g, TreeInv(f), RenamedTo(f, src, dst, g),
           NodeAt(f, src) # NoInfo, NodeAt(f, dst) = NoInfo, ~IsPrefix(src, dst)
    PROVE  LET t == TreeOf(f)
               within == {q \in DOMAIN t : IsPrefix(src, q)}
               moved == {Moved(src, dst, q) : q \in within}
           IN  /\ src \in DOMAIN t \ DOMAIN TreeOf(g) /\ dst \in DOMAIN TreeOf(g) \ DOMAIN t
               /\ TreeOf(g) = [q \in (DOMAIN t \ within) \union moved |->
                                   IF q \in moved THEN t[Moved(dst, src, q)] ELSE t[q]]
<1> DEFINE within == {q \in Used(f) : IsPrefix(src, q)}
           moved == {Moved(src, dst, q) : q \in within}
<1>1. /\ TreeInv(g) /\ g.size = f.size
      /\ \A q \in Seq(Name) :
            NodeAt(g, q) = IF IsPrefix(dst, q) THEN NodeAt(f, Moved(dst, src, q))
                           ELSE IF IsPrefix(src, q) THEN NoInfo ELSE NodeAt(f, q)
    BY DEF RenamedTo
<1>2. /\ src \in Seq(Name) /\ dst \in Seq(Name) /\ src # << >> /\ dst # << >>
      /\ IsPrefix(src, src) /\ IsPrefix(dst, dst)
    BY PathIs, PrefixOrder, EmptySeq
<1>3. ASSUME NEW q \in within
      PROVE  LET w == Moved(src, dst, q)
             IN  w \in Used(g) /\ IsPrefix(dst, w) /\ Moved(dst, src, w) = q /\ NodeAt(g, w) = NodeAt(f, q)
  <2> DEFINE w == Moved(src, dst, q)
  <2>1. q \in Seq(Name) /\ IsPrefix(src, q) /\ NodeAt(f, q) # NoInfo
      BY PathIs DEF Used
  <2>2. w \in Seq(Name) /\ IsPrefix(dst, w) /\ Moved(dst, src, w) = q
      BY <1>2, <2>1, MovedIs, MovedFront, MovedBack
  <2> HIDE DEF w
  <2>3. NodeAt(g, w) = NodeAt(f, q)
      BY <1>1, <2>2
  <2>4. w # << >>
    <3>1. Len(dst) <= Len(w) /\ Len(dst) \in Nat /\ Len(dst) # 0
        BY <1>2, <2>2, PrefixOrder, EmptySeq, LenProperties
    <3> QED BY <3>1
  <2>5. w \in Path
      BY <1>1, <2>1, <2>2, <2>3, <2>4, InPath
  <2> QED BY <2>1, <2>2, <2>3, <2>5 DEF Used, w
<1>4. ASSUME NEW w \in Used(g), IsPrefix(dst, w)
      PROVE  \E q \in within : w = Moved(src, dst, q)
  <2> DEFINE q == Moved(dst, src, w)
  <2>1. w \in Seq(Name) /\ NodeAt(g, w) # NoInfo
      BY PathIs DEF Used
  <2>2. q \in Seq(Name) /\ IsPrefix(src, q) /\ Moved(src, dst, q) = w
      BY <1>2, <1>4, <2>1, MovedIs, MovedFront, MovedBack
  <2>3. NodeAt(f, q) # NoInfo
      BY <1>1, <1>4, <2>1
  <2> HIDE DEF q
  <2>4. q # << >>
    <3>1. Len(src) <= Len(q) /\ Len(src) \in Nat /\ Len(src) # 0
        BY <1>2, <2>2, PrefixOrder, EmptySeq, LenProperties
    <3> QED BY <3>1
  <2>5. q \in Path
      BY <2>2, <2>3, <2>4, InPath
  <2> QED BY <2>2, <2>3, <2>5 DEF Used
<1>5. ASSUME NEW w \in Seq(Name), IsPrefix(dst, w) PROVE NodeAt(f, w) = NoInfo
    BY <1>2, <1>5, AboveExists DEF TreeInv
<1>6. Used(g) = (Used(f) \ within) \union moved
  <2>1. ASSUME NEW w \in Used(g) PROVE w \in (Used(f) \ within) \union moved
    <3>1. CASE IsPrefix(dst, w)
        BY <1>4, <3>1
    <3>2. CASE ~IsPrefix(dst, w)
      <4>1. w \in Path /\ w \in Seq(Name) /\ NodeAt(g, w) # NoInfo
          BY PathIs DEF Used
      <4>2. ~IsPrefix(src, w) /\ NodeAt(f, w) # NoInfo
          BY <1>1, <3>2, <4>1
      <4> QED BY <4>1, <4>2 DEF Used
    <3> QED BY <3>1, <3>2
  <2>2. ASSUME NEW w \in Used(f) \ within PROVE w \in Used(g)
    <3>1. w \in Path /\ w \in Seq(Name) /\ NodeAt(f, w) # NoInfo /\ ~IsPrefix(src, w)
        BY PathIs DEF Used
    <3>2. ~IsPrefix(dst, w)
        BY <1>5, <3>1
    <3> QED BY <1>1, <3>1, <3>2 DEF Used
  <2> QED BY <1>3, <2>1, <2>2
<1>7. ASSUME NEW w \in moved PROVE Seen(g, w) = Seen(f, Moved(dst, src, w)) /\ Moved(dst, src, w) \in Used(f)
    BY <1>1, <1>3 DEF Seen
<1>8. ASSUME NEW w \in Used(f) \ within, w \notin moved PROVE Seen(g, w) = Seen(f, w)
  <2>1. w \in Seq(Name) /\ NodeAt(f, w) # NoInfo /\ ~IsPrefix(src, w)
      BY PathIs DEF Used
  <2>2. ~IsPrefix(dst, w)
      BY <1>5, <2>1
  <2>3. NodeAt(g, w) = NodeAt(f, w)
      BY <1>1, <2>1, <2>2
  <2> QED BY <1>1, <2>3 DEF Seen
<1>9. src \in within /\ src \notin Used(g) /\ dst \notin Used(f) /\ dst \in moved
  <2>1. src \in within
      BY <1>2 DEF Used
  <2>2. ~IsPrefix(dst, src)
      BY <1>2, <1>5
  <2>3. NodeAt(g, src) = NoInfo
      BY <1>1, <1>2, <2>2
  <2>4. Moved(src, dst, src) = dst
      BY <1>2, MovedFront
  <2> QED BY <2>1, <2>3, <2>4 DEF Used
<1> HIDE DEF moved
<1>10. DOMAIN TreeOf(f) = Used(f) /\ DOMAIN TreeOf(g) = Used(g)
    BY DEF TreeOf
<1>11. TreeOf(g) = [q \in (Used(f) \ within) \union moved |->
                        IF q \in moved THEN TreeOf(f)[Moved(dst, src, q)] ELSE TreeOf(f)[q]]
    BY <1>6, <1>7, <1>8 DEF TreeOf
<1> QED BY <1>6, <1>9, <1>10, <1>11 DEF moved

(* Only the file that the path names is written or truncated. *)
LEMMA HandedOut ==
    ASSUME CachesInv, PairInv, "returnToFirst" \notin Misuse, NEW path \in Path, NEW mode, Opens(path, mode),
           NEW h, OpenedTo(fs, path, mode, h)
    PROVE  /\ NodeAt(fs, path) = [type |-> "file", start |-> h.cached.start]
           /\ h.cached.start \in fs.owned /\ h.cached.start \in Block
           /\ h.size = fs.size /\ h.owned = fs.owned
           /\ \A p \in Seq(Name) : NodeAt(h, p) = NodeAt(fs, p)
<1>1. /\ Looked(fs, h) /\ h.size = fs.size /\ h.owned = fs.owned
      /\ \A p \in Seq(Name) : NodeAt(h, p) = NodeAt(fs, p)
    BY LookedKeeps DEF OpenedTo, Looked, CachesInv
<1>2. NodeAt(fs, path) = [type |-> "file", start |-> h.cached.start]
  <2>1. CASE IsCached(fs, path, mode)
    <3>1. h.cached = fs.cached /\ fs.cached # NoFile /\ fs.cached.path = path
        BY <2>1 DEF OpenedTo, IsCached
    <3>2. fs.cached.of = path
        BY <2>1 DEF Opens
    <3> QED BY <3>1, <3>2 DEF PairInv, FileInv
  <2>2. CASE ~IsCached(fs, path, mode)
      BY <2>2 DEF OpenedTo
  <2> QED BY <2>1, <2>2
<1>3. NodeAt(fs, path) # NoInfo
    BY <1>2, NoInfoIs
<1> QED BY <1>1, <1>2, <1>3, SeenIs DEF CachesInv

LEMMA FreeSizesKept ==
    ASSUME CachesInv, PairInv, FreeSizes(fs), FoldersFollow, "returnToFirst" \notin Misuse, [Next]_vars
    PROVE  FreeSizes(fs')
<1> USE DEF FreeSizes
<1>1. CASE UNCHANGED vars
    BY <1>1 DEF vars
<1>2. CASE Remount
    BY <1>2, MountedIs DEF Remount, CachesInv
<1>3. ASSUME NEW path \in Path \union {<< >>}, LookedUpTo PROVE FreeSizes(fs')
    BY <1>3 DEF LookedUpTo, Looked
<1>4. ASSUME NEW path \in Path, MadeAt(path) PROVE FreeSizes(fs')
    BY <1>4 DEF MadeAt, AddedTo
<1>5. ASSUME NEW path \in Path, knoxcrypt_read(path) PROVE FreeSizes(fs')
    BY <1>5, ReadCallback DEF OpenedTo, Looked
<1>6. ASSUME NEW path \in Path, knoxcrypt_write(path) PROVE FreeSizes(fs')
  <2>1. PICK h : OpenedTo(fs, path, "append", h) /\ WrittenTo(h, fs')
      BY <1>6, WriteCallback
  <2>2. h.cached.start \in fs.owned /\ h.size = fs.size /\ h.owned = fs.owned
      BY <1>6, <2>1, HandedOut DEF knoxcrypt_write
  <2>3. fs'.owned = fs.owned /\ \A b \in Block \ {h.cached.start} : fs'.size[b] = fs.size[b]
      BY <2>1, <2>2 DEF WrittenTo, CachesInv, TreeInv, ImageType
  <2> QED BY <2>2, <2>3
<1>7. ASSUME NEW path \in Path, NEW size \in 0 .. MaxSize, knoxcrypt_truncate(path, size) PROVE FreeSizes(fs')
  <2>1. PICK h : OpenedTo(fs, path, "overwrite", h) /\ TruncatedTo(h, size, fs')
      BY <1>7, TruncateCallback
  <2>2. h.cached.start \in fs.owned /\ h.size = fs.size /\ h.owned = fs.owned
      BY <1>7, <2>1, HandedOut DEF knoxcrypt_truncate
  <2>3. fs'.owned = fs.owned /\ \A b \in Block \ {h.cached.start} : fs'.size[b] = fs.size[b]
      BY <2>1, <2>2 DEF TruncatedTo, CachesInv, TreeInv, ImageType
  <2> QED BY <2>2, <2>3
<1>8. ASSUME NEW path \in Path, GoneFrom(fs, path, fs') PROVE FreeSizes(fs')
    BY <1>8 DEF GoneFrom
<1>9. ASSUME NEW path \in Path, NEW newpath \in Path, knoxcrypt_rename(path, newpath) PROVE FreeSizes(fs')
    BY <1>9, RenameCallback DEF RenamedTo
<1>10. ASSUME Callback PROVE FreeSizes(fs')
    BY <1>3, <1>4, <1>5, <1>6, <1>7, <1>8, <1>9, <1>10, LookingCallbacks, MakingCallbacks,
       UnlinkCallback, RmdirCallback DEF Callback
<1> QED BY <1>1, <1>2, <1>10 DEF Next

(* Every callback is a step of FileTree, or none that it sees. *)
LEMMA TreeStep ==
    ASSUME CachesInv, PairInv, FreeSizes(fs), FoldersFollow, "returnToFirst" \notin Misuse, [Next]_vars
    PROVE  [FT!Next]_Tree
<1> DEFINE t == TreeOf(fs)
           u == TreeOf(fs')
<1>a. Tree = t /\ Tree' = u
    BY TreeNow
<1>b. TreeInv(fs) /\ CacheInv(fs) /\ ImageType(fs)
    BY DEF CachesInv, TreeInv
<1>c. TreeInv(fs')
    BY CachesKept DEF CachesInv
<1> HIDE DEF t, u
<1>d. ASSUME u = t PROVE [FT!Next]_Tree
    BY <1>a, <1>d
<1>e. ASSUME NEW path, DOMAIN u = DOMAIN t, path \in DOMAIN t, t[path].type = "file",
             u = [t EXCEPT ![path].size = u[path].size], u[path].size \in 0 .. MaxSize
      PROVE  [FT!Next]_Tree
    BY <1>a, <1>e DEF FT!Next, FT!Resize
<1>f. ASSUME NEW path \in Path, NodeAt(fs, path) # NoInfo, GoneFrom(fs, path, fs') PROVE [FT!Next]_Tree
  <2>1. /\ path \in DOMAIN t \ DOMAIN u
        /\ u = [q \in DOMAIN t \ {p \in DOMAIN t : IsPrefix(path, p)} |-> t[q]]
      BY <1>b, <1>f, TreeDeleted DEF t, u
  <2>2. FT!Delete(path)
      BY <1>a, <2>1, PrefixInTree DEF FT!Delete, FT!Within
  <2> QED BY <1>a, <2>1, <2>2 DEF FT!Next
<1>g. ASSUME NEW p \in Path, NodeAt(fs, Front(p)).type = "folder" PROVE FT!IsFolder(FT!Front(p))
  <2>1. p \in Seq(Name) /\ p # << >> /\ Front(p) \in Seq(Name) /\ NodeAt(fs, Front(p)) # NoInfo
      BY <1>b, <1>g, PathIs, EmptySeq, NodeEntry, NoInfoIs
  <2>2. CASE Front(p) = << >>
      BY <2>2, FrontInTree DEF FT!IsFolder
  <2>3. CASE Front(p) # << >>
    <3>1. Front(p) \in Path
        BY <1>b, <2>1, <2>3, InPath
    <3>2. Front(p) \in DOMAIN t /\ t[Front(p)].type = "folder"
        BY <1>g, <2>1, <3>1 DEF t, TreeOf, Used, Seen
    <3> QED BY <1>a, <3>2, FrontInTree DEF FT!IsFolder
  <2> QED BY <2>2, <2>3
<1>1. CASE UNCHANGED vars
    BY <1>1, <1>d DEF vars, t, u
<1>2. CASE Remount
    BY <1>2, <1>b, <1>d, MountedIs, TreeUnchanged DEF Remount, t, u
<1>3. ASSUME NEW path \in Path \union {<< >>}, LookedUpTo PROVE [FT!Next]_Tree
    BY <1>3, <1>b, <1>d, LookedKeeps, TreeUnchanged DEF LookedUpTo, Looked, t, u
<1>4. ASSUME NEW path \in Path, MadeAt(path) PROVE [FT!Next]_Tree
  <2>1. PICK type \in {"file", "folder"} :
            AddedTo(fs, path, [type |-> type, start |-> Earliest(Block \ fs.owned)], fs')
      BY <1>4 DEF MadeAt
  <2>2. path \in DOMAIN u \ DOMAIN t /\ u = TreeWith(t, path, type)
      BY <1>b, <2>1, TreeMade DEF t, u
  <2>3. [type |-> type, size |-> 0] \in {FT!Nothing, FT!EmptyFile}
      BY DEF FT!Nothing, FT!EmptyFile
  <2>4. FT!IsFolder(FT!Front(path))
      BY <1>4, <1>g DEF MadeAt
  <2>5. FT!Make(path)
      BY <1>a, <2>2, <2>3, <2>4 DEF FT!Make, TreeWith
  <2> QED BY <1>a, <2>2, <2>5 DEF FT!Next
<1>5. ASSUME NEW path \in Path, knoxcrypt_read(path) PROVE [FT!Next]_Tree
    BY <1>5, <1>b, <1>d, ReadCallback, LookedKeeps, TreeUnchanged DEF OpenedTo, Looked, t, u
<1>6. ASSUME NEW path \in Path, knoxcrypt_write(path) PROVE [FT!Next]_Tree
  <2>1. PICK h : OpenedTo(fs, path, "append", h) /\ WrittenTo(h, fs')
      BY <1>6, WriteCallback
  <2>2. /\ NodeAt(fs, path) = [type |-> "file", start |-> h.cached.start]
        /\ h.size = fs.size /\ \A p \in Seq(Name) : NodeAt(h, p) = NodeAt(fs, p)
      BY <1>6, <2>1, HandedOut DEF knoxcrypt_write
  <2>3. /\ \A p \in Seq(Name) : NodeAt(fs', p) = NodeAt(fs, p)
        /\ \A b \in Block : b # h.cached.start => fs'.size[b] = fs.size[b]
      BY <1>b, <2>1, <2>2, NodeSame DEF WrittenTo, ImageType
  <2> QED BY <1>b, <1>c, <1>e, <2>2, <2>3, TreeResized DEF t, u
<1>7. ASSUME NEW path \in Path, NEW size \in 0 .. MaxSize, knoxcrypt_truncate(path, size) PROVE [FT!Next]_Tree
  <2>1. PICK h : OpenedTo(fs, path, "overwrite", h) /\ TruncatedTo(h, size, fs')
      BY <1>7, TruncateCallback
  <2>2. /\ NodeAt(fs, path) = [type |-> "file", start |-> h.cached.start]
        /\ h.size = fs.size /\ \A p \in Seq(Name) : NodeAt(h, p) = NodeAt(fs, p)
      BY <1>7, <2>1, HandedOut DEF knoxcrypt_truncate
  <2>3. /\ \A p \in Seq(Name) : NodeAt(fs', p) = NodeAt(fs, p)
        /\ \A b \in Block : b # h.cached.start => fs'.size[b] = fs.size[b]
      BY <1>b, <2>1, <2>2, NodeSame DEF TruncatedTo, ImageType
  <2> QED BY <1>b, <1>c, <1>e, <2>2, <2>3, TreeResized DEF t, u
<1>8. ASSUME NEW path \in Path, knoxcrypt_unlink(path) PROVE [FT!Next]_Tree
    BY <1>8, <1>f, UnlinkCallback, NoInfoIs
<1>9. ASSUME NEW path \in Path, knoxcrypt_rmdir(path) PROVE [FT!Next]_Tree
    BY <1>9, <1>f, RmdirCallback, NoInfoIs
<1>10. ASSUME NEW path \in Path, NEW newpath \in Path, knoxcrypt_rename(path, newpath) PROVE [FT!Next]_Tree
  <2> DEFINE within == {q \in DOMAIN t : IsPrefix(path, q)}
             moved == {Moved(path, newpath, q) : q \in within}
  <2>1. /\ RenamedTo(fs, path, newpath, fs') /\ NodeAt(fs, path) # NoInfo /\ NodeAt(fs, newpath) = NoInfo
        /\ NodeAt(fs, Front(newpath)).type = "folder" /\ ~IsPrefix(path, newpath)
      BY <1>10, RenameCallback
  <2>2. /\ path \in DOMAIN t \ DOMAIN u /\ newpath \in DOMAIN u \ DOMAIN t
        /\ u = [q \in (DOMAIN t \ within) \union moved |->
                    IF q \in moved THEN t[Moved(newpath, path, q)] ELSE t[q]]
      BY <1>b, <2>1, TreeMoved DEF t, u
  <2>3. FT!Within(path) = within
      BY <1>a, PrefixInTree DEF FT!Within
  <2>4. FT!IsFolder(FT!Front(newpath)) /\ ~FT!IsPrefix(path, newpath)
      BY <1>g, <2>1, PrefixInTree
  <2>5. FT!Move(path, newpath)
      BY <1>a, <2>2, <2>3, <2>4 DEF FT!Move, Moved
  <2> QED BY <1>a, <2>2, <2>5 DEF FT!Next
<1>11. ASSUME Callback PROVE [FT!Next]_Tree
    BY <1>3, <1>4, <1>5, <1>6, <1>7, <1>8, <1>9, <1>10, <1>11, LookingCallbacks, MakingCallbacks DEF Callback
<1> QED BY <1>1, <1>2, <1>11 DEF Next

(* Through all the caches the mounted image is a tree of files and         *)
(* folders: each callback makes one entry, resizes one file, takes one     *)
(* subtree away or puts it elsewhere, or changes nothing                   *)
(* (FuseLayer.cpp, CoreFS.cpp).  It stands files truncated twice and       *)
(* writes that are not reported.                                           *)
THEOREM RefinesFileTree ==
    ASSUME Misuse \subseteq {"truncateAgain", "orphanedWrite"}
    PROVE  Spec => ImplementsFileTree
<1>1. FoldersFollow /\ PairKeepsFile /\ "returnToFirst" \notin Misuse
    BY DEF FoldersFollow, PairKeepsFile
<1>2. Init => FreeSizes(fs) /\ FT!Init
  <2> SUFFICES ASSUME Init PROVE FreeSizes(fs) /\ FT!Init
      OBVIOUS
  <2>1. fs = EmptyFS
      BY DEF Init
  <2>2. Used(fs) = {}
      BY <2>1, EmptyFSIs, PathIs, EmptySeq DEF Used
  <2>3. Tree = << >>
      BY <2>2, TreeNow DEF TreeOf
  <2> QED BY <2>1, <2>3, EmptyFSIs DEF FreeSizes, FT!Init
<1>3. CachesInv /\ PairInv /\ FreeSizes(fs) /\ [Next]_vars => FreeSizes(fs)' /\ [FT!Next]_Tree
    BY <1>1, FreeSizesKept, TreeStep
<1>4. Spec => [](CachesInv /\ PairInv)
    BY <1>1, PairHolds
<1> QED BY <1>2, <1>3, <1>4, PTL DEF Spec, ImplementsFileTree, FT!Spec
=============================================================================
