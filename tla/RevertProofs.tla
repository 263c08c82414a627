---------------------------- MODULE RevertProofs ----------------------------
(***************************************************************************)
(* Proofs about Revert, for any listings and any actions to take back.     *)
(***************************************************************************)
EXTENDS Revert, FiniteSetTheorems, SequenceTheorems, WellFoundedInduction, TLAPS

(* A nonempty set of numbers has a least one, and if bounded a largest.    *)
LEMMA MinOf ==
  ASSUME NEW S, \A x \in S : x \in Nat, S # {}
  PROVE  Min(S) \in S /\ \A x \in S : Min(S) <= x
<1> DEFINE R == OpToRel(<, Nat)
<1>1. IsWellFoundedOn(R, Nat)
  BY NatLessThanWellFounded
<1>2. PICK m \in S : \A y \in S : <<y, m>> \notin R
  <2>1. S \subseteq Nat
    OBVIOUS
  <2> HIDE DEF R
  <2> QED  BY <1>1, <2>1, WFMin
<1>3. \A y \in S : m <= y
  <2>1. \A y \in S : ~(y < m)
    BY <1>2 DEF OpToRel
  <2> QED  BY <2>1
<1>4. \E x \in S : \A y \in S : x <= y
  BY <1>3
<1>. QED  BY <1>4 DEF Min

LEMMA MaxOf ==
  ASSUME NEW S, \A x \in S : x \in Nat, S # {}, NEW n \in Nat, \A x \in S : x <= n
  PROVE  Max(S) \in S /\ \A x \in S : x <= Max(S)
<1> DEFINE T == {n - x : x \in S}
<1>1. (\A y \in T : y \in Nat) /\ T # {}
  <2>1. \A x \in S : n - x \in Nat
    OBVIOUS
  <2> QED  BY <2>1
<1>2. Min(T) \in T /\ \A y \in T : Min(T) <= y
  <2> HIDE DEF T
  <2> QED  BY <1>1, MinOf
<1>3. PICK x \in S : Min(T) = n - x
  BY <1>2
<1>4. \A y \in S : x >= y
  <2> SUFFICES ASSUME NEW y \in S  PROVE n - x <= n - y
    OBVIOUS
  <2>1. n - y \in T
    OBVIOUS
  <2> HIDE DEF T
  <2> QED  BY <1>2, <1>3, <2>1
<1>5. \E z \in S : \A y \in S : z >= y
  BY <1>4
<1>6. Max(S) \in S /\ \A y \in S : Max(S) >= y
  BY <1>5 DEF Max
<1>. QED  BY <1>6
-----------------------------------------------------------------------------
(* Sets of positions in increasing order                                   *)
Increasing(s) == \A i, j \in 1 .. Len(s) : i < j => s[i] < s[j]

LEMMA RankMonotone ==
  ASSUME NEW S, \A x \in S : x \in Nat, IsFiniteSet(S), NEW i \in Nat, NEW j \in Nat, i <= j
  PROVE  /\ Rank(S, i) \in Nat /\ Rank(S, i) <= Rank(S, j)
         /\ Rank(S, i) <= Cardinality(S)
         /\ (\E k \in S : i < k /\ k <= j) => Rank(S, i) < Rank(S, j)
         /\ (\A k \in S : k <= j => k <= i) => Rank(S, i) = Rank(S, j)
         /\ i \in S => Rank(S, i) >= 1
<1> DEFINE A == {k \in S : k <= i}
           B == {k \in S : k <= j}
<1>1. A \subseteq B /\ B \subseteq S /\ A \subseteq S
  OBVIOUS
<1>2. IsFiniteSet(A) /\ IsFiniteSet(B)
  BY <1>1, FS_Subset
<1>3. /\ Cardinality(A) \in Nat /\ Cardinality(B) \in Nat
      /\ Cardinality(A) <= Cardinality(B)
      /\ Cardinality(A) <= Cardinality(S)
      /\ Cardinality(B) = Cardinality(A) => B = A
  BY <1>1, <1>2, FS_Subset, FS_CardinalityType
<1>4. ASSUME NEW k \in S, i < k, k <= j  PROVE B # A
  BY <1>4
<1>5. ASSUME \A k \in S : k <= j => k <= i  PROVE B = A
  BY <1>5
<1>6. i \in S => Cardinality(A) # 0
  BY <1>2, FS_EmptySet
<1> HIDE DEF A, B
<1>7. Rank(S, i) = Cardinality(A) /\ Rank(S, j) = Cardinality(B)
  BY DEF Rank, A, B
<1>. QED  BY <1>3, <1>4, <1>5, <1>6, <1>7

(* Positions and their ranks correspond one to one.                        *)
LEMMA RankOnto ==
  ASSUME NEW S, \A x \in S : x \in Nat, IsFiniteSet(S), NEW n \in 1 .. Cardinality(S)
  PROVE  \E j \in S : Rank(S, j) = n
<1> DEFINE N == Cardinality(S)
           f == [j \in S |-> Rank(S, j)]
<1>1. N \in Nat
  BY FS_CardinalityType
<1>2. \A j \in S : Rank(S, j) \in 1 .. N
  BY <1>1, RankMonotone
<1>3. \A i, j \in S : Rank(S, i) = Rank(S, j) => i = j
  <2> SUFFICES ASSUME NEW i \in S, NEW j \in S, i < j PROVE Rank(S, i) < Rank(S, j)
    BY <1>2
  <2> QED  BY RankMonotone
<1>4. f \in Injection(S, 1 .. N)
  BY <1>2, <1>3 DEF Injection, IsInjective
<1>5. IsFiniteSet(1 .. N) /\ Cardinality(1 .. N) = N
  BY <1>1, FS_Interval
<1>6. f \in Surjection(S, 1 .. N)
  <2> HIDE DEF f
  <2> QED  BY <1>4, <1>5, FS_Injection
<1>. QED  BY <1>6 DEF Surjection

LEMMA InOrderOf ==
  ASSUME NEW S, \A x \in S : x \in Nat, IsFiniteSet(S)
  PROVE  /\ InOrder(S) \in Seq(S) /\ Len(InOrder(S)) = Cardinality(S)
         /\ Range(InOrder(S)) = S
         /\ Increasing(InOrder(S))
         /\ \A n \in 1 .. Cardinality(S) :
              InOrder(S)[n] \in S /\ Rank(S, InOrder(S)[n]) = n
         /\ \A j \in S : /\ Rank(S, j) \in 1 .. Cardinality(S)
                         /\ InOrder(S)[Rank(S, j)] = j
<1> DEFINE N == Cardinality(S)
           s == InOrder(S)
<1>1. N \in Nat
  BY FS_CardinalityType
<1>2. \A n \in 1 .. N : s[n] \in S /\ Rank(S, s[n]) = n
  BY RankOnto DEF InOrder
<1>3. s = [n \in 1 .. N |-> s[n]] /\ DOMAIN s = 1 .. N
  BY DEF InOrder
<1> HIDE DEF s
<1>4. s \in Seq(S) /\ Len(s) = N
  <2>1. s \in [1 .. N -> S]
    BY <1>2, <1>3
  <2> QED  BY <1>1, <2>1, SeqDef
<1>5. \A i, j \in S : i < j => Rank(S, i) < Rank(S, j)
  BY RankMonotone
<1>6. \A j \in S : Rank(S, j) \in 1 .. N
  BY <1>1, RankMonotone
<1>7. \A i, j \in S : Rank(S, i) = Rank(S, j) => i = j
  BY <1>5, <1>6
<1>8. \A j \in S : s[Rank(S, j)] = j
  BY <1>2, <1>6, <1>7
<1>9. Range(s) = S
  BY <1>2, <1>3, <1>6, <1>8 DEF Range
<1>10. Increasing(s)
  <2> SUFFICES ASSUME NEW i \in 1 .. N, NEW j \in 1 .. N, i < j PROVE s[i] < s[j]
    BY <1>4 DEF Increasing
  <2>1. s[i] \in Nat /\ s[j] \in Nat /\ ~(s[j] < s[i]) /\ s[i] # s[j]
    BY <1>2, <1>5
  <2> QED  BY <2>1
<1>. QED  BY <1>2, <1>4, <1>6, <1>8, <1>9, <1>10 DEF s

(* There is one increasing sequence of a set.                              *)
LEMMA IncreasingIsInOrder ==
  ASSUME NEW s \in Seq(Nat), Increasing(s)
  PROVE  IsFiniteSet(Range(s)) /\ s = InOrder(Range(s))
<1> DEFINE n == Len(s)
           S == Range(s)
<1>1. n \in Nat /\ DOMAIN s = 1 .. n /\ (\A i \in 1 .. n : s[i] \in Nat)
  OBVIOUS
<1>2. S = {s[i] : i \in 1 .. n} /\ \A x \in S : x \in Nat
  BY <1>1 DEF Range
<1> HIDE DEF S, n
<1>3. \A i, j \in 1 .. n : s[i] <= s[j] <=> i <= j
  <2> SUFFICES ASSUME NEW i \in 1 .. n, NEW j \in 1 .. n  PROVE s[i] <= s[j] <=> i <= j
    OBVIOUS
  <2>1. (i < j => s[i] < s[j]) /\ (j < i => s[j] < s[i])
    BY DEF Increasing, n
  <2> QED  BY <1>1, <2>1
<1> DEFINE First(i) == {s[k] : k \in 1 .. i}
<1>4. \A i \in 0 .. n : IsFiniteSet(First(i)) /\ Cardinality(First(i)) = i
  <2> SUFFICES ASSUME NEW i \in 0 .. n
               PROVE  IsFiniteSet(First(i)) /\ Cardinality(First(i)) = i
    OBVIOUS
  <2> DEFINE f == [k \in 1 .. i |-> s[k]]
  <2>1. \A k, l \in 1 .. i : s[k] = s[l] => k = l
    BY <1>1, <1>3
  <2>2. f \in Bijection(1 .. i, First(i))
    BY <2>1 DEF Bijection, Injection, IsInjective, Surjection
  <2>3. ExistsBijection(1 .. i, First(i))
    BY <2>2 DEF ExistsBijection
  <2>4. i \in Nat /\ IsFiniteSet(1 .. i)
    BY <1>1, FS_Interval
  <2> HIDE DEF First
  <2> QED  BY <2>3, <2>4, FS_CountingElements, FS_Bijection
<1>5. IsFiniteSet(S) /\ Cardinality(S) = n
  <2>1. S = First(n) /\ n \in 0 .. n
    BY <1>1, <1>2
  <2> HIDE DEF First
  <2> QED  BY <1>4, <2>1
<1>6. ASSUME NEW i \in 1 .. n  PROVE s[i] \in S /\ Rank(S, s[i]) = i
  <2>1. {x \in S : x <= s[i]} = First(i) /\ i \in 0 .. n /\ s[i] \in S
    BY <1>1, <1>2, <1>3
  <2> HIDE DEF First
  <2> QED  BY <1>4, <2>1 DEF Rank
<1>7. /\ InOrder(S) \in Seq(Nat) /\ Len(InOrder(S)) = n
      /\ \A i \in 1 .. n : InOrder(S)[i] = s[i]
  <2>1. /\ InOrder(S) \in Seq(S) /\ Len(InOrder(S)) = n
        /\ \A j \in S : InOrder(S)[Rank(S, j)] = j
    BY <1>2, <1>5, InOrderOf
  <2>2. InOrder(S) \in Seq(Nat)
    BY <1>2, <2>1, SeqMonotonic
  <2> QED  BY <1>6, <2>1, <2>2
<1>8. s = InOrder(S)
  BY <1>7, SeqEqual DEF n
<1>. QED  BY <1>5, <1>8 DEF S

LEMMA InOrderConcat ==
  ASSUME NEW S, \A x \in S : x \in Nat, IsFiniteSet(S),
         NEW T, \A x \in T : x \in Nat, IsFiniteSet(T),
         \A x \in S, y \in T : x < y
  PROVE  InOrder(S \cup T) = InOrder(S) \o InOrder(T)
<1> DEFINE a == InOrder(S)
           b == InOrder(T)
           s == a \o b
<1>1. /\ a \in Seq(Nat) /\ Range(a) = S /\ Increasing(a)
      /\ \A i \in 1 .. Len(a) : a[i] \in S
  BY InOrderOf, SeqMonotonic, ElementOfSeq
<1>2. /\ b \in Seq(Nat) /\ Range(b) = T /\ Increasing(b)
      /\ \A i \in 1 .. Len(b) : b[i] \in T
  BY InOrderOf, SeqMonotonic, ElementOfSeq
<1> HIDE DEF a, b
<1>3. /\ s \in Seq(Nat) /\ Len(s) = Len(a) + Len(b)
      /\ \A i \in 1 .. Len(a) + Len(b) :
           s[i] = IF i <= Len(a) THEN a[i] ELSE b[i - Len(a)]
  BY <1>1, <1>2, ConcatProperties
<1>4. Len(a) \in Nat /\ Len(b) \in Nat /\ DOMAIN a = 1 .. Len(a) /\ DOMAIN b = 1 .. Len(b)
      /\ DOMAIN s = 1 .. Len(s)
  BY <1>1, <1>2, <1>3
<1> HIDE DEF s
<1>5. Increasing(s)
  <2> SUFFICES ASSUME NEW i \in 1 .. Len(s), NEW j \in 1 .. Len(s), i < j
               PROVE  s[i] < s[j]
    BY DEF Increasing
  <2>1. CASE j <= Len(a)
    BY <1>1, <1>3, <1>4, <2>1 DEF Increasing
  <2>2. CASE i > Len(a)
    <3>1. /\ i - Len(a) \in 1 .. Len(b) /\ j - Len(a) \in 1 .. Len(b)
          /\ i - Len(a) < j - Len(a)
      BY <1>3, <1>4, <2>2
    <3>2. s[i] = b[i - Len(a)] /\ s[j] = b[j - Len(a)]
      BY <1>3, <1>4, <2>2
    <3> QED  BY <1>2, <3>1, <3>2 DEF Increasing
  <2>3. CASE i <= Len(a) /\ j > Len(a)
    <3>1. i \in 1 .. Len(a) /\ j - Len(a) \in 1 .. Len(b)
      BY <1>3, <1>4, <2>3
    <3> QED  BY <1>1, <1>2, <1>3, <1>4, <2>3, <3>1
  <2> QED  BY <1>4, <2>1, <2>2, <2>3
<1>6. Range(s) = S \cup T
  <2>1. \A x \in Range(s) : x \in S \cup T
    <3> SUFFICES ASSUME NEW i \in 1 .. Len(s)  PROVE s[i] \in S \cup T
      BY <1>4 DEF Range
    <3>1. i \in 1 .. Len(a) \/ i - Len(a) \in 1 .. Len(b)
      BY <1>3, <1>4
    <3> QED  BY <1>1, <1>2, <1>3, <1>4, <3>1
  <2>2. \A x \in S : x \in Range(s)
    <3> SUFFICES ASSUME NEW i \in 1 .. Len(a)  PROVE a[i] \in Range(s)
      BY <1>1, <1>4 DEF Range
    <3>1. s[i] = a[i] /\ i \in 1 .. Len(s)
      BY <1>3, <1>4
    <3> QED  BY <1>4, <3>1 DEF Range
  <2>3. \A x \in T : x \in Range(s)
    <3> SUFFICES ASSUME NEW i \in 1 .. Len(b)  PROVE b[i] \in Range(s)
      BY <1>2, <1>4 DEF Range
    <3>1. s[i + Len(a)] = b[i] /\ i + Len(a) \in 1 .. Len(s)
      <4>1. i + Len(a) \in 1 .. Len(a) + Len(b) /\ i + Len(a) > Len(a)
            /\ (i + Len(a)) - Len(a) = i
        BY <1>3, <1>4
      <4> QED  BY <1>3, <1>4, <4>1
    <3> QED  BY <1>4, <3>1 DEF Range
  <2> QED  BY <2>1, <2>2, <2>3
<1>7. s = InOrder(Range(s))
  BY <1>3, <1>5, IncreasingIsInOrder
<1>. QED  BY <1>6, <1>7 DEF s, a, b

LEMMA InOrderOne ==
  /\ InOrder({}) = <<>>
  /\ \A p \in Nat : InOrder({p}) = <<p>>
<1>1. <<>> \in Seq(Nat) /\ Increasing(<<>>) /\ Range(<<>>) = {}
  BY DEF Increasing, Range
<1>2. InOrder({}) = <<>>
  BY <1>1, IncreasingIsInOrder
<1>3. ASSUME NEW p \in Nat  PROVE InOrder({p}) = <<p>>
  <2>1. <<p>> \in Seq(Nat) /\ Increasing(<<p>>) /\ Range(<<p>>) = {p}
    BY DEF Increasing, Range
  <2> QED  BY <2>1, IncreasingIsInOrder
<1>. QED  BY <1>2, <1>3

LEMMA InOrderAppend ==
  ASSUME NEW S, \A x \in S : x \in Nat, IsFiniteSet(S),
         NEW p \in Nat, \A x \in S : x < p
  PROVE  InOrder(S \cup {p}) = Append(InOrder(S), p)
<1>1. InOrder(S) \in Seq(S)
  BY InOrderOf
<1>2. Append(InOrder(S), p) = InOrder(S) \o <<p>>
  BY <1>1
<1>3. IsFiniteSet({p}) /\ \A x \in {p} : x \in Nat
  BY FS_Singleton
<1>4. InOrder(S \cup {p}) = InOrder(S) \o InOrder({p})
  <2>1. \A x \in S, y \in {p} : x < y
    OBVIOUS
  <2> QED  BY <1>3, <2>1, InOrderConcat
<1>5. InOrder({p}) = <<p>>
  BY InOrderOne
<1>. QED  BY <1>2, <1>4, <1>5
-----------------------------------------------------------------------------
(* The lines of a listing                                                  *)
Kinds == {"=", "-", "+"}
New(l) == {j \in DOMAIN l : InNew(l, j)}
Old(l) == {j \in DOMAIN l : InOld(l, j)}

LEMMA LinesOf ==
  ASSUME NEW l \in Seq(Kinds)
  PROVE  /\ Len(l) \in Nat /\ DOMAIN l = 1 .. Len(l)
         /\ IsFiniteSet(DOMAIN l) /\ \A x \in DOMAIN l : x \in Nat /\ l[x] \in Kinds
         /\ IsFiniteSet(New(l)) /\ \A x \in New(l) : x \in Nat
         /\ IsFiniteSet(Old(l)) /\ \A x \in Old(l) : x \in Nat
         /\ NewLines(l) = InOrder(New(l)) /\ OldLines(l) = InOrder(Old(l))
         /\ \A j \in DOMAIN l : /\ lp2l(l, j) = Rank(New(l), j)
                                /\ lo2l(l, j) = Rank(Old(l), j)
<1>1. Len(l) \in Nat /\ DOMAIN l = 1 .. Len(l) /\ \A x \in DOMAIN l : l[x] \in Kinds
  OBVIOUS
<1>2. IsFiniteSet(DOMAIN l)
  BY <1>1, FS_Interval
<1>3. New(l) \subseteq DOMAIN l /\ Old(l) \subseteq DOMAIN l
  BY DEF New, Old
<1>4. IsFiniteSet(New(l)) /\ IsFiniteSet(Old(l))
  BY <1>2, <1>3, FS_Subset
<1>5. ASSUME NEW j \in DOMAIN l
      PROVE  lp2l(l, j) = Rank(New(l), j) /\ lo2l(l, j) = Rank(Old(l), j)
  <2>1. /\ {i \in 1 .. j : InNew(l, i)} = {i \in New(l) : i <= j}
        /\ {i \in 1 .. j : InOld(l, i)} = {i \in Old(l) : i <= j}
    BY <1>1 DEF New, Old
  <2> QED  BY <2>1 DEF lp2l, lo2l, Rank
<1>6. NewLines(l) = InOrder(New(l)) /\ OldLines(l) = InOrder(Old(l))
  BY DEF New, Old, NewLines, OldLines
<1>. QED  BY <1>1, <1>2, <1>3, <1>4, <1>5, <1>6

(* Numbering the lines of the new function                                 *)
LEMMA NewNumbers ==
  ASSUME NEW l \in Seq(Kinds)
  PROVE  /\ \A i \in DOMAIN l : lp2l(l, i) \in 0 .. Len(NewLines(l))
         /\ \A i, j \in DOMAIN l : i <= j => lp2l(l, i) <= lp2l(l, j)
         /\ \A i, j, k \in DOMAIN l :
              i < k /\ k <= j /\ InNew(l, k) => lp2l(l, i) < lp2l(l, j)
         /\ \A i, j \in DOMAIN l :
              i <= j /\ (\A k \in DOMAIN l : i < k /\ k <= j => ~InNew(l, k))
                => lp2l(l, i) = lp2l(l, j)
         /\ \A i \in DOMAIN l :
              InNew(l, i) => lp2l(l, i) >= 1 /\ NewLines(l)[lp2l(l, i)] = i
         /\ Len(NewLines(l)) \in Nat
         /\ \A n \in 1 .. Len(NewLines(l)) :
              /\ NewLines(l)[n] \in DOMAIN l /\ InNew(l, NewLines(l)[n])
              /\ lp2l(l, NewLines(l)[n]) = n
<1> DEFINE S == New(l)
<1>1. /\ IsFiniteSet(S) /\ (\A x \in S : x \in Nat) /\ Cardinality(S) \in Nat
      /\ \A x \in DOMAIN l : x \in Nat
  BY LinesOf, FS_CardinalityType
<1>2. \A i, j \in DOMAIN l : i <= j =>
        /\ Rank(S, i) \in Nat /\ Rank(S, i) <= Rank(S, j)
        /\ Rank(S, i) <= Cardinality(S)
        /\ (\E k \in S : i < k /\ k <= j) => Rank(S, i) < Rank(S, j)
        /\ (\A k \in S : k <= j => k <= i) => Rank(S, i) = Rank(S, j)
        /\ i \in S => Rank(S, i) >= 1
  BY <1>1, RankMonotone
<1>3. \A i, j \in DOMAIN l :
        i <= j /\ (\A k \in DOMAIN l : i < k /\ k <= j => ~InNew(l, k))
          => \A k \in S : k <= j => k <= i
  BY <1>1 DEF New
<1>4. /\ Len(InOrder(S)) = Cardinality(S)
      /\ \A n \in 1 .. Cardinality(S) : InOrder(S)[n] \in S /\ Rank(S, InOrder(S)[n]) = n
      /\ \A j \in S : Rank(S, j) \in 1 .. Cardinality(S) /\ InOrder(S)[Rank(S, j)] = j
  BY <1>1, InOrderOf
<1>5. /\ \A i \in DOMAIN l : InNew(l, i) <=> i \in S
      /\ \A i \in S : i \in DOMAIN l
  BY DEF New
<1>6. /\ \A j \in DOMAIN l : lp2l(l, j) = Rank(S, j)
      /\ NewLines(l) = InOrder(S)
  BY LinesOf
<1> HIDE DEF S
<1>. QED  BY <1>1, <1>2, <1>3, <1>4, <1>5, <1>6

(* and those of the old one                                                *)
LEMMA OldNumbers ==
  ASSUME NEW l \in Seq(Kinds)
  PROVE  /\ \A i \in DOMAIN l : lo2l(l, i) \in 0 .. Len(OldLines(l))
         /\ \A i \in DOMAIN l :
              InOld(l, i) => lo2l(l, i) >= 1 /\ OldLines(l)[lo2l(l, i)] = i
         /\ \A i, j \in DOMAIN l : i <= j => lo2l(l, i) <= lo2l(l, j)
         /\ Len(OldLines(l)) \in Nat
         /\ \A n \in 1 .. Len(OldLines(l)) :
              /\ OldLines(l)[n] \in DOMAIN l /\ InOld(l, OldLines(l)[n])
              /\ lo2l(l, OldLines(l)[n]) = n
<1> DEFINE S == Old(l)
<1>1. /\ IsFiniteSet(S) /\ (\A x \in S : x \in Nat) /\ Cardinality(S) \in Nat
      /\ \A x \in DOMAIN l : x \in Nat
  BY LinesOf, FS_CardinalityType
<1>2. \A i, j \in DOMAIN l : i <= j =>
        /\ Rank(S, i) \in Nat /\ Rank(S, i) <= Rank(S, j)
        /\ Rank(S, i) <= Cardinality(S)
        /\ i \in S => Rank(S, i) >= 1
  BY <1>1, RankMonotone
<1>4. /\ Len(InOrder(S)) = Cardinality(S)
      /\ \A n \in 1 .. Cardinality(S) : InOrder(S)[n] \in S /\ Rank(S, InOrder(S)[n]) = n
      /\ \A j \in S : Rank(S, j) \in 1 .. Cardinality(S) /\ InOrder(S)[Rank(S, j)] = j
  BY <1>1, InOrderOf
<1>5. /\ \A i \in DOMAIN l : InOld(l, i) <=> i \in S
      /\ \A i \in S : i \in DOMAIN l
  BY DEF Old
<1>6. /\ \A j \in DOMAIN l : lo2l(l, j) = Rank(S, j)
      /\ OldLines(l) = InOrder(S)
  BY LinesOf
<1> HIDE DEF S
<1>. QED  BY <1>1, <1>2, <1>4, <1>5, <1>6
-----------------------------------------------------------------------------
(* Edit actions are intervals with an unchanged line between any two.      *)
LEMMA Block ==
  ASSUME NEW l \in Seq(Kinds), NEW b \in Actions(l)
  PROVE  \E lo, hi \in DOMAIN l :
           /\ b = lo .. hi /\ lo <= hi /\ Min(b) = lo
           /\ b \subseteq Changed(l) /\ lo - 1 \notin Changed(l) /\ hi + 1 \notin Changed(l)
<1>1. PICK lo \in Changed(l), hi \in Changed(l) : b = lo .. hi
  BY DEF Actions
<1>2. lo \in DOMAIN l /\ hi \in DOMAIN l /\ lo \in Nat /\ hi \in Nat
  BY LinesOf DEF Changed
<1>3. b # {} /\ b \subseteq Changed(l) /\ {Min(b) - 1, Max(b) + 1} \cap Changed(l) = {}
  BY DEF Actions
<1>4. lo <= hi
  BY <1>1, <1>2, <1>3
<1>5. Min(b) \in b /\ (\A x \in b : Min(b) <= x) /\ Max(b) \in b /\ (\A x \in b : x <= Max(b))
  <2>1. (\A x \in b : x \in Nat) /\ (\A x \in b : x <= hi)
    BY <1>1, <1>2
  <2> QED  BY <1>2, <1>3, <2>1, MinOf, MaxOf
<1>6. Min(b) = lo /\ Max(b) = hi
  <2>1. lo \in b /\ hi \in b
    BY <1>1, <1>2, <1>4
  <2> QED  BY <1>1, <1>2, <1>5, <2>1
<1>. QED  BY <1>1, <1>2, <1>3, <1>4, <1>6

LEMMA Apart ==
  ASSUME NEW l \in Seq(Kinds), NEW a \in Actions(l), NEW b \in Actions(l), a # b,
         NEW i \in a, NEW j \in b
  PROVE  i # j /\ (i < j => \E k \in DOMAIN l : i < k /\ k < j /\ l[k] = "=")
<1>1. PICK alo, ahi \in DOMAIN l :
        /\ a = alo .. ahi /\ alo <= ahi /\ a \subseteq Changed(l)
        /\ alo - 1 \notin Changed(l) /\ ahi + 1 \notin Changed(l)
  BY Block
<1>2. PICK blo, bhi \in DOMAIN l :
        /\ b = blo .. bhi /\ blo <= bhi /\ b \subseteq Changed(l)
        /\ blo - 1 \notin Changed(l) /\ bhi + 1 \notin Changed(l)
  BY Block
<1>3. /\ \A x \in DOMAIN l : x \in Nat
      /\ DOMAIN l = 1 .. Len(l) /\ Len(l) \in Nat
  BY LinesOf
<1>4. a \cap b = {}
  <2> SUFFICES ASSUME NEW x \in a, x \in b  PROVE FALSE
    OBVIOUS
  <2>1. ~(alo < blo) /\ ~(blo < alo)
    <3>1. alo < blo => blo - 1 \in a
      BY <1>1, <1>2, <1>3
    <3>2. blo < alo => alo - 1 \in b
      BY <1>1, <1>2, <1>3
    <3> QED  BY <1>1, <1>2, <3>1, <3>2
  <2>2. ~(ahi < bhi) /\ ~(bhi < ahi)
    <3>1. ahi < bhi => ahi + 1 \in b
      BY <1>1, <1>2, <1>3
    <3>2. bhi < ahi => bhi + 1 \in a
      BY <1>1, <1>2, <1>3
    <3> QED  BY <1>1, <1>2, <3>1, <3>2
  <2>3. alo = blo /\ ahi = bhi
    BY <1>3, <2>1, <2>2
  <2> QED  BY <1>1, <1>2, <2>3
<1>5. ASSUME i < j  PROVE ahi + 1 \in DOMAIN l /\ i < ahi + 1 /\ ahi + 1 < j
  <2>1. ~(j <= ahi)
    BY <1>1, <1>2, <1>3, <1>4, <1>5
  <2>2. j # ahi + 1
    BY <1>1, <1>2
  <2> QED  BY <1>1, <1>2, <1>3, <1>5, <2>1, <2>2
<1>6. ahi + 1 \in DOMAIN l => l[ahi + 1] = "="
  BY <1>1 DEF Changed
<1>. QED  BY <1>4, <1>5, <1>6

(* In a block the lines of the new function come first.                    *)
LEMMA MinusFirst ==
  ASSUME NEW l \in Seq(Kinds), IsListing(l), NEW b \in Actions(l),
         NEW i \in b, NEW j \in b, l[i] = "+", l[j] = "-"
  PROVE  j < i
<1> SUFFICES ASSUME ~(j < i)  PROVE FALSE
  OBVIOUS
<1>1. PICK lo, hi \in DOMAIN l : b = lo .. hi /\ b \subseteq Changed(l)
  BY Block
<1>2. /\ \A x \in DOMAIN l : x \in Nat /\ l[x] \in Kinds
      /\ DOMAIN l = 1 .. Len(l) /\ Len(l) \in Nat
  BY LinesOf
<1> DEFINE S == {k \in b : i < k /\ l[k] = "-"}
<1>3. j \in S /\ \A x \in S : x \in Nat
  BY <1>1, <1>2
<1>4. PICK m \in S : \A x \in S : m <= x
  <2> HIDE DEF S
  <2> QED  BY <1>3, MinOf
<1>5. m \in Nat /\ m - 1 \in b /\ i <= m - 1 /\ m - 1 \in Nat
  BY <1>1, <1>2
<1>6. l[m - 1] # "-"
  <2>1. ~(m <= m - 1)
    BY <1>5
  <2>2. CASE i = m - 1
    BY <2>2
  <2>3. CASE i < m - 1
    BY <1>4, <1>5, <2>1, <2>3
  <2> QED  BY <1>1, <1>2, <1>5, <2>2, <2>3
<1>7. l[m - 1] = "+"
  BY <1>1, <1>2, <1>5, <1>6 DEF Changed, Kinds
<1>8. m - 1 \in 1 .. Len(l) - 1 /\ l[(m - 1) + 1] = "-"
  BY <1>1, <1>2, <1>5
<1>. QED  BY <1>7, <1>8 DEF IsListing
-----------------------------------------------------------------------------
(* The two sides of an edit action                                         *)
LEMMA EndsOf ==
  ASSUME NEW S, \A x \in S : x \in Nat, NEW n \in Nat, \A x \in S : x <= n
  PROVE  /\ \A x \in Ends(S) : x \in S
         /\ S # {} => Max(S) \in Ends(S) /\ \A x \in S : x <= Max(S)
         /\ IsFiniteSet(S) /\ Cardinality(S) <= 2 => \A x \in S : x \in Ends(S)
<1>1. CASE S = {}
  BY <1>1 DEF Ends
<1>2. CASE S # {}
  <2>1. /\ Ends(S) = {Min(S), Max(S)} /\ Min(S) \in S /\ Max(S) \in S
        /\ \A x \in S : Min(S) <= x /\ x <= Max(S)
    BY <1>2, MinOf, MaxOf DEF Ends
  <2>2. ASSUME IsFiniteSet(S), Cardinality(S) <= 2, NEW x \in S, x \notin Ends(S)
        PROVE  FALSE
    <3> DEFINE T == S \ {x}
               U == T \ {Min(S)}
    <3>1. IsFiniteSet(T) /\ Cardinality(S) \in Nat /\ Cardinality(T) = Cardinality(S) - 1
      BY <2>2, FS_RemoveElement, FS_CardinalityType
    <3>2. Min(S) \in T
      BY <2>1, <2>2
    <3>3. IsFiniteSet(U) /\ Cardinality(U) = Cardinality(T) - 1 /\ Cardinality(U) \in Nat
      <4> HIDE DEF T
      <4> QED  BY <3>1, <3>2, FS_RemoveElement, FS_CardinalityType
    <3>4. U = {}
      <4>1. Cardinality(U) = 0
        <5> HIDE DEF T, U
        <5> QED  BY <2>2, <3>1, <3>3
      <4> HIDE DEF U
      <4> QED  BY <3>3, <4>1, FS_EmptySet
    <3>5. Max(S) = Min(S)
      BY <2>1, <2>2, <3>4
    <3>6. x = Min(S)
      BY <2>1, <2>2, <3>5
    <3> QED  BY <2>1, <2>2, <3>6
  <2> QED  BY <2>1, <2>2
<1>. QED  BY <1>1, <1>2

LEMMA SidesOf ==
  ASSUME NEW l \in Seq(Kinds), NEW b \in Actions(l)
  PROVE  /\ \A j \in b : j \in DOMAIN l /\ (l[j] = "-" \/ l[j] = "+")
         /\ \E j \in b : TRUE
         /\ \A j \in b : l[j] = "-" => lp2l(l, j) \in NewSide(l, b)
         /\ \A j \in b : l[j] = "+" => lo2l(l, j) \in OldSide(l, b)
         /\ \A j \in DOMAIN l : InNew(l, j) /\ lp2l(l, j) \in NewSide(l, b)
                                  => j \in b /\ l[j] = "-"
         /\ \A j \in DOMAIN l : InOld(l, j) /\ lo2l(l, j) \in OldSide(l, b)
                                  => j \in b /\ l[j] = "+"
         /\ \A n \in NewSide(l, b) : n \in Nat /\ n <= Len(NewLines(l))
                                     /\ \E j \in b : l[j] = "-" /\ lp2l(l, j) = n
         /\ \A n \in OldSide(l, b) : n \in Nat /\ n <= Len(OldLines(l))
                                     /\ \E j \in b : l[j] = "+" /\ lo2l(l, j) = n
<1>1. /\ \A j \in b : j \in DOMAIN l /\ (l[j] = "-" \/ l[j] = "+")
      /\ \E j \in b : TRUE
  <2>1. /\ \A j \in b : j \in Changed(l)
        /\ b # {}
    BY DEF Actions
  <2> QED  BY <2>1, LinesOf DEF Changed, Kinds
<1>2. /\ \A n : n \in NewSide(l, b) <=> \E j \in b : l[j] = "-" /\ lp2l(l, j) = n
      /\ \A n : n \in OldSide(l, b) <=> \E j \in b : l[j] = "+" /\ lo2l(l, j) = n
  BY DEF NewSide, OldSide
<1>3. /\ \A j \in DOMAIN l : lp2l(l, j) \in 0 .. Len(NewLines(l))
      /\ \A j \in DOMAIN l : lo2l(l, j) \in 0 .. Len(OldLines(l))
      /\ \A j \in DOMAIN l : InNew(l, j) => NewLines(l)[lp2l(l, j)] = j
      /\ \A j \in DOMAIN l : InOld(l, j) => OldLines(l)[lo2l(l, j)] = j
  BY NewNumbers, OldNumbers
<1>4. ASSUME NEW j \in DOMAIN l, InNew(l, j), lp2l(l, j) \in NewSide(l, b)
      PROVE  j \in b /\ l[j] = "-"
  BY <1>1, <1>2, <1>3, <1>4 DEF InNew
<1>5. ASSUME NEW j \in DOMAIN l, InOld(l, j), lo2l(l, j) \in OldSide(l, b)
      PROVE  j \in b /\ l[j] = "+"
  BY <1>1, <1>2, <1>3, <1>5 DEF InOld
<1>6. Len(NewLines(l)) \in Nat /\ Len(OldLines(l)) \in Nat
  BY NewNumbers, OldNumbers
<1>7. \A j \in b : /\ lp2l(l, j) \in Nat /\ lp2l(l, j) <= Len(NewLines(l))
                   /\ lo2l(l, j) \in Nat /\ lo2l(l, j) <= Len(OldLines(l))
  BY <1>1, <1>3, <1>6
<1>. QED  BY <1>1, <1>2, <1>4, <1>5, <1>7

LEMMA SideEnds ==
  ASSUME NEW l \in Seq(Kinds), NEW b \in Actions(l)
  PROVE  /\ \A n \in Ends(NewSide(l, b)) : n \in NewSide(l, b)
         /\ \A n \in Ends(OldSide(l, b)) : n \in OldSide(l, b)
         /\ ~IsAdd(l, b) => /\ Max(NewSide(l, b)) \in Ends(NewSide(l, b))
                            /\ \A n \in NewSide(l, b) : n <= Max(NewSide(l, b))
  BY SidesOf, EndsOf, NewNumbers, OldNumbers DEF IsAdd

(* What is restored is written before the next line of the new function,   *)
(* or in place of the last line taken back.                                *)
LEMMA PlaceOfAdd ==
  ASSUME NEW l \in Seq(Kinds), NEW b \in Actions(l), IsAdd(l, b), NEW j \in b
  PROVE  l[j] = "+" /\ lp2l(l, j) = AddKey(l, b)
<1>1. PICK lo, hi \in DOMAIN l : b = lo .. hi /\ lo <= hi /\ Min(b) = lo
  BY Block
<1>2. \A k \in b : k \in DOMAIN l /\ l[k] = "+" /\ ~InNew(l, k)
  BY SidesOf DEF IsAdd, InNew
<1>3. \A x \in DOMAIN l : x \in Nat
  BY LinesOf
<1>4. lo <= j /\ j \in DOMAIN l /\ \A k \in DOMAIN l : lo < k /\ k <= j => ~InNew(l, k)
  BY <1>1, <1>2, <1>3
<1>5. lp2l(l, lo) = lp2l(l, j)
  BY <1>4, NewNumbers
<1>. QED  BY <1>1, <1>2, <1>5 DEF AddKey

LEMMA AddKeyType ==
  ASSUME NEW l \in Seq(Kinds), NEW b \in Actions(l), IsAdd(l, b)
  PROVE  AddKey(l, b) \in Nat
<1>1. PICK j \in b : j \in DOMAIN l
  BY SidesOf
<1>2. lp2l(l, j) \in Nat
  BY <1>1, NewNumbers
<1>. QED  BY <1>2, PlaceOfAdd

LEMMA PlaceOfUpdate ==
  ASSUME NEW l \in Seq(Kinds), IsListing(l), NEW b \in Actions(l), IsUpdate(l, b),
         NEW j \in b, l[j] = "+"
  PROVE  lp2l(l, j) = Max(NewSide(l, b))
<1>1. PICK lo, hi \in DOMAIN l : b = lo .. hi
  BY Block
<1>2. /\ Max(NewSide(l, b)) \in NewSide(l, b)
      /\ \A n \in NewSide(l, b) : n <= Max(NewSide(l, b))
  BY SideEnds DEF IsUpdate
<1>3. PICK m \in b : l[m] = "-" /\ lp2l(l, m) = Max(NewSide(l, b))
  BY <1>2, SidesOf
<1>4. m < j
  BY <1>3, MinusFirst
<1>5. /\ \A x \in DOMAIN l : x \in Nat
      /\ m \in DOMAIN l /\ j \in DOMAIN l
  BY LinesOf, SidesOf
<1>6. ASSUME NEW k \in DOMAIN l, m < k, k <= j, InNew(l, k)  PROVE FALSE
  <2>1. k \in b
    BY <1>1, <1>5, <1>6
  <2>2. lp2l(l, k) \in NewSide(l, b)
    BY <1>6, <2>1, SidesOf DEF InNew
  <2>3. lp2l(l, m) < lp2l(l, k) /\ lp2l(l, m) \in Nat /\ lp2l(l, k) \in Nat
    BY <1>5, <1>6, NewNumbers
  <2> QED  BY <1>2, <1>3, <2>2, <2>3
<1>7. m <= j /\ \A k \in DOMAIN l : m < k /\ k <= j => ~InNew(l, k)
  BY <1>4, <1>5, <1>6
<1>8. lp2l(l, m) = lp2l(l, j)
  BY <1>5, <1>7, NewNumbers
<1>. QED  BY <1>3, <1>8
-----------------------------------------------------------------------------
(* What revert writes, and where: a line of the new function in its turn   *)
(* unless it is an end of a side that is taken back, an end of a restored  *)
(* side when the new function's line Slot is read.                         *)
RestoredBy(l, b, j) == j \in b /\ l[j] = "+" /\ lo2l(l, j) \in Ends(OldSide(l, b))
DroppedBy(l, b, j)  == j \in b /\ l[j] = "-" /\ lp2l(l, j) \in Ends(NewSide(l, b))
Belongs(l, bs, j) == \/ InNew(l, j) /\ \A b \in bs : ~DroppedBy(l, b, j)
                     \/ \E b \in bs : RestoredBy(l, b, j)
Slot(l, j) == IF \E b \in Actions(l) : IsAdd(l, b) /\ j \in b
                THEN lp2l(l, j) + 1 ELSE lp2l(l, j)
All(l, b)       == {j \in DOMAIN l : RestoredBy(l, b, j)}
At(l, bs, n)    == {j \in DOMAIN l : Belongs(l, bs, j) /\ Slot(l, j) = n}
UpTo(l, bs, n)  == {j \in DOMAIN l : Belongs(l, bs, j) /\ Slot(l, j) <= n}
ReadOf(l, b, n) == {j \in All(l, b) : lo2l(l, j) <= n}

LEMMA Slots ==
  ASSUME NEW l \in Seq(Kinds), IsListing(l)
  PROVE  /\ \A j \in DOMAIN l : /\ lp2l(l, j) \in Nat /\ Slot(l, j) \in Nat
                                /\ \/ Slot(l, j) = lp2l(l, j)
                                   \/ Slot(l, j) = lp2l(l, j) + 1
                                /\ InNew(l, j) => Slot(l, j) = lp2l(l, j)
         /\ \A b \in Actions(l) : \A j \in b :
              /\ IsAdd(l, b) => Slot(l, j) = lp2l(l, j) + 1 /\ Slot(l, j) = AddKey(l, b) + 1
              /\ ~IsAdd(l, b) => Slot(l, j) = lp2l(l, j)
              /\ IsUpdate(l, b) /\ l[j] = "+" => Slot(l, j) = Max(NewSide(l, b))
<1>1. ASSUME NEW j \in DOMAIN l
      PROVE  /\ lp2l(l, j) \in Nat /\ Slot(l, j) \in Nat
             /\ Slot(l, j) = lp2l(l, j) \/ Slot(l, j) = lp2l(l, j) + 1
             /\ InNew(l, j) => Slot(l, j) = lp2l(l, j)
  <2>1. lp2l(l, j) \in Nat
    BY NewNumbers
  <2>2. \A b \in Actions(l) : IsAdd(l, b) /\ j \in b => ~InNew(l, j)
    BY PlaceOfAdd DEF InNew
  <2> QED  BY <2>1, <2>2 DEF Slot
<1>2. ASSUME NEW b \in Actions(l), NEW j \in b, IsAdd(l, b)
      PROVE  Slot(l, j) = lp2l(l, j) + 1 /\ Slot(l, j) = AddKey(l, b) + 1
  BY <1>2, PlaceOfAdd DEF Slot
<1>3. ASSUME NEW b \in Actions(l), NEW j \in b, ~IsAdd(l, b)
      PROVE  Slot(l, j) = lp2l(l, j)
  BY <1>3, Apart DEF Slot
<1>4. ASSUME NEW b \in Actions(l), NEW j \in b, IsUpdate(l, b), l[j] = "+"
      PROVE  Slot(l, j) = Max(NewSide(l, b))
  BY <1>3, <1>4, PlaceOfUpdate DEF IsUpdate
<1>. QED  BY <1>1, <1>2, <1>3, <1>4

LEMMA RestoredKind ==
  ASSUME NEW l \in Seq(Kinds), NEW b \in Actions(l), NEW j, RestoredBy(l, b, j)
  PROVE  j \in DOMAIN l /\ j \in b /\ l[j] = "+" /\ ~IsDelete(l, b)
         /\ (IsAdd(l, b) \/ IsUpdate(l, b))
  BY SidesOf DEF RestoredBy, IsDelete, IsUpdate

(* Lines written later are further down.                                   *)
LEMMA SlotOrder ==
  ASSUME NEW l \in Seq(Kinds), IsListing(l), NEW bs \in SUBSET Actions(l),
         NEW i \in DOMAIN l, NEW j \in DOMAIN l, Belongs(l, bs, i), Belongs(l, bs, j),
         Slot(l, i) < Slot(l, j)
  PROVE  i < j
<1> SUFFICES ASSUME ~(i < j)  PROVE FALSE
  OBVIOUS
<1>1. i \in Nat /\ j \in Nat /\ j < i
  <2>1. i \in Nat /\ j \in Nat
    BY LinesOf
  <2>2. i # j
    BY Slots
  <2> QED  BY <2>1, <2>2
<1>2. /\ lp2l(l, j) <= lp2l(l, i) /\ lp2l(l, i) \in Nat /\ lp2l(l, j) \in Nat
      /\ Slot(l, i) \in Nat /\ Slot(l, j) \in Nat
      /\ Slot(l, i) = lp2l(l, i) \/ Slot(l, i) = lp2l(l, i) + 1
      /\ Slot(l, j) = lp2l(l, j) \/ Slot(l, j) = lp2l(l, j) + 1
  BY <1>1, NewNumbers, Slots
<1>3. /\ Slot(l, j) = lp2l(l, j) + 1 /\ Slot(l, i) = lp2l(l, i)
      /\ lp2l(l, i) = lp2l(l, j)
  BY <1>2
<1>4. PICK a \in Actions(l) : IsAdd(l, a) /\ j \in a
  BY <1>2, <1>3 DEF Slot
<1>5. ~InNew(l, i)
  BY <1>1, <1>2, <1>3, NewNumbers
<1>6. PICK b \in bs : RestoredBy(l, b, i)
  BY <1>5 DEF Belongs
<1>7. b \in Actions(l) /\ i \in b /\ a # b
  <2>1. b \in Actions(l) /\ i \in b
    BY <1>6 DEF RestoredBy
  <2>2. ~IsAdd(l, b)
    BY <1>2, <1>3, <2>1, Slots
  <2> QED  BY <1>4, <2>1, <2>2
<1>8. PICK k \in DOMAIN l : j < k /\ k < i /\ l[k] = "="
  BY <1>1, <1>4, <1>7, Apart
<1>9. InNew(l, k) /\ k <= i
  BY <1>1, <1>8, LinesOf DEF InNew
<1>10. lp2l(l, j) < lp2l(l, i)
  BY <1>8, <1>9, NewNumbers
<1>. QED  BY <1>2, <1>3, <1>10

(* No addition is put in front of a line that is itself taken back, and no *)
(* two additions in front of the same line.                                *)
LEMMA NoneInFront ==
  ASSUME NEW l \in Seq(Kinds), NEW a \in Actions(l), IsAdd(l, a),
         NEW b \in Actions(l), NEW p \in b, l[p] = "-"
  PROVE  AddKey(l, a) + 1 # lp2l(l, p)
<1> SUFFICES ASSUME AddKey(l, a) + 1 = lp2l(l, p)  PROVE FALSE
  OBVIOUS
<1>1. PICK j \in a : TRUE
  BY SidesOf
<1>2. l[j] = "+" /\ lp2l(l, j) = AddKey(l, a) /\ a # b
  BY PlaceOfAdd
<1>3. /\ j \in DOMAIN l /\ p \in DOMAIN l /\ j \in Nat /\ p \in Nat
      /\ lp2l(l, j) \in Nat /\ lp2l(l, p) \in Nat
  BY SidesOf, LinesOf, NewNumbers
<1>4. j < p
  <2>1. p <= j => lp2l(l, p) <= lp2l(l, j)
    BY <1>3, NewNumbers
  <2> QED  BY <1>2, <1>3, <2>1
<1>5. PICK k \in DOMAIN l : j < k /\ k < p /\ l[k] = "="
  BY <1>2, <1>4, Apart
<1>6. k \in Nat /\ InNew(l, k) /\ InNew(l, p) /\ lp2l(l, k) \in Nat
  BY <1>5, LinesOf, NewNumbers DEF InNew
<1>7. lp2l(l, j) < lp2l(l, k) /\ lp2l(l, k) < lp2l(l, p)
  BY <1>3, <1>5, <1>6, NewNumbers
<1>. QED  BY <1>2, <1>3, <1>6, <1>7

LEMMA AddKeysDiffer ==
  ASSUME NEW l \in Seq(Kinds), NEW a \in Actions(l), NEW b \in Actions(l),
         IsAdd(l, a), IsAdd(l, b), a # b
  PROVE  AddKey(l, a) # AddKey(l, b)
<1>1. ASSUME NEW c \in Actions(l), NEW d \in Actions(l), IsAdd(l, c), IsAdd(l, d), c # d,
             NEW i \in c, NEW j \in d, i < j
      PROVE  AddKey(l, c) # AddKey(l, d)
  <2>1. /\ lp2l(l, i) = AddKey(l, c) /\ lp2l(l, j) = AddKey(l, d)
        /\ i \in DOMAIN l /\ j \in DOMAIN l
    BY <1>1, PlaceOfAdd, SidesOf
  <2>2. PICK k \in DOMAIN l : i < k /\ k < j /\ l[k] = "="
    BY <1>1, Apart
  <2>3. i < k /\ k <= j /\ InNew(l, k)
    BY <2>1, <2>2, LinesOf DEF InNew
  <2>4. lp2l(l, i) < lp2l(l, j) /\ lp2l(l, i) \in Nat /\ lp2l(l, j) \in Nat
    BY <2>1, <2>3, NewNumbers
  <2> QED  BY <2>1, <2>4
<1>2. PICK i \in a, j \in b : TRUE
  BY SidesOf
<1>3. i < j \/ j < i
  <2>1. i # j /\ i \in DOMAIN l /\ j \in DOMAIN l
    BY Apart, SidesOf
  <2> QED  BY <2>1, LinesOf
<1>. QED  BY <1>1, <1>3

(* What is written when the line of the new function at p is read          *)
Puts(l, b, n) == \/ IsAdd(l, b) /\ n = AddKey(l, b) + 1
                 \/ IsUpdate(l, b) /\ n = Max(NewSide(l, b))

LEMMA AtCases ==
  ASSUME NEW l \in Seq(Kinds), IsListing(l), NEW bs \in SUBSET Actions(l),
         NEW n \in 1 .. Len(NewLines(l)), NEW p, p = NewLines(l)[n]
  PROVE  \A j : j \in At(l, bs, n) <=>
                  \/ j = p /\ \A b \in bs : ~DroppedBy(l, b, p)
                  \/ \E b \in bs : j \in All(l, b) /\ Puts(l, b, n)
<1>1. p \in DOMAIN l /\ InNew(l, p) /\ lp2l(l, p) = n /\ Slot(l, p) = n
  BY NewNumbers, Slots
<1>2. ASSUME NEW j \in DOMAIN l, InNew(l, j), Slot(l, j) = n  PROVE j = p
  BY <1>2, NewNumbers, Slots
<1>3. ASSUME NEW b \in bs, NEW j, RestoredBy(l, b, j)
      PROVE  Slot(l, j) = n <=> Puts(l, b, n)
  <2>1. b \in Actions(l)
    OBVIOUS
  <2>2. j \in b /\ l[j] = "+" /\ (IsAdd(l, b) \/ IsUpdate(l, b))
    BY <1>3, <2>1, RestoredKind
  <2>3. CASE IsAdd(l, b)
    <3>1. ~IsUpdate(l, b) /\ Slot(l, j) = AddKey(l, b) + 1
      BY <2>1, <2>2, <2>3, Slots DEF IsUpdate
    <3> QED  BY <2>3, <3>1 DEF Puts
  <2>4. CASE IsUpdate(l, b)
    <3>1. ~IsAdd(l, b) /\ Slot(l, j) = Max(NewSide(l, b))
      BY <2>1, <2>2, <2>4, Slots DEF IsUpdate
    <3> QED  BY <2>4, <3>1 DEF Puts
  <2> QED  BY <2>2, <2>3, <2>4
<1>. QED  BY <1>1, <1>2, <1>3 DEF At, Belongs, All

LEMMA WrittenAt ==
  ASSUME h \in Seq(Kinds), IsListing(h), invalid \in SUBSET Actions(h),
         addC = [b \in add1 |-> InOrder(All(h, b))],
         uptC = [b \in upt1 |-> InOrder(All(h, b))],
         NEW n \in 1 .. Len(NewLines(h))
  PROVE  Written(NewLines(h)[n], n) = InOrder(At(h, invalid, n))
<1> DEFINE p == NewLines(h)[n]
           u == {b \in upt1 : n \in Ends(NewSide(h, b))}
           a == {b \in add1 : n = AddKey(h, b) + 1}
<1>1. p \in DOMAIN h /\ InNew(h, p) /\ lp2l(h, p) = n /\ p \in Nat
  BY NewNumbers, LinesOf
<1>2. \A j : j \in At(h, invalid, n) <=>
               \/ j = p /\ \A b \in invalid : ~DroppedBy(h, b, p)
               \/ \E b \in invalid : j \in All(h, b) /\ Puts(h, b, n)
  BY AtCases
<1>3. \A b \in invalid : n \in Ends(NewSide(h, b)) => DroppedBy(h, b, p)
  BY <1>1, SideEnds, SidesOf DEF DroppedBy
<1>4. ASSUME NEW b \in invalid, DroppedBy(h, b, p)
      PROVE  /\ n \in Ends(NewSide(h, b)) /\ b \in upt1 \cup delete1
             /\ \A c \in invalid : Puts(h, c, n) => c = b /\ IsUpdate(h, b)
  <2>1. p \in b /\ h[p] = "-" /\ n \in Ends(NewSide(h, b)) /\ b \in Actions(h)
    BY <1>1, <1>4 DEF DroppedBy
  <2>2. ~IsAdd(h, b)
    BY <2>1, PlaceOfAdd
  <2>3. b \in upt1 \cup delete1
    BY <2>2 DEF IsUpdate, upt1, delete1
  <2>4. ASSUME NEW c \in invalid, Puts(h, c, n)  PROVE c = b /\ IsUpdate(h, b)
    <3>1. c \in Actions(h)
      OBVIOUS
    <3>2. ~IsAdd(h, c) \/ n # AddKey(h, c) + 1
      BY <1>1, <2>1, <3>1, NoneInFront
    <3>3. IsUpdate(h, c) /\ n = Max(NewSide(h, c))
      BY <2>4, <3>2 DEF Puts
    <3>4. n \in NewSide(h, c)
      BY <3>1, <3>3, SideEnds DEF IsUpdate
    <3>5. p \in c
      BY <1>1, <3>1, <3>4, SidesOf
    <3> QED  BY <2>1, <3>1, <3>3, <3>5, Apart
  <2> QED  BY <2>1, <2>3, <2>4
<1>5. CASE u # {}
  <2> DEFINE b == CHOOSE x \in u : TRUE
  <2>1. b \in u
    BY <1>5
  <2> HIDE DEF b
  <2>2. b \in invalid /\ IsUpdate(h, b) /\ b \in upt1 /\ DroppedBy(h, b, p)
    BY <1>3, <2>1 DEF upt1
  <2>3. \A c \in invalid : Puts(h, c, n) => c = b
    BY <1>4, <2>2
  <2>4. n = Max(NewSide(h, b)) <=> Puts(h, b, n)
    BY <2>2 DEF Puts, IsUpdate
  <2>5. At(h, invalid, n) = IF n = Max(NewSide(h, b)) THEN All(h, b) ELSE {}
    BY <1>2, <2>2, <2>3, <2>4
  <2>6. Written(p, n) = IF n = Max(NewSide(h, b)) THEN uptC[b] ELSE <<>>
    BY <1>5 DEF Written, b
  <2> QED  BY <2>2, <2>5, <2>6, InOrderOne
<1>6. CASE u = {} /\ \E b \in delete1 : n \in Ends(NewSide(h, b))
  <2>1. PICK b \in delete1 : n \in Ends(NewSide(h, b))
    BY <1>6
  <2>2. b \in invalid /\ DroppedBy(h, b, p) /\ ~IsUpdate(h, b)
    BY <1>3, <2>1 DEF delete1, IsUpdate
  <2>3. At(h, invalid, n) = {}
    BY <1>2, <1>4, <2>2
  <2>4. Written(p, n) = <<>>
    BY <1>6 DEF Written
  <2> QED  BY <2>3, <2>4, InOrderOne
<1>7. CASE u = {} /\ ~(\E b \in delete1 : n \in Ends(NewSide(h, b)))
  <2>1. \A b \in invalid : ~DroppedBy(h, b, p)
    BY <1>4, <1>7
  <2>2. \A b \in invalid : Puts(h, b, n) <=> b \in a
    <3> SUFFICES ASSUME NEW b \in invalid  PROVE Puts(h, b, n) <=> b \in a
      OBVIOUS
    <3>1. IsUpdate(h, b) => n # Max(NewSide(h, b))
      BY <1>7, SideEnds DEF upt1, IsUpdate
    <3> QED  BY <3>1 DEF Puts, add1
  <2>3. CASE a = {}
    <3>1. At(h, invalid, n) = {p}
      BY <1>2, <2>1, <2>2, <2>3
    <3>2. Written(p, n) = <<p>>
      BY <1>7, <2>3 DEF Written
    <3> QED  BY <1>1, <3>1, <3>2, InOrderOne
  <2>4. CASE a # {}
    <3> DEFINE b == CHOOSE x \in a : TRUE
    <3>1. b \in a
      BY <2>4
    <3> HIDE DEF b
    <3>2. b \in add1 /\ b \in invalid /\ b \in Actions(h) /\ IsAdd(h, b) /\ n = AddKey(h, b) + 1
      BY <3>1 DEF add1
    <3>3. \A c \in a : c = b
      <4> SUFFICES ASSUME NEW c \in a, c # b  PROVE FALSE
        OBVIOUS
      <4>1. c \in Actions(h) /\ IsAdd(h, c) /\ n = AddKey(h, c) + 1
        BY DEF add1
      <4>2. AddKey(h, c) = AddKey(h, b)
        <5> HIDE DEF a
        <5> QED  BY <3>2, <4>1, AddKeyType
      <4> QED  BY <3>2, <4>1, <4>2, AddKeysDiffer
    <3>4. At(h, invalid, n) = All(h, b) \cup {p}
      BY <1>2, <2>1, <2>2, <3>1, <3>2, <3>3
    <3>5. Written(p, n) = InOrder(All(h, b)) \o <<p>>
      BY <1>7, <2>4, <3>2 DEF Written, b
    <3>6. \A x \in All(h, b), y \in {p} : x < y
      <4> SUFFICES ASSUME NEW x \in All(h, b)  PROVE x < p
        OBVIOUS
      <4>1. x \in DOMAIN h /\ x \in b /\ x \in Nat
        BY LinesOf DEF All, RestoredBy
      <4>2. lp2l(h, x) + 1 = n /\ lp2l(h, x) \in Nat
        BY <3>2, <4>1, PlaceOfAdd, NewNumbers
      <4>3. p <= x => lp2l(h, p) <= lp2l(h, x)
        BY <1>1, <4>1, NewNumbers
      <4> QED  BY <1>1, <4>1, <4>2, <4>3
    <3>7. /\ \A x \in All(h, b) : x \in Nat
          /\ IsFiniteSet(All(h, b)) /\ IsFiniteSet({p}) /\ \A y \in {p} : y \in Nat
      <4>1. All(h, b) \subseteq DOMAIN h
        BY DEF All
      <4> QED  BY <1>1, <4>1, LinesOf, FS_Subset, FS_Singleton
    <3>8. InOrder(All(h, b) \cup {p}) = InOrder(All(h, b)) \o InOrder({p})
      BY <3>6, <3>7, InOrderConcat
    <3>9. InOrder({p}) = <<p>>
      BY <1>1, InOrderOne
    <3> QED  BY <3>4, <3>5, <3>8, <3>9
  <2> QED  BY <2>3, <2>4
<1>. QED  BY <1>5, <1>6, <1>7
-----------------------------------------------------------------------------
(* The pass over the old function has in order what it has read.           *)
LEMMA ReadOne ==
  ASSUME NEW l \in Seq(Kinds), NEW b \in Actions(l),
         NEW n \in Nat, n < Len(OldLines(l)), NEW p, p = OldLines(l)[n + 1]
  PROVE  /\ n + 1 \in Ends(OldSide(l, b)) =>
              /\ p \in b
              /\ InOrder(ReadOf(l, b, n + 1)) = Append(InOrder(ReadOf(l, b, n)), p)
         /\ n + 1 \notin Ends(OldSide(l, b)) => ReadOf(l, b, n + 1) = ReadOf(l, b, n)
<1>1. /\ p \in DOMAIN l /\ InOld(l, p) /\ lo2l(l, p) = n + 1 /\ p \in Nat
      /\ \A x \in DOMAIN l : lo2l(l, x) \in Nat /\ x \in Nat
  <2>1. n + 1 \in 1 .. Len(OldLines(l))
    BY OldNumbers
  <2> QED  BY <2>1, OldNumbers, LinesOf
<1>2. \A x \in All(l, b) : x \in DOMAIN l /\ InOld(l, x) /\ lo2l(l, x) \in Ends(OldSide(l, b))
  BY DEF All, RestoredBy, InOld
<1>3. \A x \in All(l, b) : lo2l(l, x) = n + 1 => x = p
  BY <1>1, <1>2, OldNumbers
<1>4. n + 1 \in Ends(OldSide(l, b)) => p \in b /\ p \in All(l, b)
  BY <1>1, SideEnds, SidesOf DEF All, RestoredBy
<1>5. \A x \in ReadOf(l, b, n) : x < p
  <2> SUFFICES ASSUME NEW x \in ReadOf(l, b, n)  PROVE x < p
    OBVIOUS
  <2>1. x \in DOMAIN l /\ lo2l(l, x) <= n
    BY DEF ReadOf, All
  <2>2. p <= x => lo2l(l, p) <= lo2l(l, x)
    BY <1>1, <2>1, OldNumbers
  <2> QED  BY <1>1, <2>1, <2>2
<1>6. \A x \in All(l, b) : lo2l(l, x) <= n + 1 <=> lo2l(l, x) <= n \/ lo2l(l, x) = n + 1
  BY <1>1, <1>2
<1>7. CASE n + 1 \in Ends(OldSide(l, b))
  <2>1. ReadOf(l, b, n + 1) = ReadOf(l, b, n) \cup {p}
    BY <1>1, <1>3, <1>4, <1>6, <1>7 DEF ReadOf
  <2>2. IsFiniteSet(ReadOf(l, b, n)) /\ \A x \in ReadOf(l, b, n) : x \in Nat
    <3>1. ReadOf(l, b, n) \subseteq DOMAIN l
      BY DEF ReadOf, All
    <3> QED  BY <1>1, <3>1, LinesOf, FS_Subset
  <2>3. InOrder(ReadOf(l, b, n) \cup {p}) = Append(InOrder(ReadOf(l, b, n)), p)
    BY <1>1, <1>5, <2>2, InOrderAppend
  <2> QED  BY <1>4, <1>7, <2>1, <2>3
<1>8. CASE n + 1 \notin Ends(OldSide(l, b))
  <2>1. \A x \in All(l, b) : lo2l(l, x) # n + 1
    BY <1>2, <1>8
  <2> QED  BY <1>6, <1>8, <2>1 DEF ReadOf
<1>. QED  BY <1>7, <1>8

LEMMA CollectOne ==
  ASSUME h \in Seq(Kinds), invalid \in SUBSET Actions(h),
         NEW n \in Nat, n < Len(OldLines(h)),
         addC = [b \in add1 |-> InOrder(ReadOf(h, b, n))],
         uptC = [b \in upt1 |-> InOrder(ReadOf(h, b, n))],
         Collect(OldLines(h)[n + 1], n + 1)
  PROVE  /\ addC' = [b \in add1 |-> InOrder(ReadOf(h, b, n + 1))]
         /\ uptC' = [b \in upt1 |-> InOrder(ReadOf(h, b, n + 1))]
<1> DEFINE p == OldLines(h)[n + 1]
           Now(b)  == InOrder(ReadOf(h, b, n))
           Next(b) == InOrder(ReadOf(h, b, n + 1))
           u == {b \in upt1 : n + 1 \in Ends(OldSide(h, b))}
           a == {b \in add1 : n + 1 \in Ends(OldSide(h, b))}
<1>1. \A b \in Actions(h) :
        /\ n + 1 \in Ends(OldSide(h, b)) => p \in b /\ Next(b) = Append(Now(b), p)
        /\ n + 1 \notin Ends(OldSide(h, b)) => Next(b) = Now(b)
  BY ReadOne
<1>2. \A b, c \in invalid : n + 1 \in Ends(OldSide(h, b)) /\ n + 1 \in Ends(OldSide(h, c)) => b = c
  BY <1>1, Apart
<1>3. /\ \A b \in add1 : b \in invalid /\ b \in Actions(h) /\ b \notin upt1
      /\ \A b \in upt1 : b \in invalid /\ b \in Actions(h) /\ b \notin add1
  BY DEF add1, upt1, IsUpdate
<1>4. \/ \E b \in u : uptC' = [uptC EXCEPT ![b] = Append(@, p)] /\ addC' = addC
      \/ u = {} /\ \E b \in a : addC' = [addC EXCEPT ![b] = Append(@, p)] /\ uptC' = uptC
      \/ u = {} /\ a = {} /\ addC' = addC /\ uptC' = uptC
  BY DEF Collect
<1>5. /\ DOMAIN uptC = upt1 /\ DOMAIN addC = add1
      /\ \A b \in upt1 : uptC[b] = Now(b)
      /\ \A b \in add1 : addC[b] = Now(b)
      /\ addC = [b \in add1 |-> Now(b)] /\ uptC = [b \in upt1 |-> Now(b)]
  OBVIOUS
<1> HIDE DEF Now, Next, p
<1>6. CASE \E b \in u : uptC' = [uptC EXCEPT ![b] = Append(@, p)] /\ addC' = addC
  <2>1. PICK b \in u : uptC' = [uptC EXCEPT ![b] = Append(@, p)] /\ addC' = addC
    BY <1>6
  <2>2. b \in upt1 /\ n + 1 \in Ends(OldSide(h, b)) /\ Next(b) = Append(Now(b), p)
    BY <1>1, <1>3
  <2>3. \A c \in upt1 \cup add1 : c # b => Next(c) = Now(c)
    BY <1>1, <1>2, <1>3, <2>2
  <2>4. uptC' = [c \in upt1 |-> Next(c)]
    BY <1>5, <2>1, <2>2, <2>3
  <2>5. addC' = [c \in add1 |-> Next(c)]
    BY <1>3, <1>5, <2>1, <2>2, <2>3
  <2> QED  BY <2>4, <2>5 DEF Next
<1>7. CASE u = {} /\ \E b \in a : addC' = [addC EXCEPT ![b] = Append(@, p)] /\ uptC' = uptC
  <2>1. PICK b \in a : addC' = [addC EXCEPT ![b] = Append(@, p)] /\ uptC' = uptC
    BY <1>7
  <2>2. b \in add1 /\ n + 1 \in Ends(OldSide(h, b)) /\ Next(b) = Append(Now(b), p)
    BY <1>1, <1>3
  <2>3. \A c \in upt1 \cup add1 : c # b => Next(c) = Now(c)
    BY <1>1, <1>2, <1>3, <2>2
  <2>4. addC' = [c \in add1 |-> Next(c)]
    BY <1>5, <2>1, <2>2, <2>3
  <2>5. uptC' = [c \in upt1 |-> Next(c)]
    BY <1>3, <1>5, <2>1, <2>2, <2>3
  <2> QED  BY <2>4, <2>5 DEF Next
<1>8. CASE u = {} /\ a = {} /\ addC' = addC /\ uptC' = uptC
  <2>1. \A c \in upt1 \cup add1 : Next(c) = Now(c)
    BY <1>1, <1>3, <1>8
  <2>2. addC' = [c \in add1 |-> Next(c)] /\ uptC' = [c \in upt1 |-> Next(c)]
    BY <1>5, <1>8, <2>1
  <2> QED  BY <2>2 DEF Next
<1>. QED  BY <1>4, <1>6, <1>7, <1>8
-----------------------------------------------------------------------------
(* The inductive invariant: at each line everything read, and everything   *)
(* written, is determined by the listing and the actions to take back.     *)
(* ChangeUnits has further phases, of which it says nothing.               *)
Proper == h \in Listings /\ invalid \in SUBSET Actions(h)
Reading == /\ linenum \in 0 .. Len(OldLines(h))
           /\ addC = [b \in add1 |-> InOrder(ReadOf(h, b, linenum))]
           /\ uptC = [b \in upt1 |-> InOrder(ReadOf(h, b, linenum))]
           /\ out = <<>>
Writing == /\ linenum \in 0 .. Len(NewLines(h))
           /\ addC = [b \in add1 |-> InOrder(All(h, b))]
           /\ uptC = [b \in upt1 |-> InOrder(All(h, b))]
           /\ out = InOrder(UpTo(h, invalid, linenum))
RevertInv == /\ pc = "old" => Reading
             /\ pc \in {"new", "done"} => Writing
             /\ pc = "done" => linenum = Len(NewLines(h))

LEMMA ProperListing ==
  ASSUME Proper
  PROVE  /\ h \in Seq(Kinds) /\ IsListing(h) /\ invalid \in SUBSET Actions(h)
         /\ \A b \in add1 : b \in Actions(h) /\ b \in invalid
         /\ \A b \in upt1 : b \in Actions(h) /\ b \in invalid
  BY ListingsAssumption DEF Proper, Kinds, add1, upt1

LEMMA UnreadIsEmpty ==
  ASSUME NEW l \in Seq(Kinds), NEW b \in Actions(l)
  PROVE  ReadOf(l, b, 0) = {} /\ ReadOf(l, b, Len(OldLines(l))) = All(l, b)
<1>1. \A x \in All(l, b) : x \in DOMAIN l /\ InOld(l, x)
  BY DEF All, RestoredBy, InOld
<1>2. \A x \in All(l, b) : lo2l(l, x) \in 1 .. Len(OldLines(l))
  BY <1>1, OldNumbers
<1>. QED  BY <1>2, OldNumbers DEF ReadOf

LEMMA UnwrittenIsEmpty ==
  ASSUME NEW l \in Seq(Kinds), IsListing(l), NEW bs \in SUBSET Actions(l)
  PROVE  UpTo(l, bs, 0) = {}
<1> SUFFICES ASSUME NEW j \in UpTo(l, bs, 0)  PROVE FALSE
  OBVIOUS
<1>1. j \in DOMAIN l /\ Belongs(l, bs, j) /\ Slot(l, j) = 0
  BY Slots DEF UpTo
<1>2. CASE InNew(l, j)
  BY <1>1, <1>2, NewNumbers, Slots
<1>3. CASE ~InNew(l, j)
  <2>1. PICK b \in bs : RestoredBy(l, b, j)
    BY <1>1, <1>3 DEF Belongs
  <2>2. b \in Actions(l) /\ j \in b /\ l[j] = "+" /\ (IsAdd(l, b) \/ IsUpdate(l, b))
    BY <2>1, RestoredKind
  <2>3. CASE IsAdd(l, b)
    BY <1>1, <2>2, <2>3, Slots
  <2>4. CASE IsUpdate(l, b)
    <3>1. Slot(l, j) = Max(NewSide(l, b)) /\ Max(NewSide(l, b)) \in NewSide(l, b)
      BY <2>2, <2>4, Slots, SideEnds DEF IsUpdate
    <3>2. PICK i \in b : l[i] = "-" /\ lp2l(l, i) = 0
      BY <1>1, <2>2, <3>1, SidesOf
    <3>3. i \in DOMAIN l /\ InNew(l, i)
      BY <2>2, <3>2, SidesOf DEF InNew
    <3> QED  BY <3>2, <3>3, NewNumbers
  <2> QED  BY <2>2, <2>3, <2>4
<1>. QED  BY <1>2, <1>3

LEMMA WriteOne ==
  ASSUME NEW l \in Seq(Kinds), IsListing(l), NEW bs \in SUBSET Actions(l), NEW n \in Nat
  PROVE  InOrder(UpTo(l, bs, n + 1)) = InOrder(UpTo(l, bs, n)) \o InOrder(At(l, bs, n + 1))
<1>1. \A j \in DOMAIN l : Slot(l, j) \in Nat /\ j \in Nat
  BY Slots, LinesOf
<1>2. UpTo(l, bs, n + 1) = UpTo(l, bs, n) \cup At(l, bs, n + 1)
  BY <1>1 DEF UpTo, At
<1>3. /\ IsFiniteSet(UpTo(l, bs, n)) /\ \A x \in UpTo(l, bs, n) : x \in Nat
      /\ IsFiniteSet(At(l, bs, n + 1)) /\ \A x \in At(l, bs, n + 1) : x \in Nat
  <2>1. UpTo(l, bs, n) \subseteq DOMAIN l /\ At(l, bs, n + 1) \subseteq DOMAIN l
    BY DEF UpTo, At
  <2> QED  BY <1>1, <2>1, LinesOf, FS_Subset
<1>4. ASSUME NEW i \in UpTo(l, bs, n), NEW j \in At(l, bs, n + 1)  PROVE i < j
  <2>1. /\ i \in DOMAIN l /\ Belongs(l, bs, i) /\ Slot(l, i) <= n
        /\ j \in DOMAIN l /\ Belongs(l, bs, j) /\ Slot(l, j) = n + 1
    BY DEF UpTo, At
  <2>2. Slot(l, i) < Slot(l, j)
    BY <1>1, <2>1
  <2> QED  BY <2>1, <2>2, SlotOrder
<1>. QED  BY <1>2, <1>3, <1>4, InOrderConcat

LEMMA StartRevert ==
  ASSUME h' = h, Proper', pc' = "old", RevertStart(invalid')
  PROVE  RevertInv'
<1>1. /\ h \in Seq(Kinds) /\ invalid' \in SUBSET Actions(h)
      /\ add1' = {b \in invalid' : IsAdd(h, b)} /\ upt1' = {b \in invalid' : IsUpdate(h, b)}
  BY ListingsAssumption DEF Proper, Kinds, add1, upt1
<1>2. \A b \in add1' \cup upt1' : InOrder(ReadOf(h, b, 0)) = <<>>
  BY <1>1, UnreadIsEmpty, InOrderOne
<1>3. /\ linenum' = 0 /\ out' = <<>>
      /\ addC' = [b \in add1' |-> InOrder(ReadOf(h, b, 0))]
      /\ uptC' = [b \in upt1' |-> InOrder(ReadOf(h, b, 0))]
  BY <1>1, <1>2 DEF RevertStart
<1>4. 0 \in 0 .. Len(OldLines(h))
  BY <1>1, OldNumbers
<1>. QED  BY <1>3, <1>4 DEF RevertInv, Reading

LEMMA StepRevert ==
  ASSUME Proper, RevertInv, RevertStep
  PROVE  Proper' /\ RevertInv' /\ pc' \in {"old", "new", "done"}
<1>1. /\ h \in Seq(Kinds) /\ IsListing(h) /\ invalid \in SUBSET Actions(h)
      /\ Len(NewLines(h)) \in Nat /\ Len(OldLines(h)) \in Nat
  BY ProperListing, NewNumbers, OldNumbers
<1>2. h' = h /\ invalid' = invalid /\ add1' = add1 /\ upt1' = upt1
  BY DEF RevertStep, ReadOld, Rewind, ReadNew, Close, add1, upt1
<1>3. Proper'
  BY <1>2 DEF Proper
<1>4. CASE ReadOld
  <2>1. Reading /\ pc' = "old" /\ linenum \in Nat /\ linenum < Len(OldLines(h))
        /\ linenum' = linenum + 1 /\ out' = out
    BY <1>1, <1>4 DEF ReadOld, RevertInv, Reading
  <2>2. Collect(OldLines(h)[linenum + 1], linenum + 1)
    BY <1>4 DEF ReadOld
  <2>3. /\ addC' = [b \in add1 |-> InOrder(ReadOf(h, b, linenum + 1))]
        /\ uptC' = [b \in upt1 |-> InOrder(ReadOf(h, b, linenum + 1))]
    BY <1>1, <2>1, <2>2, CollectOne DEF Reading
  <2>4. linenum' \in 0 .. Len(OldLines(h))
    BY <1>1, <2>1
  <2> QED  BY <1>2, <1>3, <2>1, <2>3, <2>4 DEF RevertInv, Reading
<1>5. CASE Rewind
  <2>1. Reading /\ pc' = "new" /\ linenum = Len(OldLines(h))
        /\ linenum' = 0 /\ UNCHANGED <<out, addC, uptC>>
    BY <1>5 DEF Rewind, RevertInv
  <2>2. \A b \in add1 \cup upt1 : ReadOf(h, b, linenum) = All(h, b)
    BY <1>1, <2>1, ProperListing, UnreadIsEmpty
  <2>3. /\ addC' = [b \in add1 |-> InOrder(All(h, b))]
        /\ uptC' = [b \in upt1 |-> InOrder(All(h, b))]
    BY <2>1, <2>2 DEF Reading
  <2>4. out' = InOrder(UpTo(h, invalid, 0))
    BY <1>1, <2>1, UnwrittenIsEmpty, InOrderOne DEF Reading
  <2> QED  BY <1>1, <1>2, <1>3, <2>1, <2>3, <2>4 DEF RevertInv, Writing
<1>6. CASE ReadNew
  <2>1. Writing /\ pc' = "new" /\ linenum \in Nat /\ linenum < Len(NewLines(h))
        /\ linenum' = linenum + 1 /\ UNCHANGED <<addC, uptC>>
        /\ out' = out \o Written(NewLines(h)[linenum + 1], linenum + 1)
    BY <1>1, <1>6 DEF ReadNew, RevertInv, Writing
  <2>2. Written(NewLines(h)[linenum + 1], linenum + 1) = InOrder(At(h, invalid, linenum + 1))
    <3>1. linenum + 1 \in 1 .. Len(NewLines(h))
      BY <1>1, <2>1
    <3> QED  BY <1>1, <2>1, <3>1, WrittenAt DEF Writing
  <2>3. out' = InOrder(UpTo(h, invalid, linenum + 1))
    BY <1>1, <2>1, <2>2, WriteOne DEF Writing
  <2>4. linenum' \in 0 .. Len(NewLines(h))
    BY <1>1, <2>1
  <2> QED  BY <1>2, <1>3, <2>1, <2>3, <2>4 DEF RevertInv, Writing
<1>7. CASE Close
  BY <1>2, <1>3, <1>7 DEF Close, RevertInv, Writing
<1>. QED  BY <1>4, <1>5, <1>6, <1>7 DEF RevertStep

LEMMA InitRevert == Init => Proper /\ RevertInv /\ pc \in {"old", "new", "done"}
<1> SUFFICES ASSUME Init  PROVE Proper /\ RevertInv /\ pc \in {"old", "new", "done"}
  OBVIOUS
<1>1. Proper /\ pc = "old"
  BY DEF Init, Proper
<1>2. /\ h \in Seq(Kinds)
      /\ \A b \in add1 \cup upt1 : b \in Actions(h)
  BY <1>1, ProperListing
<1>3. \A b \in add1 \cup upt1 : InOrder(ReadOf(h, b, 0)) = <<>>
  BY <1>2, UnreadIsEmpty, InOrderOne
<1>4. /\ linenum = 0 /\ out = <<>>
      /\ addC = [b \in add1 |-> InOrder(ReadOf(h, b, 0))]
      /\ uptC = [b \in upt1 |-> InOrder(ReadOf(h, b, 0))]
  BY <1>3 DEF Init, RevertIdle
<1>5. 0 \in 0 .. Len(OldLines(h))
  BY <1>2, OldNumbers
<1>. QED  BY <1>1, <1>4, <1>5 DEF RevertInv, Reading

LEMMA RevertInvariance == Spec => [](Proper /\ RevertInv /\ pc \in {"old", "new", "done"})
<1>1. ASSUME Proper, RevertInv, pc \in {"old", "new", "done"}, UNCHANGED vars
      PROVE  Proper' /\ RevertInv' /\ pc' \in {"old", "new", "done"}
  BY <1>1 DEF vars, Proper, RevertInv, Reading, Writing, add1, upt1
<1>2. Proper /\ RevertInv /\ pc \in {"old", "new", "done"} /\ [RevertStep]_vars
        => (Proper /\ RevertInv /\ pc \in {"old", "new", "done"})'
  BY <1>1, StepRevert
<1>. QED  BY <1>2, InitRevert, PTL DEF Spec

(* In every phase what is written is in order and what has been collected  *)
(* consists of lines of the listing.                                       *)
LEMMA WrittenIsInOrder ==
  ASSUME Proper, RevertInv, pc \in {"old", "new", "done"}
  PROVE  /\ out \in Seq(DOMAIN h) /\ Increasing(out)
         /\ Range(out) = IF pc = "old" THEN {} ELSE UpTo(h, invalid, linenum)
<1>1. h \in Seq(Kinds) /\ IsFiniteSet(DOMAIN h) /\ \A x \in DOMAIN h : x \in Nat
  BY ProperListing, LinesOf
<1>2. CASE pc = "old"
  BY <1>2 DEF RevertInv, Reading, Increasing, Range
<1>3. CASE pc # "old"
  <2> DEFINE S == UpTo(h, invalid, linenum)
  <2>1. out = InOrder(S)
    BY <1>3 DEF RevertInv, Writing
  <2>2. S \subseteq DOMAIN h
    BY DEF UpTo
  <2> HIDE DEF S
  <2>3. IsFiniteSet(S) /\ \A x \in S : x \in Nat
    BY <1>1, <2>2, FS_Subset
  <2>4. InOrder(S) \in Seq(S) /\ Range(InOrder(S)) = S /\ Increasing(InOrder(S))
    BY <2>3, InOrderOf
  <2>5. InOrder(S) \in Seq(DOMAIN h)
    BY <2>2, <2>4, SeqMonotonic
  <2> QED  BY <1>3, <2>1, <2>4, <2>5 DEF S
<1>. QED  BY <1>2, <1>3

LEMMA CollectedIsInOrder ==
  ASSUME Proper, RevertInv, pc \in {"old", "new", "done"}
  PROVE  addC \in [add1 -> Seq(DOMAIN h)] /\ uptC \in [upt1 -> Seq(DOMAIN h)]
<1>1. h \in Seq(Kinds) /\ IsFiniteSet(DOMAIN h) /\ \A x \in DOMAIN h : x \in Nat
  BY ProperListing, LinesOf
<1>2. ASSUME NEW S, S \subseteq DOMAIN h  PROVE InOrder(S) \in Seq(DOMAIN h)
  <2>1. IsFiniteSet(S) /\ \A x \in S : x \in Nat
    BY <1>1, <1>2, FS_Subset
  <2> QED  BY <1>2, <2>1, InOrderOf, SeqMonotonic
<1>3. \A b, n : ReadOf(h, b, n) \subseteq DOMAIN h /\ All(h, b) \subseteq DOMAIN h
  BY DEF ReadOf, All
<1>4. \A b, n : InOrder(ReadOf(h, b, n)) \in Seq(DOMAIN h) /\ InOrder(All(h, b)) \in Seq(DOMAIN h)
  BY <1>2, <1>3
<1>5. CASE pc = "old"
  BY <1>4, <1>5 DEF RevertInv, Reading
<1>6. CASE pc # "old"
  BY <1>4, <1>6 DEF RevertInv, Writing
<1>. QED  BY <1>5, <1>6

(* Every variable has its type, the line counter of the pass it counts in. *)
THEOREM RevertTypes == Spec => []TypeOK
<1>1. Proper /\ RevertInv /\ pc \in {"old", "new", "done"} => TypeOK
  <2> SUFFICES ASSUME Proper, RevertInv, pc \in {"old", "new", "done"}  PROVE TypeOK
    OBVIOUS
  <2>1. linenum \in 0 .. Len(IF pc = "old" THEN OldLines(h) ELSE NewLines(h))
    BY DEF RevertInv, Reading, Writing
  <2> QED  BY <2>1, WrittenIsInOrder, CollectedIsInOrder DEF TypeOK, Proper
<1>. QED  BY <1>1, RevertInvariance, PTL

(* revert never reorders or repeats a line, whatever it takes back.        *)
THEOREM NeverReordered == Spec => []Ordered
<1>1. Proper /\ RevertInv /\ pc \in {"old", "new", "done"} => Ordered
  <2> SUFFICES ASSUME Proper, RevertInv, pc \in {"old", "new", "done"},
                      NEW i \in 1 .. Len(out) - 1
               PROVE  out[i] < out[i + 1]
    BY DEF Ordered
  <2>1. i \in 1 .. Len(out) /\ i + 1 \in 1 .. Len(out) /\ i < i + 1
    BY WrittenIsInOrder
  <2> QED  BY <2>1, WrittenIsInOrder DEF Increasing
<1>. QED  BY <1>1, RevertInvariance, PTL

(* Lines outside the invalid actions stay and nothing else does.           *)
LEMMA RestIsKept ==
  ASSUME Proper, RevertInv, pc \in {"new", "done"}
  PROVE  Range(out) \ UNION invalid = {NewLines(h)[n] : n \in 1 .. linenum} \ UNION invalid
<1>1. /\ h \in Seq(Kinds) /\ IsListing(h) /\ invalid \in SUBSET Actions(h)
      /\ Len(NewLines(h)) \in Nat /\ linenum \in 0 .. Len(NewLines(h))
  BY ProperListing, NewNumbers DEF RevertInv, Writing
<1>2. Range(out) = UpTo(h, invalid, linenum)
  BY WrittenIsInOrder
<1>3. \A j : j \in {NewLines(h)[n] : n \in 1 .. linenum}
               <=> j \in DOMAIN h /\ InNew(h, j) /\ lp2l(h, j) <= linenum
  <2>1. ASSUME NEW n \in 1 .. linenum
        PROVE  /\ NewLines(h)[n] \in DOMAIN h /\ InNew(h, NewLines(h)[n])
               /\ lp2l(h, NewLines(h)[n]) <= linenum
    <3>1. n \in 1 .. Len(NewLines(h)) /\ n <= linenum
      BY <1>1
    <3> QED  BY <1>1, <3>1, NewNumbers
  <2>2. ASSUME NEW j \in DOMAIN h, InNew(h, j), lp2l(h, j) <= linenum
        PROVE  lp2l(h, j) \in 1 .. linenum /\ NewLines(h)[lp2l(h, j)] = j
    BY <1>1, <2>2, NewNumbers
  <2> QED  BY <2>1, <2>2
<1>4. ASSUME NEW j \in DOMAIN h, j \notin UNION invalid
      PROVE  Belongs(h, invalid, j) /\ Slot(h, j) <= linenum
               <=> InNew(h, j) /\ lp2l(h, j) <= linenum
  <2>1. Belongs(h, invalid, j) <=> InNew(h, j)
    BY <1>4 DEF Belongs, RestoredBy, DroppedBy
  <2> QED  BY <1>1, <2>1, Slots
<1>. QED  BY <1>2, <1>3, <1>4 DEF UpTo

(* One invalid action leaves the lines around it alone.                    *)
THEOREM SurroundingsKept == Spec => []KeepsTheRest
<1>1. Proper /\ RevertInv /\ pc \in {"old", "new", "done"} => KeepsTheRest
  BY RestIsKept DEF KeepsTheRest
<1>. QED  BY <1>1, RevertInvariance, PTL

(* Of a short hunk the ends of the two sides are all the lines.            *)
LEMMA ShortIsAllEnds ==
  ASSUME h \in Seq(Kinds), IsListing(h), NEW b \in Actions(h), Short(b), NEW j \in b
  PROVE  /\ h[j] = "-" => DroppedBy(h, b, j)
         /\ h[j] = "+" => RestoredBy(h, b, j) /\ Slot(h, j) <= Len(NewLines(h))
<1>1. Len(NewLines(h)) \in Nat /\ Len(OldLines(h)) \in Nat
  BY NewNumbers, OldNumbers
<1>2. /\ \A n \in NewSide(h, b) : n \in Nat /\ n <= Len(NewLines(h))
      /\ \A n \in OldSide(h, b) : n \in Nat /\ n <= Len(OldLines(h))
  BY SidesOf
<1>3. IsFiniteSet(NewSide(h, b)) /\ IsFiniteSet(OldSide(h, b))
  <2>1. NewSide(h, b) \subseteq Nat /\ OldSide(h, b) \subseteq Nat
    BY <1>2
  <2> QED  BY <1>1, <1>2, <2>1, FS_BoundedSetOfNaturals
<1>4. /\ \A n \in NewSide(h, b) : n \in Ends(NewSide(h, b))
      /\ \A n \in OldSide(h, b) : n \in Ends(OldSide(h, b))
  BY <1>1, <1>2, <1>3, EndsOf DEF Short
<1>5. h[j] = "-" => DroppedBy(h, b, j)
  BY <1>4, SidesOf DEF DroppedBy
<1>6. h[j] = "+" => RestoredBy(h, b, j)
  BY <1>4, SidesOf DEF RestoredBy
<1>7. ASSUME h[j] = "+"  PROVE Slot(h, j) <= Len(NewLines(h))
  <2>1. CASE IsAdd(h, b)
    BY <1>1, <2>1, Slots, AddKeyType DEF Short
  <2>2. CASE IsUpdate(h, b)
    <3>1. Slot(h, j) = Max(NewSide(h, b)) /\ Max(NewSide(h, b)) \in NewSide(h, b)
      BY <1>7, <2>2, Slots, SideEnds DEF IsUpdate
    <3> QED  BY <1>2, <3>1
  <2> QED  BY <1>6, <1>7, <2>1, <2>2, RestoredKind
<1>. QED  BY <1>5, <1>6, <1>7

(* What is in the generated function when revert is done.                  *)
LEMMA Generated ==
  ASSUME Proper, RevertInv, pc = "done"
  PROVE  /\ out = InOrder(UpTo(h, invalid, Len(NewLines(h))))
         /\ \A j : j \in Range(out) <=> /\ j \in DOMAIN h /\ Belongs(h, invalid, j)
                                        /\ Slot(h, j) <= Len(NewLines(h))
<1>1. out = InOrder(UpTo(h, invalid, Len(NewLines(h))))
  BY DEF RevertInv, Writing
<1>2. Range(out) = UpTo(h, invalid, Len(NewLines(h)))
  BY WrittenIsInOrder DEF RevertInv
<1>. QED  BY <1>1, <1>2 DEF UpTo

(* Hunks of at most two lines a side are taken back exactly.               *)
LEMMA ShortIsExact ==
  ASSUME Proper, RevertInv, pc = "done", \A b \in invalid : Short(b)
  PROVE  out = Kept
<1>1. h \in Seq(Kinds) /\ IsListing(h) /\ \A b \in invalid : b \in Actions(h)
  BY ProperListing
<1>2. \A j \in DOMAIN h : h[j] \in Kinds /\ (InNew(h, j) => Slot(h, j) <= Len(NewLines(h)))
  BY <1>1, LinesOf, NewNumbers, Slots
<1>3. \A b \in invalid : \A j \in b :
        /\ j \in DOMAIN h
        /\ h[j] = "-" => DroppedBy(h, b, j)
        /\ h[j] = "+" => RestoredBy(h, b, j) /\ Slot(h, j) <= Len(NewLines(h))
  BY <1>1, SidesOf, ShortIsAllEnds
<1>4. ASSUME NEW j \in DOMAIN h
      PROVE  Belongs(h, invalid, j) /\ Slot(h, j) <= Len(NewLines(h)) <=> Keep(h, j)
  <2>1. CASE h[j] = "="
    BY <1>2, <2>1 DEF Belongs, Keep, InNew, DroppedBy
  <2>2. CASE h[j] = "-"
    <3>1. Belongs(h, invalid, j) <=> ~TakenBack(j)
      BY <1>3, <2>2 DEF Belongs, InNew, TakenBack, DroppedBy, RestoredBy
    <3> QED  BY <1>2, <2>2, <3>1 DEF Keep, InNew
  <2>3. CASE h[j] = "+"
    <3>1. Belongs(h, invalid, j) <=> TakenBack(j)
      BY <1>3, <2>3 DEF Belongs, InNew, TakenBack, RestoredBy
    <3>2. TakenBack(j) => Slot(h, j) <= Len(NewLines(h))
      BY <1>3, <2>3 DEF TakenBack
    <3> QED  BY <2>3, <3>1, <3>2 DEF Keep
  <2> QED  BY <1>2, <2>1, <2>2, <2>3 DEF Kinds
<1>5. UpTo(h, invalid, Len(NewLines(h))) = {j \in DOMAIN h : Keep(h, j)}
  BY <1>4 DEF UpTo
<1>. QED  BY <1>5, Generated DEF Kept

THEOREM ShortHunksTakenBack == Spec => []ShortHunksExact
<1>1. Proper /\ RevertInv /\ pc \in {"old", "new", "done"} => ShortHunksExact
  BY ShortIsExact DEF ShortHunksExact
<1>. QED  BY <1>1, RevertInvariance, PTL

(* The lines revert writes when it has finished, of whatever length the     *)
(* hunks are (the interior of a long hunk stays, gen.py:45 and :67, as only *)
(* the ends of a range are compared): those that belong to the reverted     *)
(* function and whose place is reached before the new function ends, each   *)
(* once and in the order of the listing.                                    *)
THEOREM RevertResult ==
  Spec => [](pc = "done" => out = InOrder(UpTo(h, invalid, Len(NewLines(h)))))
<1>1. Proper /\ RevertInv /\ pc \in {"old", "new", "done"}
        => (pc = "done" => out = InOrder(UpTo(h, invalid, Len(NewLines(h)))))
  BY Generated
<1>. QED  BY <1>1, RevertInvariance, PTL
=============================================================================
