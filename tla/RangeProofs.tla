---------------------------- MODULE RangeProofs -----------------------------
(***************************************************************************)
(* Proofs about RangeSets, over any finite interval of numbers, for ranges of *)
(* any weights, however often they are added, united and compared.         *)
(***************************************************************************)
EXTENDS RangeSets, FiniteSetTheorems, WellFoundedInduction, TLAPS

(* What a range is, and a set of disjoint ones                             *)
Rng == {x \in [lo : RsPoints, hi : RsPoints, w : Nat \ {0}] : x.lo <= x.hi}
Apart(S) == \A x, y \in S : x # y => ~RsMeets(x, y)
Within(x, t) == t.lo <= x.lo /\ x.hi <= t.hi
Span(r) == r.lo \in Int /\ r.hi \in Int /\ r.lo <= r.hi

(* The cells of one range                                                  *)
CellsOf(x) == {x} \X ((x.lo .. x.hi) \X (1 .. x.w))
CellsAt(S, p) == {c \in RsCells(S) : c[2][1] = p}

LEMMA RngFields ==
  ASSUME NEW x \in Rng
  PROVE  /\ x.lo \in Int /\ x.hi \in Int /\ x.w \in Nat /\ x.w > 0 /\ x.lo <= x.hi
         /\ x = [lo |-> x.lo, hi |-> x.hi, w |-> x.w]
<1>1. x \in [lo : RsPoints, hi : RsPoints, w : Nat \ {0}] /\ x.lo <= x.hi
  BY DEF Rng
<1>2. x.lo \in RsPoints /\ x.hi \in RsPoints /\ x.w \in Nat \ {0}
  BY <1>1
<1>3. x.lo \in Int /\ x.hi \in Int
  BY <1>2, RsPointsAssumption
<1>4. x = [lo |-> x.lo, hi |-> x.hi, w |-> x.w]
  BY <1>1
<1>. QED  BY <1>1, <1>2, <1>3, <1>4

LEMMA RngSpan == \A x \in Rng : Span(x)
BY RngFields DEF Span

LEMMA CellsIn ==
  ASSUME NEW S, NEW c
  PROVE  c \in RsCells(S) <=> \E x \in S : c \in CellsOf(x)
BY DEF RsCells, CellsOf

LEMMA CellIn ==
  ASSUME NEW x, NEW c
  PROVE  c \in CellsOf(x) <=> \E p \in x.lo .. x.hi, i \in 1 .. x.w : c = <<x, <<p, i>>>>
BY DEF CellsOf

LEMMA Numbers ==
  ASSUME NEW n \in Nat
  PROVE  IsFiniteSet(1 .. n) /\ Cardinality(1 .. n) = n
<1>1. IsFiniteSet(1 .. n) /\ Cardinality(1 .. n) = IF 1 > n THEN 0 ELSE n - 1 + 1
  BY FS_Interval
<1>. QED  BY <1>1

LEMMA Column ==
  ASSUME NEW x, NEW S, IsFiniteSet(S)
  PROVE  IsFiniteSet({x} \X S) /\ Cardinality({x} \X S) = Cardinality(S)
<1>1. IsFiniteSet({x}) /\ Cardinality({x}) = 1
  BY FS_Singleton
<1>2. IsFiniteSet({x} \X S) /\ Cardinality({x} \X S) = Cardinality({x}) * Cardinality(S)
  BY <1>1, FS_Product
<1>3. Cardinality(S) \in Nat
  BY FS_CardinalityType
<1>. QED  BY <1>1, <1>2, <1>3

LEMMA Rectangle ==
  ASSUME NEW a \in Int, NEW b \in Int, a <= b, NEW n \in Nat
  PROVE  /\ IsFiniteSet((a .. b) \X (1 .. n))
         /\ Cardinality((a .. b) \X (1 .. n)) = (b - a + 1) * n
<1>1. IsFiniteSet(a .. b) /\ Cardinality(a .. b) = b - a + 1
  BY FS_Interval
<1> DEFINE A == a .. b
           N == 1 .. n
<1>2. IsFiniteSet(A) /\ IsFiniteSet(N)
  BY <1>1, Numbers
<1>3. IsFiniteSet(A \X N) /\ Cardinality(A \X N) = Cardinality(A) * Cardinality(N)
  <2> HIDE DEF A, N
  <2> QED  BY <1>2, FS_Product
<1>4. Cardinality(A) = b - a + 1 /\ Cardinality(N) = n
  BY <1>1, Numbers
<1> HIDE DEF A, N
<1>. QED  BY <1>3, <1>4 DEF A, N

LEMMA CellsOfFinite ==
  ASSUME NEW x \in Rng
  PROVE  /\ IsFiniteSet(CellsOf(x))
         /\ Cardinality(CellsOf(x)) = (x.hi - x.lo + 1) * x.w
<1>1. x.lo \in Int /\ x.hi \in Int /\ x.w \in Nat /\ x.lo <= x.hi
  BY RngFields
<1> DEFINE R == (x.lo .. x.hi) \X (1 .. x.w)
<1>2. IsFiniteSet(R) /\ Cardinality(R) = (x.hi - x.lo + 1) * x.w
  BY <1>1, Rectangle
<1> HIDE DEF R
<1>3. IsFiniteSet({x} \X R) /\ Cardinality({x} \X R) = Cardinality(R)
  BY <1>2, Column
<1> QED  BY <1>2, <1>3 DEF CellsOf, R

LEMMA CellsFinite ==
  ASSUME NEW S, IsFiniteSet(S), \A x \in S : x \in Rng
  PROVE  IsFiniteSet(RsCells(S))
<1> DEFINE T == {CellsOf(x) : x \in S}
           f == [x \in S |-> CellsOf(x)]
<1>1. f \in Surjection(S, T)
  BY DEF Surjection
<1>2. IsFiniteSet(T)
  BY <1>1, FS_Surjection
<1>3. \A C \in T : IsFiniteSet(C)
  BY CellsOfFinite
<1>4. IsFiniteSet(UNION T)
  <2> HIDE DEF T
  <2> QED  BY <1>2, <1>3, FS_UNION
<1>. QED  BY <1>4 DEF RsCells, CellsOf

(* The weight of a set of ranges at a number, one range at a time           *)
LEMMA AtFinite ==
  ASSUME NEW S, IsFiniteSet(S), \A x \in S : x \in Rng, NEW p
  PROVE  IsFiniteSet(CellsAt(S, p)) /\ RsAt(S, p) \in Nat
<1>1. CellsAt(S, p) \in SUBSET RsCells(S)
  BY DEF CellsAt
<1>2. IsFiniteSet(CellsAt(S, p))
  BY <1>1, CellsFinite, FS_Subset
<1>. QED  BY <1>2, FS_CardinalityType DEF RsAt, CellsAt

LEMMA CellAt ==
  ASSUME NEW S, NEW p, NEW c
  PROVE  c \in CellsAt(S, p) <=>
           \E x \in S : p \in x.lo .. x.hi /\ \E i \in 1 .. x.w : c = <<x, <<p, i>>>>
<1>1. c \in CellsAt(S, p) <=> c[2][1] = p /\ \E x \in S : c \in CellsOf(x)
  BY CellsIn DEF CellsAt
<1>2. ASSUME c \in CellsAt(S, p)
      PROVE  \E x \in S : p \in x.lo .. x.hi /\ \E i \in 1 .. x.w : c = <<x, <<p, i>>>>
  <2>1. PICK x \in S : c \in CellsOf(x)
    BY <1>1, <1>2
  <2>2. PICK q \in x.lo .. x.hi, i \in 1 .. x.w : c = <<x, <<q, i>>>>
    BY <2>1, CellIn
  <2>3. q = p
    BY <1>1, <1>2, <2>2
  <2>. QED  BY <2>2, <2>3
<1>3. ASSUME NEW x \in S, p \in x.lo .. x.hi, NEW i \in 1 .. x.w, c = <<x, <<p, i>>>>
      PROVE  c \in CellsAt(S, p)
  <2>1. c \in CellsOf(x)
    BY <1>3, CellIn
  <2>2. c[2][1] = p
    BY <1>3
  <2>. QED  BY <1>1, <2>1, <2>2
<1>. QED  BY <1>2, <1>3

LEMMA AtNone ==
  ASSUME NEW S, NEW p \in Int, \A x \in S : x \in Rng, \A x \in S : ~RsCovers(x, p)
  PROVE  RsAt(S, p) = 0
<1>1. \A x \in S : p \notin x.lo .. x.hi
  BY RngFields DEF RsCovers
<1>2. CellsAt(S, p) = {}
  BY <1>1, CellAt
<1>. QED  BY <1>2, FS_EmptySet DEF RsAt, CellsAt

LEMMA AtOf ==
  ASSUME NEW x \in Rng, NEW p \in Int, RsCovers(x, p)
  PROVE  /\ IsFiniteSet({x} \X ({p} \X (1 .. x.w)))
         /\ Cardinality({x} \X ({p} \X (1 .. x.w))) = x.w
<1>1. x.w \in Nat
  BY RngFields
<1>2. IsFiniteSet({p} \X (1 .. x.w)) /\ Cardinality({p} \X (1 .. x.w)) = x.w
  BY <1>1, Numbers, Column
<1>. QED  BY <1>2, Column

LEMMA AtAdd ==
  ASSUME NEW S, IsFiniteSet(S), \A y \in S : y \in Rng, NEW x \in Rng, x \notin S, NEW p \in Int
  PROVE  RsAt(S \cup {x}, p) = RsAt(S, p) + (IF RsCovers(x, p) THEN x.w ELSE 0)
<1>0. x.w \in Nat /\ RsAt(S, p) \in Nat /\ (p \in x.lo .. x.hi <=> RsCovers(x, p))
  BY RngFields, AtFinite DEF RsCovers
<1>1. CASE ~RsCovers(x, p)
  <2>1. CellsAt(S \cup {x}, p) = CellsAt(S, p)
    BY <1>0, <1>1, CellAt
  <2>2. RsAt(S \cup {x}, p) = RsAt(S, p)
    BY <2>1 DEF RsAt, CellsAt
  <2>. QED  BY <1>0, <1>1, <2>2
<1>2. CASE RsCovers(x, p)
  <2> DEFINE N == {x} \X ({p} \X (1 .. x.w))
  <2>1. \A c : c \in N <=> \E i \in 1 .. x.w : c = <<x, <<p, i>>>>
    OBVIOUS
  <2>2. IsFiniteSet(N) /\ Cardinality(N) = x.w
    BY <1>2, AtOf
  <2> HIDE DEF N
  <2>3. CellsAt(S \cup {x}, p) = CellsAt(S, p) \cup N
    BY <1>0, <1>2, <2>1, CellAt
  <2>4. CellsAt(S, p) \cap N = {}
    BY <2>1, CellAt
  <2>5. /\ IsFiniteSet(CellsAt(S, p))
        /\ Cardinality(CellsAt(S, p)) \in Nat
    BY AtFinite, FS_CardinalityType
  <2>6. Cardinality(CellsAt(S, p) \cup N)
          = Cardinality(CellsAt(S, p)) + Cardinality(N) - Cardinality({})
    BY <2>2, <2>4, <2>5, FS_Union
  <2>7. /\ RsAt(S \cup {x}, p) = Cardinality(CellsAt(S, p) \cup N)
        /\ RsAt(S, p) = Cardinality(CellsAt(S, p))
    BY <2>3 DEF RsAt, CellsAt
  <2>. QED  BY <1>0, <1>2, <2>2, <2>5, <2>6, <2>7, FS_EmptySet
<1>. QED  BY <1>1, <1>2

LEMMA AtOne ==
  ASSUME NEW S, \A y \in S : y \in Rng, NEW x \in S, NEW p \in Int, RsCovers(x, p),
         \A y \in S : RsCovers(y, p) => y = x
  PROVE  RsAt(S, p) = x.w
<1>1. \A y \in S : p \in y.lo .. y.hi <=> RsCovers(y, p)
  BY RngFields DEF RsCovers
<1> DEFINE N == {x} \X ({p} \X (1 .. x.w))
<1>2. \A c : c \in N <=> \E i \in 1 .. x.w : c = <<x, <<p, i>>>>
  OBVIOUS
<1>3. Cardinality(N) = x.w
  BY AtOf
<1> HIDE DEF N
<1>4. CellsAt(S, p) = N
  BY <1>1, <1>2, CellAt
<1>. QED  BY <1>3, <1>4 DEF RsAt, CellsAt

(* What lies between the ends of a range is made of numbers of RsPoints     *)
LEMMA RngPart ==
  ASSUME NEW x \in Rng, NEW lo \in Int, NEW hi \in Int, x.lo <= lo, lo <= hi, hi <= x.hi,
         NEW w \in Nat, w > 0
  PROVE  [lo |-> lo, hi |-> hi, w |-> w] \in Rng
<1>1. x.lo \in RsPoints /\ x.hi \in RsPoints /\ x.lo \in Int /\ x.hi \in Int
  BY RngFields DEF Rng
<1>2. x.lo .. x.hi \subseteq RsPoints
  BY <1>1, RsPointsAssumption
<1>3. lo \in x.lo .. x.hi /\ hi \in x.lo .. x.hi
  BY <1>1
<1>. QED  BY <1>2, <1>3 DEF Rng

LEMMA CoveredPoint ==
  ASSUME NEW x \in Rng, NEW p \in Int, RsCovers(x, p)
  PROVE  p \in RsPoints
<1>1. x.lo \in RsPoints /\ x.hi \in RsPoints /\ x.lo \in Int /\ x.hi \in Int
  BY RngFields DEF Rng
<1>2. x.lo .. x.hi \subseteq RsPoints
  BY <1>1, RsPointsAssumption
<1>. QED  BY <1>1, <1>2 DEF RsCovers

(* Of disjoint ranges one is over a number, or none                         *)
LEMMA OneCovers ==
  ASSUME NEW S, \A x \in S : x \in Rng, Apart(S), NEW x \in S, NEW y \in S,
         NEW p \in Int, RsCovers(x, p), RsCovers(y, p)
  PROVE  x = y
BY RngFields DEF Apart, RsMeets, RsCovers

LEMMA AtApart ==
  ASSUME NEW S, \A x \in S : x \in Rng, Apart(S), NEW x \in S, NEW p \in Int, RsCovers(x, p)
  PROVE  RsAt(S, p) = x.w
BY OneCovers, AtOne

LEMMA AtApartNat ==
  ASSUME NEW S, \A x \in S : x \in Rng, Apart(S), NEW p \in Int
  PROVE  RsAt(S, p) \in Nat
BY AtApart, AtNone, RngFields

LEMMA AtSame ==
  ASSUME NEW S, NEW T, \A x \in S : x \in Rng, \A x \in T : x \in Rng, Apart(S), Apart(T),
         NEW p \in Int,
         \A x \in S : RsCovers(x, p) => \E y \in T : RsCovers(y, p) /\ y.w = x.w,
         \A y \in T : RsCovers(y, p) => \E x \in S : RsCovers(x, p)
  PROVE  RsAt(S, p) = RsAt(T, p)
<1>1. CASE \E x \in S : RsCovers(x, p)
  BY <1>1, AtApart
<1>2. CASE ~ \E x \in S : RsCovers(x, p)
  BY <1>2, AtNone
<1>. QED  BY <1>1, <1>2

(* What __decompose_range2 makes of t at r: the piece inside of r and what  *)
(* is beside it divide t                                                    *)
LEMMA BesideOf ==
  ASSUME NEW t \in Rng, NEW r, Span(r), NEW x
  PROVE  x \in RsBeside(t, r) <=>
           \/ t.lo <= r.lo - 1 /\ x = [lo |-> t.lo, hi |-> r.lo - 1, w |-> t.w]
           \/ r.hi + 1 <= t.hi /\ x = [lo |-> r.hi + 1, hi |-> t.hi, w |-> t.w]
<1>1. /\ [t EXCEPT !.hi = r.lo - 1] = [lo |-> t.lo, hi |-> r.lo - 1, w |-> t.w]
      /\ [t EXCEPT !.lo = r.hi + 1] = [lo |-> r.hi + 1, hi |-> t.hi, w |-> t.w]
  BY RngFields DEF Rng
<1>. QED  BY <1>1 DEF RsBeside, Span

LEMMA InsideOf ==
  ASSUME NEW t \in Rng, NEW r
  PROVE  RsInside(t, r) = [lo |-> RsLarger(t.lo, r.lo), hi |-> RsSmaller(t.hi, r.hi), w |-> t.w]
BY DEF RsInside, RsCommon

LEMMA PartsOf ==
  ASSUME NEW t \in Rng, NEW r, Span(r), RsMeets(r, t)
  PROVE  LET P == {RsInside(t, r)} \cup RsBeside(t, r)
         IN /\ \A x \in P : x \in Rng /\ Within(x, t) /\ x.w = t.w
            /\ Apart(P)
            /\ RsInside(t, r) \notin RsBeside(t, r)
            /\ Within(RsInside(t, r), r)
            /\ \A p \in Int : RsCovers(t, p) => \E x \in P : RsCovers(x, p)
<1> DEFINE i == [lo |-> RsLarger(t.lo, r.lo), hi |-> RsSmaller(t.hi, r.hi), w |-> t.w]
           a == [lo |-> t.lo, hi |-> r.lo - 1, w |-> t.w]
           b == [lo |-> r.hi + 1, hi |-> t.hi, w |-> t.w]
           P == {RsInside(t, r)} \cup RsBeside(t, r)
<1>1. /\ t.lo \in Int /\ t.hi \in Int /\ t.w \in Nat /\ t.w > 0 /\ t.lo <= t.hi
      /\ r.lo \in Int /\ r.hi \in Int /\ r.lo <= r.hi
      /\ t.lo <= r.hi /\ r.lo <= t.hi
  BY RngFields DEF RsMeets, Span
<1>2. \A x : x \in P <=> x = i \/ (t.lo <= r.lo - 1 /\ x = a) \/ (r.hi + 1 <= t.hi /\ x = b)
  BY BesideOf, InsideOf
<1>3. i.lo \in Int /\ i.hi \in Int /\ t.lo <= i.lo /\ i.lo <= i.hi /\ i.hi <= t.hi
  BY <1>1 DEF RsLarger, RsSmaller
<1>4. i \in Rng
  <2>1. i = [lo |-> i.lo, hi |-> i.hi, w |-> t.w]
    OBVIOUS
  <2> HIDE DEF i
  <2>. QED  BY <1>1, <1>3, <2>1, RngPart
<1>5. t.lo <= r.lo - 1 => a \in Rng
  BY <1>1, RngPart
<1>6. r.hi + 1 <= t.hi => b \in Rng
  BY <1>1, RngPart
<1>7. RsInside(t, r) = i
  BY InsideOf
<1>8. \A x \in P : x \in Rng /\ Within(x, t) /\ x.w = t.w
  BY <1>1, <1>2, <1>3, <1>4, <1>5, <1>6 DEF Within
<1>9. Apart(P)
  BY <1>1, <1>2 DEF Apart, RsMeets, RsLarger, RsSmaller
<1>10. RsInside(t, r) \notin RsBeside(t, r)
  BY <1>1, <1>7, BesideOf DEF RsLarger, RsSmaller
<1>11. Within(RsInside(t, r), r)
  BY <1>1, <1>7 DEF Within, RsLarger, RsSmaller
<1>12. ASSUME NEW p \in Int, RsCovers(t, p)  PROVE \E x \in P : RsCovers(x, p)
  <2>0. t.lo <= p /\ p <= t.hi
    BY <1>12 DEF RsCovers
  <2>1. CASE p < r.lo
    <3>1. a \in P /\ a.lo = t.lo /\ a.hi = r.lo - 1
      BY <1>1, <1>2, <2>0, <2>1
    <3>. QED  BY <1>1, <2>0, <2>1, <3>1 DEF RsCovers
  <2>2. CASE p > r.hi
    <3>1. b \in P /\ b.lo = r.hi + 1 /\ b.hi = t.hi
      BY <1>1, <1>2, <2>0, <2>2
    <3>. QED  BY <1>1, <2>0, <2>2, <3>1 DEF RsCovers
  <2>3. CASE r.lo <= p /\ p <= r.hi
    <3>1. i \in P /\ i.lo <= p /\ p <= i.hi
      BY <1>1, <1>2, <2>0, <2>3 DEF RsLarger, RsSmaller
    <3> HIDE DEF P, i
    <3>. QED  BY <3>1 DEF RsCovers
  <2>. QED  BY <1>1, <2>1, <2>2, <2>3
<1> HIDE DEF P
<1>. QED  BY <1>8, <1>9, <1>10, <1>11, <1>12 DEF P

(* One range of a set replaced by parts of it                               *)
LEMMA Replaced ==
  ASSUME NEW S, \A x \in S : x \in Rng, Apart(S), NEW t \in S,
         NEW P, \A x \in P : x \in Rng /\ Within(x, t), Apart(P)
  PROVE  LET T == (S \ {t}) \cup P
         IN /\ \A x \in T : x \in Rng
            /\ Apart(T)
            /\ \A p \in Int : /\ RsCovers(t, p) => RsAt(T, p) = RsAt(P, p)
                              /\ ~RsCovers(t, p) => RsAt(T, p) = RsAt(S, p)
<1> DEFINE T == (S \ {t}) \cup P
<1>1. \A x \in T : x \in Rng
  OBVIOUS
<1>2. \A x \in P, y \in S \ {t} : ~RsMeets(x, y) /\ ~RsMeets(y, x)
  BY RngFields DEF Apart, RsMeets, Within
<1>3. Apart(T)
  <2>1. \A x, y \in S \ {t} : x # y => ~RsMeets(x, y)
    BY DEF Apart
  <2>. QED  BY <1>2, <2>1 DEF Apart
<1>4. ASSUME NEW p \in Int, RsCovers(t, p)  PROVE RsAt(T, p) = RsAt(P, p)
  <2>1. \A x \in S \ {t} : ~RsCovers(x, p)
    BY <1>4, OneCovers
  <2>. QED  BY <1>1, <1>3, <2>1, AtSame
<1>5. ASSUME NEW p \in Int, ~RsCovers(t, p)  PROVE RsAt(T, p) = RsAt(S, p)
  <2>1. \A x \in P : ~RsCovers(x, p)
    BY <1>5, RngFields DEF RsCovers, Within
  <2>. QED  BY <1>1, <1>3, <1>5, <2>1, AtSame
<1>. QED  BY <1>1, <1>3, <1>4, <1>5

LEMMA Excepts ==
  ASSUME NEW x \in Rng, NEW a
  PROVE  /\ [x EXCEPT !.lo = a] = [lo |-> a, hi |-> x.hi, w |-> x.w]
         /\ [x EXCEPT !.hi = a] = [lo |-> x.lo, hi |-> a, w |-> x.w]
         /\ [x EXCEPT !.w = a] = [lo |-> x.lo, hi |-> x.hi, w |-> a]
BY DEF Rng

LEMMA ApplyType ==
  ASSUME NEW op \in {"add", "max"}, NEW a \in Nat, NEW b \in Nat
  PROVE  /\ RsApply(op, a, b) \in Nat
         /\ a > 0 => RsApply(op, a, b) > 0
BY DEF RsApply, RsLarger

LEMMA ExceptType ==
  ASSUME NEW x \in Rng, NEW a \in Int
  PROVE  /\ x.lo <= a /\ a <= x.hi => [x EXCEPT !.lo = a] \in Rng /\ [x EXCEPT !.hi = a] \in Rng
         /\ a > 0 => [x EXCEPT !.w = a] \in Rng
<1>1. /\ [x EXCEPT !.lo = a] = [lo |-> a, hi |-> x.hi, w |-> x.w]
      /\ [x EXCEPT !.hi = a] = [lo |-> x.lo, hi |-> a, w |-> x.w]
      /\ [x EXCEPT !.w = a] = [lo |-> x.lo, hi |-> x.hi, w |-> a]
  BY Excepts
<1>2. /\ x.lo \in Int /\ x.hi \in Int /\ x.w \in Nat /\ x.w > 0 /\ x.lo <= x.hi
  BY RngFields
<1>3. x.lo <= a /\ a <= x.hi => [lo |-> a, hi |-> x.hi, w |-> x.w] \in Rng
  BY <1>2, RngPart
<1>4. x.lo <= a /\ a <= x.hi => [lo |-> x.lo, hi |-> a, w |-> x.w] \in Rng
  BY <1>2, RngPart
<1>5. a > 0 => [lo |-> x.lo, hi |-> x.hi, w |-> a] \in Rng
  BY <1>2, RngPart
<1>. QED  BY <1>1, <1>3, <1>4, <1>5

(* __op makes ranges of ranges, however they lie                            *)
LEMMA CombineType ==
  ASSUME NEW n \in Rng, NEW r \in Rng, NEW op \in {"add", "max"}
  PROVE  LET c == RsCombine(n, r, op)
         IN /\ c.new \in Rng
            /\ IsFiniteSet(c.rest) /\ \A x \in c.rest : x \in Rng
<1> DEFINE w == RsApply(op, n.w, r.w)
           c == RsCombine(n, r, op)
           first == n.lo <= r.lo
           l == IF first THEN n ELSE r
           m == IF first THEN r ELSE n
           Made(a, b, rest) == /\ a \in Rng /\ b \in Rng
                               /\ IsFiniteSet(rest) /\ \A x \in rest : x \in Rng
                               /\ c = [new |-> IF first THEN a ELSE b,
                                       rest |-> rest \cup {IF first THEN b ELSE a}]
           Goal == /\ c.new \in Rng
                   /\ IsFiniteSet(c.rest) /\ \A x \in c.rest : x \in Rng
<1>1. w \in Int /\ w \in Nat /\ w > 0
  BY RngFields, ApplyType
<1>2. l \in Rng /\ m \in Rng
  OBVIOUS
<1>3. /\ l.lo \in Int /\ l.hi \in Int /\ l.w \in Nat /\ l.w > 0 /\ l.lo <= l.hi
      /\ m.lo \in Int /\ m.hi \in Int /\ m.w \in Nat /\ m.w > 0 /\ m.lo <= m.hi
      /\ n.lo \in Int /\ n.hi \in Int /\ r.lo \in Int /\ r.hi \in Int
  BY <1>2, RngFields
<1>4. l.lo <= m.lo
  BY <1>3
<1>5. ASSUME NEW a, NEW b, NEW rest, Made(a, b, rest)  PROVE Goal
  <2>1. IsFiniteSet(rest \cup {IF first THEN b ELSE a})
    BY <1>5, FS_AddElement
  <2>2. c.new = (IF first THEN a ELSE b) /\ c.rest = rest \cup {IF first THEN b ELSE a}
    BY <1>5
  <2> HIDE DEF c
  <2>. QED  BY <1>5, <2>1, <2>2
<1>6. CASE n.lo = r.lo /\ n.hi = r.hi
  <2>1. c = [new |-> [n EXCEPT !.w = w], rest |-> {}]
    BY <1>6 DEF RsCombine
  <2>2. [n EXCEPT !.w = w] \in Rng
    <3> HIDE DEF w
    <3>. QED  BY <1>1, ExceptType, Zenon
  <2>3. c.new = [n EXCEPT !.w = w] /\ c.rest = {}
    BY <2>1
  <2>4. Goal
    <3> HIDE DEF c, w
    <3>. QED  BY <2>2, <2>3, FS_EmptySet
  <2>. QED  BY <2>4
<1>7. CASE ~(n.lo = r.lo /\ n.hi = r.hi)
  <2> DEFINE mid == [lo |-> m.lo, hi |-> RsSmaller(l.hi, m.hi), w |-> w]
             last == [lo |-> mid.hi + 1, hi |-> RsLarger(l.hi, m.hi),
                      w |-> IF l.hi > m.hi THEN l.w ELSE m.w]
  <2>0. ~(l.lo = m.lo /\ l.hi = m.hi)
    BY <1>3, <1>7
  <2>1. CASE l.hi < m.lo
    <3>1. Made(l, m, {})
      BY <1>2, <1>7, <2>1, FS_EmptySet DEF RsCombine
    <3>. QED  BY <1>5, <3>1
  <2>2. CASE ~(l.hi < m.lo) /\ l.lo = m.lo /\ l.hi > m.hi
    <3>1. [l EXCEPT !.lo = m.hi + 1] \in Rng /\ [m EXCEPT !.w = w] \in Rng
      <4> HIDE DEF l, m, w
      <4>1. m.hi + 1 \in Int /\ l.lo <= m.hi + 1 /\ m.hi + 1 <= l.hi
        BY <1>1, <1>2, <1>3, <2>2
      <4>. QED  BY <1>1, <1>2, <4>1, ExceptType, Zenon
    <3>2. c = [new |-> IF first THEN [l EXCEPT !.lo = m.hi + 1] ELSE [m EXCEPT !.w = w],
               rest |-> {} \cup {IF first THEN [m EXCEPT !.w = w] ELSE [l EXCEPT !.lo = m.hi + 1]}]
      BY <1>7, <2>2 DEF RsCombine
    <3>. QED  BY <1>5, <3>1, <3>2, FS_EmptySet
  <2>3. CASE ~(l.hi < m.lo) /\ l.lo = m.lo /\ ~(l.hi > m.hi)
    <3>1. [l EXCEPT !.w = w] \in Rng /\ [m EXCEPT !.lo = l.hi + 1] \in Rng
      <4> HIDE DEF l, m, w
      <4>1. l.hi + 1 \in Int /\ m.lo <= l.hi + 1 /\ l.hi + 1 <= m.hi
        BY <1>1, <1>2, <1>3, <2>0, <2>3
      <4>. QED  BY <1>1, <1>2, <4>1, ExceptType, Zenon
    <3>2. c = [new |-> IF first THEN [l EXCEPT !.w = w] ELSE [m EXCEPT !.lo = l.hi + 1],
               rest |-> {} \cup {IF first THEN [m EXCEPT !.lo = l.hi + 1] ELSE [l EXCEPT !.w = w]}]
      BY <1>7, <2>3 DEF RsCombine
    <3>. QED  BY <1>5, <3>1, <3>2, FS_EmptySet
  <2>4. CASE ~(l.hi < m.lo) /\ l.lo # m.lo /\ l.hi = m.hi
    <3>1. [l EXCEPT !.hi = m.lo - 1] \in Rng /\ [m EXCEPT !.w = w] \in Rng
      <4> HIDE DEF l, m, w
      <4>1. m.lo - 1 \in Int /\ l.lo <= m.lo - 1 /\ m.lo - 1 <= l.hi
        BY <1>1, <1>2, <1>3, <1>4, <2>4
      <4>. QED  BY <1>1, <1>2, <4>1, ExceptType, Zenon
    <3>2. c = [new |-> IF first THEN [l EXCEPT !.hi = m.lo - 1] ELSE [m EXCEPT !.w = w],
               rest |-> {} \cup {IF first THEN [m EXCEPT !.w = w] ELSE [l EXCEPT !.hi = m.lo - 1]}]
      BY <1>7, <2>4 DEF RsCombine
    <3>. QED  BY <1>5, <3>1, <3>2, FS_EmptySet
  <2>5. CASE ~(l.hi < m.lo) /\ l.lo # m.lo /\ l.hi # m.hi
    <3>1. [l EXCEPT !.hi = m.lo - 1] \in Rng
      <4> HIDE DEF l, m, w
      <4>1. m.lo - 1 \in Int /\ l.lo <= m.lo - 1 /\ m.lo - 1 <= l.hi
        BY <1>2, <1>3, <1>4, <2>5
      <4>. QED  BY <1>1, <1>2, <4>1, ExceptType, Zenon
    <3>2. mid \in Rng
      BY <1>1, <1>2, <1>3, <2>5, RngPart DEF RsSmaller
    <3>3. last \in Rng
      <4> HIDE DEF l, m
      <4>1. CASE l.hi > m.hi
        <5>1. last = [lo |-> m.hi + 1, hi |-> l.hi, w |-> l.w]
          BY <1>3, <4>1 DEF RsSmaller, RsLarger
        <5>2. [lo |-> m.hi + 1, hi |-> l.hi, w |-> l.w] \in Rng
          <6>1. /\ m.hi + 1 \in Int /\ l.hi \in Int /\ l.w \in Nat /\ l.w > 0
                /\ l.lo <= m.hi + 1 /\ m.hi + 1 <= l.hi /\ l.hi <= l.hi
            BY <1>3, <1>4, <4>1
          <6>. QED  BY <1>2, <6>1, RngPart, Zenon
        <5>. QED  BY <5>1, <5>2
      <4>2. CASE ~(l.hi > m.hi)
        <5>1. last = [lo |-> l.hi + 1, hi |-> m.hi, w |-> m.w]
          BY <1>3, <2>5, <4>2 DEF RsSmaller, RsLarger
        <5>2. [lo |-> l.hi + 1, hi |-> m.hi, w |-> m.w] \in Rng
          <6>1. /\ l.hi + 1 \in Int /\ m.hi \in Int /\ m.w \in Nat /\ m.w > 0
                /\ m.lo <= l.hi + 1 /\ l.hi + 1 <= m.hi /\ m.hi <= m.hi
            BY <1>3, <2>5, <4>2
          <6>. QED  BY <1>2, <6>1, RngPart, Zenon
        <5>. QED  BY <5>1, <5>2
      <4>. QED  BY <4>1, <4>2
    <3>4. c = [new |-> IF first THEN [l EXCEPT !.hi = m.lo - 1] ELSE last,
               rest |-> {mid} \cup {IF first THEN last ELSE [l EXCEPT !.hi = m.lo - 1]}]
      BY <1>7, <2>5 DEF RsCombine
    <3>5. IsFiniteSet({mid}) /\ \A x \in {mid} : x \in Rng
      BY <3>2, FS_Singleton
    <3> HIDE DEF last, mid, l, m, first
    <3>6. Made([l EXCEPT !.hi = m.lo - 1], last, {mid})
      BY <3>1, <3>3, <3>4, <3>5
    <3>. QED  BY <1>5, <3>6
  <2>. QED  BY <1>3, <2>1, <2>2, <2>3, <2>4, <2>5
<1>. QED  BY <1>6, <1>7

(* A new range within one of the set: that one keeps what is beside         *)
LEMMA CombineInside ==
  ASSUME NEW n \in Rng, NEW r \in Rng, NEW op \in {"add", "max"}, Within(n, r)
  PROVE  LET c == RsCombine(n, r, op)
         IN c.rest \cup {c.new} = {[n EXCEPT !.w = RsApply(op, n.w, r.w)]} \cup RsBeside(r, n)
<1> DEFINE w == RsApply(op, n.w, r.w)
           c == RsCombine(n, r, op)
           x == [lo |-> n.lo, hi |-> n.hi, w |-> w]
           a == [lo |-> r.lo, hi |-> n.lo - 1, w |-> r.w]
           b == [lo |-> n.hi + 1, hi |-> r.hi, w |-> r.w]
           Goal == c.rest \cup {c.new} = {x} \cup RsBeside(r, n)
<1>1. /\ n.lo \in Int /\ n.hi \in Int /\ n.lo <= n.hi
      /\ r.lo \in Int /\ r.hi \in Int /\ r.lo <= n.lo /\ n.hi <= r.hi
  BY RngFields DEF Within
<1>2. \A y : y \in RsBeside(r, n) <=> (r.lo <= n.lo - 1 /\ y = a) \/ (n.hi + 1 <= r.hi /\ y = b)
  BY BesideOf, RngSpan
<1>3. /\ [n EXCEPT !.w = w] = x
      /\ [r EXCEPT !.lo = n.hi + 1] = b
      /\ [r EXCEPT !.hi = n.lo - 1] = a
  BY Excepts
<1>. SUFFICES Goal
  BY <1>3
<1>4. CASE n.lo = r.lo /\ n.hi = r.hi
  <2>1. c = [new |-> x, rest |-> {}]
    BY <1>3, <1>4 DEF RsCombine
  <2>2. c.rest \cup {c.new} = {x}
    BY <2>1
  <2> HIDE DEF c, x, a, b
  <2>. QED  BY <1>1, <1>2, <1>4, <2>2
<1>5. CASE n.lo = r.lo /\ n.hi # r.hi
  <2>1. c = [new |-> x, rest |-> {} \cup {b}]
    <3>1. ~(n.lo = r.lo /\ n.hi = r.hi) /\ n.lo <= r.lo /\ ~(n.hi < r.lo) /\ ~(n.hi > r.hi)
      BY <1>1, <1>5
    <3>. QED  BY <1>3, <1>5, <3>1 DEF RsCombine
  <2>2. c.rest \cup {c.new} = {x, b}
    BY <2>1
  <2> HIDE DEF c, x, a, b
  <2>. QED  BY <1>1, <1>2, <1>5, <2>2
<1>6. CASE n.lo # r.lo /\ n.hi = r.hi
  <2>1. c = [new |-> x, rest |-> {} \cup {a}]
    BY <1>1, <1>3, <1>6 DEF RsCombine
  <2>2. c.rest \cup {c.new} = {x, a}
    BY <2>1
  <2> HIDE DEF c, x, a, b
  <2>. QED  BY <1>1, <1>2, <1>6, <2>2
<1>7. CASE n.lo # r.lo /\ n.hi # r.hi
  <2>1. c = [new |-> b, rest |-> {x} \cup {a}]
    <3>1. /\ ~(n.lo <= r.lo) /\ ~(r.hi < n.lo) /\ r.hi > n.hi
          /\ RsSmaller(r.hi, n.hi) = n.hi /\ RsLarger(r.hi, n.hi) = r.hi
      BY <1>1, <1>7 DEF RsSmaller, RsLarger
    <3>2. c = [new |-> [lo |-> n.hi + 1, hi |-> r.hi, w |-> r.w],
               rest |-> {[lo |-> n.lo, hi |-> n.hi, w |-> w]} \cup {[r EXCEPT !.hi = n.lo - 1]}]
      BY <1>7, <3>1 DEF RsCombine
    <3>. QED  BY <1>3, <3>2
  <2>2. c.rest \cup {c.new} = {x, a, b}
    BY <2>1
  <2> HIDE DEF c, x, a, b
  <2>. QED  BY <1>1, <1>2, <1>7, <2>2
<1>. QED  BY <1>4, <1>5, <1>6, <1>7

LEMMA LeastOf ==
  ASSUME NEW S, \A k \in S : k \in Nat, NEW x \in S
  PROVE  \E m \in S : \A k \in S : m <= k
<1> DEFINE R == OpToRel(<, Nat)
<1>1. PICK m \in S : \A y \in S : <<y, m>> \notin R
  <2>1. IsWellFoundedOn(R, Nat) /\ S \subseteq Nat
    BY NatLessThanWellFounded
  <2> HIDE DEF R
  <2>. QED  BY <2>1, WFMin
<1>2. \A y \in S : ~(y < m)
  BY <1>1 DEF OpToRel
<1>. QED  BY <1>2

(* A recursion along the natural numbers has a solution                     *)
Steps(n, D) == [(1 .. n) \X D -> D]
Solves(f, n, D, base, step) ==
  /\ f \in [0 .. n -> D]
  /\ f[0] = base /\ \A k \in 1 .. n : f[k] = step[<<k, f[k - 1]>>]

LEMMA Recursion ==
  ASSUME NEW n \in Nat, NEW D, NEW base \in D, NEW step \in Steps(n, D)
  PROVE  \E f : Solves(f, n, D, base, step)
<1> DEFINE Has(m) == \E f \in [0 .. m -> D] :
                       f[0] = base /\ \A k \in 1 .. m : f[k] = step[<<k, f[k - 1]>>]
           Bad == {m \in 0 .. n : ~Has(m)}
<1>1. ASSUME Bad # {}  PROVE FALSE
  <2>1. PICK m \in Bad : \A y \in Bad : m <= y
    <3>1. \A k \in Bad : k \in Nat
      <4> HIDE DEF Has
      <4>. QED  OBVIOUS
    <3> HIDE DEF Bad
    <3>. QED  BY <1>1, <3>1, LeastOf
  <2>2. m \in 0 .. n /\ ~Has(m) /\ \A y \in 0 .. n : y < m => Has(y)
    <3> HIDE DEF Has
    <3>. QED  BY <2>1
  <2>3. m # 0
    <3>1. Has(0)
      <4> DEFINE f == [k \in 0 .. 0 |-> base]
      <4>1. f \in [0 .. 0 -> D] /\ f[0] = base /\ \A k \in 1 .. 0 : f[k] = step[<<k, f[k - 1]>>]
        OBVIOUS
      <4>. QED  BY <4>1
    <3> HIDE DEF Has
    <3>. QED  BY <2>2, <3>1
  <2>4. Has(m - 1)
    <3>1. m - 1 \in 0 .. n /\ m - 1 < m
      BY <2>2, <2>3
    <3> HIDE DEF Has
    <3>. QED  BY <2>2, <3>1
  <2>5. PICK f \in [0 .. m - 1 -> D] :
          f[0] = base /\ \A k \in 1 .. m - 1 : f[k] = step[<<k, f[k - 1]>>]
    BY <2>4
  <2> DEFINE g == [k \in 0 .. m |-> IF k = m THEN step[<<m, f[m - 1]>>] ELSE f[k]]
  <2>6. step[<<m, f[m - 1]>>] \in D
    <3>0. step \in [(1 .. n) \X D -> D]
      BY DEF Steps
    <3>1. m \in 1 .. n /\ f[m - 1] \in D
      BY <2>2, <2>3, <2>5
    <3>. QED  BY <3>0, <3>1
  <2>7. g \in [0 .. m -> D]
    BY <2>2, <2>3, <2>5, <2>6
  <2>8. g[0] = base
    BY <2>2, <2>3, <2>5
  <2>9. ASSUME NEW k \in 1 .. m  PROVE g[k] = step[<<k, g[k - 1]>>]
    <3>1. CASE k = m
      <4>1. g[m - 1] = f[m - 1]
        BY <2>2, <2>3
      <4>2. g[m] = step[<<m, f[m - 1]>>]
        BY <2>2
      <4>. QED  BY <3>1, <4>1, <4>2
    <3>2. CASE k # m
      <4>1. k \in 1 .. m - 1 /\ k - 1 \in 0 .. m /\ k - 1 # m
        BY <2>2, <3>2
      <4>2. g[k] = f[k] /\ g[k - 1] = f[k - 1]
        BY <2>2, <4>1
      <4>. QED  BY <2>5, <4>1, <4>2
    <3>. QED  BY <3>1, <3>2
  <2>10. Has(m)
    <3> HIDE DEF g
    <3>. QED  BY <2>7, <2>8, <2>9
  <2> HIDE DEF Has
  <2>. QED  BY <2>2, <2>10
<1>2. n \in 0 .. n
  OBVIOUS
<1>3. Has(n)
  <2> HIDE DEF Has
  <2>. QED  BY <1>1, <1>2
<1>. QED  BY <1>3 DEF Solves

(* __add_with2: the ranges that n meets, in any order                       *)
FinRng == {R \in SUBSET Rng : IsFiniteSet(R)}

Inserting(met, n, S, order, op) ==
  /\ met \in [0 .. Len(order) -> [new : Rng, rest : FinRng]]
  /\ met[0] = [new |-> n, rest |-> {r \in S : ~RsMeets(n, r)}]
  /\ \A k \in 1 .. Len(order) :
       met[k] = [new |-> RsCombine(met[k - 1].new, order[k], op).new,
                 rest |-> met[k - 1].rest \cup RsCombine(met[k - 1].new, order[k], op).rest]
  /\ RsInserted(n, S, order, op) = met[Len(order)].rest \cup {met[Len(order)].new}

LEMMA InsertedIs ==
  ASSUME NEW n \in Rng, NEW S \in FinRng, NEW order \in Seq(Rng), NEW op \in {"add", "max"}
  PROVE  \E met : Inserting(met, n, S, order, op)
<1> DEFINE D == [new : Rng, rest : FinRng]
           base == [new |-> n, rest |-> {r \in S : ~RsMeets(n, r)}]
           C(k, a) == RsCombine(a.new, order[k], op)
           Next(k, a) == [new |-> C(k, a).new, rest |-> a.rest \cup C(k, a).rest]
           step == [x \in (1 .. Len(order)) \X D |-> Next(x[1], x[2])]
           Body(f) == [k \in 0 .. Len(order) |->
                         IF k = 0 THEN base ELSE Next(k, f[k - 1])]
<1>1. Len(order) \in Nat /\ \A k \in 1 .. Len(order) : order[k] \in Rng
  OBVIOUS
<1>2. base \in D
  <2>1. {r \in S : ~RsMeets(n, r)} \in SUBSET S
    OBVIOUS
  <2>2. {r \in S : ~RsMeets(n, r)} \in FinRng
    BY <2>1, FS_Subset DEF FinRng
  <2>. QED  BY <2>2
<1>3. ASSUME NEW k \in 1 .. Len(order), NEW a \in D  PROVE Next(k, a) \in D
  <2>1. a.new \in Rng /\ a.rest \in FinRng /\ order[k] \in Rng
    BY <1>1
  <2>2. C(k, a).new \in Rng /\ IsFiniteSet(C(k, a).rest) /\ \A x \in C(k, a).rest : x \in Rng
    BY <2>1, CombineType
  <2>3. a.rest \cup C(k, a).rest \in FinRng
    <3> HIDE DEF C
    <3>1. IsFiniteSet(a.rest \cup C(k, a).rest)
      BY <2>1, <2>2, FS_Union DEF FinRng
    <3>. QED  BY <2>1, <2>2, <3>1 DEF FinRng
  <2> HIDE DEF C
  <2>. QED  BY <2>2, <2>3
<1>4. step \in [(1 .. Len(order)) \X D -> D]
  <2> SUFFICES ASSUME NEW x \in (1 .. Len(order)) \X D  PROVE Next(x[1], x[2]) \in D
    OBVIOUS
  <2>1. x[1] \in 1 .. Len(order) /\ x[2] \in D
    OBVIOUS
  <2> HIDE DEF Next, D
  <2>. QED  BY <1>3, <2>1
<1>5. PICK f \in [0 .. Len(order) -> D] :
        f[0] = base /\ \A k \in 1 .. Len(order) : f[k] = step[<<k, f[k - 1]>>]
  <2>1. Len(order) \in Nat
    BY <1>1
  <2>2. step \in Steps(Len(order), D)
    BY <1>4 DEF Steps
  <2> HIDE DEF D, step, base
  <2>3. \E f : Solves(f, Len(order), D, base, step)
    BY <2>1, <2>2, <1>2, Recursion, Zenon
  <2>. QED  BY <2>3 DEF Solves
<1>6. \A k \in 1 .. Len(order) : f[k] = Next(k, f[k - 1])
  <2> SUFFICES ASSUME NEW k \in 1 .. Len(order)  PROVE step[<<k, f[k - 1]>>] = Next(k, f[k - 1])
    BY <1>5
  <2>1. f[k - 1] \in D
    <3>1. k - 1 \in 0 .. Len(order)
      BY <1>1
    <3> HIDE DEF D, step, base
    <3>. QED  BY <1>5, <3>1
  <2> HIDE DEF D, Next
  <2>. QED  BY <2>1 DEF step
<1>7. f = Body(f)
  <2> HIDE DEF Next, D, base
  <2>1. \A k \in 0 .. Len(order) : f[k] = IF k = 0 THEN base ELSE Next(k, f[k - 1])
    BY <1>1, <1>5, <1>6
  <2>. QED  BY <1>5, <2>1
<1> DEFINE met == CHOOSE g : g = Body(g)
<1>8. met = Body(met)
  <2> HIDE DEF Body
  <2>. QED  BY <1>7
<1>9. RsInserted(n, S, order, op) = met[Len(order)].rest \cup {met[Len(order)].new}
  BY DEF RsInserted
<1>10. met = f
  <2> DEFINE Bad == {k \in 0 .. Len(order) : met[k] # f[k]}
  <2>1. ASSUME NEW k \in 0 .. Len(order)
        PROVE  /\ met[k] = IF k = 0 THEN base ELSE Next(k, met[k - 1])
               /\ f[k] = IF k = 0 THEN base ELSE Next(k, f[k - 1])
    <3> HIDE DEF Next, base, met
    <3>. QED  BY <1>7, <1>8
  <2> HIDE DEF Next, base, met, D, step
  <2>2. ASSUME NEW x \in Bad  PROVE FALSE
    <3>1. \A k \in Bad : k \in Nat
      OBVIOUS
    <3>2. PICK m \in Bad : \A k \in Bad : m <= k
      <4> HIDE DEF Bad
      <4>. QED  BY <3>1, LeastOf
    <3>3. m \in 0 .. Len(order) /\ met[m] # f[m]
      OBVIOUS
    <3>4. m # 0
      BY <2>1, <3>3
    <3>5. m - 1 \in 0 .. Len(order) /\ ~(m <= m - 1)
      BY <1>1, <3>3, <3>4
    <3>6. met[m - 1] = f[m - 1]
      BY <3>2, <3>5
    <3>. QED  BY <2>1, <3>3, <3>4, <3>6
  <2>3. \A k \in 0 .. Len(order) : met[k] = f[k]
    BY <2>2
  <2>4. met = [k \in 0 .. Len(order) |-> met[k]]
    BY <1>8
  <2>5. f = [k \in 0 .. Len(order) |-> f[k]]
    BY <1>7
  <2>. QED  BY <2>3, <2>4, <2>5
<1> HIDE DEF met
<1>. QED  BY <1>5, <1>6, <1>9, <1>10 DEF Inserting

LEMMA InsertedType ==
  ASSUME NEW n \in Rng, NEW S \in FinRng, NEW order \in Seq(Rng), NEW op \in {"add", "max"}
  PROVE  RsInserted(n, S, order, op) \in FinRng
<1>1. PICK met : Inserting(met, n, S, order, op)
  BY InsertedIs, Zenon
<1>2. met[Len(order)] \in [new : Rng, rest : FinRng]
  <2>1. Len(order) \in 0 .. Len(order)
    OBVIOUS
  <2>. QED  BY <1>1, <2>1 DEF Inserting
<1>3. met[Len(order)].new \in Rng /\ met[Len(order)].rest \in FinRng
  BY <1>2
<1>4. IsFiniteSet(met[Len(order)].rest \cup {met[Len(order)].new})
  BY <1>3, FS_AddElement DEF FinRng
<1>. QED  BY <1>1, <1>3, <1>4 DEF FinRng, Inserting

LEMMA OrdersOf ==
  ASSUME NEW S \in FinRng, NEW order \in SetToSeqs(S)
  PROVE  order \in Seq(Rng) /\ Len(order) = Cardinality(S) /\ \A k \in 1 .. Len(order) : order[k] \in S
<1>1. Cardinality(S) \in Nat
  BY FS_CardinalityType DEF FinRng
<1>2. order \in [1 .. Cardinality(S) -> S]
  BY DEF SetToSeqs
<1>3. \A k \in 1 .. Cardinality(S) : order[k] \in Rng
  BY <1>2 DEF FinRng
<1>. QED  BY <1>1, <1>2, <1>3

LEMMA InsertedNone ==
  ASSUME NEW n \in Rng, NEW S \in FinRng, NEW op \in {"add", "max"},
         \A r \in S : ~RsMeets(n, r),
         NEW order \in SetToSeqs({r \in S : RsMeets(n, r)})
  PROVE  RsInserted(n, S, order, op) = S \cup {n}
<1>1. {r \in S : RsMeets(n, r)} = {} /\ {r \in S : ~RsMeets(n, r)} = S
  OBVIOUS
<1>2. order \in Seq(Rng) /\ Len(order) = 0
  <2>1. {} \in FinRng
    BY FS_EmptySet DEF FinRng
  <2>. QED  BY <1>1, <2>1, OrdersOf, FS_EmptySet
<1>3. PICK met : Inserting(met, n, S, order, op)
  BY <1>2, InsertedIs, Zenon
<1>4. met[0].new = n /\ met[0].rest = S
  BY <1>1, <1>3 DEF Inserting
<1>. QED  BY <1>2, <1>3, <1>4 DEF Inserting

LEMMA InsertedOne ==
  ASSUME NEW n \in Rng, NEW S \in FinRng, NEW op \in {"add", "max"}, NEW r \in S,
         \A y \in S : RsMeets(n, y) <=> y = r, Within(n, r),
         NEW order \in SetToSeqs({y \in S : RsMeets(n, y)})
  PROVE  RsInserted(n, S, order, op)
           = (S \ {r}) \cup ({[n EXCEPT !.w = RsApply(op, n.w, r.w)]} \cup RsBeside(r, n))
<1>1. {y \in S : RsMeets(n, y)} = {r} /\ {y \in S : ~RsMeets(n, y)} = S \ {r}
  OBVIOUS
<1>2. r \in Rng
  BY DEF FinRng
<1>3. order \in Seq(Rng) /\ Len(order) = 1 /\ order[1] = r
  <2>1. {r} \in FinRng /\ Cardinality({r}) = 1
    BY <1>2, FS_Singleton DEF FinRng
  <2>2. order \in Seq(Rng) /\ Len(order) = 1 /\ \A k \in 1 .. Len(order) : order[k] \in {r}
    BY <1>1, <2>1, OrdersOf
  <2>. QED  BY <2>2
<1> DEFINE c == RsCombine(n, r, op)
<1>4. PICK met : Inserting(met, n, S, order, op)
  BY <1>3, InsertedIs, Zenon
<1>5. met[0].new = n /\ met[0].rest = S \ {r}
  BY <1>1, <1>4 DEF Inserting
<1>6. met[1] = [new |-> c.new, rest |-> (S \ {r}) \cup c.rest]
  <2>1. 1 \in 1 .. Len(order) /\ 1 - 1 = 0
    BY <1>3
  <2>. QED  BY <1>3, <1>4, <1>5, <2>1 DEF Inserting
<1>7. RsInserted(n, S, order, op) = (S \ {r}) \cup (c.rest \cup {c.new})
  <2> HIDE DEF c
  <2>. QED  BY <1>3, <1>4, <1>6 DEF Inserting
<1>8. c.rest \cup {c.new} = {[n EXCEPT !.w = RsApply(op, n.w, r.w)]} \cup RsBeside(r, n)
  BY <1>2, CombineInside
<1>. QED  BY <1>7, <1>8

(* A piece that lies within every range that it meets                       *)
Fits(x, S) == \A r \in S : RsMeets(x, r) => Within(x, r)

LEMMA FitsOne ==
  ASSUME NEW S \in FinRng, Apart(S), NEW n \in Rng, Fits(n, S), NEW r \in S, RsMeets(n, r)
  PROVE  \A y \in S : RsMeets(n, y) <=> y = r
<1>. SUFFICES ASSUME NEW y \in S, RsMeets(n, y)  PROVE y = r
  OBVIOUS
<1>1. Within(n, y) /\ Within(n, r) /\ y \in Rng /\ r \in Rng
  BY DEF Fits, FinRng
<1>2. RsMeets(y, r)
  BY <1>1, RngFields DEF Within, RsMeets
<1>. QED  BY <1>2 DEF Apart

(* Such a piece inserted: the set stays disjoint, the weights change where  *)
(* the piece is and nowhere else, and what else fits still does             *)
LEMMA Inserted ==
  ASSUME NEW S \in FinRng, Apart(S), NEW n \in Rng, Fits(n, S), NEW op \in {"add", "max"},
         NEW order \in SetToSeqs({r \in S : RsMeets(n, r)})
  PROVE  LET T == RsInserted(n, S, order, op)
         IN /\ Apart(T)
            /\ \A p \in Int : /\ RsCovers(n, p) => RsAt(T, p) = RsApply(op, RsAt(S, p), n.w)
                              /\ ~RsCovers(n, p) => RsAt(T, p) = RsAt(S, p)
            /\ \A m \in Rng : Fits(m, S) /\ ~RsMeets(m, n) => Fits(m, T)
<1> DEFINE T == RsInserted(n, S, order, op)
<1>1. \A x \in S : x \in Rng
  BY DEF FinRng
<1>2. n.w \in Nat /\ n.w > 0 /\ n.lo \in Int /\ n.hi \in Int /\ n.lo <= n.hi
  BY RngFields
<1>3. CASE \A r \in S : ~RsMeets(n, r)
  <2>1. T = S \cup {n}
    BY <1>3, InsertedNone
  <2>2. \A r \in S : ~RsMeets(r, n)
    BY <1>1, <1>3, RngFields DEF RsMeets
  <2>3. Apart(T)
    BY <1>3, <2>1, <2>2 DEF Apart
  <2>4. \A x \in T : x \in Rng
    BY <1>1, <2>1
  <2>5. ASSUME NEW p \in Int, RsCovers(n, p)  PROVE RsAt(T, p) = RsApply(op, RsAt(S, p), n.w)
    <3>1. \A x \in S : ~RsCovers(x, p)
      BY <1>1, <1>3, <2>5, RngFields DEF RsMeets, RsCovers
    <3>2. RsAt(S, p) = 0
      BY <1>1, <3>1, AtNone
    <3>3. RsAt(T, p) = n.w
      BY <2>1, <2>3, <2>4, <2>5, AtApart
    <3>. QED  BY <1>2, <3>2, <3>3 DEF RsApply, RsLarger
  <2>6. ASSUME NEW p \in Int, ~RsCovers(n, p)  PROVE RsAt(T, p) = RsAt(S, p)
    BY <1>1, <2>1, <2>3, <2>4, <2>6, AtSame
  <2>7. \A m \in Rng : Fits(m, S) /\ ~RsMeets(m, n) => Fits(m, T)
    BY <2>1 DEF Fits
  <2> HIDE DEF T
  <2>. QED  BY <2>3, <2>5, <2>6, <2>7 DEF T
<1>4. CASE \E r \in S : RsMeets(n, r)
  <2>1. PICK r \in S : RsMeets(n, r)
    BY <1>4
  <2>2. r \in Rng /\ Within(n, r) /\ \A y \in S : RsMeets(n, y) <=> y = r
    BY <1>1, <2>1, FitsOne DEF Fits
  <2> DEFINE w == RsApply(op, n.w, r.w)
             i == RsInside(r, n)
             x == [lo |-> n.lo, hi |-> n.hi, w |-> w]
             P == {x} \cup RsBeside(r, n)
  <2>3. /\ r.w \in Nat /\ r.w > 0 /\ r.lo \in Int /\ r.hi \in Int
        /\ r.lo <= n.lo /\ n.hi <= r.hi
    BY <2>2, RngFields DEF Within
  <2>4. i.lo = n.lo /\ i.hi = n.hi
    <3>1. i = [lo |-> RsLarger(r.lo, n.lo), hi |-> RsSmaller(r.hi, n.hi), w |-> r.w]
      BY <2>2, InsideOf
    <3>2. i.lo = RsLarger(r.lo, n.lo) /\ i.hi = RsSmaller(r.hi, n.hi)
      <4> HIDE DEF i
      <4>. QED  BY <3>1
    <3>. QED  BY <1>2, <2>3, <3>2 DEF RsLarger, RsSmaller
  <2>5. RsMeets(n, r)
    BY <2>1
  <2>6. LET Q == {i} \cup RsBeside(r, n)
        IN /\ \A y \in Q : y \in Rng /\ Within(y, r) /\ y.w = r.w
           /\ Apart(Q)
           /\ i \notin RsBeside(r, n)
           /\ \A p \in Int : RsCovers(r, p) => \E y \in Q : RsCovers(y, p)
    BY <2>2, <2>5, PartsOf, RngSpan
  <2>7. w \in Int /\ w > 0 /\ w = RsApply(op, r.w, n.w)
    BY <1>2, <2>3 DEF RsApply, RsLarger
  <2>8. x \in Rng /\ x = [n EXCEPT !.w = w]
    <3>1. [n EXCEPT !.w = w] = x
      BY Excepts
    <3> HIDE DEF w
    <3>. QED  BY <2>7, <3>1, ExceptType, Zenon
  <2>9. \A y \in RsBeside(r, n) : /\ y \in Rng /\ Within(y, r) /\ y.w = r.w
                                  /\ ~RsMeets(i, y) /\ ~RsMeets(y, i)
    BY <2>6 DEF Apart
  <2>10. \A y \in P : y \in Rng /\ Within(y, r)
    BY <2>3, <2>8, <2>9 DEF Within
  <2>11. Apart(P)
    <3>1. \A y, z \in RsBeside(r, n) : y # z => ~RsMeets(y, z)
      BY <2>6 DEF Apart
    <3>2. \A y \in RsBeside(r, n) : ~RsMeets(x, y) /\ ~RsMeets(y, x)
      BY <2>4, <2>9 DEF RsMeets
    <3> HIDE DEF x
    <3>. QED  BY <3>1, <3>2 DEF Apart
  <2>12. T = (S \ {r}) \cup P
    BY <2>2, <2>8, InsertedOne
  <2> HIDE DEF P, T
  <2>13. /\ Apart(T)
         /\ \A p \in Int : /\ RsCovers(r, p) => RsAt(T, p) = RsAt(P, p)
                           /\ ~RsCovers(r, p) => RsAt(T, p) = RsAt(S, p)
    BY <1>1, <2>10, <2>11, <2>12, Replaced
  <2>14. ASSUME NEW p \in Int, RsCovers(n, p)  PROVE RsAt(T, p) = RsApply(op, RsAt(S, p), n.w)
    <3>1. RsCovers(r, p) /\ RsCovers(x, p) /\ x \in P
      BY <1>2, <2>3, <2>14 DEF RsCovers, P
    <3>2. RsAt(S, p) = r.w
      BY <1>1, <3>1, AtApart
    <3>3. RsAt(P, p) = x.w
      BY <2>10, <2>11, <3>1, AtApart
    <3>. QED  BY <2>7, <2>13, <3>1, <3>2, <3>3
  <2>15. ASSUME NEW p \in Int, ~RsCovers(n, p)  PROVE RsAt(T, p) = RsAt(S, p)
    <3>1. CASE RsCovers(r, p)
      <4>1. PICK y \in {i} \cup RsBeside(r, n) : RsCovers(y, p)
        BY <2>6, <3>1
      <4>2. ~RsCovers(i, p)
        BY <2>4, <2>15 DEF RsCovers
      <4>3. y \in RsBeside(r, n) /\ y \in P
        BY <4>1, <4>2 DEF P
      <4>4. RsAt(P, p) = y.w
        BY <2>10, <2>11, <4>1, <4>3, AtApart
      <4>5. RsAt(S, p) = r.w
        BY <1>1, <3>1, AtApart
      <4>. QED  BY <2>9, <2>13, <3>1, <4>3, <4>4, <4>5
    <3>2. CASE ~RsCovers(r, p)
      BY <2>13, <3>2
    <3>. QED  BY <3>1, <3>2
  <2>16. ASSUME NEW m \in Rng, Fits(m, S), ~RsMeets(m, n), NEW y \in T, RsMeets(m, y)
         PROVE  Within(m, y)
    <3>1. CASE y \in S \ {r}
      BY <2>16, <3>1 DEF Fits
    <3>2. CASE y = x
      BY <2>16, <3>2 DEF RsMeets
    <3>3. CASE y \in RsBeside(r, n)
      <4>1. /\ m.lo \in Int /\ m.hi \in Int /\ m.lo <= m.hi
            /\ y.lo \in Int /\ y.hi \in Int
        BY <2>9, <3>3, RngFields
      <4>2. RsMeets(m, r)
        BY <2>3, <2>9, <2>16, <3>3, <4>1 DEF RsMeets, Within
      <4>3. Within(m, r)
        BY <2>16, <4>2 DEF Fits
      <4>4. \/ y = [lo |-> r.lo, hi |-> n.lo - 1, w |-> r.w]
            \/ y = [lo |-> n.hi + 1, hi |-> r.hi, w |-> r.w]
        BY <2>2, <3>3, BesideOf, RngSpan
      <4>5. (y.lo = r.lo /\ y.hi = n.lo - 1) \/ (y.lo = n.hi + 1 /\ y.hi = r.hi)
        BY <4>4
      <4>. QED  BY <1>2, <2>3, <2>16, <4>1, <4>3, <4>5 DEF RsMeets, Within
    <3>. QED  BY <2>12, <3>1, <3>2, <3>3 DEF P
  <2>. QED  BY <2>13, <2>14, <2>15, <2>16 DEF T, Fits
<1>. QED  BY <1>3, <1>4

-----------------------------------------------------------------------------
(* The ranges still to be added, the pieces of the one that is being added, *)
(* and the weights they will make                                           *)
Pieces == rsWork \cup rsNext \cup rsDone

RsTypes ==
  /\ rsSets \in [Sides -> FinRng] /\ rsDiff \in [Sides -> SUBSET Rng]
  /\ rsOp \in {"add", "max"} /\ rsInto \in Sides
  /\ rsQueue \in FinRng
  /\ rsWork \in SUBSET Rng /\ rsNext \in SUBSET Rng /\ rsDone \in SUBSET Rng
  /\ rsRound \in 0 .. RsRounds /\ rsAdded \in 0 .. RsAdds + 1
  /\ rsPairs \in SUBSET (Rng \X Rng) /\ \A x \in rsPairs : RsMeets(x[1], x[2])
  /\ rsPc \in {"idle", "add", "split", "insert", "ready", "compare", "done"}
  /\ rsWeight \in [Sides -> [RsPoints -> Nat]]

RsPhases ==
  /\ rsPc \in {"idle", "ready", "compare", "done"} => rsQueue = {}
  /\ rsPc \in {"idle", "add", "ready", "compare", "done"} => Pieces = {}
  /\ rsPc = "insert" => rsWork = {} /\ rsNext = {}
  /\ rsPc = "done" => rsPairs = {}

(* The sets and the pieces are disjoint, the pieces that are done fit the   *)
(* set, and the weights are what they are to be once the pieces and what is *)
(* left of the operand are in                                               *)
RsDisjoint == ~rsGaveUp =>
  /\ \A s \in Sides : Apart(rsSets[s])
  /\ Apart(Pieces)
  /\ rsWork \cap rsNext = {} /\ rsWork \cap rsDone = {} /\ rsNext \cap rsDone = {}
  /\ rsOp = "max" => Apart(rsQueue \cup Pieces) /\ rsQueue \cap Pieces = {}
  /\ \A x \in rsDone : Fits(x, rsSets[rsInto])
RsWeighed == ~rsGaveUp =>
  /\ \A s \in Sides : s # rsInto =>
       \A p \in RsPoints : rsWeight[s][p] = RsAt(rsSets[s], p)
  /\ \A p \in RsPoints :
       rsWeight[rsInto][p] = RsApply(rsOp, RsAt(rsSets[rsInto], p),
                                     RsAt(rsQueue, p) + RsAt(Pieces, p))

(* What the comparison has come to: the cells of both sides over numbers    *)
(* that no pair is left for are counted, and taken off the differences      *)
Due(p) == \E x \in rsPairs : RsCovers(RsCommon(x[1], x[2]), p)
Both(p) == RsSmaller(rsWeight["l"][p], rsWeight["r"][p])
Counted == {c \in RsUnder("l") \cap RsUnder("r") : ~Due(c[1])}
RsComparing == ~rsGaveUp /\ rsPc \in {"compare", "done"} =>
  /\ rsPairs \subseteq rsSets["l"] \X rsSets["r"]
  /\ rsShared = Cardinality(Counted)
  /\ ~rsInner => \A s \in Sides :
       /\ Apart(rsDiff[s])
       /\ \A p \in RsPoints :
            RsAt(rsDiff[s], p) = rsWeight[s][p] - IF Due(p) THEN 0 ELSE Both(p)

RsIInv == RsTypes /\ RsPhases /\ RsDisjoint /\ RsWeighed /\ RsComparing
-----------------------------------------------------------------------------
LEMMA PointsInt == \A p \in RsPoints : p \in Int
BY RsPointsAssumption

LEMMA AtEmpty == \A p \in Int : RsAt({}, p) = 0
BY AtNone

LEMMA ApplyZero ==
  ASSUME NEW op, NEW a \in Nat
  PROVE  RsApply(op, a, 0) = a
BY DEF RsApply, RsLarger

LEMMA AtNat == \A S \in FinRng : \A p \in Int : RsAt(S, p) \in Nat
BY AtFinite DEF FinRng

LEMMA FinRngMade ==
  /\ {} \in FinRng
  /\ \A S \in FinRng : \A T \in SUBSET S : T \in FinRng
  /\ \A x \in Rng : {x} \in FinRng
BY FS_EmptySet, FS_Subset, FS_Singleton DEF FinRng

(* When nothing is being added the weights are those of the sets            *)
LEMMA Settled ==
  ASSUME RsIInv, ~rsGaveUp, rsPc \in {"idle", "ready", "compare", "done"}
  PROVE  \A s \in Sides : \A p \in RsPoints : rsWeight[s][p] = RsAt(rsSets[s], p)
<1>1. rsQueue = {} /\ Pieces = {} /\ rsInto \in Sides /\ rsSets \in [Sides -> FinRng]
  BY DEF RsIInv, RsPhases, RsTypes
<1>2. \A p \in RsPoints : rsWeight[rsInto][p] = RsApply(rsOp, RsAt(rsSets[rsInto], p), 0)
  BY <1>1, PointsInt, AtEmpty DEF RsIInv, RsWeighed
<1>3. \A p \in RsPoints : RsAt(rsSets[rsInto], p) \in Nat
  BY <1>1, PointsInt, AtNat
<1>4. \A p \in RsPoints : rsWeight[rsInto][p] = RsAt(rsSets[rsInto], p)
  BY <1>2, <1>3, ApplyZero
<1>. QED  BY <1>4 DEF RsIInv, RsWeighed

LEMMA RsStart ==
  ASSUME RsInit
  PROVE  RsIInv
<1>1. \A p \in RsPoints : RsAt({}, p) = 0
  BY PointsInt, AtEmpty
<1>2. Pieces = {}
  BY DEF RsInit, Pieces
<1>3. RsTypes
  BY RsBoundsAssumption, FinRngMade DEF RsInit, RsTypes, Sides
<1>4. RsPhases /\ RsComparing
  BY <1>2 DEF RsInit, RsPhases, RsComparing
<1>5. RsDisjoint
  BY <1>2 DEF RsInit, RsDisjoint, Apart, Sides
<1>6. RsWeighed
  BY <1>1, <1>2 DEF RsInit, RsWeighed, Sides, RsApply
<1>. QED  BY <1>3, <1>4, <1>5, <1>6 DEF RsIInv

LEMMA RsAdding ==
  ASSUME RsIInv, NEW S \in FinRng, NEW op \in {"add", "max"}, NEW into \in Sides,
         op = "max" /\ ~rsGaveUp => Apart(S), rsAdded <= RsAdds, RsAdd(S, op, into)
  PROVE  RsIInv'
<1>1. rsPc \in {"idle", "ready"} /\ Pieces = {} /\ rsQueue = {}
  BY DEF RsIInv, RsPhases, RsAdd
<1>2. /\ rsSets' = rsSets /\ rsGaveUp' = rsGaveUp /\ rsQueue' = S /\ rsOp' = op /\ rsInto' = into
      /\ rsPc' = "add" /\ rsWeight' = [rsWeight EXCEPT ![into] = RsMeaning(op, @, S)]
      /\ UNCHANGED <<rsWork, rsNext, rsDone>>
  BY DEF RsAdd
<1>3. Pieces' = {} /\ rsDone' = {}
  BY <1>1, <1>2 DEF Pieces
<1>4. \A p \in RsPoints : RsAt(S, p) \in Nat
  BY PointsInt, AtNat
<1>5. rsWeight \in [Sides -> [RsPoints -> Nat]] /\ RsMeaning(op, rsWeight[into], S) \in [RsPoints -> Nat]
  BY <1>4, ApplyType DEF RsIInv, RsTypes, RsMeaning
<1>6. RsTypes'
  <2>1. rsWeight' \in [Sides -> [RsPoints -> Nat]]
    BY <1>2, <1>5
  <2>2. rsAdded' \in 0 .. RsAdds + 1
    BY RsBoundsAssumption DEF RsAdd, RsIInv, RsTypes
  <2>. QED  BY <2>1, <2>2 DEF RsAdd, RsIInv, RsTypes, rsCompareVars
<1>7. RsPhases' /\ RsComparing'
  BY <1>2, <1>3 DEF RsPhases, RsComparing
<1>8. RsDisjoint'
  <2>1. op = "max" /\ ~rsGaveUp => Apart(S \cup {})
    OBVIOUS
  <2>. QED  BY <1>2, <1>3, <2>1 DEF RsIInv, RsDisjoint, Apart, Pieces
<1>9. RsWeighed'
  <2> SUFFICES ASSUME ~rsGaveUp  PROVE RsWeighed'
    BY <1>2 DEF RsWeighed
  <2>1. \A s \in Sides : \A p \in RsPoints : rsWeight[s][p] = RsAt(rsSets[s], p)
    BY <1>1, Settled
  <2>2. \A s \in Sides : s # into => rsWeight'[s] = rsWeight[s]
    BY <1>2, <1>5
  <2>3. \A p \in RsPoints : rsWeight'[into][p] = RsApply(op, RsAt(rsSets[into], p), RsAt(S, p) + 0)
    <3> SUFFICES ASSUME NEW p \in RsPoints
                 PROVE  rsWeight'[into][p] = RsApply(op, RsAt(rsSets[into], p), RsAt(S, p) + 0)
      OBVIOUS
    <3>1. rsWeight'[into][p] = RsMeaning(op, rsWeight[into], S)[p]
      BY <1>2, <1>5
    <3>2. RsAt(S, p) + 0 = RsAt(S, p) /\ rsWeight[into][p] = RsAt(rsSets[into], p)
      BY <1>4, <2>1
    <3>3. CASE \E x \in S : RsCovers(x, p)
      BY <3>1, <3>2, <3>3 DEF RsMeaning
    <3>4. CASE \A x \in S : ~RsCovers(x, p)
      <4>1. RsAt(S, p) = 0 /\ rsWeight[into][p] \in Nat
        BY <1>5, <3>4, PointsInt, AtNone DEF FinRng
      <4>2. rsWeight'[into][p] = rsWeight[into][p]
        BY <3>1, <3>4 DEF RsMeaning
      <4>. QED  BY <3>2, <4>1, <4>2, ApplyZero
    <3>. QED  BY <3>3, <3>4
  <2>4. \A p \in RsPoints : RsAt({}, p) = 0
    BY PointsInt, AtEmpty
  <2>. QED  BY <1>2, <1>3, <2>1, <2>2, <2>3, <2>4 DEF RsWeighed
<1>. QED  BY <1>6, <1>7, <1>8, <1>9 DEF RsIInv

LEMMA RsTaking ==
  ASSUME RsIInv, NEW x \in rsQueue, RsTake(x)
  PROVE  RsIInv'
<1>1. Pieces = {} /\ rsQueue \in FinRng /\ x \in Rng
  BY DEF RsIInv, RsPhases, RsTypes, RsTake, FinRng
<1>2. Pieces' = {x} /\ rsQueue' = rsQueue \ {x}
  BY DEF RsTake, Pieces
<1>3. RsTypes'
  <2>1. rsQueue' \in FinRng
    BY <1>1, <1>2, FinRngMade
  <2>. QED  BY <1>1, <2>1, RsBoundsAssumption DEF RsTake, RsIInv, RsTypes, rsCompareVars
<1>4. RsPhases' /\ RsComparing'
  BY DEF RsTake, RsPhases, RsComparing
<1>5. RsDisjoint'
  <2>1. Apart({x})
    BY DEF Apart
  <2>2. (rsQueue \ {x}) \cup {x} = rsQueue /\ rsQueue \cup {} = rsQueue
    OBVIOUS
  <2>3. rsOp = "max" /\ ~rsGaveUp => Apart(rsQueue)
    BY <1>1, <2>2 DEF RsIInv, RsDisjoint
  <2>. QED  BY <1>2, <2>1, <2>2, <2>3 DEF RsTake, RsIInv, RsDisjoint
<1>6. RsWeighed'
  <2> SUFFICES ASSUME ~rsGaveUp  PROVE RsWeighed'
    BY DEF RsTake, RsWeighed
  <2>1. ASSUME NEW p \in RsPoints
        PROVE  RsAt(rsQueue, p) + RsAt({}, p) = RsAt(rsQueue \ {x}, p) + RsAt({x}, p)
    <3> DEFINE n == IF RsCovers(x, p) THEN x.w ELSE 0
               Q == rsQueue \ {x}
    <3>1. p \in Int /\ Q \in FinRng /\ {} \in FinRng /\ rsQueue = Q \cup {x}
      BY <1>1, FinRngMade, PointsInt
    <3>2. RsAt(Q \cup {x}, p) = RsAt(Q, p) + n
      <4>1. IsFiniteSet(Q) /\ (\A y \in Q : y \in Rng) /\ x \in Rng /\ x \notin Q /\ p \in Int
        BY <1>1, <3>1 DEF FinRng
      <4>. QED  BY <4>1, AtAdd
    <3>3. RsAt({} \cup {x}, p) = RsAt({}, p) + n
      <4>1. IsFiniteSet({}) /\ (\A y \in {} : y \in Rng) /\ x \in Rng /\ x \notin {} /\ p \in Int
        BY <1>1, <3>1 DEF FinRng
      <4>. QED  BY <4>1, AtAdd
    <3>4. {} \cup {x} = {x} /\ RsAt({}, p) = 0 /\ RsAt(Q, p) \in Nat /\ n \in Int
      BY <1>1, <3>1, AtEmpty, AtNat, RngFields
    <3> HIDE DEF Q, n
    <3>. QED  BY <3>1, <3>2, <3>3, <3>4 DEF Q
  <2>. QED  BY <1>1, <1>2, <2>1 DEF RsTake, RsIInv, RsWeighed
<1>. QED  BY <1>3, <1>4, <1>5, <1>6 DEF RsIInv

(* A piece divided: the pieces stay disjoint and mean the same              *)
LEMMA Divided ==
  ASSUME NEW S, \A x \in S : x \in Rng, Apart(S), NEW t \in S,
         NEW P, \A x \in P : x \in Rng /\ Within(x, t) /\ x.w = t.w, Apart(P),
         \A p \in Int : RsCovers(t, p) => \E x \in P : RsCovers(x, p)
  PROVE  LET T == (S \ {t}) \cup P
         IN /\ Apart(T)
            /\ \A p \in Int : RsAt(T, p) = RsAt(S, p)
            /\ P \cap (S \ {t}) = {}
<1> DEFINE T == (S \ {t}) \cup P
<1>1. /\ \A x \in T : x \in Rng
      /\ Apart(T)
      /\ \A p \in Int : /\ RsCovers(t, p) => RsAt(T, p) = RsAt(P, p)
                        /\ ~RsCovers(t, p) => RsAt(T, p) = RsAt(S, p)
  <2>1. \A x \in P : x \in Rng /\ Within(x, t)
    OBVIOUS
  <2>. QED  BY <2>1, Replaced
<1>2. ASSUME NEW p \in Int, RsCovers(t, p)  PROVE RsAt(T, p) = RsAt(S, p)
  <2>1. PICK x \in P : RsCovers(x, p)
    BY <1>2
  <2>2. \A y \in P : y \in Rng
    OBVIOUS
  <2>3. RsAt(P, p) = x.w
    BY <2>1, <2>2, AtApart
  <2>4. RsAt(S, p) = t.w
    BY <1>2, AtApart
  <2>. QED  BY <1>1, <1>2, <2>3, <2>4
<1>3. ASSUME NEW x \in P, x \in S \ {t}  PROVE FALSE
  <2>1. RsMeets(x, t)
    BY RngFields DEF RsMeets, Within
  <2>. QED  BY <1>3, <2>1 DEF Apart
<1> HIDE DEF T
<1>. QED  BY <1>1, <1>2, <1>3 DEF T

LEMMA RsSplitting ==
  ASSUME RsIInv, NEW t \in rsWork, RsSplit(t)
  PROVE  RsIInv'
<1> DEFINE S == rsSets[rsInto]
           hits == {r \in S : RsMeets(r, t)}
<1>1. /\ S \in FinRng /\ (\A x \in S : x \in Rng) /\ t \in Rng /\ t \in Pieces
      /\ \A x \in Pieces : x \in Rng
  BY DEF RsIInv, RsTypes, Pieces, FinRng
<1>2. /\ UNCHANGED <<rsSets, rsOp, rsInto, rsQueue, rsRound, rsCompareVars,
                     rsAdded, rsPc, rsWeight, rsGaveUp>>
      /\ rsWork' = rsWork \ {t} /\ rsPc = "split"
  BY DEF RsSplit
<1>3. RsComparing'
  BY <1>2 DEF RsComparing
<1>4. RsPhases' /\ rsQueue \in FinRng
  BY <1>2 DEF RsPhases, RsIInv, RsTypes
<1>5. CASE hits = {} /\ rsDone' = rsDone \cup {t} /\ rsNext' = rsNext
  <2>1. Pieces' = Pieces
    BY <1>2, <1>5 DEF Pieces
  <2>2. RsTypes'
    BY <1>2, <1>5, RsBoundsAssumption DEF RsIInv, RsTypes, rsCompareVars
  <2>3. \A r \in S : ~RsMeets(t, r)
    BY <1>1, <1>5, RngFields DEF RsMeets
  <2>4. Fits(t, S)
    BY <2>3 DEF Fits
  <2>5. RsDisjoint'
    BY <1>2, <1>5, <2>1, <2>4 DEF RsIInv, RsDisjoint
  <2>6. RsWeighed'
    BY <1>2, <2>1 DEF RsIInv, RsWeighed
  <2>. QED  BY <1>3, <1>4, <2>2, <2>5, <2>6 DEF RsIInv
<1>6. CASE \E r \in hits : /\ rsDone' = rsDone \cup {RsInside(t, r)}
                           /\ rsNext' = rsNext \cup RsBeside(t, r)
  <2>1. PICK r \in hits : /\ rsDone' = rsDone \cup {RsInside(t, r)}
                          /\ rsNext' = rsNext \cup RsBeside(t, r)
    BY <1>6
  <2> DEFINE i == RsInside(t, r)
             B == RsBeside(t, r)
             P == {i} \cup B
  <2>2. r \in S /\ r \in Rng /\ RsMeets(r, t) /\ Span(r)
    BY <1>1, <2>1, RngSpan
  <2>3. /\ \A x \in P : x \in Rng /\ Within(x, t) /\ x.w = t.w
        /\ Apart(P)
        /\ i \notin B
        /\ Within(i, r)
        /\ \A p \in Int : RsCovers(t, p) => \E x \in P : RsCovers(x, p)
    BY <1>1, <2>2, PartsOf
  <2> HIDE DEF i, B
  <2>4. rsDone' = rsDone \cup {i} /\ rsNext' = rsNext \cup B
    BY <2>1 DEF i, B
  <2>5. RsTypes'
    <3>1. rsDone' \in SUBSET Rng /\ rsNext' \in SUBSET Rng /\ rsWork' \in SUBSET Rng
      BY <1>2, <2>3, <2>4 DEF RsIInv, RsTypes
    <3>. QED  BY <1>2, <3>1 DEF RsIInv, RsTypes, rsCompareVars
  <2>6. ASSUME ~rsGaveUp
        PROVE  Pieces' = (Pieces \ {t}) \cup P /\ P \cap (Pieces \ {t}) = {}
               /\ Apart(Pieces') /\ \A p \in Int : RsAt(Pieces', p) = RsAt(Pieces, p)
    <3>1. t \notin rsNext /\ t \notin rsDone /\ Apart(Pieces)
      BY <2>6 DEF RsIInv, RsDisjoint
    <3>2. Pieces' = (Pieces \ {t}) \cup P
      BY <1>2, <2>4, <3>1 DEF Pieces
    <3>3. /\ Apart((Pieces \ {t}) \cup P)
          /\ \A p \in Int : RsAt((Pieces \ {t}) \cup P, p) = RsAt(Pieces, p)
          /\ P \cap (Pieces \ {t}) = {}
      <4> HIDE DEF P
      <4>. QED  BY <1>1, <2>3, <3>1, Divided
    <3>. QED  BY <3>2, <3>3
  <2>7. RsDisjoint'
    <3> SUFFICES ASSUME ~rsGaveUp  PROVE RsDisjoint'
      BY <1>2 DEF RsDisjoint
    <3>1. t \notin rsNext /\ t \notin rsDone /\ Apart(S) /\ rsWork \cap rsNext = {}
          /\ rsWork \cap rsDone = {} /\ rsNext \cap rsDone = {}
      BY DEF RsIInv, RsDisjoint, RsTypes
    <3>2. /\ rsWork' \cap rsNext' = {} /\ rsWork' \cap rsDone' = {} /\ rsNext' \cap rsDone' = {}
      BY <1>2, <2>3, <2>4, <2>6, <3>1 DEF Pieces
    <3>3. ASSUME rsOp = "max"
          PROVE  Apart(rsQueue \cup Pieces') /\ rsQueue \cap Pieces' = {}
      <4> DEFINE U == rsQueue \cup Pieces
      <4>1. Apart(U) /\ rsQueue \cap Pieces = {} /\ \A x \in U : x \in Rng
        BY <1>1, <3>3 DEF RsIInv, RsDisjoint, RsTypes, FinRng
      <4>2. Apart((U \ {t}) \cup P) /\ P \cap (U \ {t}) = {}
        <5>1. t \in U
          BY <1>1
        <5> HIDE DEF U, P
        <5>. QED  BY <2>3, <4>1, <5>1, Divided
      <4>3. (U \ {t}) \cup P = rsQueue \cup Pieces'
        BY <1>1, <2>6, <4>1
      <4>4. rsQueue \cap Pieces' = {}
        BY <1>1, <2>6, <4>1, <4>2
      <4>. QED  BY <4>2, <4>3, <4>4
    <3>4. Fits(i, S)
      <4> SUFFICES ASSUME NEW y \in S, RsMeets(i, y)  PROVE Within(i, y)
        BY DEF Fits
      <4>1. i \in Rng /\ y \in Rng
        BY <1>1, <2>3
      <4>2. RsMeets(r, y)
        BY <2>2, <2>3, <4>1, RngFields DEF RsMeets, Within
      <4>. QED  BY <2>2, <2>3, <3>1, <4>2 DEF Apart
    <3>5. \A x \in rsDone' : Fits(x, S)
      BY <2>4, <3>4 DEF RsIInv, RsDisjoint
    <3>. QED  BY <1>2, <2>6, <3>2, <3>3, <3>5 DEF RsIInv, RsDisjoint
  <2>8. RsWeighed'
    <3>1. ~rsGaveUp => \A p \in RsPoints : RsAt(Pieces', p) = RsAt(Pieces, p)
      BY <2>6, PointsInt
    <3>. QED  BY <1>2, <3>1 DEF RsIInv, RsWeighed
  <2>. QED  BY <1>3, <1>4, <2>5, <2>7, <2>8 DEF RsIInv
<1>. QED  BY <1>5, <1>6 DEF RsSplit

LEMMA RsRoundEnds ==
  ASSUME RsIInv, RsNextRound \/ RsDecomposed \/ RsAdded
  PROVE  RsIInv'
<1>1. CASE RsNextRound
  <2>1. Pieces' = Pieces
    BY <1>1 DEF RsNextRound, Pieces
  <2>2. rsRound' \in 0 .. RsRounds
    BY <1>1, RsBoundsAssumption DEF RsNextRound, RsIInv, RsTypes
  <2>3. RsTypes'
    BY <1>1, <2>2 DEF RsNextRound, RsIInv, RsTypes, rsCompareVars
  <2>4. RsPhases' /\ RsComparing'
    BY <1>1 DEF RsNextRound, RsPhases, RsComparing
  <2>5. RsDisjoint' /\ RsWeighed'
    BY <1>1, <2>1 DEF RsNextRound, RsIInv, RsDisjoint, RsWeighed
  <2>. QED  BY <2>3, <2>4, <2>5 DEF RsIInv
<1>2. CASE RsDecomposed
  <2>1. Pieces' = Pieces
    BY <1>2 DEF RsDecomposed, Pieces
  <2>2. RsTypes'
    BY <1>2 DEF RsDecomposed, RsIInv, RsTypes, rsCompareVars
  <2>3. RsPhases' /\ RsComparing' /\ RsWeighed'
    BY <1>2, <2>1 DEF RsDecomposed, RsPhases, RsComparing, RsIInv, RsWeighed
  <2>4. RsDisjoint'
    <3>1. ~rsGaveUp' => ~rsGaveUp /\ \A x \in rsNext : Fits(x, rsSets[rsInto])
      <4> SUFFICES ASSUME ~rsGaveUp', NEW x \in rsNext, NEW r \in rsSets[rsInto], RsMeets(x, r)
                   PROVE  ~rsGaveUp /\ Within(x, r)
        BY <1>2 DEF Fits, RsDecomposed
      <4>1. ~rsGaveUp /\ RsInside(x, r) = x
        BY <1>2 DEF RsDecomposed
      <4>2. x \in Rng /\ r \in Rng
        BY DEF RsIInv, RsTypes, FinRng
      <4>3. RsInside(x, r) = [lo |-> RsLarger(x.lo, r.lo), hi |-> RsSmaller(x.hi, r.hi), w |-> x.w]
        BY <4>2, InsideOf
      <4>4. x.lo = RsLarger(x.lo, r.lo) /\ x.hi = RsSmaller(x.hi, r.hi)
        BY <4>1, <4>3
      <4>. QED  BY <4>1, <4>2, <4>4, RngFields DEF RsLarger, RsSmaller, Within
    <3>. QED  BY <1>2, <2>1, <3>1 DEF RsDecomposed, RsIInv, RsDisjoint
  <2>. QED  BY <2>2, <2>3, <2>4 DEF RsIInv
<1>3. CASE RsAdded
  <2>1. Pieces = {}
    BY <1>3 DEF RsAdded, RsIInv, RsPhases, Pieces
  <2>2. RsTypes' /\ Pieces' = Pieces
    BY <1>3 DEF RsAdded, RsIInv, RsTypes, rsCompareVars, rsAddVars, Pieces
  <2>3. RsPhases' /\ RsComparing' /\ RsWeighed' /\ RsDisjoint'
    BY <1>3, <2>1, <2>2
    DEF RsAdded, RsPhases, RsComparing, RsIInv, RsWeighed, RsDisjoint, rsAddVars
  <2>. QED  BY <2>2, <2>3 DEF RsIInv
<1>. QED  BY <1>1, <1>2, <1>3

LEMMA RsInserting ==
  ASSUME RsIInv, NEW n \in rsDone, RsInsert(n)
  PROVE  RsIInv'
<1> DEFINE S == rsSets[rsInto]
<1>1. /\ S \in FinRng /\ n \in Rng /\ rsInto \in Sides /\ rsOp \in {"add", "max"}
      /\ rsSets \in [Sides -> FinRng] /\ rsQueue \in FinRng
      /\ Pieces = rsDone /\ (\A x \in rsDone : x \in Rng)
  BY DEF RsIInv, RsTypes, RsPhases, RsInsert, Pieces
<1>2. PICK order \in SetToSeqs({r \in S : RsMeets(n, r)}) :
        rsSets' = [rsSets EXCEPT ![rsInto] = RsInserted(n, S, order, rsOp)]
  BY DEF RsInsert
<1> DEFINE T == RsInserted(n, S, order, rsOp)
<1>3. /\ rsDone' = rsDone \ {n} /\ rsPc = "insert"
      /\ UNCHANGED <<rsOp, rsInto, rsQueue, rsWork, rsNext, rsRound, rsCompareVars,
                     rsAdded, rsPc, rsWeight, rsGaveUp>>
  BY DEF RsInsert
<1>4. T \in FinRng
  <2>1. {r \in S : RsMeets(n, r)} \in FinRng
    BY <1>1, FinRngMade
  <2>2. order \in Seq(Rng)
    BY <2>1, OrdersOf
  <2>. QED  BY <1>1, <2>2, InsertedType
<1>5. rsSets'[rsInto] = T /\ \A s \in Sides : s # rsInto => rsSets'[s] = rsSets[s]
  BY <1>1, <1>2
<1> HIDE DEF T
<1>6. RsTypes'
  <2>1. rsSets' \in [Sides -> FinRng]
    BY <1>1, <1>2, <1>4 DEF T
  <2>. QED  BY <1>3, <2>1 DEF RsIInv, RsTypes, rsCompareVars
<1>7. Pieces' = rsDone \ {n} /\ RsPhases' /\ RsComparing'
  BY <1>3 DEF RsIInv, RsPhases, RsComparing, Pieces
<1>8. ASSUME ~rsGaveUp
      PROVE  /\ Apart(S) /\ Apart(rsDone) /\ Apart(T)
             /\ \A p \in Int : /\ RsCovers(n, p) => RsAt(T, p) = RsApply(rsOp, RsAt(S, p), n.w)
                               /\ ~RsCovers(n, p) => RsAt(T, p) = RsAt(S, p)
             /\ \A m \in rsDone \ {n} : Fits(m, T)
  <2>1. Apart(S) /\ Apart(rsDone) /\ \A m \in rsDone : Fits(m, S)
    BY <1>1, <1>8 DEF RsIInv, RsDisjoint
  <2>2. /\ Apart(T)
        /\ \A p \in Int : /\ RsCovers(n, p) => RsAt(T, p) = RsApply(rsOp, RsAt(S, p), n.w)
                          /\ ~RsCovers(n, p) => RsAt(T, p) = RsAt(S, p)
        /\ \A m \in Rng : Fits(m, S) /\ ~RsMeets(m, n) => Fits(m, T)
    BY <1>1, <2>1, Inserted DEF T
  <2>. QED  BY <1>1, <2>1, <2>2 DEF Apart
<1>9. RsDisjoint'
  <2> SUFFICES ASSUME ~rsGaveUp  PROVE RsDisjoint'
    BY <1>3 DEF RsDisjoint
  <2>1. \A s \in Sides : Apart(rsSets'[s])
    BY <1>5, <1>8 DEF RsIInv, RsDisjoint
  <2>2. Apart(Pieces') /\ rsWork' = {} /\ rsNext' = {}
    BY <1>3, <1>7, <1>8 DEF Apart, RsIInv, RsPhases
  <2>3. rsOp = "max" => Apart(rsQueue \cup Pieces') /\ rsQueue \cap Pieces' = {}
    BY <1>1, <1>7 DEF RsIInv, RsDisjoint, Apart
  <2>4. \A x \in rsDone' : Fits(x, T)
    BY <1>3, <1>8
  <2>. QED  BY <1>3, <1>5, <2>1, <2>2, <2>3, <2>4 DEF RsDisjoint
<1>10. RsWeighed'
  <2> SUFFICES ASSUME ~rsGaveUp  PROVE RsWeighed'
    BY <1>3 DEF RsWeighed
  <2> DEFINE Q(p) == RsAt(rsQueue, p)
  <2>1. \A s \in Sides : s # rsInto => \A p \in RsPoints : rsWeight[s][p] = RsAt(rsSets'[s], p)
    BY <1>5 DEF RsIInv, RsWeighed
  <2>2. ASSUME NEW p \in RsPoints
        PROVE  rsWeight[rsInto][p] = RsApply(rsOp, RsAt(T, p), Q(p) + RsAt(rsDone \ {n}, p))
    <3>1. /\ rsWeight[rsInto][p] = RsApply(rsOp, RsAt(S, p), Q(p) + RsAt(rsDone, p))
          /\ p \in Int /\ Q(p) \in Nat /\ RsAt(S, p) \in Nat
      BY <1>1, PointsInt, AtNat DEF RsIInv, RsWeighed
    <3>2. (\A x \in rsDone \ {n} : x \in Rng) /\ Apart(rsDone \ {n}) /\ Apart(rsDone)
      BY <1>1, <1>8 DEF Apart
    <3>3. CASE RsCovers(n, p)
      <4>1. RsAt(rsDone, p) = n.w /\ RsAt(T, p) = RsApply(rsOp, RsAt(S, p), n.w)
        BY <1>1, <1>8, <3>1, <3>2, <3>3, AtApart
      <4>2. \A x \in rsDone \ {n} : ~RsCovers(x, p)
        BY <1>1, <3>1, <3>2, <3>3, OneCovers
      <4>3. RsAt(rsDone \ {n}, p) = 0
        BY <3>1, <3>2, <4>2, AtNone
      <4>4. rsOp = "max" => Q(p) = 0
        <5> SUFFICES ASSUME rsOp = "max"  PROVE Q(p) = 0
          OBVIOUS
        <5>1. /\ Apart(rsQueue \cup rsDone) /\ n \notin rsQueue
              /\ \A x \in rsQueue \cup rsDone : x \in Rng
          BY <1>1 DEF RsIInv, RsDisjoint, FinRng
        <5>2. \A x \in rsQueue : ~RsCovers(x, p)
          BY <3>1, <3>3, <5>1, OneCovers
        <5>. QED  BY <3>1, <5>1, <5>2, AtNone
      <4>5. n.w \in Nat
        BY <1>1, RngFields
      <4> HIDE DEF Q, S
      <4>. QED  BY <1>1, <3>1, <4>1, <4>3, <4>4, <4>5 DEF RsApply, RsLarger
    <3>4. CASE ~RsCovers(n, p)
      <4>1. RsAt(T, p) = RsAt(S, p)
        BY <1>8, <3>1, <3>4
      <4>2. RsAt(rsDone, p) = RsAt(rsDone \ {n}, p)
        <5>1. \A x \in rsDone : RsCovers(x, p) => \E y \in rsDone \ {n} : RsCovers(y, p) /\ y.w = x.w
          BY <3>4
        <5>2. \A y \in rsDone \ {n} : RsCovers(y, p) => \E x \in rsDone : RsCovers(x, p)
          OBVIOUS
        <5>. QED  BY <1>1, <3>1, <3>2, <5>1, <5>2, AtSame
      <4>. QED  BY <3>1, <4>1, <4>2
    <3>. QED  BY <3>3, <3>4
  <2>. QED  BY <1>3, <1>5, <1>7, <2>1, <2>2 DEF RsWeighed
<1>. QED  BY <1>6, <1>7, <1>9, <1>10 DEF RsIInv

-----------------------------------------------------------------------------
(* The comparison: the cells under the weights, and the common cells of a   *)
(* pair of ranges                                                           *)
LEMMA UnderIn ==
  ASSUME NEW s, NEW c
  PROVE  c \in RsUnder(s) <=> \E p \in RsPoints : \E i \in 1 .. rsWeight[s][p] : c = <<p, i>>
BY DEF RsUnder

LEMMA UnderFinite ==
  ASSUME RsTypes, NEW s \in Sides
  PROVE  IsFiniteSet(RsUnder(s))
<1> DEFINE Over(p) == {p} \X (1 .. rsWeight[s][p])
           T == {Over(p) : p \in RsPoints}
           f == [p \in RsPoints |-> Over(p)]
<1>1. f \in Surjection(RsPoints, T)
  BY DEF Surjection
<1>2. IsFiniteSet(T)
  BY <1>1, RsPointsAssumption, FS_Surjection
<1>3. \A C \in T : IsFiniteSet(C)
  <2> SUFFICES ASSUME NEW p \in RsPoints  PROVE IsFiniteSet(Over(p))
    OBVIOUS
  <2>1. rsWeight[s][p] \in Nat
    BY DEF RsTypes
  <2>. QED  BY <2>1, Numbers, Column
<1>4. IsFiniteSet(UNION T)
  <2> HIDE DEF T
  <2>. QED  BY <1>2, <1>3, FS_UNION
<1>. QED  BY <1>4 DEF RsUnder

(* A set of disjoint ranges has an area of as many cells as are under its   *)
(* weights                                                                  *)
LEMMA AreaUnder ==
  ASSUME RsTypes, NEW s \in Sides, Apart(rsSets[s]),
         \A p \in RsPoints : rsWeight[s][p] = RsAt(rsSets[s], p)
  PROVE  RsArea(rsSets[s]) = Cardinality(RsUnder(s))
<1> DEFINE S == rsSets[s]
           f == [c \in RsCells(S) |-> c[2]]
<1>1. IsFiniteSet(S) /\ \A x \in S : x \in Rng
  BY DEF RsTypes, FinRng
<1>2. ASSUME NEW x \in S, NEW p \in x.lo .. x.hi
      PROVE  p \in RsPoints /\ p \in Int /\ rsWeight[s][p] = x.w
  <2>1. RsCovers(x, p) /\ p \in Int
    BY <1>1, RngFields DEF RsCovers
  <2>2. p \in RsPoints
    BY <1>1, <2>1, CoveredPoint
  <2>3. RsAt(S, p) = x.w
    BY <1>1, <2>1, AtApart
  <2>. QED  BY <2>1, <2>2, <2>3
<1>3. ASSUME NEW c \in RsCells(S)
      PROVE  \E x \in S : \E p \in x.lo .. x.hi : \E i \in 1 .. x.w :
               c = <<x, <<p, i>>>> /\ c[1] = x /\ c[2] = <<p, i>> /\ p \in RsPoints
               /\ rsWeight[s][p] = x.w
  <2>1. PICK x \in S : c \in CellsOf(x)
    BY CellsIn
  <2>2. PICK p \in x.lo .. x.hi, i \in 1 .. x.w : c = <<x, <<p, i>>>>
    BY <2>1, CellIn
  <2>. QED  BY <1>2, <2>2
<1>4. f \in [RsCells(S) -> RsUnder(s)]
  <2> SUFFICES ASSUME NEW c \in RsCells(S)  PROVE c[2] \in RsUnder(s)
    OBVIOUS
  <2>. QED  BY <1>3, UnderIn
<1>5. \A c, d \in RsCells(S) : f[c] = f[d] => c = d
  <2> SUFFICES ASSUME NEW c \in RsCells(S), NEW d \in RsCells(S), c[2] = d[2]  PROVE c = d
    OBVIOUS
  <2>1. PICK x \in S : \E p \in x.lo .. x.hi : \E i \in 1 .. x.w : c = <<x, <<p, i>>>> /\ c[2] = <<p, i>>
    BY <1>3
  <2>2. PICK p \in x.lo .. x.hi, i \in 1 .. x.w : c = <<x, <<p, i>>>> /\ c[2] = <<p, i>>
    BY <2>1
  <2>3. PICK y \in S : \E q \in y.lo .. y.hi : \E j \in 1 .. y.w : d = <<y, <<q, j>>>> /\ d[2] = <<q, j>>
    BY <1>3
  <2>4. PICK q \in y.lo .. y.hi, j \in 1 .. y.w : d = <<y, <<q, j>>>> /\ d[2] = <<q, j>>
    BY <2>3
  <2>5. p = q /\ i = j
    BY <2>2, <2>4
  <2>6. RsCovers(x, p) /\ RsCovers(y, p) /\ p \in Int
    BY <1>1, <2>5, RngFields DEF RsCovers
  <2>7. x = y
    BY <1>1, <2>6, OneCovers
  <2>. QED  BY <2>2, <2>4, <2>5, <2>7
<1>6. \A u \in RsUnder(s) : \E c \in RsCells(S) : f[c] = u
  <2> SUFFICES ASSUME NEW u \in RsUnder(s)  PROVE \E c \in RsCells(S) : c[2] = u
    OBVIOUS
  <2>1. PICK p \in RsPoints : \E i \in 1 .. rsWeight[s][p] : u = <<p, i>>
    BY UnderIn
  <2>2. PICK i \in 1 .. rsWeight[s][p] : u = <<p, i>>
    BY <2>1
  <2>3. p \in Int /\ rsWeight[s][p] = RsAt(S, p) /\ rsWeight[s][p] # 0
    BY <2>2, PointsInt DEF RsTypes
  <2>4. PICK x \in S : RsCovers(x, p)
    BY <1>1, <2>3, AtNone
  <2>5. p \in x.lo .. x.hi
    BY <1>1, <2>3, <2>4, RngFields DEF RsCovers
  <2>6. i \in 1 .. x.w
    BY <1>2, <2>2, <2>5
  <2>7. <<x, u>> \in CellsOf(x)
    BY <2>2, <2>5, <2>6, CellIn
  <2>8. <<x, u>> \in RsCells(S)
    BY <2>7, CellsIn
  <2>. QED  BY <2>8
<1>7. f \in Bijection(RsCells(S), RsUnder(s))
  <2> HIDE DEF f
  <2>1. f \in Injection(RsCells(S), RsUnder(s))
    BY <1>4, <1>5 DEF Injection, IsInjective
  <2>2. f \in Surjection(RsCells(S), RsUnder(s))
    BY <1>4, <1>6 DEF Surjection
  <2>. QED  BY <2>1, <2>2 DEF Bijection
<1>8. IsFiniteSet(RsCells(S))
  BY <1>1, CellsFinite
<1>. QED  BY <1>7, <1>8, FS_Bijection DEF ExistsBijection, RsArea

LEMMA RsComparisonStarts ==
  ASSUME RsIInv, RsCompare
  PROVE  RsIInv'
<1>1. /\ rsPc = "ready" /\ rsPc' = "compare" /\ rsDiff' = rsSets /\ rsShared' = 0
      /\ rsPairs' = {x \in rsSets["l"] \X rsSets["r"] : RsMeets(x[1], x[2])}
      /\ UNCHANGED <<rsSets, rsAddVars, rsAdded, rsWeight, rsGaveUp, rsInner>>
  BY DEF RsCompare
<1>2. /\ rsSets \in [Sides -> FinRng] /\ "l" \in Sides /\ "r" \in Sides
      /\ \A s \in Sides : \A x \in rsSets[s] : x \in Rng
  BY DEF RsIInv, RsTypes, Sides, FinRng
<1>3. RsTypes'
  <2>1. rsPairs' \in SUBSET (Rng \X Rng) /\ \A x \in rsPairs' : RsMeets(x[1], x[2])
    BY <1>1, <1>2
  <2>2. rsDiff' \in [Sides -> SUBSET Rng]
    BY <1>1, <1>2 DEF FinRng
  <2>. QED  BY <1>1, <2>1, <2>2 DEF RsIInv, RsTypes, rsAddVars
<1>4. RsPhases' /\ RsDisjoint' /\ RsWeighed'
  BY <1>1 DEF RsIInv, RsPhases, RsDisjoint, RsWeighed, rsAddVars, Pieces
<1>5. RsComparing'
  <2> SUFFICES ASSUME ~rsGaveUp  PROVE RsComparing'
    BY <1>1 DEF RsComparing
  <2>1. \A s \in Sides : \A p \in RsPoints :
          rsWeight[s][p] = RsAt(rsSets[s], p) /\ rsWeight[s][p] \in Nat
    BY <1>1, Settled DEF RsIInv, RsTypes
  <2>2. \A s \in Sides : Apart(rsSets[s])
    BY DEF RsIInv, RsDisjoint
  <2>3. ASSUME NEW p \in RsPoints, rsWeight["l"][p] > 0, rsWeight["r"][p] > 0
        PROVE  Due(p)'
    <3>1. p \in Int /\ RsAt(rsSets["l"], p) # 0 /\ RsAt(rsSets["r"], p) # 0
      BY <1>2, <2>1, <2>3, PointsInt
    <3>2. PICK x \in rsSets["l"] : RsCovers(x, p)
      BY <1>2, <3>1, AtNone
    <3>3. PICK y \in rsSets["r"] : RsCovers(y, p)
      BY <1>2, <3>1, AtNone
    <3>4. x \in Rng /\ y \in Rng
      BY <1>2
    <3>5. RsMeets(x, y) /\ RsCovers(RsCommon(x, y), p)
      BY <3>1, <3>2, <3>3, <3>4, RngFields
      DEF RsCovers, RsMeets, RsCommon, RsLarger, RsSmaller
    <3>6. <<x, y>> \in rsPairs'
      BY <1>1, <3>5
    <3>. QED  BY <3>5, <3>6 DEF Due
  <2>4. Counted' = {}
    <3> SUFFICES ASSUME NEW c \in RsUnder("l"), c \in RsUnder("r")  PROVE Due(c[1])'
      BY <1>1 DEF Counted, RsUnder
    <3>1. PICK p \in RsPoints : \E i \in 1 .. rsWeight["l"][p] : c = <<p, i>>
      BY UnderIn
    <3>2. PICK q \in RsPoints : \E i \in 1 .. rsWeight["r"][q] : c = <<q, i>>
      BY UnderIn
    <3>3. p = q /\ c[1] = p
      BY <3>1, <3>2
    <3>4. rsWeight["l"][p] > 0 /\ rsWeight["r"][p] > 0
      BY <1>2, <2>1, <3>1, <3>2, <3>3
    <3>. QED  BY <2>3, <3>3, <3>4
  <2>5. rsShared' = Cardinality(Counted')
    BY <1>1, <2>4, FS_EmptySet
  <2>6. ASSUME NEW s \in Sides, NEW p \in RsPoints
        PROVE  RsAt(rsDiff'[s], p) = rsWeight[s][p] - IF Due(p)' THEN 0 ELSE Both(p)
    <3>1. ~Due(p)' => Both(p) = 0
      BY <1>2, <2>1, <2>3 DEF Both, RsSmaller
    <3>. QED  BY <1>1, <2>1, <3>1
  <2>7. \A s \in Sides : Apart(rsDiff'[s])
    BY <1>1, <2>2
  <2>8. rsPairs' \subseteq rsSets["l"] \X rsSets["r"]
    BY <1>1
  <2>9. \A p \in RsPoints : Both(p)' = Both(p)
    BY <1>1 DEF Both
  <2>. QED  BY <1>1, <2>5, <2>6, <2>7, <2>8, <2>9 DEF RsComparing
<1>. QED  BY <1>3, <1>4, <1>5 DEF RsIInv

LEMMA LessIn ==
  ASSUME NEW d \in Rng, NEW w \in Nat, NEW e
  PROVE  e \in RsLess(d, w) <=> d.w > w /\ e = [lo |-> d.lo, hi |-> d.hi, w |-> d.w - w]
<1> DEFINE a == d.w - RsSmaller(d.w, w)
<1>1. d.w \in Nat /\ d.w > 0
  BY RngFields
<1>2. [d EXCEPT !.w = a] = [lo |-> d.lo, hi |-> d.hi, w |-> a]
  BY Excepts
<1>3. [d EXCEPT !.w = @ - RsSmaller(@, w)] = [d EXCEPT !.w = a]
  BY DEF Rng
<1>4. e \in RsLess(d, w) <=> e = [d EXCEPT !.w = a] /\ e.w > 0
  BY <1>3 DEF RsLess
<1>5. (d.w > w => a = d.w - w) /\ (a > 0 <=> d.w > w)
  BY <1>1 DEF RsSmaller
<1> HIDE DEF a
<1>. QED  BY <1>2, <1>4, <1>5

LEMMA LessRng ==
  ASSUME NEW d \in Rng, NEW w \in Nat, NEW e \in RsLess(d, w)
  PROVE  e \in Rng /\ e.lo = d.lo /\ e.hi = d.hi /\ e.w = d.w - w /\ d.w > w
<1>1. d.w > w /\ e = [lo |-> d.lo, hi |-> d.hi, w |-> d.w - w]
  BY LessIn
<1>2. /\ d.lo \in Int /\ d.hi \in Int /\ d.lo <= d.hi /\ d.lo <= d.lo /\ d.hi <= d.hi
      /\ d.w - w \in Nat /\ d.w - w > 0
  BY <1>1, RngFields
<1>3. [lo |-> d.lo, hi |-> d.hi, w |-> d.w - w] \in Rng
  BY <1>2, RngPart
<1>. QED  BY <1>1, <1>3

LEMMA MeetsBack ==
  ASSUME NEW x \in Rng, NEW c, Span(c)
  PROVE  RsMeets(x, c) <=> RsMeets(c, x)
BY RngFields DEF RsMeets, Span

(* __diff_out of one range leaves parts of it                               *)
LEMMA DiffOutIn ==
  ASSUME NEW d \in Rng, NEW c, Span(c), NEW w \in Nat, NEW e \in RsDiffOut(d, c, w)
  PROVE  e \in Rng /\ Within(e, d)
<1> USE RngFields
<1>1. CASE ~RsMeets(d, c)
  BY <1>1 DEF RsDiffOut, Within
<1>2. CASE RsMeets(d, c)
  <2>1. /\ \A x \in {RsInside(d, c)} \cup RsBeside(d, c) : x \in Rng /\ Within(x, d)
    BY <1>2, MeetsBack, PartsOf
  <2>2. e \in RsBeside(d, c) \/ e \in RsLess(d, w) \/ e \in RsLess(RsInside(d, c), w)
    BY <1>2 DEF RsDiffOut
  <2>3. CASE e \in RsLess(d, w)
    BY <2>3, LessRng DEF Within
  <2>4. CASE e \in RsLess(RsInside(d, c), w)
    BY <2>1, <2>4, LessRng DEF Within
  <2>. QED  BY <2>1, <2>2, <2>3, <2>4
<1>. QED  BY <1>1, <1>2

(* What is left of a range that has no weight left around c                 *)
LEMMA DiffOutIs ==
  ASSUME NEW d \in Rng, NEW c, Span(c), RsMeets(d, c), NEW w \in Nat,
         ~(d.lo < c.lo /\ c.hi < d.hi /\ d.w > w)
  PROVE  /\ Apart(RsDiffOut(d, c, w))
         /\ \A p \in Int : RsCovers(d, p) =>
              IF RsCovers(c, p) /\ d.w <= w THEN \A e \in RsDiffOut(d, c, w) : ~RsCovers(e, p)
              ELSE \E e \in RsDiffOut(d, c, w) :
                     RsCovers(e, p) /\ e.w = IF RsCovers(c, p) THEN d.w - w ELSE d.w
<1> DEFINE i == RsInside(d, c)
           B == RsBeside(d, c)
           E == RsDiffOut(d, c, w)
           L == RsLess(i, w)
<1>1. /\ \A x \in {i} \cup B : x \in Rng /\ Within(x, d) /\ x.w = d.w
      /\ Apart({i} \cup B)
      /\ i \notin B
      /\ Within(i, c)
      /\ \A p \in Int : RsCovers(d, p) => \E x \in {i} \cup B : RsCovers(x, p)
  BY MeetsBack, PartsOf
<1>2. \A e : e \in L <=> i.w > w /\ e = [lo |-> i.lo, hi |-> i.hi, w |-> i.w - w]
  BY <1>1, LessIn
<1>3. \A e \in L : e \in Rng /\ e.lo = i.lo /\ e.hi = i.hi /\ e.w = d.w - w /\ d.w > w
  BY <1>1, LessRng
<1>4. E = B \cup L
  <2>1. CASE d.lo < c.lo /\ c.hi < d.hi
    <3>1. d.w \in Nat /\ ~(d.w > w) /\ i.w = d.w
      BY <1>1, <2>1, RngFields
    <3>2. L = {} /\ RsLess(d, w) = {}
      BY <1>2, <3>1, LessIn
    <3>. QED  BY <2>1, <3>2 DEF RsDiffOut
  <2>2. CASE ~(d.lo < c.lo /\ c.hi < d.hi)
    BY <2>2 DEF RsDiffOut
  <2>. QED  BY <2>1, <2>2
<1>5. d.lo \in Int /\ d.hi \in Int /\ d.w \in Nat /\ d.w > 0
      /\ i.lo \in Int /\ i.hi \in Int
  BY <1>1, RngFields
<1> HIDE DEF i, B, L, E
<1>6. Apart(E)
  <2> SUFFICES ASSUME NEW x \in E, NEW y \in E, x # y  PROVE ~RsMeets(x, y)
    BY DEF Apart
  <2>1. CASE x \in B /\ y \in B
    BY <1>1, <2>1 DEF Apart
  <2>2. CASE x \in L /\ y \in B
    <3>1. ~RsMeets(i, y)
      BY <1>1, <2>2 DEF Apart
    <3>. QED  BY <1>3, <2>2, <3>1 DEF RsMeets
  <2>3. CASE x \in B /\ y \in L
    <3>1. ~RsMeets(x, i)
      BY <1>1, <2>3 DEF Apart
    <3>. QED  BY <1>3, <2>3, <3>1 DEF RsMeets
  <2>4. CASE x \in L /\ y \in L
    BY <1>2, <2>4
  <2>. QED  BY <1>4, <2>1, <2>2, <2>3, <2>4
<1>7. \A p \in Int : RsCovers(i, p) => RsCovers(c, p)
  BY <1>1, <1>5 DEF RsCovers, Within, Span
<1>8. \A p \in Int : \A x \in B : RsCovers(x, p) => ~RsCovers(c, p)
  <2> SUFFICES ASSUME NEW p \in Int, NEW x \in B, RsCovers(x, p), RsCovers(c, p)  PROVE FALSE
    OBVIOUS
  <2>1. \/ x = [lo |-> d.lo, hi |-> c.lo - 1, w |-> d.w]
        \/ x = [lo |-> c.hi + 1, hi |-> d.hi, w |-> d.w]
    BY BesideOf DEF B
  <2>2. x.hi = c.lo - 1 \/ x.lo = c.hi + 1
    BY <2>1
  <2>. QED  BY <1>1, <2>2, RngFields DEF RsCovers, Span
<1>9. ASSUME NEW p \in Int, RsCovers(d, p)
      PROVE  IF RsCovers(c, p) /\ d.w <= w THEN \A e \in E : ~RsCovers(e, p)
             ELSE \E e \in E : RsCovers(e, p) /\ e.w = IF RsCovers(c, p) THEN d.w - w ELSE d.w
  <2>1. PICK x \in {i} \cup B : RsCovers(x, p)
    BY <1>1, <1>9
  <2>2. CASE RsCovers(c, p) /\ d.w <= w
    <3>1. L = {}
      BY <1>3, <1>5, <2>2
    <3>. QED  BY <1>4, <1>8, <2>2, <3>1
  <2>3. CASE RsCovers(c, p) /\ ~(d.w <= w)
    <3>1. x = i /\ i.w > w
      BY <1>1, <1>5, <1>8, <2>1, <2>3
    <3> DEFINE e == [lo |-> i.lo, hi |-> i.hi, w |-> i.w - w]
    <3>2. e \in L
      BY <1>2, <3>1
    <3>3. RsCovers(e, p) /\ e.w = d.w - w
      <4>1. e.lo = i.lo /\ e.hi = i.hi
        OBVIOUS
      <4> HIDE DEF e
      <4>. QED  BY <1>3, <2>1, <3>1, <3>2, <4>1 DEF RsCovers
    <3>. QED  BY <1>4, <2>3, <3>2, <3>3
  <2>4. CASE ~RsCovers(c, p)
    <3>1. x \in B /\ x \in E /\ x.w = d.w
      BY <1>1, <1>4, <1>7, <2>1, <2>4
    <3>. QED  BY <2>1, <2>4, <3>1
  <2>. QED  BY <2>2, <2>3, <2>4
<1>. QED  BY <1>6, <1>9 DEF E

(* of a set, by number: the weight is taken off where c is                  *)
LEMMA Taken ==
  ASSUME NEW D, \A d \in D : d \in Rng, Apart(D), NEW c, Span(c), NEW w \in Nat,
         \A d \in D : ~(d.lo < c.lo /\ c.hi < d.hi /\ d.w > w)
  PROVE  LET E == UNION {RsDiffOut(d, c, w) : d \in D}
         IN /\ Apart(E)
            /\ \A p \in Int :
                 RsAt(E, p) = IF RsCovers(c, p) THEN RsAt(D, p) - RsSmaller(RsAt(D, p), w)
                              ELSE RsAt(D, p)
<1> DEFINE E == UNION {RsDiffOut(d, c, w) : d \in D}
<1>1. \A e : e \in E <=> \E d \in D : e \in RsDiffOut(d, c, w)
  OBVIOUS
<1>2. \A d \in D : \A e \in RsDiffOut(d, c, w) : e \in Rng /\ Within(e, d)
  BY DiffOutIn
<1>3. \A e \in E : e \in Rng
  BY <1>1, <1>2
<1> HIDE DEF E
<1>4. Apart(E)
  <2> SUFFICES ASSUME NEW x \in E, NEW y \in E, x # y, RsMeets(x, y)  PROVE FALSE
    BY DEF Apart
  <2>1. PICK a \in D : x \in RsDiffOut(a, c, w)
    BY <1>1
  <2>2. PICK b \in D : y \in RsDiffOut(b, c, w)
    BY <1>1
  <2>3. RsMeets(a, b)
    BY <1>2, <2>1, <2>2, RngFields DEF RsMeets, Within
  <2>4. a = b
    BY <2>3 DEF Apart
  <2>5. CASE RsMeets(a, c)
    <3>1. Apart(RsDiffOut(a, c, w))
      BY <2>5, DiffOutIs
    <3>. QED  BY <2>1, <2>2, <2>4, <3>1 DEF Apart
  <2>6. CASE ~RsMeets(a, c)
    BY <2>1, <2>2, <2>4, <2>6 DEF RsDiffOut
  <2>. QED  BY <2>5, <2>6
<1>5. ASSUME NEW p \in Int
      PROVE  RsAt(E, p) = IF RsCovers(c, p) THEN RsAt(D, p) - RsSmaller(RsAt(D, p), w)
                          ELSE RsAt(D, p)
  <2>1. CASE \A d \in D : ~RsCovers(d, p)
    <3>1. \A e \in E : ~RsCovers(e, p)
      <4> SUFFICES ASSUME NEW e \in E, RsCovers(e, p)  PROVE FALSE
        OBVIOUS
      <4>1. PICK d \in D : e \in RsDiffOut(d, c, w)
        BY <1>1
      <4>2. RsCovers(d, p)
        BY <1>2, <1>5, <4>1, RngFields DEF RsCovers, Within
      <4>. QED  BY <2>1, <4>2
    <3>2. RsAt(E, p) = 0 /\ RsAt(D, p) = 0
      BY <1>3, <1>5, <2>1, <3>1, AtNone
    <3>3. RsSmaller(0, w) = 0
      BY DEF RsSmaller
    <3>. QED  BY <3>2, <3>3
  <2>2. CASE \E d \in D : RsCovers(d, p)
    <3>1. PICK d \in D : RsCovers(d, p)
      BY <2>2
    <3>2. RsAt(D, p) = d.w /\ d.w \in Nat /\ d.w > 0
      BY <1>5, <3>1, AtApart, RngFields
    <3>3. \A e \in E : RsCovers(e, p) => e \in RsDiffOut(d, c, w)
      <4> SUFFICES ASSUME NEW e \in E, RsCovers(e, p)  PROVE e \in RsDiffOut(d, c, w)
        OBVIOUS
      <4>1. PICK b \in D : e \in RsDiffOut(b, c, w)
        BY <1>1
      <4>2. RsCovers(b, p)
        BY <1>2, <1>5, <4>1, RngFields DEF RsCovers, Within
      <4>3. b = d
        BY <1>5, <3>1, <4>2, OneCovers
      <4>. QED  BY <4>1, <4>3
    <3>4. CASE ~RsMeets(d, c)
      <4>1. d \in E
        BY <1>1, <3>4 DEF RsDiffOut
      <4>2. ~RsCovers(c, p)
        BY <1>5, <3>1, <3>4, RngFields DEF RsCovers, RsMeets, Span
      <4>3. RsAt(E, p) = d.w
        BY <1>3, <1>4, <1>5, <3>1, <4>1, AtApart
      <4>. QED  BY <3>2, <4>2, <4>3
    <3>5. CASE RsMeets(d, c)
      <4>1. IF RsCovers(c, p) /\ d.w <= w THEN \A e \in RsDiffOut(d, c, w) : ~RsCovers(e, p)
            ELSE \E e \in RsDiffOut(d, c, w) :
                   RsCovers(e, p) /\ e.w = IF RsCovers(c, p) THEN d.w - w ELSE d.w
        BY <1>5, <3>1, <3>5, DiffOutIs
      <4>2. CASE RsCovers(c, p) /\ d.w <= w
        <5>1. \A e \in E : ~RsCovers(e, p)
          BY <3>3, <4>1, <4>2
        <5>2. RsAt(E, p) = 0
          BY <1>3, <1>5, <5>1, AtNone
        <5>. QED  BY <3>2, <4>2, <5>2 DEF RsSmaller
      <4>3. CASE ~(RsCovers(c, p) /\ d.w <= w)
        <5>1. PICK e \in RsDiffOut(d, c, w) :
                RsCovers(e, p) /\ e.w = IF RsCovers(c, p) THEN d.w - w ELSE d.w
          BY <4>1, <4>3
        <5>2. e \in E
          BY <1>1
        <5>3. RsAt(E, p) = e.w
          BY <1>3, <1>4, <1>5, <5>1, <5>2, AtApart
        <5>. QED  BY <3>2, <4>3, <5>1, <5>3 DEF RsSmaller
      <4>. QED  BY <4>2, <4>3
    <3>. QED  BY <3>4, <3>5
  <2>. QED  BY <2>1, <2>2
<1>. QED  BY <1>4, <1>5 DEF E

LEMMA RsComparingPair ==
  ASSUME RsIInv, NEW x \in rsPairs, RsComparePair(x)
  PROVE  RsIInv'
<1> DEFINE a == x[1]
           b == x[2]
           c == RsCommon(a, b)
           w == RsSmaller(a.w, b.w)
<1>1. /\ rsPc = "compare" /\ rsPairs' = rsPairs \ {x}
      /\ rsShared' = rsShared + (c.hi - c.lo + 1) * w
      /\ rsDiff' = [s \in Sides |-> UNION {RsDiffOut(d, c, w) : d \in rsDiff[s]}]
      /\ rsInner' = (rsInner \/ \E s \in Sides : \E d \in rsDiff[s] :
                                   d.lo < c.lo /\ c.hi < d.hi /\ d.w > w)
      /\ UNCHANGED <<rsSets, rsAddVars, rsAdded, rsPc, rsWeight, rsGaveUp>>
  BY DEF RsComparePair
<1>2. /\ a \in Rng /\ b \in Rng /\ RsMeets(a, b) /\ rsDiff \in [Sides -> SUBSET Rng]
      /\ "l" \in Sides /\ "r" \in Sides /\ \A s \in Sides : s = "l" \/ s = "r"
  BY DEF RsIInv, RsTypes, Sides
<1>3. /\ a.lo \in Int /\ a.hi \in Int /\ a.w \in Nat /\ a.w > 0 /\ a.lo <= a.hi
      /\ b.lo \in Int /\ b.hi \in Int /\ b.w \in Nat /\ b.w > 0 /\ b.lo <= b.hi
      /\ c.lo = RsLarger(a.lo, b.lo) /\ c.hi = RsSmaller(a.hi, b.hi)
  BY <1>2, RngFields DEF RsCommon
<1>4. Span(c) /\ w \in Nat
  <2> HIDE DEF a, b, c
  <2>. QED  BY <1>2, <1>3 DEF Span, RsMeets, RsLarger, RsSmaller
<1>5. \A p \in Int : RsCovers(c, p) <=> RsCovers(a, p) /\ RsCovers(b, p)
  <2> HIDE DEF a, b, c
  <2>. QED  BY <1>3 DEF RsCovers, RsLarger, RsSmaller
<1>6. RsTypes'
  <2>1. ASSUME NEW s \in Sides, NEW d \in rsDiff[s], NEW e \in RsDiffOut(d, c, w)
        PROVE  e \in Rng
    <3> HIDE DEF c, w
    <3>. QED  BY <1>2, <1>4, DiffOutIn
  <2>2. rsDiff' \in [Sides -> SUBSET Rng]
    <3> HIDE DEF c, w
    <3>. QED  BY <1>1, <2>1
  <2>. QED  BY <1>1, <2>2 DEF RsIInv, RsTypes, rsAddVars
<1>7. RsPhases' /\ RsDisjoint' /\ RsWeighed'
  BY <1>1 DEF RsIInv, RsPhases, RsDisjoint, RsWeighed, rsAddVars, Pieces
<1>8. RsComparing'
  <2> SUFFICES ASSUME ~rsGaveUp  PROVE RsComparing'
    BY <1>1 DEF RsComparing
  <2>1. /\ rsPairs \subseteq rsSets["l"] \X rsSets["r"]
        /\ rsShared = Cardinality(Counted)
        /\ ~rsInner => \A s \in Sides :
             /\ Apart(rsDiff[s])
             /\ \A p \in RsPoints :
                  RsAt(rsDiff[s], p) = rsWeight[s][p] - IF Due(p) THEN 0 ELSE Both(p)
    BY <1>1 DEF RsIInv, RsComparing
  <2>2. /\ \A s \in Sides : Apart(rsSets[s]) /\ \A y \in rsSets[s] : y \in Rng
        /\ \A s \in Sides : \A p \in RsPoints :
             rsWeight[s][p] = RsAt(rsSets[s], p) /\ rsWeight[s][p] \in Nat
    BY <1>1, Settled DEF RsIInv, RsTypes, RsDisjoint, FinRng
  <2>3. a \in rsSets["l"] /\ b \in rsSets["r"] /\ x = <<a, b>>
    BY <2>1
  <2> HIDE DEF a, b, c, w
  <2>4. ASSUME NEW p \in Int, RsCovers(c, p)
        PROVE  p \in RsPoints /\ rsWeight["l"][p] = a.w /\ rsWeight["r"][p] = b.w
               /\ Both(p) = w /\ Due(p)
    <3>1. RsCovers(a, p) /\ RsCovers(b, p)
      BY <1>5, <2>4
    <3>2. p \in RsPoints
      BY <1>2, <3>1, CoveredPoint
    <3>3. RsAt(rsSets["l"], p) = a.w /\ RsAt(rsSets["r"], p) = b.w
      BY <1>2, <2>2, <2>3, <3>1, AtApart
    <3>4. Due(p)
      BY <2>4 DEF Due, a, b, c
    <3>. QED  BY <1>2, <2>2, <3>2, <3>3, <3>4 DEF Both, w
  <2>5. ASSUME NEW p \in Int
        PROVE  Due(p)' <=> Due(p) /\ ~RsCovers(c, p)
    <3>1. ASSUME NEW y \in rsPairs, RsCovers(RsCommon(y[1], y[2]), p), RsCovers(c, p)
          PROVE  y = x
      <4>1. /\ y[1] \in rsSets["l"] /\ y[2] \in rsSets["r"] /\ y = <<y[1], y[2]>>
        BY <2>1
      <4>2. y[1] \in Rng /\ y[2] \in Rng
        BY <1>2, <2>2, <4>1
      <4>3. RsCovers(y[1], p) /\ RsCovers(y[2], p)
        BY <2>5, <3>1, <4>2, RngFields DEF RsCovers, RsCommon, RsLarger, RsSmaller
      <4>4. RsCovers(a, p) /\ RsCovers(b, p)
        BY <1>5, <2>5, <3>1
      <4>5. y[1] = a
        BY <1>2, <2>2, <2>3, <2>5, <4>1, <4>3, <4>4, OneCovers
      <4>6. y[2] = b
        BY <1>2, <2>2, <2>3, <2>5, <4>1, <4>3, <4>4, OneCovers
      <4>. QED  BY <2>3, <4>1, <4>5, <4>6
    <3>2. Due(p)' <=> \E y \in rsPairs \ {x} : RsCovers(RsCommon(y[1], y[2]), p)
      BY <1>1 DEF Due
    <3>3. ASSUME Due(p), ~RsCovers(c, p)  PROVE Due(p)'
      BY <3>2, <3>3 DEF Due, a, b, c
    <3>4. ASSUME Due(p)'  PROVE Due(p) /\ ~RsCovers(c, p)
      BY <3>1, <3>2, <3>4 DEF Due
    <3>. QED  BY <3>3, <3>4
  <2> DEFINE R == (c.lo .. c.hi) \X (1 .. w)
  <2>6. \A p \in c.lo .. c.hi : p \in Int /\ RsCovers(c, p)
    BY <1>4 DEF Span, RsCovers
  <2>7. Counted' = {u \in RsUnder("l") \cap RsUnder("r") : ~Due(u[1])'}
    BY <1>1 DEF Counted, RsUnder
  <2>8. \A u : u \in RsUnder("l") \cap RsUnder("r") <=>
               \E p \in RsPoints : \E i \in 1 .. RsSmaller(rsWeight["l"][p], rsWeight["r"][p]) :
                  u = <<p, i>>
    <3> SUFFICES ASSUME NEW u
                 PROVE  u \in RsUnder("l") \cap RsUnder("r") <=>
                          \E p \in RsPoints :
                            \E i \in 1 .. RsSmaller(rsWeight["l"][p], rsWeight["r"][p]) : u = <<p, i>>
      OBVIOUS
    <3>1. \A p \in RsPoints : \A i : /\ i \in 1 .. RsSmaller(rsWeight["l"][p], rsWeight["r"][p])
                                        <=> i \in 1 .. rsWeight["l"][p] /\ i \in 1 .. rsWeight["r"][p]
      BY <1>2, <2>2 DEF RsSmaller
    <3>2. ASSUME u \in RsUnder("l"), u \in RsUnder("r")
          PROVE  \E p \in RsPoints :
                   \E i \in 1 .. RsSmaller(rsWeight["l"][p], rsWeight["r"][p]) : u = <<p, i>>
      <4>1. PICK p \in RsPoints : \E i \in 1 .. rsWeight["l"][p] : u = <<p, i>>
        BY <3>2, UnderIn
      <4>2. PICK i \in 1 .. rsWeight["l"][p] : u = <<p, i>>
        BY <4>1
      <4>3. PICK q \in RsPoints : \E j \in 1 .. rsWeight["r"][q] : u = <<q, j>>
        BY <3>2, UnderIn
      <4>4. p = q /\ i \in 1 .. rsWeight["r"][p]
        BY <4>2, <4>3
      <4>. QED  BY <3>1, <4>2, <4>4
    <3>. QED  BY <3>1, <3>2, UnderIn
  <2>9. Counted' = Counted \cup R
    <3>1. ASSUME NEW u \in Counted'  PROVE u \in Counted \cup R
      <4>1. u \in RsUnder("l") \cap RsUnder("r") /\ ~Due(u[1])'
        BY <2>7, <3>1
      <4>2. PICK p \in RsPoints : \E i \in 1 .. RsSmaller(rsWeight["l"][p], rsWeight["r"][p]) :
                                    u = <<p, i>>
        BY <2>8, <4>1
      <4>3. PICK i \in 1 .. RsSmaller(rsWeight["l"][p], rsWeight["r"][p]) : u = <<p, i>>
        BY <4>2
      <4>4. u[1] = p /\ p \in Int
        BY <4>3, PointsInt
      <4>5. CASE RsCovers(c, p)
        <5>1. p \in c.lo .. c.hi
          BY <1>4, <4>4, <4>5 DEF RsCovers, Span
        <5>2. i \in 1 .. w
          BY <2>4, <4>3, <4>4, <4>5 DEF Both
        <5>. QED  BY <4>3, <5>1, <5>2
      <4>6. CASE ~RsCovers(c, p)
        BY <2>5, <4>1, <4>4, <4>6 DEF Counted
      <4>. QED  BY <4>5, <4>6
    <3>2. ASSUME NEW u \in Counted  PROVE u \in Counted'
      <4>1. u \in RsUnder("l") \cap RsUnder("r") /\ ~Due(u[1])
        BY <3>2 DEF Counted
      <4>2. u[1] \in Int
        BY <2>8, <4>1, PointsInt
      <4>. QED  BY <2>5, <2>7, <4>1, <4>2
    <3>3. ASSUME NEW u \in R  PROVE u \in Counted'
      <4>1. PICK p \in c.lo .. c.hi, i \in 1 .. w : u = <<p, i>>
        BY <3>3
      <4>2. p \in RsPoints /\ Both(p) = w /\ ~Due(p)' /\ u[1] = p
        BY <2>4, <2>5, <2>6, <4>1
      <4>3. u \in RsUnder("l") \cap RsUnder("r")
        BY <2>8, <4>1, <4>2 DEF Both
      <4>. QED  BY <2>7, <4>2, <4>3
    <3>. QED  BY <3>1, <3>2, <3>3
  <2>10. Counted \cap R = {}
    <3> SUFFICES ASSUME NEW u \in R, u \in Counted  PROVE FALSE
      OBVIOUS
    <3>1. PICK p \in c.lo .. c.hi, i \in 1 .. w : u = <<p, i>>
      OBVIOUS
    <3>. QED  BY <2>4, <2>6, <3>1 DEF Counted
  <2>11. rsShared' = Cardinality(Counted')
    <3>1. IsFiniteSet(Counted)
      <4>1. Counted \in SUBSET RsUnder("l") /\ IsFiniteSet(RsUnder("l"))
        BY <1>2, UnderFinite DEF Counted, RsIInv
      <4>. QED  BY <4>1, FS_Subset
    <3>2. IsFiniteSet(R) /\ Cardinality(R) = (c.hi - c.lo + 1) * w
      BY <1>4, Rectangle DEF Span
    <3>3. Cardinality(Counted \cup R) = Cardinality(Counted) + Cardinality(R) - Cardinality(Counted \cap R)
      <4> HIDE DEF R
      <4>. QED  BY <3>1, <3>2, FS_Union
    <3>4. Cardinality({}) = 0 /\ Cardinality(Counted) \in Nat /\ Cardinality(R) \in Nat
      BY <3>1, <3>2, FS_EmptySet, FS_CardinalityType
    <3>5. Cardinality(Counted') = Cardinality(Counted) + Cardinality(R)
      <4> HIDE DEF R
      <4>1. Cardinality(Counted \cup R) = Cardinality(Counted) + Cardinality(R) - 0
        BY <2>10, <3>3, <3>4
      <4>2. Cardinality(Counted \cup R) = Cardinality(Counted) + Cardinality(R)
        BY <3>4, <4>1
      <4>. QED  BY <2>9, <4>2
    <3>. QED  BY <1>1, <2>1, <3>2, <3>5
  <2>12. ASSUME ~rsInner', NEW s \in Sides
         PROVE  /\ Apart(rsDiff'[s])
                /\ \A p \in RsPoints :
                     RsAt(rsDiff'[s], p) = rsWeight[s][p] - IF Due(p)' THEN 0 ELSE Both(p)
    <3> DEFINE D == rsDiff[s]
               E == UNION {RsDiffOut(d, c, w) : d \in D}
    <3>1. /\ \A d \in D : d \in Rng /\ ~(d.lo < c.lo /\ c.hi < d.hi /\ d.w > w)
          /\ ~rsInner
      BY <1>1, <1>2, <2>12
    <3>2. /\ Apart(D)
          /\ \A p \in RsPoints : RsAt(D, p) = rsWeight[s][p] - IF Due(p) THEN 0 ELSE Both(p)
      BY <2>1, <3>1
    <3>3. /\ Apart(E)
          /\ \A p \in Int :
               RsAt(E, p) = IF RsCovers(c, p) THEN RsAt(D, p) - RsSmaller(RsAt(D, p), w)
                            ELSE RsAt(D, p)
      <4> HIDE DEF D
      <4>1. (\A d \in D : d \in Rng) /\ Apart(D)
        BY <3>1, <3>2
      <4>2. \A d \in D : ~(d.lo < c.lo /\ c.hi < d.hi /\ d.w > w)
        BY <3>1
      <4>. QED  BY <1>4, <4>1, <4>2, Taken
    <3>4. rsDiff'[s] = E
      BY <1>1
    <3> HIDE DEF D, E
    <3>5. ASSUME NEW p \in RsPoints
          PROVE  RsAt(E, p) = rsWeight[s][p] - IF Due(p)' THEN 0 ELSE Both(p)
      <4>1. p \in Int /\ rsWeight[s][p] \in Nat
        BY <2>2, PointsInt
      <4>2. CASE RsCovers(c, p)
        <5>1. Due(p) /\ ~Due(p)' /\ Both(p) = w
          BY <2>4, <2>5, <4>1, <4>2
        <5>2. RsAt(D, p) = rsWeight[s][p]
          BY <3>2, <4>1, <5>1
        <5>3. rsWeight[s][p] = a.w \/ rsWeight[s][p] = b.w
          BY <1>2, <2>4, <4>1, <4>2
        <5>4. RsSmaller(rsWeight[s][p], w) = w
          BY <1>3, <5>3 DEF RsSmaller, w
        <5>. QED  BY <3>3, <4>1, <4>2, <5>1, <5>2, <5>4
      <4>3. CASE ~RsCovers(c, p)
        BY <2>5, <3>2, <3>3, <4>1, <4>3
      <4>. QED  BY <4>2, <4>3
    <3>. QED  BY <3>3, <3>4, <3>5
  <2>13. \A p : Both(p)' = Both(p)
    BY <1>1 DEF Both
  <2>14. rsPairs' \subseteq rsSets["l"] \X rsSets["r"] /\ rsSets' = rsSets /\ rsWeight' = rsWeight
    BY <1>1, <2>1
  <2>. QED  BY <2>11, <2>12, <2>13, <2>14 DEF RsComparing
<1>. QED  BY <1>6, <1>7, <1>8 DEF RsIInv

LEMMA RsCalling ==
  ASSUME RsIInv, RsCalls
  PROVE  RsIInv'
<1>1. \A S \in RsInputs : S \in FinRng
  BY RsInputsAssumption DEF FinRng, Rng
<1>2. rsAdded \in Int /\ RsAdds \in Int
  BY RsBoundsAssumption DEF RsIInv, RsTypes
<1>3. CASE RsAddInput
  <2>1. PICK S \in RsInputs, s \in Sides : RsAdd(S, "add", s) /\ rsAdded < RsAdds
    BY <1>3 DEF RsAddInput
  <2>. QED  BY <1>1, <1>2, <2>1, RsAdding
<1>4. CASE RsUnite
  <2>1. PICK S \in RsInputs, s \in Sides :
          Cardinality(S) = 1 /\ RsAdd(S, "max", s) /\ rsAdded < RsAdds
    BY <1>4 DEF RsUnite
  <2>2. Apart(S)
    <3>1. IsFiniteSet(S)
      BY <1>1 DEF FinRng
    <3>2. \E x : S = {x}
      BY <2>1, <3>1, FS_Singleton
    <3>. QED  BY <3>2 DEF Apart
  <2>. QED  BY <1>1, <1>2, <2>1, <2>2, RsAdding
<1>5. CASE RsAddSet
  <2>1. PICK op \in {"add", "max"} : RsAdd(rsSets["r"], op, "l") /\ rsAdded <= RsAdds
    BY <1>5 DEF RsAddSet
  <2>2. rsSets["r"] \in FinRng /\ "l" \in Sides /\ (~rsGaveUp => Apart(rsSets["r"]))
    BY DEF RsIInv, RsTypes, RsDisjoint, Sides
  <2>. QED  BY <2>1, <2>2, RsAdding
<1>. QED  BY <1>3, <1>4, <1>5 DEF RsCalls

LEMMA RsStaysOrEnds ==
  ASSUME RsIInv, RsDistanceEnds \/ UNCHANGED rsVars
  PROVE  RsIInv'
<1>1. CASE RsDistanceEnds
  <2>1. RsTypes'
    BY <1>1 DEF RsDistanceEnds, RsIInv, RsTypes, rsAddVars, rsCompareVars
  <2>2. RsPhases'
    BY <1>1 DEF RsDistanceEnds, RsIInv, RsPhases, rsAddVars, rsCompareVars, Pieces
  <2>3. RsDisjoint' /\ RsWeighed'
    BY <1>1 DEF RsDistanceEnds, RsIInv, RsDisjoint, RsWeighed, rsAddVars, Pieces
  <2>4. RsComparing'
    <3>1. Counted' = Counted /\ \A p : (Due(p)' <=> Due(p)) /\ Both(p)' = Both(p)
      BY <1>1 DEF RsDistanceEnds, Counted, Due, Both, RsUnder, rsCompareVars
    <3>. QED  BY <1>1, <3>1 DEF RsDistanceEnds, RsIInv, RsComparing, rsCompareVars
  <2>. QED  BY <2>1, <2>2, <2>3, <2>4 DEF RsIInv
<1>2. CASE UNCHANGED rsVars
  <2>1. RsTypes'
    BY <1>2 DEF rsVars, RsIInv, RsTypes
  <2>2. RsPhases'
    BY <1>2 DEF rsVars, RsIInv, RsPhases, Pieces
  <2>3. RsDisjoint' /\ RsWeighed'
    BY <1>2 DEF rsVars, RsIInv, RsDisjoint, RsWeighed, Pieces
  <2>4. RsComparing'
    <3>1. Counted' = Counted /\ \A p : (Due(p)' <=> Due(p)) /\ Both(p)' = Both(p)
      BY <1>2 DEF rsVars, Counted, Due, Both, RsUnder
    <3>. QED  BY <1>2, <3>1 DEF rsVars, RsIInv, RsComparing
  <2>. QED  BY <2>1, <2>2, <2>3, <2>4 DEF RsIInv
<1>. QED  BY <1>1, <1>2

LEMMA RsNextKeeps ==
  ASSUME RsIInv, RsNext \/ UNCHANGED rsVars
  PROVE  RsIInv'
<1>1. CASE RsCalls
  BY <1>1, RsCalling
<1>2. ASSUME NEW x \in rsQueue, RsTake(x)  PROVE RsIInv'
  BY <1>2, RsTaking
<1>3. ASSUME NEW t \in rsWork, RsSplit(t)  PROVE RsIInv'
  BY <1>3, RsSplitting
<1>4. CASE RsNextRound \/ RsDecomposed \/ RsAdded
  BY <1>4, RsRoundEnds
<1>5. ASSUME NEW n \in rsDone, RsInsert(n)  PROVE RsIInv'
  BY <1>5, RsInserting
<1>6. CASE RsCompare
  BY <1>6, RsComparisonStarts
<1>7. ASSUME NEW x \in rsPairs, RsComparePair(x)  PROVE RsIInv'
  BY <1>7, RsComparingPair
<1>8. CASE RsDistanceEnds \/ UNCHANGED rsVars
  BY <1>8, RsStaysOrEnds
<1>. QED  BY <1>1, <1>2, <1>3, <1>4, <1>5, <1>6, <1>7, <1>8 DEF RsNext, RsStep

LEMMA RsSafe == RsSpec => []RsIInv
<1>1. RsInit => RsIInv
  BY RsStart
<1>2. RsIInv /\ [RsNext]_rsVars => RsIInv'
  BY RsNextKeeps
<1>. QED  BY <1>1, <1>2, PTL DEF RsSpec
-----------------------------------------------------------------------------
LEMMA RsIInvTypes ==
  ASSUME RsIInv
  PROVE  RsTypeOK
<1>1. \A x \in Rng : RsRange(x)
  BY RngFields DEF RsRange
<1>2. /\ \A s \in Sides : \A x \in rsSets[s] \cup rsDiff[s] : x \in Rng
      /\ \A x \in rsQueue \cup rsWork \cup rsNext \cup rsDone : x \in Rng
  BY DEF RsIInv, RsTypes, FinRng
<1>. QED  BY <1>1, <1>2 DEF RsTypeOK, RsIInv, RsTypes

LEMMA RsIInvExact ==
  ASSUME RsIInv
  PROVE  RsExact
<1> SUFFICES ASSUME rsPc # "idle", ~rsGaveUp, NEW s \in Sides
             PROVE  /\ \A x, y \in rsSets[s] : x # y => ~RsMeets(x, y)
                    /\ ~(s = rsInto /\ rsPc \in {"add", "split", "insert"}) =>
                         \A p \in RsPoints : RsAt(rsSets[s], p) = rsWeight[s][p]
  BY DEF RsExact
<1>1. Apart(rsSets[s])
  BY DEF RsIInv, RsDisjoint
<1>2. CASE s # rsInto
  BY <1>1, <1>2 DEF RsIInv, RsWeighed, Apart
<1>3. CASE rsPc \in {"idle", "ready", "compare", "done"}
  BY <1>1, <1>3, Settled DEF Apart
<1>. QED  BY <1>1, <1>2, <1>3 DEF Apart, RsIInv, RsTypes

LEMMA RsIInvCompared ==
  ASSUME RsIInv
  PROVE  RsCompared
<1> SUFFICES ASSUME rsPc = "done", ~rsGaveUp
             PROVE  /\ RsDistance = Cardinality(RsUnder("l") \cup RsUnder("r"))
                    /\ ~rsInner => \A p \in RsPoints :
                         /\ RsAt(rsDiff["l"], p) = RsLarger(0, rsWeight["l"][p] - rsWeight["r"][p])
                         /\ RsAt(rsDiff["r"], p) = RsLarger(0, rsWeight["r"][p] - rsWeight["l"][p])
  BY DEF RsCompared
<1>1. /\ rsPairs = {} /\ RsTypes
      /\ \A s \in Sides : Apart(rsSets[s])
      /\ \A s \in Sides : \A p \in RsPoints : rsWeight[s][p] = RsAt(rsSets[s], p)
      /\ "l" \in Sides /\ "r" \in Sides
  BY Settled DEF RsIInv, RsPhases, RsDisjoint, Sides
<1>2. \A p : ~Due(p)
  BY <1>1 DEF Due
<1>3. RsDistance = Cardinality(RsUnder("l") \cup RsUnder("r"))
  <2>1. /\ RsArea(rsSets["l"]) = Cardinality(RsUnder("l")) /\ IsFiniteSet(RsUnder("l"))
        /\ RsArea(rsSets["r"]) = Cardinality(RsUnder("r")) /\ IsFiniteSet(RsUnder("r"))
    BY <1>1, AreaUnder, UnderFinite
  <2>2. rsShared = Cardinality(RsUnder("l") \cap RsUnder("r"))
    <3>1. Counted = RsUnder("l") \cap RsUnder("r")
      BY <1>2 DEF Counted
    <3>. QED  BY <3>1 DEF RsIInv, RsComparing
  <2>3. Cardinality(RsUnder("l") \cup RsUnder("r"))
          = Cardinality(RsUnder("l")) + Cardinality(RsUnder("r"))
              - Cardinality(RsUnder("l") \cap RsUnder("r"))
    BY <2>1, FS_Union
  <2>. QED  BY <2>1, <2>2, <2>3 DEF RsDistance
<1>4. ASSUME ~rsInner, NEW p \in RsPoints
      PROVE  /\ RsAt(rsDiff["l"], p) = RsLarger(0, rsWeight["l"][p] - rsWeight["r"][p])
             /\ RsAt(rsDiff["r"], p) = RsLarger(0, rsWeight["r"][p] - rsWeight["l"][p])
  <2>1. /\ RsAt(rsDiff["l"], p) = rsWeight["l"][p] - Both(p)
        /\ RsAt(rsDiff["r"], p) = rsWeight["r"][p] - Both(p)
    BY <1>1, <1>2, <1>4 DEF RsIInv, RsComparing
  <2>2. rsWeight["l"][p] \in Nat /\ rsWeight["r"][p] \in Nat
    BY <1>1 DEF RsTypes
  <2>. QED  BY <2>1, <2>2 DEF Both, RsSmaller, RsLarger
<1>. QED  BY <1>3, <1>4

(* A set of ranges is one whatever is added, split and compared: every      *)
(* range in it has numbers and a weight                                     *)
THEOREM RangeTypes == RsSpec => []RsTypeOK
BY RsSafe, RsIInvTypes, PTL

(* RangeSet keeps its ranges disjoint and its weights right, number by      *)
(* number, whatever is added and united, as far as the rounds are enough    *)
THEOREM RangesExact == RsSpec => []RsExact
BY RsSafe, RsIInvExact, PTL

(* The distance and the differences __histogram_intersection arrives at are *)
(* those of the weights                                                     *)
THEOREM RangesCompared == RsSpec => []RsCompared
BY RsSafe, RsIInvCompared, PTL
=============================================================================
