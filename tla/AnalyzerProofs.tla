--------------------------- MODULE AnalyzerProofs ---------------------------
(***************************************************************************)
(* Proofs about SymbolRenaming, for any files, symbols and base names;     *)
(* about FssChunks, for logs and chunks of any length; and about the       *)
(* composition: what the components promise on their own they promise as   *)
(* commands of the analyzer, of which every step is a step of one          *)
(* component, or leaves the component's variables alone.                   *)
(***************************************************************************)
EXTENDS Analyzer, CheckerProofs, RangeProofs

(* The symbols of f that keep their names                                  *)
Keeping(f) == srOrig[f] \ srPlan[f]

(* A table has the names its file has in the merged one, as far as planned *)
TablesInv ==
  srPc = "check" =>
    \A f \in SrFiles :
      /\ srPlan[f] \subseteq srOrig[f]
      /\ srTables[f] = Keeping(f) \cup {SrCanonical(f, sym) : sym \in srPlan[f]}
      /\ f \in srTodo => srPlan[f] = {}

(* What a file that has been looked at keeps, no other file keeps          *)
ApartInv == \A f \in SrFiles \ srTodo : \A g \in SrFiles \ {f} :
              Keeping(f) \cap Keeping(g) = {}

(* Of every symbol somebody keeps the name, unless it is forced            *)
KeptInv == SrFresh => \A g \in SrFiles : \A sym \in srOrig[g] \ srForce :
             \E f \in SrFiles : sym \in Keeping(f)

(* The three of them are inductive together                               *)
SrIInv == /\ SrTypeOK /\ TablesInv /\ ApartInv
          /\ srPc # "idle" => KeptInv
          /\ srPc # "check" => srTodo = {}
          /\ srPc = "idle" => srOrig = SrNothing

LEMMA InitSrIInv == SrInit => SrIInv
  <1>1. SUFFICES ASSUME SrInit PROVE SrIInv
    OBVIOUS
  <1>2. srBase \in SrBases
    BY <1>1, SrBasesAssumption DEF SrInit
  <1>3. SrTypeOK
    BY <1>1, <1>2 DEF SrInit, SrTypeOK, SrNothing
  <1>4. ApartInv
    BY <1>1 DEF SrInit, ApartInv, Keeping, SrNothing
  <1> QED
    BY <1>1, <1>3, <1>4 DEF SrInit, SrIInv, TablesInv

LEMMA StartSrIInv ==
  ASSUME SrIInv, NEW t \in [SrFiles -> SUBSET SrSymbols], NEW x \in SrForces, SrStart(t, x)
  PROVE  SrIInv'
  <1>1. SrTypeOK'
    BY DEF SrIInv, SrTypeOK, SrStart, SrNothing
  <1>2. TablesInv'
    BY DEF SrStart, SrNothing, TablesInv, Keeping
  <1>3. ApartInv'
    BY DEF SrStart, ApartInv
  <1>4. KeptInv'
    BY DEF SrStart, KeptInv, Keeping, SrNothing
  <1> QED
    BY <1>1, <1>2, <1>3, <1>4 DEF SrIInv, SrStart

(* What SrCheck(f) leaves: the plan of f is what others have of it now     *)
LEMMA CheckSrIInv ==
  ASSUME SrIInv, NEW f \in SrFiles, SrCheck(f)
  PROVE  SrIInv'
  <1> DEFINE new == SrCollisions(f)
  <1>1. /\ srPc = "check" /\ f \in srTodo /\ srTodo' = srTodo \ {f}
        /\ srPlan' = [srPlan EXCEPT ![f] = new]
        /\ srTables' = [srTables EXCEPT ![f] =
                          (srTables[f] \ new) \cup {SrCanonical(f, sym) : sym \in new}]
        /\ UNCHANGED <<srOrig, srBase, srForce, srPc>>
    BY DEF SrCheck
  <1>2. /\ srOrig \in [SrFiles -> SUBSET SrSymbols]
        /\ srPlan \in [SrFiles -> SUBSET (SrSymbols \cup srForce)]
        /\ DOMAIN srTables = SrFiles /\ srTodo \subseteq SrFiles
    BY DEF SrIInv, SrTypeOK
  <1>3. \A g \in SrFiles :
          /\ srPlan[g] \subseteq srOrig[g]
          /\ srTables[g] = Keeping(g) \cup {SrCanonical(g, sym) : sym \in srPlan[g]}
          /\ g \in srTodo => srPlan[g] = {}
    BY <1>1 DEF SrIInv, TablesInv
  <1>4. srTables[f] = srOrig[f] /\ srPlan[f] = {} /\ new \subseteq srOrig[f]
    BY <1>1, <1>3 DEF Keeping, SrCollisions
  <1>5. /\ srPlan'[f] = new
        /\ \A g \in SrFiles \ {f} : srPlan'[g] = srPlan[g] /\ srTables'[g] = srTables[g]
        /\ srTables'[f] = (srOrig[f] \ new) \cup {SrCanonical(f, sym) : sym \in new}
    BY <1>1, <1>2, <1>4
  <1>6. Keeping(f)' = srOrig[f] \ new /\ \A g \in SrFiles \ {f} : Keeping(g)' = Keeping(g)
    BY <1>1, <1>5 DEF Keeping
  <1>7. \A g \in SrFiles : \A sym : SrCanonical(g, sym)' = SrCanonical(g, sym)
    BY <1>1 DEF SrCanonical
  <1>8. SrTypeOK'
    <2>1. srPlan' \in [SrFiles -> SUBSET (SrSymbols \cup srForce)]
      BY <1>1, <1>2, <1>4
    <2>2. DOMAIN srTables' = SrFiles /\ srTodo' \subseteq SrFiles
      BY <1>1, <1>2
    <2> QED
      BY <1>1, <2>1, <2>2 DEF SrIInv, SrTypeOK
  <1>9. TablesInv'
    <2>1. SUFFICES ASSUME NEW g \in SrFiles
                   PROVE  /\ srPlan'[g] \subseteq srOrig[g]
                          /\ srTables'[g] = Keeping(g)' \cup {SrCanonical(g, sym) : sym \in srPlan'[g]}
                          /\ g \in srTodo' => srPlan'[g] = {}
      BY <1>1, <1>7 DEF TablesInv
    <2>2. CASE g = f
      BY <2>2, <1>1, <1>4, <1>5, <1>6
    <2>3. CASE g # f
      BY <2>3, <1>1, <1>3, <1>5, <1>6
    <2> QED
      BY <2>2, <2>3
  <1>10. ApartInv'
    <2>1. SUFFICES ASSUME NEW a \in SrFiles, a \notin srTodo', NEW b \in SrFiles \ {a}
                   PROVE  Keeping(a)' \cap Keeping(b)' = {}
      BY DEF ApartInv
    <2>2. \A g \in SrFiles \ {f} : (srOrig[f] \ new) \cap Keeping(g) = {}
      BY <1>3, <1>4 DEF SrCollisions
    <2>3. CASE a = f
      BY <2>2, <2>3, <1>6
    <2>4. CASE a # f /\ b = f
      BY <2>2, <2>4, <1>6
    <2>5. CASE a # f /\ b # f
      BY <2>5, <2>1, <1>1, <1>6 DEF SrIInv, ApartInv
    <2> QED
      BY <2>3, <2>4, <2>5
  <1>11. KeptInv'
    <2>1. SUFFICES ASSUME SrFresh', NEW g \in SrFiles, NEW sym \in srOrig[g] \ srForce
                   PROVE  \E k \in SrFiles : sym \in Keeping(k)'
      BY <1>1 DEF KeptInv
    <2>2. SrFresh
      BY <2>1, <1>1, <1>7 DEF SrFresh
    <2>3. PICK k \in SrFiles : sym \in Keeping(k)
      BY <2>2, <1>1 DEF SrIInv, KeptInv
    <2>4. CASE k = f /\ sym \in new
      <3>1. PICK o \in SrFiles \ {f} : sym \in srTables[o]
        BY <2>4 DEF SrCollisions
      <3>2. \A s \in srPlan[o] : SrCanonical(o, s) # sym
        BY <2>2, <1>2, <1>3 DEF SrFresh
      <3>3. sym \in Keeping(o)
        BY <3>1, <3>2, <1>3
      <3> QED
        BY <3>3, <1>6
    <2>5. CASE ~(k = f /\ sym \in new)
      BY <2>3, <2>5, <1>6 DEF Keeping
    <2> QED
      BY <2>4, <2>5
  <1> QED
    BY <1>1, <1>8, <1>9, <1>10, <1>11 DEF SrIInv

LEMMA ManualSrIInv ==
  ASSUME SrIInv, SrManual
  PROVE  SrIInv'
  <1>1. /\ srPc = "check" /\ srTodo = {} /\ srPc' = "done"
        /\ srPlan' = [f \in SrFiles |-> srPlan[f] \cup srForce]
        /\ UNCHANGED <<srOrig, srBase, srForce, srTables, srTodo>>
    BY DEF SrManual
  <1>2. SrTypeOK'
    BY <1>1 DEF SrIInv, SrTypeOK
  <1>3. \A f \in SrFiles : Keeping(f)' = Keeping(f) \ srForce
    BY <1>1 DEF Keeping
  <1>4. ApartInv'
    BY <1>1, <1>3 DEF SrIInv, ApartInv
  <1>5. SrFresh' => SrFresh
    BY <1>1 DEF SrFresh, SrCanonical
  <1>6. KeptInv'
    BY <1>1, <1>3, <1>5 DEF SrIInv, KeptInv
  <1> QED
    BY <1>1, <1>2, <1>4, <1>6 DEF SrIInv, TablesInv

LEMMA SrStutter == ASSUME SrIInv, UNCHANGED srVars PROVE SrIInv'
  BY DEF SrIInv, srVars, SrTypeOK, TablesInv, ApartInv, KeptInv, Keeping, SrFresh, SrCanonical,
         SrNothing

LEMMA SrInvariance == SrSpec => []SrIInv
  <1>1. SrIInv /\ [SrNext]_srVars => SrIInv'
    BY StartSrIInv, CheckSrIInv, ManualSrIInv, SrStutter DEF SrNext, SrStep
  <1> QED
    BY InitSrIInv, <1>1, PTL DEF SrSpec

(* The variables of the renaming have their types.                         *)
THEOREM RenamingTypes == SrSpec => []SrTypeOK
  BY SrInvariance, PTL DEF SrIInv

(* At the end two names are the same only of the same symbol of a file.    *)
LEMMA SrIInvOneDefinition == SrIInv => SrOneDefinition
  <1>1. SUFFICES ASSUME SrIInv, srPc = "done", SrFresh,
                        NEW f \in SrFiles, NEW g \in SrFiles, f # g,
                        NEW s \in srOrig[f], NEW t \in srOrig[g],
                        SrMerged(f, s) = SrMerged(g, t)
                 PROVE  FALSE
    BY DEF SrOneDefinition, SrNames
  <1>2. s \in SrSymbols /\ t \in SrSymbols
    BY <1>1 DEF SrIInv, SrTypeOK
  <1>3. CASE s \in srPlan[f] /\ t \in srPlan[g]
    BY <1>1, <1>2, <1>3 DEF SrMerged, SrFresh
  <1>4. CASE s \in srPlan[f] /\ t \notin srPlan[g]
    BY <1>1, <1>2, <1>4 DEF SrMerged, SrFresh
  <1>5. CASE s \notin srPlan[f] /\ t \in srPlan[g]
    BY <1>1, <1>2, <1>5 DEF SrMerged, SrFresh
  <1>6. CASE s \notin srPlan[f] /\ t \notin srPlan[g]
    <2>1. s = t /\ s \in Keeping(f) /\ t \in Keeping(g)
      BY <1>1, <1>6 DEF SrMerged, Keeping
    <2> QED
      BY <1>1, <2>1 DEF SrIInv, ApartInv
  <1> QED
    BY <1>3, <1>4, <1>5, <1>6

(* prepare_rewritting leaves no two definitions of a name, in whatever     *)
(* order it comes to the files.                                            *)
THEOREM RenamedApart == SrSpec => []SrOneDefinition
  BY SrInvariance, SrIInvOneDefinition, PTL

LEMMA SrIInvOneKeeps == SrIInv => SrOneKeeps
  <1>1. SUFFICES ASSUME SrIInv, srPc = "done", SrFresh,
                        NEW sym \in (UNION Range(srOrig)) \ srForce
                 PROVE  Cardinality({f \in SrFiles : sym \in Keeping(f)}) = 1
    BY DEF SrOneKeeps, Keeping
  <1>2. PICK g \in SrFiles : sym \in srOrig[g]
    BY <1>1 DEF SrIInv, SrTypeOK, Range
  <1>3. PICK k \in SrFiles : sym \in Keeping(k)
    BY <1>1, <1>2 DEF SrIInv, KeptInv
  <1>4. \A f \in SrFiles : sym \in Keeping(f) => f = k
    BY <1>1, <1>3 DEF SrIInv, ApartInv
  <1>5. {f \in SrFiles : sym \in Keeping(f)} = {k}
    BY <1>3, <1>4
  <1> QED
    BY <1>5, FS_Singleton

(* Of the files that share a symbol exactly one keeps its name.            *)
THEOREM OneKeeps == SrSpec => []SrOneKeeps
  BY SrInvariance, SrIInvOneKeeps, PTL
-----------------------------------------------------------------------------
(* The lines of a log and its bytes                                        *)
LEMMA LogLines ==
  ASSUME NEW log, FcWritten(log)
  PROVE  /\ Len(log) \in Nat /\ Len(log) > 0 /\ DOMAIN log = 1 .. Len(log)
         /\ \A n \in 1 .. Len(log) : log[n] \in FcKinds /\ FcSize[log[n]] \in Nat /\ FcSize[log[n]] > 0
         /\ log[1] = "open" /\ log[Len(log)] = "close"
<1>1. log \in Seq(FcKinds) /\ log # <<>> /\ log[1] = "open" /\ log[Len(log)] = "close"
  BY DEF FcWritten
<1>2. /\ Len(log) \in Nat /\ Len(log) > 0 /\ DOMAIN log = 1 .. Len(log)
      /\ \A n \in 1 .. Len(log) : log[n] \in FcKinds
  BY <1>1
<1>. QED  BY <1>1, <1>2, FcSizeAssumption

LEMMA LineFollows ==
  ASSUME NEW log, FcWritten(log), NEW n \in 1 .. Len(log), n < Len(log)
  PROVE  /\ log[n] = "close" <=> log[n + 1] = "open"
         /\ log[n] = "open" => log[n + 1] = "empty"
         /\ log[n + 1] \in {"entry", "more"} => log[n] \in {"location", "entry", "more"}
         /\ log[n] \in {"location", "entry", "more"} => log[n + 1] \in {"entry", "more", "empty"}
<1>1. n \in 1 .. Len(log) - 1
  BY LogLines
<1>2. <<log[n], log[n + 1]>> \in FcFollows
  BY <1>1 DEF FcWritten
<1>. QED  BY <1>2 DEF FcFollows

LEMMA OffsetNext ==
  ASSUME NEW log, FcWritten(log), NEW n \in 1 .. Len(log)
  PROVE  FcOffset(log, n + 1) = FcOffset(log, n) + FcSize[log[n]]
<1> DEFINE Line(k) == {k} \X (1 .. FcSize[log[k]])
           Before(m) == UNION {Line(k) : k \in 1 .. m - 1}
<1>1. \A k \in 1 .. Len(log) : IsFiniteSet(Line(k)) /\ Cardinality(Line(k)) = FcSize[log[k]]
  <2> SUFFICES ASSUME NEW k \in 1 .. Len(log)
               PROVE  IsFiniteSet(Line(k)) /\ Cardinality(Line(k)) = FcSize[log[k]]
    OBVIOUS
  <2> DEFINE w == FcSize[log[k]]
  <2>1. w \in Nat /\ w > 0
    BY LogLines
  <2>2. IsFiniteSet(1 .. w) /\ Cardinality(1 .. w) = w
    <3> HIDE DEF w
    <3>1. IsFiniteSet(1 .. w) /\ Cardinality(1 .. w) = IF 1 > w THEN 0 ELSE w - 1 + 1
      BY <2>1, FS_Interval
    <3>. QED  BY <2>1, <3>1
  <2>3. IsFiniteSet({k}) /\ Cardinality({k}) = 1
    BY FS_Singleton
  <2>4. IsFiniteSet({k} \X (1 .. w)) /\ Cardinality({k} \X (1 .. w)) = 1 * w
    <3> HIDE DEF w
    <3>. QED  BY <2>2, <2>3, FS_Product
  <2>. QED  BY <2>1, <2>4
<1>2. IsFiniteSet(Before(n))
  <2> DEFINE T == {Line(k) : k \in 1 .. n - 1}
             f == [k \in 1 .. n - 1 |-> Line(k)]
  <2>1. f \in Surjection(1 .. n - 1, T)
    BY DEF Surjection
  <2>2. IsFiniteSet(1 .. n - 1)
    BY FS_Interval
  <2>3. IsFiniteSet(T)
    BY <2>1, <2>2, FS_Surjection
  <2>4. \A C \in T : IsFiniteSet(C)
    <3> HIDE DEF Line
    <3>. QED  BY <1>1
  <2>5. IsFiniteSet(UNION T)
    <3> HIDE DEF T
    <3>. QED  BY <2>3, <2>4, FS_UNION
  <2>. QED  BY <2>5
<1>3. Before(n + 1) = Before(n) \cup Line(n)
  <2> HIDE DEF Line
  <2>1. 1 .. (n + 1) - 1 = (1 .. n - 1) \cup {n}
    OBVIOUS
  <2>. QED  BY <2>1
<1>4. Before(n) \cap Line(n) = {}
  OBVIOUS
<1> HIDE DEF Before, Line
<1>5. Cardinality(Before(n + 1))
        = Cardinality(Before(n)) + Cardinality(Line(n)) - Cardinality(Before(n) \cap Line(n))
  BY <1>1, <1>2, <1>3, FS_Union
<1>6. Cardinality({}) = 0 /\ Cardinality(Before(n)) \in Nat /\ Cardinality(Line(n)) \in Nat
  BY <1>1, <1>2, FS_EmptySet, FS_CardinalityType
<1>7. Cardinality(Before(n) \cap Line(n)) = 0
  BY <1>4, <1>6
<1>8. Cardinality(Before(n + 1)) = Cardinality(Before(n)) + Cardinality(Line(n))
  BY <1>5, <1>6, <1>7
<1>. QED  BY <1>1, <1>8 DEF FcOffset, Before, Line

LEMMA OffsetType ==
  ASSUME NEW log, FcWritten(log)
  PROVE  /\ FcOffset(log, 1) = 0
         /\ \A n \in 1 .. Len(log) + 1 : FcOffset(log, n) \in Nat
<1>1. FcOffset(log, 1) = 0
  <2>1. UNION {{n} \X (1 .. FcSize[log[n]]) : n \in 1 .. 1 - 1} = {}
    OBVIOUS
  <2>. QED  BY <2>1, FS_EmptySet DEF FcOffset
<1> DEFINE Bad == {n \in 1 .. Len(log) + 1 : FcOffset(log, n) \notin Nat}
<1>2. Bad = {}
  <2> SUFFICES ASSUME NEW x \in Bad  PROVE FALSE
    OBVIOUS
  <2>1. \A k \in Bad : k \in Nat
    OBVIOUS
  <2>2. PICK m \in Bad : \A k \in Bad : m <= k
    <3> HIDE DEF Bad
    <3>. QED  BY <2>1, LeastOf
  <2>3. Len(log) \in Nat /\ m \in 1 .. Len(log) + 1 /\ m # 1
    BY <1>1, LogLines
  <2>4. m - 1 \in 1 .. Len(log) /\ m - 1 \notin Bad /\ (m - 1) + 1 = m
    BY <2>2, <2>3
  <2>5. FcOffset(log, m) = FcOffset(log, m - 1) + FcSize[log[m - 1]]
    BY <2>4, OffsetNext
  <2>6. FcOffset(log, m - 1) \in Nat /\ FcSize[log[m - 1]] \in Nat
    BY <2>3, <2>4, LogLines
  <2>. QED  BY <2>5, <2>6
<1>. QED  BY <1>1, <1>2

(* Lines that come later begin later                                       *)
LEMMA OffsetGrows ==
  ASSUME NEW log, FcWritten(log), NEW i \in 1 .. Len(log) + 1, NEW j \in 1 .. Len(log) + 1, i < j
  PROVE  FcOffset(log, i) < FcOffset(log, j)
<1> DEFINE Bad == {k \in i + 1 .. Len(log) + 1 : ~(FcOffset(log, i) < FcOffset(log, k))}
<1>1. Len(log) \in Nat
  BY LogLines
<1>2. Bad = {}
  <2> SUFFICES ASSUME NEW x \in Bad  PROVE FALSE
    OBVIOUS
  <2>1. \A k \in Bad : k \in Nat
    OBVIOUS
  <2>2. PICK m \in Bad : \A k \in Bad : m <= k
    <3> HIDE DEF Bad
    <3>. QED  BY <2>1, LeastOf
  <2>3. /\ m - 1 \in 1 .. Len(log) /\ (m - 1) + 1 = m /\ m \in 1 .. Len(log) + 1
        /\ m - 1 \notin Bad
    BY <1>1, <2>2
  <2>4. FcOffset(log, m) = FcOffset(log, m - 1) + FcSize[log[m - 1]]
    BY <2>3, OffsetNext
  <2>5. /\ FcOffset(log, m - 1) \in Nat /\ FcOffset(log, i) \in Nat /\ FcOffset(log, m) \in Nat
        /\ FcSize[log[m - 1]] \in Nat /\ FcSize[log[m - 1]] > 0
    BY <1>1, <2>3, OffsetType, LogLines
  <2>6. m - 1 = i \/ FcOffset(log, i) < FcOffset(log, m - 1)
    BY <1>1, <2>3
  <2>. QED  BY <2>4, <2>5, <2>6
<1>. QED  BY <1>1, <1>2

(* Every byte is in a line                                                 *)
LEMMA LineOf ==
  ASSUME NEW log, FcWritten(log), NEW start \in Nat, start < FcBytes(log)
  PROVE  \E n \in 1 .. Len(log) : FcOffset(log, n) <= start /\ start < FcOffset(log, n + 1)
<1> DEFINE S == {n \in 1 .. Len(log) + 1 : start < FcOffset(log, n)}
<1>1. Len(log) \in Nat /\ Len(log) + 1 \in S
  BY LogLines DEF FcBytes
<1>2. \A k \in S : k \in Nat
  OBVIOUS
<1>3. PICK m \in S : \A k \in S : m <= k
  <2> HIDE DEF S
  <2>. QED  BY <1>1, <1>2, LeastOf
<1>4. m # 1
  BY OffsetType
<1>5. m - 1 \in 1 .. Len(log) /\ m - 1 \notin S /\ (m - 1) + 1 = m
  BY <1>1, <1>3, <1>4
<1>6. FcOffset(log, m - 1) \in Nat
  BY <1>1, <1>5, OffsetType
<1>. QED  BY <1>1, <1>5, <1>6

(* Multiples of the size of a chunk                                        *)
LEMMA ChunkOf ==
  ASSUME NEW u \in Nat, u > 0, NEW x \in Nat
  PROVE  LET s == u * (x \div u)
         IN s \in Nat /\ s % u = 0 /\ s <= x /\ x < s + u
OBVIOUS

LEMMA ChunkQuotient ==
  ASSUME NEW u \in Nat, u > 0, NEW s \in Nat, s % u = 0, NEW x \in Nat, s <= x, x < s + u
  PROVE  x \div u = s \div u
OBVIOUS

LEMMA TimesGrows ==
  ASSUME NEW u \in Nat, u > 0, NEW a \in Int, NEW b \in Int, a < b
  PROVE  u * a + u <= u * b
<1>1. b - a - 1 \in Nat
  OBVIOUS
<1>2. \A c \in Nat : u * c >= 0
  OBVIOUS
<1>3. u * (b - a - 1) >= 0
  BY <1>1, <1>2
<1>4. u * (b - a - 1) = u * b - u * a - u
  OBVIOUS
<1>. QED  BY <1>3, <1>4

LEMMA NextChunk ==
  ASSUME NEW u \in Nat, u > 0, NEW s \in Nat, s % u = 0
  PROVE  (s + u) % u = 0
<1> DEFINE q == s \div u
           r == (s + u) \div u
<1>1. q \in Int /\ r \in Int /\ s = u * q /\ u * r <= s + u /\ s + u < u * r + u
      /\ (s + u) % u = s + u - u * r
  OBVIOUS
<1> HIDE DEF q, r
<1>2. u * (q + 1) = u * q + u
  BY <1>1
<1>3. ~(q + 1 < r)
  BY <1>1, <1>2, TimesGrows
<1>4. ~(r < q + 1)
  BY <1>1, <1>2, TimesGrows
<1>5. r = q + 1
  BY <1>1, <1>3, <1>4
<1>. QED  BY <1>1, <1>2, <1>5

LEMMA ChunksApart ==
  ASSUME NEW u \in Nat, u > 0, NEW s \in Nat, s % u = 0, NEW t \in Nat, t % u = 0, s < t
  PROVE  s + u <= t
<1> DEFINE q == s \div u
           r == t \div u
<1>1. q \in Int /\ r \in Int /\ s = u * q /\ t = u * r
  OBVIOUS
<1> HIDE DEF q, r
<1>2. q < r
  BY <1>1, TimesGrows
<1>. QED  BY <1>1, <1>2, TimesGrows
-----------------------------------------------------------------------------
(* The lines of a path, and the mark that opens its block                  *)
EntryLines == {"entry", "more"}
Body(log, l) == {k \in l .. Len(log) : \A j \in l + 1 .. k : log[j] \in EntryLines}
Opens(log, o, l) == log[o] = "open" /\ \A k \in o + 1 .. l : log[k] # "open"

(* A line is inside of a block that opens at s or later                    *)
Inside(log, s, l) == \E o \in 1 .. l - 1 : /\ log[o] = "open" /\ s <= FcOffset(log, o)
                                           /\ \A k \in o .. l - 1 : log[k] # "close"

(* The paths that begin before line l, in such blocks                      *)
Begun(log, s, l) == {m \in 1 .. l - 1 : log[m] = "location" /\ Inside(log, s, m)}

(* The paths that the chunk at t should read                               *)
Whole(log, u, t) == {l \in 1 .. Len(log) : /\ log[l] = "location"
                                           /\ \E o \in 1 .. l - 1 : /\ Opens(log, o, l)
                                                                    /\ t <= FcOffset(log, o)
                                                                    /\ FcOffset(log, o + 1) < t + u}

(* A block is open until it is closed                                      *)
LEMMA OpensIs ==
  ASSUME NEW log, FcWritten(log), NEW l \in 1 .. Len(log), NEW o \in 1 .. l - 1
  PROVE  Opens(log, o, l) <=> log[o] = "open" /\ \A k \in o .. l - 1 : log[k] # "close"
<1>1. Len(log) \in Nat
  BY LogLines
<1>2. ASSUME Opens(log, o, l), NEW k \in o .. l - 1, log[k] = "close"  PROVE FALSE
  <2>1. k \in 1 .. Len(log) /\ k < Len(log) /\ k + 1 \in o + 1 .. l
    BY <1>1
  <2>2. log[k + 1] = "open"
    BY <1>2, <2>1, LineFollows
  <2>. QED  BY <1>2, <2>1, <2>2 DEF Opens
<1>3. ASSUME \A k \in o .. l - 1 : log[k] # "close", NEW k \in o + 1 .. l, log[k] = "open"
      PROVE  FALSE
  <2>1. k - 1 \in 1 .. Len(log) /\ k - 1 < Len(log) /\ k - 1 \in o .. l - 1 /\ (k - 1) + 1 = k
    BY <1>1
  <2>2. log[k - 1] = "close"
    BY <1>3, <2>1, LineFollows
  <2>. QED  BY <1>3, <2>1, <2>2
<1>. QED  BY <1>2, <1>3 DEF Opens

LEMMA InsideNext ==
  ASSUME NEW log, FcWritten(log), NEW s \in Nat, NEW l \in 1 .. Len(log)
  PROVE  Inside(log, s, l + 1) <=> IF log[l] = "open" THEN s <= FcOffset(log, l)
                                   ELSE log[l] # "close" /\ Inside(log, s, l)
<1>1. Len(log) \in Nat
  BY LogLines
<1>2. ASSUME NEW o \in 1 .. (l + 1) - 1, log[o] = "open", s <= FcOffset(log, o),
             \A k \in o .. (l + 1) - 1 : log[k] # "close"
      PROVE  IF log[l] = "open" THEN s <= FcOffset(log, l)
             ELSE log[l] # "close" /\ Inside(log, s, l)
  <2>1. CASE o = l
    BY <1>2, <2>1
  <2>2. CASE o # l
    <3>1. o \in 1 .. l - 1 /\ l \in o .. (l + 1) - 1 /\ l - 1 \in o .. (l + 1) - 1
          /\ l - 1 \in 1 .. Len(log) /\ l - 1 < Len(log) /\ (l - 1) + 1 = l
      BY <1>1, <2>2
    <3>2. log[l] # "close" /\ log[l] # "open"
      BY <1>2, <3>1, LineFollows
    <3>3. \A k \in o .. l - 1 : log[k] # "close"
      BY <1>2
    <3>. QED  BY <1>2, <3>1, <3>2, <3>3 DEF Inside
  <2>. QED  BY <2>1, <2>2
<1>3. ASSUME log[l] = "open", s <= FcOffset(log, l)  PROVE Inside(log, s, l + 1)
  <2>1. l \in 1 .. (l + 1) - 1 /\ \A k \in l .. (l + 1) - 1 : k = l
    OBVIOUS
  <2>. QED  BY <1>3, <2>1 DEF Inside
<1>4. ASSUME log[l] # "close", Inside(log, s, l)  PROVE Inside(log, s, l + 1)
  <2>1. PICK o \in 1 .. l - 1 : /\ log[o] = "open" /\ s <= FcOffset(log, o)
                                /\ \A k \in o .. l - 1 : log[k] # "close"
    BY <1>4 DEF Inside
  <2>2. o \in 1 .. (l + 1) - 1 /\ \A k \in o .. (l + 1) - 1 : k \in o .. l - 1 \/ k = l
    OBVIOUS
  <2>. QED  BY <1>4, <2>1, <2>2 DEF Inside
<1>. QED  BY <1>2, <1>3, <1>4 DEF Inside

(* Nothing is inside that begins before s                                  *)
LEMMA InsideLater ==
  ASSUME NEW log, FcWritten(log), NEW s \in Nat, NEW l \in 1 .. Len(log) + 1, Inside(log, s, l)
  PROVE  s < FcOffset(log, l)
<1>1. Len(log) \in Nat
  BY LogLines
<1>2. PICK o \in 1 .. l - 1 : log[o] = "open" /\ s <= FcOffset(log, o)
  BY DEF Inside
<1>3. o \in 1 .. Len(log) + 1 /\ o < l
  BY <1>1
<1>4. FcOffset(log, o) < FcOffset(log, l) /\ FcOffset(log, o) \in Nat /\ FcOffset(log, l) \in Nat
  BY <1>3, OffsetGrows, OffsetType
<1>. QED  BY <1>2, <1>4

LEMMA BegunNext ==
  ASSUME NEW log, FcWritten(log), NEW s \in Nat, NEW l \in 1 .. Len(log)
  PROVE  Begun(log, s, l + 1)
           = Begun(log, s, l) \cup IF log[l] = "location" /\ Inside(log, s, l) THEN {l} ELSE {}
<1>1. 1 .. (l + 1) - 1 = (1 .. l - 1) \cup {l}
  OBVIOUS
<1>. QED  BY <1>1 DEF Begun

(* The lines of a path follow each other                                   *)
LEMMA BodyNext ==
  ASSUME NEW log, FcWritten(log), NEW l \in 1 .. Len(log), NEW n \in l + 1 .. Len(log)
  PROVE  n \in Body(log, l) <=> n - 1 \in Body(log, l) /\ log[n] \in EntryLines
<1>1. Len(log) \in Nat
  BY LogLines
<1>2. /\ n - 1 \in l .. Len(log) /\ n \in l .. Len(log) /\ n \in l + 1 .. n
      /\ \A j \in l + 1 .. n : j \in l + 1 .. n - 1 \/ j = n
      /\ \A j \in l + 1 .. n - 1 : j \in l + 1 .. n
  BY <1>1
<1>. QED  BY <1>2 DEF Body

LEMMA BodyFirst ==
  ASSUME NEW log, FcWritten(log), NEW l \in 1 .. Len(log)
  PROVE  /\ l \in Body(log, l) /\ Body(log, l) \in SUBSET (l .. Len(log))
         /\ \A m \in 1 .. Len(log) : Body(log, l) = Body(log, m) => l = m
         /\ Body(log, l) \cap (1 .. (l + 1) - 1) = {l}
<1>1. Len(log) \in Nat
  BY LogLines
<1>2. l + 1 .. l = {}
  OBVIOUS
<1>3. \A m \in 1 .. Len(log) : m \in Body(log, m) /\ \A k \in Body(log, m) : m <= k /\ k \in m .. Len(log)
  <2> SUFFICES ASSUME NEW m \in 1 .. Len(log)
               PROVE  m \in Body(log, m) /\ \A k \in Body(log, m) : m <= k /\ k \in m .. Len(log)
    OBVIOUS
  <2>1. m + 1 .. m = {} /\ m \in m .. Len(log)
    BY <1>1
  <2>. QED  BY <2>1 DEF Body
<1>4. ASSUME NEW m \in 1 .. Len(log), Body(log, l) = Body(log, m)  PROVE l = m
  <2>1. l <= m /\ m <= l
    BY <1>3, <1>4
  <2>. QED  BY <2>1
<1>5. Body(log, l) \cap (1 .. (l + 1) - 1) = {l}
  BY <1>1, <1>3
<1>. QED  BY <1>3, <1>4, <1>5

(* A path ends with its block                                              *)
LEMMA BodyInside ==
  ASSUME NEW log, FcWritten(log), NEW s \in Nat, NEW n \in 1 .. Len(log),
         NEW l \in Begun(log, s, n), n \in Body(log, l)
  PROVE  Inside(log, s, n)
<1>1. Len(log) \in Nat /\ l \in 1 .. n - 1 /\ log[l] = "location" /\ Inside(log, s, l)
  BY LogLines DEF Begun
<1>2. PICK o \in 1 .. l - 1 : /\ log[o] = "open" /\ s <= FcOffset(log, o)
                              /\ \A k \in o .. l - 1 : log[k] # "close"
  BY <1>1 DEF Inside
<1>3. \A k \in o .. n - 1 : k \in o .. l - 1 \/ k = l \/ k \in l + 1 .. n
  BY <1>1
<1>4. \A k \in l + 1 .. n : log[k] # "close"
  BY DEF Body, EntryLines
<1>5. o \in 1 .. n - 1 /\ \A k \in o .. n - 1 : log[k] # "close"
  BY <1>1, <1>2, <1>3, <1>4
<1>. QED  BY <1>2, <1>5 DEF Inside

LEMMA BodyEnds ==
  ASSUME NEW log, FcWritten(log), NEW l \in 1 .. Len(log), log[l] = "location"
  PROVE  \E j \in l .. Len(log) : log[j + 1] = "empty" /\ \A k \in l + 1 .. j : log[k] \in EntryLines
<1> DEFINE S == {k \in l + 1 .. Len(log) : log[k] \notin EntryLines}
<1>1. Len(log) \in Nat /\ Len(log) \in S
  BY LogLines DEF EntryLines
<1>2. \A k \in S : k \in Nat
  OBVIOUS
<1>3. PICK m \in S : \A k \in S : m <= k
  <2> HIDE DEF S
  <2>. QED  BY <1>1, <1>2, LeastOf
<1>4. /\ m - 1 \in l .. Len(log) /\ m - 1 \in 1 .. Len(log) /\ m - 1 < Len(log) /\ (m - 1) + 1 = m
      /\ m - 1 = l \/ m - 1 \in l + 1 .. Len(log)
  BY <1>1
<1>5. \A k \in l + 1 .. m - 1 : log[k] \in EntryLines
  BY <1>1, <1>3
<1>6. log[m - 1] \in {"location", "entry", "more"}
  BY <1>4, <1>5 DEF EntryLines
<1>7. log[m] = "empty"
  BY <1>4, <1>6, LineFollows DEF EntryLines
<1>. QED  BY <1>4, <1>5, <1>7

LEMMA BodyIs ==
  ASSUME NEW log, FcWritten(log), NEW l \in 1 .. Len(log), log[l] = "location",
         NEW j \in l .. Len(log), log[j + 1] = "empty", \A k \in l + 1 .. j : log[k] \in EntryLines
  PROVE  Body(log, l) = l .. j
<1>1. Len(log) \in Nat /\ l < Len(log) /\ log[Len(log)] \notin EntryLines
  BY LogLines DEF EntryLines
<1>2. j # Len(log)
  BY <1>1
<1>3. ASSUME NEW k \in Body(log, l)  PROVE k \in l .. j
  <2>1. k \in l .. Len(log) /\ \A i \in l + 1 .. k : log[i] \in EntryLines
    BY DEF Body
  <2>2. ~(k > j)
    <3> SUFFICES ASSUME k > j  PROVE FALSE
      OBVIOUS
    <3>1. j + 1 \in l + 1 .. k
      BY <1>1, <2>1
    <3>. QED  BY <2>1, <3>1 DEF EntryLines
  <2>. QED  BY <1>1, <2>1, <2>2
<1>4. ASSUME NEW k \in l .. j  PROVE k \in Body(log, l)
  BY <1>1, <1>4 DEF Body
<1>. QED  BY <1>3, <1>4

LEMMA PathsAre ==
  ASSUME FcWritten(fcLog), NEW p
  PROVE  p \in FcPaths <=> \E l \in 1 .. Len(fcLog) : fcLog[l] = "location" /\ p = Body(fcLog, l)
<1> DEFINE Ends(i, j) == /\ fcLog[j + 1] = "empty"
                         /\ \A k \in i + 1 .. j : fcLog[k] \in {"entry", "more"}
           EndOf(i) == CHOOSE j \in i .. Len(fcLog) : Ends(i, j)
<1>1. p \in FcPaths <=> \E l \in 1 .. Len(fcLog) : fcLog[l] = "location" /\ p = l .. EndOf(l)
  BY LogLines DEF FcPaths
<1>2. ASSUME NEW l \in 1 .. Len(fcLog), fcLog[l] = "location"
      PROVE  Body(fcLog, l) = l .. EndOf(l)
  <2>1. \E j \in l .. Len(fcLog) : Ends(l, j)
    BY <1>2, BodyEnds DEF EntryLines
  <2>2. EndOf(l) \in l .. Len(fcLog) /\ Ends(l, EndOf(l))
    <3> HIDE DEF Ends
    <3>. QED  BY <2>1
  <2> HIDE DEF EndOf
  <2>3. /\ fcLog[EndOf(l) + 1] = "empty"
        /\ \A k \in l + 1 .. EndOf(l) : fcLog[k] \in EntryLines
    BY <2>2 DEF EntryLines
  <2>. QED  BY <1>2, <2>2, <2>3, BodyIs
<1> HIDE DEF EndOf
<1>. QED  BY <1>1, <1>2
-----------------------------------------------------------------------------
(* What a chunk has read when it has come to a line: it is in an entry or  *)
(* between two as the log says; the path in hand is that begun last, as    *)
(* far as it goes, and the earlier ones are out                            *)
FcTypes ==
  /\ fcLog \in FcLogs /\ fcUnit \in FcUnits
  /\ fcStart \in Nat /\ fcStart % fcUnit = 0
  /\ fcLine \in 1 .. Len(fcLog) + 1
  /\ fcOffset \in Nat
  /\ fcPart \in BOOLEAN /\ fcEnable \in BOOLEAN /\ fcMore \in BOOLEAN

FcPlaced ==
  fcLine <= Len(fcLog) =>
    /\ fcOffset = FcOffset(fcLog, fcLine + 1) /\ fcStart < fcOffset
    /\ fcPart <=> FcOffset(fcLog, fcLine) < fcStart
    /\ fcMore <=> fcEnable /\ fcLog[fcLine] = "more"
    /\ fcEnable /\ fcLog[fcLine] \in EntryLines => fcLine - 1 \in fcPath

FcEnabled == fcEnable <=> Inside(fcLog, fcStart, fcLine)

(* No block opens behind the chunk                                          *)
FcWithin ==
  \A o \in 1 .. Len(fcLog) : o <= fcLine /\ fcLog[o] = "open" /\ fcStart <= FcOffset(fcLog, o) =>
    FcOffset(fcLog, o + 1) < fcStart + fcUnit

Here == Begun(fcLog, fcStart, fcLine)
FcCurrent ==
  IF Here = {} THEN fcPath = {}
  ELSE \E l \in Here : /\ \A m \in Here : m <= l
                       /\ fcPath = Body(fcLog, l) \cap (1 .. fcLine - 1)

(* What the chunks before s have yielded                                    *)
Yielded(x, log, u, s) == \E t \in 0 .. s - 1 : /\ t % u = 0
                                              /\ \E l \in Whole(log, u, t) : x = <<t, Body(log, l)>>
FcYields ==
  \A x : x \in fcOut <=> \/ Yielded(x, fcLog, fcUnit, fcStart)
                         \/ \E l \in Here : (\E m \in Here : l < m) /\ x = <<fcStart, Body(fcLog, l)>>

FcReading == FcTypes /\ FcPlaced /\ FcEnabled /\ FcWithin /\ FcCurrent /\ FcYields
FcEnded == /\ FcTypes /\ fcPath \subseteq 1 .. Len(fcLog)
           /\ \A x : x \in fcOut <=> Yielded(x, fcLog, fcUnit, fcStart + fcUnit)
           /\ FcBytes(fcLog) <= fcStart + fcUnit
FcIInv == /\ fcPc \in {"idle", "read", "done"}
          /\ fcPc = "idle" => FcInit
          /\ fcPc = "read" => FcReading
          /\ fcPc = "done" => FcEnded

LEMMA LogIs == \A log \in FcLogs : FcWritten(log)
BY FcLogsAssumption

LEMMA UnitIs ==
  ASSUME NEW u \in FcUnits
  PROVE  /\ u \in Nat /\ u > 0 /\ u > FcSize["open"] + FcSize["close"]
         /\ FcSize["open"] \in Nat /\ FcSize["open"] > 0
         /\ FcSize["close"] \in Nat /\ FcSize["close"] > 0
<1>1. FcSize["open"] \in Nat \ {0} /\ FcSize["close"] \in Nat \ {0}
  BY FcSizeAssumption DEF FcKinds
<1>. QED  BY <1>1, FcUnitsAssumption

LEMMA FcSeeking ==
  ASSUME NEW log \in FcLogs, NEW u \in FcUnits, NEW s \in Nat, s % u = 0,
         fcLog' = log, fcUnit' = u, FcSeek(log, s),
         \A x : x \in fcOut' <=> Yielded(x, log, u, s)
  PROVE  FcReading'
<1> DEFINE i == fcLine'
           At(n) == FcOffset(log, n) <= s /\ s < FcOffset(log, n + 1)
<1>1. FcWritten(log) /\ Len(log) \in Nat
  BY LogIs, LogLines
<1>2. /\ fcStart' = s /\ fcEnable' = FALSE /\ fcMore' = FALSE /\ fcPath' = {}
      /\ i = IF s >= FcBytes(log) THEN Len(log) + 1 ELSE CHOOSE n \in 1 .. Len(log) : At(n)
      /\ fcOffset' = IF i > Len(log) THEN s ELSE FcOffset(log, i + 1)
      /\ fcPart' = (i <= Len(log) /\ FcOffset(log, i) < s)
  BY DEF FcSeek
<1>3. FcBytes(log) = FcOffset(log, Len(log) + 1) /\ FcBytes(log) \in Nat
  BY <1>1, OffsetType DEF FcBytes
<1>4. /\ i \in 1 .. Len(log) + 1 /\ FcOffset(log, i) <= s
      /\ i <= Len(log) => s < FcOffset(log, i + 1)
  <2>1. CASE s >= FcBytes(log)
    BY <1>1, <1>2, <1>3, <2>1
  <2>2. CASE s < FcBytes(log)
    <3>1. \E n \in 1 .. Len(log) : At(n)
      BY <1>1, <2>2, LineOf
    <3>2. i = CHOOSE n \in 1 .. Len(log) : At(n)
      <4> HIDE DEF At, i
      <4>. QED  BY <1>2, <1>3, <2>2
    <3>3. i \in 1 .. Len(log) /\ At(i)
      <4> HIDE DEF At, i
      <4>. QED  BY <3>1, <3>2
    <3>. QED  BY <1>1, <3>3
  <2>. QED  BY <1>3, <2>1, <2>2
<1> HIDE DEF i
<1>5. \A n \in 1 .. Len(log) + 1 : FcOffset(log, n) \in Nat
  BY <1>1, OffsetType
<1>6. \A n \in 1 .. Len(log) + 1 : n < i => FcOffset(log, n) < s
  <2> SUFFICES ASSUME NEW n \in 1 .. Len(log) + 1, n < i  PROVE FcOffset(log, n) < s
    OBVIOUS
  <2>1. FcOffset(log, n) < FcOffset(log, i)
    BY <1>1, <1>4, OffsetGrows
  <2>. QED  BY <1>4, <1>5, <2>1
<1>7. ~Inside(log, s, i)
  <2>1. FcOffset(log, i) \in Nat
    BY <1>4, <1>5
  <2>. QED  BY <1>1, <1>4, <2>1, InsideLater
<1>8. Begun(log, s, i) = {}
  <2> SUFFICES ASSUME NEW m \in 1 .. i - 1, Inside(log, s, m)  PROVE FALSE
    BY DEF Begun
  <2>1. m \in 1 .. Len(log) + 1 /\ m < i
    BY <1>1, <1>4
  <2>2. s < FcOffset(log, m) /\ FcOffset(log, m) < s /\ FcOffset(log, m) \in Nat
    BY <1>1, <1>5, <1>6, <2>1, InsideLater
  <2>. QED  BY <2>2
<1>9. FcTypes'
  <2>1. fcOffset' \in Nat
    <3>1. i <= Len(log) => i + 1 \in 1 .. Len(log) + 1
      BY <1>1, <1>4
    <3>. QED  BY <1>1, <1>2, <1>4, <1>5, <3>1
  <2>. QED  BY <1>2, <1>4, <2>1 DEF FcTypes, i
<1>10. FcPlaced'
  <2>1. i <= Len(log) => fcOffset' = FcOffset(log, i + 1) /\ s < fcOffset'
    <3> SUFFICES ASSUME i <= Len(log)  PROVE fcOffset' = FcOffset(log, i + 1) /\ s < fcOffset'
      OBVIOUS
    <3>1. ~(i > Len(log))
      BY <1>1, <1>4
    <3>2. fcOffset' = FcOffset(log, i + 1)
      BY <1>2, <3>1
    <3>. QED  BY <1>4, <3>2
  <2>2. i <= Len(log) => (fcPart' <=> FcOffset(log, i) < s)
    BY <1>2
  <2>. QED  BY <1>2, <2>1, <2>2 DEF FcPlaced, i
<1>11. FcEnabled'
  BY <1>2, <1>7 DEF FcEnabled, i
<1>12. FcWithin'
  <2> SUFFICES ASSUME NEW o \in 1 .. Len(log), o <= i, log[o] = "open", s <= FcOffset(log, o)
               PROVE  FcOffset(log, o + 1) < s + u
    BY <1>2 DEF FcWithin, i
  <2>1. o \in 1 .. Len(log) + 1 /\ FcOffset(log, o) \in Nat
    BY <1>1, <1>5
  <2>2. o = i
    BY <1>4, <1>6, <2>1
  <2>3. FcOffset(log, o) = s
    BY <1>4, <2>1, <2>2
  <2>4. FcOffset(log, o + 1) = FcOffset(log, o) + FcSize["open"]
    BY <1>1, OffsetNext
  <2>. QED  BY <2>3, <2>4, UnitIs
<1>13. Here' = {}
  BY <1>2, <1>8 DEF Here, i
<1>14. FcCurrent' /\ FcYields'
  BY <1>2, <1>13 DEF FcCurrent, FcYields
<1>. QED  BY <1>9, <1>10, <1>11, <1>12, <1>14 DEF FcReading

(* The path in hand is whole when its next line is something else           *)
LEMMA BodyStops ==
  ASSUME NEW log, FcWritten(log), NEW l \in 1 .. Len(log), NEW n \in l + 1 .. Len(log) + 1,
         n <= Len(log) => log[n] \notin EntryLines
  PROVE  Body(log, l) \cap (1 .. n - 1) = Body(log, l)
<1>1. Len(log) \in Nat
  BY LogLines
<1> SUFFICES ASSUME NEW k \in Body(log, l), ~(k \in 1 .. n - 1)  PROVE FALSE
  OBVIOUS
<1>2. k \in l .. Len(log) /\ \A j \in l + 1 .. k : log[j] \in EntryLines
  BY DEF Body
<1>3. n <= Len(log) /\ n \in l + 1 .. k
  BY <1>1, <1>2
<1>. QED  BY <1>2, <1>3

(* One line read: what becomes of the flags, the path and the output        *)
LEMMA FcLineRead ==
  ASSUME FcReading, FcRead
  PROVE  LET L == fcLine
             inside == Inside(fcLog, fcStart, L)
             first == fcLog[L] = "location" /\ inside
             next == fcLog[L] \in EntryLines /\ inside
         IN /\ fcEnable' <=> Inside(fcLog, fcStart, L + 1)
            /\ first => fcPath' = {L}
            /\ next => fcPath' = fcPath \cup {L}
            /\ ~first /\ ~next => fcPath' = fcPath
            /\ first /\ fcPath # {} => fcOut' = fcOut \cup {<<fcStart, fcPath>>}
            /\ ~first \/ fcPath = {} => fcOut' = fcOut
            /\ L < Len(fcLog) => (fcMore' <=> fcEnable' /\ fcLog[L + 1] = "more")
            /\ fcEnable' \in BOOLEAN /\ fcMore' \in BOOLEAN
<1> DEFINE L == fcLine
           inside == Inside(fcLog, fcStart, L)
           after == Inside(fcLog, fcStart, L + 1)
           first == fcLog[L] = "location" /\ inside
           next == fcLog[L] \in EntryLines /\ inside
           k == fcLog[L]
<1>1. /\ FcWritten(fcLog) /\ fcStart \in Nat /\ Len(fcLog) \in Nat
      /\ L \in 1 .. Len(fcLog) /\ L <= Len(fcLog)
      /\ fcPart \in BOOLEAN /\ fcEnable \in BOOLEAN /\ fcMore \in BOOLEAN
  BY LogIs, LogLines DEF FcReading, FcTypes, FcRead
<1>2. /\ fcPart <=> FcOffset(fcLog, L) < fcStart
      /\ fcMore <=> fcEnable /\ k = "more"
      /\ fcEnable <=> inside
  BY <1>1 DEF FcReading, FcPlaced, FcEnabled
<1>3. FcOffset(fcLog, L) \in Nat
  BY <1>1, OffsetType
<1>4. fcPart => ~fcEnable /\ ~fcMore
  <2>1. inside => fcStart < FcOffset(fcLog, L)
    BY <1>1, InsideLater
  <2>. QED  BY <1>1, <1>2, <1>3, <2>1
<1>5. after <=> IF k = "open" THEN fcStart <= FcOffset(fcLog, L) ELSE k # "close" /\ inside
  BY <1>1, InsideNext
<1>6. FcHere = IF fcPart THEN "empty" ELSE k
  BY <1>1 DEF FcHere
<1>7. L < Len(fcLog) => /\ fcLog[L + 1] = "more" => k \in {"location", "entry", "more"}
  BY <1>1, LineFollows
<1>8. k \in FcKinds
  BY <1>1, LogLines
<1>9. FcEntryEnds <=> L >= Len(fcLog) \/ fcLog[L + 1] # "more"
  BY DEF FcEntryEnds
<1> HIDE DEF inside, after, k, L
<1> DEFINE less == L < Len(fcLog)
           goes == fcLog[L + 1] = "more"
           Goal == /\ fcEnable' <=> after
                   /\ first => fcPath' = {L}
                   /\ next => fcPath' = fcPath \cup {L}
                   /\ ~first /\ ~next => fcPath' = fcPath
                   /\ first /\ fcPath # {} => fcOut' = fcOut \cup {<<fcStart, fcPath>>}
                   /\ ~first \/ fcPath = {} => fcOut' = fcOut
                   /\ less => (fcMore' <=> fcEnable' /\ goes)
                   /\ fcEnable' \in BOOLEAN /\ fcMore' \in BOOLEAN
<1> SUFFICES Goal
  BY DEF L, inside, after, first, next
<1>10. first <=> k = "location" /\ inside
  BY DEF k
<1>11. next <=> (k = "entry" \/ k = "more") /\ inside
  BY DEF k, EntryLines
<1>12. less => (FcEntryEnds <=> ~goes)
  <2>1. less => ~(L >= Len(fcLog))
    BY <1>1
  <2>. QED  BY <1>9, <2>1, Zenon
<1>13. less /\ goes => k \in {"location", "entry", "more"}
  BY <1>7
<1>14. ~fcPart => fcStart <= FcOffset(fcLog, L)
  BY <1>1, <1>2, <1>3
<1> HIDE DEF first, next, less, goes
<1>15. ASSUME FcMark  PROVE Goal
  <2>1. /\ ~fcMore /\ FcHere \in {"open", "close"}
        /\ fcEnable' = (FcHere = "open")
        /\ fcMore' = fcMore /\ fcPath' = fcPath /\ fcOut' = fcOut
    BY <1>15 DEF FcMark
  <2>2. ~fcPart /\ FcHere = k
    BY <1>6, <2>1
  <2>3. k = "open" \/ k = "close"
    BY <2>1, <2>2
  <2>4. fcEnable' <=> k = "open"
    BY <2>1, <2>2, Zenon
  <2>5. after <=> k = "open"
    BY <1>5, <1>14, <2>2, <2>3
  <2>6. ~first /\ ~next
    BY <1>10, <1>11, <2>3
  <2>7. ~(less /\ goes)
    BY <1>13, <2>3
  <2>8. fcEnable' \in BOOLEAN /\ fcMore' \in BOOLEAN /\ ~fcMore'
    BY <1>1, <2>1, Zenon
  <2>. QED  BY <2>1, <2>4, <2>5, <2>6, <2>7, <2>8, Zenon DEF Goal
<1>16. ASSUME FcSkip  PROVE Goal
  <2>1. /\ ~fcMore
        /\ fcEnable' = fcEnable /\ fcMore' = fcMore /\ fcPath' = fcPath /\ fcOut' = fcOut
        /\ \/ FcHere \in {"empty", "more"}
           \/ FcHere \in {"location", "entry"} /\ ~fcEnable
    BY <1>16 DEF FcSkip
  <2>2. k # "open" \/ fcPart
    BY <1>6, <2>1
  <2>3. after <=> fcEnable
    <3>1. CASE fcPart
      <4>1. ~fcEnable /\ ~inside
        BY <1>2, <1>4, <3>1
      <4>2. ~(fcStart <= FcOffset(fcLog, L))
        BY <1>1, <1>2, <1>3, <3>1
      <4>. QED  BY <1>5, <4>1, <4>2
    <3>2. CASE ~fcPart
      <4>1. k # "open" /\ k # "close"
        BY <1>6, <2>1, <3>2
      <4>. QED  BY <1>2, <1>5, <4>1
    <3>. QED  BY <3>1, <3>2
  <2>4. ~first /\ ~next
    <3>1. CASE ~fcEnable
      BY <1>2, <1>10, <1>11, <3>1
    <3>2. CASE fcEnable
      <4>1. ~fcPart /\ k \in {"empty", "more"}
        BY <1>4, <1>6, <2>1, <3>2
      <4>2. k # "more"
        BY <1>2, <2>1, <3>2
      <4>. QED  BY <1>10, <1>11, <4>1, <4>2
    <3>. QED  BY <3>1, <3>2
  <2>5. ~(less /\ goes /\ fcEnable)
    <3>1. less /\ goes /\ fcEnable => first \/ next
      BY <1>2, <1>10, <1>11, <1>13
    <3>. QED  BY <2>4, <3>1
  <2>. QED  BY <1>1, <2>1, <2>3, <2>4, <2>5, Zenon DEF Goal
<1>17. ASSUME FcKey  PROVE Goal
  <2>1. /\ ~fcMore /\ fcEnable /\ FcHere \in {"location", "entry"} /\ FcAdd
        /\ fcMore' = ~FcEntryEnds /\ fcEnable' = fcEnable
    BY <1>17 DEF FcKey
  <2>2. inside /\ ~fcPart /\ (k = "location" \/ k = "entry") /\ FcHere = k
    BY <1>2, <1>4, <1>6, <2>1
  <2>3. after
    BY <1>5, <2>2
  <2>4. /\ fcEnable' \in BOOLEAN /\ fcMore' \in BOOLEAN /\ fcEnable'
        /\ fcMore' <=> ~FcEntryEnds
    BY <1>1, <2>1, Zenon
  <2>5. less => (fcMore' <=> fcEnable' /\ goes)
    BY <1>12, <2>4, Zenon
  <2>6. CASE k = "location"
    <3>1. first /\ ~next
      BY <1>10, <1>11, <2>2, <2>6
    <3>2. /\ fcOut' = IF fcPath = {} THEN fcOut ELSE fcOut \cup {<<fcStart, fcPath>>}
          /\ fcPath' = {L}
      BY <2>1, <2>2, <2>6 DEF FcAdd, L
    <3>. QED  BY <2>3, <2>4, <2>5, <3>1, <3>2, Zenon DEF Goal
  <2>7. CASE k = "entry"
    <3>1. ~first /\ next
      BY <1>10, <1>11, <2>2, <2>7
    <3>2. fcOut' = fcOut /\ fcPath' = fcPath \cup {L}
      BY <2>1, <2>2, <2>7 DEF FcAdd, L
    <3>. QED  BY <2>3, <2>4, <2>5, <3>1, <3>2, Zenon DEF Goal
  <2>. QED  BY <2>2, <2>6, <2>7
<1>18. ASSUME FcContinue  PROVE Goal
  <2>1. /\ fcMore /\ fcPath' = fcPath \cup {L}
        /\ fcMore' = ~FcEntryEnds /\ fcEnable' = fcEnable /\ fcOut' = fcOut
    BY <1>18 DEF FcContinue, L
  <2>2. inside /\ k = "more" /\ fcEnable
    BY <1>2, <1>4, <2>1
  <2>3. after
    BY <1>5, <2>2
  <2>4. /\ fcEnable' \in BOOLEAN /\ fcMore' \in BOOLEAN /\ fcEnable'
        /\ fcMore' <=> ~FcEntryEnds
    BY <1>1, <2>1, <2>2, Zenon
  <2>5. less => (fcMore' <=> fcEnable' /\ goes)
    BY <1>12, <2>4, Zenon
  <2>6. ~first /\ next
    BY <1>10, <1>11, <2>2
  <2>. QED  BY <2>1, <2>3, <2>4, <2>5, <2>6, Zenon DEF Goal
<1>. QED  BY <1>15, <1>16, <1>17, <1>18 DEF FcRead

(* Reading a line keeps everything                                         *)
LEMMA FcReads ==
  ASSUME FcReading, FcRead
  PROVE  FcReading'
<1> DEFINE L == fcLine
           N == Len(fcLog)
           Off(n) == FcOffset(fcLog, n)
           inside == Inside(fcLog, fcStart, L)
           first == fcLog[L] = "location" /\ inside
           next == fcLog[L] \in EntryLines /\ inside
<1>1. /\ FcWritten(fcLog) /\ fcLog \in FcLogs /\ fcUnit \in FcUnits /\ fcStart \in Nat
      /\ fcStart % fcUnit = 0 /\ N \in Nat /\ L \in 1 .. N /\ L <= N
  BY LogIs, LogLines DEF FcReading, FcTypes, FcRead
<1>2. /\ fcLog' = fcLog /\ fcUnit' = fcUnit /\ fcStart' = fcStart /\ fcLine' = L + 1
      /\ fcPart' = FALSE /\ ~FcChunkEnds
      /\ fcOffset' = IF L < N THEN fcOffset + FcSize[fcLog[L + 1]] ELSE fcOffset
  BY DEF FcRead
<1>3. /\ fcOffset = Off(L + 1) /\ fcStart < Off(L + 1)
      /\ fcPart <=> Off(L) < fcStart
      /\ fcEnable /\ fcLog[L] \in EntryLines => L - 1 \in fcPath
      /\ fcEnable <=> inside
  BY <1>1 DEF FcReading, FcPlaced, FcEnabled
<1>4. /\ fcEnable' <=> Inside(fcLog, fcStart, L + 1)
      /\ first => fcPath' = {L}
      /\ next => fcPath' = fcPath \cup {L}
      /\ ~first /\ ~next => fcPath' = fcPath
      /\ first /\ fcPath # {} => fcOut' = fcOut \cup {<<fcStart, fcPath>>}
      /\ ~first \/ fcPath = {} => fcOut' = fcOut
      /\ L < N => (fcMore' <=> fcEnable' /\ fcLog[L + 1] = "more")
      /\ fcEnable' \in BOOLEAN /\ fcMore' \in BOOLEAN
  BY FcLineRead
<1>5. \A n \in 1 .. N + 1 : Off(n) \in Nat
  BY <1>1, OffsetType
<1>6. \A n \in 1 .. N : /\ Off(n + 1) = Off(n) + FcSize[fcLog[n]]
                        /\ FcSize[fcLog[n]] \in Nat /\ FcSize[fcLog[n]] > 0
  BY <1>1, OffsetNext, LogLines
<1>7. ~(first /\ next)
  BY DEF EntryLines
<1>8. Inside(fcLog, fcStart, L + 1) /\ fcLog[L] # "open" => inside
  BY <1>1, InsideNext
<1>9. fcLog[L] # "open" /\ fcLog[L] # "close" /\ inside => Inside(fcLog, fcStart, L + 1)
  BY <1>1, InsideNext
<1> HIDE DEF Off, inside
<1>10. L + 1 \in 1 .. N + 1 /\ Off(L + 1) \in Nat /\ fcOffset' \in Nat
  <2>1. L + 1 \in 1 .. N + 1 /\ (L < N => L + 1 \in 1 .. N)
    BY <1>1
  <2>. QED  BY <1>2, <1>3, <1>5, <1>6, <2>1
<1>11. FcTypes'
  <2>1. FcTypes
    BY DEF FcReading
  <2>2. fcLine' \in 1 .. Len(fcLog') + 1
    BY <1>2, <1>10
  <2>. QED  BY <1>1, <1>2, <1>4, <1>10, <2>1, <2>2 DEF FcTypes
<1>12. FcPlaced'
  <2>1. SUFFICES ASSUME L + 1 <= N
                 PROVE  /\ fcOffset' = Off((L + 1) + 1) /\ fcStart < fcOffset'
                        /\ ~(Off(L + 1) < fcStart)
                        /\ fcMore' <=> fcEnable' /\ fcLog[L + 1] = "more"
                        /\ fcEnable' /\ fcLog[L + 1] \in EntryLines => L \in fcPath'
    BY <1>1, <1>2 DEF FcPlaced, Off
  <2>2. L < N /\ L + 1 \in 1 .. N
    BY <1>1, <2>1
  <2>3. fcOffset' = Off(L + 1) + FcSize[fcLog[L + 1]]
    BY <1>2, <1>3, <2>2
  <2>4. Off((L + 1) + 1) = Off(L + 1) + FcSize[fcLog[L + 1]] /\ FcSize[fcLog[L + 1]] \in Nat
    BY <1>6, <2>2
  <2>5. fcOffset' = Off((L + 1) + 1) /\ fcStart < fcOffset' /\ ~(Off(L + 1) < fcStart)
    BY <1>1, <1>3, <1>10, <2>3, <2>4
  <2>6. ASSUME fcEnable', fcLog[L + 1] \in EntryLines  PROVE L \in fcPath'
    <3>1. fcLog[L] \in {"location", "entry", "more"}
      BY <1>1, <2>2, <2>6, LineFollows DEF EntryLines
    <3>2. inside
      BY <1>4, <1>8, <2>6, <3>1
    <3>3. first \/ next
      BY <3>1, <3>2 DEF EntryLines
    <3>. QED  BY <1>4, <3>3
  <2>. QED  BY <1>4, <2>2, <2>5, <2>6
<1>13. FcEnabled'
  BY <1>2, <1>4 DEF FcEnabled
<1>14. FcWithin'
  <2>1. SUFFICES ASSUME NEW o \in 1 .. N, o <= L + 1, fcLog[o] = "open", fcStart <= Off(o)
                 PROVE  Off(o + 1) < fcStart + fcUnit
    BY <1>2 DEF FcWithin, Off
  <2>2. CASE o <= L
    BY <2>1, <2>2 DEF FcReading, FcWithin, Off
  <2>3. CASE ~(o <= L)
    <3>1. o = L + 1 /\ L < N /\ L + 1 \in 1 .. N
      BY <1>1, <2>1, <2>3
    <3>2. fcLog[L] = "close" /\ fcLog[L + 1] = "open"
      BY <1>1, <2>1, <3>1, LineFollows
    <3>3. /\ Off((L + 1) + 1) = Off(L + 1) + FcSize["open"] /\ Off(L + 1) = Off(L) + FcSize["close"]
          /\ Off(L) \in Nat
      BY <1>1, <1>5, <1>6, <3>1, <3>2
    <3>4. CASE fcPart
      <4>1. Off(L) < fcStart
        BY <1>3, <3>4
      <4>. QED  BY <1>1, <3>1, <3>3, <4>1, UnitIs
    <3>5. CASE ~fcPart
      <4>1. FcHere = "close"
        BY <1>1, <3>2, <3>5 DEF FcHere
      <4>2. ~(Off(L + 1) + FcSize["open"] >= fcStart + fcUnit)
        BY <1>2, <1>3, <3>1, <3>2, <4>1 DEF FcChunkEnds
      <4>. QED  BY <1>1, <3>1, <3>3, <4>2, UnitIs
    <3>. QED  BY <3>4, <3>5
  <2>. QED  BY <2>2, <2>3
<1>15. Here' = Here \cup IF first THEN {L} ELSE {}
  BY <1>1, <1>2, BegunNext DEF Here, inside
<1>16. \A m \in Here : m \in 1 .. N /\ m < L /\ m \in Nat
  BY <1>1 DEF Here, Begun
<1>17. FcCurrent /\ FcYields
  BY DEF FcReading
<1>18. ASSUME first, NEW l0 \in Here, fcPath = Body(fcLog, l0) \cap (1 .. L - 1)
       PROVE  fcPath = Body(fcLog, l0) /\ fcPath # {}
  <2>1. L \in l0 + 1 .. N + 1 /\ l0 \in 1 .. N /\ fcLog[L] \notin EntryLines
    BY <1>1, <1>16, <1>18 DEF EntryLines
  <2>2. Body(fcLog, l0) \cap (1 .. L - 1) = Body(fcLog, l0)
    BY <1>1, <2>1, BodyStops
  <2>. QED  BY <1>1, <1>18, <2>1, <2>2, BodyFirst
<1>19. ASSUME ~first, NEW l0 \in Here, fcPath = Body(fcLog, l0) \cap (1 .. L - 1)
       PROVE  fcPath' = Body(fcLog, l0) \cap (1 .. (L + 1) - 1)
  <2>1. L \in l0 + 1 .. N /\ l0 \in 1 .. N
    BY <1>1, <1>16
  <2>2. L \in Body(fcLog, l0) <=> L - 1 \in Body(fcLog, l0) /\ fcLog[L] \in EntryLines
    BY <1>1, <2>1, BodyNext
  <2>3. 1 .. (L + 1) - 1 = (1 .. L - 1) \cup {L}
    BY <1>1
  <2>4. CASE next
    <3>1. L - 1 \in fcPath
      BY <1>3, <2>4
    <3>2. L \in Body(fcLog, l0)
      BY <1>19, <2>2, <2>4, <3>1
    <3>3. fcPath' = fcPath \cup {L}
      BY <1>4, <2>4
    <3>. QED  BY <1>19, <2>3, <3>2, <3>3
  <2>5. CASE ~next
    <3>1. L \notin Body(fcLog, l0)
      <4> SUFFICES ASSUME L \in Body(fcLog, l0)  PROVE FALSE
        OBVIOUS
      <4>1. inside
        <5>1. l0 \in Begun(fcLog, fcStart, L)
          BY DEF Here
        <5>. QED  BY <1>1, <5>1, BodyInside DEF inside
      <4>. QED  BY <2>2, <2>5, <4>1
    <3>2. fcPath' = fcPath
      BY <1>4, <1>19, <2>5
    <3>. QED  BY <1>19, <2>3, <3>1, <3>2
  <2>. QED  BY <2>4, <2>5
<1>20. FcCurrent'
  <2>1. CASE first
    <3>1. Here' = Here \cup {L} /\ fcPath' = {L}
      BY <1>4, <1>15, <2>1
    <3>2. \A m \in Here' : m <= L
      BY <1>1, <1>16, <3>1
    <3>3. Body(fcLog, L) \cap (1 .. (L + 1) - 1) = {L}
      BY <1>1, BodyFirst
    <3>4. L \in Here' /\ fcPath' = Body(fcLog', L) \cap (1 .. fcLine' - 1)
      BY <1>2, <3>1, <3>3
    <3>. QED  BY <3>2, <3>4 DEF FcCurrent
  <2>2. CASE ~first /\ Here = {}
    <3>1. Here' = {} /\ fcPath = {}
      BY <1>15, <1>17, <2>2 DEF FcCurrent
    <3>2. ~next
      BY <1>3, <3>1
    <3>3. fcPath' = {}
      BY <1>4, <2>2, <3>1, <3>2
    <3>. QED  BY <3>1, <3>3 DEF FcCurrent
  <2>3. CASE ~first /\ Here # {}
    <3>1. Here' = Here
      BY <1>15, <2>3
    <3>2. PICK l \in Here : (\A m \in Here : m <= l) /\ fcPath = Body(fcLog, l) \cap (1 .. L - 1)
      BY <1>17, <2>3 DEF FcCurrent
    <3>3. fcPath' = Body(fcLog, l) \cap (1 .. (L + 1) - 1)
      BY <1>19, <2>3, <3>2
    <3>4. fcPath' = Body(fcLog', l) \cap (1 .. fcLine' - 1)
      BY <1>2, <3>3
    <3>. QED  BY <3>1, <3>2, <3>4, <2>3 DEF FcCurrent
  <2>. QED  BY <2>1, <2>2, <2>3
<1>21. FcYields'
  <2>1. \A x : Yielded(x, fcLog, fcUnit, fcStart)' <=> Yielded(x, fcLog, fcUnit, fcStart)
    BY <1>2
  <2>2. CASE ~first
    BY <1>2, <1>4, <1>15, <1>17, <2>1, <2>2 DEF FcYields
  <2>3. CASE first /\ Here = {}
    <3>1. fcOut' = fcOut /\ Here' = {L}
      BY <1>4, <1>15, <1>17, <2>3 DEF FcCurrent
    <3>2. ~(L < L)
      BY <1>1
    <3>. QED  BY <1>2, <1>17, <2>1, <2>3, <3>1, <3>2 DEF FcYields
  <2>4. CASE first /\ Here # {}
    <3>1. PICK l0 \in Here : (\A m \in Here : m <= l0) /\ fcPath = Body(fcLog, l0) \cap (1 .. L - 1)
      BY <1>17, <2>4 DEF FcCurrent
    <3>2. fcPath = Body(fcLog, l0) /\ fcPath # {}
      BY <1>18, <2>4, <3>1
    <3>3. fcOut' = fcOut \cup {<<fcStart, Body(fcLog, l0)>>} /\ Here' = Here \cup {L}
      BY <1>4, <1>15, <2>4, <3>2
    <3>4. \A l \in Here' : (\E m \in Here' : l < m) <=> l \in Here
      <4>1. \A l \in Here : l < L
        BY <1>16
      <4>2. \A m \in Here' : ~(L < m)
        BY <1>1, <1>16, <3>3
      <4>. QED  BY <3>3, <4>1, <4>2
    <3>5. \A l \in Here : (\E m \in Here : l < m) <=> l # l0
      <4>1. \A l \in Here : l # l0 => l < l0
        BY <1>16, <3>1
      <4>2. \A m \in Here : ~(l0 < m)
        BY <1>16, <3>1
      <4>. QED  BY <4>1, <4>2
    <3>6. \A x : x \in fcOut' <=> \/ Yielded(x, fcLog, fcUnit, fcStart)
                                  \/ \E l \in Here : x = <<fcStart, Body(fcLog, l)>>
      <4>1. \A x : x \in fcOut' <=> x \in fcOut \/ x = <<fcStart, Body(fcLog, l0)>>
        BY <3>3
      <4>2. \A x : x \in fcOut <=> \/ Yielded(x, fcLog, fcUnit, fcStart)
                                   \/ \E l \in Here : l # l0 /\ x = <<fcStart, Body(fcLog, l)>>
        BY <1>17, <3>5 DEF FcYields
      <4>. QED  BY <4>1, <4>2
    <3>7. \A x : (\E l \in Here' : (\E m \in Here' : l < m) /\ x = <<fcStart, Body(fcLog, l)>>)
                   <=> \E l \in Here : x = <<fcStart, Body(fcLog, l)>>
      BY <3>3, <3>4
    <3>. QED  BY <1>2, <2>1, <3>6, <3>7 DEF FcYields
  <2>. QED  BY <2>2, <2>3, <2>4
<1>. QED  BY <1>11, <1>12, <1>13, <1>14, <1>20, <1>21 DEF FcReading

(* At the end of a chunk the paths that began in it are those it should    *)
(* read, and the last of them is whole                                     *)
LEMMA FcChunkRead ==
  ASSUME FcReading, fcLine > Len(fcLog) \/ FcChunkEnds
  PROVE  /\ Here = Whole(fcLog, fcUnit, fcStart)
         /\ Here = {} => fcPath = {}
         /\ Here # {} => \E l \in Here : /\ \A m \in Here : m <= l
                                         /\ fcPath = Body(fcLog, l) /\ fcPath # {}
<1> DEFINE L == fcLine
           N == Len(fcLog)
           Off(n) == FcOffset(fcLog, n)
<1>1. /\ FcWritten(fcLog) /\ fcLog \in FcLogs /\ fcUnit \in FcUnits /\ fcStart \in Nat
      /\ N \in Nat /\ L \in 1 .. N + 1
  BY LogIs, LogLines DEF FcReading, FcTypes
<1>2. \A n \in 1 .. N + 1 : Off(n) \in Nat
  BY <1>1, OffsetType
<1>3. ASSUME L <= N
      PROVE  /\ fcLog[L] = "close" /\ L < N
             /\ fcLog[L + 1] = "open" /\ fcStart + fcUnit <= Off((L + 1) + 1)
  <2>1. FcChunkEnds
    BY <1>1, <1>3
  <2>2. fcLog[L] = "close" /\ L < N /\ fcOffset + FcSize[fcLog[L + 1]] >= fcStart + fcUnit
    BY <2>1 DEF FcChunkEnds, FcHere
  <2>3. L \in 1 .. N /\ L + 1 \in 1 .. N
    BY <1>1, <2>2
  <2>4. fcLog[L + 1] = "open"
    BY <1>1, <2>2, <2>3, LineFollows
  <2>5. fcOffset = Off(L + 1)
    BY <1>3 DEF FcReading, FcPlaced
  <2>6. Off((L + 1) + 1) = Off(L + 1) + FcSize[fcLog[L + 1]]
    BY <1>1, <2>3, OffsetNext
  <2>7. fcStart + fcUnit <= Off((L + 1) + 1)
    <3>1. fcStart + fcUnit \in Int /\ Off((L + 1) + 1) \in Int
      <4>1. (L + 1) + 1 \in 1 .. N + 1
        BY <1>1, <2>2
      <4>. QED  BY <1>1, <1>2, <4>1, UnitIs
    <3>. QED  BY <2>2, <2>5, <2>6, <3>1
  <2>. QED  BY <2>2, <2>4, <2>7
<1> HIDE DEF Off
<1>4. ASSUME NEW l \in Here  PROVE l \in Whole(fcLog, fcUnit, fcStart)
  <2>1. l \in 1 .. L - 1 /\ fcLog[l] = "location" /\ Inside(fcLog, fcStart, l)
    BY DEF Here, Begun
  <2>2. PICK o \in 1 .. l - 1 : /\ fcLog[o] = "open" /\ fcStart <= Off(o)
                                /\ \A k \in o .. l - 1 : fcLog[k] # "close"
    BY <2>1 DEF Inside, Off
  <2>3. l \in 1 .. N /\ o \in 1 .. N /\ o <= L
    BY <1>1, <2>1
  <2>4. Opens(fcLog, o, l)
    BY <1>1, <2>2, <2>3, OpensIs
  <2>5. Off(o + 1) < fcStart + fcUnit
    BY <2>2, <2>3 DEF FcReading, FcWithin, Off
  <2>. QED  BY <2>1, <2>2, <2>3, <2>4, <2>5 DEF Whole, Off
<1>5. ASSUME NEW l \in Whole(fcLog, fcUnit, fcStart)  PROVE l \in Here
  <2>1. l \in 1 .. N /\ fcLog[l] = "location"
    BY DEF Whole
  <2>2. PICK o \in 1 .. l - 1 : /\ Opens(fcLog, o, l) /\ fcStart <= Off(o)
                                /\ Off(o + 1) < fcStart + fcUnit
    BY DEF Whole, Off
  <2>3. fcLog[o] = "open" /\ \A k \in o .. l - 1 : fcLog[k] # "close"
    BY <1>1, <2>1, <2>2, OpensIs
  <2>4. Inside(fcLog, fcStart, l)
    BY <2>2, <2>3 DEF Inside, Off
  <2>5. l < L
    <3> SUFFICES ASSUME ~(l < L)  PROVE FALSE
      OBVIOUS
    <3>1. L <= N
      BY <1>1, <2>1
    <3>2. /\ fcLog[L] = "close" /\ L < N
          /\ fcStart + fcUnit <= Off((L + 1) + 1)
      BY <1>3, <3>1
    <3>3. L # l
      BY <2>1, <3>2
    <3>4. ~(o <= L)
      BY <1>1, <2>1, <2>3, <3>2, <3>3
    <3>5. o = L + 1 \/ (L + 1) + 1 < o + 1
      BY <1>1, <3>4
    <3>6. (L + 1) + 1 \in 1 .. N + 1 /\ o + 1 \in 1 .. N + 1
      BY <1>1, <2>1, <3>2
    <3>7. Off((L + 1) + 1) \in Nat /\ Off(o + 1) \in Nat
      BY <1>2, <3>6
    <3>8. o = L + 1 \/ Off((L + 1) + 1) < Off(o + 1)
      BY <1>1, <3>5, <3>6, OffsetGrows DEF Off
    <3>9. Off((L + 1) + 1) <= Off(o + 1)
      BY <3>7, <3>8
    <3>10. fcStart + fcUnit \in Int
      BY <1>1, UnitIs
    <3>. QED  BY <2>2, <3>2, <3>7, <3>9, <3>10
  <2>. QED  BY <1>1, <2>1, <2>4, <2>5 DEF Here, Begun
<1>6. Here = {} => fcPath = {}
  BY DEF FcReading, FcCurrent
<1>7. ASSUME Here # {}
      PROVE  \E l \in Here : /\ \A m \in Here : m <= l
                             /\ fcPath = Body(fcLog, l) /\ fcPath # {}
  <2>1. PICK l \in Here : (\A m \in Here : m <= l) /\ fcPath = Body(fcLog, l) \cap (1 .. L - 1)
    BY <1>7 DEF FcReading, FcCurrent
  <2>2. l \in 1 .. N /\ L \in l + 1 .. N + 1
    BY <1>1 DEF Here, Begun
  <2>3. L <= N => fcLog[L] \notin EntryLines
    BY <1>3 DEF EntryLines
  <2>4. Body(fcLog, l) \cap (1 .. L - 1) = Body(fcLog, l)
    BY <1>1, <2>2, <2>3, BodyStops
  <2>5. l \in Body(fcLog, l)
    BY <1>1, <2>2, BodyFirst
  <2>. QED  BY <2>1, <2>4, <2>5
<1>. QED  BY <1>4, <1>5, <1>6, <1>7

LEMMA YieldedNext ==
  ASSUME NEW log, NEW u \in Nat, u > 0, NEW s \in Nat, s % u = 0, NEW x
  PROVE  Yielded(x, log, u, s + u) <=> \/ Yielded(x, log, u, s)
                                       \/ \E l \in Whole(log, u, s) : x = <<s, Body(log, l)>>
<1> DEFINE Y(t) == \E l \in Whole(log, u, t) : x = <<t, Body(log, l)>>
<1>1. \A v : Yielded(x, log, u, v) <=> \E t \in 0 .. v - 1 : t % u = 0 /\ Y(t)
  BY DEF Yielded
<1> HIDE DEF Y
<1>2. \A t \in 0 .. (s + u) - 1 : t % u = 0 => t \in 0 .. s - 1 \/ t = s
  <2> SUFFICES ASSUME NEW t \in 0 .. (s + u) - 1, t % u = 0, ~(t < s), t # s  PROVE FALSE
    OBVIOUS
  <2>1. t \in Nat /\ s < t /\ t < s + u
    OBVIOUS
  <2>2. s + u <= t
    BY <2>1, ChunksApart
  <2>. QED  BY <2>1, <2>2
<1>3. s \in 0 .. (s + u) - 1 /\ \A t \in 0 .. s - 1 : t \in 0 .. (s + u) - 1
  OBVIOUS
<1>4. (\E t \in 0 .. (s + u) - 1 : t % u = 0 /\ Y(t)) <=> (\E t \in 0 .. s - 1 : t % u = 0 /\ Y(t)) \/ Y(s)
  BY <1>2, <1>3
<1>5. Y(s) <=> \E l \in Whole(log, u, s) : x = <<s, Body(log, l)>>
  BY DEF Y
<1>. QED  BY <1>1, <1>4, <1>5

LEMMA FcFinishes ==
  ASSUME FcReading, FcFinish
  PROVE  (fcPc' = "read" /\ FcReading') \/ (fcPc' = "done" /\ FcEnded')
<1> DEFINE s == fcStart
           u == fcUnit
           W == Whole(fcLog, u, s)
<1>1. /\ FcWritten(fcLog) /\ fcLog \in FcLogs /\ u \in FcUnits /\ s \in Nat /\ s % u = 0
      /\ Len(fcLog) \in Nat
  BY LogIs, LogLines DEF FcReading, FcTypes
<1>2. u \in Nat /\ u > 0 /\ s + u \in Nat
  BY <1>1, UnitIs
<1>3. /\ fcPc = "read" /\ (fcLine > Len(fcLog) \/ FcChunkEnds)
      /\ fcOut' = IF fcPath = {} THEN fcOut ELSE fcOut \cup {<<s, fcPath>>}
      /\ fcLog' = fcLog /\ fcUnit' = u
  BY DEF FcFinish
<1>4. /\ Here = W
      /\ Here = {} => fcPath = {}
      /\ Here # {} => \E l \in Here : /\ \A m \in Here : m <= l
                                      /\ fcPath = Body(fcLog, l) /\ fcPath # {}
  BY <1>3, FcChunkRead
<1>5. \A m \in Here : m \in Nat
  BY DEF Here, Begun
<1>6. \A x : x \in fcOut <=> \/ Yielded(x, fcLog, u, s)
                             \/ \E l \in Here : (\E m \in Here : l < m) /\ x = <<s, Body(fcLog, l)>>
  BY DEF FcReading, FcYields
<1>7. \A x : x \in fcOut' <=> \/ Yielded(x, fcLog, u, s)
                              \/ \E l \in W : x = <<s, Body(fcLog, l)>>
  <2>1. CASE Here = {}
    <3>1. fcOut' = fcOut
      BY <1>3, <1>4, <2>1
    <3>. QED  BY <1>4, <1>6, <2>1, <3>1
  <2>2. CASE Here # {}
    <3>1. PICK l0 \in Here : (\A m \in Here : m <= l0) /\ fcPath = Body(fcLog, l0) /\ fcPath # {}
      BY <1>4, <2>2
    <3>2. \A l \in Here : (\E m \in Here : l < m) <=> l # l0
      BY <1>5, <3>1
    <3>3. fcOut' = fcOut \cup {<<s, Body(fcLog, l0)>>}
      BY <1>3, <3>1
    <3> HIDE DEF W, s, u
    <3>4. \A x : x \in fcOut <=> \/ Yielded(x, fcLog, u, s)
                                 \/ \E l \in Here : l # l0 /\ x = <<s, Body(fcLog, l)>>
      BY <1>6, <3>2
    <3>5. \A x : x \in fcOut' <=> x \in fcOut \/ x = <<s, Body(fcLog, l0)>>
      BY <3>3
    <3>. QED  BY <1>4, <3>4, <3>5
  <2>. QED  BY <2>1, <2>2
<1>8. \A x : x \in fcOut' <=> Yielded(x, fcLog, u, s + u)
  <2> HIDE DEF s, u
  <2>1. \A x : Yielded(x, fcLog, u, s + u) <=> \/ Yielded(x, fcLog, u, s)
                                               \/ \E l \in W : x = <<s, Body(fcLog, l)>>
    BY <1>1, <1>2, YieldedNext
  <2> HIDE DEF W
  <2>. QED  BY <1>7, <2>1
<1>9. (s + u) % u = 0
  BY <1>1, <1>2, NextChunk
<1>10. CASE s + u \in FcStarts(FcBytes(fcLog), u)
  <2>1. FcSeek(fcLog, s + u) /\ fcPc' = "read"
    BY <1>3, <1>10 DEF FcFinish
  <2>2. FcReading'
    <3> HIDE DEF s, u, W
    <3>. QED  BY <1>1, <1>2, <1>3, <1>8, <1>9, <2>1, FcSeeking
  <2>. QED  BY <2>1, <2>2
<1>11. CASE s + u \notin FcStarts(FcBytes(fcLog), u)
  <2>1. /\ fcPc' = "done" /\ fcStart' = s /\ fcLine' = fcLine /\ fcOffset' = fcOffset
        /\ fcPart' = fcPart /\ fcEnable' = fcEnable /\ fcMore' = fcMore /\ fcPath' = fcPath
    BY <1>11 DEF FcFinish
  <2>2. FcTypes'
    BY <1>3, <2>1 DEF FcReading, FcTypes
  <2>3. fcPath \subseteq 1 .. Len(fcLog)
    <3>1. CASE Here = {}
      BY <1>4, <3>1
    <3>2. CASE Here # {}
      <4>1. PICK l \in Here : fcPath = Body(fcLog, l)
        BY <1>4, <3>2
      <4>2. l \in 1 .. Len(fcLog)
        BY <1>1 DEF FcReading, FcTypes, Here, Begun
      <4>3. Body(fcLog, l) \in SUBSET (l .. Len(fcLog))
        BY <1>1, <4>2, BodyFirst
      <4>. QED  BY <4>1, <4>2, <4>3
    <3>. QED  BY <3>1, <3>2
  <2>4. FcBytes(fcLog) \in Nat
    <3>1. Len(fcLog) + 1 \in 1 .. Len(fcLog) + 1
      BY <1>1
    <3>. QED  BY <1>1, <3>1, OffsetType DEF FcBytes
  <2>5. ~(s + u \in 0 .. FcBytes(fcLog) + u \div 2 - 1)
    BY <1>9, <1>11 DEF FcStarts
  <2>6. u \div 2 \in Nat
    BY <1>2
  <2>7. FcBytes(fcLog) <= s + u
    <3> DEFINE b == FcBytes(fcLog)
               h == u \div 2
               n == s + u
    <3>1. b \in Nat /\ h \in Nat /\ n \in Nat /\ ~(n \in 0 .. b + h - 1)
      BY <1>2, <2>4, <2>5, <2>6
    <3> HIDE DEF b, h, n
    <3>2. b <= n
      BY <3>1
    <3>. QED  BY <3>2 DEF b, n
  <2>. QED  BY <1>3, <1>8, <2>1, <2>2, <2>3, <2>7 DEF FcEnded
<1>. QED  BY <1>10, <1>11

LEMMA FcBegins ==
  ASSUME NEW log \in FcLogs, NEW u \in FcUnits, FcBegin(log, u)
  PROVE  fcPc' = "read" /\ FcReading'
<1>1. fcLog' = log /\ fcUnit' = u /\ FcSeek(log, 0) /\ fcOut' = {} /\ fcPc' = "read"
  BY DEF FcBegin
<1>2. u \in Nat /\ u > 0 /\ 0 \in Nat
  BY UnitIs
<1>3. 0 % u = 0
  BY <1>2
<1>4. 0 .. 0 - 1 = {}
  OBVIOUS
<1>5. \A x : x \in fcOut' <=> Yielded(x, log, u, 0)
  BY <1>1, <1>4 DEF Yielded
<1>6. FcReading'
  BY <1>1, <1>2, <1>3, <1>5, FcSeeking
<1>. QED  BY <1>1, <1>6

LEMMA FcStays ==
  ASSUME FcIInv, UNCHANGED fcVars
  PROVE  FcIInv'
<1>1. /\ fcLog' = fcLog /\ fcUnit' = fcUnit /\ fcStart' = fcStart /\ fcLine' = fcLine
      /\ fcOffset' = fcOffset /\ fcPart' = fcPart /\ fcEnable' = fcEnable /\ fcMore' = fcMore
      /\ fcPath' = fcPath /\ fcOut' = fcOut /\ fcPc' = fcPc
  BY DEF fcVars
<1>2. FcInit => FcInit'
  BY <1>1 DEF FcInit
<1>3. FcTypes => FcTypes'
  BY <1>1 DEF FcTypes
<1>4. FcPlaced => FcPlaced'
  BY <1>1 DEF FcPlaced
<1>5. FcEnabled => FcEnabled'
  BY <1>1 DEF FcEnabled
<1>6. FcWithin => FcWithin'
  BY <1>1 DEF FcWithin
<1>7. Here' = Here
  BY <1>1 DEF Here
<1>8. FcCurrent => FcCurrent'
  BY <1>1, <1>7 DEF FcCurrent
<1>9. FcYields => FcYields'
  BY <1>1, <1>7 DEF FcYields
<1>10. FcEnded => FcEnded'
  BY <1>1, <1>3 DEF FcEnded
<1>11. FcReading => FcReading'
  BY <1>3, <1>4, <1>5, <1>6, <1>8, <1>9 DEF FcReading
<1>. QED  BY <1>1, <1>2, <1>10, <1>11 DEF FcIInv

LEMMA FcNextKeeps ==
  ASSUME FcIInv, [FcNext]_fcVars
  PROVE  FcIInv'
<1>1. CASE \E log \in FcLogs, u \in FcUnits : FcBegin(log, u)
  BY <1>1, FcBegins DEF FcIInv
<1>2. CASE FcRead
  <2>1. FcReading /\ fcPc' = "read"
    BY <1>2 DEF FcIInv, FcRead
  <2>. QED  BY <1>2, <2>1, FcReads DEF FcIInv
<1>3. CASE FcFinish
  <2>1. FcReading
    BY <1>3 DEF FcIInv, FcFinish
  <2>. QED  BY <1>3, <2>1, FcFinishes DEF FcIInv
<1>4. CASE UNCHANGED fcVars
  BY <1>4, FcStays
<1>. QED  BY <1>1, <1>2, <1>3, <1>4 DEF FcNext, FcStep

LEMMA FcSafe == FcSpec => []FcIInv
<1>1. FcInit => FcIInv
  BY DEF FcInit, FcIInv
<1>2. FcIInv /\ [FcNext]_fcVars => FcIInv'
  BY FcNextKeeps
<1>. QED  BY <1>1, <1>2, PTL DEF FcSpec

(* What a chunk yields are lines of the log                                *)
LEMMA YieldedType ==
  ASSUME NEW log, FcWritten(log), NEW u, NEW s \in Nat, NEW x,
         \/ Yielded(x, log, u, s)
         \/ \E l \in 1 .. Len(log) : x = <<s, Body(log, l)>>
  PROVE  x \in Nat \X SUBSET (1 .. Len(log))
<1>1. PICK t \in Nat, l \in 1 .. Len(log) : x = <<t, Body(log, l)>>
  BY DEF Yielded, Whole
<1>2. Body(log, l) \in SUBSET (1 .. Len(log))
  BY DEF Body
<1>. QED  BY <1>1, <1>2

LEMMA FcIInvTypes == FcIInv => FcTypeOK
<1> SUFFICES ASSUME FcIInv  PROVE FcTypeOK
  OBVIOUS
<1>1. CASE fcPc = "idle"
  <2>1. /\ fcLog = <<>> /\ fcUnit = 1 /\ fcStart = 0 /\ fcLine = 0 /\ fcOffset = 0
        /\ fcPart = FALSE /\ fcEnable = FALSE /\ fcMore = FALSE /\ fcPath = {} /\ fcOut = {}
    BY <1>1 DEF FcIInv, FcInit
  <2>2. {fcPart, fcEnable, fcMore} \subseteq BOOLEAN
    BY <2>1
  <2>3. fcLine \in 0 .. Len(fcLog) + 1
    BY <2>1
  <2>. QED  BY <1>1, <2>1, <2>2, <2>3 DEF FcTypeOK
<1>2. CASE fcPc = "read"
  <2>1. FcReading /\ FcTypes
    BY <1>2 DEF FcIInv, FcReading
  <2>2. FcWritten(fcLog) /\ DOMAIN fcLog = 1 .. Len(fcLog) /\ Len(fcLog) \in Nat
    BY <2>1, LogIs, LogLines DEF FcTypes
  <2>3. \A l \in Here : l \in 1 .. Len(fcLog)
    BY <2>1, <2>2 DEF FcTypes, Here, Begun
  <2>4. fcPath \subseteq DOMAIN fcLog
    BY <2>1, <2>2, <2>3, BodyFirst DEF FcReading, FcCurrent, Body
  <2>5. fcOut \subseteq Nat \X SUBSET (DOMAIN fcLog)
    <3>1. \A x \in fcOut : \/ Yielded(x, fcLog, fcUnit, fcStart)
                           \/ \E l \in 1 .. Len(fcLog) : x = <<fcStart, Body(fcLog, l)>>
      BY <2>1, <2>3 DEF FcReading, FcYields
    <3>2. \A x \in fcOut : x \in Nat \X SUBSET (1 .. Len(fcLog))
      BY <2>1, <2>2, <3>1, YieldedType DEF FcTypes
    <3>. QED  BY <2>2, <3>2
  <2>6. fcLine \in 0 .. Len(fcLog) + 1
    BY <2>1, <2>2 DEF FcTypes
  <2>. QED  BY <1>2, <2>1, <2>4, <2>5, <2>6 DEF FcTypes, FcTypeOK
<1>3. CASE fcPc = "done"
  <2>1. FcEnded /\ FcTypes
    BY <1>3 DEF FcIInv, FcEnded
  <2>2. FcWritten(fcLog) /\ DOMAIN fcLog = 1 .. Len(fcLog) /\ Len(fcLog) \in Nat
    BY <2>1, LogIs, LogLines DEF FcTypes
  <2>3. fcPath \subseteq DOMAIN fcLog
    BY <2>1, <2>2 DEF FcEnded
  <2>4. fcOut \subseteq Nat \X SUBSET (DOMAIN fcLog)
    <3>1. fcStart + fcUnit \in Nat
      BY <2>1, UnitIs DEF FcTypes
    <3>2. \A x \in fcOut : Yielded(x, fcLog, fcUnit, fcStart + fcUnit)
      BY <2>1 DEF FcEnded
    <3>3. \A x \in fcOut : x \in Nat \X SUBSET (1 .. Len(fcLog))
      BY <2>2, <3>1, <3>2, YieldedType
    <3>. QED  BY <2>2, <3>3
  <2>5. fcLine \in 0 .. Len(fcLog) + 1
    BY <2>1, <2>2 DEF FcTypes
  <2>. QED  BY <1>3, <2>1, <2>3, <2>4, <2>5 DEF FcTypes, FcTypeOK
<1>. QED  BY <1>1, <1>2, <1>3 DEF FcIInv

(* Every path has the one mark that opens its block                        *)
LEMMA OpeningOf ==
  ASSUME NEW log, FcWritten(log), NEW l \in 1 .. Len(log), log[l] = "location"
  PROVE  \E o \in 1 .. l - 1 : Opens(log, o, l)
<1> DEFINE S == {n \in Nat : l - n \in 1 .. l - 1 /\ log[l - n] = "open"}
<1>1. l - 1 \in S
  <2>1. log[1] = "open" /\ l # 1 /\ l - (l - 1) = 1 /\ l - 1 \in Nat
    BY LogLines
  <2>. QED  BY <2>1
<1>2. PICK m \in S : \A n \in S : m <= n
  <2>1. \A n \in S : n \in Nat
    OBVIOUS
  <2> HIDE DEF S
  <2>. QED  BY <1>1, <2>1, LeastOf
<1>3. ASSUME NEW k \in (l - m) + 1 .. l, log[k] = "open"  PROVE FALSE
  <2>1. l - k \in Nat /\ l - k < m /\ l - (l - k) = k
    BY <1>2
  <2>2. k # l
    BY <1>3
  <2>3. k \in 1 .. l - 1
    BY <1>2, <2>2
  <2>4. l - k \in S
    BY <1>3, <2>1, <2>3
  <2>5. m <= l - k
    BY <1>2, <2>4
  <2>. QED  BY <1>2, <2>1, <2>5
<1>. QED  BY <1>2, <1>3 DEF Opens

LEMMA OneOpening ==
  ASSUME NEW log, NEW l \in Nat, NEW o \in 1 .. l - 1, NEW i \in 1 .. l - 1,
         Opens(log, o, l), Opens(log, i, l)
  PROVE  o = i
<1>1. ~(o < i)
  <2> SUFFICES ASSUME o < i  PROVE FALSE
    OBVIOUS
  <2>1. i \in o + 1 .. l
    OBVIOUS
  <2>. QED  BY <2>1 DEF Opens
<1>2. ~(i < o)
  <2> SUFFICES ASSUME i < o  PROVE FALSE
    OBVIOUS
  <2>1. o \in i + 1 .. l
    OBVIOUS
  <2>. QED  BY <2>1 DEF Opens
<1>. QED  BY <1>1, <1>2

LEMMA QuotientGrows ==
  ASSUME NEW u \in Nat, u > 0, NEW x \in Nat, NEW y \in Nat, u * (x \div u) + u <= y
  PROVE  x \div u < y \div u
<1> DEFINE q == x \div u
           r == y \div u
<1>1. q \in Int /\ r \in Int /\ y < u * r + u /\ u * q + u <= y
  OBVIOUS
<1> HIDE DEF q, r
<1>2. ~(r < q)
  BY <1>1, TimesGrows
<1>3. r # q
  BY <1>1
<1>4. q < r
  BY <1>1, <1>2, <1>3
<1>. QED  BY <1>4 DEF q, r

(* A block is cut where the chunk it should be in ends in its opening mark  *)
LEMMA CutIs ==
  ASSUME FcWritten(fcLog), fcUnit \in FcUnits,
         NEW l \in 1 .. Len(fcLog), fcLog[l] = "location",
         NEW o \in 1 .. l - 1, Opens(fcLog, o, l)
  PROVE  FcCut(Body(fcLog, l))
           <=> FcOffset(fcLog, o) \div fcUnit < FcOffset(fcLog, o + 1) \div fcUnit
<1> DEFINE p == Body(fcLog, l)
           N == Len(fcLog)
           Cuts(i) == FcOffset(fcLog, i) \div fcUnit < FcOffset(fcLog, i + 1) \div fcUnit
<1>1. N \in Nat /\ l \in Nat /\ fcUnit \in Nat /\ fcUnit > 0
  BY LogLines, UnitIs
<1>2. l \in p /\ \A n \in p : n \in l .. N /\ \A j \in l + 1 .. n : fcLog[j] \in EntryLines
  BY BodyFirst DEF Body
<1>3. FcCut(p) <=> \E i \in 2 .. N : /\ fcLog[i] = "open" /\ \A n \in p : i < n
                                     /\ \A k \in i + 1 .. N : fcLog[k] = "open" => \A n \in p : n < k
                                     /\ Cuts(i)
  BY DEF FcCut
<1>4. ~Cuts(1)
  <2>1. FcOffset(fcLog, 1) = 0 /\ fcLog[1] = "open" /\ 1 \in 1 .. N
    BY OffsetType, LogLines
  <2>2. FcOffset(fcLog, 1 + 1) = FcSize["open"]
    BY <2>1, OffsetNext, UnitIs
  <2>3. FcSize["open"] < fcUnit /\ FcSize["open"] \in Nat
    BY UnitIs
  <2>4. 0 \div fcUnit = 0 /\ FcSize["open"] \div fcUnit = 0
    BY <1>1, <2>3
  <2>. QED  BY <2>1, <2>2, <2>4
<1> HIDE DEF p, Cuts
<1>5. ASSUME FcCut(p)  PROVE Cuts(o)
  <2>1. PICK i \in 2 .. N : /\ fcLog[i] = "open" /\ \A n \in p : i < n
                            /\ \A k \in i + 1 .. N : fcLog[k] = "open" => \A n \in p : n < k
                            /\ Cuts(i)
    BY <1>3, <1>5
  <2>2. i \in 1 .. l - 1
    BY <1>1, <1>2, <2>1
  <2>3. \A k \in i + 1 .. l : fcLog[k] # "open"
    <3> SUFFICES ASSUME NEW k \in i + 1 .. l, fcLog[k] = "open"  PROVE FALSE
      OBVIOUS
    <3>1. k \in i + 1 .. N
      BY <1>1
    <3>2. l < k
      BY <1>2, <2>1, <3>1
    <3>. QED  BY <3>2
  <2>4. Opens(fcLog, i, l)
    BY <2>1, <2>3 DEF Opens
  <2>5. i = o
    BY <1>1, <2>2, <2>4, OneOpening
  <2>. QED  BY <2>1, <2>5
<1>6. ASSUME Cuts(o)  PROVE FcCut(p)
  <2>1. o # 1
    BY <1>4, <1>6
  <2>2. o \in 2 .. N
    BY <1>1, <2>1
  <2>3. \A n \in p : o < n
    BY <1>1, <1>2
  <2>4. ASSUME NEW k \in o + 1 .. N, fcLog[k] = "open", NEW n \in p  PROVE n < k
    <3> SUFFICES ASSUME ~(n < k)  PROVE FALSE
      BY <1>1, <1>2
    <3>1. k \notin o + 1 .. l
      BY <2>4 DEF Opens
    <3>2. n \in l .. N
      BY <1>2
    <3>3. k \in l + 1 .. n
      BY <1>1, <3>1, <3>2
    <3>4. fcLog[k] \in EntryLines
      BY <1>2, <3>3
    <3>. QED  BY <2>4, <3>4 DEF EntryLines
  <2>5. fcLog[o] = "open"
    BY DEF Opens
  <2>. QED  BY <1>3, <1>6, <2>2, <2>3, <2>4, <2>5
<1>. QED  BY <1>5, <1>6 DEF p, Cuts

LEMMA FcIInvReadOnce == FcIInv => FcReadOnce
<1> SUFFICES ASSUME FcIInv, fcPc = "done"
             PROVE  /\ \A x \in fcOut : x[2] \in FcPaths /\ ~FcCut(x[2])
                    /\ \A x, y \in fcOut : x[2] = y[2] => x = y
                    /\ \A p \in FcPaths : FcCut(p) \/ \E x \in fcOut : x[2] = p
  BY DEF FcReadOnce
<1> DEFINE N == Len(fcLog)
           u == fcUnit
           e == fcStart + fcUnit
           Off(n) == FcOffset(fcLog, n)
<1>1. FcEnded /\ FcTypes
  BY DEF FcIInv, FcEnded
<1>2. /\ FcWritten(fcLog) /\ u \in FcUnits /\ u \in Nat /\ u > 0 /\ e \in Nat /\ N \in Nat
  BY <1>1, LogIs, LogLines, UnitIs DEF FcTypes
<1>3. \A x : x \in fcOut <=> Yielded(x, fcLog, u, e)
  BY <1>1 DEF FcEnded
<1>4. \A n \in 1 .. N + 1 : Off(n) \in Nat
  BY <1>2, OffsetType
<1> HIDE DEF Off, u, e
<1>5. ASSUME NEW x \in fcOut
      PROVE  \E t \in Nat, l \in 1 .. N : \E o \in 1 .. l - 1 :
               /\ t % u = 0 /\ x = <<t, Body(fcLog, l)>> /\ fcLog[l] = "location"
               /\ Opens(fcLog, o, l) /\ t <= Off(o) /\ Off(o) < Off(o + 1) /\ Off(o + 1) < t + u
               /\ Off(o) \in Nat /\ Off(o + 1) \in Nat
  <2>1. PICK t \in 0 .. e - 1 : t % u = 0 /\ \E l \in Whole(fcLog, u, t) : x = <<t, Body(fcLog, l)>>
    BY <1>3 DEF Yielded
  <2>2. PICK l \in Whole(fcLog, u, t) : x = <<t, Body(fcLog, l)>>
    BY <2>1
  <2>3. l \in 1 .. N /\ fcLog[l] = "location"
    BY DEF Whole
  <2>4. PICK o \in 1 .. l - 1 : Opens(fcLog, o, l) /\ t <= Off(o) /\ Off(o + 1) < t + u
    BY DEF Whole, Off
  <2>5. o \in 1 .. N + 1 /\ o + 1 \in 1 .. N + 1 /\ o < o + 1
    BY <1>2, <2>3
  <2>6. Off(o) < Off(o + 1) /\ Off(o) \in Nat /\ Off(o + 1) \in Nat
    BY <1>2, <1>4, <2>5, OffsetGrows DEF Off
  <2>7. t \in Nat
    OBVIOUS
  <2>. QED  BY <2>1, <2>2, <2>3, <2>4, <2>6, <2>7
<1>6. ASSUME NEW x \in fcOut  PROVE x[2] \in FcPaths /\ ~FcCut(x[2])
  <2>1. PICK t \in Nat, l \in 1 .. N : \E o \in 1 .. l - 1 :
               /\ t % u = 0 /\ x = <<t, Body(fcLog, l)>> /\ fcLog[l] = "location"
               /\ Opens(fcLog, o, l) /\ t <= Off(o) /\ Off(o) < Off(o + 1) /\ Off(o + 1) < t + u
               /\ Off(o) \in Nat /\ Off(o + 1) \in Nat
    BY <1>5
  <2>2. PICK o \in 1 .. l - 1 :
               /\ t % u = 0 /\ x = <<t, Body(fcLog, l)>> /\ fcLog[l] = "location"
               /\ Opens(fcLog, o, l) /\ t <= Off(o) /\ Off(o) < Off(o + 1) /\ Off(o + 1) < t + u
               /\ Off(o) \in Nat /\ Off(o + 1) \in Nat
    BY <2>1
  <2>3. x[2] = Body(fcLog, l)
    BY <2>2
  <2>4. x[2] \in FcPaths
    BY <1>2, <2>2, <2>3, PathsAre
  <2>5. t <= Off(o + 1) /\ Off(o) < t + u
    BY <1>2, <2>2
  <2>6. Off(o) \div u = t \div u
    BY <1>2, <2>2, <2>5, ChunkQuotient
  <2>7. Off(o + 1) \div u = t \div u
    BY <1>2, <2>2, <2>5, ChunkQuotient
  <2>8. t \div u \in Int
    BY <1>2
  <2>9. ~(Off(o) \div u < Off(o + 1) \div u)
    BY <2>6, <2>7, <2>8
  <2>10. ~FcCut(Body(fcLog, l))
    BY <1>2, <2>2, <2>9, CutIs DEF Off, u
  <2>. QED  BY <2>3, <2>4, <2>10
<1>7. ASSUME NEW x \in fcOut, NEW y \in fcOut, x[2] = y[2]  PROVE x = y
  <2>1. PICK t \in Nat, l \in 1 .. N : \E o \in 1 .. l - 1 :
               /\ t % u = 0 /\ x = <<t, Body(fcLog, l)>>
               /\ Opens(fcLog, o, l) /\ t <= Off(o) /\ Off(o) < Off(o + 1) /\ Off(o + 1) < t + u
               /\ Off(o) \in Nat /\ Off(o + 1) \in Nat
    BY <1>5
  <2>2. PICK o \in 1 .. l - 1 :
               /\ t % u = 0 /\ x = <<t, Body(fcLog, l)>>
               /\ Opens(fcLog, o, l) /\ t <= Off(o) /\ Off(o) < Off(o + 1) /\ Off(o + 1) < t + u
               /\ Off(o) \in Nat /\ Off(o + 1) \in Nat
    BY <2>1
  <2>3. PICK v \in Nat, m \in 1 .. N : \E i \in 1 .. m - 1 :
               /\ v % u = 0 /\ y = <<v, Body(fcLog, m)>>
               /\ Opens(fcLog, i, m) /\ v <= Off(i) /\ Off(i) < Off(i + 1) /\ Off(i + 1) < v + u
               /\ Off(i) \in Nat /\ Off(i + 1) \in Nat
    BY <1>5
  <2>4. PICK i \in 1 .. m - 1 :
               /\ v % u = 0 /\ y = <<v, Body(fcLog, m)>>
               /\ Opens(fcLog, i, m) /\ v <= Off(i) /\ Off(i) < Off(i + 1) /\ Off(i + 1) < v + u
               /\ Off(i) \in Nat /\ Off(i + 1) \in Nat
    BY <2>3
  <2>5. Body(fcLog, l) = Body(fcLog, m)
    BY <1>7, <2>2, <2>4
  <2>6. l = m
    BY <1>2, <2>5, BodyFirst
  <2>7. i = o
    BY <2>2, <2>4, <2>6, OneOpening
  <2>8. Off(o) < t + u /\ Off(o) < v + u /\ v <= Off(o)
    BY <1>2, <2>2, <2>4, <2>7
  <2>9. ~(t < v)
    <3> SUFFICES ASSUME t < v  PROVE FALSE
      OBVIOUS
    <3>1. t + u <= v
      BY <1>2, <2>2, <2>4, ChunksApart
    <3>. QED  BY <1>2, <2>2, <2>8, <3>1
  <2>10. ~(v < t)
    <3> SUFFICES ASSUME v < t  PROVE FALSE
      OBVIOUS
    <3>1. v + u <= t
      BY <1>2, <2>2, <2>4, ChunksApart
    <3>. QED  BY <1>2, <2>2, <2>8, <3>1
  <2>11. t = v
    BY <2>9, <2>10
  <2>. QED  BY <2>2, <2>4, <2>6, <2>11
<1>8. ASSUME NEW p \in FcPaths, ~FcCut(p)  PROVE \E x \in fcOut : x[2] = p
  <2>1. PICK l \in 1 .. N : fcLog[l] = "location" /\ p = Body(fcLog, l)
    BY <1>2, PathsAre
  <2>2. PICK o \in 1 .. l - 1 : Opens(fcLog, o, l)
    BY <1>2, <2>1, OpeningOf
  <2>3. o \in 1 .. N + 1 /\ o + 1 \in 1 .. N + 1 /\ N + 1 \in 1 .. N + 1 /\ o < N + 1
    BY <1>2
  <2>4. Off(o) \in Nat /\ Off(o + 1) \in Nat /\ Off(N + 1) \in Nat /\ Off(o) < Off(N + 1)
    BY <1>2, <1>4, <2>3, OffsetGrows DEF Off
  <2>5. Off(N + 1) <= e
    BY <1>1 DEF FcEnded, FcBytes, Off, e
  <2> DEFINE t == u * (Off(o) \div u)
  <2>6. t \in Nat /\ t % u = 0 /\ t <= Off(o) /\ Off(o) < t + u
    BY <1>2, <2>4, ChunkOf
  <2>7. Off(o + 1) < t + u
    <3> SUFFICES ASSUME ~(Off(o + 1) < t + u)  PROVE FALSE
      OBVIOUS
    <3>1. t + u <= Off(o + 1)
      BY <1>2, <2>4, <2>6
    <3>2. Off(o) \div u < Off(o + 1) \div u
      BY <1>2, <2>4, <3>1, QuotientGrows
    <3>3. FcCut(Body(fcLog, l))
      BY <1>2, <2>1, <2>2, <3>2, CutIs DEF Off, u
    <3>. QED  BY <1>8, <2>1, <3>3
  <2> HIDE DEF t
  <2>8. l \in Whole(fcLog, u, t)
    BY <2>1, <2>2, <2>6, <2>7 DEF Whole, Off
  <2>9. t \in 0 .. e - 1
    BY <1>2, <2>4, <2>5, <2>6
  <2>10. <<t, Body(fcLog, l)>> \in fcOut
    BY <1>3, <2>6, <2>8, <2>9 DEF Yielded
  <2>. QED  BY <2>1, <2>10
<1>. QED  BY <1>6, <1>7, <1>8

(* The types of a chunk being read, for any log and any size of a chunk.    *)
THEOREM ChunkTypes == FcSpec => []FcTypeOK
BY FcSafe, FcIInvTypes, PTL

(* Each path of a log of any length is read whole and by one chunk, unless a *)
(* chunk begins in the mark that opens its block.                           *)
THEOREM PathsReadOnce == FcSpec => []FcReadOnce
BY FcSafe, FcIInvReadOnce, PTL
-----------------------------------------------------------------------------
(* A step of the analyzer, as each of these components sees it             *)
LEMMA Parts ==
  ASSUME [AnNext]_anVars
  PROVE  [SrNext]_srVars /\ [FcNext]_fcVars /\ [LkNext]_lkVars /\ [ExNext]_exVars /\ [RsNext]_rsVars
  <1>1. CASE UNCHANGED anVars
    BY <1>1 DEF anVars
  <1>2. CASE AnMerge
    BY <1>2 DEF AnMerge, SrNext
  <1>3. CASE AnLock
    BY <1>3 DEF AnLock, LkNext
  <1>4. CASE AnApi
    BY <1>4 DEF AnApi, ExNext
  <1>5. CASE AnParse \/ AnReturns \/ AnGoOn
    BY <1>5 DEF AnParse, AnReturns, AnGoOn, FcNext, RsNext
  <1>6. CASE AnStep
    BY <1>6 DEF AnStep, AnApiStep, SrNext, FcNext, LkNext, ExNext, RsNext
  <1>7. CASE AnExit
    BY <1>1, <1>7 DEF AnExit
  <1> QED
    BY <1>1, <1>2, <1>3, <1>4, <1>5, <1>6, <1>7 DEF AnNext

(* The analyzer behaves, as far as each of these components can tell, like *)
(* the component alone.                                                    *)
LEMMA Components ==
  AnSpec => SrSpec /\ FcSpec /\ LkSpec /\ ExInit /\ [][ExNext]_exVars /\ RsSpec
  <1>1. AnInit => SrInit /\ FcInit /\ LkInit /\ ExInit /\ RsInit
    BY DEF AnInit
  <1> QED
    BY <1>1, Parts, PTL DEF AnSpec, SrSpec, FcSpec, LkSpec, RsSpec

(* Merged files define no name twice, whatever command the user runs.      *)
THEOREM MergeRenamesApart == AnSpec => [](SrOneDefinition /\ SrOneKeeps)
  BY Components, RenamedApart, OneKeeps, PTL

(* The lock checker's stacks stay in step and it answers every unlock.     *)
THEOREM LockReportsTrue == AnSpec => [](LkMirrored /\ LkAnswered)
  BY Components, StacksInStep, UnlocksAnswered, PTL

(* On paths whose calls nest it pairs the brackets and reports nothing but *)
(* locks that are left locked.                                             *)
THEOREM NestedLocksExact == AnSpec => []LkNestedExact
  BY Components, NestedExact, PTL

(* ckapi.py files every path where it belongs.                             *)
THEOREM ApiSortsRight == AnSpec => []ExSortedRight
  <1>1. Inv => ExSortedRight
    BY DEF Inv, Types, Sound, Complete, ExSortedRight
  <1> QED
    BY Components, SafeInvariance, <1>1, PTL

(* Its recursion is too deep only for a function that begins a chain of as *)
(* many calls as there are frames.                                         *)
THEOREM ApiDeepOnlyOnChains == AnSpec => []ExDeepOnlyOnChains
  BY Components, SafeDeepOnlyOnChains, PTL

(* ckrtn.py averages and compares histograms exactly, as far as the rounds *)
(* of splitting are enough.                                                *)
THEOREM ReturnsCompared == AnSpec => [](RsExact /\ RsCompared)
  BY Components, RangesExact, RangesCompared, PTL

(* Each path of a log is read whole and by one chunk (unless a chunk begins *)
(* in the mark that opens its block) when the analyzer parses it.           *)
THEOREM LogsReadOnce == AnSpec => []FcReadOnce
  BY Components, PathsReadOnce, PTL

(* Only the component of the command is at work                            *)
Commands ==
  /\ anCommand \in {"none", "merge", "parse", "lock", "api", "returns"}
  /\ srPc # "idle" => anCommand = "merge"
  /\ fcPc # "idle" => anCommand = "parse"
  /\ lkPc # "idle" => anCommand = "lock"
  /\ exPc # "idle" => anCommand = "api"
  /\ rsPc # "idle" => anCommand = "returns"

(* What has not been started takes no step                                 *)
LEMMA Started ==
  /\ SrStep => srPc # "idle"
  /\ FcStep => fcPc # "idle"
  /\ LkStep => lkPc # "idle"
  /\ ExStep => exPc # "idle"
  /\ RsStep => rsPc # "idle"
  <1>1. SrStep => srPc # "idle"
    BY DEF SrStep, SrCheck, SrManual
  <1>2. FcStep => fcPc # "idle"
    BY DEF FcStep, FcRead, FcFinish
  <1>3. LkStep => lkPc # "idle"
    BY DEF LkStep, LkSee, LkEnd
  <1>4. ExStep => exPc # "idle"
    BY DEF ExStep, ExTakeFunc, ExConstant, ExCall, ExTooDeep, ExTaking, ExReturn, ExReport, ExSpin
  <1>5. RsStep => rsPc # "idle"
    BY DEF RsStep, RsTake, RsSplit, RsNextRound, RsDecomposed, RsInsert, RsAdded, RsCompare,
           RsComparePair, RsDistanceEnds
  <1> QED
    BY <1>1, <1>2, <1>3, <1>4, <1>5

LEMMA CommandsKeep ==
  ASSUME Commands, [AnNext]_anVars
  PROVE  Commands'
  <1>1. CASE UNCHANGED anVars
    BY <1>1 DEF anVars, srVars, fcVars, lkVars, exVars, rsVars, Commands
  <1>2. CASE AnMerge
    BY <1>2 DEF AnMerge, AnInvoke, fcVars, lkVars, exVars, rsVars, Commands
  <1>3. CASE AnParse
    BY <1>3 DEF AnParse, AnInvoke, srVars, lkVars, exVars, rsVars, Commands
  <1>4. CASE AnLock
    BY <1>4 DEF AnLock, AnInvoke, srVars, fcVars, exVars, rsVars, Commands
  <1>5. CASE AnApi
    BY <1>5 DEF AnApi, AnInvoke, srVars, fcVars, lkVars, rsVars, Commands
  <1>6. CASE AnReturns
    BY <1>6 DEF AnReturns, AnInvoke, srVars, fcVars, lkVars, exVars, Commands
  <1>7. CASE AnGoOn
    BY <1>7 DEF AnGoOn, srVars, fcVars, lkVars, exVars, Commands
  <1>8. CASE AnStep
    <2>1. CASE SrStep /\ UNCHANGED <<anCommand, fcVars, lkVars, exVars, rsVars>>
      BY <2>1, Started DEF fcVars, lkVars, exVars, rsVars, Commands
    <2>2. CASE FcStep /\ UNCHANGED <<anCommand, srVars, lkVars, exVars, rsVars>>
      BY <2>2, Started DEF srVars, lkVars, exVars, rsVars, Commands
    <2>3. CASE LkStep /\ UNCHANGED <<anCommand, srVars, fcVars, exVars, rsVars>>
      BY <2>3, Started DEF srVars, fcVars, exVars, rsVars, Commands
    <2>4. CASE AnApiStep
      BY <2>4, Started DEF AnApiStep, srVars, fcVars, lkVars, rsVars, Commands
    <2>5. CASE RsStep /\ UNCHANGED <<anCommand, srVars, fcVars, lkVars, exVars>>
      BY <2>5, Started DEF srVars, fcVars, lkVars, exVars, Commands
    <2> QED
      BY <1>8, <2>1, <2>2, <2>3, <2>4, <2>5 DEF AnStep
  <1>9. CASE AnExit
    BY <1>1, <1>9 DEF AnExit
  <1> QED
    BY <1>1, <1>2, <1>3, <1>4, <1>5, <1>6, <1>7, <1>8, <1>9 DEF AnNext

(* The types of all components, and a command runs no component but its own, *)
(* whatever it is run on.                                                  *)
THEOREM AnalyzerTypes == AnSpec => []AnTypeOK
  <1>1. AnInit => Commands
    BY DEF AnInit, SrInit, FcInit, LkInit, ExInit, RsInit, Commands
  <1>2. Commands /\ [AnNext]_anVars => Commands'
    BY CommandsKeep
  <1>3. AnSpec => []Commands
    BY <1>1, <1>2, PTL DEF AnSpec
  <1>4. Inv => ExTypeOK
    BY DEF Inv, Types, ExTypeOK
  <1>5. SrTypeOK /\ FcTypeOK /\ LkTypeOK /\ ExTypeOK /\ RsTypeOK /\ Commands => AnTypeOK
    BY DEF AnTypeOK, Commands
  <1> QED
    BY Components, RenamingTypes, ChunkTypes, LockTypes, SafeInvariance, RangeTypes,
       <1>3, <1>4, <1>5, PTL
=============================================================================
