---------------------------- MODULE SlicerProofs ----------------------------
(***************************************************************************)
(* The worklist of GetReLines computes exactly the nodes that reach an     *)
(* operation, for every code graph and every list of operations, and the   *)
(* whole script implements the one-step report.                            *)
(***************************************************************************)
EXTENDS Slicer, TLAPS

(* The walk's invariant: what is visited reaches the operation, and every  *)
(* visited node is queued, or the walk is about to queue it, or all nodes  *)
(* referring to it are visited or about to be.                             *)
SeqRange(s) == {s[i] : i \in 1 .. Len(s)}

Walk ==
  pc \in {"seed", "scan"} =>
    /\ SourceNodes(cpg, source[nxt]) \subseteq fSlices
    /\ fSlices \subseteq Reach(cpg, SourceNodes(cpg, source[nxt]))
    /\ SeqRange(que) \subseteq fSlices
    /\ pending \subseteq Reach(cpg, SourceNodes(cpg, source[nxt]))
    /\ pc = "seed" => pending \subseteq fSlices /\ fSlices \subseteq SeqRange(que) \cup pending
    /\ pc = "scan" => \A n \in fSlices : \/ n \in SeqRange(que)
                                         \/ Forwards(cpg, n) \subseteq fSlices \cup pending

(* An operation has a relation once the loop over operations passed it.    *)
Progress ==
  /\ pc # "idle" => DOMAIN relations = {source[i] : i \in 1 .. (nxt - 1)}
  /\ SliceExact

IInv == /\ cpg \in CPGs
        /\ pc # "idle" => source \in Sources
        /\ dst \in Seq(Reports)
        /\ pc # "idle" => Len(dst) < MaxRuns
        /\ TypeOK
        /\ Walk
        /\ Progress
-----------------------------------------------------------------------------
LEMMA ReachContains ==
  ASSUME NEW c, NEW S \in SUBSET Node
  PROVE  S \subseteq Reach(c, S)
BY DEF Reach

LEMMA ReachClosed ==
  ASSUME NEW c, NEW S \in SUBSET Node, NEW n \in Reach(c, S)
  PROVE  Forwards(c, n) \subseteq Reach(c, S)
BY DEF Reach, Closed, Forwards

LEMMA ReachLeast ==
  ASSUME NEW c, NEW S \in SUBSET Node, NEW T \in SUBSET Node,
         S \subseteq T, Closed(c, T)
  PROVE  Reach(c, S) \subseteq T
BY DEF Reach

(* What Append and Tail do to the set of elements of a sequence.           *)
LEMMA RangeAppend ==
  ASSUME NEW S, NEW s \in Seq(S), NEW e \in S
  PROVE  SeqRange(Append(s, e)) = SeqRange(s) \cup {e}
<1>1. Len(Append(s, e)) = Len(s) + 1 /\ Len(s) \in Nat
  OBVIOUS
<1>2. \A i \in 1 .. Len(s) : Append(s, e)[i] = s[i]
  OBVIOUS
<1>3. Append(s, e)[Len(s) + 1] = e
  OBVIOUS
<1>4. ASSUME NEW x \in SeqRange(Append(s, e)) PROVE x \in SeqRange(s) \cup {e}
  <2>1. PICK i \in 1 .. Len(s) + 1 : x = Append(s, e)[i]
    BY <1>1 DEF SeqRange
  <2>2. CASE i = Len(s) + 1
    BY <2>1, <2>2, <1>3
  <2>3. CASE i \in 1 .. Len(s)
    BY <2>1, <2>3, <1>2 DEF SeqRange
  <2> QED BY <2>2, <2>3, <1>1
<1>5. ASSUME NEW x \in SeqRange(s) PROVE x \in SeqRange(Append(s, e))
  <2>1. PICK i \in 1 .. Len(s) : x = s[i]
    BY DEF SeqRange
  <2>2. i \in 1 .. Len(Append(s, e)) /\ x = Append(s, e)[i]
    BY <2>1, <1>1, <1>2
  <2> QED BY <2>2 DEF SeqRange
<1>6. e \in SeqRange(Append(s, e))
  BY <1>1, <1>3 DEF SeqRange
<1> QED BY <1>4, <1>5, <1>6

LEMMA RangeTail ==
  ASSUME NEW S, NEW s \in Seq(S), s # <<>>
  PROVE  /\ Tail(s) \in Seq(S)
         /\ SeqRange(s) = SeqRange(Tail(s)) \cup {Head(s)}
         /\ Head(s) \in S
<1>1. Len(s) \in Nat /\ Len(s) # 0 /\ Len(Tail(s)) = Len(s) - 1 /\ Tail(s) \in Seq(S)
  OBVIOUS
<1>2. \A i \in 1 .. Len(s) - 1 : Tail(s)[i] = s[i + 1]
  OBVIOUS
<1>3. Head(s) = s[1] /\ Head(s) \in S
  BY <1>1
<1>4. ASSUME NEW x \in SeqRange(s) PROVE x \in SeqRange(Tail(s)) \cup {Head(s)}
  <2>1. PICK i \in 1 .. Len(s) : x = s[i]
    BY DEF SeqRange
  <2>2. CASE i = 1
    BY <2>1, <2>2, <1>3
  <2>3. CASE i # 1
    <3>1. i - 1 \in 1 .. Len(Tail(s)) /\ x = Tail(s)[i - 1]
      BY <2>1, <2>3, <1>1, <1>2
    <3> QED BY <3>1 DEF SeqRange
  <2> QED BY <2>2, <2>3
<1>5. ASSUME NEW x \in SeqRange(Tail(s)) PROVE x \in SeqRange(s)
  <2>1. PICK i \in 1 .. Len(s) - 1 : x = Tail(s)[i]
    BY <1>1 DEF SeqRange
  <2>2. i + 1 \in 1 .. Len(s) /\ x = s[i + 1]
    BY <2>1, <1>1, <1>2
  <2> QED BY <2>2 DEF SeqRange
<1>6. Head(s) \in SeqRange(s)
  BY <1>1, <1>3 DEF SeqRange
<1> QED BY <1>1, <1>3, <1>4, <1>5, <1>6

LEMMA RangeEmpty == SeqRange(<<>>) = {}
BY DEF SeqRange

LEMMA RangeInSet ==
  ASSUME NEW S, NEW s \in Seq(S)
  PROVE  SeqRange(s) \subseteq S
BY DEF SeqRange

LEMMA SourceNodesAreNodes ==
  ASSUME NEW c \in CPGs, NEW o
  PROVE  SourceNodes(c, o) \in SUBSET Node
BY CPGsAssumption DEF CPG, SourceNodes
-----------------------------------------------------------------------------
LEMMA InitIInv == Init => IInv
<1> SUFFICES ASSUME Init PROVE IInv
  OBVIOUS
<1>1. cpg \in CPGs /\ cpg \in CPG
  BY CPGsAssumption DEF Init
<1>2. dst \in Seq(Reports) /\ Len(dst) = 0 /\ que \in Seq(Node)
  BY DEF Init
<1>3. DOMAIN relations = {} /\ Len(source) = 0
  BY DEF Init
<1>4. TypeOK
  BY <1>1, <1>2, <1>3, MaxRunsAssumption DEF Init, TypeOK
<1> QED
  BY <1>1, <1>2, <1>3, <1>4 DEF Init, IInv, Walk, Progress, SliceExact

LEMMA StartIInv == IInv /\ Start => IInv'
<1> SUFFICES ASSUME IInv, Start PROVE IInv'
  OBVIOUS
<1>1. cpg' \in CPGs /\ cpg' \in CPG
  BY CPGsAssumption DEF Start
<1>2. source' \in Sources /\ source' \in Seq(Operation) /\ Len(source') \in Nat
  BY SourcesAssumption DEF Start
<1>3. DOMAIN relations' = {}
  BY DEF Start
<1>4. TypeOK'
  BY <1>1, <1>2, <1>3 DEF Start, IInv, TypeOK
<1>5. Walk'
  BY DEF Start, Walk
<1>6. Progress'
  BY <1>3 DEF Start, Progress, SliceExact
<1> QED
  BY <1>1, <1>2, <1>4, <1>5, <1>6 DEF Start, IInv

LEMMA BeginOpIInv == IInv /\ BeginOp => IInv'
<1> SUFFICES ASSUME IInv, BeginOp PROVE IInv'
  OBVIOUS
<1> DEFINE S == SourceNodes(cpg, source[nxt])
<1>1. S \in SUBSET Node
  BY SourceNodesAreNodes DEF IInv
<1>2. S \subseteq Reach(cpg, S)
  BY <1>1, ReachContains
<1>3. TypeOK'
  BY <1>1 DEF BeginOp, IInv, TypeOK
<1>4. Walk'
  <2>1. SeqRange(que') = {}
    BY RangeEmpty DEF BeginOp
  <2> QED BY <1>2, <2>1 DEF BeginOp, Walk
<1>5. Progress'
  BY DEF BeginOp, IInv, Progress, SliceExact
<1> QED
  BY <1>3, <1>4, <1>5 DEF BeginOp, IInv

LEMMA SeedIInv == ASSUME NEW n \in Node, IInv, Seed(n) PROVE IInv'
<1>1. que \in Seq(Node) /\ que' \in Seq(Node)
  BY DEF Seed, IInv, TypeOK
<1>2. SeqRange(que') = SeqRange(que) \cup {n}
  BY <1>1, RangeAppend DEF Seed
<1>3. TypeOK'
  BY <1>1 DEF Seed, IInv, TypeOK
<1>4. Walk'
  BY <1>2 DEF Seed, IInv, Walk
<1>5. Progress'
  BY DEF Seed, IInv, Progress, SliceExact
<1> QED
  BY <1>3, <1>4, <1>5 DEF Seed, IInv

LEMMA DequeueIInv == IInv /\ Dequeue => IInv'
<1> SUFFICES ASSUME IInv, Dequeue PROVE IInv'
  OBVIOUS
<1> DEFINE S == SourceNodes(cpg, source[nxt])
<1>1. que \in Seq(Node) /\ que # <<>>
  BY DEF Dequeue, IInv, TypeOK
<1>2. /\ que' \in Seq(Node)
      /\ SeqRange(que) = SeqRange(que') \cup {Head(que)}
      /\ Head(que) \in Node
  BY <1>1, RangeTail DEF Dequeue
<1>3. pending' = Forwards(cpg, Head(que)) /\ pending' \subseteq Node
  BY DEF Dequeue, Forwards
<1>4. TypeOK'
  BY <1>2, <1>3 DEF Dequeue, IInv, TypeOK
<1>5. S \in SUBSET Node
  BY SourceNodesAreNodes DEF IInv
<1>6. Head(que) \in Reach(cpg, S)
  BY <1>2 DEF Dequeue, IInv, Walk
<1>7. pending' \subseteq Reach(cpg, S)
  BY <1>3, <1>5, <1>6, ReachClosed
<1>8. \A n \in fSlices : n \in SeqRange(que) \/ Forwards(cpg, n) \subseteq fSlices
  BY DEF Dequeue, IInv, Walk
<1>9. \A n \in fSlices : n \in SeqRange(que') \/ Forwards(cpg, n) \subseteq fSlices \cup pending'
  BY <1>2, <1>3, <1>8
<1>10. Walk'
  BY <1>2, <1>7, <1>9 DEF Dequeue, IInv, Walk
<1>11. Progress'
  BY DEF Dequeue, IInv, Progress, SliceExact
<1> QED
  BY <1>4, <1>10, <1>11 DEF Dequeue, IInv

LEMMA VisitIInv == ASSUME NEW n \in Node, IInv, Visit(n) PROVE IInv'
<1>1. que \in Seq(Node)
  BY DEF IInv, TypeOK
<1>2. Progress'
  BY DEF Visit, IInv, Progress, SliceExact
<1>3. CASE n \in fSlices
  <2>1. que' = que /\ fSlices' = fSlices /\ pending' = pending \ {n}
    BY <1>3 DEF Visit
  <2>2. TypeOK'
    BY <2>1 DEF Visit, IInv, TypeOK
  <2>3. Walk'
    BY <2>1, <1>3 DEF Visit, IInv, Walk
  <2> QED BY <1>2, <2>2, <2>3 DEF Visit, IInv
<1>4. CASE n \notin fSlices
  <2>1. que' = Append(que, n) /\ fSlices' = fSlices \cup {n} /\ pending' = pending \ {n}
    BY <1>4 DEF Visit
  <2>2. que' \in Seq(Node) /\ SeqRange(que') = SeqRange(que) \cup {n}
    BY <1>1, <2>1, RangeAppend
  <2>3. TypeOK'
    BY <2>1, <2>2 DEF Visit, IInv, TypeOK
  <2>4. \A m \in fSlices' : \/ m \in SeqRange(que')
                            \/ Forwards(cpg, m) \subseteq fSlices' \cup pending'
    BY <2>1, <2>2 DEF Visit, IInv, Walk
  <2>5. Walk'
    BY <2>1, <2>2, <2>4 DEF Visit, IInv, Walk
  <2> QED BY <1>2, <2>3, <2>5 DEF Visit, IInv
<1> QED BY <1>3, <1>4

(* When the queue is empty and nothing is pending the walk is complete.    *)
LEMMA WalkComplete ==
  ASSUME IInv, pc \in {"seed", "scan"}, pending = {}, que = <<>>
  PROVE  fSlices = Reach(cpg, SourceNodes(cpg, source[nxt]))
<1> DEFINE S == SourceNodes(cpg, source[nxt])
<1>1. S \in SUBSET Node /\ fSlices \in SUBSET Node
  BY SourceNodesAreNodes DEF IInv, TypeOK
<1>2. S \subseteq fSlices /\ fSlices \subseteq Reach(cpg, S)
  BY DEF IInv, Walk
<1>3. Closed(cpg, fSlices)
  <2>1. SeqRange(que) = {}
    BY RangeEmpty
  <2> QED BY <2>1 DEF IInv, Walk, Closed
<1>4. Reach(cpg, S) \subseteq fSlices
  BY <1>1, <1>2, <1>3, ReachLeast
<1> QED BY <1>2, <1>4

LEMMA EndOpIInv == IInv /\ EndOp => IInv'
<1> SUFFICES ASSUME IInv, EndOp PROVE IInv'
  OBVIOUS
<1> DEFINE o == source[nxt]
<1>1. fSlices = Reach(cpg, SourceNodes(cpg, o))
  BY WalkComplete DEF EndOp
<1>2. LinesOf(cpg, fSlices) = Affected(cpg, o) /\ LinesOf(cpg, fSlices) \subseteq Line
  BY <1>1 DEF Affected, LinesOf
<1>3. nxt \in 1 .. Len(source) /\ Len(source) \in Nat
  BY SourcesAssumption DEF EndOp, IInv, TypeOK
<1>4. DOMAIN relations' = DOMAIN relations \cup {o}
  BY DEF EndOp
<1>5. \A p \in DOMAIN relations' :
         relations'[p] = IF p = o THEN LinesOf(cpg, fSlices) ELSE relations[p]
  BY DEF EndOp
<1>6. TypeOK'
  <2>1. DOMAIN relations' \subseteq {source[i] : i \in DOMAIN source}
    BY <1>4 DEF EndOp, IInv, TypeOK
  <2>2. relations' \in [DOMAIN relations' -> SUBSET Line]
    BY <1>2, <1>4 DEF EndOp, IInv, TypeOK
  <2>3. nxt' \in 1 .. Len(source) + 1
    BY <1>3 DEF EndOp
  <2> QED BY <2>1, <2>2, <2>3 DEF EndOp, IInv, TypeOK
<1>7. Progress'
  <2>1. DOMAIN relations = {source[i] : i \in 1 .. (nxt - 1)}
    BY DEF EndOp, IInv, Progress
  <2>2. 1 .. (nxt' - 1) = 1 .. (nxt - 1) \cup {nxt}
    BY <1>3 DEF EndOp
  <2>3. DOMAIN relations' = {source[i] : i \in 1 .. (nxt' - 1)}
    BY <1>4, <2>1, <2>2
  <2>4. SliceExact'
    BY <1>2, <1>4, <1>5 DEF EndOp, IInv, Progress, SliceExact
  <2> QED BY <2>3, <2>4 DEF EndOp, Progress
<1>8. Walk'
  BY DEF EndOp, Walk
<1> QED
  BY <1>6, <1>7, <1>8 DEF EndOp, IInv

(* What Emit appends is the exact report of the run.                       *)
LEMMA EmitExact ==
  ASSUME IInv, Emit
  PROVE  /\ relations = Relations(cpg, source)
         /\ Report(cpg, relations) \in Reports
<1>1. nxt = Len(source) + 1 /\ Len(source) \in Nat /\ DOMAIN source = 1 .. Len(source)
  BY SourcesAssumption DEF Emit, IInv, TypeOK
<1>2. DOMAIN relations = {source[i] : i \in DOMAIN source}
  BY <1>1 DEF Emit, IInv, Progress
<1>3. \A o \in DOMAIN relations : relations[o] = Affected(cpg, o)
  BY DEF IInv, Progress, SliceExact
<1>4. relations = [o \in DOMAIN relations |-> relations[o]]
  BY DEF IInv, TypeOK
<1>5. relations = Relations(cpg, source)
  BY <1>2, <1>3, <1>4 DEF Relations
<1>6. cpg \in CPGs /\ source \in Sources
  BY DEF Emit, IInv
<1> QED BY <1>5, <1>6 DEF Reports

LEMMA EmitIInv == IInv /\ Emit => IInv'
<1> SUFFICES ASSUME IInv, Emit PROVE IInv'
  OBVIOUS
<1>1. Report(cpg, relations) \in Reports
  BY EmitExact
<1>2. dst' \in Seq(Reports) /\ Len(dst') = Len(dst) + 1
  BY <1>1 DEF Emit, IInv
<1>3. TypeOK'
  BY <1>2, MaxRunsAssumption DEF Emit, IInv, TypeOK
<1>4. Walk' /\ Progress'
  BY DEF Emit, IInv, Walk, Progress, SliceExact
<1> QED
  BY <1>2, <1>3, <1>4 DEF Emit, IInv

LEMMA StutterIInv == IInv /\ UNCHANGED vars => IInv'
BY DEF IInv, TypeOK, Walk, Progress, SliceExact, vars

LEMMA NextIInv == IInv /\ [Next]_vars => IInv'
BY StartIInv, BeginOpIInv, SeedIInv, DequeueIInv, VisitIInv, EndOpIInv, EmitIInv,
   StutterIInv DEF Next, Step

LEMMA InductiveInvariant == Spec => []IInv
BY InitIInv, NextIInv, PTL DEF Spec
-----------------------------------------------------------------------------
(* Every variable keeps its type, for all graphs and arguments.            *)
THEOREM TypeCorrect == Spec => []TypeOK
<1>1. IInv => TypeOK
  BY DEF IInv
<1> QED BY <1>1, InductiveInvariant, PTL

(* GetReLines relates each operation to exactly the lines that depend on   *)
(* it, for every code graph, every method and every list of operations.    *)
THEOREM SliceIsExact == Spec => []SliceExact
<1>1. IInv => SliceExact
  BY DEF IInv, Progress
<1> QED BY <1>1, InductiveInvariant, PTL

(* Every behaviour of the script is one of the one-step report: no         *)
(* intermediate state of the walk can be seen in the file.                 *)
THEOREM Implementation == Spec => Implements
<1>1. Init => OneStepReport!Init
  BY DEF Init, OneStepReport!Init
<1>2. IInv /\ [Next]_vars => [OneStepReport!AppendReport]_dst
  <2> SUFFICES ASSUME IInv, [Next]_vars PROVE [OneStepReport!AppendReport]_dst
    OBVIOUS
  <2>1. CASE Emit
    <3>1. Report(cpg, relations) \in Reports
      BY <2>1, EmitExact
    <3>2. Len(dst) < MaxRuns
      BY <2>1 DEF Emit, IInv
    <3> QED BY <2>1, <3>1, <3>2 DEF Emit, OneStepReport!AppendReport
  <2>2. Emit \/ dst' = dst
    BY DEF Next, Step, Start, BeginOp, Seed, Dequeue, Visit, EndOp, vars
  <2> QED BY <2>1, <2>2
<1> QED BY <1>1, <1>2, InductiveInvariant, PTL DEF Spec, Implements, OneStepReport!Spec
=============================================================================
