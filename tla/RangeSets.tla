----------------------------- MODULE RangeSets -----------------------------
(***************************************************************************)
(* rsv.py: sets of weighted ranges. Adding a range splits it at the ranges *)
(* that are there, so that the set stays disjoint; comparing two sets adds *)
(* up the area they share and leaves what is only in the one or the other. *)
(* A list of ranges is a set here, and the order of the list is any order. *)
(***************************************************************************)
EXTENDS Integers, FiniteSets, SequencesExt

CONSTANTS RsPoints,     \* the numbers ranges are over
          RsInputs,     \* sets of ranges that are added, as rsf.py builds them
          RsRounds,     \* rounds of __decompose_range; 30 in the code
          RsAdds        \* bound on the inputs that are added

ASSUME RsPointsAssumption ==
  /\ RsPoints \subseteq Int /\ IsFiniteSet(RsPoints)
  /\ \A p, q \in RsPoints : p .. q \subseteq RsPoints
ASSUME RsInputsAssumption ==
  \A S \in RsInputs : /\ IsFiniteSet(S)
                      /\ S \subseteq [lo : RsPoints, hi : RsPoints, w : Nat \ {0}]
                      /\ \A x \in S : x.lo <= x.hi
ASSUME RsBoundsAssumption == RsRounds \in Nat \ {0} /\ RsAdds \in Nat

RsCovers(x, p) == x.lo <= p /\ p <= x.hi
RsMeets(x, y) == x.lo <= y.hi /\ y.lo <= x.hi
RsLarger(a, b) == IF a > b THEN a ELSE b
RsSmaller(a, b) == IF a < b THEN a ELSE b
RsCommon(x, y) == [lo |-> RsLarger(x.lo, y.lo), hi |-> RsSmaller(x.hi, y.hi)]

VARIABLES rsSets,     \* two RangeSets, "l" and "r"
          rsOp,       \* the operation: "max" of union, "add" of intersection
          rsQueue,    \* ranges still to be added to "l" or "r"
          rsInto,
          rsWork, rsNext,   \* will_be_decomposed_news, and -2
          rsDone,     \* decomposed_news
          rsRound,
          rsPairs,    \* pairs of ranges the comparison has not come to
          rsShared,   \* overlap
          rsDiff,     \* ldiff and rdiff
          rsAdded, rsPc,
          rsWeight,   \* ghost: the weight every number should have
          rsGaveUp,   \* ghost: __decompose_range has not come to an end
          rsInner     \* ghost: case 2 of __diff_out has left some weight

rsVars == <<rsSets, rsOp, rsQueue, rsInto, rsWork, rsNext, rsDone, rsRound,
            rsPairs, rsShared, rsDiff, rsAdded, rsPc, rsWeight, rsGaveUp, rsInner>>
rsAddVars == <<rsOp, rsInto, rsQueue, rsWork, rsNext, rsDone, rsRound>>
rsCompareVars == <<rsPairs, rsShared, rsDiff, rsInner>>
Sides == {"l", "r"}

RsApply(op, a, b) == IF op = "add" THEN a + b ELSE RsLarger(a, b)

RsInit == /\ rsSets = [s \in Sides |-> {}]
          /\ rsOp = "add" /\ rsInto = "l"
          /\ rsQueue = {} /\ rsWork = {} /\ rsNext = {} /\ rsDone = {} /\ rsRound = 0
          /\ rsPairs = {} /\ rsShared = 0 /\ rsDiff = [s \in Sides |-> {}]
          /\ rsAdded = 0
          /\ rsPc = "idle"
          /\ rsWeight = [s \in Sides |-> [p \in RsPoints |-> 0]]
          /\ rsGaveUp = FALSE /\ rsInner = FALSE

(* A range of weight w over n numbers is n * w cells: sums of weights and  *)
(* areas are numbers of cells                                              *)
RsCells(S) == UNION {{x} \X ((x.lo .. x.hi) \X (1 .. x.w)) : x \in S}
RsArea(S) == Cardinality(RsCells(S))

(* What an operand means: the weights of the ranges over a number          *)
RsAt(S, p) == Cardinality({c \in RsCells(S) : c[2][1] = p})
RsMeaning(op, old, S) == [p \in RsPoints |->
  IF \E x \in S : RsCovers(x, p) THEN RsApply(op, old[p], RsAt(S, p)) ELSE old[p]]

(* add, union_assign and intersection_assign, 136-151, of a set of ranges  *)
RsAdd(S, op, into) ==
  /\ rsPc \in {"idle", "ready"}
  /\ rsQueue' = S
  /\ rsOp' = op
  /\ rsInto' = into
  /\ rsWeight' = [rsWeight EXCEPT ![into] = RsMeaning(op, @, S)]
  /\ rsAdded' = rsAdded + 1
  /\ rsPc' = "add"
  /\ UNCHANGED <<rsSets, rsWork, rsNext, rsDone, rsRound, rsCompareVars, rsGaveUp>>

RsAddInput == /\ rsAdded < RsAdds
              /\ \E S \in RsInputs, s \in Sides : RsAdd(S, "add", s)
RsUnite == /\ rsAdded < RsAdds
           /\ \E S \in RsInputs, s \in Sides : Cardinality(S) = 1 /\ RsAdd(S, "max", s)
RsAddSet == /\ rsAdded <= RsAdds
            /\ \E op \in {"add", "max"} : RsAdd(rsSets["r"], op, "l")

(* __add_with, 167-169, and the start of __decompose_range                 *)
RsTake(x) == /\ rsPc = "add" /\ x \in rsQueue
             /\ rsQueue' = rsQueue \ {x}
             /\ rsWork' = {x} /\ rsNext' = {} /\ rsDone' = {} /\ rsRound' = 1
             /\ rsPc' = "split"
             /\ UNCHANGED <<rsSets, rsOp, rsInto, rsCompareVars, rsAdded, rsWeight, rsGaveUp>>

(* mutant: a part is kept when nothing is beside r                         *)
RsBeside_empty(t, r) == {[t EXCEPT !.hi = r.lo - 1], [t EXCEPT !.lo = r.hi + 1]}

(* mutant: the part behind r is forgotten                                  *)
RsBeside_left(t, r) == {x \in {[t EXCEPT !.hi = r.lo - 1]} : x.lo <= x.hi}

(* __decompose_range2, 194-226, at the range r that t overlaps first       *)
RsBeside(t, r) ==
  {x \in {[t EXCEPT !.hi = r.lo - 1], [t EXCEPT !.lo = r.hi + 1]} : x.lo <= x.hi}
RsInside(t, r) == [lo |-> RsCommon(t, r).lo, hi |-> RsCommon(t, r).hi, w |-> t.w]

RsSplit(t) ==
  /\ rsPc = "split" /\ t \in rsWork
  /\ rsWork' = rsWork \ {t}
  /\ LET hits == {r \in rsSets[rsInto] : RsMeets(r, t)}
     IN \/ /\ hits = {}
           /\ rsDone' = rsDone \cup {t}
           /\ UNCHANGED rsNext
        \/ \E r \in hits : /\ rsDone' = rsDone \cup {RsInside(t, r)}
                           /\ rsNext' = rsNext \cup RsBeside(t, r)
  /\ UNCHANGED <<rsSets, rsOp, rsInto, rsQueue, rsRound, rsCompareVars,
                 rsAdded, rsPc, rsWeight, rsGaveUp>>

(* Lines 183-192: another round, unless there is nothing left to split     *)
RsNextRound ==
  /\ rsPc = "split" /\ rsWork = {} /\ rsNext # {} /\ rsRound < RsRounds
  /\ rsWork' = rsNext
  /\ rsNext' = {}
  /\ rsRound' = rsRound + 1
  /\ UNCHANGED <<rsSets, rsOp, rsInto, rsQueue, rsDone, rsCompareVars, rsAdded, rsPc,
                 rsWeight, rsGaveUp>>

(* or no rounds are left                                                   *)
RsDecomposed ==
  /\ rsPc = "split" /\ rsWork = {} /\ (rsNext = {} \/ rsRound = RsRounds)
  /\ rsDone' = rsDone \cup rsNext
  /\ rsNext' = {}
  /\ rsGaveUp' = (rsGaveUp \/ \E x \in rsNext, r \in rsSets[rsInto] :
                                 RsMeets(x, r) /\ RsInside(x, r) # x)
  /\ rsPc' = "insert"
  /\ UNCHANGED <<rsSets, rsOp, rsInto, rsQueue, rsWork, rsRound, rsCompareVars,
                 rsAdded, rsWeight>>

(* __op, 33-79, for a new range n and r: the range that n has become, and  *)
(* the others. Exchanged as in 35-37, l begins first.                      *)
RsCombine(n, r, op) ==
  LET w == RsApply(op, n.w, r.w)
      first == n.lo <= r.lo
      l == IF first THEN n ELSE r
      m == IF first THEN r ELSE n
      Result(a, b, rest) == [new |-> IF first THEN a ELSE b,
                             rest |-> rest \cup {IF first THEN b ELSE a}]
  IN IF n.lo = r.lo /\ n.hi = r.hi THEN [new |-> [n EXCEPT !.w = w], rest |-> {}]
     ELSE IF l.hi < m.lo THEN Result(l, m, {})
     ELSE IF l.lo = m.lo /\ l.hi > m.hi      \* exchanged once more
          THEN Result([l EXCEPT !.lo = m.hi + 1], [m EXCEPT !.w = w], {})
     ELSE IF l.lo = m.lo THEN Result([l EXCEPT !.w = w], [m EXCEPT !.lo = l.hi + 1], {})
     ELSE IF l.hi = m.hi THEN Result([l EXCEPT !.hi = m.lo - 1], [m EXCEPT !.w = w], {})
     ELSE LET mid == [lo |-> m.lo, hi |-> RsSmaller(l.hi, m.hi), w |-> w]
          IN Result([l EXCEPT !.hi = m.lo - 1],
                    [lo |-> mid.hi + 1, hi |-> RsLarger(l.hi, m.hi),
                     w |-> IF l.hi > m.hi THEN l.w ELSE m.w],
                    {mid})

(* __add_with2, 171-178: n meets the ranges it overlaps in the order of    *)
(* the list, the others are kept                                           *)
RsInserted(n, S, order, op) ==
  LET met[k \in 0 .. Len(order)] ==
        IF k = 0 THEN [new |-> n, rest |-> {r \in S : ~RsMeets(n, r)}]
        ELSE LET c == RsCombine(met[k - 1].new, order[k], op)
             IN [new |-> c.new, rest |-> met[k - 1].rest \cup c.rest]
      end == met[Len(order)]
  IN end.rest \cup {end.new}

RsInsert(n) ==
  /\ rsPc = "insert" /\ n \in rsDone
  /\ rsDone' = rsDone \ {n}
  /\ \E order \in SetToSeqs({r \in rsSets[rsInto] : RsMeets(n, r)}) :
       rsSets' = [rsSets EXCEPT ![rsInto] = RsInserted(n, @, order, rsOp)]
  /\ UNCHANGED <<rsOp, rsInto, rsQueue, rsWork, rsNext, rsRound, rsCompareVars,
                 rsAdded, rsPc, rsWeight, rsGaveUp>>

RsAdded == /\ \/ rsPc = "insert" /\ rsDone = {}
              \/ rsPc = "add" /\ rsQueue = {}
           /\ rsPc' = IF rsQueue = {} THEN "ready" ELSE "add"
           /\ UNCHANGED <<rsSets, rsAddVars, rsCompareVars, rsAdded, rsWeight, rsGaveUp>>

(* __histogram_intersection, 228-247                                       *)
RsCompare == /\ rsPc = "ready"
             /\ rsDiff' = rsSets
             /\ rsPairs' = {x \in rsSets["l"] \X rsSets["r"] : RsMeets(x[1], x[2])}
             /\ rsShared' = 0
             /\ rsPc' = "compare"
             /\ UNCHANGED <<rsSets, rsAddVars, rsAdded, rsWeight, rsGaveUp, rsInner>>

(* mutant: what is left has the weight of the whole                        *)
RsLess_all(d, w) == {x \in {d} : x.w - RsSmaller(x.w, w) > 0}

(* __diff_out, 265-321, of one range d                                     *)
RsLess(d, w) == {x \in {[d EXCEPT !.w = @ - RsSmaller(@, w)]} : x.w > 0}
RsDiffOut(d, c, w) ==
  IF ~RsMeets(d, c) THEN {d}
  ELSE IF d.lo < c.lo /\ c.hi < d.hi THEN RsBeside(d, c) \cup RsLess(d, w)
  ELSE RsBeside(d, c) \cup RsLess(RsInside(d, c), w)

RsComparePair(x) ==
  LET c == RsCommon(x[1], x[2])
      w == RsSmaller(x[1].w, x[2].w)
  IN /\ rsPc = "compare" /\ x \in rsPairs
     /\ rsPairs' = rsPairs \ {x}
     /\ rsShared' = rsShared + (c.hi - c.lo + 1) * w
     /\ rsDiff' = [s \in Sides |-> UNION {RsDiffOut(d, c, w) : d \in rsDiff[s]}]
     /\ rsInner' = (rsInner \/ \E s \in Sides : \E d \in rsDiff[s] :
                                  d.lo < c.lo /\ c.hi < d.hi /\ d.w > w)
     /\ UNCHANGED <<rsSets, rsAddVars, rsAdded, rsPc, rsWeight, rsGaveUp>>

RsDistanceEnds == /\ rsPc = "compare" /\ rsPairs = {}
                  /\ rsPc' = "done"
                  /\ UNCHANGED <<rsSets, rsAddVars, rsCompareVars, rsAdded, rsWeight, rsGaveUp>>

RsStep == \/ \E x \in rsQueue : RsTake(x)
          \/ \E t \in rsWork : RsSplit(t)
          \/ RsNextRound \/ RsDecomposed
          \/ \E n \in rsDone : RsInsert(n)
          \/ RsAdded \/ RsCompare
          \/ \E x \in rsPairs : RsComparePair(x)
          \/ RsDistanceEnds
RsCalls == RsAddInput \/ RsUnite \/ RsAddSet
RsNext == RsCalls \/ RsStep
RsSpec == RsInit /\ [][RsNext]_rsVars
-----------------------------------------------------------------------------
RsDistance == RsArea(rsSets["l"]) + RsArea(rsSets["r"]) - rsShared

(* The cells under the weights a side should have                          *)
RsUnder(s) == UNION {{p} \X (1 .. rsWeight[s][p]) : p \in RsPoints}

RsRange(x) == x.lo <= x.hi /\ x.w > 0
RsTypeOK == /\ \A s \in Sides : \A x \in rsSets[s] \cup rsDiff[s] : RsRange(x)
            /\ \A x \in rsQueue \cup rsWork \cup rsNext \cup rsDone : RsRange(x)
            /\ rsRound \in 0 .. RsRounds
            /\ rsAdded \in 0 .. RsAdds + 1
            /\ rsPc \in {"idle", "add", "split", "insert", "ready", "compare", "done"}

(* The ranges of a set stay disjoint through any operations, in the middle *)
(* of one, too, and the weights are what the operations say, number by     *)
(* number: as far as the rounds of __decompose_range are enough.           *)
RsExact ==
  rsPc # "idle" /\ ~rsGaveUp =>
    \A s \in Sides :
      /\ \A x, y \in rsSets[s] : x # y => ~RsMeets(x, y)
      /\ ~(s = rsInto /\ rsPc \in {"add", "split", "insert"}) =>
           \A p \in RsPoints : RsAt(rsSets[s], p) = rsWeight[s][p]

(* The distance is the area under the larger of the two weights, and the   *)
(* differences are what one has more than the other: unless a shared piece *)
(* lies strictly inside of one with weight left, which is not trimmed.     *)
RsCompared ==
  rsPc = "done" /\ ~rsGaveUp =>
    /\ RsDistance = Cardinality(RsUnder("l") \cup RsUnder("r"))
    /\ ~rsInner => \A p \in RsPoints :
         /\ RsAt(rsDiff["l"], p) = RsLarger(0, rsWeight["l"][p] - rsWeight["r"][p])
         /\ RsAt(rsDiff["r"], p) = RsLarger(0, rsWeight["r"][p] - rsWeight["l"][p])
=============================================================================
