----------------------------- MODULE EditScript -----------------------------
(***************************************************************************)
(* The line-level comparison of an updated function with its original.     *)
(* split/diff.sh and diffu.sh run diff on (new, old), in this order, so a  *)
(* "-" line is one of the new function only and a "+" line one of the old. *)
(*                                                                         *)
(* A hybrid listing (diffu.sh) is a sequence over "=", "-", "+"; a line is *)
(* identified with its position in the listing.  Old and new function, the *)
(* actions of diff.sh and the two line maps are read off the listing.      *)
(***************************************************************************)
EXTENDS Naturals, Sequences, FiniteSets, SequencesExt

(* diff puts the removed lines of a block before the added ones            *)
IsListing(h) == \A i \in 1 .. Len(h) - 1 : ~(h[i] = "+" /\ h[i + 1] = "-")

InNew(h, j) == h[j] \in {"=", "-"}
InOld(h, j) == h[j] \in {"=", "+"}

(* split.py:502-527: position in the hybrid file -> line of the function   *)
lp2l(h, j) == Cardinality({i \in 1 .. j : InNew(h, i)})
lo2l(h, j) == Cardinality({i \in 1 .. j : InOld(h, i)})

(* A set of positions in increasing order: the n-th has n up to itself     *)
Rank(S, j) == Cardinality({i \in S : i <= j})
InOrder(S) == [n \in 1 .. Cardinality(S) |-> CHOOSE j \in S : Rank(S, j) = n]
NewLines(h) == InOrder({j \in DOMAIN h : InNew(h, j)})
OldLines(h) == InOrder({j \in DOMAIN h : InOld(h, j)})

(* An edit action is a maximal block of changed lines.                     *)
Changed(h) == {j \in DOMAIN h : h[j] # "="}
Actions(h) == {b \in {lo .. hi : lo, hi \in Changed(h)} :
                 /\ b # {}
                 /\ b \subseteq Changed(h)
                 /\ {Min(b) - 1, Max(b) + 1} \cap Changed(h) = {}}

(* The lines of an action in the new and in the old function               *)
NewSide(h, b) == {lp2l(h, j) : j \in {i \in b : h[i] = "-"}}
OldSide(h, b) == {lo2l(h, j) : j \in {i \in b : h[i] = "+"}}

(* parseDiff: "k a x,y", "x,y d k" and "x,y c v,w"                          *)
IsAdd(h, b)    == NewSide(h, b) = {}
IsDelete(h, b) == OldSide(h, b) = {}
IsUpdate(h, b) == ~IsAdd(h, b) /\ ~IsDelete(h, b)
AddKey(h, b) == lp2l(h, Min(b))

(* mutant: only the text before the comma is read                          *)
Ends_first(S) == IF S = {} THEN {} ELSE {Min(S)}

(* A range "x,y" is only ever split at its comma: of the lines x to y the  *)
(* program knows the first and the last.                                   *)
Ends(S) == IF S = {} THEN {} ELSE {Min(S), Max(S)}
=============================================================================
