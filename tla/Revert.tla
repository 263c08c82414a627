------------------------------- MODULE Revert -------------------------------
(***************************************************************************)
(* split/gen.py, revert: write the generated function, which is the new    *)
(* function with the edit actions of the invalid change units taken back.  *)
(* One pass over the old function collects the lines to restore, one pass  *)
(* over the new function writes the result.                                *)
(***************************************************************************)
EXTENDS EditScript

CONSTANT Listings    \* the hybrid listings of updated functions

ASSUME ListingsAssumption ==
  \A h \in Listings : h \in Seq({"=", "-", "+"}) /\ IsListing(h)

VARIABLES pc,        \* "old" and "new": the two passes; "done"
          h,         \* the listing
          invalid,   \* the edit actions to take back
          linenum,   \* the line the pass has reached
          addC,      \* lines collected for additions
          uptC,      \* lines collected for updates
          out        \* the generated function, as positions in the listing

vars == <<pc, h, invalid, linenum, addC, uptC, out>>

(* The three collections of lines 4-29                                     *)
add1    == {b \in invalid : IsAdd(h, b)}
delete1 == {b \in invalid : IsDelete(h, b)}
upt1    == {b \in invalid : IsUpdate(h, b)}

(* Lines 31-39: nothing collected or written, for the actions in invalid   *)
RevertIdle == /\ linenum = 0
              /\ addC = [b \in add1 |-> <<>>]
              /\ uptC = [b \in upt1 |-> <<>>]
              /\ out = <<>>
RevertStart(bs) == /\ linenum' = 0
                   /\ addC' = [b \in {x \in bs : IsAdd(h, x)} |-> <<>>]
                   /\ uptC' = [b \in {x \in bs : IsUpdate(h, x)} |-> <<>>]
                   /\ out' = <<>>

Init == /\ pc = "old"
        /\ h \in Listings
        /\ invalid \in SUBSET Actions(h)
        /\ RevertIdle

(* Lines 40-54: an update claims the line before an addition does          *)
Collect(line, n) ==
  LET u == {b \in upt1 : n \in Ends(OldSide(h, b))}
      a == {b \in add1 : n \in Ends(OldSide(h, b))}
  IN \/ /\ u # {}
        /\ \E b \in u : uptC' = [uptC EXCEPT ![b] = Append(@, line)]
        /\ UNCHANGED addC
     \/ /\ u = {} /\ a # {}
        /\ \E b \in a : addC' = [addC EXCEPT ![b] = Append(@, line)]
        /\ UNCHANGED uptC
     \/ /\ u = {} /\ a = {}
        /\ UNCHANGED <<addC, uptC>>

ReadOld == /\ pc = "old"
           /\ linenum < Len(OldLines(h))
           /\ linenum' = linenum + 1
           /\ Collect(OldLines(h)[linenum + 1], linenum + 1)
           /\ UNCHANGED <<pc, h, invalid, out>>

(* mutant: the line counter is not reset between the passes               *)
Rewind_keep == /\ pc = "old"
               /\ linenum = Len(OldLines(h))
               /\ pc' = "new"
               /\ UNCHANGED <<h, invalid, linenum, addC, uptC, out>>

(* Lines 59-60                                                             *)
Rewind == /\ pc = "old"
          /\ linenum = Len(OldLines(h))
          /\ pc' = "new"
          /\ linenum' = 0
          /\ UNCHANGED <<h, invalid, addC, uptC, out>>

(* mutant: the lines 90-91 that are commented out, skipping the new line   *)
(* an addition is put in front of                                          *)
Written_skip(line, n) ==
  LET u == {b \in upt1 : n \in Ends(NewSide(h, b))}
      a == {b \in add1 : n = AddKey(h, b) + 1}
  IN IF u # {} THEN LET b == CHOOSE x \in u : TRUE
                    IN IF n = Max(NewSide(h, b)) THEN uptC[b] ELSE <<>>
     ELSE IF \E b \in delete1 : n \in Ends(NewSide(h, b)) THEN <<>>
     ELSE IF a # {} THEN addC[CHOOSE x \in a : TRUE] ELSE <<line>>

(* mutant: the collected lines are written after the new line              *)
Written_after(line, n) ==
  LET u == {b \in upt1 : n \in Ends(NewSide(h, b))}
      a == {b \in add1 : n = AddKey(h, b) + 1}
  IN IF u # {} THEN LET b == CHOOSE x \in u : TRUE
                    IN IF n = Max(NewSide(h, b)) THEN uptC[b] ELSE <<>>
     ELSE IF \E b \in delete1 : n \in Ends(NewSide(h, b)) THEN <<>>
     ELSE IF a # {} THEN <<line>> \o addC[CHOOSE x \in a : TRUE] ELSE <<line>>

(* Lines 62-93: what is written when the new function's line n is read     *)
Written(line, n) ==
  LET u == {b \in upt1 : n \in Ends(NewSide(h, b))}
      a == {b \in add1 : n = AddKey(h, b) + 1}
  IN IF u # {} THEN LET b == CHOOSE x \in u : TRUE
                    IN IF n = Max(NewSide(h, b)) THEN uptC[b] ELSE <<>>
     ELSE IF \E b \in delete1 : n \in Ends(NewSide(h, b)) THEN <<>>
     ELSE IF a # {} THEN addC[CHOOSE x \in a : TRUE] \o <<line>> ELSE <<line>>

ReadNew == /\ pc = "new"
           /\ linenum < Len(NewLines(h))
           /\ linenum' = linenum + 1
           /\ out' = out \o Written(NewLines(h)[linenum + 1], linenum + 1)
           /\ UNCHANGED <<pc, h, invalid, addC, uptC>>

Close == /\ pc = "new"
         /\ linenum = Len(NewLines(h))
         /\ pc' = "done"
         /\ UNCHANGED <<h, invalid, linenum, addC, uptC, out>>

RevertStep == ReadOld \/ Rewind \/ ReadNew \/ Close
Spec == Init /\ [][RevertStep]_vars /\ WF_vars(RevertStep)
-----------------------------------------------------------------------------
(* What taking back the actions in bs means: the lines both functions have, *)
(* the new lines of the other actions and the old lines of those in bs.    *)
(* This is not in the code.                                                *)
TakenBack(j) == j \in UNION invalid
Keep(l, j) == \/ l[j] = "="
              \/ l[j] = "-" /\ ~TakenBack(j)
              \/ l[j] = "+" /\ TakenBack(j)
Kept == InOrder({j \in DOMAIN h : Keep(h, j)})

(* The hunks whose lines the two ends of a range name all of, an addition  *)
(* having a line of the new function to be put in front of                 *)
Short(b) == /\ Cardinality(NewSide(h, b)) <= 2
            /\ Cardinality(OldSide(h, b)) <= 2
            /\ IsAdd(h, b) => AddKey(h, b) < Len(NewLines(h))

(* The type of every variable; the line counter belongs to the function of *)
(* the current pass.                                                       *)
TypeOK ==
  /\ pc \in {"old", "new", "done"}
  /\ h \in Listings
  /\ invalid \subseteq Actions(h)
  /\ linenum \in 0 .. Len(IF pc = "old" THEN OldLines(h) ELSE NewLines(h))
  /\ addC \in [add1 -> Seq(DOMAIN h)]
  /\ uptC \in [upt1 -> Seq(DOMAIN h)]
  /\ out \in Seq(DOMAIN h)

(* revert never reorders or repeats a line: the generated function is a    *)
(* subsequence of the hybrid listing, although restored lines come from a  *)
(* pass over another file and are put in front of or in place of others.   *)
Ordered == \A i \in 1 .. Len(out) - 1 : out[i] < out[i + 1]

(* Every line of the new function that no invalid action touches has been  *)
(* written when the pass over the new function (lines 61-93) has come past *)
(* it, and nothing else outside the invalid actions has: taking one action *)
(* back leaves the surroundings alone, whatever the length of its hunk.    *)
KeepsTheRest ==
  pc # "old" => Range(out) \ UNION invalid
                  = {NewLines(h)[n] : n \in 1 .. linenum} \ UNION invalid

(* With hunks of at most two lines a side, revert takes back exactly the   *)
(* invalid actions: nothing of their new lines is left and all of their    *)
(* old lines are back, in place.                                           *)
ShortHunksExact == pc = "done" /\ (\A b \in invalid : Short(b)) => out = Kept

(* split.py:721 says of revert's argument "remove the CUs that include     *)
(* stmts in blacklists": no new line of an invalid action is in the        *)
(* generated function.                                                     *)
InvalidRemoved ==
  pc = "done" => \A i \in DOMAIN out : ~(h[out[i]] = "-" /\ TakenBack(out[i]))
=============================================================================
