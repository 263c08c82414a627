---------------------------- MODULE ChangeUnits ----------------------------
(***************************************************************************)
(* generateFunc of split/split.py for one updated function, lines 547 to   *)
(* 745 and 833 to 844: from the data-flow report of its hybrid file to the *)
(* change units, the units that are discarded and the generated function.  *)
(*                                                                         *)
(* A changed line is its position in the hybrid listing; its half is "p"   *)
(* (patched, a "-" line) or "o" (original, a "+" line).                    *)
(***************************************************************************)
EXTENDS Revert

CONSTANT Inputs   \* records [h, rel, point, loop], see Input

(* rel gives the relations of the report, point and loop its first and     *)
(* third line for each half. A changed line that has a syntax node is      *)
(* related to itself.                                                      *)
Half(l, j) == IF l[j] = "-" THEN "p" ELSE "o"
InHalf(l, c) == {j \in DOMAIN l : IF c = "p" THEN InNew(l, j) ELSE InOld(l, j)}
Input(i) ==
  /\ i.h \in Listings
  /\ i.rel \in [Changed(i.h) -> SUBSET DOMAIN i.h]
  /\ \A j \in Changed(i.h) :
       /\ i.rel[j] \subseteq InHalf(i.h, Half(i.h, j))
       /\ i.rel[j] # {} => j \in i.rel[j]
  /\ \A c \in {"p", "o"} :
       i.point[c] \subseteq InHalf(i.h, c) /\ i.loop[c] \subseteq InHalf(i.h, c)

ASSUME InputsAssumption == \A i \in Inputs : Input(i)

VARIABLES report,                         \* the input in use
          blacklists,                     \* blacklisted changed lines
          dresults,                       \* groups of dependent changed lines
          CUs, validCUs,                  \* change units: sets of actions
          compiled                        \* <<>> or the text that compiled

unitVars == <<report, blacklists, dresults, CUs, validCUs, compiled>>

(* pc has the phases here besides those of Revert                          *)
UnitsInit == /\ pc = "report"
             /\ report \in Inputs
             /\ h = report.h
             /\ invalid = {}
             /\ RevertIdle
             /\ blacklists = {}
             /\ dresults = {}
             /\ CUs = {}
             /\ validCUs = {}
             /\ compiled = <<>>

(* lp2l or lo2l                                                            *)
Line(c, j) == IF c = "p" THEN lp2l(h, j) ELSE lo2l(h, j)

(* Lines 560-568 and 588-596 convert the reported lines to those of the    *)
(* function. The loops 577 and 604, meant to convert the related lines,    *)
(* test a list index for membership in a list of strings and never do.     *)
PointList(c) == {Line(c, j) : j \in report.point[c]}
LoopList(c)  == {Line(c, j) : j \in report.loop[c]}

(* Lines 585 and 612                                                       *)
Blacklisted(j) == LET c == Half(h, j)
                  IN \/ report.rel[j] \cap PointList(c) # {}
                     \/ Line(c, j) \in LoopList(c)

(* mutant: only the patched half is looked at                              *)
Blacklist_p == /\ pc = "report"
               /\ pc' = "group"
               /\ blacklists' = {j \in Changed(h) : h[j] = "-" /\ Blacklisted(j)}
               /\ UNCHANGED <<h, invalid, linenum, addC, uptC, out, report,
                              dresults, CUs, validCUs, compiled>>

(* Lines 547-621                                                           *)
Blacklist == /\ pc = "report"
             /\ pc' = "group"
             /\ blacklists' = {j \in Changed(h) : Blacklisted(j)}
             /\ UNCHANGED <<h, invalid, linenum, addC, uptC, out, report,
                            dresults, CUs, validCUs, compiled>>

(* mutant: overlapping parts are not merged                                *)
connected_components_none(parts) == parts

(* to_graph, to_edges and networkx' connected_components: y is in the      *)
(* component of x when every set that no part crosses and x is in has y    *)
connected_components(parts) ==
  LET Closed == {S \in SUBSET UNION parts : \A p \in parts : p \cap S = {} \/ p \subseteq S}
      Component(x) == {y \in UNION parts : \A S \in Closed : x \in S => y \in S}
  IN {Component(x) : x \in UNION parts}

(* rel_list: the text of an empty set splits into one empty string, 0 here *)
rel_list(j) == IF report.rel[j] = {} THEN {0} ELSE report.rel[j]

(* mutant: the components themselves are kept, not the changes in them    *)
Group_components == /\ pc = "group"
                    /\ pc' = "units"
                    /\ dresults' = connected_components({rel_list(j) : j \in Changed(h)})
                    /\ UNCHANGED <<h, invalid, linenum, addC, uptC, out, report,
                                   blacklists, CUs, validCUs, compiled>>

(* mutant: only the changes of the patched half are looked up             *)
Group_patched == /\ pc = "group"
                 /\ pc' = "units"
                 /\ LET new == {j \in Changed(h) : h[j] = "-"}
                        dd == connected_components({rel_list(j) : j \in new})
                    IN dresults' = {{j \in new : rel_list(j) \cap d # {}} : d \in dd}
                 /\ UNCHANGED <<h, invalid, linenum, addC, uptC, out, report,
                                blacklists, CUs, validCUs, compiled>>

(* Lines 623-650                                                           *)
Group == /\ pc = "group"
         /\ pc' = "units"
         /\ LET dd == connected_components({rel_list(j) : j \in Changed(h)})
            IN dresults' = {{j \in Changed(h) : rel_list(j) \cap d # {}} : d \in dd}
         /\ UNCHANGED <<h, invalid, linenum, addC, uptC, out, report,
                        blacklists, CUs, validCUs, compiled>>

NewEnds(b) == Ends({j \in b : h[j] = "-"})
OldEnds(b) == Ends({j \in b : h[j] = "+"})
Holding(S) == {d \in dresults : d \cap S # {}}

(* Lines 654-697: the groups an action is put into. Of an update the old   *)
(* lines are only tried when the group the loop over the new ones ended at *)
(* has not taken it.                                                       *)
GroupsOf(b) == IF IsAdd(h, b) THEN Holding(OldEnds(b))
               ELSE IF IsDelete(h, b) \/ Holding({Max(NewEnds(b))}) # {}
                    THEN Holding(NewEnds(b))
                    ELSE Holding(NewEnds(b)) \cup Holding(OldEnds(b))

(* Lines 654-716                                                           *)
MergeUnits == /\ pc = "units"
              /\ pc' = "check"
              /\ LET CUnitM == {{b \in Actions(h) : d \in GroupsOf(b)} : d \in dresults}
                 IN CUs' = connected_components(CUnitM \ {{}})
              /\ UNCHANGED <<h, invalid, linenum, addC, uptC, out, report,
                             blacklists, dresults, validCUs, compiled>>

checkValid(b) == (NewEnds(b) \cup OldEnds(b)) \cap blacklists = {}

(* mutant: the blacklisted actions are taken back, not their units         *)
Discard_actions == /\ pc = "check"
                   /\ pc' = "old"
                   /\ validCUs' = {u \in CUs : \A b \in u : checkValid(b)}
                   /\ invalid' = {b \in UNION CUs : ~checkValid(b)}
                   /\ UNCHANGED <<h, report, blacklists, dresults, CUs, compiled>>
                   /\ RevertStart(invalid')

(* Lines 718-745                                                           *)
Discard == /\ pc = "check"
           /\ pc' = "old"
           /\ validCUs' = {u \in CUs : \A b \in u : checkValid(b)}
           /\ invalid' = UNION (CUs \ validCUs')
           /\ UNCHANGED <<h, report, blacklists, dresults, CUs, compiled>>
           /\ RevertStart(invalid')

Revert == RevertStep /\ UNCHANGED unitVars

(* Lines 815-839: the generated text is removed, and as it has compiled    *)
(* written again                                                           *)
CompileOk == /\ pc = "done" /\ compiled = <<>>
             /\ pc' = "old"
             /\ compiled' = <<out>>
             /\ UNCHANGED <<h, invalid, report, blacklists, dresults, CUs, validCUs>>
             /\ RevertStart(invalid)

(* mutant: on an error the new function is written                         *)
CompileError_new == /\ pc = "done" /\ compiled = <<>>
                    /\ pc' = "kept"
                    /\ out' = NewLines(h)
                    /\ UNCHANGED <<h, invalid, linenum, addC, uptC, unitVars>>

(* Lines 841-844: revert of nothing with the two functions swapped         *)
CompileError == /\ pc = "done" /\ compiled = <<>>
                /\ pc' = "kept"
                /\ out' = OldLines(h)
                /\ UNCHANGED <<h, invalid, linenum, addC, uptC, unitVars>>

UnitsNext == Blacklist \/ Group \/ MergeUnits \/ Discard \/ Revert \/ CompileOk \/ CompileError
UnitsSpec == UnitsInit /\ [][UnitsNext]_<<vars, unitVars>>
-----------------------------------------------------------------------------
Finished == pc = "kept" \/ (pc = "done" /\ compiled # <<>>)

(* The result has none of the new lines and all of the old lines of b, or  *)
(* the other way round.                                                    *)
Side(b, x) == {j \in b : h[j] = x}
Undone(b)  == Side(b, "-") \cap Range(out) = {} /\ Side(b, "+") \subseteq Range(out)
Applied(b) == Side(b, "+") \cap Range(out) = {} /\ Side(b, "-") \subseteq Range(out)

(* The changed lines the grouping looks at: the first and last line of a   *)
(* hunk, those of the new function if it has any                           *)
Lead(b) == IF IsAdd(h, b) THEN OldEnds(b) ELSE NewEnds(b)
UnitOf(b) == {u \in CUs : b \in u}
Related(j, k) == report.rel[j] \cap report.rel[k] # {}

(* The types of the variables of this module; the groups are sets of       *)
(* changed lines, the units sets of edit actions, none of them empty.      *)
UnitsTypeOK ==
  /\ pc \in {"report", "group", "units", "check", "old", "new", "done", "kept"}
  /\ h = report.h
  /\ blacklists \subseteq Changed(h)
  /\ dresults \subseteq (SUBSET Changed(h)) \ {{}}
  /\ CUs \subseteq (SUBSET Actions(h)) \ {{}}
  /\ validCUs \subseteq CUs
  /\ compiled = <<>> \/ compiled[1] \in Seq(DOMAIN h)

(* Lines 654-716 leave every edit action in one change unit and in no      *)
(* other, although an action joins the groups of both ends of its hunk and *)
(* the groups of the two functions overlap: no action is judged twice, and *)
(* none escapes the check.                                                 *)
Partition == pc \notin {"report", "group", "units"} =>
               \A b \in Actions(h) : Cardinality(UnitOf(b)) = 1

(* Actions whose leading lines have a common related line are in the same  *)
(* change unit, directly or through others.                                *)
DependentTogether ==
  pc \notin {"report", "group", "units"} =>
    \A a, b \in Actions(h) :
      (\E j \in Lead(a), k \in Lead(b) : Related(j, k)) => UnitOf(a) = UnitOf(b)

(* A change unit of short hunks is in the generated function as a whole or *)
(* not at all: whatever is blacklisted, whatever hunks surround it, and    *)
(* also when the generated function does not compile.                      *)
AllOrNothing ==
  Finished => \A u \in CUs : (\A b \in u : Short(b)) =>
                (\A b \in u : Undone(b)) \/ (\A b \in u : Applied(b))

(* An edit action that starts or ends in a loop is not in the generated    *)
(* function, in whichever function the loop is (585 and 612, second half). *)
LoopsDiscarded ==
  Finished => \A b \in Actions(h) :
    /\ Short(b)
    /\ \E j \in NewEnds(b) \cup OldEnds(b) : j \in report.loop[Half(h, j)]
    => Undone(b)

(* The generated function left on disk is the one that was compiled or the *)
(* original function: it is deleted and written a second time (833-844).   *)
CompiledOrOriginal ==
  Finished => out = OldLines(h) \/ compiled = <<out>>

(* split.py:548 says "discard updates on loops and non-local vars": an     *)
(* action that starts or ends with a line affecting an assignment through  *)
(* a pointer is not in the generated function.                             *)
PointersDiscarded ==
  Finished => \A b \in Actions(h) :
    /\ Short(b)
    /\ \E j \in NewEnds(b) \cup OldEnds(b) :
         report.rel[j] \cap report.point[Half(h, j)] # {}
    => Undone(b)
=============================================================================
