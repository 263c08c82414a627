------------------------- MODULE ChangeUnitsProofs -------------------------
(***************************************************************************)
(* Proofs about ChangeUnits, for any listings and data-flow reports.       *)
(***************************************************************************)
EXTENDS ChangeUnits, RevertProofs

(* The components divide the elements of the parts, and no part is divided *)
(* among two of them.                                                      *)
LEMMA ComponentsOf ==
  ASSUME NEW parts
  PROVE  /\ \A c \in connected_components(parts) :
              c \subseteq UNION parts /\ \E x \in UNION parts : x \in c
         /\ \A x \in UNION parts : \E c \in connected_components(parts) : x \in c
         /\ \A c, d \in connected_components(parts) : \A x : x \in c /\ x \in d => c = d
         /\ \A p \in parts, c \in connected_components(parts) :
              \A x \in p, y \in p : x \in c => y \in c
<1> DEFINE E == UNION parts
           Closed == {S \in SUBSET E : \A p \in parts : p \cap S = {} \/ p \subseteq S}
           Comp(x) == {y \in E : \A S \in Closed : x \in S => y \in S}
           CC == {Comp(x) : x \in E}
<1>1. connected_components(parts) = CC
  BY DEF connected_components
<1>2. \A S \in Closed : E \ S \in Closed
  <2> SUFFICES ASSUME NEW S \in Closed, NEW p \in parts
               PROVE  p \cap (E \ S) = {} \/ p \subseteq E \ S
    OBVIOUS
  <2>1. p \subseteq E
    OBVIOUS
  <2>2. p \cap S = {} \/ p \subseteq S
    OBVIOUS
  <2> HIDE DEF E
  <2> QED  BY <2>1, <2>2
<1>3. \A x \in E : x \in Comp(x)
  OBVIOUS
<1>4. ASSUME NEW p \in parts, NEW x \in p, NEW y \in p  PROVE y \in Comp(x)
  <2>1. y \in E
    OBVIOUS
  <2>2. \A S \in Closed : p \cap S = {} \/ p \subseteq S
    OBVIOUS
  <2>3. \A S \in Closed : x \in S => y \in S
    <3> HIDE DEF Closed, E
    <3> QED  BY <2>2
  <2> HIDE DEF Closed, E
  <2> QED  BY <2>1, <2>3
<1> HIDE DEF Closed, E
<1>5. \A x \in E : \A y \in Comp(x) : x \in Comp(y)
  <2> SUFFICES ASSUME NEW x \in E, NEW y \in Comp(x), NEW S \in Closed, y \in S, x \notin S
               PROVE  FALSE
    OBVIOUS
  <2>1. x \in E \ S /\ E \ S \in Closed
    BY <1>2
  <2> QED  BY <2>1
<1>6. \A x \in E : \A y \in Comp(x) : Comp(y) = Comp(x)
  <2> SUFFICES ASSUME NEW x \in E, NEW y \in Comp(x)  PROVE Comp(y) = Comp(x)
    OBVIOUS
  <2>1. x \in Comp(y) /\ y \in E
    BY <1>5
  <2> QED  BY <2>1
<1>7. \A c, d \in CC : \A z : z \in c /\ z \in d => c = d
  <2> SUFFICES ASSUME NEW c \in CC, NEW d \in CC, NEW z, z \in c, z \in d  PROVE c = d
    OBVIOUS
  <2>1. PICK x \in E : c = Comp(x)
    OBVIOUS
  <2>2. PICK y \in E : d = Comp(y)
    OBVIOUS
  <2> HIDE DEF Comp
  <2> QED  BY <1>6, <2>1, <2>2
<1>8. \A p \in parts, c \in CC : \A x \in p, y \in p : x \in c => y \in c
  <2> SUFFICES ASSUME NEW p \in parts, NEW w \in E, NEW x \in p, NEW y \in p, x \in Comp(w)
               PROVE  y \in Comp(w)
    OBVIOUS
  <2>1. y \in Comp(x)
    BY <1>4
  <2>2. Comp(x) = Comp(w)
    <3> HIDE DEF Comp
    <3> QED  BY <1>6
  <2> HIDE DEF Comp
  <2> QED  BY <2>1, <2>2
<1>9. \A c \in CC : c \subseteq E /\ \E x \in E : x \in c
  <2>1. \A x \in E : Comp(x) \subseteq E /\ x \in Comp(x)
    BY <1>3
  <2> HIDE DEF Comp
  <2> QED  BY <2>1
<1>10. \A x \in E : \E c \in CC : x \in c
  <2> SUFFICES ASSUME NEW x \in E  PROVE \E c \in CC : x \in c
    OBVIOUS
  <2>1. Comp(x) \in CC /\ x \in Comp(x)
    BY <1>3
  <2> HIDE DEF Comp, CC
  <2> QED  BY <2>1
<1>11. E = UNION parts
  BY DEF E
<1> HIDE DEF CC, Comp
<1>. QED  BY <1>1, <1>7, <1>8, <1>9, <1>10, <1>11
-----------------------------------------------------------------------------
(* The groups and units as functions of the report                         *)
Rels   == {rel_list(j) : j \in Changed(h)}
Groups == {{j \in Changed(h) : rel_list(j) \cap d # {}} : d \in connected_components(Rels)}
Members == {{b \in Actions(h) : d \in GroupsOf(b)} : d \in dresults} \ {{}}
Units  == connected_components(Members)
Phases == {"report", "group", "units", "check", "old", "new", "done", "kept"}
Late   == {"old", "new", "done", "kept"}
Whole  == InOrder(UpTo(h, invalid, Len(NewLines(h))))

(* The inductive invariant: what each phase computed is still what it is   *)
(* computed from, and a text that has compiled is the one revert writes    *)
(* again.                                                                  *)
UnitsInv ==
  /\ pc \in Phases
  /\ report \in Inputs /\ h = report.h /\ Proper
  /\ RevertInv
  /\ blacklists = IF pc = "report" THEN {} ELSE {j \in Changed(h) : Blacklisted(j)}
  /\ dresults = IF pc \in {"report", "group"} THEN {} ELSE Groups
  /\ CUs = IF pc \in {"report", "group", "units"} THEN {} ELSE Units
  /\ validCUs = IF pc \in Late THEN {u \in CUs : \A b \in u : checkValid(b)} ELSE {}
  /\ pc \in Late => invalid = UNION (CUs \ validCUs)
  /\ compiled = <<>> \/ (compiled = <<Whole>> /\ pc \in Late)
  /\ pc = "kept" => out = OldLines(h)

LEMMA ReportOf ==
  ASSUME UnitsInv
  PROVE  /\ h \in Seq(Kinds) /\ IsListing(h) /\ Input(report)
         /\ \A j \in Changed(h) : /\ j \in DOMAIN h
                                  /\ report.rel[j] # {} => j \in report.rel[j]
                                  /\ \E x : x \in rel_list(j)
<1>1. h \in Seq(Kinds) /\ IsListing(h) /\ Input(report)
  BY ProperListing, InputsAssumption DEF UnitsInv
<1>2. \A j \in Changed(h) : j \in DOMAIN h /\ (report.rel[j] # {} => j \in report.rel[j])
  BY <1>1 DEF Input, Changed, UnitsInv
<1>3. \A j \in Changed(h) : \E x : x \in rel_list(j)
  BY DEF rel_list
<1>. QED  BY <1>1, <1>2, <1>3

(* Every changed line is in a group, and lines with a common related line  *)
(* are in a common one.                                                    *)
LEMMA GroupsAre ==
  ASSUME UnitsInv
  PROVE  /\ \A d \in Groups : d \subseteq Changed(h) /\ \E j \in d : TRUE
         /\ \A j, k \in Changed(h) : \A x : x \in rel_list(j) /\ x \in rel_list(k)
              => \E d \in Groups : j \in d /\ k \in d
         /\ \A j \in Changed(h) : \E d \in Groups : j \in d
<1> DEFINE CC == connected_components(Rels)
           G(d) == {j \in Changed(h) : rel_list(j) \cap d # {}}
<1>1. /\ \A c \in CC : \E x \in UNION Rels : x \in c
      /\ \A x \in UNION Rels : \E c \in CC : x \in c
  BY ComponentsOf
<1>2. Groups = {G(d) : d \in CC}
  BY DEF Groups
<1>3. \A x : x \in UNION Rels <=> \E j \in Changed(h) : x \in rel_list(j)
  BY DEF Rels
<1> HIDE DEF CC
<1>4. ASSUME NEW j \in Changed(h), NEW k \in Changed(h), NEW x, x \in rel_list(j), x \in rel_list(k)
      PROVE  \E d \in Groups : j \in d /\ k \in d
  <2>1. PICK c \in CC : x \in c
    BY <1>1, <1>3, <1>4
  <2>2. j \in G(c) /\ k \in G(c)
    BY <1>4, <2>1
  <2>3. G(c) \in Groups
    BY <1>2
  <2> HIDE DEF G
  <2> QED  BY <2>2, <2>3
<1>5. ASSUME NEW d \in Groups  PROVE d \subseteq Changed(h) /\ \E j \in d : TRUE
  <2>1. PICK c \in CC : d = G(c)
    BY <1>2
  <2>2. PICK x \in UNION Rels : x \in c
    BY <1>1
  <2>3. PICK j \in Changed(h) : x \in rel_list(j)
    BY <1>3
  <2>4. j \in d
    BY <2>1, <2>2, <2>3
  <2> QED  BY <2>1, <2>4
<1>6. ASSUME NEW j \in Changed(h)  PROVE \E d \in Groups : j \in d
  <2>1. PICK x : x \in rel_list(j)
    BY ReportOf
  <2> QED  BY <1>4, <2>1
<1>. QED  BY <1>4, <1>5, <1>6

(* The lines an action is grouped by                                       *)
LEMMA LeadOf ==
  ASSUME NEW b \in Actions(h), h \in Seq(Kinds)
  PROVE  /\ \E j \in Lead(b) : TRUE
         /\ \A j \in Lead(b) \cup NewEnds(b) \cup OldEnds(b) : j \in b /\ j \in Changed(h)
         /\ Holding(Lead(b)) \subseteq GroupsOf(b)
         /\ GroupsOf(b) \subseteq dresults
<1> DEFINE N == {j \in b : h[j] = "-"}
           O == {j \in b : h[j] = "+"}
<1>1. b \subseteq Changed(h) /\ \A j \in b : j \in Nat /\ j <= Len(h)
  <2>1. b \subseteq Changed(h)
    BY DEF Actions
  <2> QED  BY <2>1, LinesOf DEF Changed
<1>2. Len(h) \in Nat
  BY LinesOf
<1>3. \A S : S \subseteq b => (\A j \in Ends(S) : j \in S) /\ (S # {} => Max(S) \in Ends(S))
  BY <1>1, <1>2, EndsOf
<1>4. /\ \A j \in NewEnds(b) : j \in b
      /\ \A j \in OldEnds(b) : j \in b
      /\ N # {} => \E j \in NewEnds(b) : TRUE
      /\ O # {} => \E j \in OldEnds(b) : TRUE
  BY <1>3 DEF NewEnds, OldEnds
<1>5. (N = {} <=> IsAdd(h, b)) /\ (N = {} => O # {})
  BY SidesOf DEF IsAdd, NewSide
<1>6. \E j \in Lead(b) : TRUE
  BY <1>4, <1>5 DEF Lead
<1>7. Holding(Lead(b)) \subseteq GroupsOf(b) /\ GroupsOf(b) \subseteq dresults
  BY DEF Lead, GroupsOf, Holding
<1>. QED  BY <1>1, <1>4, <1>6, <1>7 DEF Lead

(* Every action belongs to exactly one unit.                               *)
LEMMA UnitsAre ==
  ASSUME UnitsInv, dresults = Groups
  PROVE  /\ \A u \in Units : u \subseteq Actions(h) /\ \E b \in u : TRUE
         /\ \A u, v \in Units : \A b : b \in u /\ b \in v => u = v
         /\ \A b \in Actions(h) : \E u \in Units : b \in u
         /\ \A a, b \in Actions(h), u \in Units : \A d \in dresults :
              d \in GroupsOf(a) /\ d \in GroupsOf(b) /\ a \in u => b \in u
<1> DEFINE M(d) == {b \in Actions(h) : d \in GroupsOf(b)}
<1>1. /\ \A u \in Units : u \subseteq UNION Members /\ \E b \in UNION Members : b \in u
      /\ \A b \in UNION Members : \E u \in Units : b \in u
      /\ \A u, v \in Units : \A b : b \in u /\ b \in v => u = v
      /\ \A m \in Members, u \in Units : \A a \in m, b \in m : a \in u => b \in u
  BY ComponentsOf DEF Units
<1>2. Members = {M(d) : d \in dresults} \ {{}}
  BY DEF Members
<1>3. UNION Members \subseteq Actions(h)
  BY DEF Members
<1>4. ASSUME NEW a \in Actions(h), NEW d \in dresults, d \in GroupsOf(a)
      PROVE  M(d) \in Members /\ a \in M(d)
  <2>1. a \in M(d)
    BY <1>4
  <2> HIDE DEF M
  <2> QED  BY <1>2, <2>1
<1>5. ASSUME NEW b \in Actions(h)  PROVE b \in UNION Members
  <2>1. PICK j \in Lead(b) : j \in Changed(h)
    BY ReportOf, LeadOf
  <2>2. PICK d \in dresults : j \in d
    BY <2>1, GroupsAre
  <2>3. d \in Holding(Lead(b))
    BY <2>1, <2>2 DEF Holding
  <2>4. d \in GroupsOf(b)
    BY <2>3, ReportOf, LeadOf
  <2>5. M(d) \in Members /\ b \in M(d)
    BY <1>4, <2>4
  <2> HIDE DEF M
  <2> QED  BY <2>5
<1>6. ASSUME NEW a \in Actions(h), NEW b \in Actions(h), NEW u \in Units, NEW d \in dresults,
             d \in GroupsOf(a), d \in GroupsOf(b), a \in u
      PROVE  b \in u
  <2>1. M(d) \in Members /\ a \in M(d) /\ b \in M(d)
    BY <1>4, <1>6
  <2> HIDE DEF M
  <2> QED  BY <1>1, <1>6, <2>1
<1>. QED  BY <1>1, <1>3, <1>5, <1>6
-----------------------------------------------------------------------------
(* Each action preserves the invariant.                                    *)
LEMMA InitUnits == UnitsInit => UnitsInv
<1> SUFFICES ASSUME UnitsInit  PROVE UnitsInv
  OBVIOUS
<1>1. report \in Inputs /\ h = report.h /\ invalid = {} /\ pc = "report"
  BY DEF UnitsInit
<1>2. Proper
  BY <1>1, InputsAssumption DEF Proper, Input
<1>. QED  BY <1>1, <1>2 DEF UnitsInit, UnitsInv, RevertInv, Phases, Late

LEMMA BlacklistUnits == ASSUME UnitsInv, Blacklist PROVE UnitsInv'
<1>1. /\ pc = "report" /\ pc' = "group"
      /\ blacklists' = {j \in Changed(h) : Blacklisted(j)}
      /\ UNCHANGED <<h, invalid, report, dresults, CUs, validCUs, compiled>>
  BY DEF Blacklist
<1>2. {j \in Changed(h) : Blacklisted(j)}' = {j \in Changed(h) : Blacklisted(j)}
  BY <1>1 DEF Blacklisted, PointList, LoopList, Line
<1>3. Proper' /\ RevertInv'
  BY <1>1 DEF UnitsInv, Proper, RevertInv
<1>. QED  BY <1>1, <1>2, <1>3 DEF UnitsInv, Phases, Late

LEMMA SameGroups ==
  ASSUME UNCHANGED <<h, report>>
  PROVE  /\ {j \in Changed(h) : Blacklisted(j)}' = {j \in Changed(h) : Blacklisted(j)}
         /\ Groups' = Groups
         /\ dresults' = dresults => Units' = Units
<1>1. {j \in Changed(h) : Blacklisted(j)}' = {j \in Changed(h) : Blacklisted(j)}
  BY DEF Blacklisted, PointList, LoopList, Line
<1>2. Groups' = Groups
  BY DEF Groups, Rels, rel_list
<1>3. dresults' = dresults => Units' = Units
  BY DEF Units, Members, GroupsOf, Holding, NewEnds, OldEnds
<1>. QED  BY <1>1, <1>2, <1>3

LEMMA GroupUnits == ASSUME UnitsInv, Group PROVE UnitsInv'
<1>1. /\ pc = "group" /\ pc' = "units" /\ dresults' = Groups
      /\ UNCHANGED <<h, invalid, report, blacklists, CUs, validCUs, compiled>>
  BY DEF Group, Groups, Rels
<1>2. Proper' /\ RevertInv'
  BY <1>1 DEF UnitsInv, Proper, RevertInv
<1>3. /\ {j \in Changed(h) : Blacklisted(j)}' = {j \in Changed(h) : Blacklisted(j)}
      /\ Groups' = Groups
  BY <1>1, SameGroups
<1>. QED  BY <1>1, <1>2, <1>3 DEF UnitsInv, Phases, Late

LEMMA MergeUnitsUnits == ASSUME UnitsInv, MergeUnits PROVE UnitsInv'
<1>1. /\ pc = "units" /\ pc' = "check" /\ CUs' = Units
      /\ UNCHANGED <<h, invalid, report, blacklists, dresults, validCUs, compiled>>
  BY DEF MergeUnits, Units, Members
<1>2. Proper' /\ RevertInv'
  BY <1>1 DEF UnitsInv, Proper, RevertInv
<1>3. /\ {j \in Changed(h) : Blacklisted(j)}' = {j \in Changed(h) : Blacklisted(j)}
      /\ Groups' = Groups /\ Units' = Units
  BY <1>1, SameGroups
<1>. QED  BY <1>1, <1>2, <1>3 DEF UnitsInv, Phases, Late

LEMMA DiscardUnits == ASSUME UnitsInv, Discard PROVE UnitsInv'
<1>1. /\ pc = "check" /\ pc' = "old"
      /\ validCUs' = {u \in CUs : \A b \in u : checkValid(b)}
      /\ invalid' = UNION (CUs \ validCUs')
      /\ UNCHANGED <<h, report, blacklists, dresults, CUs, compiled>>
      /\ RevertStart(invalid')
  BY DEF Discard
<1>2. dresults = Groups /\ CUs = Units /\ compiled = <<>>
  BY <1>1 DEF UnitsInv, Late
<1>3. invalid' \subseteq Actions(h)
  BY <1>1, <1>2, UnitsAre
<1>4. Proper'
  BY <1>1, <1>3 DEF UnitsInv, Proper
<1>5. RevertInv'
  BY <1>1, <1>4, StartRevert
<1>6. /\ {j \in Changed(h) : Blacklisted(j)}' = {j \in Changed(h) : Blacklisted(j)}
      /\ Groups' = Groups /\ Units' = Units
  BY <1>1, SameGroups
<1>7. validCUs' = {u \in CUs' : \A b \in u : checkValid(b)'}
  BY <1>1 DEF checkValid, NewEnds, OldEnds
<1>. QED  BY <1>1, <1>2, <1>4, <1>5, <1>6, <1>7 DEF UnitsInv, Phases, Late

(* From here on nothing that the report determines changes.                *)
LEMMA LateUnits ==
  ASSUME UnitsInv, pc \in Late, pc' \in Late, Proper', RevertInv',
         UNCHANGED <<h, invalid, report, blacklists, dresults, CUs, validCUs>>,
         compiled' = <<>> \/ compiled' = <<Whole>>,
         pc' = "kept" => out' = OldLines(h)
  PROVE  UnitsInv'
<1>1. /\ {j \in Changed(h) : Blacklisted(j)}' = {j \in Changed(h) : Blacklisted(j)}
      /\ Groups' = Groups /\ Units' = Units
  BY SameGroups
<1>2. {u \in CUs : \A b \in u : checkValid(b)}' = {u \in CUs : \A b \in u : checkValid(b)}
  BY DEF checkValid, NewEnds, OldEnds
<1>3. Whole' = Whole
  BY DEF Whole
<1>. QED  BY <1>1, <1>2, <1>3 DEF UnitsInv, Phases, Late

LEMMA RevertUnits == ASSUME UnitsInv, Revert PROVE UnitsInv'
<1>1. RevertStep /\ UNCHANGED <<h, invalid, unitVars>> /\ pc \in {"old", "new"}
  BY DEF Revert, RevertStep, ReadOld, Rewind, ReadNew, Close
<1>2. Proper' /\ RevertInv' /\ pc' \in {"old", "new", "done"}
  BY <1>1, StepRevert DEF UnitsInv
<1>3. compiled = <<>> \/ compiled = <<Whole>>
  BY DEF UnitsInv
<1>. QED  BY <1>1, <1>2, <1>3, LateUnits DEF Late, unitVars

LEMMA CompileUnits == ASSUME UnitsInv, CompileOk \/ CompileError PROVE UnitsInv'
<1>1. pc = "done" /\ Proper /\ RevertInv
  BY DEF CompileOk, CompileError, UnitsInv
<1>2. out = Whole
  BY <1>1, Generated DEF Whole
<1>3. CASE CompileOk
  <2>1. /\ pc' = "old" /\ compiled' = <<out>> /\ RevertStart(invalid)
        /\ UNCHANGED <<h, invalid, report, blacklists, dresults, CUs, validCUs>>
    BY <1>3 DEF CompileOk
  <2>2. Proper'
    BY <1>1, <2>1 DEF Proper
  <2>3. RevertStart(invalid')
    BY <2>1
  <2>4. RevertInv'
    BY <2>1, <2>2, <2>3, StartRevert
  <2> QED  BY <1>1, <1>2, <2>1, <2>2, <2>4, LateUnits DEF Late
<1>4. CASE CompileError
  <2>1. /\ pc' = "kept" /\ out' = OldLines(h) /\ compiled = <<>>
        /\ UNCHANGED <<h, invalid, report, blacklists, dresults, CUs, validCUs, compiled>>
    BY <1>4 DEF CompileError, unitVars
  <2>2. Proper' /\ RevertInv'
    BY <1>1, <2>1 DEF Proper, RevertInv
  <2> QED  BY <1>1, <2>1, <2>2, LateUnits DEF Late
<1>. QED  BY <1>3, <1>4

LEMMA StutterUnits == ASSUME UnitsInv, UNCHANGED <<vars, unitVars>> PROVE UnitsInv'
<1>1. UNCHANGED <<pc, h, invalid, linenum, addC, uptC, out, report, blacklists, dresults,
                  CUs, validCUs, compiled>>
  BY DEF vars, unitVars
<1>2. Proper' /\ RevertInv'
  BY <1>1 DEF UnitsInv, Proper, RevertInv, Reading, Writing, add1, upt1
<1>3. /\ {j \in Changed(h) : Blacklisted(j)}' = {j \in Changed(h) : Blacklisted(j)}
      /\ Groups' = Groups /\ Units' = Units
  BY <1>1, SameGroups
<1>4. {u \in CUs : \A b \in u : checkValid(b)}' = {u \in CUs : \A b \in u : checkValid(b)}
  BY <1>1 DEF checkValid, NewEnds, OldEnds
<1>5. Whole' = Whole
  BY <1>1 DEF Whole
<1>. QED  BY <1>1, <1>2, <1>3, <1>4, <1>5 DEF UnitsInv

LEMMA UnitsInvariance == UnitsSpec => []UnitsInv
<1>1. UnitsInv /\ [UnitsNext]_<<vars, unitVars>> => UnitsInv'
  BY BlacklistUnits, GroupUnits, MergeUnitsUnits, DiscardUnits, RevertUnits,
     CompileUnits, StutterUnits DEF UnitsNext
<1>. QED  BY <1>1, InitUnits, PTL DEF UnitsSpec
-----------------------------------------------------------------------------
Judged == pc \notin {"report", "group", "units"}

LEMMA JudgedUnits ==
  ASSUME UnitsInv, Judged
  PROVE  dresults = Groups /\ CUs = Units
  BY DEF UnitsInv, Judged

LEMMA OneUnit ==
  ASSUME UnitsInv, Judged, NEW b \in Actions(h)
  PROVE  \E u \in CUs : UnitOf(b) = {u}
<1>1. PICK u \in CUs : b \in u
  BY JudgedUnits, UnitsAre
<1>2. \A v \in CUs : b \in v => v = u
  BY <1>1, JudgedUnits, UnitsAre
<1>3. UnitOf(b) = {u}
  BY <1>1, <1>2 DEF UnitOf
<1>. QED  BY <1>3

(* Every edit action is in one change unit and no other, whatever depends  *)
(* on what.                                                                *)
THEOREM UnitsPartition == UnitsSpec => []Partition
<1>1. UnitsInv => Partition
  <2> SUFFICES ASSUME UnitsInv, Judged, NEW b \in Actions(h)
               PROVE  Cardinality(UnitOf(b)) = 1
    BY DEF Partition, Judged
  <2> QED  BY OneUnit, FS_Singleton
<1>. QED  BY <1>1, UnitsInvariance, PTL

(* Actions with a common related line end up in the same unit.             *)
THEOREM DependentInOneUnit == UnitsSpec => []DependentTogether
<1>1. UnitsInv => DependentTogether
  <2> SUFFICES ASSUME UnitsInv, Judged, NEW a \in Actions(h), NEW b \in Actions(h),
                      NEW j \in Lead(a), NEW k \in Lead(b), Related(j, k)
               PROVE  UnitOf(a) = UnitOf(b)
    BY DEF DependentTogether, Judged
  <2>1. j \in Changed(h) /\ k \in Changed(h)
    BY ReportOf, LeadOf
  <2>2. PICK x : x \in rel_list(j) /\ x \in rel_list(k)
    BY DEF Related, rel_list
  <2>3. PICK d \in dresults : j \in d /\ k \in d
    BY <2>1, <2>2, GroupsAre, JudgedUnits
  <2>4. d \in Holding(Lead(a)) /\ d \in Holding(Lead(b))
    BY <2>3 DEF Holding
  <2>5. d \in GroupsOf(a) /\ d \in GroupsOf(b)
    BY <2>4, ReportOf, LeadOf
  <2>6. \A u \in CUs : a \in u <=> b \in u
    BY <2>5, JudgedUnits, UnitsAre
  <2> QED  BY <2>6 DEF UnitOf
<1>. QED  BY <1>1, UnitsInvariance, PTL

(* What is left on disk                                                    *)
LEMMA Finish ==
  ASSUME UnitsInv, Finished
  PROVE  /\ Judged /\ pc \in Late
         /\ \/ pc = "kept" /\ out = OldLines(h)
            \/ pc = "done" /\ out = Whole /\ compiled = <<out>>
<1>1. Judged /\ pc \in Late
  BY DEF Finished, Judged, Late
<1>2. pc = "done" => out = Whole
  BY Generated DEF UnitsInv, Whole
<1>. QED  BY <1>1, <1>2 DEF Finished, UnitsInv

(* The file left on disk is the original or what has compiled.             *)
THEOREM NeverUncompiled == UnitsSpec => []CompiledOrOriginal
<1>1. UnitsInv => CompiledOrOriginal
  BY Finish DEF CompiledOrOriginal
<1>. QED  BY <1>1, UnitsInvariance, PTL

LEMMA OriginalUndone ==
  ASSUME h \in Seq(Kinds), out = OldLines(h), NEW b \in Actions(h)
  PROVE  Undone(b)
<1>1. Range(out) = Old(h)
  BY LinesOf, InOrderOf
<1>2. \A j \in b : j \in DOMAIN h
  BY SidesOf
<1>. QED  BY <1>1, <1>2 DEF Undone, Side, Old, InOld

LEMMA InvalidUndone ==
  ASSUME Proper, RevertInv, pc = "done", NEW b \in invalid, Short(b)
  PROVE  Undone(b)
<1>1. h \in Seq(Kinds) /\ IsListing(h) /\ b \in Actions(h)
  BY ProperListing
<1>2. ASSUME NEW j \in b, h[j] = "-"  PROVE j \notin Range(out)
  <2>1. DroppedBy(h, b, j)
    BY <1>1, <1>2, ShortIsAllEnds
  <2>2. ~Belongs(h, invalid, j)
    BY <1>2, <2>1 DEF Belongs, RestoredBy
  <2> QED  BY <2>2, Generated
<1>3. ASSUME NEW j \in b, h[j] = "+"  PROVE j \in Range(out)
  <2>1. RestoredBy(h, b, j) /\ Slot(h, j) <= Len(NewLines(h)) /\ j \in DOMAIN h
    BY <1>1, <1>3, ShortIsAllEnds, SidesOf
  <2> QED  BY <2>1, Generated DEF Belongs
<1>. QED  BY <1>2, <1>3 DEF Undone, Side

LEMMA ValidApplied ==
  ASSUME Proper, RevertInv, pc = "done", NEW b \in Actions(h), b \notin invalid
  PROVE  Applied(b)
<1>1. h \in Seq(Kinds) /\ IsListing(h) /\ \A c \in invalid : c \in Actions(h) /\ c # b
  BY ProperListing
<1>2. \A j \in b, c \in invalid : j \notin c
  BY <1>1, Apart
<1>3. ASSUME NEW j \in b, h[j] = "-"  PROVE j \in Range(out)
  <2>1. j \in DOMAIN h /\ InNew(h, j)
    BY <1>1, <1>3, SidesOf DEF InNew
  <2>2. Belongs(h, invalid, j)
    BY <1>2, <2>1 DEF Belongs, DroppedBy
  <2>3. Slot(h, j) <= Len(NewLines(h))
    BY <1>1, <2>1, Slots, NewNumbers
  <2> QED  BY <2>1, <2>2, <2>3, Generated
<1>4. ASSUME NEW j \in b, h[j] = "+"  PROVE j \notin Range(out)
  <2>1. ~Belongs(h, invalid, j)
    BY <1>2, <1>4 DEF Belongs, InNew, RestoredBy
  <2> QED  BY <2>1, Generated
<1>. QED  BY <1>3, <1>4 DEF Applied, Side

(* A unit of short hunks is applied as a whole or not at all.              *)
THEOREM UnitsAllOrNothing == UnitsSpec => []AllOrNothing
<1>1. UnitsInv => AllOrNothing
  <2> SUFFICES ASSUME UnitsInv, Finished, NEW u \in CUs, \A b \in u : Short(b)
               PROVE  (\A b \in u : Undone(b)) \/ (\A b \in u : Applied(b))
    BY DEF AllOrNothing
  <2>1. \A b \in u : b \in Actions(h)
    BY Finish, JudgedUnits, UnitsAre
  <2>2. Proper /\ RevertInv /\ invalid = UNION (CUs \ validCUs)
    BY Finish DEF UnitsInv
  <2>3. CASE pc = "kept"
    BY <2>1, <2>3, Finish, ReportOf, OriginalUndone
  <2>4. CASE pc = "done" /\ u \notin validCUs
    <3>1. \A b \in u : b \in invalid
      BY <2>2, <2>4
    <3> QED  BY <2>2, <2>4, <3>1, InvalidUndone
  <2>5. CASE pc = "done" /\ u \in validCUs
    <3>1. \A b \in u : b \notin invalid
      <4> SUFFICES ASSUME NEW b \in u, NEW v \in CUs, v \notin validCUs, b \in v  PROVE FALSE
        BY <2>2
      <4>1. u = v
        BY Finish, JudgedUnits, UnitsAre
      <4> QED  BY <2>5, <4>1
    <3> QED  BY <2>1, <2>2, <2>5, <3>1, ValidApplied
  <2> QED  BY <2>3, <2>4, <2>5, Finish
<1>. QED  BY <1>1, UnitsInvariance, PTL

(* A change that starts or ends in a loop is never applied.                *)
THEOREM LoopsNeverApplied == UnitsSpec => []LoopsDiscarded
<1>1. UnitsInv => LoopsDiscarded
  <2> SUFFICES ASSUME UnitsInv, Finished, NEW b \in Actions(h), Short(b),
                      NEW j \in NewEnds(b) \cup OldEnds(b), j \in report.loop[Half(h, j)]
               PROVE  Undone(b)
    BY DEF LoopsDiscarded
  <2>1. Proper /\ RevertInv /\ invalid = UNION (CUs \ validCUs)
        /\ validCUs = {u \in CUs : \A c \in u : checkValid(c)}
        /\ blacklists = {k \in Changed(h) : Blacklisted(k)}
    BY Finish DEF UnitsInv, Finished
  <2>2. j \in blacklists
    <3>1. j \in Changed(h)
      BY ReportOf, LeadOf
    <3>2. Line(Half(h, j), j) \in LoopList(Half(h, j))
      BY DEF LoopList
    <3> QED  BY <2>1, <3>1, <3>2 DEF Blacklisted
  <2>3. ~checkValid(b)
    BY <2>2 DEF checkValid
  <2>4. PICK u \in CUs : b \in u
    BY Finish, JudgedUnits, UnitsAre
  <2>5. b \in invalid
    BY <2>1, <2>3, <2>4
  <2>6. CASE pc = "kept"
    BY <2>6, Finish, ReportOf, OriginalUndone
  <2>7. CASE pc = "done"
    BY <2>1, <2>5, <2>7, InvalidUndone
  <2> QED  BY <2>6, <2>7, Finish
<1>. QED  BY <1>1, UnitsInvariance, PTL

LEMMA NonemptySubsets ==
  ASSUME NEW A, NEW B, \A x \in B : x \subseteq A /\ \E y \in x : TRUE
  PROVE  B \subseteq (SUBSET A) \ {{}}
<1> SUFFICES ASSUME NEW x \in B  PROVE x \in SUBSET A /\ x # {}
  OBVIOUS
<1>1. x \subseteq A
  OBVIOUS
<1>2. x # {}
  OBVIOUS
<1>. QED  BY <1>1, <1>2

(* Every variable of the module has its type.                              *)
THEOREM UnitsTypes == UnitsSpec => []UnitsTypeOK
<1>1. UnitsInv => UnitsTypeOK
  <2> SUFFICES ASSUME UnitsInv  PROVE UnitsTypeOK
    OBVIOUS
  <2>1. dresults \subseteq (SUBSET Changed(h)) \ {{}}
    <3>1. \A d \in dresults : d \subseteq Changed(h) /\ \E j \in d : TRUE
      <4>1. dresults = Groups \/ dresults = {}
        BY DEF UnitsInv
      <4> QED  BY <4>1, GroupsAre
    <3> QED  BY <3>1, NonemptySubsets
  <2>2. CUs \subseteq (SUBSET Actions(h)) \ {{}}
    <3>1. \A u \in CUs : u \subseteq Actions(h) /\ \E b \in u : TRUE
      <4>1. CASE Judged
        BY <4>1, JudgedUnits, UnitsAre
      <4>2. CASE ~Judged
        BY <4>2 DEF UnitsInv, Judged
      <4> QED  BY <4>1, <4>2
    <3> QED  BY <3>1, NonemptySubsets
  <2>3. Whole \in Seq(DOMAIN h)
    <3> DEFINE S == UpTo(h, invalid, Len(NewLines(h)))
    <3>1. S \subseteq DOMAIN h
      BY DEF UpTo
    <3> HIDE DEF S
    <3>2. IsFiniteSet(S) /\ \A x \in S : x \in Nat
      BY <3>1, ReportOf, LinesOf, FS_Subset
    <3>3. InOrder(S) \in Seq(DOMAIN h)
      BY <3>1, <3>2, InOrderOf, SeqMonotonic
    <3> QED  BY <3>3 DEF S, Whole
  <2>4. compiled = <<>> \/ compiled[1] \in Seq(DOMAIN h)
    BY <2>3 DEF UnitsInv
  <2> QED  BY <2>1, <2>2, <2>4 DEF UnitsInv, UnitsTypeOK, Phases
<1>. QED  BY <1>1, UnitsInvariance, PTL
=============================================================================
