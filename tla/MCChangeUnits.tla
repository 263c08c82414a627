--------------------------- MODULE MCChangeUnits ---------------------------
(***************************************************************************)
(* Data-flow reports for checking ChangeUnits.                             *)
(***************************************************************************)
EXTENDS ChangeUnits

None == [c \in {"p", "o"} |-> {}]
Only(c, S) == [None EXCEPT ![c] = S]

(* A changed line is related to nothing, or to itself and to at most one   *)
(* other line of its half.                                                 *)
Rel(l) == LET To(j, i) == IF i \in InHalf(l, Half(l, j)) THEN {j, i} ELSE {j}
          IN {[j \in Changed(l) |-> IF f[j] = 0 THEN {} ELSE To(j, f[j])]
                : f \in [Changed(l) -> 0 .. Len(l)]}

(* Lines of one half that may be reported as pointer or loop lines         *)
Marks(l) == {None} \cup UNION {{Only(c, {j}) : j \in InHalf(l, c)} : c \in {"p", "o"}}

Update == <<"-", "+", "=", "-", "+">>
Mixed  == <<"-", "=", "+", "=", "-", "+">>
Long   == <<"-", "-", "+", "=", "+">>

AllListings == {Update, Mixed, Long}

(* Every relation on three listings, nothing blacklisted                   *)
AllRelations == UNION {{[h |-> l, rel |-> r, point |-> None, loop |-> None]
                          : r \in Rel(l)} : l \in AllListings}

(* Every pointer and loop line, few relations                              *)
Common(l) == {{}} \cup {{i} : i \in {n \in DOMAIN l : l[n] = "="}}
FewRel(l) == {[j \in Changed(l) |-> IF j = k THEN {j} \cup s ELSE {j}]
                : k \in Changed(l), s \in Common(l)}
        \cup {[j \in Changed(l) |-> {j} \cup s] : s \in Common(l)}
        \cup {[j \in Changed(l) |-> IF l[j] = "-" THEN {j} ELSE {}]}
AllMarks == UNION {{[h |-> l, rel |-> r, point |-> p, loop |-> o]
                      : r \in FewRel(l), p \in Marks(l), o \in Marks(l)}
                    : l \in AllListings}
AllInputs == AllRelations \cup AllMarks
=============================================================================
