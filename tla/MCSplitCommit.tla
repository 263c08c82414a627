--------------------------- MODULE MCSplitCommit ---------------------------
(***************************************************************************)
(* Commits for checking SplitCommit. c0 to c2 have the same files; in cr   *)
(* and cs file a has become r.                                             *)
(***************************************************************************)
EXTENDS SplitCommit

TheTree == [c \in {"c0", "c1", "c2", "cr", "cs"} |->
  IF c \in {"cr", "cs"} THEN [x \in {"r", "b"} |-> IF x = "r" THEN {"f", "g"} ELSE {"f"}]
  ELSE [x \in {"a", "b"} |-> {"f"}]]

Edit(p, c, hit) == [prt |-> p, cld |-> c, merge |-> FALSE, files |-> DOMAIN hit,
                    new |-> hit, old |-> hit]
Both  == [x \in {"a", "b"} |-> {"f"}]
First == [x \in {"r"} |-> {"f", "g"}]
One(f) == [x \in {f} |-> {"f"}]
Merge(p, c) == [Edit(p, c, One("b")) EXCEPT !.merge = TRUE]

(* Three children of one parent, the first one a merge; two files or       *)
(* functions at once; a chain in which a file is new; a file that is new   *)
(* in a second child                                                       *)
Siblings == <<Merge("c0", "cr"), Edit("c0", "c1", One("b")), Edit("c0", "c2", One("a"))>>
TwoFiles == <<Edit("c0", "c1", Both)>>
TwoFuncs == <<Edit("cr", "cs", First)>>
Renamed  == <<Edit("c0", "cr", One("r")), Edit("cr", "c2", One("b"))>>
Added    == <<Edit("c0", "cr", One("b")), Edit("c0", "cs", One("r"))>>
All == {Siblings, TwoFiles, TwoFuncs, Renamed, Added}
=============================================================================
