----------------------------- MODULE MCAnalyzer -----------------------------
(***************************************************************************)
(* Inputs for checking Analyzer.                                           *)
(***************************************************************************)
EXTENDS Analyzer

(* Renaming: two symbols, and one that reads like a renamed symbol; files  *)
(* of three base names, or two in directories that have the same one       *)
Symbols == {<<"s">>, <<"t">>, <<"s", "b1">>}
BaseNames == {[f1 |-> "b1", f2 |-> "b2", f3 |-> "b3"],
              [f1 |-> "b1", f2 |-> "b1", f3 |-> "b3"]}
Forced == {{}, {<<"s">>}}

(* Logs: two blocks of one or two paths, or three of one path              *)
Path(e) == <<"location">> \o e \o <<"empty">>
Paths == {Path(e) : e \in {<<>>, <<"entry">>, <<"entry", "more", "more">>,
                           <<"entry", "more", "entry">>}}
Block(paths) == <<"open", "empty">> \o paths \o <<"close">>
Single == {Block(p) : p \in Paths}
Blocks == Single \cup {Block(p \o q) : p \in Paths, q \in {Path(<<"entry">>)}}
LogFiles == {b \o c : b, c \in Blocks} \cup {Block(Path(<<>>)) \o b \o c : b, c \in Single}
LineSize == [k \in FcKinds |-> CASE k \in {"open", "close"} -> 3
                                 [] k = "empty" -> 1
                                 [] OTHER -> 2]

(* Databases: up to two values for f and g, some for h, and no file for k  *)
Value(x, e) == [expr |-> x, errptr |-> e]
Returned == {Value("0", FALSE), Value("5", TRUE), Value("g", FALSE),
             Value("h", TRUE), Value("f", FALSE)}
Files == {ExNone, ExCut} \cup {S \in SUBSET Returned : Cardinality(S) \in 1 .. 2}
FewFiles == {ExNone, ExCut, {Value("0", FALSE)}, {Value("f", FALSE)}, {Value("k", FALSE)},
             {Value("0", FALSE), Value("g", TRUE)}}
Databases == {[f |-> a, g |-> b, h |-> c, k |-> ExNone] : a, b \in Files, c \in FewFiles}

(* Ranges: single ones, and sets that take several rounds to split at      *)
One(lo, hi, w) == [lo |-> lo, hi |-> hi, w |-> w]
Inputs == {{One(lo, hi, 1)} : lo \in {0, 2}, hi \in {2, 3, 4}}
            \cup {{One(1, 3, 2)}, {One(0, 4, 2)}, {One(0, 0, 1), One(2, 2, 2), One(4, 4, 1)},
                  {One(0, 3, 1), One(2, 4, 1)}, {One(p, p, 1) : p \in RsPoints}}
=============================================================================
