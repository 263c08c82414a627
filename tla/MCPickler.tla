----------------------------- MODULE MCPickler -----------------------------
(***************************************************************************)
(* Logs for checking Pickler: a function in one chunk and one in several,  *)
(* and the logs after a change.                                            *)
(***************************************************************************)
EXTENDS Pickler

CONSTANTS c1, c2, c3, f1, f2
Before == [c \in Chunk |-> IF c = c1 THEN {f1, f2} ELSE {f1}]
After  == [c \in Chunk |-> IF c = c2 THEN {f2} ELSE {f1}]
ChangedLogs == {Before, After}
=============================================================================
