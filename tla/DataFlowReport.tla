--------------------------- MODULE DataFlowReport ---------------------------
(***************************************************************************)
(* What slice.sc promises split.py: each run adds one report to the file,  *)
(* in one step, and never touches the reports already there.               *)
(***************************************************************************)
EXTENDS Naturals, Sequences

CONSTANTS Reports,    \* the exact reports of the possible runs
          MaxRuns     \* bound on the number of runs writing to one file

VARIABLE dst          \* the reports in the file

Init == dst = <<>>

AppendReport == /\ Len(dst) < MaxRuns
                /\ \E r \in Reports : dst' = Append(dst, r)

Spec == Init /\ [][AppendReport]_dst
=============================================================================
