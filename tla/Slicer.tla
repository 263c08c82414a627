------------------------------- MODULE Slicer -------------------------------
(***************************************************************************)
(* slice.sc: the intra-procedural slicing script split/dataflow.sh runs,   *)
(* once on the original and once on the patched half of a hybrid file, both *)
(* appending to one file.  GetReLines walks the reference edges with a     *)
(* queue and a set of visited nodes, one operation at a time.              *)
(***************************************************************************)
EXTENDS CodeGraph

CONSTANT MaxRuns    \* bound on the number of runs writing to one file
ASSUME MaxRunsAssumption == MaxRuns \in Nat

VARIABLES pc,         \* "idle", "op" (between operations), "seed", "scan"
          cpg,        \* the imported graph
          source,     \* the operations to slice, in order
          nxt,        \* index of the current operation
          que,        \* GetReLines' queue
          pending,    \* what the current foreach has still to iterate over
          fSlices,    \* GetReLines' visited nodes
          relations,  \* operation -> affected lines
          dst         \* the reports appended to dstFile

vars == <<pc, cpg, source, nxt, que, pending, fSlices, relations, dst>>

Init == /\ pc = "idle"
        /\ cpg = CHOOSE c \in CPGs : TRUE    \* none imported yet
        /\ source = <<>>
        /\ nxt = 1
        /\ que = <<>>
        /\ pending = {}
        /\ fSlices = {}
        /\ relations = <<>>
        /\ dst = <<>>

(* joern --script slice.sc: a new process, so relations starts empty       *)
Start == /\ pc = "idle"
         /\ Len(dst) < MaxRuns
         /\ pc' = "op"
         /\ cpg' \in CPGs
         /\ source' \in Sources
         /\ nxt' = 1
         /\ relations' = <<>>
         /\ UNCHANGED <<que, pending, fSlices, dst>>

(* mutant: the visited set of the previous operation is not cleared        *)
BeginOp_stale == /\ pc = "op"
                 /\ nxt \in DOMAIN source
                 /\ pc' = "seed"
                 /\ que' = <<>>
                 /\ pending' = SourceNodes(cpg, source[nxt])
                 /\ fSlices' = fSlices \cup SourceNodes(cpg, source[nxt])
                 /\ UNCHANGED <<cpg, source, nxt, relations, dst>>

(* Lines 10-24: fresh collections, the source nodes are in fSlices at once *)
BeginOp == /\ pc = "op"
           /\ nxt \in DOMAIN source
           /\ pc' = "seed"
           /\ que' = <<>>
           /\ pending' = SourceNodes(cpg, source[nxt])
           /\ fSlices' = SourceNodes(cpg, source[nxt])
           /\ UNCHANGED <<cpg, source, nxt, relations, dst>>

(* Lines 28-30                                                             *)
Seed(n) == /\ pc = "seed"
           /\ n \in pending
           /\ que' = Append(que, n)
           /\ pending' = pending \ {n}
           /\ UNCHANGED <<pc, cpg, source, nxt, fSlices, relations, dst>>

(* mutant: the head of the queue is read but not removed                   *)
Dequeue_peek == /\ pc \in {"seed", "scan"}
                /\ pending = {}
                /\ que # <<>>
                /\ pc' = "scan"
                /\ pending' = Forwards(cpg, Head(que))
                /\ UNCHANGED <<cpg, source, nxt, que, fSlices, relations, dst>>

(* Lines 31-33                                                             *)
Dequeue == /\ pc \in {"seed", "scan"}
           /\ pending = {}
           /\ que # <<>>
           /\ pc' = "scan"
           /\ que' = Tail(que)
           /\ pending' = Forwards(cpg, Head(que))
           /\ UNCHANGED <<cpg, source, nxt, fSlices, relations, dst>>

(* mutant: a new node is marked as visited but not enqueued                *)
Visit_lost(n) == /\ pc = "scan"
                 /\ n \in pending
                 /\ pending' = pending \ {n}
                 /\ fSlices' = fSlices \cup {n}
                 /\ UNCHANGED <<pc, cpg, source, nxt, que, relations, dst>>

(* Lines 34-39                                                             *)
Visit(n) == /\ pc = "scan"
            /\ n \in pending
            /\ pending' = pending \ {n}
            /\ \/ /\ n \in fSlices
                  /\ UNCHANGED <<que, fSlices>>
               \/ /\ n \notin fSlices
                  /\ que' = Append(que, n)
                  /\ fSlices' = fSlices \cup {n}
            /\ UNCHANGED <<pc, cpg, source, nxt, relations, dst>>

(* Lines 42-50                                                             *)
EndOp == /\ pc \in {"seed", "scan"}
         /\ pending = {}
         /\ que = <<>>
         /\ pc' = "op"
         /\ nxt' = nxt + 1
         /\ relations' = [o \in DOMAIN relations \cup {source[nxt]} |->
                            IF o = source[nxt] THEN LinesOf(cpg, fSlices)
                                               ELSE relations[o]]
         /\ UNCHANGED <<cpg, source, que, pending, fSlices, dst>>

(* Lines 73-179: collect the other sets and append the five lines          *)
Emit == /\ pc = "op"
        /\ nxt \notin DOMAIN source
        /\ pc' = "idle"
        /\ dst' = Append(dst, Report(cpg, relations))
        /\ UNCHANGED <<cpg, source, nxt, que, pending, fSlices, relations>>

Step == \/ BeginOp \/ Dequeue \/ EndOp \/ Emit
        \/ \E n \in Node : Seed(n) \/ Visit(n)

Next == Start \/ Step

(* A started script is run to its end by the operating system.             *)
Spec == Init /\ [][Next]_vars /\ WF_vars(Step)
-----------------------------------------------------------------------------
(* The type of every variable; visited nodes and queue stay within the     *)
(* graph, relations only ever holds operations of sourceLine.              *)
TypeOK ==
  /\ pc \in {"idle", "op", "seed", "scan"}
  /\ cpg \in CPG
  /\ source \in Sources \cup {<<>>}
  /\ nxt \in 1 .. Len(source) + 1
  /\ pc \in {"seed", "scan"} => nxt \in DOMAIN source
  /\ que \in Seq(Node)
  /\ pending \subseteq Node
  /\ fSlices \subseteq Node
  /\ DOMAIN relations \subseteq {source[i] : i \in DOMAIN source}
  /\ relations \in [DOMAIN relations -> SUBSET Line]
  /\ Len(dst) \in 0 .. MaxRuns

(* GetReLines (lines 9-51) relates an operation to the lines of exactly    *)
(* the nodes that reach it through references, whatever cycles the graph   *)
(* has, in whatever order the queue is filled, and although one process    *)
(* slices several operations after each other.                             *)
SliceExact == \A o \in DOMAIN relations : relations[o] = Affected(cpg, o)

(* Every run of the script ends: the visited set is what stops the walk on *)
(* a graph with reference cycles.                                          *)
Terminates == pc # "idle" ~> pc = "idle"

(* The script is an implementation of the one-step report.                 *)
OneStepReport == INSTANCE DataFlowReport
Implements == OneStepReport!Spec

(* slice.sc:86 says of the assignments it collects that "the var is is     *)
(* not defined locally": a line that does nothing but assign whole local   *)
(* variables is then in none of the sets of the last report.               *)
PlainLocalLine(l) == /\ \E a \in cpg.asg : a.line = l
                     /\ \A a \in cpg.asg : a.line = l => a.sep = "=" /\ a.name \in cpg.local
                     /\ l \notin cpg.ret \cup cpg.call \cup cpg.ctl
LocalsNotReported ==
  pc = "idle" /\ dst # <<>> =>
    \A l \in dst[Len(dst)].point \cup dst[Len(dst)].critical : ~PlainLocalLine(l)
=============================================================================
