----------------------------- MODULE CodeGraph -----------------------------
(***************************************************************************)
(* What slice.sc reads from a code property graph, and the five result     *)
(* sets it derives from it.  The graph itself is produced by Joern, which  *)
(* is not part of the repository: it is a record here.                     *)
(*                                                                         *)
(*   ref   edges <<m, n>>: m refers to n, so that n.in("REF") yields m     *)
(*   line  the line of a node, NoLine for a node without one               *)
(*   ast   the nodes of the syntax tree of the analysed method             *)
(*   asg   the assignments, each with its line, the name its text starts   *)
(*         with and the character that follows that name                   *)
(*   local the names of local variables      decl  the lines declaring one *)
(*   ret   the lines of returns              ctl   the lines controlling   *)
(*   call  the lines of calls                      a return                *)
(*   loop  the lines below a for, while or do                              *)
(***************************************************************************)
EXTENDS Naturals, Sequences

CONSTANTS Node,      \* the nodes of code property graphs
          Line,      \* line numbers of the hybrid file
          NoLine,    \* the line of a node that has none
          Name,      \* the identifiers assignments start with
          CPGs,      \* the graphs a run of slice.sc may be given
          Sources    \* the values of its argument sourceLine

Assignment == [line : Line, name : Name, sep : {"=", "*", "-", "[", "+"},
               eq : BOOLEAN]

CPG == [ref : SUBSET (Node \X Node), line : [Node -> Line \cup {NoLine}],
        ast : SUBSET Node, asg : SUBSET Assignment, local : SUBSET Name,
        decl : SUBSET Line, ret : SUBSET Line, ctl : SUBSET Line,
        call : SUBSET Line, loop : SUBSET Line]

(* An operation is a group of changed lines; sourceLine lists operations.  *)
Operation == SUBSET Line

ASSUME NoLineAssumption == NoLine \notin Line
ASSUME CPGsAssumption == CPGs \subseteq CPG /\ CPGs # {}
ASSUME SourcesAssumption == Sources \subseteq Seq(Operation)
-----------------------------------------------------------------------------
(* Lines 16-24: the syntax nodes of the method on the lines of operation o *)
SourceNodes(c, o) == {n \in c.ast : c.line[n] \in o}

(* source.in("REF")                                                        *)
Forwards(c, n) == {m \in Node : <<m, n>> \in c.ref}

(* mutant: lines of nodes that have none are not filtered out              *)
LinesOf_unfiltered(c, S) == {c.line[n] : n \in S \cap c.ast}

(* Lines 43-49: the lines of the method the nodes in S stand on            *)
LinesOf(c, S) == {c.line[n] : n \in S \cap c.ast} \cap Line

(* The least set that contains S and every node referring to a member.     *)
(* This is what GetReLines is meant to compute: it is not in the code.     *)
Closed(c, T) == \A n \in T : Forwards(c, n) \subseteq T
Reach(c, S) == {n \in Node :
                  \A T \in SUBSET Node : S \subseteq T /\ Closed(c, T) => n \in T}
Affected(c, o) == LinesOf(c, Reach(c, SourceNodes(c, o)))
-----------------------------------------------------------------------------
(* Lines 80-85: the text up to and including the first character that is   *)
(* not part of an identifier, as a pair; a local's name has no such end.   *)
Left(a) == <<a.name, a.sep>>
IsLocal(c, a) == \E v \in c.local : Left(a) = <<v, "">>

(* Lines 77-93: the assignments collected as assignments to non-locals     *)
NonLocal(c) == {a \in c.asg : a.eq /\ ~IsLocal(c, a) /\ a.line \notin c.decl}

PointerLines(c) == {a.line : a \in {b \in NonLocal(c) : b.sep = "*"}}
GlobalLines(c)  == {a.line : a \in {b \in NonLocal(c) : b.sep # "*"}}
Critical(c) == GlobalLines(c) \cup c.ret \cup c.call \cup c.ctl

(* Lines 162-179: what one run appends to dstFile, given the relations rel *)
Report(c, rel) == [point |-> PointerLines(c), critical |-> Critical(c),
                   loop |-> c.loop, ret |-> c.ret, rel |-> rel]

(* The relations a run on graph c with argument s should find              *)
Relations(c, s) == [o \in {s[i] : i \in DOMAIN s} |-> Affected(c, o)]

(* The reports a run should write                                          *)
Reports == {Report(c, Relations(c, s)) : c \in CPGs, s \in Sources}
=============================================================================
