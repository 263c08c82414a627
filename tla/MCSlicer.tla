------------------------------ MODULE MCSlicer ------------------------------
(***************************************************************************)
(* Graphs and arguments for checking Slicer.                               *)
(***************************************************************************)
EXTENDS Slicer, FiniteSetsExt

(* A method whose assignments have every shape the text scan tells apart:  *)
(* x=..  *p=..  x*=..  p->f=..  i++  and a declaration with initialiser    *)
Assignments == {[line |-> 1, name |-> "x", sep |-> "=", eq |-> TRUE],
                [line |-> 2, name |-> "",  sep |-> "*", eq |-> TRUE],
                [line |-> 3, name |-> "p", sep |-> "-", eq |-> TRUE],
                [line |-> 3, name |-> "i", sep |-> "+", eq |-> FALSE]}
Code(ref, line, ast, asg, decl, loop) ==
  [ref |-> ref, line |-> line, ast |-> ast, asg |-> asg, local |-> {"x", "i"},
   decl |-> decl, ret |-> {4}, ctl |-> {}, call |-> {2}, loop |-> loop]

CONSTANT MaxEdges    \* bound on the reference edges of a graph

(* The reference graphs over three nodes. The third node is in the method  *)
(* but has no line, or has one but is outside of the method.               *)
Refs3 == UNION {kSubset(n, (1..3) \X (1..3)) : n \in 0 .. MaxEdges}
AllGraphs == {Code(ref, <<1, 2, 0, 3>>, {1, 2, 3}, {}, {}, {}) : ref \in Refs3}
        \cup {Code(ref, <<1, 2, 2, 3>>, {1, 2}, {}, {}, {}) : ref \in Refs3}

(* A few larger graphs: a cycle behind a diamond, two nodes on one line,   *)
(* and a chain through a node outside the method                           *)
SomeGraphs == {Code({<<2, 1>>, <<3, 1>>, <<4, 2>>, <<4, 3>>, <<1, 4>>},
                    <<1, 2, 3, 4>>, {1, 2, 3, 4}, Assignments, {}, {3}),
               Code({<<2, 1>>, <<3, 2>>, <<4, 4>>},
                    <<1, 2, 2, 3>>, {1, 3, 4}, Assignments, {1}, {})}
Graphs == AllGraphs \cup SomeGraphs

Ops == {<<>>, <<{1, 2}>>, <<{1}, {2}>>}
=============================================================================
