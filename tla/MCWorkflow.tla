----------------------------- MODULE MCWorkflow -----------------------------
(* Instances of Workflow for TLC: a chain whose ids are in the order of    *)
(* the dependencies, one against it with an approval in the middle, and a  *)
(* join.                                                                   *)
EXTENDS Workflow

Nodes == 1..3
Graph(kind2, d1, d2, d3, in3) ==
    [kind |-> <<"task", kind2, "task">>, deps |-> <<d1, d2, d3>>,
     subject |-> <<1, 1, 1>>, inputs |-> <<{}, {}, in3>>]
Graphs == {Graph("task", {}, {1}, {2}, {1}),
           [Graph("approval", {2}, {3}, {}, {}) EXCEPT !.subject[2] = 3],
           Graph("task", {2, 3}, {}, {}, {}),
           Graph("task", {3}, {1}, {2}, {})}   \* the last is no workflow: a cycle
=============================================================================
