---------------------------- MODULE MCWorkflows ----------------------------
(* Instances of Workflows for TLC. *)
EXTENDS Workflows

Edge(from, handle, to) == [from |-> from, handle |-> handle, to |-> to]

Chain == [type |-> [n \in {"t", "a", "o"} |->
                    CASE n = "t" -> "trigger" [] n = "a" -> "agent" [] OTHER -> "other"],
          edges |-> {Edge("t", "null", "a"), Edge("a", "null", "o")}]

Typed(nodes, conditions) ==
    [n \in nodes |-> IF n = "t" THEN "trigger" ELSE IF n \in conditions THEN "condition" ELSE "other"]

\* two branches of a condition that join
Diamond == [type |-> Typed({"t", "c", "a", "b", "j"}, {"c"}),
            edges |-> {Edge("t", "null", "c"), Edge("c", "true", "a"), Edge("c", "false", "b"),
                       Edge("a", "null", "j"), Edge("b", "null", "j")}]

\* a branch of a condition holds another one, and both can lead to b
Nested == [type |-> Typed({"t", "c", "d", "a", "b"}, {"c", "d"}),
           edges |-> {Edge("t", "null", "c"), Edge("c", "true", "d"), Edge("c", "false", "b"),
                      Edge("d", "true", "a"), Edge("d", "false", "b")}]

\* one branch has a node of its own, the other leads to the join at once
Short == [type |-> Typed({"t", "c", "a", "j"}, {"c"}),
          edges |-> {Edge("t", "null", "c"), Edge("c", "null", "a"), Edge("c", "false", "j"),
                     Edge("a", "null", "j")}]

\* a node depends on a condition and on an independent node
Beside == [type |-> Typed({"t", "c", "a", "b", "j"}, {"c"}),
           edges |-> {Edge("t", "null", "c"), Edge("t", "null", "b"), Edge("c", "true", "a"),
                      Edge("a", "null", "j"), Edge("b", "null", "j")}]

Unreached == [type |-> Typed({"t", "a", "b"}, {}),
              edges |-> {Edge("t", "null", "a"), Edge("b", "null", "a")}]
Apart == [type |-> Typed({"t", "a", "b"}, {}), edges |-> {Edge("t", "null", "a")}]
Cycle == [type |-> Typed({"t", "a", "b"}, {}),
          edges |-> {Edge("t", "null", "a"), Edge("a", "null", "b"), Edge("b", "null", "a")}]

\* a PUT draws a graph with a branch, or one with a cycle
MCRows == {"short", "cycle"}

MCGraphs == [chain |-> Chain, diamond |-> Diamond, nested |-> Nested, short |-> Short,
             beside |-> Beside, unreached |-> Unreached, apart |-> Apart, cycle |-> Cycle]
=============================================================================
