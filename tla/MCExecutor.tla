----------------------------- MODULE MCExecutor -----------------------------
(* A loop with two variables and an invariant on one branch of a            *)
(* conditional.  The loop condition follows the first variable, so that the *)
(* iterations of the second one lag behind.                                 *)
EXTENDS Executor

MCNodes == {"src", "if", "e1", "e2", "c", "m1", "m2", "cond", "s1", "s2", "n1", "b2",
            "n2", "x1", "x2", "join", "alt", "trig", "both",
            "end"}

MCKind == [n \in MCNodes |->
  CASE n \in {"src", "cond", "b2", "join", "alt"} -> "Op"
    [] n \in {"if", "s1", "s2"} -> "Switch"
    [] n \in {"m1", "m2", "end"} -> "Merge"
    [] n \in {"e1", "e2", "c"} -> "Enter"
    [] n \in {"x1", "x2"} -> "Exit"
    [] n \in {"n1", "n2"} -> "NextIteration"
    [] OTHER -> "ControlTrigger"]

MCEdge(a, slot, b) == [src |-> a, slot |-> slot, dst |-> b]

MCEdges ==
  { MCEdge("src", 0, "if"),
    MCEdge("if", 1, "e1"), MCEdge("if", 1, "e2"), MCEdge("if", 1, "c"), MCEdge("if", 0, "alt"),
    MCEdge("e1", 0, "m1"), MCEdge("n1", 0, "m1"), MCEdge("e2", 0, "m2"), MCEdge("n2", 0, "m2"),
    MCEdge("m1", 0, "cond"), MCEdge("c", 0, "cond"),
    MCEdge("m1", 0, "s1"), MCEdge("cond", 0, "s1"), MCEdge("m2", 0, "s2"), MCEdge("cond", 0, "s2"),
    MCEdge("s1", 1, "n1"), MCEdge("s2", 1, "b2"), MCEdge("c", 0, "b2"), MCEdge("b2", 0, "n2"),
    MCEdge("s1", 0, "x1"), MCEdge("s2", 0, "x2"),
    MCEdge("x1", 0, "join"), MCEdge("x2", 0, "join"),
    MCEdge("alt", Control, "trig"), MCEdge("trig", Control, "end"),
    MCEdge("alt", Control, "both"), MCEdge("join", Control, "both"),
    MCEdge("join", 0, "end"), MCEdge("alt", 0, "end") }

MCLoop == [n \in {"e1", "e2", "c"} |-> "while"]
MCParallel == [l \in {"while"} |-> 2]

\* How often each node runs with all its inputs, by what the graph means: the loop is
\* entered if the condition holds, and its body is run as often as its own does.
MCRuns(n) ==
  CASE n \in {"src", "if", "trig", "both", "end"} -> 1
    [] n = "alt" -> IF taken THEN 0 ELSE 1
    [] n \in {"e1", "e2", "c", "x1", "x2", "join"} -> IF taken THEN 1 ELSE 0
    [] n \in {"m1", "m2", "cond", "s1", "s2"} -> IF taken THEN trips + 1 ELSE 0
    [] OTHER -> IF taken THEN trips ELSE 0

\* A step that ends well has run every node as often as the graph demands, whatever
\* the order in which threads took them up, the number of iterations at a time and the
\* branch that was taken: dead values stop and pass where they should.
MeansTheGraph == (finished = 1 /\ status_ = "OK") => \A n \in Nodes : live[n] = MCRuns(n)

\* Every node runs at most once per iteration, the step finishes once and leaves
\* nothing behind, and what has run is what the graph means.
RunsAsMeant == RunsOnce /\ FinishedClean /\ MeansTheGraph
=============================================================================
