----------------------------- MODULE ObservedEval -----------------------------
(***************************************************************************)
(* What an evaluation callback is promised: the nodes of a graph are       *)
(* evaluated in graph order, and a node somebody asked for is handed over  *)
(* after it has been evaluated and before the node after it is.            *)
(***************************************************************************)
EXTENDS Naturals

CONSTANT NNode   \* nodes of the graph, 1..NNode in graph order

VARIABLES
    evaluated,   \* nodes whose data has been produced
    stops,       \* nodes somebody asked for
    observed     \* nodes handed over

vars == <<evaluated, stops, observed>>

Node == 1..NNode

Init == evaluated = {} /\ stops = {} /\ observed = {}

\* The next computation of the graph; the last one may have been given up
Begin == evaluated' = {} /\ stops' = {} /\ observed' = {}

Request(n) ==
    /\ n \notin evaluated
    /\ stops' = stops \cup {n}
    /\ UNCHANGED <<evaluated, observed>>

Evaluate(n) ==
    /\ evaluated = 1..(n - 1)
    /\ stops \cap evaluated \subseteq observed
    /\ evaluated' = evaluated \cup {n}
    /\ UNCHANGED <<stops, observed>>

Observe(n) ==
    /\ n \in stops \ observed
    /\ evaluated = 1..n
    /\ observed' = observed \cup {n}
    /\ UNCHANGED <<evaluated, stops>>

Next == Begin \/ \E n \in Node : Request(n) \/ Evaluate(n) \/ Observe(n)

Spec == Init /\ [][Next]_vars
=============================================================================
