---------------------------- MODULE OrderedCompute ----------------------------
(***************************************************************************)
(* What a caller of ggml_graph_compute may rely on: the nodes are computed *)
(* one after the other; a call that returns GGML_STATUS_SUCCESS has        *)
(* computed all of them, one that returns GGML_STATUS_ABORTED a part from  *)
(* the front; nothing is computed between calls.                           *)
(***************************************************************************)
EXTENDS Naturals

CONSTANT NReal    \* nodes that compute something

VARIABLES
    running,   \* a call is under way
    computed,  \* nodes computed by the current call, or by the last
    result     \* what the last call returned; "none" while one is under way

Init == running = FALSE /\ computed = 0 /\ result = "success"

Call ==
    /\ ~running
    /\ running' = TRUE /\ computed' = 0 /\ result' = "none"

ComputeNode ==
    /\ running /\ computed < NReal
    /\ computed' = computed + 1
    /\ UNCHANGED <<running, result>>

Return ==
    /\ running
    /\ running' = FALSE
    /\ \/ computed = NReal /\ result' = "success"
       \/ computed > 0 /\ result' = "aborted"
    /\ UNCHANGED computed

Next == Call \/ ComputeNode \/ Return

Spec == Init /\ [][Next]_<<running, computed, result>>
=============================================================================
