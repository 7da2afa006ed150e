------------------------------ MODULE EvalSched ------------------------------
(***************************************************************************)
(* The scheduler's evaluation of one context's graph, split by split, with *)
(* blobpager's wrapper as its callback and the user's callback chained     *)
(* behind it.  It is where HybridMoE's order comes from: router, miss      *)
(* pass, add.                                                              *)
(*                                                                         *)
(* The user's callback may want any nodes.  A program without one behaves  *)
(* like one whose callback wants none and always goes on.                  *)
(***************************************************************************)
EXTENDS Naturals

CONSTANTS
    NNode,        \* nodes of the graph, in graph order
    Kind,         \* node -> "moe_in" (of any layer) | "topk" | "add" (of layers the pools serve) | "plain"
    LayerOf,      \* node -> its layer
    Splittings,   \* the ways the graph may be split: node -> last node of its split
    UserCancels   \* the user's callback may return false on data

Node  == 1..NNode
Layer == {LayerOf[n] : n \in Node}

ASSUME GraphAssumption ==
    /\ NNode \in Nat \ {0}
    /\ Kind \in [Node -> {"moe_in", "topk", "add", "plain"}]
    /\ DOMAIN LayerOf = Node
    /\ Splittings \subseteq [Node -> Node]
    /\ \A s \in Splittings : \A n \in Node : n <= s[n] /\ \A m \in n..s[n] : s[m] = s[n]
    /\ UserCancels \in BOOLEAN

\* build_moe_ffn: the router's logits are computed from the activation, and what the
\* add takes depends on the drawn ids
ASSUME LayerAssumption ==
    \A n \in Node :
        /\ Kind[n] = "topk" => \E m \in 1..(n - 1) : Kind[m] = "moe_in" /\ LayerOf[m] = LayerOf[n]
        /\ Kind[n] = "add"  => \E m \in 1..(n - 1) : Kind[m] = "topk" /\ LayerOf[m] = LayerOf[n]

VARIABLES
    pc,          \* "idle" | "failed" | "ask" | "compute" | "pass" | "tell"
    splits,      \* how this graph is split
    j0, j1,      \* the range of nodes being put together
    need,        \* the callback's answer about node j1
    computed,    \* nodes computed in this graph
    asked,       \* nodes the user's callback was asked about
    wants,       \* ... and said yes to
    needed,      \* nodes the wrapper said yes to
    told,        \* nodes handed to the user's callback
    cancelled,   \* ... on which it returned false
    stash,       \* layer -> whose activation moe_in_stash points to: "none" | "old" | "this" graph's
    corr,        \* layer -> whose miss pass wrote the correction: "old" | "this"
    used,        \* layer -> what its add node read: "none" | "old" | "this"
    broken

vars == <<pc, splits, j0, j1, need, computed, asked, wants, needed, told, cancelled,
          stash, corr, used, broken>>
userVars == <<asked, wants, needed>>
hostVars == <<splits, j0, j1, need>>

-----------------------------------------------------------------------------

Active == ~broken

\* (mutant: too short a prefix of the node's name is compared)
IsStop_Prefix(n) == Active /\ Kind[n] \in {"topk", "add"}
\* The wrapper's own stop
IsStop(n) == Active /\ Kind[n] = "topk"

\* (mutant: only the user's answer counts)
StopsHere_UserOnly(n, userNeed) == userNeed
\* The wrapper's answer, given the user's
StopsHere(n, userNeed) == userNeed \/ IsStop(n)

Init ==
    /\ pc = "idle"
    /\ splits \in Splittings
    /\ j0 = 1 /\ j1 = 1 /\ need = FALSE
    /\ computed = {} /\ asked = {} /\ wants = {} /\ needed = {} /\ told = {} /\ cancelled = {}
    /\ stash = [l \in Layer |-> "none"]
    /\ corr = [l \in Layer |-> "old"]
    /\ used = [l \in Layer |-> "none"]
    /\ broken = FALSE

\* process_ubatch runs a graph; a rebuilt one may be split differently
Start ==
    /\ pc \in {"idle", "failed"}
    /\ pc' = "ask"
    /\ splits' \in Splittings
    /\ j0' = 1 /\ j1' = 1 /\ need' = FALSE
    /\ computed' = {} /\ asked' = {} /\ wants' = {} /\ needed' = {} /\ told' = {} /\ cancelled' = {}
    /\ stash' = [l \in Layer |-> IF stash[l] = "this" THEN "old" ELSE stash[l]]
    /\ corr' = [l \in Layer |-> "old"]
    /\ used' = [l \in Layer |-> "none"]
    /\ UNCHANGED broken

\* (mutant: the range is always widened to the end of the split)
Widen_PastNeed ==
    IF j1 < splits[j1] THEN pc' = "ask" /\ j1' = j1 + 1
                         ELSE pc' = "compute" /\ j1' = j1
\* After an answer: widen the range up to the end of the split, or compute it
Widen ==
    IF ~need' /\ j1 < splits[j1] THEN pc' = "ask" /\ j1' = j1 + 1
                                   ELSE pc' = "compute" /\ j1' = j1

\* (mutant: the activation is not stashed)
AskMoeIn_NoStash ==
    /\ pc = "ask" /\ Active /\ Kind[j1] = "moe_in"
    /\ need' = FALSE
    /\ Widen
    /\ UNCHANGED <<splits, j0, computed, userVars, told, cancelled, stash, corr, used, broken>>
\* The wrapper is asked about the activation the pools' layer starts from
AskMoeIn ==
    /\ pc = "ask" /\ Active /\ Kind[j1] = "moe_in"
    /\ stash' = [stash EXCEPT ![LayerOf[j1]] = "this"]
    /\ need' = FALSE
    /\ Widen
    /\ UNCHANGED <<splits, j0, computed, userVars, told, cancelled, corr, used, broken>>

\* ... and about any other node: the user's callback answers too
Ask ==
    /\ pc = "ask" /\ ~(Active /\ Kind[j1] = "moe_in")
    /\ asked' = asked \cup {j1}
    /\ \E userNeed \in BOOLEAN :
         /\ wants' = IF userNeed THEN wants \cup {j1} ELSE wants
         /\ need' = StopsHere(j1, userNeed)
    /\ needed' = IF need' THEN needed \cup {j1} ELSE needed
    /\ Widen
    /\ UNCHANGED <<splits, j0, computed, told, cancelled, stash, corr, used, broken>>

\* The backend works through the range in order; an add reads the correction
RunNode ==
    /\ pc = "compute"
    /\ \E n \in (j0..j1) \ computed :
         /\ j0..(n - 1) \subseteq computed
         /\ computed' = computed \cup {n}
         /\ used' = IF Kind[n] = "add" THEN [used EXCEPT ![LayerOf[n]] = corr[LayerOf[n]]]
                                       ELSE used
    /\ UNCHANGED <<pc, hostVars, userVars, told, cancelled, stash, corr, broken>>

\* compute_async reports an error, or the CPU backend was aborted between two nodes
ComputeFails ==
    /\ pc = "compute" /\ ~(j0..j1 \subseteq computed)
    /\ pc' = "failed"
    /\ UNCHANGED <<hostVars, computed, userVars, told, cancelled, stash, corr, used, broken>>

\* (mutants: the end is not noticed; the range starts again at its last node)
GoOnAfter_NoEnd(n) == pc' = "ask" /\ j0' = n + 1 /\ j1' = n + 1
GoOnAfter_SameNode(n) ==
    IF n = NNode THEN pc' = "idle" /\ UNCHANGED <<j0, j1>>
                 ELSE pc' = "ask" /\ j0' = n /\ j1' = n
\* The nodes up to n are over: the next range, the next split, or the end of the graph
GoOnAfter(n) ==
    IF n = NNode THEN pc' = "idle" /\ UNCHANGED <<j0, j1>>
                 ELSE pc' = "ask" /\ j0' = n + 1 /\ j1' = n + 1

\* (mutant: the range is handed over before the backend is done)
Synchronize_NoWait ==
    /\ pc = "compute"
    /\ IF need THEN pc' = (IF IsStop(j1) THEN "pass" ELSE "tell") /\ UNCHANGED <<j0, j1>>
               ELSE GoOnAfter(j1)
    /\ UNCHANGED <<splits, need, computed, userVars, told, cancelled, stash, corr, used, broken>>

\* ggml_backend_synchronize returns
Synchronize ==
    /\ pc = "compute" /\ j0..j1 \subseteq computed
    /\ IF need THEN pc' = (IF IsStop(j1) THEN "pass" ELSE "tell") /\ UNCHANGED <<j0, j1>>
               ELSE GoOnAfter(j1)
    /\ UNCHANGED <<splits, need, computed, userVars, told, cancelled, stash, corr, used, broken>>

\* do_miss_pass.  Whether a softmax is in its reach depends on the model: it may refuse.
MissPass ==
    /\ pc = "pass"
    /\ \/ /\ stash[LayerOf[j1]] # "none"
          /\ corr' = [corr EXCEPT ![LayerOf[j1]] = "this"]
          /\ UNCHANGED broken
       \/ broken' = TRUE /\ UNCHANGED corr
    /\ pc' = "tell"
    /\ UNCHANGED <<hostVars, computed, userVars, told, cancelled, stash, used>>

\* The user's callback gets the node and lets the evaluation go on
Tell ==
    /\ pc = "tell"
    /\ told' = told \cup {j1}
    /\ GoOnAfter(j1)
    /\ UNCHANGED <<splits, need, computed, userVars, cancelled, stash, corr, used, broken>>

\* (mutant: the loop goes on with the next node)
Cancel_Ignored ==
    /\ pc = "tell" /\ UserCancels
    /\ told' = told \cup {j1} /\ cancelled' = cancelled \cup {j1}
    /\ GoOnAfter(j1)
    /\ UNCHANGED <<splits, need, computed, userVars, stash, corr, used, broken>>

\* ... or returns false: the loop over the split's nodes is left
Cancel ==
    /\ pc = "tell" /\ UserCancels
    /\ told' = told \cup {j1} /\ cancelled' = cancelled \cup {j1}
    /\ GoOnAfter(splits[j1])
    /\ UNCHANGED <<splits, need, computed, userVars, stash, corr, used, broken>>

Evaluate == AskMoeIn \/ Ask \/ RunNode \/ Synchronize \/ MissPass \/ Tell \/ Cancel

Next == Start \/ Evaluate \/ ComputeFails

\* One thread runs the loop and the backends finish what they are given; nobody
\* has to start a graph or fail
Spec == Init /\ [][Next]_vars /\ WF_vars(Evaluate)

-----------------------------------------------------------------------------
(* Properties *)

\* Types, and the cursors stay inside one split.
TypeOK ==
    /\ pc \in {"idle", "failed", "ask", "compute", "pass", "tell"}
    /\ splits \in Splittings
    /\ j0 \in Node /\ j1 \in Node /\ j0 <= j1 /\ j1 <= splits[j0]
    /\ need \in BOOLEAN /\ broken \in BOOLEAN
    /\ computed \subseteq Node /\ asked \subseteq Node /\ wants \subseteq Node
    /\ needed \subseteq Node /\ told \subseteq Node /\ cancelled \subseteq Node
    /\ stash \in [Layer -> {"none", "old", "this"}]
    /\ corr \in [Layer -> {"old", "this"}]
    /\ used \in [Layer -> {"none", "old", "this"}]

\* llama-blobpager.h:16-18: when a miss pass runs, everything up to its top-k node
\* has been computed and nothing after it, and the stash, made when the wrapper
\* was asked, is this graph's activation.
PassInputsReady ==
    pc = "pass" => computed = 1..j1 /\ stash[LayerOf[j1]] = "this"

\* The order HybridMoE assumes: a layer's add reads what this graph's miss pass
\* wrote, unless the executor has given up.
AddFollowsPass == \A l \in Layer : used[l] = "old" => broken

\* A graph that was evaluated to its end has been computed to its end, and the user
\* got every node the wrapper passed its wish for.
TellsWhatWasWanted ==
    pc = "idle" /\ cancelled = {} => wants \subseteq told /\ computed \in {{}, Node}

\* llama-blobpager.h:16, "the user's callback is chained", except at the wrapper's own
\* nodes: about an activation the user is not asked, and a router's choice it is
\* given although it said no.
ChainedButOwnNodes ==
    /\ \A n \in computed \ asked : Kind[n] = "moe_in"
    /\ \A n \in told \ wants : Kind[n] = "topk"

\* What the scheduler promises to a callback that never returns false
Observed == INSTANCE ObservedEval WITH evaluated <- computed, stops <- needed, observed <- told
ObservedOrder == Observed!Spec

\* Whoever is given a node finds its range computed and nothing after it begun,
\* also after a cancelled split.
HandedOverSynced == pc = "tell" => j0..j1 \subseteq computed /\ computed \subseteq 1..j1

\* After the callback returned false, the rest of the split is not computed.
CancelDropsSplit ==
    \A c \in cancelled : computed \cap ((c + 1)..splits[c]) = {}

\* A graph that was started ends.
GraphEnds == pc \in {"ask", "compute", "pass", "tell"} ~> pc \in {"idle", "failed"}
=============================================================================
