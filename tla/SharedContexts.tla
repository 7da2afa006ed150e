---------------------------- MODULE SharedContexts ----------------------------
(***************************************************************************)
(* Several llama_contexts of one model over the one bp_state g.            *)
(*                                                                         *)
(* Every context keeps its own graph, but the stash, the correction        *)
(* tensors, the dirty flags, the give-up flag and the chained user         *)
(* callback are in g.  HybridMoE has one context and every detail of a     *)
(* layer; here a layer is one stash, one miss pass and one add of a        *)
(* one-row micro-batch, and what counts is whose they are.                 *)
(***************************************************************************)
EXTENDS Naturals

CONSTANTS
    Ctx,          \* the contexts
    Nobody,       \* no context
    NLayer,       \* layers with pins, in graph order
    HasCallback,  \* contexts created with a cb_eval of their own
    GraphReuse,   \* ~LLAMA_GRAPH_REUSE_DISABLE
    Serialized    \* the program lets one context decode at a time

Layer == 1..NLayer

ASSUME ContextAssumption ==
    /\ Nobody \notin Ctx
    /\ HasCallback \subseteq Ctx
    /\ NLayer \in Nat \ {0}
    /\ GraphReuse \in BOOLEAN
    /\ Serialized \in BOOLEAN

VARIABLES
    pc,            \* context -> "idle" | "route" | "topk" | "add" | "added"
    il,            \* context -> the layer it is at
    graph,         \* context -> the graph it keeps: "none" | "hybrid" | "plain"
    drew,          \* context -> its row's draws in this layer: "hits" only, or "misses"
    read,          \* context -> what its add took from the correction tensor
    told,          \* context -> whose callback was given this layer's top-k node
    corr,          \* layer -> what the correction row holds
    corr_dirty,    \* layer -> flag
    moe_in_stash,  \* layer -> the context whose tensor is stashed; Nobody: none, or freed
    user_cb,       \* whose callback the wrapper chains to
    newer,         \* context -> contexts that handed g a callback after its graph was built
    broken         \* the executor gave up

\* newer is a history variable: no step depends on it
callbackVars == <<user_cb, newer>>
vars == <<pc, il, graph, drew, read, told, corr, corr_dirty, moe_in_stash, callbackVars, broken>>

-----------------------------------------------------------------------------

Active == ~broken

\* What a correction row can hold: nothing, or the misses of a context's row, computed
\* from an activation, in the micro-batch that context is in or in an earlier one
ZeroRow == [by |-> Nobody, act |-> Nobody, age |-> "zero"]
MissesOf(c, act) == [by |-> c, act |-> act, age |-> "now"]
CorrRow == [by : Ctx \cup {Nobody}, act : Ctx \cup {Nobody}, age : {"zero", "now", "earlier"}]

Aged(r, c) == IF r.by = c /\ r.age = "now" THEN [r EXCEPT !.age = "earlier"] ELSE r

\* The callback a context was created with
CallbackOf(c) == IF c \in HasCallback THEN c ELSE Nobody

MayDecode(c) == pc[c] = "idle" /\ (Serialized => \A d \in Ctx : pc[d] = "idle")

Init ==
    /\ pc = [c \in Ctx |-> "idle"]
    /\ il = [c \in Ctx |-> 1]
    /\ graph = [c \in Ctx |-> "none"]
    /\ drew = [c \in Ctx |-> "hits"]
    /\ read = [c \in Ctx |-> ZeroRow]
    /\ told = [c \in Ctx |-> Nobody]
    /\ corr = [l \in Layer |-> ZeroRow]
    /\ corr_dirty = [l \in Layer |-> FALSE]
    /\ moe_in_stash = [l \in Layer |-> Nobody]
    /\ user_cb = Nobody
    /\ newer = [c \in Ctx |-> {}]
    /\ broken = FALSE

\* The tensors of context c's old graph are gone, also those g still points to
ForgetTensors(c) ==
    moe_in_stash' = [l \in Layer |-> IF moe_in_stash[l] = c THEN Nobody ELSE moe_in_stash[l]]

\* Context c's callback is now newer than every other context's graph
Outdate(c) == newer' = [d \in Ctx |-> IF d = c THEN {} ELSE newer[d] \cup {c}]

\* (mutant: only the first callback is handed to g)
InstallCallback_Once(c) ==
    IF Active THEN user_cb' = (IF user_cb = Nobody THEN CallbackOf(c) ELSE user_cb) /\ Outdate(c)
              ELSE UNCHANGED callbackVars
\* process_ubatch, before a build: the wrapper takes the place of the user's callback,
\* which is handed to g; once the executor gave up the scheduler gets it directly
InstallCallback(c) ==
    IF Active THEN user_cb' = CallbackOf(c) /\ Outdate(c) ELSE UNCHANGED callbackVars

\* process_ubatch keeps the graph it has
ReuseGraph(c) ==
    /\ GraphReuse /\ graph[c] # "none"
    /\ UNCHANGED <<graph, moe_in_stash, callbackVars>>

\* ... and builds a graph whose branches depend on whether the executor is active
BuildGraph(c) ==
    /\ graph' = [graph EXCEPT ![c] = IF Active THEN "hybrid" ELSE "plain"]
    /\ InstallCallback(c)
    /\ ForgetTensors(c)

ProcessUbatch(c) ==
    /\ MayDecode(c)
    /\ ReuseGraph(c) \/ BuildGraph(c)
    /\ pc' = [pc EXCEPT ![c] = "route"]
    /\ il' = [il EXCEPT ![c] = 1]
    /\ corr' = [l \in Layer |-> Aged(corr[l], c)]
    /\ UNCHANGED <<drew, read, told, corr_dirty, broken>>

\* The build or the allocation fails: the callback is installed, no graph is kept
BuildFails(c) ==
    /\ MayDecode(c)
    /\ graph' = [graph EXCEPT ![c] = "none"]
    /\ InstallCallback(c)
    /\ ForgetTensors(c)
    /\ UNCHANGED <<pc, il, drew, read, told, corr, corr_dirty, broken>>

\* The context is freed, and another one made in its place; g hears of neither
Recreate(c) ==
    /\ MayDecode(c)
    /\ graph' = [graph EXCEPT ![c] = "none"]
    /\ ForgetTensors(c)
    /\ UNCHANGED <<pc, il, drew, read, told, corr, corr_dirty, callbackVars, broken>>

\* (mutant: an activation that is stashed already is kept)
Route_KeepsStash(c) ==
    /\ pc[c] = "route"
    /\ moe_in_stash' = IF graph[c] = "hybrid" /\ Active /\ moe_in_stash[il[c]] = Nobody
                       THEN [moe_in_stash EXCEPT ![il[c]] = c] ELSE moe_in_stash
    /\ pc' = [pc EXCEPT ![c] = "topk"]
    /\ \E d \in {"hits", "misses"} : drew' = [drew EXCEPT ![c] = d]
    /\ UNCHANGED <<il, graph, read, told, corr, corr_dirty, callbackVars, broken>>
\* The graph runs up to the layer's top-k node; the wrapper stashes a hybrid layer's activation
Route(c) ==
    /\ pc[c] = "route"
    /\ moe_in_stash' = IF graph[c] = "hybrid" /\ Active
                       THEN [moe_in_stash EXCEPT ![il[c]] = c] ELSE moe_in_stash
    /\ pc' = [pc EXCEPT ![c] = "topk"]
    /\ \E d \in {"hits", "misses"} : drew' = [drew EXCEPT ![c] = d]
    /\ UNCHANGED <<il, graph, read, told, corr, corr_dirty, callbackVars, broken>>

\* The scheduler hands over the top-k node: a hybrid graph's to the wrapper, which passes
\* it on to the callback in g, a plain graph's to the callback it was built with
Tell(c) ==
    /\ told' = [told EXCEPT ![c] = IF graph[c] = "hybrid" THEN user_cb ELSE CallbackOf(c)]
    /\ pc' = [pc EXCEPT ![c] = "add"]

\* (mutant: the flag is looked at before the draws, and a hit row in a dirty layer is left)
MissPass_HitKeepsRow(c) ==
    /\ pc[c] = "topk" /\ graph[c] = "hybrid" /\ Active
    /\ moe_in_stash[il[c]] # Nobody
    /\ IF drew[c] = "misses"
       THEN /\ corr' = [corr EXCEPT ![il[c]] = MissesOf(c, moe_in_stash[il[c]])]
            /\ corr_dirty' = [corr_dirty EXCEPT ![il[c]] = TRUE]
       ELSE UNCHANGED <<corr, corr_dirty>>
    /\ Tell(c)
    /\ UNCHANGED <<il, graph, drew, read, moe_in_stash, callbackVars, broken>>
\* do_miss_pass for the one row, then the chained callback
MissPass(c) ==
    /\ pc[c] = "topk" /\ graph[c] = "hybrid" /\ Active
    /\ moe_in_stash[il[c]] # Nobody
    /\ IF drew[c] = "misses"
       THEN /\ corr' = [corr EXCEPT ![il[c]] = MissesOf(c, moe_in_stash[il[c]])]
            /\ corr_dirty' = [corr_dirty EXCEPT ![il[c]] = TRUE]
       ELSE /\ corr' = IF corr_dirty[il[c]] THEN [corr EXCEPT ![il[c]] = ZeroRow] ELSE corr
            /\ corr_dirty' = [corr_dirty EXCEPT ![il[c]] = FALSE]
    /\ Tell(c)
    /\ UNCHANGED <<il, graph, drew, read, moe_in_stash, callbackVars, broken>>

\* ... or it gives up (no softmax in reach, a tensor that cannot be read), for all contexts
MissPassRefused(c) ==
    /\ pc[c] = "topk" /\ graph[c] = "hybrid" /\ Active
    /\ broken' = TRUE
    /\ Tell(c)
    /\ UNCHANGED <<il, graph, drew, read, corr, corr_dirty, moe_in_stash, callbackVars>>

\* No pass: the graph is a plain one, or was built before the executor gave up
NoPass(c) ==
    /\ pc[c] = "topk" /\ (graph[c] = "plain" \/ broken)
    /\ Tell(c)
    /\ UNCHANGED <<il, graph, drew, read, corr, corr_dirty, moe_in_stash, callbackVars, broken>>

\* The add of the correction view; a plain graph has none
Add(c) ==
    /\ pc[c] = "add"
    /\ read' = [read EXCEPT ![c] = IF graph[c] = "hybrid" THEN corr[il[c]] ELSE ZeroRow]
    /\ pc' = [pc EXCEPT ![c] = "added"]
    /\ UNCHANGED <<il, graph, drew, told, corr, corr_dirty, moe_in_stash, callbackVars, broken>>

\* Nothing of a layer outlives it but what is in g
LeaveLayer(c) ==
    /\ drew' = [drew EXCEPT ![c] = "hits"]
    /\ read' = [read EXCEPT ![c] = ZeroRow]
    /\ told' = [told EXCEPT ![c] = Nobody]

\* (mutant: one layer too many)
NextLayer_PastEnd(c) ==
    /\ pc[c] = "added"
    /\ IF il[c] <= NLayer THEN pc' = [pc EXCEPT ![c] = "route"] /\ il' = [il EXCEPT ![c] = @ + 1]
                          ELSE pc' = [pc EXCEPT ![c] = "idle"] /\ il' = [il EXCEPT ![c] = 1]
    /\ LeaveLayer(c)
    /\ UNCHANGED <<graph, corr, corr_dirty, moe_in_stash, callbackVars, broken>>
\* The next layer of the graph, or the end of the micro-batch
NextLayer(c) ==
    /\ pc[c] = "added"
    /\ IF il[c] < NLayer THEN pc' = [pc EXCEPT ![c] = "route"] /\ il' = [il EXCEPT ![c] = @ + 1]
                         ELSE pc' = [pc EXCEPT ![c] = "idle"] /\ il' = [il EXCEPT ![c] = 1]
    /\ LeaveLayer(c)
    /\ UNCHANGED <<graph, corr, corr_dirty, moe_in_stash, callbackVars, broken>>

\* A backend error or an abort; the graph is kept
ComputeFails(c) ==
    /\ pc[c] \in {"route", "add"}
    /\ pc' = [pc EXCEPT ![c] = "idle"]
    /\ il' = [il EXCEPT ![c] = 1]
    /\ LeaveLayer(c)
    /\ UNCHANGED <<graph, corr, corr_dirty, moe_in_stash, callbackVars, broken>>

Decode(c) ==
    \/ ProcessUbatch(c) \/ BuildFails(c) \/ Route(c) \/ MissPass(c) \/ MissPassRefused(c)
    \/ NoPass(c) \/ Add(c) \/ NextLayer(c) \/ ComputeFails(c)

Next == \E c \in Ctx : Decode(c) \/ Recreate(c)

Spec == Init /\ [][Next]_vars

-----------------------------------------------------------------------------
(* Properties *)

\* Types, and that a program which serialises its decodes has one context under way.
TypeOK ==
    /\ pc \in [Ctx -> {"idle", "route", "topk", "add", "added"}]
    /\ il \in [Ctx -> Layer]
    /\ graph \in [Ctx -> {"none", "hybrid", "plain"}]
    /\ drew \in [Ctx -> {"hits", "misses"}]
    /\ read \in [Ctx -> CorrRow]
    /\ told \in [Ctx -> Ctx \cup {Nobody}]
    /\ corr \in [Layer -> CorrRow]
    /\ corr_dirty \in [Layer -> BOOLEAN]
    /\ moe_in_stash \in [Layer -> Ctx \cup {Nobody}]
    /\ user_cb \in Ctx \cup {Nobody}
    /\ newer \in [Ctx -> SUBSET Ctx]
    /\ broken \in BOOLEAN
    /\ Serialized => \A c, d \in Ctx : pc[c] # "idle" /\ pc[d] # "idle" => c = d

\* What the add of context c has to take for its row to be the exact mixture
Expected(c) ==
    IF graph[c] = "hybrid" /\ drew[c] = "misses" THEN MissesOf(c, c) ELSE ZeroRow

ExactFor(c) == pc[c] = "added" => read[c] = Expected(c)

\* llama-blobpager.h:20-21 for each of several contexts: what a context's row adds are its own
\* misses, of this micro-batch, from its own activation -- whatever rows other contexts
\* left in the tensor, also when one failed between its pass and its add.
OwnCorrection == Active => \A c \in Ctx : ExactFor(c)

\* The stash is a bare pointer into some context's graph, kept in g across micro-batches.
\* When a pass dereferences it, it is its own context's node of the graph under way: never
\* one of another context's, nor one of a graph that was rebuilt or freed since.
OwnActivation ==
    Active => \A c \in Ctx :
        pc[c] = "topk" /\ graph[c] = "hybrid" => moe_in_stash[il[c]] = c

\* What is left of llama-blobpager.h:16, "the user's callback is chained", when graphs are
\* reused: a context's nodes go to its own callback or to that of a context that built a
\* graph after it did, never to one of before, whatever was reused, freed or given up.
OwnOrNewerCallback ==
    \A c \in Ctx : pc[c] = "add" => told[c] \in {CallbackOf(d) : d \in {c} \cup newer[c]}
=============================================================================
