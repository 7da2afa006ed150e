------------------------------ MODULE HybridMoE ------------------------------
(***************************************************************************)
(* The hybrid hit/miss executor: one llama_context decoding micro-batches  *)
(* through a mixture-of-experts model whose pinned experts sit in a GPU    *)
(* pool.  For every MoE layer the router ranks the experts of each row,    *)
(* the scheduler stops at the top-k node, do_miss_pass computes on the CPU *)
(* the drawn experts that are not pinned and writes them into the layer's  *)
(* correction tensor, and build_moe_ffn's nodes then add that tensor to    *)
(* what the pool served.                                                   *)
(*                                                                         *)
(* Numbers are abstracted to who computed what: a lane is one draw of a    *)
(* row, an arm (GPU pool or CPU pass) is the set of lanes it computed, and *)
(* a correction row also remembers which ids its gating weights were       *)
(* normalised over and whether it was written in the current micro-batch.  *)
(***************************************************************************)
EXTENDS Naturals

CONSTANTS
    NLayer,      \* MoE layers of the model, in graph order; the last keeps output rows only
    NExpert,     \* experts per layer, with ids 0..NExpert-1
    NUsed,       \* draws per row (n_expert_used)
    MaxT,        \* BLOBPAGER_MAXT: rows of a correction tensor
    Pins,        \* layer -> its pinned experts, for the layers of the pins file
    Eligible,    \* layers whose other build_moe_ffn arguments allow the hybrid branch
    Walkable,    \* layers where a softmax is found within 5 hops of the top-k node
    Shapes,      \* micro-batches the program presents
    ZeroedRows,  \* correction rows that setup's one tensor_set zeroes
    GraphReuse   \* ~LLAMA_GRAPH_REUSE_DISABLE

Layer   == 1..NLayer
Expert  == 0..(NExpert - 1)
HasPins == DOMAIN Pins
NoShape == [n_tokens |-> 0, n_outputs |-> 0]

ASSUME SizeAssumption ==
    /\ NLayer \in Nat \ {0}
    /\ NExpert \in Nat \ {0}
    /\ NUsed \in 1..NExpert
    /\ MaxT \in Nat \ {0}
    /\ ZeroedRows \in Nat
    /\ GraphReuse \in BOOLEAN

ASSUME LayerAssumption ==
    /\ HasPins \subseteq Layer
    /\ Pins \in [HasPins -> SUBSET Expert]
    /\ Eligible \subseteq Layer
    /\ Walkable \subseteq Layer

ASSUME ShapeAssumption ==
    /\ Shapes \subseteq [n_tokens : Nat \ {0}, n_outputs : Nat]
    /\ \A s \in Shapes : s.n_outputs <= s.n_tokens

VARIABLES
    pc,            \* "idle" | "route" | "miss" | "sum" : where the decode loop is
    shape,         \* the parameters of the graph gf_res_prev holds, NoShape if none
    hybrid,        \* layers that graph routes through the pools
    il,            \* the layer being computed
    rank,          \* its argsort tensor: row -> column -> expert id
    row,           \* the row the miss pass is at
    out,           \* the layer's result, row by row
    corr,          \* layer -> row -> what the correction tensor holds
    corr_dirty,    \* layer -> flag
    moe_in_stash,  \* layer -> {rows of the stashed activation}, or NoStash
    broken         \* the executor gave up

vars == <<pc, shape, hybrid, il, rank, row, out, corr, corr_dirty, moe_in_stash, broken>>
graphVars == <<shape, hybrid>>
corrVars  == <<corr, corr_dirty>>

-----------------------------------------------------------------------------
(* Data *)

Lane == 1..NUsed

\* The routers' answers: every strict order of the experts
Ranking == {r \in [1..NExpert -> Expert] : \A i, j \in 1..NExpert : r[i] = r[j] => i = j}

NoLanes == [k \in {} |-> 0]
NoStash == {}

\* What a row of the correction tensor can hold
ZeroRow   == [act |-> "zero",   lanes |-> NoLanes, over |-> NoLanes]
UninitRow == [act |-> "uninit", lanes |-> NoLanes, over |-> NoLanes]

\* Rows a layer works on: the last one runs after get_rows(inp_out_ids)
Rows(l, s) == IF l = NLayer THEN s.n_outputs ELSE s.n_tokens

CurRows == Rows(il, shape)

\* The true draws of a row: ggml_argsort_top_k is a view with the argsort's row stride
TopK(t) == [k \in Lane |-> rank[t][k]]

\* Lanes of a list of draws that no pin of layer l serves
MissLanes(l, draws) == {k \in Lane : draws[k] \notin Pins[l]}

HitLanes(l, draws) == Lane \ MissLanes(l, draws)

\* (mutant: the copy starts one id late)
ReadIds_OneLate(t) ==
    [k \in Lane |-> rank[1][(((t - 1) * NUsed + k) % NExpert) + 1]]
\* tensor_read copies the first n_used * n_tok ids of the view's storage, which
\* are consecutive columns of the argsort tensor whatever the view's stride
Column(p) == rank[(p \div NExpert) + 1][(p % NExpert) + 1]
ReadIds(t) == [k \in Lane |-> Column((t - 1) * NUsed + (k - 1))]

\* What do_miss_pass writes for a row whose ids it read as draws
Correction(l, draws) ==
    [act |-> "now", lanes |-> [k \in MissLanes(l, draws) |-> draws[k]], over |-> draws]

\* A row written in an earlier micro-batch stays in the tensor
Aged(r) == IF r.act = "now" THEN [r EXCEPT !.act = "earlier"] ELSE r

-----------------------------------------------------------------------------
(* Conditions of the code *)

Active == ~broken

\* build_moe_ffn: does layer l of a graph for s take the hybrid branch?
BuildsHybrid(l, s) ==
    /\ Active
    /\ l \in HasPins
    /\ Rows(l, s) <= MaxT
    /\ l \in Eligible

\* (mutant: any number of rows)
Intercepts_AnyRows == Active /\ il \in HasPins
\* (mutant: the callback leaves out a batch that fills the correction tensor)
Intercepts_BelowMaxT == Active /\ il \in HasPins /\ CurRows < MaxT
\* llama_blobpager_cb_eval: does it run the miss pass at this top-k node?
Intercepts == Active /\ il \in HasPins /\ CurRows <= MaxT

\* do_miss_pass: the tensors it needs are there and have the expected shape
PassReady == il \in Walkable /\ moe_in_stash[il] = {CurRows}

-----------------------------------------------------------------------------
Init ==
    /\ pc = "idle"
    /\ shape = NoShape /\ hybrid = {}
    /\ il = 1 /\ row = 1 /\ rank = <<>> /\ out = <<>>
    /\ corr \in [HasPins -> [1..MaxT -> {ZeroRow, UninitRow}]]
    /\ \A l \in HasPins : \A t \in 1..MaxT : t <= ZeroedRows => corr[l][t] = ZeroRow
    /\ corr_dirty = [l \in HasPins |-> FALSE]
    /\ moe_in_stash = [l \in Layer |-> NoStash]
    /\ broken = FALSE

\* process_ubatch: reuse the previous graph if its parameters agree, or build one,
\* which even equal shapes may need (a larger KV window changes the attention inputs)
ProcessUbatch(s) ==
    /\ pc = "idle"
    /\ \/ GraphReuse /\ shape = s /\ UNCHANGED graphVars
       \/ shape' = s /\ hybrid' = {l \in Layer : BuildsHybrid(l, s)}
    /\ pc' = "route" /\ il' = 1
    /\ corr' = [l \in HasPins |-> [t \in 1..MaxT |-> Aged(corr[l][t])]]
    /\ UNCHANGED <<rank, row, out, corr_dirty, moe_in_stash, broken>>

\* process_ubatch: building or allocating the graph fails, and no graph is kept
BuildFails ==
    /\ pc = "idle"
    /\ shape' = NoShape /\ hybrid' = {}
    /\ UNCHANGED <<pc, il, rank, row, out, corrVars, moe_in_stash, broken>>

\* The scheduler computes up to the layer's top-k node.  On the way it asks
\* about blobpager_moe_in-<il>, which a hybrid layer has, and the wrapper stashes it.
RouterTopK ==
    /\ pc = "route"
    /\ rank' \in [1..CurRows -> Ranking]
    /\ moe_in_stash' = IF Active /\ il \in hybrid
                       THEN [moe_in_stash EXCEPT ![il] = {CurRows}]
                       ELSE moe_in_stash
    /\ pc' = IF Intercepts THEN "miss" ELSE "sum"
    /\ row' = 1
    /\ UNCHANGED <<graphVars, il, out, corrVars, broken>>

\* do_miss_pass gives up: no softmax in reach, or no stashed activation
MissPassRefused ==
    /\ pc = "miss" /\ row = 1
    /\ ~PassReady
    /\ broken' = TRUE
    /\ pc' = "sum"
    /\ UNCHANGED <<graphVars, il, rank, row, out, corrVars, moe_in_stash>>

\* One turn of do_miss_pass's loop over the rows, for a row that drew an unpinned expert
MissRow ==
    /\ pc = "miss" /\ PassReady /\ row <= CurRows
    /\ MissLanes(il, ReadIds(row)) # {}
    /\ corr' = [corr EXCEPT ![il][row] = Correction(il, ReadIds(row))]
    /\ corr_dirty' = [corr_dirty EXCEPT ![il] = TRUE]
    /\ row' = row + 1
    /\ UNCHANGED <<pc, graphVars, il, rank, out, moe_in_stash, broken>>

\* (mutant: the flag is reset but the row is not zeroed)
HitRow_KeepsRow ==
    /\ pc = "miss" /\ PassReady /\ row <= CurRows
    /\ MissLanes(il, ReadIds(row)) = {}
    /\ corr_dirty' = [corr_dirty EXCEPT ![il] = FALSE]
    /\ row' = row + 1
    /\ UNCHANGED <<pc, graphVars, il, rank, out, corr, moe_in_stash, broken>>

\* ... and for a row without misses: its slot is zeroed if the layer is marked dirty
HitRow ==
    /\ pc = "miss" /\ PassReady /\ row <= CurRows
    /\ MissLanes(il, ReadIds(row)) = {}
    /\ corr' = IF corr_dirty[il] THEN [corr EXCEPT ![il][row] = ZeroRow] ELSE corr
    /\ corr_dirty' = [corr_dirty EXCEPT ![il] = FALSE]
    /\ row' = row + 1
    /\ UNCHANGED <<pc, graphVars, il, rank, out, moe_in_stash, broken>>

MissPassDone ==
    /\ pc = "miss" /\ PassReady /\ row > CurRows
    /\ pc' = "sum"
    /\ UNCHANGED <<graphVars, il, rank, row, out, corrVars, moe_in_stash, broken>>

\* The rest of build_moe_ffn's nodes, for one row: pool lanes plus the correction
\* view in a hybrid layer, every lane from the full tensors in an ordinary one
Mixture(t) ==
    IF il \in hybrid
    THEN [gpu |-> [k \in HitLanes(il, TopK(t)) |-> TopK(t)[k]], cpu |-> corr[il][t]]
    ELSE [gpu |-> TopK(t), cpu |-> ZeroRow]

SumExperts ==
    /\ pc = "sum"
    /\ out' = [t \in 1..CurRows |-> Mixture(t)]
    /\ pc' = "done"
    /\ UNCHANGED <<graphVars, il, rank, row, corrVars, moe_in_stash, broken>>

\* The next layer of the graph, or the end of the micro-batch
NextLayer ==
    /\ pc = "done"
    /\ IF il < NLayer THEN pc' = "route" /\ il' = il + 1 ELSE pc' = "idle" /\ il' = 1
    /\ rank' = <<>> /\ out' = <<>> /\ row' = 1
    /\ UNCHANGED <<graphVars, corrVars, moe_in_stash, broken>>

\* A backend returns an error (or the caller's abort callback fires) while it
\* computes a range of nodes: the rest of the graph is not run, the graph is kept
ComputeFails ==
    /\ pc \in {"route", "sum"}
    /\ pc' = "idle" /\ il' = 1
    /\ rank' = <<>> /\ out' = <<>> /\ row' = 1
    /\ UNCHANGED <<graphVars, corrVars, moe_in_stash, broken>>

Next ==
    \/ \E s \in Shapes : ProcessUbatch(s)
    \/ BuildFails \/ RouterTopK \/ MissPassRefused \/ MissRow \/ HitRow \/ MissPassDone
    \/ SumExperts \/ NextLayer \/ ComputeFails

Spec == Init /\ [][Next]_vars

-----------------------------------------------------------------------------
(* Properties *)

\* The use the repository validates: micro-batches that take the hybrid branch have
\* one row at most, and every pinned layer is one the branch and the pass accept.
OneRowUse ==
    /\ \A s \in Shapes : \A l \in HasPins : Rows(l, s) <= MaxT => Rows(l, s) <= 1
    /\ HasPins \subseteq Eligible \cap Walkable
    /\ ZeroedRows >= 1

Lanes == UNION {[S -> Expert] : S \in SUBSET Lane}

CorrRow == [act : {"zero", "uninit", "now", "earlier"}, lanes : Lanes, over : Lanes]

\* Every variable keeps its type; a correction tensor keeps one row per slot of
\* BLOBPAGER_MAXT, and the miss pass only runs in layers that have such a tensor
\* and at rows that fit in it.
TypeOK ==
    /\ pc \in {"idle", "route", "miss", "sum", "done"}
    /\ shape \in Shapes \cup {NoShape} /\ hybrid \subseteq Layer
    /\ il \in Layer /\ row \in Nat
    /\ pc \in {"miss", "sum", "done"} => rank \in [1..CurRows -> Ranking]
    /\ pc # "idle" => shape \in Shapes
    /\ pc = "miss" => il \in HasPins /\ CurRows <= MaxT /\ row \in 1..(CurRows + 1)
    /\ pc = "done" => out \in [1..CurRows -> [gpu : Lanes, cpu : CorrRow]]
    /\ corr \in [HasPins -> [1..MaxT -> CorrRow]]
    /\ corr_dirty \in [HasPins -> BOOLEAN]
    /\ moe_in_stash \in [Layer -> SUBSET Nat]
    /\ broken \in BOOLEAN

\* The lanes of either arm that computed expert e for a result row
Computed(r, e) ==
    {<<"gpu", k>> : k \in {j \in DOMAIN r.gpu : r.gpu[j] = e}} \cup
    {<<"cpu", k>> : k \in {j \in DOMAIN r.cpu.lanes : r.cpu.lanes[j] = e}}

Drawn(t) == {TopK(t)[k] : k \in Lane}

\* A result row is the mixture the router asked for: each drawn expert is in it
\* once, by one arm, nothing else is, what the CPU added belongs to this
\* micro-batch, and its weights were normalised over the row's own draws.
ExactRow(t) ==
    /\ \A e \in Expert :
         IF e \in Drawn(t) THEN \E c \in Computed(out[t], e) : Computed(out[t], e) = {c}
                           ELSE Computed(out[t], e) = {}
    /\ out[t].cpu.act \in {"zero", "now"}
    /\ out[t].cpu.act = "now" => out[t].cpu.over = TopK(t)

\* llama-blobpager.h:20-21: "Every top-8 draw is computed exactly once: hits from
\* the pool, misses from the CPU tensor. Exact inference."
Exact == pc = "done" => \A t \in 1..CurRows : ExactRow(t)

\* Whatever the micro-batch sizes, the first row of a micro-batch is exact when
\* it drew an unpinned expert and the miss pass ran: its ids are read right and
\* its slot of the correction tensor is rewritten.
FirstRowExactOnMiss ==
    pc = "done" /\ il \in hybrid /\ Active /\ CurRows > 0 =>
        (MissLanes(il, TopK(1)) # {} => ExactRow(1))

\* What lets do_miss_pass skip zeroing: a layer whose flag is down has nothing in
\* the row a one-row micro-batch adds, also after a graph that failed halfway
\* between the miss pass and the add.
CleanMeansZero ==
    \A l \in HasPins : ~corr_dirty[l] => corr[l][1] = ZeroRow

\* What a pass over several rows does get right, whichever ids it reads: a row read
\* as missing is added this micro-batch's correction, and a row read as all hits
\* behind one read as missing is added nothing, though its slot may still have held
\* what an earlier micro-batch, of this graph or another, computed for that row.
RowAsRead(t) ==
    IF MissLanes(il, ReadIds(t)) # {}
    THEN out[t].cpu = Correction(il, ReadIds(t))
    ELSE t > 1 /\ MissLanes(il, ReadIds(t - 1)) # {} => out[t].cpu = ZeroRow

RowsAsRead ==
    pc = "done" /\ il \in hybrid /\ Active => \A t \in 1..CurRows : RowAsRead(t)

\* build_moe_ffn and cb_eval decide apart, at other times and from other data, and
\* the graph may be one that an earlier micro-batch built.  As long as the executor
\* has not given up they agree: the pass has been over every row of a layer whose
\* nodes read the pool, and over none of a layer whose nodes read every expert.
PassIffHybrid ==
    pc \in {"sum", "done"} /\ Active => row = IF il \in hybrid THEN CurRows + 1 ELSE 1
=============================================================================
