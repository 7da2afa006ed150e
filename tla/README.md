# A TLA+ development of blobpager

blobpager runs mixture-of-experts language models that do not fit in GPU memory.
A measured working set of *pinned* experts is copied into per-layer GPU pools; for
every token the router draws `n_used` experts per layer, the pool serves the pinned
ones (*hits*) inside the compute graph, and a callback of the ggml scheduler computes
the others (*misses*) on the CPU, writes their weighted sum into a *correction tensor*,
and the graph adds it. The header promises "Every top-8 draw is computed exactly once:
hits from the pool, misses from the CPU tensor. Exact inference."
(`src/llama.cpp/src/llama-blobpager.h:20-21`). This directory says what that promise
rests on, and where it stops.

Paths below are relative to `src/llama.cpp/` unless they start with `blobpager/`.

## 1. Inventory

| component | state | operations | interacts by |
|---|---|---|---|
| **Hybrid executor** `src/llama-blobpager.cpp`, the branch in `src/llama-graph.cpp:2115-2384` | one global `bp_state g`: per layer pins, `slot_of`, pools, `corr`, `corr_dirty`; `moe_in_stash`; `active`, `broken`, `attempted`; `norm_w`, `w_scale`; the user callback | `hybrid`, `remap`, `pool`, `correction_view` at graph build; `cb_eval` (ask / data) and `do_miss_pass` at evaluation | called by the graph builder and, as eval callback, by the scheduler; writes a device tensor the running graph will read |
| **Pool setup** `llama_blobpager_setup`, `parse_pins`, `selftest` | the same `g`, filled once | parse, bookkeeping, CPU tensors, allocation, fill, verification, activation | called once at the end of model loading (`src/llama-model.cpp:1883`); environment variables |
| **Micro-batch loop** `src/llama-context.cpp:1344-2000` | `gf_res_prev`, the scheduler's callback | `process_ubatch`: reuse or rebuild the graph, install the callback, compute; `decode` over the micro-batches | builds graphs, drives the scheduler |
| **Scheduler evaluation callback** `ggml/src/ggml-backend.cpp:1646-1846` | splits, node index | ask about every node, compute a range, synchronise, hand the node over; a false answer cancels | callback into the executor, which chains to the user's |
| **CPU thread pool** `ggml/src/ggml-cpu/ggml-cpu.c` | one pool per computation of a miss pass (or kept): graph count, barrier counters, chunk counter, abort, pause, stop, mutex and condition variable | compute, pause, resume, free; workers poll, sleep, compute, meet at the barrier | computes the CPU graphs of `do_miss_pass` |
| **Pager harness** `examples/blobpager-pager` | `pager_state`: pin lookups, request, chunk, phase counters | `pager_cb`, `fill_pool` with fallback, prefill and greedy generation | user callback; reads pins file and GGUF |
| **Trace harness** `examples/blobpager-trace` | `trace_state` | `trace_cb`, one decode per request | user callback; writes the trace |
| **Transfer benchmark** `examples/blobpager-bench` | none that survives a call | timed preads and uploads | pins file, GGUF |
| **Working-set simulator** `blobpager/tools/workset.py` | LRU cache per layer, top pins | LRU and static hit rates over a trace | reads the trace |
| **Pins pipeline** `blobpager/tools/blobpack_manifest.py`, `emit_pins.py` | none | tensor table and trace -> manifest -> pins file | files read by setup, pager and bench |
| **Logit comparison** `blobpager/tools/compare_logits.py` | none | compares two dumps | files the pager writes |
| GGUF tools, CPU miss benchmark, article | none | print, time, typeset | |
| Upstream llama.cpp / ggml | | | the engine underneath |

### Hard behaviours

- **The correction outlives the micro-batch.** `corr` is allocated once per layer and
  added by every hybrid graph. Whether a row that has no miss is zeroed depends on one
  flag per *layer*, while the tensor has one row per token of the micro-batch.
- **Two deciders.** The graph builder decides per layer and graph whether to take the
  hybrid branch (`llama_blobpager_hybrid` and the conditions after it); the callback
  decides again, by other conditions, at each top-k node whether to run a miss pass.
  They must agree across micro-batch sizes, graph reuse, and giving up in mid-graph.
- **The last layer is different.** It runs after `get_rows(inp_out_ids)`, so a long
  prefill chunk reaches it with one row or none, and takes the hybrid branch there only.
- **Strided views.** `ggml_argsort_top_k` returns a view of the argsort tensor, with that
  tensor's row stride; readers that copy it as if it were contiguous see the first row only.
- **Errors between write and use.** A backend error or an abort leaves a correction that
  was written and never added, and the graph is kept for reuse.
- **One global.** All contexts and models of the process share `g`.
- **Cancellation** by the user's callback reaches the rest of one split, not of the graph.
- **A pool of threads under every miss pass.** Workers decide without the mutex whether there
  is work, sleep under it, and meet at a barrier that is used again at once.
- **Tools that trust their input.** Tracer, ranking, pins file and simulator each take what the
  one before wrote, cut short or not.

The list with lines, and what covers each, is in `PROJECT.json` under `hazards`.

### What makes each component correct

- Executor: each drawn expert is in a layer's result once, by exactly one arm, with
  weights of this row and this micro-batch; giving up degrades to the ordinary graph.
- Setup: armed only when, in every listed layer that the model has, every slot of the pool is
  filled and slot table, pool and pins agree; a failed setup holds no device memory.
- Micro-batch loop: each context adds its own misses, computed from its own activation; its
  nodes never go to a callback that was handed over before its graph was built.
- Scheduler callback: data handed over is computed and synchronised; a miss pass happens
  before the node that adds its correction; a cancelled split computes nothing more.
- Thread pool: nodes are computed one after the other and once; no wakeup is lost; every
  call returns.
- Harnesses: each draw of each serving layer and token is counted once, in its phase.
- Simulator and pipeline: hit rates equal those of a reference cache and of the best pins;
  the pins file lists no layer and no expert twice.

## 2. Modules

| module | what it is |
|---|---|
| `Setup` | `llama_blobpager_setup`, from the pins file to an armed executor or one of the early returns |
| `HybridMoE` | the executor together with the loop that drives it, for one context: the core of the system |
| `SharedContexts` | several contexts over the one executor state |
| `EvalSched` | the scheduler's evaluation of one context's graphs, with the executor's wrapper as its callback and the user's behind it |
| `ObservedEval` | what an evaluation callback is promised; `EvalSched` implements it |
| `Threadpool` | the CPU thread pool, one shared access a step |
| `OrderedCompute` | what a caller of `ggml_graph_compute` may rely on; `Threadpool` implements it |
| `PagerHarness` | the pager harness: fill, prefill, generation, accounting |
| `RoutingTrace` | trace harness, ranking of the manifest, pins file |
| `Workset` | extends `RoutingTrace`: the simulator over the trace it wrote |
| `MC_*` | values of constants that a .cfg cannot write |
| `HybridMoE_proofs`, `EvalSched_proofs`, `Setup_proofs`, `SharedContexts_proofs`, `Threadpool_proofs`, `PagerHarness_proofs`, `RoutingTrace_proofs` | theorems about the module they are named after |
| `Workset_proofs` | extends `RoutingTrace_proofs`: LRU and pin rates, and where the calibration part ends |

How they fit together. `Setup` ends where `HybridMoE` begins: its `ActiveMeansReady` is what
`HybridMoE` takes for granted of pools, slot tables and pins. `HybridMoE` takes one step per
top-k stop and takes the order router, miss pass, add for granted; `EvalSched` has the nodes, splits
and ranges it comes from, and its `AddFollowsPass` and `ObservedOrder` say that it holds. In turn
`EvalSched` knows of a correction only which graph's miss pass wrote it. A row's CPU graph is one
step of `HybridMoE`; `Threadpool` is what happens in it, and `ComputesInOrder` says that
it may be taken for one step. `SharedContexts` has `HybridMoE`'s micro-batch with one row and one
stop per layer, several times. `RoutingTrace` writes the file that `Setup` reads, and `FileWellFormed`
says which of the files of `Setup`'s runs it can be.

### HybridMoE

Numbers are abstracted to *who computed what*. A lane is one draw of a row. The GPU arm
of a row is the set of lanes whose expert has a slot other than the zero slot; a
correction row is the set of lanes the CPU computed (which expert for which lane), the
draws its weights were normalised over, and its age: `zero`, `uninit` (never written),
`now` (this micro-batch) or `earlier`. That is enough to tell a correct sum from one
with a missing, doubled, foreign or stale term, and the floating-point values add
nothing to the control.

| model | code |
|---|---|
| `Pins`, `HasPins` | `bp_layer::pins`, `has_pins`, for the layers of the pins file |
| `Eligible` | the other conditions of the branch, `llama-graph.cpp:2120-2127`: they depend on the model only |
| `Walkable` | layers where `do_miss_pass` finds a softmax within five `src[0]` hops |
| `Shapes`, `shape`, `hybrid` | graph parameters and the branch decisions baked into the graph of `gf_res_prev` |
| `rank`, `TopK`, `ReadIds` | the argsort tensor, its top-k view, and the contiguous copy `tensor_read` makes of it |
| `corr`, `corr_dirty`, `moe_in_stash`, `broken` | the fields of those names |
| `ProcessUbatch`, `BuildFails` | `process_ubatch` up to the computation; equal shapes may still force a rebuild (attention inputs change), so reuse is a choice |
| `RouterTopK` | the scheduler up to a layer's top-k stop, with the stash made on the way |
| `MissPassRefused`, `MissRow`, `HitRow`, `MissPassDone` | `do_miss_pass`: its refusals, one turn of its loop over the rows with or without misses, its return |
| `SumExperts`, `NextLayer` | the nodes up to `ffn_moe_out`; the next layer or the end |
| `ComputeFails` | an error of the backend or an abort while a range of nodes is computed |

The miss pass is not interrupted by anything in one context: it runs inside the
callback. It is still one action per row, because the flag is read and written row by row.

Not in this module: the statistics, the user callback, the numerical weights, `norm_w`
and `w_scale` (set to the same values by every layer), the CPU context's 64 MiB limit
(eight draws need less than half of it), and refusals of `do_miss_pass` that cannot occur
once the graph has been allocated (null data; a softmax of another shape than the top-k
node it feeds). `ggml_init` asserts rather than returning null, so "cpu ctx init failed"
is not an outcome.

### EvalSched

A graph is its nodes in graph order, each with what the wrapper makes of its name: a stashed
activation (`moe_in`), a router's choice (`topk`), the add of a correction (`add`), or `plain`.
Which nodes end a split is the scheduler's affair: every graph takes any of a set of splittings.

| model | code |
|---|---|
| `splits`, `j0`, `j1`, `need` | the split at hand, the range of nodes and the last answer in `ggml_backend_sched_compute_splits`, with one numbering for all splits |
| `Start` | `process_ubatch` computing a graph, new or reused; the stash and the corrections of the last graph are now old |
| `AskMoeIn`, `Ask` | `callback_eval(t, true)`, through `llama_blobpager_cb_eval`; the range is widened or closed (`Widen`) |
| `RunNode`, `Synchronize` | the backend working through the range given to `compute_async`, node by node, and the wait for it |
| `ComputeFails` | a backend error or an abort in mid-range |
| `MissPass` | `do_miss_pass`, inside `callback_eval(t, false)` of the wrapper; it may refuse and set `broken` |
| `Tell`, `Cancel` | the user's callback on data, returning true or false; the loop goes on (`GoOnAfter`) or leaves the split |

The user's callback is the environment: it wants any nodes and, where `UserCancels`, returns
false when it likes. A program without a callback is covered by one that wants none and goes
on. (While the executor is active the wrapper is installed either way. Once it has given up
and a graph is rebuilt without a user callback, the scheduler runs whole splits without waiting for each;
nobody looks in between, so nothing below could tell.) Left out: copies of split inputs and
pipelining, which the callback does not see. `asked`, `wants`, `needed`, `told`,
`cancelled` and `used` are history: they record calls and what an add read.

Cancelling can drop a top-k node whose layer's add lies in a later split; that add reads what
an earlier graph's pass left. The order properties are therefore stated for
callbacks that do not cancel. Neither of blobpager's harnesses cancels.

### Setup

One action per stage of `llama_blobpager_setup`, loops one turn at a time, every early return
where it is: environment and file (`LoadFirst`), bookkeeping per entry (`BookEntry`, `BookDone`),
CPU tensors per layer (`TakeTensors`, `TensorsDone`), the one buffer (`AllocPools`, `AllocFails`),
fill, slot table and zeroing per layer (`FillLayer`), `Arm`, the CPU backend (`BackendReady`,
`BackendFails`). `LoadLater` and `FreeModel` are what else happens to models while `g` stays.
Early returns leave `has_pins`, `slot_of` and `cpu` as they are, and so does the model.
The file's layers are checked against `LLAMA_MAX_LAYERS` (`NLayer`), while `model.layers` has
`n_layer_all` entries (`NLayerAll`): a layer between the two is read behind the vector
(`src/llama-blobpager.cpp:222`, `src/llama-model.cpp:1562`). `TakenTensors` lets that read give
anything the walk can take it for, `PoolOf` fills such a layer's pool with `Stray` bytes, and
`Crash` may end the program wherever what was read is dereferenced. `Own` are the model's layers.
The read-back check has no action: it counts mismatches, logs them and arms.
`moe_in_stash`, `corr_dirty` and `broken` keep their initial values here.

### SharedContexts

Each context is at a place of its own micro-batch (`pc`, `il`); what they share is `corr`,
`corr_dirty`, `moe_in_stash`, `user_cb`, `broken`. A step is what a context does without
another getting in between: the stash at a router (`Route`), the stop with its pass
(`Tell`, `MissPass`, `MissPassRefused`, `NoPass`), the `Add`. A context's new graph
frees the tensors of its old one (`ForgetTensors`) and installs its callback
(`InstallCallback`, only at a build); `Recreate` is a context freed and made anew.
`newer` is history: for each context, those that handed `g` a callback after its graph was
built. `drew`, `read` and `told` speak of one layer and are forgotten behind it (`LeaveLayer`).
`Serialized` restricts the program to one decode at a time, `GraphReuse` is the engine's default.

### Threadpool

Thread 0 is the caller, the others are the workers of the pool. A step is one access to shared
state, or what happens under the mutex: `Kickoff`/`Wake`, `Check`/`Sleep`, `Paused`/`Resumed`
are two steps each because the mutex is visibly held between them. `waiting` is the condition
variable; `SpuriousWakeup` is what POSIX allows. The places of a thread (`pc`) follow
`ggml_graph_compute_secondary_thread` (`pause`, `stop`, `flags`, `graph`, `check`, ...) and
`ggml_graph_compute_thread` with `ggml_barrier` (`start`, `node`, ..., `arrive`, `reset`,
`release`, `spin`). A node does nothing, is split by thread, or is a matrix product: its
input converted by all, a barrier, chunks taken from the shared counter. The disposable pool
of a miss pass is a pool that computes one graph and is freed, one of the behaviours.

Memory is sequentially consistent in the model; the code uses relaxed accesses with fences in
the barrier. Left out: the OpenMP build, priorities and affinity, fused nodes, the wraparound of
the graph count packed in 16 bits (a worker would have to sleep through 65536 graphs).

### PagerHarness

`SkipCandidate`, `TryFill` and `RunCorpus` are the pool fill with its fallback counts (`ci` is the
index of the loop over the candidates, the first of which is the count asked for); `Request`, `EmptyLine`,
`Chunk`, `Generate`, `EndOfText` the main loop; `Route` the graph of a micro-batch reaching a
layer's top-k node, in which `PagerCb` counts and writes records; `DecodeReturns` the end of
`llama_decode` with `flush_ub`. `true_hits`, `fed` and `finished` are history.
`expected_tok`, `chunk_pos`, `in_decode` and the rest of `pager_state` have their code names.

### RoutingTrace and Workset

`Request`, `Ubatch`, `Route` with `TraceCb`, `DecodeFails` are the tracer; `Rank` is
`trace_pins` of `blobpack_manifest.py` over the trace as it stands, also after a failure; `EmitPins`
and `EmitAsserts` are `emit_pins.py`. A router's output is a ranking of all experts. `Ids` is what
`trace_cb` copies from it for a position: `n_used` consecutive ids of the argsort rows,
not of the view's. `InOrder` lists a set by a relation: `Ranked` is the sort of a layer's experts by
count, `Ascending` lists numbers by size, `Entries` the entries of the pins file by layer. `LineOf` and `Lengths` recover a request's line
and length from the corpus. `drawn` is history. `Simulate` is `workset.py`: `Stream` is
what `parse_trace` strings together for a layer, draw by draw; `Draw` is a turn of the LRU loop and `LruRun` the loop, `TopPins` is `Counter.most_common` with its tie-break by first occurrence, `CalDraws` the cut.
Rates are kept as hits per layer; `CAL_FRAC` = 0.30 is one request in `CalOf`.

## 3. Properties and runs

Runs that pass:

| run | instance | checks | shows |
|---|---|---|---|
| `one_row` | 2 layers with different pools, 3 experts, 2 draws; batches of 1 token with or without output, prefill of 3 with or without | `TypeOK`, `Exact` | in the use the repository validates (one sequence) the promise holds, over any sequence of hits, misses, prefill chunks, failed builds and failed computations |
| `few_rows` | pools of one and of two experts, batches of 2 tokens and chunks of 3 with one or two output rows, layer 1 not walkable, graphs reused or built anew | `FirstRowExactOnMiss`, `RowsAsRead`, `PassIffHybrid` | the part of the promise that survives several rows: the first row, and for the others that nothing stale is added behind a row with misses; graph and callback agree, while the executor is active, on which layers get a pass |
| `sched_observe` | 8 nodes, two layers of activation, top-k, product, add; one to three splits cut anywhere; any user wishes, no cancelling | `TypeOK`, `PassInputsReady`, `AddFollowsPass`, `TellsWhatWasWanted`, `ChainedButOwnNodes`, `ObservedOrder` | the miss pass finds this graph's activation and everything up to its router; each add reads this graph's pass until the executor gives up; the user gets what it wanted, and besides only the wrapper's own nodes; nodes are evaluated in order with a stop at every needed one |
| `sched_cancel` | the same with cancelling | `HandedOverSynced`, `CancelDropsSplit`, `GraphEnds` | what a callback is handed is computed and nothing behind it is; a cancelled split stays dropped; every started graph ends |
| `setup_files` | models of 2 layers where 3 may be listed, 3 experts; every file of one entry and many of two; a fit model, one with a tensor off the host, one without GPU; any loads and frees | `TypeOK`, `ActiveMeansReady`, `FailedHoldsNothing` | an active executor is consistent in every layer of the model it serves, duplicates, bad entries and layers that do not exist notwithstanding; a failed one holds no device memory |
| `shared_turns` | 3 contexts, 2 with a callback, 2 layers, taking turns, graphs reused or built anew | `TypeOK`, `OwnCorrection`, `OwnActivation`, `OwnOrNewerCallback` | each context adds its own misses or nothing; a pass never reads a stash that another graph left; a context's nodes go to no callback older than its graph |
| `workset_traces` | 3 layers, 4 experts, 2 draws, 2 rankings, corpora of up to three lines of 0 to 6 tokens, micro-batches of 2 | `TypeOK`, `WholeRequests`, `EachBlockNamesAll`, `FileWellFormed`, `RatesRight`, `CalSplitsRequests` | which requests and layers become records and what is written for a position; the pins file is well formed, also after a failure; LRU and pin rates are those of their definitions; the calibration cut ends at a request in every layer but the last, whose cut is the one thing that may crash the tool |
| `pager_counts` | 2 layers, 4 experts, pins with and without the last layer, prompts of several chunks, two continued requests | `TypeOK`, `RecordedOnce`, `CountedInPhase`, `OnlyLastLayerDropped`, `DecodeHitsTrue`, `FillsLargest` | each draw is recorded and counted once and in its phase; what is left out is the last layer's prefill; decode hits are true hits; the fill takes the largest count that fits |
| `threadpool_graphs` | 3 threads, nodes mat, nop, plain, 3 chunks, 2 calls of 1, 2 or 4 threads; aborts, pause, resume, free, spurious wakeups | `TypeOK`, `EachPartOnce`, `InputsComputed`, `NoStragglers`, `NobodySleepsThrough`, `ComputesInOrder`, `CallsReturn` | nodes are computed in order and once by any number of threads, no worker is left in a graph, no wakeup is lost, every call returns |

Runs that find a counterexample: `few_rows_exact`, `trace_most_drawn` and `trace_last_layer`,
one per finding below.

**Bounds.**

- *HybridMoE*: three experts with two draws give every combination of hit and miss for pools
  of two and of one expert, and a row always has an undrawn expert, so that a foreign term can
  be seen. Two layers are a first layer (all rows) and a last one (output rows), with different
  pools, so that a pass that used the other layer's table would be noticed. `MaxT` = 2 with
  batches of 1, 2 and 3 rows has a batch below, at and above the limit. In `few_rows` the chunks
  of 3 reach the last layer alone with one row or two, and layer 1 has the smaller pool.
  Runs are not bounded in length: every counter is a position in a finite thing. The ranking of the experts is
  chosen anew by every router: all strict orders.
- *EvalSched*: two layers show an add, a stash or a stop of one layer mixed up with the other's.
  Each layer has one node of every kind, so a range can begin or end at, before and after each.
  Three splits have a first, an inner and a last one; splits of one node and a router split
  from its add are among them. Graphs follow one another without limit.
- *Setup*: pin lists up to three slots hold the same expert twice, with another between, and ids
  just outside on both sides. Layers 0..4 are listed: 1 and 2 are the model's, 3 is below
  `LLAMA_MAX_LAYERS` and not the model's, 0 and 4 lie outside. One layer is in two entries. `ExpertRows` = 1 below `MaxT` = 2 is the zeroing that does not reach all rows.
- *SharedContexts*: two contexts with a callback can take each other's, the third has none to
  give back; two layers let a failure lie between passes. No bound on length.
- *Threadpool*: with three threads a graph may need one, two or all, and a worker that is not
  needed by one graph may be by the next; asking for 4 is more than there are. `MaxGraph` = 2
  calls is the bound of the state space: what a graph leaves behind meets the next. Three chunks over three threads leave
  threads with more than one chunk, or none; `PerThread` = 1 stands for the code's 4 and lets
  both ways of cutting a product occur. `Poll` = 0 goes to sleep at the first idle
  look; a longer poll only repeats a look.
- *PagerHarness, RoutingTrace, Workset*: micro-batches of 2 under requests of 1 to 5 tokens give
  chunks that are full, short, and of one row. Two rankings suffice to tell columns of one token
  from those of another; those of `Workset` draw an expert again after another, which tells LRU
  from first-in-first-out. Three layers are a first, an inner and a last one. Budgets 0 to 4 of 4 experts
  include none, fewer than and as many as are distinct. Lines of none, one, few tokens, of more than
  a micro-batch, a batch and a context are all there. A corpus ends.

**Fairness.** The properties of `HybridMoE`, `Setup`, `SharedContexts`, `RoutingTrace`, `Workset` and
`PagerHarness` are safety properties, and none is assumed there. `EvalSched`
assumes `WF_vars(Evaluate)`: the loop is one thread that never waits for another, a backend
finishes the range it was given or reports an error, and callbacks return. Starting a graph and
failing are left to chance. `GraphEnds` needs it. `Threadpool` assumes strong fairness of the
caller inside a call and of each worker: threads are scheduled, and a thread that
waits for a mutex which is released again and again gets it some time. Weak
fairness is not enough, since another thread may hold the mutex whenever one looks. Which calls
the program makes is left to chance; `CallsReturn` needs the fairness.

**Deadlock** is checked in `HybridMoE`, `EvalSched` and `SharedContexts`, whose systems never stop. `Setup`
stops only where it crashes behind the model's layers; otherwise models are loaded and freed without end. The
tracer and the pager end with their corpus, the pool with its free or its last call
(`MaxGraph`); in these and in `Setup`, `CHECK_DEADLOCK` is off, and for the pool `CallsReturn` says what matters.

### Findings

1. *Rows after the first are wrong* (`few_rows_exact`). The ids are copied from the top-k
   view as if it were contiguous (`src/llama-blobpager.cpp:512,563`). The view's rows are a
   whole argsort row apart (`ggml/src/ggml.c:5447-5452`), so row *t* gets columns
   `(t-1)*n_used..` of row 1. Its misses are then other experts than those the GPU
   arm left out. In `FirstRowExactOnMiss` and one-row use the mistake has no effect.
2. *The pins are not the experts drawn most* (`trace_most_drawn`). The tracer copies the same
   way (`examples/blobpager-trace/blobpager-trace.cpp:99,115`), so a trace lists, for every
   `n_expert / n_used` positions, all experts once, in the order of some token's ranking; counting them says
   next to nothing about draws (`EachBlockNamesAll`). The recorded traces show it: in
   `blobpager/data/trace-qwen-heldout.jsonl`, in every request and layer of 16 positions or more,
   positions 0..15 are a permutation of all 128 experts. What `blobpager/article/lab-log.md:42-45`
   takes for a property of the models, "routing near-uniform", "LRU pathological
   (stream is anti-recency)", is what such a listing looks like. `RatesRight` shows that
   the simulator itself is right about the stream it is given.
3. *The last layer gets no pins* (`trace_last_layer`). It keeps only the output rows
   (`src/models/qwen3moe.cpp:118-123`), one per request, and the tracer takes a one-row top-k of a
   longer request for an auxiliary head. `blobpager/tools/emit_pins.py:11-12` says that layer
   "never routes in serving".

Facts that no line of the repository contradicts, and that a reader of the code should know:

- `corr_dirty` is one flag for all rows of a layer: the first row without misses resets it, so the
  next such row of the same pass is not zeroed and a term of an earlier micro-batch may stay.
- The first zeroing writes at most one expert matrix's bytes (`src/llama-blobpager.cpp:306-307`):
  with a large `BLOBPAGER_MAXT` later rows start uninitialised. A row that had a miss is
  overwritten whole.
- `broken` is not a graph parameter, though "in order to correctly reuse a graph, it's full topology has
  to be uniquely determined by these parameters" (`src/llama-context.cpp:1355`). A hybrid graph can be
  reused after the callback stopped running miss passes (`src/llama-context.cpp:1358`); its misses
  are lost, in every context, until the shapes change. The layers left in the graph under way lose
  theirs too. `PassIffHybrid` and `OwnCorrection` hold up to that moment.
- The user callback is installed when a graph is built. With reuse, a context that decodes with an
  old graph reports to the callback of a context that built later, not to its own as the header
  says ("the user's callback is chained", `src/llama-blobpager.h:16`); `OwnOrNewerCallback` is what is left.
- `OwnCorrection` and `OwnActivation` are for decodes in turns. Nothing in `g` is locked, and two contexts
  that decode at once ("Runs inference in parallel on each context",
  `tests/test-thread-safety.cpp:4`) take each other's stashes and corrections.
- The pins file's layers are bounded by `LLAMA_MAX_LAYERS`, the model's vector of layers is shorter:
  a layer between the two is read out of range (`src/llama-blobpager.cpp:222`). The early return may
  catch it, the program may end, or a pool is filled with it that no graph reads.
- Returning false from a callback leaves one split's loop (`ggml/src/ggml-backend.cpp:1830`), while
  the header (`ggml/include/ggml-backend.h:314`) speaks of cancelling the graph computation.
- The wrapper answers for the activation nodes itself (`src/llama-blobpager.cpp:655-661`), so a
  user callback that wants `ffn_moe_in` nodes never sees them, and it passes its own stops on.
- A setup that fails after the bookkeeping leaves `has_pins` set; `active` stays false, and
  nothing else looks. The first load decides for the process, pins or no pins.
- The fill's verification decides nothing: mismatches are logged and the executor is armed.
- The pager's prefill counts of hits are of the wrong ids, as in finding 2 (every record from the second
  row of a micro-batch on); its decode counts are right (`DecodeHitsTrue`).
- An LRU rate jumps to 1.0 at as many slots as there are distinct experts: only there are
  first uses hits.
- `workset.py` divides by zero if the trace has the last layer's one-token requests and fewer of
  its draws than the calibration cut takes from the first layer.

## 4. Proofs

Checked by TLAPS for every value of the constants, under the assumptions stated with the
constants and those named in a theorem. TLC has checked each property on the runs above first.

### HybridMoE_proofs

For every number of layers, experts and draws, every pin table, every `BLOBPAGER_MAXT` and every
set of micro-batch shapes (`SizeAssumption`, `LayerAssumption`, `ShapeAssumption`).

- `TypeCorrect`: `Spec => []TypeOK`. `TypeOK` is not inductive: that a result row is typed
  needs the correction view to lie inside the tensor, so `TypeInv` adds `GraphInv`, that a
  layer the graph routes through the pools has pins and at most `MaxT` rows.
- `FirstRow`: `Spec => []FirstRowExactOnMiss`. `PassInv` says what a pass has done by the
  row it is at: the first row's slot holds `Correction(il, ReadIds(1))`, and
  `FirstRowRead` (a lemma on `ReadIds`) makes that `Correction(il, TopK(1))`.
- `ExactInOneRowUse`: `OneRowUse => (Spec => []Exact)`, with `CleanInOneRowUse` for
  `CleanMeansZero`. `OneRowUse` is the use the repository validates: micro-batches within
  `MaxT` have one row at most, pinned layers are eligible and walkable, and the first row was
  zeroed. `OneRowInv` links the flag with the row (`~corr_dirty[l] => corr[l][1] = ZeroRow`)
  in every state, the pass's progress, the stash with the row count, and
  `hybrid = {l : pinned, at most MaxT rows}` while a graph runs; the executor never gives up.
  `LanesMakeRowExact` turns "GPU has the lanes outside P, CPU those in P" into `ExactRow`.
- `RowsWritten`: `Spec => []RowsAsRead`. `RowsInv` says what the slots of the rows behind the pass' place hold
  (`SlotRight`), and that the flag is up right behind a row with misses, so that the next all-hit row is
  zeroed; both go from the pass to the sum. The lemma `PassRow` is one turn of the loop.
- `DecidersAgree`: `Spec => []PassIffHybrid`, with reuse, failures and giving up. `DecideInv` says that, while the
  executor is active, the graph that is kept has the branches that would be built for its shape now,
  that layers the branch refuses have no stash, and that a pass is under way only in an active
  executor. Within a micro-batch no step touches the graph (`SameGraph`).

### EvalSched_proofs

For every number of nodes, every kinds and layers of nodes, every set of splittings and every user
callback; the assumptions are `GraphAssumption` (a splitting maps each node to the last node of
its split) and `LayerAssumption` (a top-k node has its layer's activation before it, an add its
top-k node: the data flow of `build_moe_ffn`).

- `TypeCorrect`: `Spec => []TypeOK`, which says too that the range never leaves its split. It is
  inductive with the lemmas on what `Widen` and `GoOnAfter` do to the cursors.
- `HandedOver`, `CancelledSplit`: `Spec => []HandedOverSynced`, `Spec => []CancelDropsSplit`.
  Neither is inductive; `RangeInv` adds that nothing behind the range is computed and that
  cancelled nodes lie in splits before the range's.
- `ImplementsObserved`: without cancelling, `Spec => ObservedOrder`, a refinement with a lemma for
  each step (`ObservedStep`). `OrderInv` says that everything before the range is computed, that
  needed nodes before it have been handed over, and that none is inside it but its last.
- `PassIsReady`, `AddReadsThisPass`: without cancelling, `Spec => []PassInputsReady` and
  `Spec => []AddFollowsPass`. `LayerInv` says, while the executor is active, that each
  activation asked about is stashed, that no top-k node hides inside a range, and that the layers
  whose router is behind the range have this graph's correction. An add that is computed lies
  behind its router, which is then not in its range: the router closed an earlier one.
- `WishesGranted`: without cancelling, `Spec => []TellsWhatWasWanted`. `EndInv` adds that the
  wrapper passes every wish on; `OrderInv` has what is true when the last range is over.
- `Chained`: `Spec => []ChainedButOwnNodes`. `ChainInv` says that every node of the range up to
  the last answer was asked about or is an activation, and why the last one is needed.

### Setup_proofs

For every pins file, any models with up to `NLayer` layers, and any numbers of layers and experts; whatever
is read where the file lists layers that the model does not have.

- `TypeCorrect`, `NothingHeld`: `TypeInv` is `TypeOK`, `FlagInv` (which flags go with which stage:
  the buffer exists from the allocation on and in an active executor only) and `BookedRight`
  (`slot_of` is `SlotOf(pins)` in every layer with pins, and all pins are experts).
- `Ready`: `Spec => []ActiveMeansReady`. `StageInv` says how far the stage has come: which of the model's own
  listed layers have their tensors, which are filled, that an active executor has all of them. The lemma `Largest`
  (a non-empty set of slots has a last one, from the well-foundedness of the naturals) gives
  `SlotOf` its meaning when an expert is pinned twice: the slot table names a slot whose pool holds it.

### SharedContexts_proofs

For any set of contexts, any of them with callbacks, any number of layers.

- `TypeCorrect`: with `Serialized` it includes that one context is under way.
- `OwnMisses`: `Serialized => (Spec => []OwnCorrection)`, with or without graph reuse. `TurnInv`
  says that a layer whose flag is down has a zero row, and that what the one context under way
  put into `g` at one of its nodes is there at the next: its stash at the top-k node, its pass'
  row at the add.
- `OwnStash`: `Serialized => (Spec => []OwnActivation)`, from `TurnInv` too.
- `NoOlderCallback`: `Spec => []OwnOrNewerCallback`, with or without reuse and also for decodes at once.
  `CallbackInv` says that the callback in `g` is not older than any hybrid graph (`Current`), those kept
  and not running included: a reuse makes them run. Giving up freezes the callback, and graphs built
  from then on are plain.

### Threadpool_proofs

For every number of threads, every graph, every number of chunks, any calls for any numbers of
threads, every polling time, with aborts, pauses and spurious wakeups (`SizeAssumption`). `MaxGraph`
is any number.

- `Invariant`: `Spec => []Inv`, in layers that each use the ones before. `Shape` and `NodeInv` are
  types and the kind of node each place belongs to. `MutexInv` says who holds the mutex. `MemberInv`
  says who is in the graph announced last: the threads it is for, and, when it is over, no worker
  that it was for has still to see it. `BarrierInv` makes `n_barrier` the number of threads that wait,
  except between the two writes of the last to come, when all others wait there. `StageInv` is the key: a
  *stage* is what lies between two barriers, and all threads of a graph are in the same
  one, wherever in it. `EndInv` and `AbortInv` say at which node a thread stops for good.
- `TypeCorrect`, `CallerAlone`, `WakeupsKept`: `Spec => []TypeOK`, `[]NoStragglers`,
  `[]NobodySleepsThrough`. The first needs `MutexInv`, the second `MemberInv`; the third is inductive with
  what a worker has made sure of before it sleeps (`SleepInv`).
- `AllMeet`: `Spec => []BarrierMeets`: when the barrier is released, every other thread of the graph
  waits at it, at the same node and for the same part. It is what lets the barrier be entered again at once.
- `OrderInvariant`: `Spec => []OrderInv`. What is done follows from the stage: nodes before it are
  finished, parts of its own node are done by the threads that are past them (`DoneInv`). Each chunk
  below the shared counter is computed or held, and held by one thread (`ChunkInv`).
- `PartsOnce`, `NodesInOrder`: `Spec => []EachPartOnce`, `Spec => []InputsComputed`, from it.
- `Refinement`: `Spec => ComputesInOrder`. A step that finishes a node finishes the first that is not; a call
  that returns success has finished all of them.

### PagerHarness_proofs

For every corpus, every pins file of the model's layers and experts, every room for the pools,
every list of fallback counts, every size of micro-batch, batch and context.

- `Invariant`: `Spec => []Inv`. `FillInv` says that the candidates before `ci` were skipped or did not
  fit; `NamesInv` that a request's index is fresh, empty lines or not; `PlaceInv` where in a request
  the chunk is. `CountInv` ties a layer's draws to the tokens fed and to whether the layer has been
  passed in this micro-batch; `OutInv` says which positions the records of the request in flight have in
  each layer, and that those of finished requests are complete.
- `TypeCorrect`, `RecordsOnce`, `CountsInPhase`, `LastLayerOnly`, `DecodeHits`, `LargestFill`: the
  six properties of the run, from it. None but `FillsLargest` is close to inductive alone.
- Sums. `CountedInPhase` adds up sequences of any length with `FoldLeft`. That a sum changes as
  its terms do is an induction over the length; it is made by least counterexample: a set of
  naturals that is not empty has a least element, which needs no theorem with an operator parameter.

### RoutingTrace_proofs

For every corpus, any rankings of the experts, any numbers of layers, experts and draws, every size
of micro-batch, batch and context.

- `Invariant`: `Spec => []Inv`. `RecordsInv` says what the trace has of each request and layer: for
  finished requests and for layers the request in flight has passed, what `trace_cb` writes (all
  positions or none, and the ids from the rankings); for layers ahead, nothing. `SkipInv` counts what was
  left out; `ManifestInv` and `FileInv` carry the lists over to the pins file.
- `TypeCorrect`, `RequestsWhole`: `Spec => []TypeOK`, `Spec => []WholeRequests`.
- `BlocksNameAll`: `Spec => []EachBlockNamesAll`, the finding about the tracer for all sizes. A record's ids
  are consecutive places of a ranking, `NExpert / NUsed` records cover one ranking, and a
  ranking is onto the experts (`IdsInBlock`, `RowsWhole`, `Onto`).
- `WellFormed`: `Spec => []FileWellFormed`: ascending layers, each once, each with as many different experts as
  asked for, whether the trace is whole or cut short. `Listing` says that `InOrder` lists a finite set once and in
  order, if the relation orders it strictly; that the sort by counts and first places is such an order is shown.

### Workset_proofs

For every trace that the tracer can write, also when it failed, every set of budgets and any calibration
fraction that is one in a whole number (`BudgetAssumption`).

- `WorksetInvariant`: `WorksetSpec => [](Inv /\ SummaryInv)`. `SummaryInv` says that what is written is what
  the trace gives, the tool's failure included; the tracer makes no step after it.
- `RatesProved`: `WorksetSpec => []RatesRight`, from two results about any sequence of experts.
  *LRU.* `CacheInv` is the invariant of the loop after `i` draws: each expert in the cache has been drawn, and those behind
  it are exactly those drawn since; an expert drawn and not in the cache was pushed out by a full
  one of later draws. A turn of the loop keeps it (`CacheShifts`, `CacheGrows`, `DrawRight`), and it makes
  "in the cache" the same as a reuse distance below the budget (`ReusedIsHit`). With a slot for each expert, the
  draws that are no reuse are in bijection with the experts (`AllReused`).
  *Pins.* A set of experts serves no less than one that is no larger and has nothing more common (`Exchange`);
  `TopPins` without what a choice shares with it is such a set beside the rest of the choice (`TopPinsBest`).
- `CalSplitsProved`: `WorksetSpec => []CalSplitsRequests`, from the tracer's `RecordsInv`. Layers before the last have
  records of the same requests and positions (`LayersAlike`), and request and position tell a layer's records
  apart (`RecordsApart`). Where the tool completes, the cut is at a request that was finished (`CutWhole`).
  The last layer has no more records than any other (`LastIsShortest`), so if any layer is too short, it is.
- The loop is a recursive function; that it exists and what it gives at every step is, like the sums of
  `PagerHarness_proofs`, shown by least counterexample.

### Only model-checked

- `GraphEnds` and `CallsReturn`: liveness under fairness is out of the prover's reach.

The three runs that find a counterexample have none of their properties proved, of course.

## 5. Plan

1. A composition of `Setup` and `HybridMoE` in one specification, so that the pool tables `HybridMoE`
   has as a constant are those a setup made.

## 6. Not modelled

- *Transfer benchmark, CPU miss benchmark*: their result is a duration; they keep no state.
- *Logit comparison*: a loop over two vectors of floating-point numbers.
- *GGUF inspection tools, PDF tool, article*: stateless parsing, formatting and prose.
- *Offsets in manifest and pins file*: numbers copied from one file to another.
- *The rest of llama.cpp and ggml*: kernels, quantisation, GPU backends, tokenisers, sampling, the KV cache,
  servers and converters are vendored code, several hundred thousand lines that blobpager
  uses and does not change. They are modelled where the executor meets them:
  the scheduler's callback loop, the micro-batch loop, the CPU thread pool. Measured in lines the
  models cover a small part of the tree and nearly all the control of blobpager's own part of it.
- *Weak memory, NUMA and affinity, the OpenMP build* of the thread pool; *floating point* throughout.
