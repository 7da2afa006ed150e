------------------------------ MODULE Threadpool ------------------------------
(***************************************************************************)
(* The thread pool on which ggml's CPU backend computes graphs, those of   *)
(* the miss passes among them (ggml-cpu.c, built without OpenMP).          *)
(*                                                                         *)
(* Thread 0 is the caller: it makes calls on the pool and computes as one  *)
(* of its threads.  The workers poll for a new graph without the mutex,    *)
(* then sleep on the condition variable; they meet at a spinning barrier   *)
(* between nodes.  Steps are single accesses to what threads share, except *)
(* where the mutex makes a longer stretch atomic.  Memory is sequentially  *)
(* consistent here.                                                        *)
(***************************************************************************)
EXTENDS Naturals, Sequences, FiniteSets

CONSTANTS
    NThread,    \* threads of the pool
    Graph,      \* its nodes: "nop", "plain" (split by thread) or "mat" (in chunks)
    Chunks,     \* chunks of a matrix product, by size
    PerThread,  \* chunks per thread below which it is cut by thread instead; 4 in the code
    Requests,   \* thread counts that calls ask for
    Poll,       \* rounds of polling
    MaxGraph    \* bound: calls of ggml_graph_compute

Thread == 0..(NThread - 1)
Worker == 1..(NThread - 1)
Node   == 1..Len(Graph)

ASSUME SizeAssumption ==
    /\ NThread \in Nat \ {0} /\ Requests \subseteq Nat \ {0}
    /\ Graph \in Seq({"nop", "plain", "mat"})
    /\ Chunks \in Nat \ {0} /\ PerThread \in Nat \ {0}
    /\ Poll \in Nat /\ MaxGraph \in Nat

VARIABLES
    n_graph,           \* [count, n]: graphs kicked off, and threads of the last
    n_barrier, n_barrier_passed, current_chunk,
    stop, pause,
    abort,             \* the node that everyone stops before; 0: none
    ec,
    mutex,             \* who holds the mutex between two of its steps: a set, empty or of one
    waiting,           \* workers asleep on the condition variable
    pc,
    last_graph,        \* worker -> the n_graph it saw last
    polls,             \* worker -> rounds polled
    nth,               \* thread -> threads of its graph
    node_n,            \* thread -> the node it is at
    chunk,             \* thread -> its chunk
    n_passed,          \* thread -> n_barrier_passed when it came to the barrier
    back,              \* thread -> where the barrier lets it go
    done,              \* (parts of the nodes that have been computed)
    redone             \* (some part was computed twice)

shared == <<n_barrier, n_barrier_passed, current_chunk, abort, ec>>
signal == <<n_graph, stop, pause, mutex, waiting>>
watch  == <<last_graph, polls>>
local  == <<nth, node_n, chunk, n_passed, back>>
ghost  == <<done, redone>>
vars   == <<signal, shared, pc, watch, local, ghost>>

-----------------------------------------------------------------------------

NoGraph == [count |-> 0, n |-> 0]

Init ==
    /\ n_graph = NoGraph
    /\ n_barrier = 0 /\ n_barrier_passed = 0 /\ current_chunk = 0
    /\ stop = FALSE /\ pause \in BOOLEAN
    /\ abort = 0 /\ ec = "success"
    /\ mutex = {} /\ waiting = {}
    /\ pc = [t \in Thread |-> IF t = 0 THEN "call" ELSE "pause"]
    /\ last_graph = [w \in Worker |-> NoGraph] /\ polls = [w \in Worker |-> 0]
    /\ nth = [t \in Thread |-> 0] /\ node_n = [t \in Thread |-> 1]
    /\ chunk = [t \in Thread |-> 0] /\ n_passed = [t \in Thread |-> 0]
    /\ back = [t \in Thread |-> "end"]
    /\ done = {} /\ redone = FALSE

Goto(t, l) == pc' = [pc EXCEPT ![t] = l]

-----------------------------------------------------------------------------
(* The caller. *)

\* A call of ggml_graph_compute resets what the last one left
Compute ==
    /\ pc[0] = "call" /\ n_graph.count < MaxGraph
    /\ current_chunk' = 0 /\ abort' = 0 /\ ec' = "success"
    /\ done' = {}
    /\ Goto(0, "kickoff")
    /\ UNCHANGED <<signal, n_barrier, n_barrier_passed, watch, local, redone>>

\* (mutant: the new graph is announced without the mutex)
Kickoff_Unlocked ==
    /\ pc[0] = "kickoff"
    /\ \E r \in Requests :
         n_graph' = [count |-> n_graph.count + 1, n |-> IF r > NThread THEN NThread ELSE r]
    /\ Goto(0, "wake")
    /\ UNCHANGED <<stop, pause, mutex, waiting, shared, watch, local, ghost>>
\* Kickoff, under the mutex: the graph is announced with as many threads as there are ...
Kickoff ==
    /\ pc[0] = "kickoff" /\ mutex = {}
    /\ mutex' = {0}
    /\ \E r \in Requests :
         n_graph' = [count |-> n_graph.count + 1, n |-> IF r > NThread THEN NThread ELSE r]
    /\ Goto(0, "wake")
    /\ UNCHANGED <<stop, pause, waiting, shared, watch, local, ghost>>

\* (mutant: a paused pool is not resumed)
Wake_NoResume ==
    /\ pc[0] = "wake"
    /\ waiting' = {} /\ mutex' = mutex \ {0}
    /\ Goto(0, "start")
    /\ UNCHANGED <<n_graph, stop, pause, shared, watch, local, ghost>>
\* ... and the sleepers are woken, a paused pool resumed
Wake ==
    /\ pc[0] = "wake"
    /\ pause' = FALSE
    /\ waiting' = {} /\ mutex' = mutex \ {0}
    /\ Goto(0, "start")
    /\ UNCHANGED <<n_graph, stop, shared, watch, local, ghost>>

\* ggml_threadpool_pause, ggml_threadpool_resume, between graphs
PauseResume ==
    /\ pc[0] = "call" /\ mutex = {}
    /\ pause' = ~pause
    /\ waiting' = {}
    /\ UNCHANGED <<n_graph, stop, mutex, shared, pc, watch, local, ghost>>

\* ggml_threadpool_free: stop, ...
Free ==
    /\ pc[0] = "call" /\ mutex = {}
    /\ stop' = TRUE /\ mutex' = {0}
    /\ Goto(0, "unpause")
    /\ UNCHANGED <<n_graph, pause, waiting, shared, watch, local, ghost>>

\* ... wake everybody ...
Unpause ==
    /\ pc[0] = "unpause"
    /\ pause' = FALSE /\ waiting' = {} /\ mutex' = mutex \ {0}
    /\ Goto(0, "join")
    /\ UNCHANGED <<n_graph, stop, shared, watch, local, ghost>>

\* ... join
Join ==
    /\ pc[0] = "join"
    /\ \A w \in Worker : pc[w] = "exited"
    /\ Goto(0, "freed")
    /\ UNCHANGED <<signal, shared, watch, local, ghost>>

-----------------------------------------------------------------------------
(* A worker between graphs. *)

\* w goes on at l without touching what graphs use; what it reads under the mutex it reads in
\* one step, taking the mutex along if it goes to sleep
Idle(w, l) ==
    /\ Goto(w, l)
    /\ mutex' = IF l \in {"nowork", "stillpaused"} THEN {w} ELSE mutex \ {w}
    /\ UNCHANGED <<n_graph, stop, pause, shared, local, ghost>>

\* The head of the pause loop
LookAtPause(w) ==
    /\ pc[w] = "pause"
    /\ Idle(w, IF pause THEN "paused" ELSE "stop")
    /\ UNCHANGED <<waiting, watch>>

Paused(w) ==
    /\ pc[w] = "paused" /\ mutex = {}
    /\ Idle(w, IF pause THEN "stillpaused" ELSE "pause")
    /\ UNCHANGED <<waiting, watch>>

Resumed(w) ==
    /\ pc[w] = "asleep" /\ w \notin waiting /\ mutex = {}
    /\ Idle(w, "pause")
    /\ UNCHANGED <<waiting, watch>>

LookAtStop(w) ==
    /\ pc[w] = "stop"
    /\ Idle(w, IF stop THEN "exited" ELSE "flags")
    /\ polls' = [polls EXCEPT ![w] = 0]
    /\ UNCHANGED <<waiting, last_graph>>

\* A round of polling reads the flags ...
PollFlags(w) ==
    /\ pc[w] = "flags"
    /\ Idle(w, IF stop \/ pause THEN "check" ELSE "graph")
    /\ UNCHANGED <<waiting, watch>>

\* ... and then the graph count; a new graph that does not need this worker ends the polling too
PollGraph(w) ==
    /\ pc[w] = "graph"
    /\ last_graph' = [last_graph EXCEPT ![w] = n_graph]
    /\ IF n_graph # last_graph[w]
       THEN /\ Idle(w, IF w < n_graph.n THEN "start" ELSE "check")
            /\ UNCHANGED polls
       ELSE /\ Idle(w, IF polls[w] < Poll THEN "flags" ELSE "check")
            /\ polls' = [polls EXCEPT ![w] = IF @ < Poll THEN @ + 1 ELSE @]
    /\ UNCHANGED waiting

\* (mutant: what was seen while polling is good enough to sleep on)
Check_SleepOnly(w) ==
    /\ pc[w] = "check" /\ w \notin waiting /\ mutex = {}
    /\ Idle(w, "nowork")
    /\ UNCHANGED <<waiting, watch>>
\* The same under the mutex, again after each wakeup
Check(w) ==
    /\ pc[w] = "check" /\ w \notin waiting /\ mutex = {}
    /\ IF stop \/ pause
       THEN Idle(w, "pause") /\ UNCHANGED last_graph
       ELSE /\ last_graph' = [last_graph EXCEPT ![w] = n_graph]
            /\ Idle(w, IF n_graph = last_graph[w] THEN "nowork"
                       ELSE IF w < n_graph.n THEN "start" ELSE "pause")
    /\ UNCHANGED <<waiting, polls>>

\* Nothing is to do: sleep on the condition variable, which lets go of the mutex
Sleep(w) ==
    /\ pc[w] \in {"nowork", "stillpaused"}
    /\ Idle(w, IF pc[w] = "nowork" THEN "check" ELSE "asleep")
    /\ waiting' = waiting \cup {w}
    /\ UNCHANGED watch

\* A condition variable may wake a sleeper for no reason
SpuriousWakeup(w) ==
    /\ w \in waiting
    /\ waiting' = waiting \ {w}
    /\ UNCHANGED <<n_graph, stop, pause, mutex, shared, pc, watch, local, ghost>>

-----------------------------------------------------------------------------
(* Any thread in a graph. *)

\* Chunks of a matrix product for n threads
NChunk(n) == IF Chunks < PerThread * n THEN n ELSE Chunks

\* What there is to compute of a node, for n threads; every thread prepares its part of a
\* matrix product's input before the chunks
Parts(i, n) ==
    CASE Graph[i] = "nop"   -> {}
      [] Graph[i] = "plain" -> {<<i, "part", t>> : t \in 0..(n - 1)}
      [] Graph[i] = "mat"   -> {<<i, "input", t>> : t \in 0..(n - 1)} \cup
                               {<<i, "chunk", c>> : c \in 0..(NChunk(n) - 1)}

ComputePart(p) ==
    /\ redone' = (redone \/ p \in done)
    /\ done' = done \cup {p}

Start(t) ==
    /\ pc[t] = "start"
    /\ nth' = [nth EXCEPT ![t] = n_graph.n]
    /\ node_n' = [node_n EXCEPT ![t] = 1]
    /\ Goto(t, "node")
    /\ UNCHANGED <<signal, shared, watch, chunk, n_passed, back, ghost>>

\* Barrier(t, b): t comes to the barrier, to go on at b
Barrier(t, b) ==
    /\ Goto(t, "barrier")
    /\ back' = [back EXCEPT ![t] = b]

\* (mutant: no barrier at the end)
NextNode_NoLastBarrier(t) ==
    /\ pc[t] = "node"
    /\ IF node_n[t] > Len(Graph) \/ abort = node_n[t]
       THEN Goto(t, IF t = 0 THEN "call" ELSE "pause") /\ UNCHANGED <<node_n, back>>
       ELSE IF Graph[node_n[t]] = "nop"
       THEN node_n' = [node_n EXCEPT ![t] = @ + 1] /\ UNCHANGED <<pc, back>>
       ELSE Goto(t, Graph[node_n[t]]) /\ UNCHANGED <<node_n, back>>
    /\ UNCHANGED <<signal, shared, watch, nth, chunk, n_passed, ghost>>
\* The head of the loop over the nodes
NextNode(t) ==
    /\ pc[t] = "node"
    /\ IF node_n[t] > Len(Graph) \/ abort = node_n[t]
       THEN Barrier(t, "end") /\ UNCHANGED node_n
       ELSE IF Graph[node_n[t]] = "nop"
       THEN node_n' = [node_n EXCEPT ![t] = @ + 1] /\ UNCHANGED <<pc, back>>
       ELSE Goto(t, Graph[node_n[t]]) /\ UNCHANGED <<node_n, back>>
    /\ UNCHANGED <<signal, shared, watch, nth, chunk, n_passed, ghost>>

Plain(t) ==
    /\ pc[t] = "plain"
    /\ ComputePart(<<node_n[t], "part", t>>)
    /\ Goto(t, "computed")
    /\ UNCHANGED <<signal, shared, watch, local>>

\* (mutant: the counter starts at 0, and the first chunks are handed out again)
MatInput_FromZero(t) ==
    /\ pc[t] = "mat"
    /\ ComputePart(<<node_n[t], "input", t>>)
    /\ current_chunk' = IF t = 0 THEN 0 ELSE current_chunk
    /\ chunk' = [chunk EXCEPT ![t] = t]
    /\ Barrier(t, "chunk")
    /\ UNCHANGED <<signal, n_barrier, n_barrier_passed, abort, ec, watch, nth, node_n, n_passed>>
\* A matrix product: the thread's part of the input; thread 0 sets the chunk counter
MatInput(t) ==
    /\ pc[t] = "mat"
    /\ ComputePart(<<node_n[t], "input", t>>)
    /\ current_chunk' = IF t = 0 THEN nth[t] ELSE current_chunk
    /\ chunk' = [chunk EXCEPT ![t] = t]
    /\ Barrier(t, "chunk")
    /\ UNCHANGED <<signal, n_barrier, n_barrier_passed, abort, ec, watch, nth, node_n, n_passed>>

\* A chunk, while there are any
Chunk(t) ==
    /\ pc[t] = "chunk"
    /\ IF chunk[t] < NChunk(nth[t])
       THEN /\ ComputePart(<<node_n[t], "chunk", chunk[t]>>)
            /\ Goto(t, IF nth[t] >= NChunk(nth[t]) THEN "computed" ELSE "grab")
       ELSE Goto(t, "computed") /\ UNCHANGED ghost
    /\ UNCHANGED <<signal, shared, watch, local>>

Grab(t) ==
    /\ pc[t] = "grab"
    /\ chunk' = [chunk EXCEPT ![t] = current_chunk]
    /\ current_chunk' = current_chunk + 1
    /\ Goto(t, "chunk")
    /\ UNCHANGED <<signal, n_barrier, n_barrier_passed, abort, ec, watch, nth, node_n, n_passed,
                   back, ghost>>

\* Thread 0 asks the abort callback
AskAbort(t) ==
    IF t = 0 THEN \/ UNCHANGED <<abort, ec>>
                  \/ abort' = node_n[t] + 1 /\ ec' = "aborted"
             ELSE UNCHANGED <<abort, ec>>

\* (mutant: no barrier after a node)
Computed_NoBarrier(t) ==
    /\ pc[t] = "computed"
    /\ AskAbort(t)
    /\ node_n' = [node_n EXCEPT ![t] = @ + 1]
    /\ Goto(t, "node")
    /\ UNCHANGED <<signal, n_barrier, n_barrier_passed, current_chunk, watch, nth, chunk, n_passed,
                   back, ghost>>
\* The node is computed as far as this thread is concerned; after the last there is no barrier
\* but the one at the end
Computed(t) ==
    /\ pc[t] = "computed"
    /\ AskAbort(t)
    /\ node_n' = [node_n EXCEPT ![t] = @ + 1]
    /\ IF node_n[t] < Len(Graph) THEN Barrier(t, "node") ELSE Goto(t, "node") /\ UNCHANGED back
    /\ UNCHANGED <<signal, n_barrier, n_barrier_passed, current_chunk, watch, nth, chunk, n_passed, ghost>>

Pass(t) ==
    Goto(t, IF back[t] # "end" THEN back[t] ELSE IF t = 0 THEN "call" ELSE "pause")

\* (mutant: the count of passings is not read anew)
AtBarrier_Unread(t) ==
    /\ pc[t] = "barrier"
    /\ IF n_graph.n = 1 THEN Pass(t) ELSE Goto(t, "arrive")
    /\ UNCHANGED <<signal, shared, watch, local, ghost>>
\* ggml_barrier: how many threads there are, and how often the barrier was passed ...
AtBarrier(t) ==
    /\ pc[t] = "barrier"
    /\ IF n_graph.n = 1 THEN Pass(t) /\ UNCHANGED n_passed
       ELSE n_passed' = [n_passed EXCEPT ![t] = n_barrier_passed] /\ Goto(t, "arrive")
    /\ UNCHANGED <<signal, shared, watch, nth, node_n, chunk, back, ghost>>

\* ... then the thread is counted; the last one resets the count ...
Arrive(t) ==
    /\ pc[t] = "arrive"
    /\ n_barrier' = n_barrier + 1
    /\ Goto(t, IF n_barrier = n_graph.n - 1 THEN "reset" ELSE "spin")
    /\ UNCHANGED <<signal, n_barrier_passed, current_chunk, abort, ec, watch, local, ghost>>

Reset(t) ==
    /\ pc[t] = "reset"
    /\ n_barrier' = 0
    /\ Goto(t, "release")
    /\ UNCHANGED <<signal, n_barrier_passed, current_chunk, abort, ec, watch, local, ghost>>

\* ... and lets the others go
Release(t) ==
    /\ pc[t] = "release"
    /\ n_barrier_passed' = n_barrier_passed + 1
    /\ Pass(t)
    /\ UNCHANGED <<signal, n_barrier, current_chunk, abort, ec, watch, local, ghost>>

Spin(t) ==
    /\ pc[t] = "spin"
    /\ n_barrier_passed # n_passed[t]
    /\ Pass(t)
    /\ UNCHANGED <<signal, shared, watch, local, ghost>>

-----------------------------------------------------------------------------

InGraph(t) ==
    \/ Start(t) \/ NextNode(t) \/ Plain(t) \/ MatInput(t) \/ Chunk(t) \/ Grab(t) \/ Computed(t)
    \/ AtBarrier(t) \/ Arrive(t) \/ Reset(t) \/ Release(t) \/ Spin(t)

BetweenGraphs(w) ==
    \/ LookAtPause(w) \/ Paused(w) \/ Resumed(w) \/ LookAtStop(w)
    \/ PollFlags(w) \/ PollGraph(w) \/ Check(w) \/ Sleep(w)

Work(w) == InGraph(w) \/ BetweenGraphs(w)

\* What the caller's thread does once a call is made
InCall == Kickoff \/ Wake \/ InGraph(0) \/ Unpause \/ Join

Next ==
    \/ Compute \/ PauseResume \/ Free
    \/ InCall
    \/ \E w \in Worker : Work(w) \/ SpuriousWakeup(w)

\* A thread that can run does, and one that waits for a mutex which is free again and again gets
\* it; what calls the program makes is its own affair
Fairness == SF_vars(InCall) /\ \A w \in Worker : SF_vars(Work(w))

Spec == Init /\ [][Next]_vars /\ Fairness

-----------------------------------------------------------------------------
(* Properties *)

Places == {"start", "node", "plain", "mat", "chunk", "grab", "computed",
           "barrier", "arrive", "reset", "release", "spin"}

\* Types, and who holds the mutex.
TypeOK ==
    /\ n_graph \in [count : 0..MaxGraph, n : 0..NThread]
    /\ n_barrier \in 0..NThread /\ n_barrier_passed \in Nat /\ current_chunk \in Nat
    /\ stop \in BOOLEAN /\ pause \in BOOLEAN
    /\ abort \in 0..(Len(Graph) + 1) /\ ec \in {"success", "aborted"}
    /\ mutex = {t \in Thread : pc[t] \in {"wake", "unpause", "nowork", "stillpaused"}}
    /\ waiting \subseteq {w \in Worker : pc[w] \in {"asleep", "check"}}
    /\ pc[0] \in Places \cup {"call", "kickoff", "wake", "unpause", "join", "freed"}
    /\ \A w \in Worker :
         /\ pc[w] \in Places \cup {"pause", "paused", "asleep", "stop", "flags", "graph", "check",
                                 "nowork", "stillpaused", "exited"}
         /\ last_graph[w].count \in 0..n_graph.count
         /\ polls[w] \in 0..Poll
    /\ \A t \in Thread :
         /\ nth[t] \in 0..NThread /\ node_n[t] \in 1..(Len(Graph) + 1)
         /\ n_passed[t] \in 0..n_barrier_passed
         /\ back[t] \in {"node", "chunk", "end"}
         /\ chunk[t] \in Nat

Finished(i) == n_graph.n > 0 /\ Parts(i, n_graph.n) \subseteq done

\* Every part of every node is computed at most once, by whichever thread got it.
EachPartOnce == ~redone

\* Nothing of a node is computed before all of the nodes before it are, and no chunk of a matrix
\* product before all of its input is, whatever threads are slow.
InputsComputed ==
    pc[0] \notin {"kickoff"} =>
        \A p \in done :
            /\ \A i \in 1..(p[1] - 1) : Finished(i)
            /\ p[2] = "chunk" => \A t \in 0..(n_graph.n - 1) : <<p[1], "input", t>> \in done

\* ggml-cpu.c:3419, "No worker threads should be accessing the parameters below at this stage": while
\* the caller is outside a graph, no worker is in one, save on its way out of the last barrier.
NoStragglers ==
    pc[0] \in {"call", "kickoff", "unpause", "join", "freed"} =>
        \A w \in Worker : pc[w] \in Places => pc[w] = "spin" /\ back[w] = "end" /\ n_passed[w] # n_barrier_passed

\* No wakeup is lost: unless the caller is about to broadcast, a worker asleep for want of work has
\* seen the last graph announced, and nobody sleeps in a pool that is to stop, or on a pause that is
\* over.
NobodySleepsThrough ==
    0 \notin mutex =>
        \A w \in waiting :
            /\ ~stop
            /\ pc[w] = "check" => last_graph[w] = n_graph /\ ~pause
            /\ pc[w] = "asleep" => pause

\* The nodes that compute something
Real == {i \in Node : Graph[i] # "nop"}

\* The pool implements computing node after node, all of them or, aborted, those in front.
Running == pc[0] \in Places \cup {"kickoff", "wake"}
Abstract == INSTANCE OrderedCompute WITH
    NReal    <- Cardinality(Real),
    running  <- Running,
    computed <- Cardinality({i \in Real : pc[0] # "kickoff" /\ \A j \in Real : j <= i => Finished(j)}),
    result   <- IF Running THEN "none" ELSE ec
ComputesInOrder == Abstract!Spec

\* A call of ggml_graph_compute returns, and so does ggml_threadpool_free, whichever workers
\* sleep, poll or are paused when it is made.
CallsReturn ==
    /\ (pc[0] \in Places \cup {"kickoff"}) ~> (pc[0] = "call")
    /\ stop ~> (pc[0] = "freed")
=============================================================================
