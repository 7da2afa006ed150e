--------------------------- MODULE Threadpool_proofs ---------------------------
(***************************************************************************)
(* Proofs about Threadpool, for every graph, every number of threads and   *)
(* chunks and whatever thread counts calls ask for: who is where, who      *)
(* sleeps and who is woken; then what is computed, when and by whom.       *)
(***************************************************************************)
EXTENDS Threadpool, FiniteSetTheorems, TLAPS

CallerPlaces == Places \cup {"call", "kickoff", "wake", "unpause", "join", "freed"}
WorkerPlaces == Places \cup {"pause", "paused", "asleep", "stop", "flags", "graph", "check",
                             "nowork", "stillpaused", "exited"}
AllPlaces    == CallerPlaces \cup WorkerPlaces
Barriers     == {"barrier", "arrive", "reset", "release", "spin"}
Holding      == {"wake", "unpause", "nowork", "stillpaused"}

LEMMA Sizes ==
    /\ NThread \in Nat \ {0} /\ 0 \in Thread /\ 0 \notin Worker /\ Worker \subseteq Thread
    /\ \A t \in Thread : t \in Nat /\ t < NThread /\ (t # 0 => t \in Worker)
    /\ Len(Graph) \in Nat /\ Poll \in Nat /\ MaxGraph \in Nat
    /\ \A i \in Node : i \in 1..(Len(Graph) + 1) /\ i \in Nat /\ Graph[i] \in {"nop", "plain", "mat"}
    /\ Requests \subseteq Nat \ {0}
<1>1. NThread \in Nat \ {0} /\ Poll \in Nat /\ MaxGraph \in Nat /\ Requests \subseteq Nat \ {0}
  BY SizeAssumption
<1>2. Graph \in Seq({"nop", "plain", "mat"})
  BY SizeAssumption
<1>3. Len(Graph) \in Nat /\ \A i \in Node : Graph[i] \in {"nop", "plain", "mat"}
  BY <1>2 DEF Node
<1> QED BY <1>1, <1>3 DEF Thread, Worker, Node

\* The steps there are, by who makes them.
LEMMA Steps ==
    ASSUME Next
    PROVE  \/ Compute \/ PauseResume \/ Free \/ Kickoff \/ Wake \/ Unpause \/ Join
           \/ \E t \in Thread : InGraph(t)
           \/ \E w \in Worker : BetweenGraphs(w) \/ SpuriousWakeup(w)
BY Sizes DEF Next, InCall, Work

-----------------------------------------------------------------------------
(* What a step does, thread by thread *)

IsMat(i) == Graph[i] = "mat"

\* What threads have of their own, as functions
LocalType ==
    /\ pc \in [Thread -> AllPlaces]
    /\ nth \in [Thread -> 0..NThread] /\ node_n \in [Thread -> 1..(Len(Graph) + 1)]
    /\ chunk \in [Thread -> Nat] /\ n_passed \in [Thread -> Nat]
    /\ back \in [Thread -> {"node", "chunk", "end"}]

\* The node a thread is at, by its place
NodeInv == \A t \in Thread :
    /\ pc[t] = "plain" => node_n[t] \in Node /\ Graph[node_n[t]] = "plain"
    /\ pc[t] \in {"mat", "chunk", "grab"} => node_n[t] \in Node /\ IsMat(node_n[t])
    /\ pc[t] = "computed" => node_n[t] \in Real
    /\ pc[t] \in Barriers /\ back[t] = "chunk" => node_n[t] \in Node /\ IsMat(node_n[t])
    /\ pc[t] \in Barriers /\ back[t] = "node" => node_n[t] \in Node /\ node_n[t] - 1 \in Real

Kept(u) ==
    /\ pc'[u] = pc[u] /\ nth'[u] = nth[u] /\ node_n'[u] = node_n[u]
    /\ chunk'[u] = chunk[u] /\ n_passed'[u] = n_passed[u] /\ back'[u] = back[u]

\* t goes to l
Goes(t, l) ==
    /\ pc' \in [Thread -> AllPlaces] /\ pc'[t] = l
    /\ \A u \in Thread \ {t} : pc'[u] = pc[u]

\* A step of t in a graph: t is at l afterwards, with this for nth, node_n, ...
Becomes(t, l, m, k, c, p, b) ==
    /\ LocalType'
    /\ pc'[t] = l /\ nth'[t] = m /\ node_n'[t] = k
    /\ chunk'[t] = c /\ n_passed'[t] = p /\ back'[t] = b
    /\ \A u \in Thread \ {t} : Kept(u)
    /\ UNCHANGED <<n_graph, stop, pause, mutex, waiting, last_graph, polls>>

LEMMA GotoGoes ==
    ASSUME LocalType, NEW t \in Thread, NEW l \in AllPlaces, Goto(t, l)
    PROVE  Goes(t, l)
BY DEF LocalType, Goto, Goes

LEMMA StartStep ==
    ASSUME LocalType, n_graph.n \in 0..NThread, NEW t \in Thread, Start(t)
    PROVE  /\ pc[t] = "start" /\ UNCHANGED <<shared, ghost>>
           /\ Becomes(t, "node", n_graph.n, 1, chunk[t], n_passed[t], back[t])
<1>1. Goes(t, "node")
  BY GotoGoes DEF Start, AllPlaces, CallerPlaces, Places
<1>2. 1 \in 1..(Len(Graph) + 1)
  BY Sizes
<1> QED BY <1>1, <1>2 DEF Start, Becomes, Goes, Kept, LocalType, signal, watch

LEMMA NextNodeStep ==
    ASSUME LocalType, NEW t \in Thread, NextNode(t)
    PROVE  /\ pc[t] = "node" /\ UNCHANGED <<shared, ghost>>
           /\ \/ /\ node_n[t] = Len(Graph) + 1 \/ abort = node_n[t]
                 /\ Becomes(t, "barrier", nth[t], node_n[t], chunk[t], n_passed[t], "end")
              \/ /\ node_n[t] \in Node /\ abort # node_n[t] /\ Graph[node_n[t]] = "nop"
                 /\ Becomes(t, "node", nth[t], node_n[t] + 1, chunk[t], n_passed[t], back[t])
              \/ /\ node_n[t] \in Real /\ abort # node_n[t]
                 /\ Becomes(t, Graph[node_n[t]], nth[t], node_n[t], chunk[t], n_passed[t], back[t])
<1>1. pc[t] = "node" /\ UNCHANGED <<shared, ghost>>
  BY DEF NextNode
<1>0. UNCHANGED <<signal, watch, nth, chunk, n_passed>>
  BY DEF NextNode
<1>5. node_n[t] <= Len(Graph) => ~(node_n[t] > Len(Graph))
  <2>1. node_n[t] \in Nat /\ Len(Graph) \in Nat
    BY Sizes DEF LocalType
  <2> QED BY <2>1
<1>2. CASE node_n[t] > Len(Graph) \/ abort = node_n[t]
  <2>1. Goto(t, "barrier") /\ back' = [back EXCEPT ![t] = "end"] /\ node_n' = node_n
    BY <1>2 DEF NextNode, Barrier
  <2>2. Goes(t, "barrier")
    BY <2>1, GotoGoes DEF AllPlaces, CallerPlaces, Places
  <2>3. node_n[t] = Len(Graph) + 1 \/ abort = node_n[t]
    BY <1>2, Sizes DEF LocalType
  <2> QED BY <1>0, <1>1, <2>1, <2>2, <2>3 DEF Becomes, Goes, Kept, LocalType, signal, watch
<1>3. CASE node_n[t] <= Len(Graph) /\ abort # node_n[t] /\ Graph[node_n[t]] = "nop"
  <2>1. node_n' = [node_n EXCEPT ![t] = @ + 1] /\ UNCHANGED <<pc, back>>
    BY <1>3, <1>5 DEF NextNode
  <2>2. node_n[t] \in Node /\ node_n[t] + 1 \in 1..(Len(Graph) + 1)
    <3>1. node_n[t] \in 1..(Len(Graph) + 1) /\ Len(Graph) \in Nat
      BY Sizes DEF LocalType
    <3> QED BY <1>3, <3>1 DEF Node
  <2>3. node_n' \in [Thread -> 1..(Len(Graph) + 1)] /\ node_n'[t] = node_n[t] + 1
        /\ \A u \in Thread \ {t} : node_n'[u] = node_n[u]
    BY <2>1, <2>2 DEF LocalType
  <2> QED BY <1>0, <1>1, <1>3, <2>1, <2>2, <2>3 DEF Becomes, Kept, LocalType, signal, watch
<1>4. CASE node_n[t] <= Len(Graph) /\ abort # node_n[t] /\ Graph[node_n[t]] # "nop"
  <2>1. Goto(t, Graph[node_n[t]]) /\ UNCHANGED <<node_n, back>>
    BY <1>4, <1>5 DEF NextNode
  <2>2. node_n[t] \in Real
    BY <1>4, Sizes DEF LocalType, Node, Real
  <2>3. Goes(t, Graph[node_n[t]])
    BY <1>4, <2>1, <2>2, GotoGoes, Sizes DEF AllPlaces, CallerPlaces, Places, Real
  <2> QED BY <1>0, <1>1, <1>4, <2>1, <2>2, <2>3 DEF Becomes, Goes, Kept, LocalType, signal, watch
<1> QED BY <1>2, <1>3, <1>4, Sizes DEF LocalType

LEMMA PlainStep ==
    ASSUME LocalType, NEW t \in Thread, Plain(t)
    PROVE  /\ pc[t] = "plain" /\ UNCHANGED shared /\ ComputePart(<<node_n[t], "part", t>>)
           /\ Becomes(t, "computed", nth[t], node_n[t], chunk[t], n_passed[t], back[t])
<1>1. Goes(t, "computed")
  BY GotoGoes DEF Plain, AllPlaces, CallerPlaces, Places
<1> QED BY <1>1 DEF Plain, Becomes, Goes, Kept, LocalType, signal, watch, local

LEMMA MatInputStep ==
    ASSUME LocalType, NEW t \in Thread, MatInput(t)
    PROVE  /\ pc[t] = "mat" /\ UNCHANGED <<n_barrier, n_barrier_passed, abort, ec>>
           /\ ComputePart(<<node_n[t], "input", t>>)
           /\ current_chunk' = IF t = 0 THEN nth[t] ELSE current_chunk
           /\ Becomes(t, "barrier", nth[t], node_n[t], t, n_passed[t], "chunk")
<1>1. Goes(t, "barrier") /\ t \in Nat
  BY GotoGoes, Sizes DEF MatInput, Barrier, AllPlaces, CallerPlaces, Places
<1> QED BY <1>1 DEF MatInput, Barrier, Becomes, Goes, Kept, LocalType, signal, watch

LEMMA ChunkStep ==
    ASSUME LocalType, NEW t \in Thread, Chunk(t)
    PROVE  /\ pc[t] = "chunk" /\ UNCHANGED shared
           /\ \/ /\ chunk[t] < NChunk(nth[t]) /\ ComputePart(<<node_n[t], "chunk", chunk[t]>>)
                 /\ \E l \in {"computed", "grab"} :
                      /\ l = IF nth[t] >= NChunk(nth[t]) THEN "computed" ELSE "grab"
                      /\ Becomes(t, l, nth[t], node_n[t], chunk[t], n_passed[t], back[t])
              \/ /\ ~(chunk[t] < NChunk(nth[t])) /\ UNCHANGED ghost
                 /\ Becomes(t, "computed", nth[t], node_n[t], chunk[t], n_passed[t], back[t])
<1> DEFINE l == IF chunk[t] < NChunk(nth[t]) /\ ~(nth[t] >= NChunk(nth[t])) THEN "grab" ELSE "computed"
<1>1. Goto(t, l) /\ l \in AllPlaces
  BY DEF Chunk, AllPlaces, CallerPlaces, Places
<1>2. Goes(t, l)
  BY <1>1, GotoGoes
<1>3. Becomes(t, l, nth[t], node_n[t], chunk[t], n_passed[t], back[t])
  BY <1>2 DEF Chunk, Becomes, Goes, Kept, LocalType, signal, watch, local
<1>4. pc[t] = "chunk" /\ UNCHANGED shared
  BY DEF Chunk
<1>5. IF chunk[t] < NChunk(nth[t]) THEN ComputePart(<<node_n[t], "chunk", chunk[t]>>) ELSE UNCHANGED ghost
  BY DEF Chunk
<1> QED BY <1>3, <1>4, <1>5

LEMMA GrabStep ==
    ASSUME LocalType, current_chunk \in Nat, NEW t \in Thread, Grab(t)
    PROVE  /\ pc[t] = "grab" /\ UNCHANGED <<n_barrier, n_barrier_passed, abort, ec, ghost>>
           /\ current_chunk' = current_chunk + 1
           /\ Becomes(t, "chunk", nth[t], node_n[t], current_chunk, n_passed[t], back[t])
<1>1. Goes(t, "chunk")
  BY GotoGoes DEF Grab, AllPlaces, CallerPlaces, Places
<1> QED BY <1>1 DEF Grab, Becomes, Goes, Kept, LocalType, signal, watch

LEMMA ComputedStep ==
    ASSUME LocalType, NodeInv, NEW t \in Thread, Computed(t)
    PROVE  /\ pc[t] = "computed" /\ UNCHANGED <<n_barrier, n_barrier_passed, current_chunk, ghost>>
           /\ \/ UNCHANGED <<abort, ec>>
              \/ t = 0 /\ abort' = node_n[t] + 1 /\ ec' = "aborted"
           /\ \/ /\ node_n[t] < Len(Graph)
                 /\ Becomes(t, "barrier", nth[t], node_n[t] + 1, chunk[t], n_passed[t], "node")
              \/ /\ node_n[t] = Len(Graph)
                 /\ Becomes(t, "node", nth[t], node_n[t] + 1, chunk[t], n_passed[t], back[t])
<1>1. /\ pc[t] = "computed" /\ UNCHANGED <<n_barrier, n_barrier_passed, current_chunk, ghost>>
      /\ UNCHANGED <<signal, watch, nth, chunk, n_passed>> /\ node_n' = [node_n EXCEPT ![t] = @ + 1]
  BY DEF Computed
<1>2. UNCHANGED <<abort, ec>> \/ (t = 0 /\ abort' = node_n[t] + 1 /\ ec' = "aborted")
  BY DEF Computed, AskAbort
<1>3. node_n[t] \in Real /\ node_n[t] + 1 \in 1..(Len(Graph) + 1)
  BY <1>1, Sizes DEF NodeInv, Real, Node
<1>4. CASE node_n[t] < Len(Graph)
  <2>1. Goto(t, "barrier") /\ back' = [back EXCEPT ![t] = "node"]
    BY <1>4 DEF Computed, Barrier
  <2>2. Goes(t, "barrier")
    BY <2>1, GotoGoes DEF AllPlaces, CallerPlaces, Places
  <2>3. Becomes(t, "barrier", nth[t], node_n[t] + 1, chunk[t], n_passed[t], "node")
    BY <1>1, <1>3, <2>1, <2>2 DEF Becomes, Goes, Kept, LocalType, signal, watch
  <2> QED BY <1>1, <1>2, <1>4, <2>3
<1>5. CASE ~(node_n[t] < Len(Graph))
  <2>1. Goto(t, "node") /\ back' = back
    BY <1>5 DEF Computed, Barrier
  <2>2. Goes(t, "node")
    BY <2>1, GotoGoes DEF AllPlaces, CallerPlaces, Places
  <2>3. Becomes(t, "node", nth[t], node_n[t] + 1, chunk[t], n_passed[t], back[t])
    BY <1>1, <1>3, <2>1, <2>2 DEF Becomes, Goes, Kept, LocalType, signal, watch
  <2>4. node_n[t] = Len(Graph)
    BY <1>3, <1>5, Sizes DEF Real, Node
  <2> QED BY <1>1, <1>2, <2>3, <2>4
<1> QED BY <1>4, <1>5

\* Where a thread goes from the barrier
BackTo(t) == IF back[t] # "end" THEN back[t] ELSE IF t = 0 THEN "call" ELSE "pause"

LEMMA BackToPlace == ASSUME LocalType, NEW t \in Thread PROVE BackTo(t) \in AllPlaces
BY DEF BackTo, LocalType, AllPlaces, CallerPlaces, WorkerPlaces, Places

LEMMA AtBarrierStep ==
    ASSUME LocalType, n_barrier_passed \in Nat, NEW t \in Thread, AtBarrier(t)
    PROVE  /\ pc[t] = "barrier" /\ UNCHANGED <<shared, ghost>>
           /\ \/ /\ n_graph.n = 1
                 /\ Becomes(t, BackTo(t), nth[t], node_n[t], chunk[t], n_passed[t], back[t])
              \/ /\ n_graph.n # 1
                 /\ Becomes(t, "arrive", nth[t], node_n[t], chunk[t], n_barrier_passed, back[t])
<1>1. /\ pc[t] = "barrier" /\ UNCHANGED <<shared, ghost>>
      /\ UNCHANGED <<signal, watch, nth, node_n, chunk, back>>
  BY DEF AtBarrier
<1>2. CASE n_graph.n = 1
  <2>1. Goto(t, BackTo(t)) /\ n_passed' = n_passed
    BY <1>2 DEF AtBarrier, Pass, BackTo
  <2>2. Goes(t, BackTo(t))
    BY <2>1, GotoGoes, BackToPlace
  <2>3. Becomes(t, BackTo(t), nth[t], node_n[t], chunk[t], n_passed[t], back[t])
    BY <1>1, <2>1, <2>2 DEF Becomes, Goes, Kept, LocalType, signal, watch
  <2> QED BY <1>1, <1>2, <2>3
<1>3. CASE n_graph.n # 1
  <2>1. Goto(t, "arrive") /\ n_passed' = [n_passed EXCEPT ![t] = n_barrier_passed]
    BY <1>3 DEF AtBarrier
  <2>2. Goes(t, "arrive")
    BY <2>1, GotoGoes DEF AllPlaces, CallerPlaces, Places
  <2>3. Becomes(t, "arrive", nth[t], node_n[t], chunk[t], n_barrier_passed, back[t])
    BY <1>1, <2>1, <2>2 DEF Becomes, Goes, Kept, LocalType, signal, watch
  <2> QED BY <1>1, <1>3, <2>3
<1> QED BY <1>2, <1>3

LEMMA ArriveStep ==
    ASSUME LocalType, NEW t \in Thread, Arrive(t)
    PROVE  /\ pc[t] = "arrive" /\ UNCHANGED <<n_barrier_passed, current_chunk, abort, ec, ghost>>
           /\ n_barrier' = n_barrier + 1
           /\ \E l \in {"reset", "spin"} :
                /\ l = IF n_barrier = n_graph.n - 1 THEN "reset" ELSE "spin"
                /\ Becomes(t, l, nth[t], node_n[t], chunk[t], n_passed[t], back[t])
<1> DEFINE l == IF n_barrier = n_graph.n - 1 THEN "reset" ELSE "spin"
<1>1. Goto(t, l) /\ l \in AllPlaces
  BY DEF Arrive, AllPlaces, CallerPlaces, Places
<1>2. Goes(t, l)
  BY <1>1, GotoGoes
<1>3. Becomes(t, l, nth[t], node_n[t], chunk[t], n_passed[t], back[t])
  BY <1>2 DEF Arrive, Becomes, Goes, Kept, LocalType, signal, watch, local
<1> QED BY <1>3 DEF Arrive

LEMMA ResetStep ==
    ASSUME LocalType, NEW t \in Thread, Reset(t)
    PROVE  /\ pc[t] = "reset" /\ UNCHANGED <<n_barrier_passed, current_chunk, abort, ec, ghost>>
           /\ n_barrier' = 0
           /\ Becomes(t, "release", nth[t], node_n[t], chunk[t], n_passed[t], back[t])
<1>1. Goes(t, "release")
  BY GotoGoes DEF Reset, AllPlaces, CallerPlaces, Places
<1> QED BY <1>1 DEF Reset, Becomes, Goes, Kept, LocalType, signal, watch, local

LEMMA ReleaseStep ==
    ASSUME LocalType, NEW t \in Thread, Release(t)
    PROVE  /\ pc[t] = "release" /\ UNCHANGED <<n_barrier, current_chunk, abort, ec, ghost>>
           /\ n_barrier_passed' = n_barrier_passed + 1
           /\ Becomes(t, BackTo(t), nth[t], node_n[t], chunk[t], n_passed[t], back[t])
<1>1. Goes(t, BackTo(t))
  BY GotoGoes, BackToPlace DEF Release, Pass, BackTo
<1> QED BY <1>1 DEF Release, Becomes, Goes, Kept, LocalType, signal, watch, local

LEMMA SpinStep ==
    ASSUME LocalType, NEW t \in Thread, Spin(t)
    PROVE  /\ pc[t] = "spin" /\ n_passed[t] # n_barrier_passed /\ UNCHANGED <<shared, ghost>>
           /\ Becomes(t, BackTo(t), nth[t], node_n[t], chunk[t], n_passed[t], back[t])
<1>1. Goes(t, BackTo(t))
  BY GotoGoes, BackToPlace DEF Spin, Pass, BackTo
<1> QED BY <1>1 DEF Spin, Becomes, Goes, Kept, LocalType, signal, watch, local

\* A step of w between graphs: w is at l afterwards and has seen g
WatchType == last_graph \in [Worker -> [count : 0..MaxGraph, n : 0..NThread]] /\ polls \in [Worker -> 0..Poll]

Turns(w, l, g) ==
    /\ LocalType' /\ WatchType'
    /\ pc'[w] = l /\ \A u \in Thread \ {w} : pc'[u] = pc[u]
    /\ last_graph'[w] = g /\ \A v \in Worker \ {w} : last_graph'[v] = last_graph[v]
    /\ mutex' = IF l \in {"nowork", "stillpaused"} THEN {w} ELSE mutex \ {w}
    /\ UNCHANGED <<n_graph, stop, pause, shared, local, ghost>>

LEMMA IdleTurns ==
    ASSUME LocalType, WatchType, NEW w \in Worker, NEW l \in AllPlaces, Idle(w, l), UNCHANGED last_graph,
           polls' \in [Worker -> 0..Poll]
    PROVE  Turns(w, l, last_graph[w])
<1>1. Goes(w, l)
  BY GotoGoes, Sizes DEF Idle
<1> QED BY <1>1 DEF Idle, Turns, Goes, LocalType, WatchType, local

LEMMA IdleSees ==
    ASSUME LocalType, WatchType, n_graph \in [count : 0..MaxGraph, n : 0..NThread],
           NEW w \in Worker, NEW l \in AllPlaces, Idle(w, l),
           last_graph' = [last_graph EXCEPT ![w] = n_graph], polls' \in [Worker -> 0..Poll]
    PROVE  Turns(w, l, n_graph)
<1>1. Goes(w, l)
  BY GotoGoes, Sizes DEF Idle
<1> QED BY <1>1 DEF Idle, Turns, Goes, LocalType, WatchType, local

\* What a worker's steps between graphs come to.
WorkerStep(w) ==
    \/ \E l \in {"paused", "stop", "pause", "exited", "flags", "check", "graph"} :
         /\ pc[w] \in {"pause", "paused", "asleep", "stop", "flags", "graph", "check"}
         /\ pc[w] \in {"asleep", "check"} => w \notin waiting
         /\ l = "check" => pc[w] \in {"flags", "graph"}
         /\ Turns(w, l, last_graph[w]) /\ UNCHANGED waiting
    \/ /\ pc[w] = "paused" /\ mutex = {} /\ pause
       /\ Turns(w, "stillpaused", last_graph[w]) /\ UNCHANGED waiting
    \/ /\ pc[w] \in {"graph", "check"} /\ (pc[w] = "check" => w \notin waiting)
       /\ n_graph # last_graph[w]
       /\ \E l \in {"start", "check", "pause"} :
            /\ l = "start" <=> w < n_graph.n
            /\ l = "check" => pc[w] = "graph"
            /\ Turns(w, l, n_graph) /\ UNCHANGED waiting
    \/ /\ pc[w] = "check" /\ w \notin waiting /\ mutex = {} /\ n_graph = last_graph[w] /\ ~stop /\ ~pause
       /\ Turns(w, "nowork", n_graph) /\ UNCHANGED waiting
    \/ /\ pc[w] \in {"nowork", "stillpaused"} /\ waiting' = waiting \cup {w}
       /\ \E l \in {"check", "asleep"} :
            /\ l = IF pc[w] = "nowork" THEN "check" ELSE "asleep"
            /\ Turns(w, l, last_graph[w])

LEMMA BetweenGraphsStep ==
    ASSUME LocalType, WatchType, n_graph \in [count : 0..MaxGraph, n : 0..NThread], pause \in BOOLEAN,
           stop \in BOOLEAN,
           NEW w \in Worker, BetweenGraphs(w)
    PROVE  WorkerStep(w)
<1> USE DEF AllPlaces, CallerPlaces, WorkerPlaces, Places
<1>0. UNCHANGED polls => polls' \in [Worker -> 0..Poll]
  BY DEF WatchType
<1>1. CASE LookAtPause(w)
  <2>1. \E l \in {"paused", "stop"} : Turns(w, l, last_graph[w])
    BY <1>0, <1>1, IdleTurns DEF LookAtPause, watch
  <2> QED BY <1>1, <2>1 DEF LookAtPause, WorkerStep
<1>2. CASE Paused(w)
  <2>1. CASE pause
    <3>1. Turns(w, "stillpaused", last_graph[w])
      BY <1>0, <1>2, <2>1, IdleTurns DEF Paused, watch
    <3> QED BY <1>2, <2>1, <3>1 DEF Paused, WorkerStep
  <2>2. CASE ~pause
    <3>1. Turns(w, "pause", last_graph[w])
      BY <1>0, <1>2, <2>2, IdleTurns DEF Paused, watch
    <3> QED BY <1>2, <3>1 DEF Paused, WorkerStep
  <2> QED BY <2>1, <2>2
<1>3. CASE Resumed(w)
  <2>1. Turns(w, "pause", last_graph[w])
    BY <1>0, <1>3, IdleTurns DEF Resumed, watch
  <2> QED BY <1>3, <2>1 DEF Resumed, WorkerStep
<1>4. CASE LookAtStop(w)
  <2>1. polls' \in [Worker -> 0..Poll]
    BY <1>4, Sizes DEF LookAtStop, WatchType
  <2>2. \E l \in {"exited", "flags"} : Turns(w, l, last_graph[w])
    BY <1>4, <2>1, IdleTurns DEF LookAtStop
  <2> QED BY <1>4, <2>2 DEF LookAtStop, WorkerStep
<1>5. CASE PollFlags(w)
  <2>1. \E l \in {"check", "graph"} : Turns(w, l, last_graph[w])
    BY <1>0, <1>5, IdleTurns DEF PollFlags, watch
  <2> QED BY <1>5, <2>1 DEF PollFlags, WorkerStep
<1>6. CASE PollGraph(w)
  <2>1. CASE n_graph # last_graph[w]
    <3> DEFINE l == IF w < n_graph.n THEN "start" ELSE "check"
    <3>1. l \in AllPlaces /\ Idle(w, l) /\ UNCHANGED polls /\ UNCHANGED waiting /\ pc[w] = "graph"
      BY <1>6, <2>1 DEF PollGraph
    <3>2. Turns(w, l, n_graph)
      BY <1>0, <1>6, <3>1, IdleSees DEF PollGraph
    <3> QED BY <2>1, <3>1, <3>2 DEF WorkerStep
  <2>2. CASE n_graph = last_graph[w]
    <3> DEFINE l == IF polls[w] < Poll THEN "flags" ELSE "check"
    <3>1. l \in AllPlaces /\ Idle(w, l) /\ UNCHANGED waiting /\ pc[w] = "graph"
      BY <1>6, <2>2 DEF PollGraph
    <3>2. polls' = [polls EXCEPT ![w] = IF @ < Poll THEN @ + 1 ELSE @]
      BY <1>6, <2>2 DEF PollGraph
    <3>3. polls[w] \in 0..Poll
      BY DEF WatchType
    <3>4. (IF polls[w] < Poll THEN polls[w] + 1 ELSE polls[w]) \in 0..Poll
      BY <3>3, Sizes
    <3>5. polls' \in [Worker -> 0..Poll]
      BY <3>2, <3>4 DEF WatchType
    <3>6. last_graph' = [last_graph EXCEPT ![w] = n_graph]
      BY <1>6 DEF PollGraph
    <3>7. Turns(w, l, last_graph[w])
      BY <3>1, <3>5, <3>6, <2>2, IdleSees
    <3> QED BY <3>1, <3>7 DEF WorkerStep
  <2> QED BY <2>1, <2>2
<1>7. CASE Check(w)
  <2>1. CASE stop \/ pause
    <3>1. Turns(w, "pause", last_graph[w])
      BY <1>0, <1>7, <2>1, IdleTurns DEF Check
    <3> QED BY <1>7, <3>1 DEF Check, WorkerStep
  <2>2. CASE ~(stop \/ pause) /\ n_graph = last_graph[w]
    <3>1. Turns(w, "nowork", n_graph)
      BY <1>0, <1>7, <2>2, IdleSees DEF Check
    <3> QED BY <1>7, <2>2, <3>1 DEF Check, WorkerStep
  <2>3. CASE ~(stop \/ pause) /\ n_graph # last_graph[w]
    <3> DEFINE l == IF w < n_graph.n THEN "start" ELSE "pause"
    <3>1. l \in AllPlaces /\ Idle(w, l) /\ UNCHANGED <<polls, waiting>> /\ pc[w] = "check" /\ w \notin waiting
          /\ last_graph' = [last_graph EXCEPT ![w] = n_graph]
      BY <1>7, <2>3 DEF Check
    <3>2. Turns(w, l, n_graph)
      BY <1>0, <3>1, IdleSees
    <3> QED BY <2>3, <3>1, <3>2 DEF WorkerStep
  <2> QED BY <2>1, <2>2, <2>3
<1>8. CASE Sleep(w)
  <2> DEFINE l == IF pc[w] = "nowork" THEN "check" ELSE "asleep"
  <2>1. l \in AllPlaces /\ Idle(w, l) /\ UNCHANGED watch /\ waiting' = waiting \cup {w}
        /\ pc[w] \in {"nowork", "stillpaused"}
    BY <1>8 DEF Sleep
  <2>2. Turns(w, l, last_graph[w])
    BY <1>0, <2>1, IdleTurns DEF watch
  <2> QED BY <2>1, <2>2 DEF WorkerStep
<1> QED BY <1>1, <1>2, <1>3, <1>4, <1>5, <1>6, <1>7, <1>8 DEF BetweenGraphs

\* A step of the caller outside a graph, to l
Calls(l) ==
    /\ LocalType' /\ pc'[0] = l /\ \A u \in Thread \ {0} : pc'[u] = pc[u]
    /\ UNCHANGED <<watch, local, redone>>

LEMMA CallerSteps ==
    ASSUME LocalType
    PROVE  /\ Compute => /\ pc[0] = "call" /\ n_graph.count < MaxGraph /\ Calls("kickoff")
                         /\ UNCHANGED <<signal, n_barrier, n_barrier_passed>>
                         /\ current_chunk' = 0 /\ abort' = 0 /\ ec' = "success" /\ done' = {}
           /\ Kickoff => /\ pc[0] = "kickoff" /\ mutex = {} /\ Calls("wake") /\ mutex' = {0}
                         /\ \E n \in 1..NThread : n_graph' = [count |-> n_graph.count + 1, n |-> n]
                         /\ UNCHANGED <<stop, pause, waiting, shared, done>>
           /\ Wake    => /\ pc[0] = "wake" /\ Calls("start")
                         /\ ~pause' /\ waiting' = {} /\ mutex' = mutex \ {0}
                         /\ UNCHANGED <<n_graph, stop, shared, done>>
           /\ PauseResume => /\ pc[0] = "call" /\ mutex = {} /\ Calls("call")
                         /\ pause' = ~pause /\ waiting' = {}
                         /\ UNCHANGED <<n_graph, stop, mutex, shared, pc, done>>
           /\ Free    => /\ pc[0] = "call" /\ mutex = {} /\ Calls("unpause")
                         /\ stop' /\ mutex' = {0}
                         /\ UNCHANGED <<n_graph, pause, waiting, shared, done>>
           /\ Unpause => /\ pc[0] = "unpause" /\ Calls("join")
                         /\ ~pause' /\ waiting' = {} /\ mutex' = mutex \ {0}
                         /\ UNCHANGED <<n_graph, stop, shared, done>>
           /\ Join    => /\ pc[0] = "join" /\ Calls("freed") /\ \A w \in Worker : pc[w] = "exited"
                         /\ UNCHANGED <<signal, shared, done>>
<1>1. ASSUME NEW l \in {"kickoff", "wake", "start", "unpause", "join", "freed"}, Goto(0, l), UNCHANGED <<watch, local, redone>>
      PROVE  Calls(l)
  <2>1. Goes(0, l)
    BY <1>1, GotoGoes, Sizes DEF AllPlaces, CallerPlaces, Places
  <2> QED BY <1>1, <2>1 DEF Calls, Goes, LocalType, local
<1>2. ASSUME Compute PROVE Calls("kickoff")
  BY <1>1, <1>2 DEF Compute
<1>3. ASSUME Kickoff
      PROVE  Calls("wake") /\ \E n \in 1..NThread : n_graph' = [count |-> n_graph.count + 1, n |-> n]
  <2>1. PICK r \in Requests :
          n_graph' = [count |-> n_graph.count + 1, n |-> IF r > NThread THEN NThread ELSE r]
    BY <1>3 DEF Kickoff
  <2>2. (IF r > NThread THEN NThread ELSE r) \in 1..NThread
    BY Sizes
  <2> QED BY <1>1, <1>3, <2>1, <2>2 DEF Kickoff, ghost
<1>4. ASSUME Wake PROVE Calls("start")
  BY <1>1, <1>4 DEF Wake, ghost
<1>5. ASSUME PauseResume PROVE Calls("call")
  BY <1>5 DEF PauseResume, Calls, LocalType, ghost, local
<1>6. ASSUME Free PROVE Calls("unpause")
  BY <1>1, <1>6 DEF Free, ghost
<1>7. ASSUME Unpause PROVE Calls("join")
  BY <1>1, <1>7 DEF Unpause, ghost
<1>8. ASSUME Join PROVE Calls("freed")
  BY <1>1, <1>8 DEF Join, ghost
<1>10. Compute => /\ pc[0] = "call" /\ n_graph.count < MaxGraph /\ Calls("kickoff")
                  /\ UNCHANGED <<signal, n_barrier, n_barrier_passed>>
                  /\ current_chunk' = 0 /\ abort' = 0 /\ ec' = "success" /\ done' = {}
  BY <1>2 DEF Compute
<1>11. Kickoff => /\ pc[0] = "kickoff" /\ mutex = {} /\ Calls("wake") /\ mutex' = {0}
                  /\ \E n \in 1..NThread : n_graph' = [count |-> n_graph.count + 1, n |-> n]
                  /\ UNCHANGED <<stop, pause, waiting, shared, done>>
  BY <1>3 DEF Kickoff, ghost
<1>12. Wake => /\ pc[0] = "wake" /\ Calls("start")
               /\ ~pause' /\ waiting' = {} /\ mutex' = mutex \ {0}
               /\ UNCHANGED <<n_graph, stop, shared, done>>
  BY <1>4 DEF Wake, ghost
<1>13. PauseResume => /\ pc[0] = "call" /\ mutex = {} /\ Calls("call")
                      /\ pause' = ~pause /\ waiting' = {}
                      /\ UNCHANGED <<n_graph, stop, mutex, shared, pc, done>>
  BY <1>5 DEF PauseResume, ghost
<1>14. Free => /\ pc[0] = "call" /\ mutex = {} /\ Calls("unpause")
               /\ stop' /\ mutex' = {0}
               /\ UNCHANGED <<n_graph, pause, waiting, shared, done>>
  BY <1>6 DEF Free, ghost
<1>15. Unpause => /\ pc[0] = "unpause" /\ Calls("join")
                  /\ ~pause' /\ waiting' = {} /\ mutex' = mutex \ {0}
                  /\ UNCHANGED <<n_graph, stop, shared, done>>
  BY <1>7 DEF Unpause, ghost
<1>16. Join => /\ pc[0] = "join" /\ Calls("freed") /\ \A w \in Worker : pc[w] = "exited"
               /\ UNCHANGED <<signal, shared, done>>
  BY <1>8 DEF Join, ghost
<1> QED BY <1>10, <1>11, <1>12, <1>13, <1>14, <1>15, <1>16

\* What all of a thread's steps in a graph have in common.
LEMMA InGraphStep ==
    ASSUME LocalType, NodeInv, n_graph \in [count : 0..MaxGraph, n : 0..NThread],
           n_barrier_passed \in Nat, current_chunk \in Nat,
           NEW t \in Thread, InGraph(t)
    PROVE  /\ LocalType' /\ pc[t] \in Places
           /\ pc'[t] \in Places \/ pc'[t] = IF t = 0 THEN "call" ELSE "pause"
           /\ \A u \in Thread \ {t} : Kept(u)
           /\ UNCHANGED <<n_graph, stop, pause, mutex, waiting, last_graph, polls>>
           /\ n_barrier' \in {n_barrier, n_barrier + 1, 0}
           /\ n_barrier_passed' \in {n_barrier_passed, n_barrier_passed + 1}
           /\ current_chunk' \in Nat
           /\ n_passed'[t] \in {n_passed[t], n_barrier_passed}
           /\ UNCHANGED <<abort, ec>> \/ (ec' = "aborted" /\ abort' \in 0..(Len(Graph) + 1))
           /\ \E p : ComputePart(p) \/ UNCHANGED ghost
<1> USE DEF Becomes, Places, shared, ghost
<1>0. back[t] \in {"node", "chunk", "end"}
  BY DEF LocalType
<1>1. CASE Start(t)
  BY <1>1, StartStep
<1>2. CASE NextNode(t)
  <2>1. node_n[t] \in Real => Graph[node_n[t]] \in {"plain", "mat"}
    BY Sizes DEF Real
  <2> QED BY <1>2, <2>1, NextNodeStep
<1>3. CASE Plain(t)
  BY <1>3, PlainStep
<1>4. CASE MatInput(t)
  <2>1. nth[t] \in Nat
    BY Sizes DEF LocalType
  <2>2. /\ pc[t] = "mat" /\ UNCHANGED <<n_barrier, n_barrier_passed, abort, ec>>
        /\ ComputePart(<<node_n[t], "input", t>>) /\ current_chunk' \in Nat
        /\ LocalType' /\ pc'[t] = "barrier" /\ n_passed'[t] = n_passed[t]
        /\ \A u \in Thread \ {t} : Kept(u)
        /\ UNCHANGED <<n_graph, stop, pause, mutex, waiting, last_graph, polls>>
    BY <1>4, <2>1, MatInputStep
  <2> QED BY <2>2
<1>5. CASE Chunk(t)
  BY <1>5, ChunkStep
<1>6. CASE Grab(t)
  BY <1>6, GrabStep
<1>7. CASE Computed(t)
  <2>1. pc[t] = "computed" => node_n[t] + 1 \in 0..(Len(Graph) + 1)
    BY Sizes DEF NodeInv, Real, Node
  <2> QED BY <1>7, <2>1, ComputedStep
<1>8. CASE AtBarrier(t)
  BY <1>0, <1>8, AtBarrierStep DEF BackTo
<1>9. CASE Arrive(t)
  BY <1>9, ArriveStep
<1>10. CASE Reset(t)
  BY <1>10, ResetStep
<1>11. CASE Release(t)
  BY <1>0, <1>11, ReleaseStep DEF BackTo
<1>12. CASE Spin(t)
  BY <1>0, <1>12, SpinStep DEF BackTo
<1> QED BY <1>1, <1>2, <1>3, <1>4, <1>5, <1>6, <1>7, <1>8, <1>9, <1>10, <1>11, <1>12 DEF InGraph

-----------------------------------------------------------------------------
(* Types, the mutex and the sleepers *)

Shape ==
    /\ LocalType /\ WatchType
    /\ n_graph \in [count : 0..MaxGraph, n : 0..NThread]
    /\ n_barrier \in Nat /\ n_barrier_passed \in Nat /\ current_chunk \in Nat
    /\ stop \in BOOLEAN /\ pause \in BOOLEAN /\ redone \in BOOLEAN
    /\ abort \in 0..(Len(Graph) + 1) /\ ec \in {"success", "aborted"}
    /\ pc[0] \in CallerPlaces /\ \A w \in Worker : pc[w] \in WorkerPlaces
    /\ pc[0] = "kickoff" => n_graph.count < MaxGraph
    /\ \A w \in Worker : last_graph[w].count <= n_graph.count
    /\ \A t \in Thread : n_passed[t] <= n_barrier_passed

\* The mutex is held by one thread at most, and not by a sleeper
MutexInv ==
    /\ mutex = {t \in Thread : pc[t] \in Holding}
    /\ \A t, u \in Thread : pc[t] \in Holding /\ pc[u] \in Holding => t = u
    /\ waiting \subseteq {w \in Worker : pc[w] \in {"asleep", "check"}}

\* What a worker has made sure of when it goes to sleep; nothing pauses a pool that is to stop
SleepInv ==
    /\ stop => pc[0] \in {"unpause", "join", "freed"} /\ (pc[0] # "unpause" => ~pause)
    /\ \A w \in Worker :
         /\ pc[w] = "nowork" => ~stop /\ ~pause /\ last_graph[w] = n_graph
         /\ pc[w] = "stillpaused" => ~stop /\ pause
    /\ NobodySleepsThrough

LEMMA ShapeInit == Init => Shape /\ NodeInv /\ MutexInv /\ SleepInv
<1> SUFFICES ASSUME Init PROVE Shape /\ NodeInv /\ MutexInv /\ SleepInv
  OBVIOUS
<1>1. \A t \in Thread : pc[t] \in {"call", "pause"}
  BY DEF Init
<1>2. LocalType /\ WatchType
  BY Sizes DEF Init, LocalType, WatchType, AllPlaces, CallerPlaces, WorkerPlaces, Places, NoGraph
<1>3. /\ \A w \in Worker : last_graph[w] = NoGraph /\ pc[w] = "pause"
      /\ \A t \in Thread : n_passed[t] = 0
      /\ pc[0] = "call"
  BY Sizes DEF Init
<1>4. Shape
  <2>1. /\ n_graph \in [count : 0..MaxGraph, n : 0..NThread] /\ abort \in 0..(Len(Graph) + 1)
        /\ NoGraph.count <= n_graph.count
    BY Sizes DEF Init, NoGraph
  <2>2. /\ n_barrier = 0 /\ n_barrier_passed = 0 /\ current_chunk = 0
        /\ stop = FALSE /\ pause \in BOOLEAN /\ redone = FALSE /\ ec = "success"
    BY DEF Init
  <2>3. /\ pc[0] \in CallerPlaces /\ pc[0] # "kickoff" /\ \A w \in Worker : pc[w] \in WorkerPlaces
        /\ \A w \in Worker : last_graph[w].count <= n_graph.count
        /\ \A t \in Thread : n_passed[t] <= n_barrier_passed
    BY <1>3, <2>1, <2>2 DEF CallerPlaces, WorkerPlaces
  <2> QED BY <1>2, <2>1, <2>2, <2>3 DEF Shape
<1>5. NodeInv
  BY <1>1 DEF NodeInv, Barriers
<1>6. MutexInv
  BY <1>1 DEF Init, MutexInv, Holding
<1>7. SleepInv
  BY <1>1, Sizes DEF Init, SleepInv, NobodySleepsThrough
<1> QED BY <1>4, <1>5, <1>6, <1>7

LEMMA ShapeStep == Shape /\ NodeInv /\ [Next]_vars => Shape'
<1> SUFFICES ASSUME Shape, NodeInv, [Next]_vars PROVE Shape'
  OBVIOUS
<1> USE DEF Shape
<1>1. CASE Compute \/ PauseResume \/ Free \/ Kickoff \/ Wake \/ Unpause \/ Join
  <2>1. /\ LocalType' /\ pc'[0] \in CallerPlaces /\ (pc'[0] # "kickoff" \/ Compute)
        /\ \A u \in Thread \ {0} : pc'[u] = pc[u]
        /\ UNCHANGED <<watch, local, redone>>
    BY <1>1, CallerSteps DEF Calls, CallerPlaces, Places
  <2>2. WatchType'
    BY <2>1 DEF WatchType, watch
  <2>3. stop' \in BOOLEAN /\ pause' \in BOOLEAN /\ redone' \in BOOLEAN
    <3>1. UNCHANGED <<stop, pause>> \/ (UNCHANGED stop /\ pause' = FALSE) \/ (UNCHANGED stop /\ pause' = ~pause)
          \/ (UNCHANGED pause /\ stop' = TRUE)
      BY <1>1, CallerSteps DEF signal
    <3> QED BY <2>1, <3>1
  <2>4. /\ n_barrier' \in Nat /\ n_barrier_passed' = n_barrier_passed /\ current_chunk' \in Nat
        /\ abort' \in 0..(Len(Graph) + 1) /\ ec' \in {"success", "aborted"}
    BY <1>1, CallerSteps, Sizes DEF shared
  <2>5. /\ n_graph' \in [count : 0..MaxGraph, n : 0..NThread] /\ n_graph'.count >= n_graph.count
        /\ ~Kickoff => n_graph' = n_graph
    <3>1. CASE Kickoff
      BY <3>1, CallerSteps, Sizes
    <3>2. CASE ~Kickoff
      BY <1>1, <3>2, CallerSteps, Sizes DEF signal
    <3> QED BY <3>1, <3>2
  <2>6. \A w \in Worker : last_graph'[w].count <= n_graph'.count /\ pc'[w] \in WorkerPlaces
    <3>1. \A w \in Worker : pc'[w] = pc[w] /\ last_graph'[w] = last_graph[w] /\ last_graph[w].count \in Nat
      BY <2>1, Sizes DEF WatchType, watch
    <3> QED BY <2>5, <3>1
  <2>7. \A t \in Thread : n_passed'[t] <= n_barrier_passed'
    BY <2>1, <2>4 DEF local
  <2>8. pc'[0] = "kickoff" => n_graph'.count < MaxGraph
    BY <2>1, CallerSteps DEF signal
  <2> QED BY <2>1, <2>2, <2>3, <2>4, <2>5, <2>6, <2>7, <2>8
<1>2. ASSUME NEW t \in Thread, InGraph(t) PROVE Shape'
  <2>1. /\ LocalType' /\ (pc'[t] \in Places \/ pc'[t] = IF t = 0 THEN "call" ELSE "pause")
        /\ \A u \in Thread \ {t} : Kept(u)
        /\ UNCHANGED <<n_graph, stop, pause, mutex, waiting, last_graph, polls>>
    BY <1>2, InGraphStep
  <2>2. WatchType'
    BY <2>1 DEF WatchType
  <2>3. n_barrier' \in Nat /\ n_barrier_passed' \in Nat /\ n_barrier_passed' >= n_barrier_passed
        /\ current_chunk' \in Nat /\ abort' \in 0..(Len(Graph) + 1) /\ ec' \in {"success", "aborted"}
    BY <1>2, InGraphStep
  <2>4. redone' \in BOOLEAN
    BY <1>2, InGraphStep DEF ComputePart, ghost
  <2>5. \A u \in Thread : n_passed'[u] <= n_barrier_passed'
    <3>1. n_passed'[t] <= n_barrier_passed'
      <4>1. n_passed'[t] \in {n_passed[t], n_barrier_passed} /\ n_passed[t] \in Nat
        BY <1>2, InGraphStep DEF LocalType
      <4> QED BY <2>3, <4>1
    <3>2. \A u \in Thread \ {t} : n_passed'[u] = n_passed[u] /\ n_passed[u] \in Nat
      BY <2>1 DEF Kept, LocalType
    <3> QED BY <2>3, <3>1, <3>2
  <2>6. pc'[0] \in CallerPlaces /\ \A w \in Worker : pc'[w] \in WorkerPlaces
    BY <2>1, Sizes DEF Kept, CallerPlaces, WorkerPlaces
  <2>7. pc'[0] # "kickoff" \/ pc'[0] = pc[0]
    BY <2>1, Sizes DEF Kept, Places
  <2> QED BY <2>1, <2>2, <2>3, <2>4, <2>5, <2>6, <2>7
<1>3. ASSUME NEW w \in Worker, BetweenGraphs(w) PROVE Shape'
  <2>1. PICK l \in WorkerPlaces, g \in {last_graph[w], n_graph} : Turns(w, l, g)
    BY <1>3, BetweenGraphsStep DEF WorkerStep, WorkerPlaces, Places
  <2>2. pc'[0] = pc[0] /\ \A v \in Worker : pc'[v] \in WorkerPlaces
    BY <2>1, Sizes DEF Turns
  <2>3. \A v \in Worker : last_graph'[v].count <= n_graph'.count
    BY <2>1 DEF Turns
  <2>4. \A t \in Thread : n_passed'[t] <= n_barrier_passed'
    BY <2>1 DEF Turns, local, shared
  <2> QED BY <2>1, <2>2, <2>3, <2>4 DEF Turns, shared, ghost
<1>4. ASSUME NEW w \in Worker, SpuriousWakeup(w) PROVE Shape'
  BY <1>4 DEF SpuriousWakeup, LocalType, WatchType, shared, watch, local, ghost
<1>5. CASE UNCHANGED vars
  BY <1>5 DEF vars, LocalType, WatchType, signal, shared, watch, local, ghost
<1> QED BY Steps, <1>1, <1>2, <1>3, <1>4, <1>5

LEMMA NodeStep == Shape /\ NodeInv /\ [Next]_vars => NodeInv'
<1> SUFFICES ASSUME Shape, NodeInv, [Next]_vars PROVE NodeInv'
  OBVIOUS
<1> DEFINE At(t) ==
      /\ pc[t] = "plain" => node_n[t] \in Node /\ Graph[node_n[t]] = "plain"
      /\ pc[t] \in {"mat", "chunk", "grab"} => node_n[t] \in Node /\ IsMat(node_n[t])
      /\ pc[t] = "computed" => node_n[t] \in Real
      /\ pc[t] \in Barriers /\ back[t] = "chunk" => node_n[t] \in Node /\ IsMat(node_n[t])
      /\ pc[t] \in Barriers /\ back[t] = "node" => node_n[t] \in Node /\ node_n[t] - 1 \in Real
<1>1. \A t \in Thread : At(t)
  BY DEF NodeInv
<1>2. ASSUME NEW u \in Thread, \/ pc'[u] = pc[u] /\ node_n'[u] = node_n[u] /\ back'[u] = back[u]
                              \/ pc'[u] \notin {"plain", "mat", "chunk", "grab", "computed"} \cup Barriers
      PROVE  At(u)'
  BY <1>1, <1>2 DEF Barriers
<1>3. CASE Compute \/ PauseResume \/ Free \/ Kickoff \/ Wake \/ Unpause \/ Join
  <2>1. /\ pc'[0] \in {"call", "kickoff", "wake", "start", "unpause", "join", "freed"}
        /\ \A u \in Thread \ {0} : pc'[u] = pc[u]
        /\ UNCHANGED local
    BY <1>3, CallerSteps DEF Calls, Shape
  <2>2. \A u \in Thread : At(u)'
    BY <1>2, <2>1 DEF local, Barriers
  <2> QED BY <2>2 DEF NodeInv
<1>4. ASSUME NEW t \in Thread, InGraph(t) PROVE NodeInv'
  <2>1. \A u \in Thread \ {t} : Kept(u)
    BY <1>4, InGraphStep DEF Shape
  <2>2. At(t)'
    <3> USE DEF Becomes, Shape, Barriers
    <3>1. CASE Start(t)
      BY <3>1, StartStep
    <3>2. CASE NextNode(t)
      <4>1. node_n[t] \in Real => node_n[t] \in Node /\ Graph[node_n[t]] \in {"plain", "mat"}
        BY Sizes DEF Real
      <4> QED BY <3>2, <4>1, NextNodeStep DEF IsMat
    <3>3. CASE Plain(t)
      <4>1. pc[t] = "plain" => node_n[t] \in Real
        BY <1>1 DEF Real
      <4> QED BY <3>3, <4>1, PlainStep
    <3>4. CASE MatInput(t)
      BY <1>1, <3>4, MatInputStep
    <3>5. CASE Chunk(t)
      <4>1. pc[t] = "chunk" => node_n[t] \in Real
        BY <1>1 DEF Real, IsMat
      <4> QED BY <1>1, <3>5, <4>1, ChunkStep
    <3>6. CASE Grab(t)
      BY <1>1, <3>6, GrabStep
    <3>7. CASE Computed(t)
      <4>1. pc[t] = "computed" =>
              node_n[t] \in Real /\ node_n[t] \in Nat /\ (node_n[t] < Len(Graph) => node_n[t] + 1 \in Node)
        BY <1>1, Sizes DEF Real, Node
      <4>2. \/ pc'[t] = "barrier" /\ node_n'[t] = node_n[t] + 1 /\ node_n[t] < Len(Graph) /\ back'[t] = "node"
            \/ pc'[t] = "node"
        BY <3>7, ComputedStep
      <4>3. pc[t] = "computed"
        BY <3>7, ComputedStep
      <4>4. CASE pc'[t] = "barrier"
        <5>1. node_n'[t] - 1 = node_n[t] /\ node_n'[t] - 1 \in Real /\ node_n'[t] \in Node
          BY <4>1, <4>2, <4>3, <4>4
        <5> QED BY <4>2, <4>4, <5>1
      <4> QED BY <4>2, <4>4
    <3>8. CASE AtBarrier(t) \/ Release(t) \/ Spin(t)
      <4>1. pc[t] \in Barriers /\ node_n'[t] = node_n[t] /\ back'[t] = back[t] /\ pc'[t] \in {BackTo(t), "arrive"}
        BY <3>8, AtBarrierStep, ReleaseStep, SpinStep
      <4>2. BackTo(t) \in {"node", "chunk", "call", "pause"} /\ (BackTo(t) = "chunk" => back[t] = "chunk")
        BY DEF BackTo, LocalType
      <4> QED BY <1>1, <4>1, <4>2
    <3>9. CASE Arrive(t) \/ Reset(t)
      <4>1. pc[t] \in Barriers /\ node_n'[t] = node_n[t] /\ back'[t] = back[t] /\ pc'[t] \in Barriers
        BY <3>9, ArriveStep, ResetStep
      <4> QED BY <1>1, <4>1
    <3> QED BY <1>4, <3>1, <3>2, <3>3, <3>4, <3>5, <3>6, <3>7, <3>8, <3>9 DEF InGraph
  <2>3. \A u \in Thread : At(u)'
    BY <1>2, <2>1, <2>2 DEF Kept
  <2> QED BY <2>3 DEF NodeInv
<1>5. ASSUME NEW w \in Worker, BetweenGraphs(w) PROVE NodeInv'
  <2>1. PICK l \in {"start", "pause", "paused", "asleep", "stop", "flags", "graph", "check", "nowork", "stillpaused", "exited"},
             g \in {last_graph[w], n_graph} : Turns(w, l, g)
    BY <1>5, BetweenGraphsStep DEF WorkerStep, Shape
  <2>2. \A u \in Thread : At(u)'
    BY <1>2, <2>1 DEF Turns, local, Barriers
  <2> QED BY <2>2 DEF NodeInv
<1>6. ASSUME NEW w \in Worker, SpuriousWakeup(w) PROVE NodeInv'
  BY <1>6 DEF SpuriousWakeup, local, NodeInv
<1>7. CASE UNCHANGED vars
  BY <1>7 DEF vars, local, NodeInv
<1> QED BY Steps, <1>3, <1>4, <1>5, <1>6, <1>7

LEMMA MutexStep == Shape /\ NodeInv /\ MutexInv /\ [Next]_vars => MutexInv'
<1> SUFFICES ASSUME Shape, NodeInv, MutexInv, [Next]_vars PROVE MutexInv'
  OBVIOUS
<1>1. ASSUME NEW h \in Thread, NEW l, pc' \in [Thread -> AllPlaces], pc'[h] = l,
             \A u \in Thread \ {h} : pc'[u] = pc[u],
             mutex' = IF l \in Holding THEN {h} ELSE mutex \ {h},
             l \in Holding => mutex = {},
             waiting' \subseteq {w \in Worker : pc'[w] \in {"asleep", "check"}}
      PROVE  MutexInv'
  BY <1>1 DEF MutexInv
<1>2. CASE Compute \/ PauseResume \/ Free \/ Kickoff \/ Wake \/ Unpause \/ Join
  <2>1. PICK l \in {"kickoff", "wake", "start", "call", "unpause", "join", "freed"} :
          /\ pc' \in [Thread -> AllPlaces] /\ pc'[0] = l /\ \A u \in Thread \ {0} : pc'[u] = pc[u]
          /\ mutex' = IF l \in Holding THEN {0} ELSE mutex \ {0}
          /\ l \in Holding => mutex = {}
    <3>1. Compute \/ PauseResume \/ Join => 0 \notin mutex /\ mutex' = mutex
      BY CallerSteps DEF MutexInv, Holding, signal, Shape
    <3>2. CASE Compute \/ PauseResume \/ Join
      <4>1. mutex' = mutex \ {0}
        BY <3>1, <3>2
      <4>2. LocalType' /\ pc'[0] \in {"kickoff", "call", "freed"} /\ \A u \in Thread \ {0} : pc'[u] = pc[u]
        BY <3>2, CallerSteps DEF Calls, Shape
      <4> QED BY <4>1, <4>2 DEF Holding, LocalType
    <3>3. CASE Free \/ Kickoff
      <4>1. /\ LocalType' /\ pc'[0] \in {"unpause", "wake"} /\ \A u \in Thread \ {0} : pc'[u] = pc[u]
            /\ mutex' = {0} /\ mutex = {}
        BY <3>3, CallerSteps DEF Calls, Shape
      <4> QED BY <4>1 DEF Holding, LocalType
    <3>4. CASE Wake \/ Unpause
      <4>1. /\ LocalType' /\ pc'[0] \in {"start", "join"} /\ \A u \in Thread \ {0} : pc'[u] = pc[u]
            /\ mutex' = mutex \ {0}
        BY <3>4, CallerSteps DEF Calls, Shape
      <4> QED BY <4>1 DEF Holding, LocalType
    <3> QED BY <1>2, <3>2, <3>3, <3>4
  <2>2. waiting' \subseteq waiting
    BY <1>2, CallerSteps DEF signal, Shape
  <2>3. waiting' \subseteq {w \in Worker : pc'[w] \in {"asleep", "check"}}
    BY <2>1, <2>2, Sizes DEF MutexInv
  <2> QED BY <1>1, <2>1, <2>3, Sizes
<1>3. ASSUME NEW t \in Thread, InGraph(t) PROVE MutexInv'
  <2>1. /\ LocalType' /\ pc[t] \in Places /\ (pc'[t] \in Places \/ pc'[t] \in {"call", "pause"})
        /\ \A u \in Thread \ {t} : pc'[u] = pc[u]
        /\ UNCHANGED <<mutex, waiting>>
    BY <1>3, InGraphStep DEF Shape, Kept
  <2>2. pc[t] \notin Holding /\ pc'[t] \notin Holding /\ pc[t] \notin {"asleep", "check"}
    BY <2>1 DEF Places, Holding
  <2>3. pc' \in [Thread -> AllPlaces] /\ \A u \in Thread : pc'[u] \in Holding <=> pc[u] \in Holding
    BY <2>1, <2>2 DEF LocalType
  <2>4. waiting \subseteq {w \in Worker : pc'[w] \in {"asleep", "check"}}
    BY <2>1, <2>2, Sizes DEF MutexInv
  <2> QED BY <2>1, <2>3, <2>4 DEF MutexInv
<1>4. ASSUME NEW w \in Worker, BetweenGraphs(w) PROVE MutexInv'
  <2>1. PICK l \in WorkerPlaces, g \in {last_graph[w], n_graph} :
          /\ Turns(w, l, g) /\ (l \in {"nowork", "stillpaused"} => mutex = {})
          /\ (waiting' = waiting /\ w \notin waiting) \/ (waiting' = waiting \cup {w} /\ l \in {"asleep", "check"})
    <3>1. w \in waiting => pc[w] \in {"asleep", "check"}
      BY DEF MutexInv
    <3>2. WorkerStep(w)
      BY <1>4, BetweenGraphsStep DEF Shape
    <3> QED BY <3>1, <3>2 DEF WorkerStep, WorkerPlaces, Places
  <2>2. waiting' \subseteq {v \in Worker : pc'[v] \in {"asleep", "check"}}
    BY <2>1, Sizes DEF MutexInv, Turns
  <2>3. /\ mutex' = IF l \in Holding THEN {w} ELSE mutex \ {w}
        /\ l \in Holding => mutex = {}
    BY <2>1 DEF Turns, Holding, WorkerPlaces, Places
  <2>4. pc' \in [Thread -> AllPlaces] /\ pc'[w] = l /\ \A u \in Thread \ {w} : pc'[u] = pc[u]
    BY <2>1 DEF Turns, LocalType
  <2> QED BY <1>1, <2>1, <2>2, <2>3, <2>4, Sizes
<1>5. ASSUME NEW w \in Worker, SpuriousWakeup(w) PROVE MutexInv'
  BY <1>5 DEF SpuriousWakeup, MutexInv
<1>6. CASE UNCHANGED vars
  BY <1>6 DEF vars, signal, MutexInv
<1> QED BY Steps, <1>2, <1>3, <1>4, <1>5, <1>6

LEMMA SleepStep == Shape /\ NodeInv /\ MutexInv /\ SleepInv /\ [Next]_vars => SleepInv'
<1> SUFFICES ASSUME Shape, NodeInv, MutexInv, SleepInv, [Next]_vars PROVE SleepInv'
  OBVIOUS
<1> USE DEF SleepInv, NobodySleepsThrough
<1>0. /\ \A w \in Worker : mutex = {} => pc[w] \notin {"nowork", "stillpaused"}
      /\ 0 \in mutex <=> pc[0] \in {"wake", "unpause"}
      /\ \A w \in Worker : pc[w] \in {"nowork", "stillpaused"} =>
           /\ 0 \notin mutex /\ \A v \in Worker \ {w} : pc[v] \notin {"nowork", "stillpaused"}
      /\ waiting \subseteq Worker
  BY Sizes DEF MutexInv, Holding, Shape, CallerPlaces, Places
<1>1. CASE Compute \/ PauseResume \/ Free \/ Kickoff \/ Wake \/ Unpause \/ Join
  <2>0. /\ UNCHANGED <<last_graph>> /\ \A w \in Worker : pc'[w] = pc[w]
    BY <1>1, CallerSteps, Sizes DEF Calls, watch, Shape
  <2>1. CASE Compute
    <3>1. pc[0] = "call" /\ pc'[0] = "kickoff" /\ UNCHANGED <<n_graph, stop, pause, mutex, waiting>>
      BY <2>1, CallerSteps DEF Calls, signal, Shape
    <3> QED BY <1>0, <2>0, <3>1
  <2>2. CASE PauseResume
    <3>1. pc[0] = "call" /\ pc'[0] = "call" /\ mutex = {} /\ waiting' = {} /\ UNCHANGED <<n_graph, stop>>
      BY <2>2, CallerSteps DEF Calls, Shape
    <3> QED BY <1>0, <2>0, <3>1
  <2>3. CASE Free
    <3>1. pc[0] = "call" /\ pc'[0] = "unpause" /\ mutex = {} /\ mutex' = {0}
      BY <2>3, CallerSteps DEF Calls, Shape
    <3> QED BY <1>0, <2>0, <3>1
  <2>4. CASE Kickoff
    <3>1. pc[0] = "kickoff" /\ pc'[0] = "wake" /\ mutex = {} /\ mutex' = {0} /\ UNCHANGED <<stop, pause>>
      BY <2>4, CallerSteps DEF Calls, Shape
    <3> QED BY <1>0, <2>0, <3>1
  <2>5. CASE Wake
    <3>1. pc[0] = "wake" /\ waiting' = {} /\ UNCHANGED <<n_graph, stop>>
      BY <2>5, CallerSteps DEF Calls, Shape
    <3>2. \A w \in Worker : pc[w] \notin {"nowork", "stillpaused"}
      BY <1>0, <3>1
    <3> QED BY <2>0, <3>1, <3>2
  <2>6. CASE Unpause
    <3>1. pc[0] = "unpause" /\ pc'[0] = "join" /\ ~pause' /\ waiting' = {} /\ UNCHANGED <<n_graph, stop>>
      BY <2>6, CallerSteps DEF Calls, Shape
    <3>2. \A w \in Worker : pc[w] \notin {"nowork", "stillpaused"}
      BY <1>0, <3>1
    <3> QED BY <2>0, <3>1, <3>2
  <2>7. CASE Join
    <3>1. pc[0] = "join" /\ pc'[0] = "freed" /\ UNCHANGED <<n_graph, stop, pause, mutex, waiting>>
      BY <2>7, CallerSteps DEF Calls, signal, Shape
    <3> QED BY <1>0, <2>0, <3>1
  <2> QED BY <1>1, <2>1, <2>2, <2>3, <2>4, <2>5, <2>6, <2>7
<1>2. ASSUME NEW t \in Thread, InGraph(t) PROVE SleepInv'
  <2>1. /\ pc[t] \in Places /\ (pc'[t] \in Places \/ pc'[t] \in {"call", "pause"})
        /\ \A u \in Thread \ {t} : pc'[u] = pc[u]
        /\ UNCHANGED <<n_graph, stop, pause, mutex, waiting, last_graph>>
    BY <1>2, InGraphStep DEF Shape, Kept
  <2>2. pc[t] \notin {"nowork", "stillpaused", "asleep", "check", "unpause", "join", "freed"}
        /\ pc'[t] \notin {"nowork", "stillpaused", "asleep", "check"}
    BY <2>1 DEF Places
  <2> QED BY <1>0, <2>1, <2>2, Sizes
<1>3. ASSUME NEW w \in Worker, BetweenGraphs(w) PROVE SleepInv'
  <2>1. WorkerStep(w)
    BY <1>3, BetweenGraphsStep DEF Shape
  <2>2. PICK l \in WorkerPlaces, g \in {last_graph[w], n_graph} :
          Turns(w, l, g) /\ (l \in {"nowork", "stillpaused"} => mutex = {})
    BY <2>1 DEF WorkerStep, WorkerPlaces, Places
  <2>3. /\ UNCHANGED <<n_graph, stop, pause>> /\ pc'[0] = pc[0] /\ (0 \notin mutex' => 0 \notin mutex)
        /\ \A v \in Worker \ {w} : pc'[v] = pc[v] /\ last_graph'[v] = last_graph[v]
    <3>1. l \in {"nowork", "stillpaused"} => mutex = {}
      BY <2>2
    <3>2. 0 # w
      BY Sizes
    <3>3. mutex' = IF l \in {"nowork", "stillpaused"} THEN {w} ELSE mutex \ {w}
      BY <2>2 DEF Turns
    <3>4. /\ UNCHANGED <<n_graph, stop, pause>> /\ pc'[0] = pc[0]
          /\ \A v \in Worker \ {w} : pc'[v] = pc[v] /\ last_graph'[v] = last_graph[v]
      BY <2>2, <3>2, Sizes DEF Turns
    <3> QED BY <3>1, <3>2, <3>3, <3>4
  <2>4. /\ pc'[w] = "nowork" => ~stop /\ ~pause /\ last_graph'[w] = n_graph
        /\ pc'[w] = "stillpaused" => ~stop /\ pause
    <3>1. pause => ~stop \/ pc[0] = "unpause"
      OBVIOUS
    <3>2. pc[0] = "unpause" => mutex # {}
      BY <1>0
    <3> QED BY <2>1, <3>1, <3>2 DEF WorkerStep, Turns
  <2>5. 0 \notin mutex' /\ w \in waiting' =>
          ~stop /\ (pc'[w] = "check" => last_graph'[w] = n_graph /\ ~pause) /\ (pc'[w] = "asleep" => pause)
    <3>1. CASE pc[w] \in {"nowork", "stillpaused"}
      BY <2>1, <3>1 DEF WorkerStep, Turns
    <3>2. CASE pc[w] \notin {"nowork", "stillpaused"}
      <4>1. UNCHANGED waiting
        BY <2>1, <3>2 DEF WorkerStep
      <4>2. w \in waiting => pc[w] \in {"asleep", "check"}
        BY DEF MutexInv
      <4>3. w \notin waiting
        BY <2>1, <3>2, <4>2 DEF WorkerStep
      <4> QED BY <4>1, <4>3
    <3> QED BY <3>1, <3>2
  <2>6. waiting' \subseteq waiting \cup {w}
    BY <2>1 DEF WorkerStep
  <2>7. \A v \in Worker : /\ pc'[v] = "nowork" => ~stop' /\ ~pause' /\ last_graph'[v] = n_graph'
                          /\ pc'[v] = "stillpaused" => ~stop' /\ pause'
    BY <2>3, <2>4
  <2>8. NobodySleepsThrough'
    BY <1>0, <2>3, <2>5, <2>6
  <2>9. stop' => pc'[0] \in {"unpause", "join", "freed"} /\ (pc'[0] # "unpause" => ~pause')
    BY <2>3
  <2> QED BY <2>7, <2>8, <2>9
<1>4. ASSUME NEW w \in Worker, SpuriousWakeup(w) PROVE SleepInv'
  BY <1>4 DEF SpuriousWakeup, watch
<1>5. CASE UNCHANGED vars
  BY <1>5 DEF vars, signal, watch
<1> QED BY Steps, <1>1, <1>2, <1>3, <1>4, <1>5

-----------------------------------------------------------------------------
(* Who computes the graph, and the barrier *)

N == n_graph.n
Members == 0..(N - 1)

\* t has been let go by the barrier; for good, the graph being over for it
LetGo(t) == pc[t] = "spin" /\ n_passed[t] # n_barrier_passed
Left(t)  == LetGo(t) /\ back[t] = "end"

\* t is in the last graph announced; the graph is under way
In(t) == pc[t] \in Places /\ ~Left(t)
Open  == pc[0] = "wake" \/ In(0)

\* t stands at the barrier; it has been counted there
Stopped(t) == \/ pc[t] \in {"barrier", "arrive", "reset", "release"}
              \/ pc[t] = "spin" /\ n_passed[t] = n_barrier_passed
Waiting(t) == pc[t] = "reset" \/ (pc[t] = "spin" /\ n_passed[t] = n_barrier_passed)

\* The threads in a graph are those it was announced for, and no worker it is for has missed it
\* when it is over
MemberInv ==
    /\ \A t \in Thread : In(t) => Open /\ t < N /\ (pc[t] # "start" => nth[t] = N)
    /\ Open => N \in 1..NThread
    /\ ~Open => \A w \in Worker : w < N => last_graph[w] = n_graph
    /\ \A w \in Worker : In(w) => last_graph[w] = n_graph
    /\ Open => \A w \in Worker : w < N /\ last_graph[w] = n_graph => In(w)
    /\ \A w \in Worker : last_graph[w].count = n_graph.count => last_graph[w] = n_graph

\* The count of the barrier is of those who wait there, and whoever resets it is the last to come
Releasing == \E t \in Thread : pc[t] \in {"reset", "release"}
BarrierInv ==
    /\ \A t \in Thread : pc[t] \in {"arrive", "reset", "release"} => n_passed[t] = n_barrier_passed
    /\ (\A t \in Thread : pc[t] # "release") => n_barrier = Cardinality({t \in Thread : Waiting(t)})
    /\ \A t \in Thread : pc[t] \in {"reset", "release"} =>
         /\ \A u \in Members \ {t} : pc[u] = "spin" /\ n_passed[u] = n_barrier_passed
         /\ pc[t] = "release" => n_barrier = 0
    /\ Open /\ ~Releasing => n_barrier < N

\* All that wait at the barrier go on at the same place
Together ==
    \A t \in Thread : pc[t] = "release" => \A u \in Members : back[u] = back[t] /\ node_n[u] = node_n[t]

LEMMA MembersAre == Shape => Members \subseteq Thread /\ (N > 0 => 0 \in Members) /\ N \in Nat
                             /\ \A t \in Thread : t \in Members <=> t < N
BY Sizes DEF Shape, Members, N, Thread

\* A step that moves no thread at the barrier keeps what is known of it.
LEMMA BarrierSame ==
    ASSUME Shape, BarrierInv, UNCHANGED <<n_graph, n_barrier, n_barrier_passed>>, Open' => Open,
           \A u \in Thread : n_passed'[u] = n_passed[u],
           \A u \in Thread : \A p \in {"arrive", "reset", "release", "spin"} : pc'[u] = p <=> pc[u] = p
    PROVE  BarrierInv'
<1>1. N' = N /\ Members' = Members /\ Members \subseteq Thread
  <2>1. Members \subseteq Thread
    BY MembersAre
  <2> QED BY <2>1 DEF N, Members
<1>2. {u \in Thread : Waiting(u)'} = {u \in Thread : Waiting(u)}
  BY DEF Waiting
<1>3. Releasing' <=> Releasing
  BY DEF Releasing
<1>4. \A u \in Thread : pc'[u] \in {"arrive", "reset", "release"} => n_passed'[u] = n_barrier_passed'
  BY DEF BarrierInv
<1>5. (\A u \in Thread : pc'[u] # "release") => n_barrier' = Cardinality({u \in Thread : Waiting(u)'})
  BY <1>2 DEF BarrierInv
<1>6. ASSUME NEW t \in Thread, pc'[t] \in {"reset", "release"}
      PROVE  /\ \A u \in Members' \ {t} : pc'[u] = "spin" /\ n_passed'[u] = n_barrier_passed'
             /\ pc'[t] = "release" => n_barrier' = 0
  <2>1. pc[t] \in {"reset", "release"} /\ (pc'[t] = "release" => pc[t] = "release")
    BY <1>6
  <2> QED BY <1>1, <2>1 DEF BarrierInv
<1>7. Open' /\ ~Releasing' => n_barrier' < N'
  BY <1>1, <1>3 DEF BarrierInv
<1> QED BY <1>4, <1>5, <1>6, <1>7 DEF BarrierInv

LEMMA MemberInit == Init => MemberInv /\ BarrierInv
<1> SUFFICES ASSUME Init PROVE MemberInv /\ BarrierInv
  OBVIOUS
<1>1. /\ \A t \in Thread : pc[t] \in {"call", "pause"}
      /\ \A w \in Worker : last_graph[w] = n_graph
      /\ n_barrier = 0
  BY Sizes DEF Init
<1>2. \A t \in Thread : ~In(t) /\ ~Waiting(t) /\ pc[t] \notin {"arrive", "reset", "release"}
  BY <1>1 DEF In, Places, Waiting
<1>3. ~Open
  BY <1>1, <1>2, Sizes DEF Open
<1>4. {t \in Thread : Waiting(t)} = {}
  BY <1>2
<1>5. MemberInv
  BY <1>1, <1>2, <1>3 DEF MemberInv
<1>6. BarrierInv
  BY <1>1, <1>2, <1>3, <1>4, FS_EmptySet DEF BarrierInv
<1> QED BY <1>5, <1>6

\* A thread's step that neither touches the barrier nor leaves the graph.
LEMMA InsideMember ==
    ASSUME Shape, MemberInv, BarrierInv, NEW t \in Thread,
           pc[t] \in Places \ {"arrive", "reset", "release", "spin"},
           pc'[t] \in Places \ {"start", "reset", "release", "spin"},
           pc'[t] = "arrive" => n_passed'[t] = n_barrier_passed,
           (nth'[t] = nth[t] /\ pc[t] # "start") \/ nth'[t] = N,
           \A u \in Thread \ {t} : Kept(u),
           UNCHANGED <<n_graph, last_graph, n_barrier, n_barrier_passed>>
    PROVE  MemberInv' /\ BarrierInv'
<1>1. \A u \in Thread \ {t} : /\ In(u)' <=> In(u)
                              /\ Waiting(u)' <=> Waiting(u)
                              /\ pc'[u] = pc[u] /\ nth'[u] = nth[u] /\ n_passed'[u] = n_passed[u]
  BY DEF In, Left, LetGo, Waiting, Kept
<1>2. In(t) /\ In(t)' /\ ~Waiting(t) /\ ~Waiting(t)' /\ pc'[t] # "start" /\ pc[t] # "wake" /\ pc'[t] # "wake"
  BY DEF In, Left, LetGo, Waiting, Places
<1>3. Open' <=> Open
  BY <1>1, <1>2, Sizes DEF Open
<1>4. {u \in Thread : Waiting(u)'} = {u \in Thread : Waiting(u)}
  BY <1>1, <1>2
<1>5. N' = N /\ Members' = Members
  BY DEF N, Members
<1>6. MemberInv'
  BY <1>1, <1>2, <1>3, <1>5, Sizes DEF MemberInv
<1>7. Releasing' <=> Releasing
  BY <1>1 DEF Releasing
<1>8. \A u \in Thread : pc[u] \notin {"reset", "release"}
  <2>1. t \in Members /\ t \in Thread
    BY <1>2, MembersAre DEF MemberInv
  <2> QED BY <2>1 DEF BarrierInv
<1>9. BarrierInv'
  BY <1>1, <1>3, <1>4, <1>5, <1>7, <1>8 DEF BarrierInv
<1> QED BY <1>6, <1>9

LEMMA ArriveMember ==
    ASSUME Shape, MemberInv, BarrierInv, NEW t \in Thread, Arrive(t)
    PROVE  MemberInv' /\ BarrierInv'
<1> DEFINE W == {u \in Thread : Waiting(u)}
<1>0. PICK l \in {"reset", "spin"} :
        /\ l = IF n_barrier = n_graph.n - 1 THEN "reset" ELSE "spin"
        /\ Becomes(t, l, nth[t], node_n[t], chunk[t], n_passed[t], back[t])
  BY ArriveStep DEF Shape
<1>1. pc[t] = "arrive" /\ UNCHANGED n_barrier_passed /\ n_barrier' = n_barrier + 1
  BY ArriveStep DEF Shape
<1>2. /\ pc'[t] = l /\ nth'[t] = nth[t] /\ n_passed'[t] = n_passed[t]
      /\ \A u \in Thread \ {t} : Kept(u)
      /\ UNCHANGED <<n_graph, last_graph>>
  BY <1>0 DEF Becomes
<1>3. N' = N /\ Members' = Members /\ n_passed[t] = n_barrier_passed
  BY <1>1, <1>2 DEF N, Members, BarrierInv
<1>4. \A u \in Thread \ {t} : /\ In(u)' <=> In(u)
                              /\ Waiting(u)' <=> Waiting(u)
                              /\ pc'[u] = pc[u] /\ nth'[u] = nth[u] /\ n_passed'[u] = n_passed[u]
  BY <1>1, <1>2 DEF In, Left, LetGo, Waiting, Kept
<1>5. In(t) /\ In(t)' /\ ~Waiting(t) /\ Waiting(t)' /\ pc[t] # "wake" /\ pc'[t] # "wake" /\ pc'[t] # "start"
  BY <1>0, <1>1, <1>2, <1>3 DEF In, Left, LetGo, Waiting, Places
<1>6. Open' /\ Open
  BY <1>4, <1>5, Sizes DEF Open, MemberInv
<1>7. MemberInv'
  BY <1>1, <1>2, <1>3, <1>4, <1>5, <1>6, Sizes DEF MemberInv
<1>8. t \in Members /\ Members \subseteq Thread /\ N \in 1..NThread
  BY <1>5, <1>6, MembersAre DEF MemberInv
<1>9. \A u \in Thread : pc[u] \notin {"reset", "release"}
  BY <1>1, <1>8 DEF BarrierInv
<1>10. n_barrier = Cardinality(W) /\ n_barrier < N
  BY <1>6, <1>9 DEF BarrierInv, Releasing
<1>11. W \subseteq Members \ {t}
  <2>1. ASSUME NEW u \in Thread, Waiting(u) PROVE In(u)
    BY <2>1 DEF Waiting, In, Left, LetGo, Places
  <2> QED BY <2>1, <1>5, MembersAre DEF MemberInv
<1>12. IsFiniteSet(Members) /\ Cardinality(Members) = N
  <2>1. 0 \in Int /\ N - 1 \in Int /\ ~(0 > N - 1) /\ (N - 1) - 0 + 1 = N
    BY <1>8, Sizes
  <2> QED BY <2>1, FS_Interval DEF Members
<1>13. IsFiniteSet(Members \ {t}) /\ Cardinality(Members \ {t}) = N - 1
  BY <1>8, <1>12, FS_RemoveElement
<1>14. IsFiniteSet(W)
  BY <1>11, <1>13, FS_Subset
<1>15. W' = W \cup {t} /\ t \notin W
  BY <1>4, <1>5
<1>16. n_barrier' = Cardinality(W')
  BY <1>1, <1>10, <1>14, <1>15, FS_AddElement
<1>17. CASE l = "reset"
  <2>1. Cardinality(W) = Cardinality(Members \ {t})
    BY <1>0, <1>10, <1>13, <1>17 DEF N
  <2>2. W = Members \ {t}
    BY <1>11, <1>13, <2>1, FS_Subset
  <2>3. \A u \in Members \ {t} : pc[u] = "spin" /\ n_passed[u] = n_barrier_passed
    BY <1>8, <1>9, <2>2 DEF Waiting
  <2>4. Releasing' /\ \A u \in Thread : pc'[u] # "release" /\ (pc'[u] = "reset" => u = t)
    BY <1>2, <1>4, <1>9, <1>17 DEF Releasing
  <2>5. \A u \in Members \ {t} : pc'[u] = "spin" /\ n_passed'[u] = n_barrier_passed'
    BY <1>1, <1>4, <1>8, <2>3
  <2>6. \A u \in Thread : pc'[u] \in {"arrive", "reset", "release"} => n_passed'[u] = n_barrier_passed'
    BY <1>1, <1>2, <1>3, <1>4 DEF BarrierInv
  <2> QED BY <1>3, <1>7, <1>16, <2>4, <2>5, <2>6 DEF BarrierInv
<1>18. CASE l = "spin"
  <2>1. n_barrier' < N
    BY <1>0, <1>1, <1>8, <1>10, <1>18 DEF Shape, N
  <2>2. \A u \in Thread : pc'[u] \notin {"reset", "release"}
    BY <1>2, <1>4, <1>9, <1>18
  <2>3. \A u \in Thread : pc'[u] \in {"arrive", "reset", "release"} => n_passed'[u] = n_barrier_passed'
    BY <1>1, <1>2, <1>3, <1>4 DEF BarrierInv
  <2> QED BY <1>3, <1>7, <1>16, <2>1, <2>2, <2>3 DEF BarrierInv
<1> QED BY <1>17, <1>18

LEMMA ResetMember ==
    ASSUME Shape, MemberInv, BarrierInv, NEW t \in Thread, Reset(t)
    PROVE  MemberInv' /\ BarrierInv'
<1>1. /\ pc[t] = "reset" /\ UNCHANGED n_barrier_passed /\ n_barrier' = 0
      /\ Becomes(t, "release", nth[t], node_n[t], chunk[t], n_passed[t], back[t])
  BY ResetStep DEF Shape
<1>2. /\ pc'[t] = "release" /\ nth'[t] = nth[t] /\ n_passed'[t] = n_passed[t]
      /\ \A u \in Thread \ {t} : Kept(u)
      /\ UNCHANGED <<n_graph, last_graph>>
  BY <1>1 DEF Becomes
<1>3. N' = N /\ Members' = Members
  BY <1>2 DEF N, Members
<1>4. \A u \in Thread \ {t} : /\ In(u)' <=> In(u)
                              /\ pc'[u] = pc[u] /\ nth'[u] = nth[u] /\ n_passed'[u] = n_passed[u]
  BY <1>1, <1>2 DEF In, Left, LetGo, Kept
<1>5. In(t) /\ In(t)' /\ pc[t] # "wake" /\ pc'[t] # "wake" /\ pc'[t] # "start"
  BY <1>1, <1>2 DEF In, Left, LetGo, Places
<1>6. Open' /\ Open
  BY <1>4, <1>5, Sizes DEF Open, MemberInv
<1>7. MemberInv'
  BY <1>1, <1>2, <1>3, <1>4, <1>5, <1>6, Sizes DEF MemberInv
<1>8. t \in Members /\ Members \subseteq Thread
  BY <1>5, MembersAre DEF MemberInv
<1>9. \A u \in Thread \ {t} : pc[u] \notin {"reset", "release"}
  BY <1>1, <1>8 DEF BarrierInv
<1>10. BarrierInv'
  <2>1. \A u \in Thread : pc'[u] \in {"arrive", "reset", "release"} => n_passed'[u] = n_barrier_passed'
    BY <1>1, <1>2, <1>4 DEF BarrierInv
  <2>2. \A u \in Members \ {t} : pc'[u] = "spin" /\ n_passed'[u] = n_barrier_passed'
    BY <1>1, <1>4, <1>8 DEF BarrierInv
  <2>3. Releasing'
    BY <1>2 DEF Releasing
  <2> QED BY <1>1, <1>2, <1>3, <1>4, <1>9, <2>1, <2>2, <2>3 DEF BarrierInv
<1> QED BY <1>7, <1>10

\* The last to come lets everybody go, for good or into the next part of the graph.
LEMMA ReleaseLets ==
    ASSUME Shape, MemberInv, BarrierInv, Together, NEW t \in Thread, Release(t)
    PROVE  /\ pc[t] = "release" /\ UNCHANGED n_barrier /\ n_barrier_passed' = n_barrier_passed + 1
           /\ pc'[t] = BackTo(t) /\ UNCHANGED <<n_graph, last_graph, nth, node_n, chunk, n_passed, back>>
           /\ UNCHANGED <<current_chunk, abort, ec, done, redone>>
           /\ N' = N /\ Members' = Members
           /\ In(t) /\ Open /\ t \in Members /\ Members \subseteq Thread /\ 0 \in Members /\ N \in 1..NThread
           /\ \A u \in Members \ {t} : pc[u] = "spin" /\ n_passed[u] = n_barrier_passed
           /\ n_barrier = 0 /\ n_barrier_passed \in Nat /\ \A u \in Thread : n_passed[u] # n_barrier_passed'
           /\ \A u \in Thread : In(u) <=> u \in Members
           /\ back[t] \in {"node", "chunk", "end"}
           /\ \A u \in Members : back[u] = back[t] /\ node_n[u] = node_n[t]
           /\ \A u \in Thread \ {t} : pc'[u] = pc[u]
           /\ \A u \in Thread : In(u)' <=> u \in Members /\ back[t] # "end"
           /\ Open' <=> back[t] # "end"
<1>1. /\ pc[t] = "release" /\ UNCHANGED n_barrier /\ n_barrier_passed' = n_barrier_passed + 1
      /\ Becomes(t, BackTo(t), nth[t], node_n[t], chunk[t], n_passed[t], back[t])
  BY ReleaseStep DEF Shape
<1>2. /\ pc'[t] = BackTo(t) /\ nth'[t] = nth[t] /\ n_passed'[t] = n_passed[t] /\ back'[t] = back[t]
      /\ \A u \in Thread \ {t} : Kept(u)
      /\ UNCHANGED <<n_graph, last_graph>>
  BY <1>1 DEF Becomes
<1>3. N' = N /\ Members' = Members
  BY <1>2 DEF N, Members
<1>4. In(t) /\ Open /\ t \in Members /\ Members \subseteq Thread /\ 0 \in Members /\ N \in 1..NThread
  <2>1. In(t)
    BY <1>1 DEF In, Left, LetGo, Places
  <2> QED BY <2>1, MembersAre DEF MemberInv
<1>5. \A u \in Members \ {t} : pc[u] = "spin" /\ n_passed[u] = n_barrier_passed
  BY <1>1 DEF BarrierInv
<1>6. n_barrier = 0 /\ n_barrier_passed \in Nat /\ \A u \in Thread : n_passed[u] # n_barrier_passed'
  BY <1>1 DEF BarrierInv, Shape, LocalType
<1>7. \A u \in Thread : In(u) <=> u \in Members
  <2>1. \A u \in Members : In(u)
    BY <1>4, <1>5 DEF In, Left, LetGo, Places
  <2> QED BY <2>1, MembersAre DEF MemberInv
<1>8. back[t] \in {"node", "chunk", "end"} /\ \A u \in Members : back[u] = back[t]
  BY <1>1, <1>4 DEF Together, Shape, LocalType
<1>12. UNCHANGED <<nth, node_n, chunk, n_passed, back>>
  <2>1. \A u \in Thread : /\ nth'[u] = nth[u] /\ node_n'[u] = node_n[u] /\ chunk'[u] = chunk[u]
                         /\ n_passed'[u] = n_passed[u] /\ back'[u] = back[u]
    BY <1>1 DEF Becomes, Kept
  <2>2. LocalType /\ LocalType'
    BY <1>1 DEF Becomes, Shape
  <2> QED BY <2>1, <2>2 DEF LocalType
<1>13. UNCHANGED <<current_chunk, abort, ec, done, redone>>
  BY ReleaseStep DEF Shape, ghost
<1>9. \A u \in Thread \ {t} : /\ pc'[u] = pc[u] /\ nth'[u] = nth[u] /\ n_passed'[u] = n_passed[u]
                              /\ back'[u] = back[u]
  BY <1>2 DEF Kept
\* who is in the graph afterwards
<1>10. \A u \in Thread : In(u)' <=> u \in Members /\ back[t] # "end"
  <2>1. In(t)' <=> back[t] # "end"
    BY <1>2, <1>8, <1>4 DEF In, Left, LetGo, Places, BackTo
  <2>2. ASSUME NEW u \in Members \ {t} PROVE In(u)' <=> back[t] # "end"
    <3>1. pc'[u] = "spin" /\ n_passed'[u] # n_barrier_passed' /\ back'[u] = back[t]
      BY <1>4, <1>5, <1>6, <1>8, <1>9, <2>2
    <3> QED BY <3>1 DEF In, Left, LetGo, Places
  <2>3. ASSUME NEW u \in Thread \ Members PROVE ~In(u)'
    <3>1. pc'[u] = pc[u] /\ back'[u] = back[u] /\ n_passed'[u] # n_barrier_passed' /\ ~In(u)
      BY <1>4, <1>6, <1>7, <1>9, <2>3
    <3> QED BY <3>1 DEF In, Left, LetGo
  <2> QED BY <1>4, <2>1, <2>2, <2>3
<1>11. Open' <=> back[t] # "end"
  <2>1. pc'[0] # "wake"
    BY <1>1, <1>2, <1>4, <1>5, <1>8, <1>9 DEF BackTo
  <2> QED BY <1>4, <1>10, <2>1, Sizes DEF Open
<1>14. \A u \in Members : node_n[u] = node_n[t]
  BY <1>1, <1>4 DEF Together
<1> QED BY <1>1, <1>2, <1>3, <1>4, <1>5, <1>6, <1>7, <1>8, <1>9, <1>10, <1>11, <1>12, <1>13, <1>14

LEMMA ReleaseMember ==
    ASSUME Shape, MemberInv, BarrierInv, Together, NEW t \in Thread, Release(t)
    PROVE  MemberInv' /\ BarrierInv'
<1>1. /\ pc[t] = "release" /\ UNCHANGED n_barrier /\ pc'[t] = BackTo(t)
      /\ UNCHANGED <<n_graph, last_graph, nth, n_passed>>
  BY ReleaseLets
<1>3. N' = N /\ Members' = Members /\ In(t) /\ Open /\ t \in Members /\ Members \subseteq Thread
      /\ 0 \in Members /\ N \in 1..NThread
  BY ReleaseLets
<1>5. \A u \in Members \ {t} : pc[u] = "spin" /\ n_passed[u] = n_barrier_passed
  BY ReleaseLets
<1>6. n_barrier = 0 /\ \A u \in Thread : n_passed[u] # n_barrier_passed'
  BY ReleaseLets
<1>7. /\ \A u \in Thread : In(u) <=> u \in Members
      /\ back[t] \in {"node", "chunk", "end"}
      /\ \A u \in Thread \ {t} : pc'[u] = pc[u]
  BY ReleaseLets
<1>10. (\A u \in Thread : In(u)' <=> u \in Members /\ back[t] # "end") /\ (Open' <=> back[t] # "end")
  BY ReleaseLets
<1>12. MemberInv'
  <2>1. \A w \in Worker : w < N => In(w) /\ last_graph[w] = n_graph
    BY <1>7, MembersAre, Sizes DEF MemberInv
  <2>2. \A u \in Thread : u \in Members => u < N /\ (pc[u] # "start" => nth[u] = N)
    BY <1>7 DEF MemberInv
  <2>3. \A u \in Thread : u \in Members => nth'[u] = N
    BY <1>1, <1>3, <1>5, <1>7, <2>2
  <2>4. \A u \in Thread : In(u)' => Open' /\ u < N' /\ (pc'[u] # "start" => nth'[u] = N')
    BY <1>3, <1>10, <2>2, <2>3
  <2>5. \A w \in Worker : last_graph'[w].count = n_graph'.count => last_graph'[w] = n_graph'
    BY <1>1 DEF MemberInv
  <2>6. \A w \in Worker : w < N => w \in Members
    BY MembersAre, Sizes
  <2> QED BY <1>1, <1>3, <1>10, <2>1, <2>4, <2>5, <2>6, Sizes, MembersAre DEF MemberInv
<1>13. \A u \in Thread : pc'[u] \notin {"arrive", "reset", "release"}
  <2>1. pc'[t] \notin {"arrive", "reset", "release"}
    BY <1>1, <1>7 DEF BackTo
  <2>2. ASSUME NEW u \in Thread \ {t}, pc[u] \in {"arrive", "reset", "release"} PROVE FALSE
    <3>1. In(u)
      BY <2>2 DEF In, Left, LetGo, Places
    <3> QED BY <1>5, <1>7, <2>2, <3>1
  <2> QED BY <1>7, <2>1, <2>2
<1>14. {u \in Thread : Waiting(u)'} = {}
  BY <1>1, <1>6, <1>13 DEF Waiting
<1>15. BarrierInv'
  <2>1. {u \in Thread : Waiting(u)}' = {}
    BY <1>14
  <2> QED BY <1>1, <1>3, <1>6, <1>10, <1>13, <2>1, FS_EmptySet DEF BarrierInv
<1> QED BY <1>12, <1>15

LEMMA SpinMember ==
    ASSUME Shape, MemberInv, BarrierInv, NEW t \in Thread, Spin(t)
    PROVE  MemberInv' /\ BarrierInv'
<1>1. /\ LetGo(t) /\ UNCHANGED <<n_barrier, n_barrier_passed>>
      /\ Becomes(t, BackTo(t), nth[t], node_n[t], chunk[t], n_passed[t], back[t])
  BY SpinStep DEF Shape, LetGo, shared
<1>2. /\ pc'[t] = BackTo(t) /\ nth'[t] = nth[t] /\ n_passed'[t] = n_passed[t] /\ back'[t] = back[t]
      /\ \A u \in Thread \ {t} : Kept(u)
      /\ UNCHANGED <<n_graph, last_graph>>
  BY <1>1 DEF Becomes
<1>3. N' = N /\ Members' = Members /\ back[t] \in {"node", "chunk", "end"}
  BY <1>2 DEF N, Members, Shape, LocalType
<1>4. \A u \in Thread \ {t} : /\ In(u)' <=> In(u)
                              /\ Waiting(u)' <=> Waiting(u)
                              /\ pc'[u] = pc[u] /\ nth'[u] = nth[u] /\ n_passed'[u] = n_passed[u]
  BY <1>1, <1>2 DEF In, Left, LetGo, Waiting, Kept
<1>5. pc[t] = "spin" /\ pc'[t] \in {"node", "chunk", "call", "pause"} /\ (In(t)' <=> In(t)) /\ ~Waiting(t) /\ ~Waiting(t)'
  BY <1>1, <1>2, <1>3 DEF In, Left, LetGo, Waiting, Places, BackTo
<1>6. Open' <=> Open
  BY <1>4, <1>5, Sizes DEF Open
<1>7. MemberInv'
  BY <1>2, <1>3, <1>4, <1>5, <1>6, Sizes DEF MemberInv
<1>8. {u \in Thread : Waiting(u)'} = {u \in Thread : Waiting(u)}
  BY <1>4, <1>5
<1>9. BarrierInv'
  <2>1. \A u \in Thread : pc'[u] \in {"arrive", "reset", "release"} <=> pc[u] \in {"arrive", "reset", "release"} /\ u # t
    BY <1>4, <1>5
  <2>2. Releasing' <=> Releasing
    BY <1>4, <1>5 DEF Releasing
  <2>3. ASSUME NEW u \in Thread, pc'[u] \in {"reset", "release"}
        PROVE  /\ \A v \in Members \ {u} : pc'[v] = "spin" /\ n_passed'[v] = n_barrier_passed'
               /\ pc'[u] = "release" => n_barrier' = 0
    <3>1. u # t /\ pc'[u] = pc[u]
      BY <1>4, <1>5, <2>3
    <3>2. \A v \in Members \ {u} : pc[v] = "spin" /\ n_passed[v] = n_barrier_passed
      BY <2>3, <3>1 DEF BarrierInv
    <3>3. t \notin Members
      BY <1>1, <3>1, <3>2 DEF LetGo
    <3> QED BY <1>1, <1>4, <2>3, <3>1, <3>2, <3>3, MembersAre DEF BarrierInv
  <2>4. \A u \in Thread : pc'[u] \in {"arrive", "reset", "release"} => n_passed'[u] = n_barrier_passed'
    BY <1>1, <1>4, <2>1 DEF BarrierInv
  <2>5. (\A u \in Thread : pc'[u] # "release") => \A u \in Thread : pc[u] # "release"
    BY <1>4, <1>5
  <2> QED BY <1>1, <1>3, <1>6, <1>8, <2>2, <2>3, <2>4, <2>5 DEF BarrierInv
<1> QED BY <1>7, <1>9

\* The barrier for one thread alone.
LEMMA AloneMember ==
    ASSUME Shape, MemberInv, BarrierInv, NEW t \in Thread, AtBarrier(t), N = 1
    PROVE  MemberInv' /\ BarrierInv'
<1>1. /\ pc[t] = "barrier" /\ UNCHANGED <<n_barrier, n_barrier_passed>>
      /\ Becomes(t, BackTo(t), nth[t], node_n[t], chunk[t], n_passed[t], back[t])
  BY AtBarrierStep DEF Shape, N, shared
<1>2. /\ pc'[t] = BackTo(t) /\ nth'[t] = nth[t] /\ n_passed'[t] = n_passed[t] /\ back'[t] = back[t]
      /\ \A u \in Thread \ {t} : Kept(u)
      /\ UNCHANGED <<n_graph, last_graph>>
  BY <1>1 DEF Becomes
<1>3. N' = N /\ Members' = Members /\ back[t] \in {"node", "chunk", "end"}
  BY <1>2 DEF N, Members, Shape, LocalType
<1>4. \A u \in Thread \ {t} : /\ In(u)' <=> In(u)
                              /\ Waiting(u)' <=> Waiting(u)
                              /\ pc'[u] = pc[u] /\ nth'[u] = nth[u] /\ n_passed'[u] = n_passed[u]
  BY <1>1, <1>2 DEF In, Left, LetGo, Waiting, Kept
<1>5. In(t) /\ ~Waiting(t) /\ ~Waiting(t)' /\ pc'[t] \in {"node", "chunk", "call", "pause"}
  BY <1>1, <1>2, <1>3 DEF In, Left, LetGo, Waiting, Places, BackTo
<1>6. Open /\ t = 0 /\ \A u \in Thread \ {t} : ~In(u)
  BY <1>5, Sizes DEF MemberInv
<1>7. (Open' <=> In(t)') /\ \A w \in Worker : ~(w < N)
  BY <1>5, <1>6, Sizes DEF Open
<1>8. MemberInv'
  <2>1. \A u \in Thread : In(u)' => u = t /\ u < N /\ nth'[u] = N
    BY <1>1, <1>2, <1>4, <1>5, <1>6 DEF MemberInv
  <2>2. \A w \in Worker : w # t /\ w \in Thread
    BY <1>6, Sizes
  <2>3. N \in 1..NThread
    BY <1>6 DEF MemberInv
  <2>4. \A w \in Worker : last_graph'[w].count = n_graph'.count => last_graph'[w] = n_graph'
    BY <1>2 DEF MemberInv
  <2> QED BY <1>3, <1>7, <2>1, <2>2, <2>3, <2>4 DEF MemberInv
<1>9. {u \in Thread : Waiting(u)'} = {u \in Thread : Waiting(u)}
  BY <1>4, <1>5
<1>10. \A u \in Thread : pc[u] \notin {"arrive", "reset", "release"} /\ pc'[u] \notin {"arrive", "reset", "release"}
  <2>1. \A u \in Thread : pc[u] \in {"arrive", "reset", "release"} => In(u)
    BY DEF In, Left, LetGo, Places
  <2> QED BY <1>1, <1>4, <1>5, <1>6, <2>1
<1>11. BarrierInv'
  BY <1>1, <1>3, <1>6, <1>9, <1>10 DEF BarrierInv, Releasing
<1> QED BY <1>8, <1>11

LEMMA MemberStep ==
    Shape /\ NodeInv /\ MemberInv /\ BarrierInv /\ Together /\ [Next]_vars => MemberInv' /\ BarrierInv'
<1> SUFFICES ASSUME Shape, NodeInv, MemberInv, BarrierInv, Together, [Next]_vars PROVE MemberInv' /\ BarrierInv'
  OBVIOUS
\* a step of a thread outside graphs that stays outside
<1>1. ASSUME NEW h \in Thread, pc[h] \notin Places \cup {"wake"}, pc'[h] \notin Places \cup {"wake"},
             \A u \in Thread \ {h} : pc'[u] = pc[u],
             \A v \in Worker \ {h} : last_graph'[v] = last_graph[v],
             h \in Worker => last_graph'[h] \in {last_graph[h], n_graph},
             h \in Worker /\ last_graph'[h] # last_graph[h] => ~(h < n_graph.n),
             UNCHANGED <<n_graph, n_barrier, n_barrier_passed, local>>
      PROVE  MemberInv' /\ BarrierInv'
  <2>1. \A u \in Thread : /\ In(u)' <=> In(u)
                          /\ Waiting(u)' <=> Waiting(u)
                          /\ nth'[u] = nth[u] /\ n_passed'[u] = n_passed[u]
    BY <1>1 DEF In, Left, LetGo, Waiting, Places, local
  <2>2. \A u \in Thread : /\ u # h => pc'[u] = pc[u]
                          /\ pc'[u] \in Places \/ pc[u] \in Places => u # h
    BY <1>1
  <2>3. Open' <=> Open
    BY <1>1, <2>1, Sizes DEF Open
  <2>4. N' = N /\ Members' = Members
    BY <1>1 DEF N, Members
  <2>6. \A u \in Thread : In(u) => u # h
    BY <2>2 DEF In
  <2>7. MemberInv'
    <3>1. \A u \in Thread : In(u)' => Open' /\ u < N' /\ (pc'[u] # "start" => nth'[u] = N')
      BY <2>1, <2>2, <2>3, <2>4, <2>6 DEF MemberInv
    <3>2. ~Open' => \A w \in Worker : w < N' => last_graph'[w] = n_graph'
      BY <1>1, <2>3, <2>4 DEF MemberInv
    <3>3. \A w \in Worker : In(w)' => last_graph'[w] = n_graph'
      BY <1>1, <2>1, <2>6, Sizes DEF MemberInv
    <3>4. Open' => \A w \in Worker : w < N' /\ last_graph'[w] = n_graph' => In(w)'
      BY <1>1, <2>1, <2>3, <2>4, <2>6, Sizes DEF MemberInv, N
    <3>5. \A w \in Worker : last_graph'[w].count = n_graph'.count => last_graph'[w] = n_graph'
      BY <1>1 DEF MemberInv
    <3> QED BY <2>3, <2>4, <3>1, <3>2, <3>3, <3>4, <3>5 DEF MemberInv
  <2>8. \A u \in Thread : \A l \in {"arrive", "reset", "release", "spin"} : pc'[u] = l <=> pc[u] = l
    BY <1>1 DEF Places
  <2>9. BarrierInv'
    BY <1>1, <2>1, <2>3, <2>8, BarrierSame
  <2> QED BY <2>7, <2>9
\* nobody is in a graph
<1>2. ASSUME ~Open PROVE /\ \A u \in Thread : ~In(u) /\ ~Waiting(u) /\ pc[u] \notin {"arrive", "reset", "release"}
                         /\ n_barrier = 0
  <2>1. \A u \in Thread : ~In(u)
    BY <1>2 DEF MemberInv
  <2>2. \A u \in Thread : ~Waiting(u) /\ pc[u] \notin {"arrive", "reset", "release"}
    BY <2>1 DEF In, Left, LetGo, Waiting, Places
  <2>3. {u \in Thread : Waiting(u)} = {}
    BY <2>2
  <2> QED BY <2>1, <2>2, <2>3, FS_EmptySet DEF BarrierInv
<1>3. CASE Compute \/ PauseResume \/ Free \/ Unpause \/ Join
  <2>1. /\ pc[0] \notin Places \cup {"wake"} /\ pc'[0] \notin Places \cup {"wake"}
        /\ \A u \in Thread \ {0} : pc'[u] = pc[u]
        /\ UNCHANGED <<watch, local, n_graph, n_barrier, n_barrier_passed>>
    BY <1>3, CallerSteps DEF Calls, Places, shared, signal, Shape
  <2> QED BY <1>1, <2>1, Sizes DEF watch
<1>4. CASE Kickoff
  <2>1. /\ pc[0] = "kickoff" /\ pc'[0] = "wake" /\ \A u \in Thread \ {0} : pc'[u] = pc[u]
        /\ \E n \in 1..NThread : n_graph' = [count |-> n_graph.count + 1, n |-> n]
        /\ UNCHANGED <<watch, local, n_barrier, n_barrier_passed>>
    BY <1>4, CallerSteps DEF Calls, shared, Shape
  <2>2. ~Open
    BY <2>1 DEF Open, In, Places
  <2>3. Open' /\ N' \in 1..NThread /\ n_graph'.count = n_graph.count + 1
    BY <2>1 DEF Open, N
  <2>4. \A u \in Thread : ~In(u)' /\ ~Waiting(u)' /\ pc'[u] \notin {"arrive", "reset", "release"}
    <3>1. ASSUME NEW u \in Thread \ {0} PROVE ~In(u)' /\ ~Waiting(u)' /\ pc'[u] \notin {"arrive", "reset", "release"}
      <4>1. pc'[u] = pc[u] /\ n_passed' = n_passed /\ back' = back /\ n_barrier_passed' = n_barrier_passed
        BY <2>1 DEF local
      <4> QED BY <1>2, <2>2, <4>1 DEF In, Left, LetGo, Waiting
    <3> QED BY <2>1, <3>1 DEF In, Waiting, Places
  <2>5. \A w \in Worker : last_graph'[w].count # n_graph'.count /\ last_graph'[w] # n_graph'
    <3>1. ASSUME NEW w \in Worker PROVE last_graph'[w].count # n_graph'.count
      <4>1. last_graph'[w] = last_graph[w] /\ last_graph[w].count <= n_graph.count
        BY <2>1 DEF watch, Shape
      <4>2. last_graph[w].count \in Nat /\ n_graph.count \in Nat
        BY DEF Shape, WatchType
      <4> QED BY <2>3, <4>1, <4>2
    <3> QED BY <3>1
  <2>6. {u \in Thread : Waiting(u)'} = {}
    BY <2>4
  <2>7. MemberInv'
    BY <2>3, <2>4, <2>5, Sizes DEF MemberInv
  <2>8. n_barrier' = 0 /\ 0 < N'
    BY <1>2, <2>1, <2>2, <2>3
  <2>9. BarrierInv'
    BY <2>4, <2>6, <2>8, FS_EmptySet DEF BarrierInv
  <2> QED BY <2>7, <2>9
<1>5. CASE Wake
  <2>1. /\ pc[0] = "wake" /\ pc'[0] = "start" /\ \A u \in Thread \ {0} : pc'[u] = pc[u]
        /\ UNCHANGED <<watch, local, n_graph, n_barrier, n_barrier_passed>>
    BY <1>5, CallerSteps DEF Calls, shared, Shape
  <2>2. /\ \A u \in Thread \ {0} : In(u)' <=> In(u)
        /\ \A u \in Thread : Waiting(u)' <=> Waiting(u)
        /\ \A u \in Thread : nth'[u] = nth[u] /\ n_passed'[u] = n_passed[u]
        /\ In(0)' /\ ~In(0)
    BY <2>1, Sizes DEF In, Left, LetGo, Waiting, Places, local
  <2>3. Open /\ Open' /\ N' = N /\ Members' = Members
    BY <2>1, <2>2 DEF Open, N, Members
  <2>5. MemberInv'
    <3>1. 0 < N' /\ \A w \in Worker : w \in Thread \ {0}
      BY <2>3, Sizes DEF MemberInv
    <3>2. \A u \in Thread : In(u)' => u < N' /\ (pc'[u] # "start" => nth'[u] = N')
      BY <2>1, <2>2, <2>3, <3>1 DEF MemberInv
    <3> QED BY <2>1, <2>2, <2>3, <3>1, <3>2 DEF MemberInv, watch
  <2>6. \A u \in Thread : \A l \in {"arrive", "reset", "release", "spin"} : pc'[u] = l <=> pc[u] = l
    BY <2>1
  <2>8. BarrierInv'
    BY <2>1, <2>2, <2>3, <2>6, BarrierSame
  <2> QED BY <2>5, <2>8
<1>6. ASSUME NEW t \in Thread, InGraph(t) PROVE MemberInv' /\ BarrierInv'
  <2>1. CASE Start(t) \/ NextNode(t) \/ Plain(t) \/ MatInput(t) \/ Chunk(t) \/ Grab(t) \/ Computed(t)
             \/ (AtBarrier(t) /\ N # 1)
    <3>0. N \in 0..NThread /\ (node_n[t] \in Real => Graph[node_n[t]] \in {"plain", "mat"})
      BY Sizes DEF N, Shape, Real
    <3>1. /\ pc[t] \in {"start", "node", "plain", "mat", "chunk", "grab", "computed", "barrier"}
          /\ pc'[t] \in {"node", "plain", "mat", "chunk", "grab", "computed", "barrier", "arrive"}
          /\ pc'[t] = "arrive" => n_passed'[t] = n_barrier_passed
          /\ (nth'[t] = nth[t] /\ pc[t] # "start") \/ nth'[t] = N
      <4>1. CASE Start(t)
        BY <3>0, <4>1, StartStep DEF Shape, Becomes, N
      <4>2. CASE NextNode(t)
        BY <3>0, <4>2, NextNodeStep DEF Shape, Becomes, N
      <4>3. CASE Plain(t)
        BY <3>0, <4>3, PlainStep DEF Shape, Becomes, N
      <4>4. CASE MatInput(t)
        BY <3>0, <4>4, MatInputStep DEF Shape, Becomes, N
      <4>5. CASE Chunk(t)
        <5>1. /\ pc[t] = "chunk"
              /\ \E l \in {"computed", "grab"} :
                   Becomes(t, l, nth[t], node_n[t], chunk[t], n_passed[t], back[t])
          BY <4>5, ChunkStep DEF Shape
        <5> QED BY <5>1 DEF Becomes
      <4>6. CASE Grab(t)
        BY <3>0, <4>6, GrabStep DEF Shape, Becomes, N
      <4>7. CASE Computed(t)
        <5>1. pc[t] = "computed"
          BY <4>7, ComputedStep DEF Shape
        <5>2. \/ Becomes(t, "barrier", nth[t], node_n[t] + 1, chunk[t], n_passed[t], "node")
              \/ Becomes(t, "node", nth[t], node_n[t] + 1, chunk[t], n_passed[t], back[t])
          BY <4>7, ComputedStep DEF Shape
        <5> QED BY <5>1, <5>2 DEF Becomes
      <4>8. CASE AtBarrier(t) /\ N # 1
        BY <3>0, <4>8, AtBarrierStep DEF Shape, Becomes, N
      <4> QED BY <2>1, <4>1, <4>2, <4>3, <4>4, <4>5, <4>6, <4>7, <4>8
    <3>2. UNCHANGED <<n_barrier, n_barrier_passed>>
      BY <2>1, <3>0, StartStep, NextNodeStep, PlainStep, MatInputStep, ChunkStep, GrabStep, ComputedStep, AtBarrierStep
         DEF Shape, shared, N
    <3>3. (\A u \in Thread \ {t} : Kept(u)) /\ UNCHANGED <<n_graph, last_graph>>
      BY <1>6, InGraphStep DEF Shape
    <3> QED BY <3>1, <3>2, <3>3, InsideMember DEF Places
  <2>2. CASE AtBarrier(t) /\ N = 1
    BY <2>2, AloneMember
  <2>3. CASE Arrive(t)
    BY <2>3, ArriveMember
  <2>4. CASE Reset(t)
    BY <2>4, ResetMember
  <2>5. CASE Release(t)
    BY <2>5, ReleaseMember
  <2>6. CASE Spin(t)
    BY <2>6, SpinMember
  <2> QED BY <1>6, <2>1, <2>2, <2>3, <2>4, <2>5, <2>6 DEF InGraph
<1>7. ASSUME NEW w \in Worker, BetweenGraphs(w) PROVE MemberInv' /\ BarrierInv'
  <2>1. PICK l \in WorkerPlaces, g \in {last_graph[w], n_graph} :
          /\ Turns(w, l, g) /\ pc[w] \notin Places /\ (l \in Places => l = "start" /\ g = n_graph)
          /\ g # last_graph[w] => (l = "start" <=> w < n_graph.n)
          /\ l = "start" => g # last_graph[w]
    <3>1. WorkerStep(w)
      BY <1>7, BetweenGraphsStep DEF Shape
    <3> QED BY <3>1 DEF WorkerStep, WorkerPlaces, Places
  <2>2. /\ pc'[w] = l /\ last_graph'[w] = g
        /\ \A u \in Thread \ {w} : pc'[u] = pc[u]
        /\ \A v \in Worker \ {w} : last_graph'[v] = last_graph[v]
        /\ UNCHANGED <<n_graph, n_barrier, n_barrier_passed, local>>
    BY <2>1 DEF Turns, shared
  <2>3. CASE l # "start"
    <3>1. w \in Thread /\ pc[w] \notin Places \cup {"wake"} /\ pc'[w] \notin Places \cup {"wake"}
      BY <2>1, <2>2, <2>3, Sizes DEF Shape, WorkerPlaces, Places
    <3>2. w \in Worker => last_graph'[w] \in {last_graph[w], n_graph}
      BY <2>2
    <3>3. w \in Worker /\ last_graph'[w] # last_graph[w] => ~(w < n_graph.n)
      BY <2>1, <2>2, <2>3
    <3> QED BY <1>1, <2>2, <3>1, <3>2, <3>3
  <2>4. CASE l = "start"
    <3>1. w < N /\ g = n_graph /\ n_graph # last_graph[w]
      BY <2>1, <2>4 DEF N, Places
    <3>2. Open /\ w \in Thread /\ w # 0
      BY <3>1, Sizes DEF MemberInv
    <3>3. /\ \A u \in Thread \ {w} : In(u)' <=> In(u)
          /\ \A u \in Thread : Waiting(u)' <=> Waiting(u)
          /\ \A u \in Thread : nth'[u] = nth[u] /\ n_passed'[u] = n_passed[u]
          /\ In(w)'
      BY <2>1, <2>2, <2>4 DEF In, Left, LetGo, Waiting, Places, local
    <3>4. Open' /\ N' = N /\ Members' = Members
      BY <2>2, <3>2, <3>3, Sizes DEF Open, N, Members
    <3>6. MemberInv'
      BY <2>2, <2>4, <3>1, <3>2, <3>3, <3>4, Sizes DEF MemberInv
    <3>7. \A u \in Thread : \A p \in {"arrive", "reset", "release", "spin"} : pc'[u] = p <=> pc[u] = p
      BY <2>1, <2>2, <2>4 DEF Places
    <3>9. BarrierInv'
      BY <2>2, <3>2, <3>3, <3>7, BarrierSame
    <3> QED BY <3>6, <3>9
  <2> QED BY <2>3, <2>4
<1>8. CASE (\E w \in Worker : SpuriousWakeup(w)) \/ UNCHANGED vars
  <2>1. UNCHANGED <<pc, last_graph, n_graph, n_barrier, n_barrier_passed, local>>
    BY <1>8 DEF SpuriousWakeup, vars, signal, watch, shared
  <2>2. /\ (Open' <=> Open) /\ N' = N /\ Members' = Members /\ (Releasing' <=> Releasing)
        /\ \A u \in Thread : (In(u)' <=> In(u)) /\ (Waiting(u)' <=> Waiting(u))
    BY <2>1 DEF Open, In, Left, LetGo, Waiting, N, Members, Releasing, local
  <2>3. {u \in Thread : Waiting(u)'} = {u \in Thread : Waiting(u)}
    BY <2>2
  <2>4. UNCHANGED <<nth, n_passed>>
    BY <2>1 DEF local
  <2>5. MemberInv'
    BY <2>1, <2>2, <2>4, Sizes DEF MemberInv
  <2>6. BarrierInv'
    BY <2>1, <2>2, <2>3, <2>4 DEF BarrierInv
  <2> QED BY <2>5, <2>6
<1> QED BY Steps, <1>3, <1>4, <1>5, <1>6, <1>7, <1>8

-----------------------------------------------------------------------------
(* How far the threads are *)

Rest(m) == {i \in Real : i >= m}
Phase(i) == IF IsMat(i) THEN "chunks" ELSE "input"

\* The stage that begins at node m: the nodes left to compute, and how far the first of them is;
\* there is no barrier behind the last, so its stage goes on to the end
Ahead(m) ==
    IF m <= Len(Graph) THEN <<Rest(m), "input">>
    ELSE IF Len(Graph) \in Real THEN <<Rest(Len(Graph)), Phase(Len(Graph))>>
    ELSE <<{}, "input">>

\* The stage of the graph that t is in; it changes at a barrier only
Stage(t) ==
    IF ~In(t) \/ pc[t] = "start" THEN Ahead(1)
    ELSE IF pc[t] = "node" THEN Ahead(node_n[t])
    ELSE IF pc[t] \in {"plain", "mat"} THEN <<Rest(node_n[t]), "input">>
    ELSE IF pc[t] \in {"chunk", "grab"} THEN <<Rest(node_n[t]), "chunks">>
    ELSE IF pc[t] = "computed" THEN <<Rest(node_n[t]), Phase(node_n[t])>>
    ELSE IF back[t] = "chunk" THEN <<Rest(node_n[t]), IF LetGo(t) THEN "chunks" ELSE "input">>
    ELSE IF back[t] = "node" /\ ~LetGo(t) THEN <<Rest(node_n[t] - 1), Phase(node_n[t] - 1)>>
    ELSE Ahead(node_n[t])

\* All threads of the graph are in the same stage
StageInv == Open => \A t, u \in Members : Stage(t) = Stage(u)

\* A thread stops for good behind the last node, or where everyone is to stop
EndInv == \A t \in Thread :
    In(t) /\ Stopped(t) /\ back[t] = "end" => node_n[t] = Len(Graph) + 1 \/ node_n[t] = abort

\* t has come to the node that everyone is to stop before; it will go no further
NearAbort(t) ==
    /\ In(t) /\ node_n[t] = abort
    /\ pc[t] = "node" \/ ((Stopped(t) \/ LetGo(t)) /\ back[t] # "chunk")
AtAbort(t) ==
    /\ In(t) /\ node_n[t] = abort
    /\ pc[t] = "node" \/ (Stopped(t) /\ back[t] = "end") \/ (LetGo(t) /\ back[t] = "node")

\* Thread 0 has come there, and no one else has gone past it
AbortInv ==
    /\ ec = IF abort = 0 THEN "success" ELSE "aborted"
    /\ abort # 0 => abort - 1 \in Real
    /\ pc[0] \in {"kickoff", "wake"} => abort = 0
    /\ Open /\ abort # 0 =>
         NearAbort(0) /\ \A t \in Members : AtAbort(t) \/ Stage(t) = <<Rest(abort - 1), Phase(abort - 1)>>

LEMMA RealNodes == \A i \in Real : i \in Node /\ i \in Nat /\ 1 <= i /\ i <= Len(Graph) /\ i \in Rest(i)
BY Sizes DEF Real, Node, Rest

\* Where a real node is in the rest and where it is not.
LEMMA RestReal ==
    /\ \A i \in Real, j \in Real : Rest(i) = Rest(j) => i = j
    /\ \A i \in Real, m \in Nat : i < m => Rest(i) # Rest(m)
<1>1. ASSUME NEW i \in Real, NEW m \in Nat, i < m PROVE i \in Rest(i) /\ i \notin Rest(m)
  BY <1>1, RealNodes DEF Rest
<1>2. ASSUME NEW i \in Real, NEW m \in Nat, i < m PROVE Rest(i) # Rest(m)
  BY <1>1, <1>2
<1>3. ASSUME NEW i \in Real, NEW j \in Real, Rest(i) = Rest(j) PROVE i = j
  <2>1. i \in Nat /\ j \in Nat
    BY RealNodes
  <2>2. ~(i < j) /\ ~(j < i)
    BY <1>2, <1>3, <2>1
  <2> QED BY <2>1, <2>2
<1> QED BY <1>2, <1>3

\* Skipping a node that computes nothing.
LEMMA AheadNop == ASSUME NEW m \in Node, Graph[m] = "nop" PROVE Ahead(m + 1) = Ahead(m)
<1>1. m \notin Real /\ m \in Nat /\ 1 <= m /\ m <= Len(Graph)
  BY Sizes DEF Real, Node
<1>2. Rest(m + 1) = Rest(m)
  BY <1>1, RealNodes DEF Rest
<1>3. CASE m + 1 <= Len(Graph)
  BY <1>1, <1>2, <1>3 DEF Ahead
<1>4. CASE m = Len(Graph)
  <2>1. Rest(m) = {}
    BY <1>1, <1>4, RealNodes DEF Rest
  <2> QED BY <1>1, <1>4, <2>1, Sizes DEF Ahead
<1> QED BY <1>1, <1>3, <1>4, Sizes

\* A real node's stage at its beginning, and after the last.
LEMMA AheadReal ==
    ASSUME NEW i \in Real
    PROVE  /\ Ahead(i) = <<Rest(i), "input">>
           /\ i = Len(Graph) => Ahead(i + 1) = <<Rest(i), Phase(i)>>
BY RealNodes, Sizes DEF Ahead

\* What a thread's place in the graph is does not depend on the others, save for the barrier's
\* release.
LEMMA OthersKeep ==
    ASSUME NEW u \in Thread, Kept(u), n_barrier_passed' = n_barrier_passed
    PROVE  /\ In(u)' <=> In(u)
           /\ LetGo(u)' <=> LetGo(u)
           /\ Stopped(u)' <=> Stopped(u)
           /\ Stage(u)' = Stage(u)
<1>1. /\ In(u)' <=> In(u)
      /\ LetGo(u)' <=> LetGo(u)
      /\ Stopped(u)' <=> Stopped(u)
  BY DEF Kept, In, Left, LetGo, Stopped
<1> QED BY <1>1 DEF Kept, Stage

\* Steps within a stage
StepsInside(t) ==
    \/ Start(t) \/ NextNode(t) \/ Plain(t) \/ MatInput(t) \/ Chunk(t) \/ Grab(t) \/ Computed(t)
    \/ AtBarrier(t) /\ N # 1
    \/ Arrive(t) \/ Reset(t) \/ Spin(t)

\* A thread's own step, the barrier's release apart, keeps it in its stage.
LEMMA OwnStage ==
    ASSUME Shape, NodeInv, BarrierInv, NEW t \in Thread, StepsInside(t)
    PROVE  /\ In(t)' <=> In(t)
           /\ Stage(t)' = Stage(t)
           /\ UNCHANGED n_barrier_passed
<1> USE DEF Becomes, Shape
<1>0. back[t] \in {"node", "chunk", "end"} /\ pc[t] # "wake" /\ node_n[t] \in Nat
  <2>1. back[t] \in {"node", "chunk", "end"} /\ node_n[t] \in 1..(Len(Graph) + 1)
    BY DEF LocalType
  <2>2. pc[t] # "wake"
    BY DEF StepsInside, Start, NextNode, Plain, MatInput, Chunk, Grab, Computed, AtBarrier, Arrive, Reset, Spin
  <2> QED BY <2>1, <2>2, Sizes
<1>1. CASE Start(t)
  <2>1. pc[t] = "start" /\ pc'[t] = "node" /\ node_n'[t] = 1 /\ UNCHANGED n_barrier_passed
    BY <1>1, StartStep DEF shared
  <2>2. In(t) /\ In(t)'
    BY <2>1 DEF In, Left, LetGo, Places
  <2> QED BY <2>1, <2>2 DEF Stage
<1>2. CASE NextNode(t)
  <2>0. pc[t] = "node" /\ UNCHANGED n_barrier_passed
    BY <1>2, NextNodeStep DEF shared
  <2>1. In(t) /\ Stage(t) = Ahead(node_n[t])
    BY <2>0 DEF In, Left, LetGo, Places, Stage
  <2>2. CASE pc'[t] = "barrier" /\ node_n'[t] = node_n[t] /\ back'[t] = "end"
    <3>1. In(t)'
      BY <2>2 DEF In, Left, LetGo, Places
    <3> QED BY <2>0, <2>1, <2>2, <3>1 DEF Stage
  <2>3. CASE node_n[t] \in Node /\ Graph[node_n[t]] = "nop" /\ pc'[t] = "node" /\ node_n'[t] = node_n[t] + 1
    <3>1. In(t)' /\ Stage(t)' = Ahead(node_n[t] + 1)
      BY <2>3 DEF In, Left, LetGo, Places, Stage
    <3> QED BY <2>0, <2>1, <2>3, <3>1, AheadNop
  <2>4. CASE node_n[t] \in Real /\ pc'[t] = Graph[node_n[t]] /\ node_n'[t] = node_n[t]
    <3>1. pc'[t] \in {"plain", "mat"}
      BY <2>4, Sizes DEF Real
    <3>2. In(t)' /\ Stage(t)' = <<Rest(node_n[t]), "input">>
      BY <2>4, <3>1 DEF In, Left, LetGo, Places, Stage
    <3> QED BY <2>0, <2>1, <2>4, <3>2, AheadReal
  <2> QED BY <1>2, <2>2, <2>3, <2>4, NextNodeStep
<1>3. CASE Plain(t)
  <2>1. pc[t] = "plain" /\ pc'[t] = "computed" /\ node_n'[t] = node_n[t] /\ UNCHANGED n_barrier_passed
    BY <1>3, PlainStep DEF shared
  <2>2. In(t) /\ In(t)'
    BY <2>1 DEF In, Left, LetGo, Places
  <2>3. Phase(node_n[t]) = "input"
    BY <2>1 DEF NodeInv, Phase, IsMat
  <2> QED BY <2>1, <2>2, <2>3 DEF Stage
<1>4. CASE MatInput(t)
  <2>1. /\ pc[t] = "mat" /\ pc'[t] = "barrier" /\ node_n'[t] = node_n[t] /\ back'[t] = "chunk"
        /\ UNCHANGED n_barrier_passed
    BY <1>4, MatInputStep
  <2>2. In(t) /\ In(t)' /\ ~LetGo(t)'
    BY <2>1 DEF In, Left, LetGo, Places
  <2> QED BY <2>1, <2>2 DEF Stage
<1>5. CASE Chunk(t) \/ Grab(t)
  <2>1. /\ pc[t] \in {"chunk", "grab"} /\ pc'[t] \in {"chunk", "grab", "computed"} /\ node_n'[t] = node_n[t]
        /\ UNCHANGED n_barrier_passed
    BY <1>5, ChunkStep, GrabStep DEF shared
  <2>2. In(t) /\ In(t)'
    BY <2>1 DEF In, Left, LetGo, Places
  <2>3. Phase(node_n[t]) = "chunks"
    BY <2>1 DEF NodeInv, Phase
  <2> QED BY <2>1, <2>2, <2>3 DEF Stage
<1>6. CASE Computed(t)
  <2>0. pc[t] = "computed" /\ UNCHANGED n_barrier_passed
    BY <1>6, ComputedStep
  <2>1. In(t) /\ node_n[t] \in Real /\ Stage(t) = <<Rest(node_n[t]), Phase(node_n[t])>>
    BY <2>0 DEF In, Left, LetGo, Places, Stage, NodeInv
  <2>2. CASE pc'[t] = "barrier" /\ node_n'[t] = node_n[t] + 1 /\ back'[t] = "node"
    <3>1. In(t)' /\ ~LetGo(t)' /\ node_n'[t] - 1 = node_n[t]
      BY <1>0, <2>2 DEF In, Left, LetGo, Places
    <3> QED BY <2>0, <2>1, <2>2, <3>1 DEF Stage
  <2>3. CASE node_n[t] = Len(Graph) /\ pc'[t] = "node" /\ node_n'[t] = node_n[t] + 1
    <3>1. In(t)' /\ Stage(t)' = Ahead(node_n[t] + 1)
      BY <2>3 DEF In, Left, LetGo, Places, Stage
    <3> QED BY <2>0, <2>1, <2>3, <3>1, AheadReal
  <2> QED BY <1>6, <2>2, <2>3, ComputedStep
<1>7. CASE (AtBarrier(t) /\ N # 1) \/ Arrive(t) \/ Reset(t)
  <2>1. /\ pc[t] \in {"barrier", "arrive", "reset"} /\ pc'[t] \in {"arrive", "reset", "spin", "release"}
        /\ node_n'[t] = node_n[t] /\ back'[t] = back[t] /\ UNCHANGED n_barrier_passed
        /\ pc[t] # "barrier" => n_passed'[t] = n_passed[t]
        /\ pc[t] = "barrier" => pc'[t] = "arrive"
    BY <1>7, AtBarrierStep, ArriveStep, ResetStep DEF shared, N
  <2>2. pc'[t] = "spin" => n_passed'[t] = n_barrier_passed'
    BY <2>1 DEF BarrierInv
  <2>3. In(t) /\ In(t)' /\ ~LetGo(t) /\ ~LetGo(t)'
    BY <2>1, <2>2 DEF In, Left, LetGo, Places
  <2> QED BY <2>1, <2>3 DEF Stage
<1>8. CASE Spin(t)
  <2>1. /\ LetGo(t) /\ pc[t] = "spin" /\ pc'[t] = BackTo(t) /\ node_n'[t] = node_n[t] /\ back'[t] = back[t]
        /\ UNCHANGED n_barrier_passed
    BY <1>8, SpinStep DEF LetGo, shared
  <2>2. CASE back[t] = "end"
    <3>1. ~In(t) /\ ~In(t)'
      BY <2>1, <2>2 DEF In, Left, BackTo, Places
    <3> QED BY <2>1, <3>1 DEF Stage
  <2>3. CASE back[t] \in {"node", "chunk"}
    <3>1. pc'[t] = back[t]
      BY <2>1, <2>3 DEF BackTo
    <3>2. In(t) /\ In(t)'
      BY <2>1, <2>3, <3>1 DEF In, Left, LetGo, Places
    <3> QED BY <2>1, <2>3, <3>1, <3>2 DEF Stage
  <2> QED BY <1>0, <2>2, <2>3
<1> QED BY <1>1, <1>2, <1>3, <1>4, <1>5, <1>6, <1>7, <1>8 DEF StepsInside

\* Threads that stand at the barrier in the same stage stand at the same barrier.
LEMMA SameStop ==
    ASSUME Shape, NodeInv, MemberInv, EndInv, AbortInv, StageInv,
           NEW t \in Members, NEW u \in Members, In(t), In(u), Stopped(t), Stopped(u)
    PROVE  back[t] = back[u] /\ node_n[t] = node_n[u]
<1> DEFINE L == Len(Graph)
<1>0. t \in Thread /\ u \in Thread /\ Open /\ Stage(t) = Stage(u)
  BY MembersAre DEF StageInv, MemberInv
<1>1. ASSUME NEW v \in Thread, In(v), Stopped(v)
      PROVE  /\ pc[v] \in Barriers /\ ~LetGo(v) /\ back[v] \in {"node", "chunk", "end"}
             /\ node_n[v] \in Nat /\ node_n[v] <= L + 1
             /\ back[v] = "chunk" => node_n[v] \in Real /\ Stage(v) = <<Rest(node_n[v]), "input">>
                                     /\ Phase(node_n[v]) = "chunks"
             /\ back[v] = "node" => node_n[v] - 1 \in Real /\ node_n[v] <= L
                                    /\ Stage(v) = <<Rest(node_n[v] - 1), Phase(node_n[v] - 1)>>
             /\ back[v] = "end" => Stage(v) = Ahead(node_n[v]) /\ (node_n[v] = L + 1 \/ node_n[v] = abort)
             /\ AtAbort(v) => back[v] = "end" /\ node_n[v] = abort
  <2>1. pc[v] \in Barriers /\ ~LetGo(v) /\ pc[v] # "node"
    BY <1>1 DEF Stopped, LetGo, Barriers
  <2>2. back[v] \in {"node", "chunk", "end"} /\ node_n[v] \in 1..(L + 1)
    BY DEF Shape, LocalType
  <2>3. back[v] = "chunk" => node_n[v] \in Real /\ Phase(node_n[v]) = "chunks"
    BY <2>1 DEF NodeInv, Real, IsMat, Phase
  <2>4. back[v] = "node" => node_n[v] - 1 \in Real /\ node_n[v] <= L
    BY <2>1 DEF NodeInv, Node
  <2>5. AtAbort(v) => back[v] = "end" /\ node_n[v] = abort
    BY <2>1 DEF AtAbort
  <2>6. back[v] = "end" => node_n[v] = L + 1 \/ node_n[v] = abort
    BY <1>1 DEF EndInv
  <2>7. Stage(v) = IF back[v] = "chunk" THEN <<Rest(node_n[v]), "input">>
                   ELSE IF back[v] = "node" THEN <<Rest(node_n[v] - 1), Phase(node_n[v] - 1)>>
                   ELSE Ahead(node_n[v])
    BY <1>1, <2>1 DEF Stage, Barriers
  <2> QED BY <2>1, <2>2, <2>3, <2>4, <2>5, <2>6, <2>7, Sizes
\* what stands at the end is elsewhere than what does not
<1>2. ASSUME NEW v \in Members, NEW w \in Members, v \in Thread, w \in Thread, In(v), Stopped(v), In(w), Stopped(w),
             Stage(v) = Stage(w), back[v] = "end", back[w] # "end"
      PROVE  FALSE
  <2>1. PICK i \in Real :
          \/ Stage(w) = <<Rest(i), Phase(i)>> /\ i < L
          \/ Stage(w) = <<Rest(i), "input">> /\ Phase(i) = "chunks"
    <3>1. CASE back[w] = "chunk"
      BY <1>1, <1>2, <3>1
    <3>2. CASE back[w] = "node"
      <4>1. node_n[w] - 1 \in Real /\ node_n[w] - 1 < L /\ Stage(w) = <<Rest(node_n[w] - 1), Phase(node_n[w] - 1)>>
        BY <1>1, <1>2, <3>2, Sizes
      <4> QED BY <4>1
    <3> QED BY <1>1, <1>2, <3>1, <3>2
  <2>2. CASE node_n[v] = L + 1
    <3>1. Stage(v) = IF L \in Real THEN <<Rest(L), Phase(L)>> ELSE <<{}, "input">>
      BY <1>1, <1>2, <2>2, Sizes DEF Ahead
    <3>2. L \in Real /\ Rest(i) = Rest(L) /\ (i < L \/ Phase(L) # Phase(i))
      BY <1>2, <2>1, <3>1, RealNodes DEF Phase
    <3> QED BY <3>2, RestReal, RealNodes
  <2>3. CASE node_n[v] = abort /\ node_n[v] # L + 1
    <3>1. abort # 0 /\ abort \in Nat /\ abort <= L
      <4>1. node_n[v] \in 1..(L + 1)
        BY <1>2 DEF Shape, LocalType
      <4> QED BY <2>3, <4>1, Sizes
    <3>2. abort - 1 \in Real /\ Stage(v) = <<Rest(abort), "input">>
      BY <1>1, <1>2, <2>3, <3>1 DEF Ahead, AbortInv
    <3>3. Stage(w) = <<Rest(abort - 1), Phase(abort - 1)>>
      BY <1>0, <1>1, <1>2, <3>1 DEF AbortInv
    <3>4. Rest(abort - 1) = Rest(abort) /\ abort - 1 < abort
      <4>1. <<Rest(abort - 1), Phase(abort - 1)>> = <<Rest(abort), "input">>
        BY <1>2, <3>2, <3>3
      <4> QED BY <3>1, <4>1
    <3> QED BY <3>1, <3>2, <3>4, RestReal
  <2> QED BY <1>1, <1>2, <2>2, <2>3
<1>3. CASE back[t] = "end" /\ back[u] = "end"
  <2>1. ASSUME NEW v \in Members, NEW w \in Members, v \in Thread, w \in Thread, In(v), Stopped(v), In(w), Stopped(w),
               Stage(v) = Stage(w), node_n[v] = L + 1, node_n[w] = abort, abort # L + 1
        PROVE  FALSE
    <3>1. abort # 0 /\ abort \in Nat /\ abort <= L /\ abort - 1 \in Real
      <4>1. node_n[w] \in 1..(L + 1)
        BY <2>1 DEF Shape, LocalType
      <4> QED BY <2>1, <4>1, Sizes DEF AbortInv
    <3>2. Stage(v) = <<Rest(abort - 1), Phase(abort - 1)>>
      BY <1>0, <1>1, <2>1, <3>1 DEF AbortInv, AtAbort
    <3>3. back[v] = "end"
      <4>1. CASE back[v] = "chunk"
        BY <1>1, <2>1, <4>1, RealNodes, Sizes
      <4>2. CASE back[v] = "node"
        BY <1>1, <2>1, <4>2, Sizes
      <4> QED BY <1>1, <2>1, <4>1, <4>2
    <3>4. Stage(v) = IF L \in Real THEN <<Rest(L), Phase(L)>> ELSE <<{}, "input">>
      BY <1>1, <2>1, <3>3, Sizes DEF Ahead
    <3>5. L \in Real /\ Rest(abort - 1) = Rest(L) /\ abort - 1 < L
      BY <3>1, <3>2, <3>4, RealNodes, Sizes
    <3> QED BY <3>1, <3>5, RestReal, RealNodes
  <2> QED BY <1>0, <1>1, <1>3, <2>1
<1>4. CASE back[t] = "chunk" /\ back[u] = "chunk"
  BY <1>0, <1>1, <1>4, RestReal
<1>5. CASE back[t] = "node" /\ back[u] = "node"
  <2>1. node_n[t] - 1 = node_n[u] - 1
    BY <1>0, <1>1, <1>5, RestReal
  <2> QED BY <1>0, <1>1, <1>5, <2>1
<1>6. ASSUME NEW v \in Thread, NEW w \in Thread, In(v), Stopped(v), In(w), Stopped(w),
             Stage(v) = Stage(w), back[v] = "chunk", back[w] = "node"
      PROVE  FALSE
  <2>1. node_n[v] \in Real /\ node_n[w] - 1 \in Real /\ Rest(node_n[v]) = Rest(node_n[w] - 1)
        /\ Phase(node_n[w] - 1) = "input" /\ Phase(node_n[v]) = "chunks"
    BY <1>1, <1>6
  <2>2. node_n[v] = node_n[w] - 1
    BY <2>1, RestReal
  <2> QED BY <2>1, <2>2
<1> QED BY <1>0, <1>1, <1>2, <1>3, <1>4, <1>5, <1>6

LEMMA AllTogether ==
    ASSUME Shape, NodeInv, MemberInv, BarrierInv, EndInv, AbortInv, StageInv
    PROVE  Together
<1> SUFFICES ASSUME NEW t \in Thread, pc[t] = "release", NEW u \in Members
             PROVE  back[u] = back[t] /\ node_n[u] = node_n[t]
  BY DEF Together
<1>1. In(t) /\ Stopped(t) /\ t \in Members
  <2>1. In(t) /\ Stopped(t)
    BY DEF In, Left, LetGo, Places, Stopped
  <2> QED BY <2>1, MembersAre DEF MemberInv
<1>2. CASE u # t
  <2>1. pc[u] = "spin" /\ n_passed[u] = n_barrier_passed
    BY <1>2 DEF BarrierInv
  <2>2. In(u) /\ Stopped(u)
    BY <2>1 DEF In, Left, LetGo, Places, Stopped
  <2> QED BY <1>1, <2>2, SameStop
<1> QED BY <1>2

\* A thread at the node where everyone is to stop goes no further.
LEMMA OwnAbort ==
    ASSUME Shape, NodeInv, BarrierInv, EndInv, NEW t \in Thread, StepsInside(t)
    PROVE  /\ In(t)' /\ Stopped(t)' /\ back'[t] = "end" => node_n'[t] = Len(Graph) + 1 \/ node_n'[t] = abort'
           /\ AtAbort(t) => AtAbort(t)'
           /\ NearAbort(t) /\ In(t)' => NearAbort(t)'
<1> USE DEF Becomes, Shape, NearAbort, AtAbort
<1>0. /\ pc[t] \notin {"node", "barrier", "arrive", "reset", "release", "spin"} => ~NearAbort(t) /\ ~AtAbort(t)
      /\ pc'[t] \notin {"barrier", "arrive", "reset", "release", "spin"} => ~Stopped(t)'
      /\ back[t] \in {"node", "chunk", "end"}
  BY DEF Stopped, LetGo, LocalType
<1>1. CASE Start(t) \/ Plain(t) \/ MatInput(t) \/ Chunk(t) \/ Grab(t) \/ Computed(t)
  <2>1. /\ pc[t] \notin {"node", "barrier", "arrive", "reset", "release", "spin"}
        /\ pc'[t] \notin {"barrier", "arrive", "reset", "release", "spin"} \/ back'[t] # "end"
    <3>1. CASE Start(t)
      BY <3>1, StartStep
    <3>2. CASE Plain(t) \/ MatInput(t)
      BY <3>2, PlainStep, MatInputStep
    <3>3. CASE Chunk(t) \/ Grab(t)
      BY <3>3, ChunkStep, GrabStep
    <3>4. CASE Computed(t)
      BY <3>4, ComputedStep
    <3> QED BY <1>1, <3>1, <3>2, <3>3, <3>4
  <2> QED BY <1>0, <2>1
<1>2. CASE NextNode(t)
  <2>1. pc[t] = "node" /\ abort' = abort
    BY <1>2, NextNodeStep DEF shared
  <2>2. CASE (node_n[t] = Len(Graph) + 1 \/ abort = node_n[t]) /\ pc'[t] = "barrier" /\ node_n'[t] = node_n[t] /\ back'[t] = "end"
    <3>1. In(t)' /\ Stopped(t)'
      BY <2>2 DEF In, Left, LetGo, Stopped, Places
    <3> QED BY <2>1, <2>2, <3>1
  <2>3. CASE abort # node_n[t] /\ pc'[t] \in {"node", "plain", "mat"}
    BY <1>0, <2>1, <2>3
  <2>4. node_n[t] \in Real => Graph[node_n[t]] \in {"plain", "mat"}
    BY Sizes DEF Real
  <2> QED BY <1>2, <2>2, <2>3, <2>4, NextNodeStep
<1>3. CASE (AtBarrier(t) /\ N # 1) \/ Arrive(t) \/ Reset(t)
  <2>1. /\ pc[t] \in {"barrier", "arrive", "reset"} /\ pc'[t] \in {"arrive", "reset", "spin", "release"}
        /\ node_n'[t] = node_n[t] /\ back'[t] = back[t] /\ UNCHANGED <<n_barrier_passed, abort>>
        /\ pc[t] # "barrier" => n_passed'[t] = n_passed[t]
        /\ pc[t] = "barrier" => pc'[t] = "arrive"
    BY <1>3, AtBarrierStep, ArriveStep, ResetStep DEF shared, N
  <2>2. pc'[t] = "spin" => n_passed'[t] = n_barrier_passed'
    BY <2>1 DEF BarrierInv
  <2>3. In(t) /\ In(t)' /\ Stopped(t) /\ Stopped(t)' /\ ~LetGo(t) /\ pc[t] # "node"
    BY <2>1, <2>2 DEF In, Left, LetGo, Places, Stopped
  <2> QED BY <2>1, <2>3 DEF EndInv
<1>4. CASE Spin(t)
  <2>1. /\ LetGo(t) /\ pc[t] = "spin" /\ pc'[t] = BackTo(t) /\ node_n'[t] = node_n[t] /\ back'[t] = back[t]
        /\ UNCHANGED <<n_barrier_passed, abort>>
    BY <1>4, SpinStep DEF LetGo, shared
  <2>2. ~Stopped(t) /\ ~Stopped(t)' /\ pc'[t] \in {"node", "chunk", "call", "pause"}
    BY <1>0, <2>1 DEF Stopped, LetGo, BackTo
  <2>3. back[t] = "node" => pc'[t] = "node" /\ In(t)'
    BY <2>1 DEF BackTo, In, Left, LetGo, Places
  <2>4. back[t] = "end" => ~In(t)
    BY <2>1 DEF In, Left
  <2> QED BY <1>0, <2>1, <2>2, <2>3, <2>4
<1> QED BY <1>1, <1>2, <1>3, <1>4 DEF StepsInside

LEMMA InsideStage ==
    ASSUME Shape, NodeInv, MemberInv, BarrierInv, EndInv, AbortInv, StageInv, NEW t \in Thread, StepsInside(t)
    PROVE  EndInv' /\ AbortInv' /\ StageInv'
<1>0. InGraph(t)
  BY DEF StepsInside, InGraph
<1>1. /\ \A u \in Thread \ {t} : Kept(u)
      /\ UNCHANGED n_graph
      /\ pc[t] \in Places /\ (pc'[t] \in Places \/ pc'[t] \in {"call", "pause"})
  BY <1>0, InGraphStep DEF Shape
<1>2. UNCHANGED n_barrier_passed /\ (In(t)' <=> In(t)) /\ Stage(t)' = Stage(t)
  BY OwnStage
<1>3. \A u \in Thread \ {t} : /\ In(u)' <=> In(u)
                              /\ LetGo(u)' <=> LetGo(u)
                              /\ Stopped(u)' <=> Stopped(u)
                              /\ Stage(u)' = Stage(u)
                              /\ pc'[u] = pc[u] /\ node_n'[u] = node_n[u] /\ back'[u] = back[u]
  BY <1>1, <1>2, OthersKeep DEF Kept
<1>4. N' = N /\ Members' = Members /\ (Open' <=> Open) /\ Members \subseteq Thread
  <2>1. pc'[0] = "wake" <=> pc[0] = "wake"
    BY <1>1, <1>3, Sizes DEF Places
  <2> QED BY <1>1, <1>2, <1>3, <2>1, MembersAre, Sizes DEF N, Members, Open
<1>5. StageInv'
  BY <1>2, <1>3, <1>4 DEF StageInv
<1>6. /\ In(t)' /\ Stopped(t)' /\ back'[t] = "end" => node_n'[t] = Len(Graph) + 1 \/ node_n'[t] = abort'
      /\ AtAbort(t) => AtAbort(t)'
      /\ NearAbort(t) /\ In(t)' => NearAbort(t)'
  BY OwnAbort
<1>7. pc'[0] \in {"kickoff", "wake"} => pc[0] \in {"kickoff", "wake"}
  BY <1>1, <1>3, Sizes DEF Places
<1>8. CASE UNCHANGED <<abort, ec>>
  <2>1. EndInv'
    BY <1>3, <1>6, <1>8 DEF EndInv
  <2>2. \A u \in Thread \ {t} : (AtAbort(u)' <=> AtAbort(u)) /\ (NearAbort(u)' <=> NearAbort(u))
    BY <1>3, <1>8 DEF AtAbort, NearAbort
  <2>3. ASSUME Open', abort' # 0
        PROVE  NearAbort(0)' /\ \A u \in Members' :
                                    AtAbort(u)' \/ Stage(u)' = <<Rest(abort' - 1), Phase(abort' - 1)>>
    <3>1. NearAbort(0) /\ \A u \in Members : AtAbort(u) \/ Stage(u) = <<Rest(abort - 1), Phase(abort - 1)>>
      BY <1>4, <1>8, <2>3 DEF AbortInv
    <3>2. In(0)'
      BY <1>2, <1>3, <3>1, Sizes DEF NearAbort
    <3>3. NearAbort(0)'
      BY <1>6, <2>2, <3>1, <3>2, Sizes
    <3> QED BY <1>2, <1>3, <1>4, <1>6, <1>8, <2>2, <3>1, <3>3
  <2>4. AbortInv'
    BY <1>7, <1>8, <2>3 DEF AbortInv
  <2> QED BY <1>5, <2>1, <2>4
<1>9. CASE ~UNCHANGED <<abort, ec>>
  <2>1. Computed(t)
    BY <1>9, StartStep, NextNodeStep, PlainStep, MatInputStep, ChunkStep, GrabStep, AtBarrierStep, ArriveStep,
       ResetStep, SpinStep DEF StepsInside, Shape, shared
  <2>2. /\ t = 0 /\ pc[0] = "computed" /\ abort' = node_n[0] + 1 /\ ec' = "aborted" /\ node_n'[0] = node_n[0] + 1
        /\ (pc'[0] = "barrier" /\ back'[0] = "node") \/ pc'[0] = "node"
    BY <1>9, <2>1, ComputedStep DEF Shape, Becomes
  <2>3. In(0) /\ In(0)' /\ Open /\ 0 \in Members
    <3>1. In(0) /\ In(0)'
      BY <2>2 DEF In, Left, LetGo, Places
    <3> QED BY <3>1, MembersAre, Sizes DEF MemberInv
  <2>4. abort = 0
    <3>1. ~NearAbort(0)
      BY <2>2 DEF NearAbort, Stopped, LetGo
    <3> QED BY <2>3, <3>1 DEF AbortInv
  <2>5. node_n[0] \in Real /\ abort' - 1 = node_n[0] /\ abort' # 0
    <3>1. node_n[0] \in Real
      BY <2>2, Sizes DEF NodeInv
    <3> QED BY <2>2, <3>1, RealNodes
  <2>6. Stage(0) = <<Rest(node_n[0]), Phase(node_n[0])>>
    BY <2>2, <2>3 DEF Stage
  <2>7. \A u \in Members : Stage(u)' = <<Rest(abort' - 1), Phase(abort' - 1)>>
    <3>1. \A u \in Members : Stage(u) = <<Rest(node_n[0]), Phase(node_n[0])>>
      BY <2>3, <2>6 DEF StageInv
    <3> QED BY <1>2, <1>3, <1>4, <2>5, <3>1
  <2>8. NearAbort(0)'
    BY <2>2, <2>3 DEF NearAbort, Stopped
  <2>9. EndInv'
    <3>1. \A u \in Thread \ {t} : In(u) /\ Stopped(u) /\ back[u] = "end" => node_n[u] = Len(Graph) + 1 \/ node_n[u] = 0
      BY <2>4 DEF EndInv
    <3>2. \A u \in Thread : node_n[u] # 0
      BY Sizes DEF Shape, LocalType
    <3> QED BY <1>3, <1>6, <3>1, <3>2 DEF EndInv
  <2>10. AbortInv'
    BY <1>4, <1>7, <2>2, <2>3, <2>5, <2>7, <2>8 DEF AbortInv
  <2> QED BY <1>5, <2>9, <2>10
<1> QED BY <1>8, <1>9

LEMMA ReleaseStage ==
    ASSUME Shape, MemberInv, BarrierInv, Together, EndInv, AbortInv, StageInv, NEW t \in Thread, Release(t)
    PROVE  EndInv' /\ AbortInv' /\ StageInv'
<1>1. /\ pc[t] = "release" /\ pc'[t] = BackTo(t) /\ UNCHANGED <<node_n, n_passed, back, abort, ec>>
      /\ Members' = Members /\ In(t) /\ Open /\ t \in Members /\ Members \subseteq Thread /\ 0 \in Members
  BY ReleaseLets
<1>2. /\ \A u \in Members \ {t} : pc[u] = "spin" /\ n_passed[u] = n_barrier_passed
      /\ \A u \in Thread : n_passed[u] # n_barrier_passed'
      /\ back[t] \in {"node", "chunk", "end"}
      /\ \A u \in Members : back[u] = back[t] /\ node_n[u] = node_n[t]
      /\ \A u \in Thread \ {t} : pc'[u] = pc[u]
  BY ReleaseLets
<1>3. /\ \A u \in Thread : In(u)' <=> u \in Members /\ back[t] # "end"
      /\ Open' <=> back[t] # "end"
  BY ReleaseLets
<1>4. pc'[0] \notin {"kickoff", "wake"}
  <2>1. pc'[t] \in {"node", "chunk", "call", "pause"}
    BY <1>1, <1>2 DEF BackTo
  <2> QED BY <1>1, <1>2, <2>1
<1>5. CASE back[t] = "end"
  BY <1>1, <1>3, <1>4, <1>5 DEF EndInv, AbortInv, StageInv
<1>6. CASE back[t] # "end"
  <2>1. \A u \in Members : /\ pc'[u] \in {back[t], "spin"} /\ (pc'[u] = "spin" => LetGo(u)') /\ (LetGo(u)' => pc'[u] = "spin")
                           /\ ~Stopped(u)' /\ In(u)' /\ node_n'[u] = node_n[t] /\ back'[u] = back[t]
    BY <1>1, <1>2, <1>3, <1>6 DEF BackTo, LetGo, Stopped
  <2>2. ASSUME NEW u \in Members
        PROVE  Stage(u)' = IF back[t] = "chunk" THEN <<Rest(node_n[t]), "chunks">> ELSE Ahead(node_n[t])
    BY <1>2, <1>6, <2>1 DEF Stage
  <2>3. StageInv'
    BY <1>1, <2>2 DEF StageInv
  <2>4. EndInv'
    BY <1>3, <2>1 DEF EndInv
  <2>5. ASSUME abort # 0
        PROVE  NearAbort(0)' /\ \A u \in Members : AtAbort(u)'
    <3>1. back[t] = "node" /\ node_n[t] = abort
      <4>1. NearAbort(0) /\ pc[0] # "node"
        BY <1>1, <1>2, <2>5 DEF AbortInv
      <4> QED BY <1>1, <1>2, <1>6, <4>1 DEF NearAbort
    <3> QED BY <1>1, <2>1, <3>1 DEF NearAbort, AtAbort
  <2>6. AbortInv'
    BY <1>1, <1>4, <2>5 DEF AbortInv
  <2> QED BY <2>3, <2>4, <2>6
<1> QED BY <1>5, <1>6

\* One thread alone passes the barrier as it comes.
LEMMA AlonePasses ==
    ASSUME Shape, MemberInv, NEW t \in Thread, AtBarrier(t), N = 1
    PROVE  /\ t = 0 /\ Open /\ Members = {0} /\ pc[0] = "barrier" /\ pc'[0] = BackTo(0) /\ back[0] \in {"node", "chunk", "end"}
           /\ UNCHANGED <<n_graph, node_n, nth, chunk, n_passed, back, shared, ghost>>
           /\ N' = N /\ Members' = Members
           /\ \A u \in Thread \ {0} : pc'[u] = pc[u] /\ ~In(u)
           /\ \A u \in Thread : In(u)' <=> u = 0 /\ back[0] # "end"
           /\ Open' <=> back[0] # "end"
<1>1. /\ pc[t] = "barrier" /\ UNCHANGED <<shared, ghost>>
      /\ Becomes(t, BackTo(t), nth[t], node_n[t], chunk[t], n_passed[t], back[t])
  BY AtBarrierStep DEF Shape, N
<1>2. back[t] \in {"node", "chunk", "end"} /\ In(t)
  BY <1>1 DEF Shape, LocalType, In, Left, LetGo, Places
<1>3. t = 0 /\ Open /\ Members = {0} /\ \A u \in Thread \ {0} : ~In(u)
  BY <1>2, Sizes DEF MemberInv, Members
<1>4. UNCHANGED <<nth, node_n, chunk, n_passed, back>>
  <2>1. \A u \in Thread : /\ nth'[u] = nth[u] /\ node_n'[u] = node_n[u] /\ chunk'[u] = chunk[u]
                          /\ n_passed'[u] = n_passed[u] /\ back'[u] = back[u]
    BY <1>1 DEF Becomes, Kept
  <2> QED BY <1>1, <2>1 DEF Becomes, Shape, LocalType
<1>5. N' = N /\ Members' = Members /\ n_graph' = n_graph
  BY <1>1 DEF Becomes, N, Members
<1>6. pc'[0] = BackTo(0) /\ \A u \in Thread \ {0} : pc'[u] = pc[u]
  BY <1>1, <1>3 DEF Becomes, Kept
<1>7. In(0)' <=> back[0] # "end"
  BY <1>2, <1>3, <1>4, <1>6 DEF In, Left, LetGo, BackTo, Places
<1>8. \A u \in Thread \ {0} : ~In(u)'
  BY <1>1, <1>3, <1>4, <1>6 DEF In, Left, LetGo, shared
<1>9. Open' <=> back[0] # "end"
  BY <1>2, <1>3, <1>6, <1>7 DEF Open, BackTo
<1> QED BY <1>1, <1>2, <1>3, <1>4, <1>5, <1>6, <1>7, <1>8, <1>9, Sizes

LEMMA AloneStage ==
    ASSUME Shape, MemberInv, EndInv, AbortInv, StageInv, NEW t \in Thread, AtBarrier(t), N = 1
    PROVE  EndInv' /\ AbortInv' /\ StageInv'
<1>1. /\ Open /\ Members = {0} /\ pc[0] = "barrier" /\ pc'[0] = BackTo(0) /\ back[0] \in {"node", "chunk", "end"}
      /\ UNCHANGED <<node_n, n_passed, back, abort, ec>> /\ Members' = Members
      /\ \A u \in Thread : In(u)' <=> u = 0 /\ back[0] # "end"
      /\ Open' <=> back[0] # "end"
  BY AlonePasses DEF shared
<1>2. StageInv'
  BY <1>1 DEF StageInv
<1>3. pc'[0] \in {"node", "chunk", "call"} /\ (back[0] # "end" => pc'[0] = back[0])
  BY <1>1 DEF BackTo
<1>4. EndInv'
  BY <1>1, <1>3 DEF EndInv, Stopped
<1>5. ASSUME Open', abort # 0 PROVE NearAbort(0)' /\ AtAbort(0)'
  <2>1. NearAbort(0)
    BY <1>1, <1>5 DEF AbortInv
  <2>2. back[0] = "node" /\ node_n[0] = abort
    BY <1>1, <1>5, <2>1 DEF NearAbort
  <2> QED BY <1>1, <1>3, <1>5, <2>2, Sizes DEF NearAbort, AtAbort
<1>6. AbortInv'
  BY <1>1, <1>3, <1>5 DEF AbortInv
<1> QED BY <1>2, <1>4, <1>6

LEMMA StageStep ==
    /\ Shape /\ NodeInv /\ MemberInv /\ BarrierInv /\ EndInv /\ AbortInv /\ StageInv /\ [Next]_vars
    => EndInv' /\ AbortInv' /\ StageInv'
<1> SUFFICES ASSUME Shape, NodeInv, MemberInv, BarrierInv, EndInv, AbortInv, StageInv, [Next]_vars
             PROVE  EndInv' /\ AbortInv' /\ StageInv'
  OBVIOUS
<1>1. CASE Compute \/ PauseResume \/ Free \/ Unpause \/ Join
  <2>1. /\ pc[0] \notin Places \cup {"kickoff", "wake"} /\ pc'[0] \notin Places \cup {"wake"}
        /\ \A u \in Thread \ {0} : pc'[u] = pc[u]
        /\ UNCHANGED <<local, n_graph, n_barrier_passed>>
        /\ (UNCHANGED <<abort, ec>> /\ pc'[0] # "kickoff") \/ (abort' = 0 /\ ec' = "success")
    BY <1>1, CallerSteps DEF Calls, Places, shared, signal, Shape
  <2>2. ~Open /\ ~Open'
    BY <2>1 DEF Open, In
  <2>3. \A u \in Thread : ~In(u)'
    <3>1. \A u \in Thread : ~In(u)
      BY <2>2 DEF MemberInv
    <3> QED BY <2>1, <3>1 DEF In, Left, LetGo, local
  <2> QED BY <2>1, <2>2, <2>3 DEF EndInv, AbortInv, StageInv
<1>2. CASE Kickoff
  <2>1. /\ pc[0] = "kickoff" /\ pc'[0] = "wake" /\ \A u \in Thread \ {0} : pc'[u] = pc[u]
        /\ UNCHANGED <<local, n_barrier_passed, abort, ec>>
        /\ \E n \in 1..NThread : n_graph' = [count |-> n_graph.count + 1, n |-> n]
    BY <1>2, CallerSteps DEF Calls, shared, Shape
  <2>2. ~Open
    BY <2>1 DEF Open, In, Places
  <2>3. \A u \in Thread : ~In(u)'
    <3>1. \A u \in Thread : ~In(u)
      BY <2>2 DEF MemberInv
    <3> QED BY <2>1, <3>1 DEF In, Left, LetGo, local, Places
  <2>4. Members' \subseteq Thread
    BY <2>1, Sizes DEF Members, N, Thread
  <2>5. \A u \in Members' : Stage(u)' = Ahead(1)
    BY <2>3, <2>4 DEF Stage
  <2>6. abort' = 0
    BY <2>1 DEF AbortInv
  <2> QED BY <2>1, <2>3, <2>5, <2>6 DEF EndInv, AbortInv, StageInv
<1>3. CASE Wake
  <2>1. /\ pc[0] = "wake" /\ pc'[0] = "start" /\ \A u \in Thread \ {0} : pc'[u] = pc[u]
        /\ UNCHANGED <<local, n_graph, n_barrier_passed, abort, ec>>
    BY <1>3, CallerSteps DEF Calls, shared, Shape
  <2>2. \A u \in Thread \ {0} : (In(u)' <=> In(u)) /\ Stage(u)' = Stage(u) /\ (Stopped(u)' <=> Stopped(u))
                                /\ node_n'[u] = node_n[u] /\ back'[u] = back[u]
    BY <2>1, OthersKeep DEF Kept, local
  <2>3. Stage(0) = Ahead(1) /\ Stage(0)' = Ahead(1) /\ ~Stopped(0)'
    BY <2>1 DEF Stage, In, Places, Stopped
  <2>4. Open /\ Members' = Members /\ Members \subseteq Thread /\ abort = 0
    BY <2>1, MembersAre DEF Open, Members, N, AbortInv
  <2>5. StageInv'
    BY <2>2, <2>3, <2>4 DEF StageInv
  <2>6. EndInv'
    BY <2>1, <2>2, <2>3 DEF EndInv
  <2> QED BY <2>1, <2>4, <2>5, <2>6 DEF AbortInv
<1>4. ASSUME NEW t \in Thread, InGraph(t) PROVE EndInv' /\ AbortInv' /\ StageInv'
  <2>1. CASE Release(t)
    BY <2>1, AllTogether, ReleaseStage
  <2>2. CASE AtBarrier(t) /\ N = 1
    BY <2>2, AloneStage
  <2>3. CASE StepsInside(t)
    BY <2>3, InsideStage
  <2> QED BY <1>4, <2>1, <2>2, <2>3 DEF InGraph, StepsInside
<1>5. ASSUME NEW w \in Worker, BetweenGraphs(w) PROVE EndInv' /\ AbortInv' /\ StageInv'
  <2>1. PICK l \in WorkerPlaces, g \in {last_graph[w], n_graph} :
          Turns(w, l, g) /\ pc[w] \notin Places /\ (l \in Places => l = "start")
    <3>1. WorkerStep(w)
      BY <1>5, BetweenGraphsStep DEF Shape
    <3> QED BY <3>1 DEF WorkerStep, WorkerPlaces, Places
  <2>2. /\ pc'[w] = l /\ \A u \in Thread \ {w} : pc'[u] = pc[u]
        /\ UNCHANGED <<n_graph, n_barrier_passed, abort, ec, local>>
    BY <2>1 DEF Turns, shared
  <2>3. \A u \in Thread \ {w} : /\ In(u)' <=> In(u)
                                /\ Stopped(u)' <=> Stopped(u)
                                /\ LetGo(u)' <=> LetGo(u)
                                /\ Stage(u)' = Stage(u)
                                /\ node_n'[u] = node_n[u] /\ back'[u] = back[u] /\ pc'[u] = pc[u]
    BY <2>2, OthersKeep DEF Kept, local
  <2>4. Stage(w) = Ahead(1) /\ Stage(w)' = Ahead(1) /\ ~In(w) /\ ~Stopped(w)'
    <3>1. CASE l = "start"
      BY <2>1, <2>2, <3>1 DEF Stage, In, Stopped
    <3>2. CASE l # "start"
      BY <2>1, <2>2, <3>2 DEF Stage, In, Stopped, Places
    <3> QED BY <3>1, <3>2
  <2>5. (Open' <=> Open) /\ Members' = Members /\ Members \subseteq Thread /\ 0 # w
    BY <2>2, <2>3, MembersAre, Sizes DEF Open, Members, N
  <2>6. StageInv'
    BY <2>3, <2>4, <2>5 DEF StageInv
  <2>7. EndInv'
    BY <2>2, <2>3, <2>4 DEF EndInv
  <2>8. \A u \in Thread \ {w} : (AtAbort(u)' <=> AtAbort(u)) /\ (NearAbort(u)' <=> NearAbort(u))
    BY <2>2, <2>3 DEF AtAbort, NearAbort
  <2>9. AbortInv'
    <3>1. ~AtAbort(w)
      BY <2>4 DEF AtAbort
    <3>2. pc'[0] = pc[0]
      BY <2>3, <2>5, Sizes
    <3> QED BY <2>2, <2>3, <2>4, <2>5, <2>8, <3>1, <3>2, Sizes DEF AbortInv
  <2> QED BY <2>6, <2>7, <2>9
<1>6. CASE (\E w \in Worker : SpuriousWakeup(w)) \/ UNCHANGED vars
  <2>1. UNCHANGED <<pc, n_graph, n_barrier_passed, abort, ec, local>>
    BY <1>6 DEF SpuriousWakeup, vars, signal, shared
  <2>2. \A u \in Thread : /\ In(u)' <=> In(u)
                          /\ Stopped(u)' <=> Stopped(u)
                          /\ LetGo(u)' <=> LetGo(u)
                          /\ Stage(u)' = Stage(u)
                          /\ node_n'[u] = node_n[u] /\ back'[u] = back[u]
    BY <2>1, OthersKeep DEF Kept, local
  <2>3. (Open' <=> Open) /\ Members' = Members /\ Members \subseteq Thread
    BY <2>1, <2>2, MembersAre, Sizes DEF Open, Members, N
  <2>4. \A u \in Thread : (AtAbort(u)' <=> AtAbort(u)) /\ (NearAbort(u)' <=> NearAbort(u))
    BY <2>1, <2>2 DEF AtAbort, NearAbort
  <2> QED BY <2>1, <2>2, <2>3, <2>4, Sizes DEF EndInv, AbortInv, StageInv
<1> QED BY Steps, <1>1, <1>2, <1>3, <1>4, <1>5, <1>6

LEMMA StageInit == Init => EndInv /\ AbortInv /\ StageInv
<1> SUFFICES ASSUME Init PROVE EndInv /\ AbortInv /\ StageInv
  OBVIOUS
<1>1. pc[0] = "call" /\ abort = 0 /\ ec = "success" /\ \A t \in Thread : pc[t] \in {"call", "pause"}
  BY Sizes DEF Init
<1>2. ~Open /\ \A t \in Thread : ~In(t)
  BY <1>1, Sizes DEF Open, In, Places
<1> QED BY <1>1, <1>2 DEF EndInv, AbortInv, StageInv

-----------------------------------------------------------------------------
(* The theorems *)

Inv == /\ Shape /\ NodeInv /\ MutexInv /\ SleepInv
       /\ MemberInv /\ BarrierInv /\ EndInv /\ AbortInv /\ StageInv

LEMMA InvStep == Inv /\ [Next]_vars => Inv' /\ Together
<1> SUFFICES ASSUME Inv, [Next]_vars PROVE Inv' /\ Together
  OBVIOUS
<1>1. Together
  BY AllTogether DEF Inv
<1>2. Shape' /\ NodeInv' /\ MutexInv' /\ SleepInv'
  BY ShapeStep, NodeStep, MutexStep, SleepStep DEF Inv
<1>3. MemberInv' /\ BarrierInv'
  BY <1>1, MemberStep DEF Inv
<1>4. EndInv' /\ AbortInv' /\ StageInv'
  BY StageStep DEF Inv
<1> QED BY <1>1, <1>2, <1>3, <1>4 DEF Inv

\* The inductive invariant: types, mutex and sleepers, who is in the graph, the barrier's count, and
\* that all are in the same stage of the graph.
THEOREM Invariant == Spec => []Inv
<1>1. Init => Inv
  BY ShapeInit, MemberInit, StageInit DEF Inv
<1>2. Inv /\ [Next]_vars => Inv'
  BY InvStep
<1> QED BY <1>1, <1>2, PTL DEF Spec

\* The barrier's count in a pool of any size: as many as wait, and never more than there are threads.
LEMMA CountBound == Inv => n_barrier \in 0..NThread
<1> SUFFICES ASSUME Inv PROVE n_barrier \in 0..NThread
  OBVIOUS
<1> USE DEF Inv
<1>1. CASE \E t \in Thread : pc[t] = "release"
  <2>1. n_barrier = 0
    BY <1>1 DEF BarrierInv
  <2> QED BY <2>1, Sizes
<1>2. CASE \A t \in Thread : pc[t] # "release"
  <2> DEFINE W == {t \in Thread : Waiting(t)}
  <2>1. n_barrier = Cardinality(W)
    BY <1>2 DEF BarrierInv
  <2>2. 0 \in Int /\ NThread - 1 \in Int /\ ~(0 > NThread - 1) /\ (NThread - 1) - 0 + 1 = NThread
    BY Sizes
  <2>3. IsFiniteSet(Thread) /\ Cardinality(Thread) = NThread
    BY <2>2, FS_Interval DEF Thread
  <2>4. W \in SUBSET Thread
    OBVIOUS
  <2>5. Cardinality(W) <= Cardinality(Thread)
    BY <2>3, <2>4, FS_Subset
  <2>6. n_barrier \in Nat /\ n_barrier <= NThread
    BY <2>1, <2>3, <2>5 DEF Shape
  <2> QED BY <2>6, Sizes
<1> QED BY <1>1, <1>2

\* Types, and who holds the mutex, for any number of threads: the barrier's counter never exceeds
\* the threads there are, the node pointers stay in the graph or just behind it, and the mutex is
\* held by exactly the threads that are between two of its steps.
THEOREM TypeCorrect == Spec => []TypeOK
<1>1. Inv => TypeOK
  <2> SUFFICES ASSUME Inv PROVE TypeOK
    OBVIOUS
  <2> USE DEF Inv, Shape
  <2>1. n_barrier \in 0..NThread
    BY CountBound
  <2>2. /\ mutex = {t \in Thread : pc[t] \in {"wake", "unpause", "nowork", "stillpaused"}}
        /\ waiting \subseteq {w \in Worker : pc[w] \in {"asleep", "check"}}
    BY DEF MutexInv, Holding
  <2>3. pc[0] \in Places \cup {"call", "kickoff", "wake", "unpause", "join", "freed"}
    BY DEF CallerPlaces
  <2>4. ASSUME NEW w \in Worker
        PROVE  /\ pc[w] \in Places \cup {"pause", "paused", "asleep", "stop", "flags", "graph", "check",
                                         "nowork", "stillpaused", "exited"}
               /\ last_graph[w].count \in 0..n_graph.count
               /\ polls[w] \in 0..Poll
    <3>1. last_graph[w].count \in Nat /\ last_graph[w].count <= n_graph.count /\ n_graph.count \in Nat
      BY DEF WatchType
    <3>2. polls[w] \in 0..Poll
      BY DEF WatchType
    <3> QED BY <3>1, <3>2 DEF WorkerPlaces
  <2>5. ASSUME NEW t \in Thread
        PROVE  /\ nth[t] \in 0..NThread /\ node_n[t] \in 1..(Len(Graph) + 1)
               /\ n_passed[t] \in 0..n_barrier_passed
               /\ back[t] \in {"node", "chunk", "end"}
               /\ chunk[t] \in Nat
    <3>1. n_passed[t] \in Nat /\ n_passed[t] <= n_barrier_passed
      BY DEF LocalType
    <3> QED BY <3>1 DEF LocalType
  <2> QED BY <2>1, <2>2, <2>3, <2>4, <2>5 DEF TypeOK
<1> QED BY <1>1, Invariant, PTL

\* ggml-cpu.c:3419 for any number of threads: while the caller is outside a graph, no worker is in
\* one, save on its way out of the last barrier.
THEOREM CallerAlone == Spec => []NoStragglers
<1>1. Inv => NoStragglers
  <2> SUFFICES ASSUME Inv, pc[0] \in {"call", "kickoff", "unpause", "join", "freed"},
                      NEW w \in Worker, pc[w] \in Places
               PROVE  pc[w] = "spin" /\ back[w] = "end" /\ n_passed[w] # n_barrier_passed
    BY DEF NoStragglers
  <2>1. ~Open
    BY DEF Open, In, Places
  <2>2. ~In(w)
    BY <2>1, Sizes DEF Inv, MemberInv
  <2> QED BY <2>2 DEF In, Left, LetGo
<1> QED BY <1>1, Invariant, PTL

\* No wakeup is lost for any number of workers: nobody is asleep that has work, and nobody sleeps
\* in a pool that is to stop or on a pause that is over, unless the caller is about to broadcast.
THEOREM WakeupsKept == Spec => []NobodySleepsThrough
<1>1. Inv => NobodySleepsThrough
  BY DEF Inv, SleepInv
<1> QED BY <1>1, Invariant, PTL

\* The barrier lets no one through early: when the last to come is about to let the others go, all
\* the other threads of the graph wait there, at the same node and for the same part of it.
BarrierMeets == \A t \in Thread :
    pc[t] = "release" =>
        \A u \in Thread \ {t} : u < n_graph.n =>
            pc[u] = "spin" /\ n_passed[u] = n_barrier_passed /\ node_n[u] = node_n[t] /\ back[u] = back[t]

\* Every barrier of a graph is one that all of its threads have come to.
THEOREM AllMeet == Spec => []BarrierMeets
<1>1. Inv => BarrierMeets
  <2> SUFFICES ASSUME Inv, NEW t \in Thread, pc[t] = "release", NEW u \in Thread \ {t}, u < n_graph.n
               PROVE  pc[u] = "spin" /\ n_passed[u] = n_barrier_passed /\ node_n[u] = node_n[t] /\ back[u] = back[t]
    BY DEF BarrierMeets
  <2>1. u \in Members
    BY MembersAre DEF Inv, N
  <2>2. Together
    BY AllTogether DEF Inv
  <2>3. pc[u] = "spin" /\ n_passed[u] = n_barrier_passed
    BY <2>1 DEF Inv, BarrierInv
  <2> QED BY <2>1, <2>2, <2>3 DEF Together
<1> QED BY <1>1, Invariant, PTL

-----------------------------------------------------------------------------
(* How far a thread is in the stage's node *)

Todo(t) == Stage(t)[1]
Late(t) == Stage(t)[2] = "chunks"

\* The node that t is through with, if it is
Cur(t) == IF pc[t] = "computed" THEN node_n[t] ELSE node_n[t] - 1

\* t is through with the stage's node; with its part of the input; has a chunk to compute
PastNode(t) ==
    /\ In(t)
    /\ \/ pc[t] = "computed"
       \/ Stopped(t) /\ back[t] = "node"
       \/ /\ node_n[t] = Len(Graph) + 1 /\ Len(Graph) \in Real
          /\ pc[t] = "node" \/ (Stopped(t) /\ back[t] = "end")
PastInput(t) == In(t) /\ Stopped(t) /\ back[t] = "chunk"
Hold(t)      == In(t) /\ (pc[t] = "chunk" \/ (LetGo(t) /\ back[t] = "chunk"))

DoneType == done \subseteq Real \X {"part", "input", "chunk"} \X Nat

\* What is done is of nodes in front of the stage's, which are finished, or of the stage's node, by
\* the threads that are through with it
DoneInv == Open =>
    /\ \A p \in done : \A i \in Todo(0) : p[1] <= i
    /\ \A i \in Real \ Todo(0) : Finished(i)
    /\ \A t \in Members, i \in Todo(0) :
         /\ <<i, "part", t>> \in done => PastNode(t)
         /\ <<i, "input", t>> \in done => Late(0) \/ PastInput(t)
    /\ \A t \in Members :
         /\ PastNode(t) /\ Graph[Cur(t)] = "plain" => <<Cur(t), "part", t>> \in done
         /\ PastInput(t) => <<node_n[t], "input", t>> \in done

\* The chunks of node i, the stage's: each one below the counter has been computed or is held, by
\* one thread
ChunksOf(i) ==
    /\ \A t \in Members : <<i, "input", t>> \in done
    /\ \A c \in Nat : <<i, "chunk", c>> \in done =>
         c < current_chunk /\ \A t \in Members : Hold(t) => chunk[t] # c
    /\ \A c \in 0..(NChunk(N) - 1) : c < current_chunk =>
         <<i, "chunk", c>> \in done \/ \E t \in Members : Hold(t) /\ chunk[t] = c

HeldInv ==
    /\ current_chunk >= N
    /\ \A t \in Members :
         /\ PastNode(t) => current_chunk >= NChunk(N)
         /\ Hold(t) => chunk[t] < current_chunk
    /\ \A t, u \in Members : Hold(t) /\ Hold(u) /\ t # u => chunk[t] # chunk[u]

ChunkInv == Open =>
    /\ PastInput(0) => current_chunk = N
    /\ \A t \in Members : PastInput(t) => chunk[t] = t
    /\ ~Late(0) => \A p \in done : p[2] = "chunk" => p[1] \notin Todo(0)
    /\ Late(0) => HeldInv /\ \A i \in Todo(0) : Todo(0) = Rest(i) => ChunksOf(i)

LEMMA ChunkCount == N \in 1..NThread => NChunk(N) \in Nat /\ NChunk(N) >= 1
<1> SUFFICES ASSUME N \in 1..NThread PROVE NChunk(N) \in Nat /\ NChunk(N) >= 1
  OBVIOUS
<1>1. NChunk(N) \in {N, Chunks}
  BY DEF NChunk
<1>2. N \in Nat /\ N >= 1 /\ Chunks \in Nat /\ Chunks >= 1
  BY Sizes, SizeAssumption
<1> QED BY <1>1, <1>2

\* What a thread's place says about the stage.
LEMMA StagePlace ==
    ASSUME Shape, NodeInv, NEW t \in Thread
    PROVE  /\ Stage(t) = <<Todo(t), Stage(t)[2]>>
           /\ pc[t] \in {"plain", "mat"} => Stage(t) = <<Rest(node_n[t]), "input">>
           /\ pc[t] \in {"chunk", "grab"} => Stage(t) = <<Rest(node_n[t]), "chunks">>
           /\ PastInput(t) => Stage(t)[2] = "input"
           /\ Hold(t) => Stage(t)[2] = "chunks"
           /\ Todo(t) \subseteq Real
           /\ Todo(t) = {} \/ \E m \in Nat : Todo(t) = Rest(m)
<1> DEFINE L == Len(Graph)
<1>1. node_n[t] \in Nat /\ node_n[t] >= 1 /\ node_n[t] - 1 \in Nat
  <2>1. node_n[t] \in 1..(L + 1) /\ L \in Nat
    BY Sizes DEF Shape, LocalType
  <2> QED BY <2>1
<1>2. ASSUME NEW m \in Nat
      PROVE  /\ Ahead(m) = <<Ahead(m)[1], Ahead(m)[2]>>
             /\ Ahead(m)[1] = {} \/ \E k \in Nat : Ahead(m)[1] = Rest(k)
  <2>1. CASE m <= L
    BY <2>1 DEF Ahead
  <2>2. CASE ~(m <= L) /\ L \in Real
    <3>1. Ahead(m) = <<Rest(L), Phase(L)>> /\ L \in Nat
      BY <2>2, Sizes DEF Ahead
    <3> QED BY <3>1
  <2>3. CASE ~(m <= L) /\ L \notin Real
    BY <2>3 DEF Ahead
  <2> QED BY <2>1, <2>2, <2>3
<1>3. /\ pc[t] \in {"plain", "mat"} => Stage(t) = <<Rest(node_n[t]), "input">>
      /\ pc[t] \in {"chunk", "grab"} => Stage(t) = <<Rest(node_n[t]), "chunks">>
  BY DEF Stage, In, Left, LetGo, Places
<1>4. \/ \E m \in Nat : Stage(t) = Ahead(m)
      \/ \E m \in Nat, s \in {"input", "chunks"} : Stage(t) = <<Rest(m), s>>
  BY <1>1 DEF Stage, Phase
<1>5. Stage(t) = <<Stage(t)[1], Stage(t)[2]>> /\ (Stage(t)[1] = {} \/ \E m \in Nat : Stage(t)[1] = Rest(m))
  <2>1. CASE \E m \in Nat : Stage(t) = Ahead(m)
    BY <1>2, <2>1
  <2>2. CASE \E m \in Nat, s \in {"input", "chunks"} : Stage(t) = <<Rest(m), s>>
    BY <2>2
  <2> QED BY <1>4, <2>1, <2>2
<1>6. PastInput(t) => Stage(t)[2] = "input"
  BY DEF PastInput, Stage, Stopped, LetGo
<1>7. Hold(t) => Stage(t)[2] = "chunks"
  BY DEF Hold, Stage, LetGo
<1>8. Todo(t) \subseteq Real
  BY <1>5 DEF Todo, Rest
<1> QED BY <1>3, <1>5, <1>6, <1>7, <1>8 DEF Todo

\* Of all threads in a graph, thread 0's stage is the stage.
LEMMA OneStage ==
    ASSUME Shape, MemberInv, StageInv, NEW t \in Thread, In(t)
    PROVE  Open /\ t \in Members /\ 0 \in Members /\ Members \subseteq Thread /\ Stage(0) = Stage(t)
           /\ N \in 1..NThread /\ (pc[t] # "start" => nth[t] = N)
<1>1. Open /\ t < N /\ (pc[t] # "start" => nth[t] = N) /\ N \in 1..NThread
  BY DEF MemberInv
<1>2. t \in Members /\ 0 \in Members /\ Members \subseteq Thread
  BY <1>1, MembersAre
<1> QED BY <1>1, <1>2 DEF StageInv

-----------------------------------------------------------------------------
(* Steps that compute nothing *)

\* u is as far as it was
Same(u) ==
    /\ PastNode(u)' <=> PastNode(u)
    /\ PastInput(u)' <=> PastInput(u)
    /\ Hold(u)' <=> Hold(u)
    /\ PastNode(u) => Cur(u)' = Cur(u)
    /\ PastInput(u) => node_n'[u] = node_n[u]
    /\ PastInput(u) \/ Hold(u) => chunk'[u] = chunk[u]

LEMMA SameKeeps ==
    ASSUME Shape, NodeInv, DoneInv, ChunkInv, \A u \in Thread : Same(u), Open' <=> Open, Stage(0)' = Stage(0),
           UNCHANGED <<n_graph, done, current_chunk>>
    PROVE  DoneInv' /\ ChunkInv'
<1>1. /\ N' = N /\ Members' = Members /\ Todo(0)' = Todo(0) /\ (Late(0)' <=> Late(0))
      /\ \A i \in Real : Finished(i)' <=> Finished(i)
  BY DEF N, Members, Todo, Late, Finished
<1>2. Members \subseteq Thread /\ 0 \in Thread
  BY MembersAre, Sizes
<1>3. DoneInv'
  BY <1>1, <1>2 DEF DoneInv, Same
<1>4. HeldInv => HeldInv'
  <2>1. NChunk(N)' = NChunk(N)
    BY <1>1 DEF NChunk
  <2> QED BY <1>1, <1>2, <2>1 DEF HeldInv, Same
<1>5. ASSUME NEW i \in Real PROVE ChunksOf(i) => ChunksOf(i)'
  <2>1. NChunk(N)' = NChunk(N)
    BY <1>1 DEF NChunk
  <2> QED BY <1>1, <1>2, <2>1 DEF ChunksOf, Same
<1>6. Todo(0) \subseteq Real
  BY <1>2, StagePlace
<1>7. ASSUME Open' PROVE (PastInput(0)' => current_chunk' = N') /\ \A t \in Members' : PastInput(t)' => chunk'[t] = t
  BY <1>1, <1>2, <1>7 DEF ChunkInv, Same
<1>8. ASSUME Open', ~Late(0)' PROVE \A p \in done' : p[2] = "chunk" => p[1] \notin Todo(0)'
  BY <1>1, <1>8 DEF ChunkInv
<1>9. ASSUME Open', Late(0)' PROVE HeldInv' /\ \A i \in Todo(0)' : Todo(0)' = Rest(i) => ChunksOf(i)'
  BY <1>1, <1>4, <1>5, <1>6, <1>9 DEF ChunkInv
<1>10. ChunkInv'
  BY <1>7, <1>8, <1>9 DEF ChunkInv, Rest
<1> QED BY <1>3, <1>10

\* Where a thread is in the stage changes with its own steps only, the barrier's release apart.
LEMMA OthersSame ==
    ASSUME NEW u \in Thread, Kept(u), n_barrier_passed' = n_barrier_passed
    PROVE  Same(u)
BY OthersKeep DEF Kept, Same, PastNode, PastInput, Hold, Cur

\* A thread's steps from node to node, and into the barrier and out of it.
LEMMA OwnSame ==
    ASSUME Shape, NodeInv, BarrierInv, NEW t \in Thread,
           Start(t) \/ NextNode(t) \/ Computed(t) \/ (AtBarrier(t) /\ N # 1) \/ Arrive(t) \/ Reset(t) \/ Spin(t)
    PROVE  Same(t) /\ UNCHANGED <<done, redone, current_chunk>>
<1> USE DEF Becomes, Shape
<1> DEFINE L == Len(Graph)
<1>0. /\ back[t] \in {"node", "chunk", "end"} /\ node_n[t] \in Nat /\ L \in Nat
      /\ (L \in Real => L >= 1)
  <2>1. LocalType
    OBVIOUS
  <2>2. back[t] \in {"node", "chunk", "end"} /\ node_n[t] \in 1..(Len(Graph) + 1)
    BY <2>1 DEF LocalType
  <2>3. L \in Nat
    BY Sizes
  <2>4. L \in Real => L >= 1
    BY RealNodes, <2>3
  <2>. HIDE DEF Shape
  <2>. QED BY <2>2, <2>3, <2>4
<1>1. CASE Start(t)
  <2>1. pc[t] = "start" /\ pc'[t] = "node" /\ node_n'[t] = 1 /\ UNCHANGED <<done, redone, current_chunk>>
    BY <1>1, StartStep DEF shared, ghost
  <2>2. ~PastNode(t) /\ ~PastInput(t) /\ ~Hold(t)
    BY <2>1 DEF PastNode, PastInput, Hold, Stopped, LetGo
  <2>3. ~PastNode(t)' /\ ~PastInput(t)' /\ ~Hold(t)'
    BY <1>0, <2>1 DEF PastNode, PastInput, Hold, Stopped, LetGo
  <2> QED BY <2>1, <2>2, <2>3 DEF Same
<1>2. CASE NextNode(t)
  <2>0. pc[t] = "node" /\ UNCHANGED <<n_barrier_passed, done, redone, current_chunk>>
    BY <1>2, NextNodeStep DEF shared, ghost
  <2>1. In(t) /\ ~PastInput(t) /\ ~Hold(t) /\ (PastNode(t) <=> node_n[t] = L + 1 /\ L \in Real)
    BY <2>0 DEF In, Left, LetGo, Places, PastNode, PastInput, Hold, Stopped
  <2>2. CASE pc'[t] = "barrier" /\ node_n'[t] = node_n[t] /\ back'[t] = "end"
    <3>1. In(t)' /\ ~PastInput(t)' /\ ~Hold(t)' /\ (PastNode(t)' <=> node_n[t] = L + 1 /\ L \in Real)
      BY <2>2 DEF In, Left, LetGo, Places, PastNode, PastInput, Hold, Stopped
    <3>2. Cur(t)' = Cur(t)
      BY <2>0, <2>2 DEF Cur
    <3> QED BY <2>0, <2>1, <3>1, <3>2 DEF Same
  <2>3. CASE node_n[t] \in Node /\ Graph[node_n[t]] = "nop" /\ pc'[t] = "node" /\ node_n'[t] = node_n[t] + 1
    <3>1. ~PastNode(t)
      BY <1>0, <2>1, <2>3 DEF Node
    <3>2. node_n[t] + 1 = L + 1 => L \notin Real
      BY <1>0, <2>3 DEF Real
    <3>3. ~PastInput(t)' /\ ~Hold(t)' /\ ~PastNode(t)'
      BY <2>3, <3>2 DEF PastNode, PastInput, Hold, Stopped, LetGo
    <3> QED BY <2>0, <2>1, <3>1, <3>3 DEF Same
  <2>4. CASE node_n[t] \in Real /\ pc'[t] = Graph[node_n[t]] /\ node_n'[t] = node_n[t]
    <3>1. pc'[t] \in {"plain", "mat"} /\ node_n[t] <= L
      BY <2>4, Sizes, RealNodes DEF Real
    <3>2. ~PastNode(t)
      BY <1>0, <2>1, <3>1
    <3>3. ~PastInput(t)' /\ ~Hold(t)' /\ ~PastNode(t)'
      BY <3>1 DEF PastNode, PastInput, Hold, Stopped, LetGo
    <3> QED BY <2>0, <2>1, <3>2, <3>3 DEF Same
  <2> QED BY <1>2, <2>2, <2>3, <2>4, NextNodeStep
<1>3. CASE Computed(t)
  <2>0. pc[t] = "computed" /\ UNCHANGED <<n_barrier_passed, done, redone, current_chunk>>
    BY <1>3, ComputedStep DEF ghost
  <2>1. In(t) /\ PastNode(t) /\ ~PastInput(t) /\ ~Hold(t) /\ Cur(t) = node_n[t] /\ node_n[t] \in Real
    BY <2>0 DEF In, Left, LetGo, Places, PastNode, PastInput, Hold, Stopped, Cur, NodeInv
  <2>2. CASE pc'[t] = "barrier" /\ node_n'[t] = node_n[t] + 1 /\ back'[t] = "node"
    <3>1. PastNode(t)' /\ ~PastInput(t)' /\ ~Hold(t)'
      BY <2>2 DEF In, Left, LetGo, Places, PastNode, PastInput, Hold, Stopped
    <3>2. Cur(t)' = node_n[t]
      BY <1>0, <2>2 DEF Cur
    <3> QED BY <2>0, <2>1, <3>1, <3>2 DEF Same
  <2>3. CASE node_n[t] = L /\ pc'[t] = "node" /\ node_n'[t] = node_n[t] + 1
    <3>1. PastNode(t)' /\ ~PastInput(t)' /\ ~Hold(t)'
      BY <2>1, <2>3 DEF In, Left, LetGo, Places, PastNode, PastInput, Hold, Stopped
    <3>2. Cur(t)' = node_n[t]
      BY <1>0, <2>3 DEF Cur
    <3> QED BY <2>0, <2>1, <3>1, <3>2 DEF Same
  <2> QED BY <1>3, <2>2, <2>3, ComputedStep
<1>4. CASE (AtBarrier(t) /\ N # 1) \/ Arrive(t) \/ Reset(t)
  <2>1. /\ pc[t] \in {"barrier", "arrive", "reset"} /\ pc'[t] \in {"arrive", "reset", "spin", "release"}
        /\ node_n'[t] = node_n[t] /\ back'[t] = back[t] /\ chunk'[t] = chunk[t] /\ UNCHANGED n_barrier_passed
        /\ pc[t] # "barrier" => n_passed'[t] = n_passed[t]
        /\ pc[t] = "barrier" => pc'[t] = "arrive"
        /\ UNCHANGED <<done, redone, current_chunk>>
    BY <1>4, AtBarrierStep, ArriveStep, ResetStep DEF shared, ghost, N
  <2>2. pc'[t] = "spin" => n_passed'[t] = n_barrier_passed'
    BY <2>1 DEF BarrierInv
  <2>3. /\ In(t) /\ In(t)' /\ Stopped(t) /\ Stopped(t)' /\ ~LetGo(t) /\ ~LetGo(t)'
        /\ Cur(t)' = Cur(t)
    BY <2>1, <2>2 DEF In, Left, LetGo, Places, Stopped, Cur
  <2> QED BY <2>1, <2>3 DEF Same, PastNode, PastInput, Hold
<1>5. CASE Spin(t)
  <2>1. /\ LetGo(t) /\ pc[t] = "spin" /\ pc'[t] = BackTo(t) /\ node_n'[t] = node_n[t] /\ back'[t] = back[t]
        /\ chunk'[t] = chunk[t] /\ UNCHANGED <<n_barrier_passed, done, redone, current_chunk>>
    BY <1>5, SpinStep DEF LetGo, shared, ghost
  <2>2. ~Stopped(t) /\ ~PastNode(t) /\ ~PastInput(t) /\ (Hold(t) <=> back[t] = "chunk")
    BY <1>0, <2>1 DEF Stopped, LetGo, PastNode, PastInput, Hold, In, Left, Places
  <2>3. ~Stopped(t)' /\ ~LetGo(t)' /\ ~PastInput(t)' /\ (Hold(t)' <=> back[t] = "chunk")
    BY <1>0, <2>1 DEF Stopped, LetGo, PastInput, Hold, In, Left, Places, BackTo
  <2>4. ~PastNode(t)'
    <3>1. back[t] = "node" => node_n[t] # L + 1
      BY <1>0, <2>1 DEF NodeInv, Barriers, Node
    <3>2. pc'[t] = "node" => back[t] = "node"
      BY <2>1 DEF BackTo
    <3>3. pc'[t] # "computed"
      BY <1>0, <2>1 DEF BackTo
    <3> QED BY <2>1, <2>3, <3>1, <3>2, <3>3 DEF PastNode
  <2> QED BY <2>1, <2>2, <2>3, <2>4 DEF Same
<1> QED BY <1>1, <1>2, <1>3, <1>4, <1>5

-----------------------------------------------------------------------------
(* Steps that compute *)

\* What such a step leaves as it is.
LEMMA ComputeFrame ==
    ASSUME Shape, NodeInv, MemberInv, BarrierInv, StageInv,
           NEW t \in Thread, Plain(t) \/ MatInput(t) \/ Chunk(t) \/ Grab(t)
    PROVE  /\ In(t) /\ Open /\ Open' /\ N' = N /\ Members' = Members /\ Members \subseteq Thread
           /\ t \in Members /\ 0 \in Members /\ N \in 1..NThread /\ nth[t] = N
           /\ NChunk(N)' = NChunk(N)
           /\ Stage(0) = Stage(t) /\ Todo(0) = Rest(node_n[t]) /\ Todo(0)' = Todo(0) /\ (Late(0)' <=> Late(0))
           /\ Todo(0) \subseteq Real /\ node_n[t] \in Real /\ node_n[t] \in Todo(0)
           /\ \A i \in Todo(0) : Todo(0) = Rest(i) => i = node_n[t]
           /\ \A u \in Thread \ {t} : Same(u)
           /\ UNCHANGED n_graph /\ node_n'[t] = node_n[t]
           /\ pc[t] \in {"plain", "mat", "chunk", "grab"} /\ ~PastNode(t)
<1>1. StepsInside(t) /\ InGraph(t)
  BY DEF StepsInside, InGraph
<1>2. /\ pc[t] \in {"plain", "mat", "chunk", "grab"} /\ node_n'[t] = node_n[t]
      /\ pc'[t] \in Places
  <2>1. CASE Plain(t)
    BY <2>1, PlainStep DEF Shape, Becomes, Places
  <2>2. CASE MatInput(t)
    BY <2>2, MatInputStep DEF Shape, Becomes, Places
  <2>3. CASE Chunk(t)
    BY <2>3, ChunkStep DEF Shape, Becomes, Places
  <2>4. CASE Grab(t)
    BY <2>4, GrabStep DEF Shape, Becomes, Places
  <2> QED BY <2>1, <2>2, <2>3, <2>4
<1>3. /\ \A u \in Thread \ {t} : Kept(u)
      /\ UNCHANGED n_graph
  BY <1>1, InGraphStep DEF Shape
<1>4. (In(t)' <=> In(t)) /\ Stage(t)' = Stage(t) /\ UNCHANGED n_barrier_passed
  BY <1>1, OwnStage
<1>5. In(t)
  BY <1>2 DEF In, Left, LetGo, Places
<1>6. Open /\ t \in Members /\ 0 \in Members /\ Members \subseteq Thread /\ Stage(0) = Stage(t)
      /\ N \in 1..NThread /\ nth[t] = N
  BY <1>2, <1>5, OneStage
<1>7. \A u \in Thread \ {t} : Same(u) /\ Stage(u)' = Stage(u) /\ (In(u)' <=> In(u)) /\ pc'[u] = pc[u]
  BY <1>3, <1>4, OthersSame, OthersKeep DEF Kept
<1>8. N' = N /\ Members' = Members /\ NChunk(N)' = NChunk(N) /\ Stage(0)' = Stage(0)
  BY <1>3, <1>4, <1>7, Sizes DEF N, Members, NChunk
<1>9. Open'
  <2>1. CASE t = 0
    BY <1>4, <1>5, <2>1 DEF Open
  <2>2. CASE t # 0
    BY <1>6, <1>7, <2>2, Sizes DEF Open
  <2> QED BY <2>1, <2>2
<1>10. node_n[t] \in Real
  <2>1. node_n[t] \in Node /\ Graph[node_n[t]] \in {"plain", "mat"}
    BY <1>2 DEF NodeInv, IsMat
  <2> QED BY <2>1 DEF Real
<1>11. Todo(0) = Rest(node_n[t]) /\ Todo(0) \subseteq Real
  BY <1>2, <1>6, StagePlace, Sizes DEF Todo
<1>12. node_n[t] \in Todo(0)
  BY <1>10, <1>11, RealNodes
<1>13. \A i \in Todo(0) : Todo(0) = Rest(i) => i = node_n[t]
  BY <1>10, <1>11, RestReal
<1>14. ~PastNode(t)
  BY <1>2 DEF PastNode, Stopped
<1>15. Todo(0)' = Todo(0) /\ (Late(0)' <=> Late(0))
  BY <1>8 DEF Todo, Late
<1> QED BY <1>2, <1>3, <1>5, <1>6, <1>7, <1>8, <1>9, <1>10, <1>11, <1>12, <1>13, <1>14, <1>15

\* What was finished stays so.
LEMMA StaysFinished ==
    ASSUME n_graph' = n_graph, done \subseteq done', NEW i, Finished(i) PROVE Finished(i)'
<1>1. Parts(i, n_graph.n)' = Parts(i, n_graph.n)
  BY DEF Parts, NChunk
<1> QED BY <1>1 DEF Finished

\* Nodes that compute nothing are finished, and so is what is in front of the stage.
LEMMA InFront ==
    ASSUME Open, N \in 1..NThread, DoneInv, NEW m \in Nat, Todo(0) = Rest(m),
           NEW i \in 1..(m - 1), m \in Node
    PROVE  Finished(i)
<1>1. i \in Node /\ N > 0 /\ ~(i >= m) /\ i \in Nat
  BY Sizes DEF Node
<1>2. CASE i \in Real
  <2>1. i \notin Todo(0)
    BY <1>1 DEF Rest
  <2> QED BY <1>2, <2>1 DEF DoneInv
<1>3. CASE i \notin Real
  <2>1. Graph[i] = "nop"
    BY <1>1, <1>3 DEF Real
  <2>2. Parts(i, N) = {}
    BY <2>1 DEF Parts
  <2> QED BY <1>1, <2>2 DEF Finished, N
<1> QED BY <1>2, <1>3

LEMMA PlainDone ==
    ASSUME Shape, NodeInv, MemberInv, BarrierInv, StageInv, DoneType, DoneInv, ChunkInv, NEW t \in Thread, Plain(t)
    PROVE  /\ DoneType' /\ DoneInv' /\ ChunkInv' /\ UNCHANGED redone
           /\ done' = done \cup {<<node_n[t], "part", t>>} /\ Todo(0) = Rest(node_n[t])
<1> DEFINE n == node_n[t]
           p == <<n, "part", t>>
<1>1. pc[t] = "plain" /\ pc'[t] = "computed" /\ UNCHANGED <<current_chunk, n_barrier_passed>>
      /\ ComputePart(p)
  BY PlainStep DEF Shape, shared, Becomes
<1>2. /\ In(t) /\ Open /\ Open' /\ N' = N /\ Members' = Members /\ Members \subseteq Thread
      /\ t \in Members /\ 0 \in Members
      /\ Todo(0) = Rest(n) /\ Todo(0)' = Todo(0) /\ (Late(0)' <=> Late(0))
      /\ Todo(0) \subseteq Real /\ n \in Real /\ n \in Todo(0)
      /\ \A u \in Thread \ {t} : Same(u)
      /\ UNCHANGED n_graph /\ node_n'[t] = n /\ ~PastNode(t)
  BY ComputeFrame
<1>3. ~Late(0)
  <2>1. Stage(t) = <<Rest(n), "input">> /\ Stage(0) = Stage(t)
    BY <1>1, StagePlace, ComputeFrame
  <2> QED BY <2>1 DEF Late
<1>4. p \notin done
  BY <1>2 DEF DoneInv
<1>5. done' = done \cup {p} /\ UNCHANGED redone
  BY <1>1, <1>4 DEF ComputePart, Shape
<1>6. PastNode(t)' /\ ~PastInput(t)' /\ ~Hold(t)' /\ Cur(t)' = n
  BY <1>1, <1>2 DEF PastNode, PastInput, Hold, In, Left, LetGo, Stopped, Places, Cur
<1>7. DoneType'
  BY <1>2, <1>5, Sizes DEF DoneType
<1>8. \A i \in Real \ Todo(0)' : Finished(i)'
  BY <1>2, <1>5, StaysFinished DEF DoneInv
<1>9. \A q \in done' : \A i \in Todo(0)' : q[1] <= i
  BY <1>2, <1>5, RealNodes DEF DoneInv, Rest
<1>10. \A u \in Members', i \in Todo(0)' :
         /\ <<i, "part", u>> \in done' => PastNode(u)'
         /\ <<i, "input", u>> \in done' => Late(0)' \/ PastInput(u)'
  <2> SUFFICES ASSUME NEW u \in Members, NEW i \in Todo(0)
               PROVE  /\ <<i, "part", u>> \in done' => PastNode(u)'
                      /\ <<i, "input", u>> \in done' => Late(0)' \/ PastInput(u)'
    BY <1>2
  <2>1. <<i, "part", u>> \in done => PastNode(u)
    BY <1>2 DEF DoneInv
  <2>2. <<i, "input", u>> \in done => PastInput(u)
    BY <1>2, <1>3 DEF DoneInv
  <2>3. ~PastInput(t)
    BY <1>1 DEF PastInput, Stopped
  <2> QED BY <1>2, <1>5, <1>6, <2>1, <2>2, <2>3 DEF Same
<1>11. \A u \in Members' :
         /\ PastNode(u)' /\ Graph[Cur(u)'] = "plain" => <<Cur(u)', "part", u>> \in done'
         /\ PastInput(u)' => <<node_n'[u], "input", u>> \in done'
  <2> SUFFICES ASSUME NEW u \in Members
               PROVE  /\ PastNode(u)' /\ Graph[Cur(u)'] = "plain" => <<Cur(u)', "part", u>> \in done'
                      /\ PastInput(u)' => <<node_n'[u], "input", u>> \in done'
    BY <1>2
  <2>1. CASE u = t
    BY <1>5, <1>6, <2>1
  <2>2. CASE u # t
    <3>1. Same(u)
      BY <1>2, <2>2
    <3>2. /\ PastNode(u) /\ Graph[Cur(u)] = "plain" => <<Cur(u), "part", u>> \in done
          /\ PastInput(u) => <<node_n[u], "input", u>> \in done
      BY <1>2 DEF DoneInv
    <3> QED BY <1>5, <3>1, <3>2 DEF Same
  <2> QED BY <2>1, <2>2
<1>12. DoneInv'
  BY <1>8, <1>9, <1>10, <1>11 DEF DoneInv
<1>13. ChunkInv'
  <2>1. PastInput(0)' => current_chunk' = N'
    BY <1>1, <1>2, <1>6 DEF ChunkInv, Same
  <2>2. \A u \in Members' : PastInput(u)' => chunk'[u] = u
    BY <1>2, <1>6 DEF ChunkInv, Same
  <2>3. \A q \in done' : q[2] = "chunk" => q[1] \notin Todo(0)'
    BY <1>2, <1>3, <1>5 DEF ChunkInv
  <2> QED BY <1>2, <1>3, <2>1, <2>2, <2>3 DEF ChunkInv
<1> QED BY <1>2, <1>5, <1>7, <1>12, <1>13

LEMMA MatInputDone ==
    ASSUME Shape, NodeInv, MemberInv, BarrierInv, StageInv, DoneType, DoneInv, ChunkInv, NEW t \in Thread, MatInput(t)
    PROVE  /\ DoneType' /\ DoneInv' /\ ChunkInv' /\ UNCHANGED redone
           /\ done' = done \cup {<<node_n[t], "input", t>>} /\ Todo(0) = Rest(node_n[t])
<1> DEFINE n == node_n[t]
           p == <<n, "input", t>>
<1>1. /\ pc[t] = "mat" /\ pc'[t] = "barrier" /\ back'[t] = "chunk" /\ chunk'[t] = t
      /\ current_chunk' = IF t = 0 THEN nth[t] ELSE current_chunk
      /\ UNCHANGED n_barrier_passed /\ ComputePart(p)
  BY MatInputStep DEF Shape, Becomes
<1>2. /\ In(t) /\ Open /\ Open' /\ N' = N /\ Members' = Members /\ Members \subseteq Thread
      /\ t \in Members /\ 0 \in Members /\ nth[t] = N
      /\ Todo(0) = Rest(n) /\ Todo(0)' = Todo(0) /\ (Late(0)' <=> Late(0))
      /\ Todo(0) \subseteq Real /\ n \in Real /\ n \in Todo(0)
      /\ \A u \in Thread \ {t} : Same(u)
      /\ UNCHANGED n_graph /\ node_n'[t] = n /\ ~PastNode(t)
  BY ComputeFrame
<1>3. ~Late(0)
  <2>1. Stage(t) = <<Rest(n), "input">> /\ Stage(0) = Stage(t)
    BY <1>1, StagePlace, ComputeFrame
  <2> QED BY <2>1 DEF Late
<1>4. ~PastInput(t)
  BY <1>1 DEF PastInput, Stopped
<1>5. p \notin done
  BY <1>2, <1>3, <1>4 DEF DoneInv
<1>6. done' = done \cup {p} /\ UNCHANGED redone
  BY <1>1, <1>5 DEF ComputePart, Shape
<1>7. ~PastNode(t)' /\ PastInput(t)' /\ ~Hold(t)'
  BY <1>1 DEF PastNode, PastInput, Hold, In, Left, LetGo, Stopped, Places
<1>8. DoneType'
  BY <1>2, <1>6, Sizes DEF DoneType
<1>9. \A i \in Real \ Todo(0)' : Finished(i)'
  BY <1>2, <1>6, StaysFinished DEF DoneInv
<1>10. \A q \in done' : \A i \in Todo(0)' : q[1] <= i
  BY <1>2, <1>6, RealNodes DEF DoneInv, Rest
<1>11. \A u \in Members', i \in Todo(0)' :
         /\ <<i, "part", u>> \in done' => PastNode(u)'
         /\ <<i, "input", u>> \in done' => Late(0)' \/ PastInput(u)'
  <2> SUFFICES ASSUME NEW u \in Members, NEW i \in Todo(0)
               PROVE  /\ <<i, "part", u>> \in done' => PastNode(u)'
                      /\ <<i, "input", u>> \in done' => Late(0)' \/ PastInput(u)'
    BY <1>2
  <2>1. <<i, "part", u>> \in done => PastNode(u)
    BY <1>2 DEF DoneInv
  <2>2. <<i, "input", u>> \in done => PastInput(u)
    BY <1>2, <1>3 DEF DoneInv
  <2> QED BY <1>2, <1>6, <1>7, <2>1, <2>2 DEF Same
<1>12. \A u \in Members' :
         /\ PastNode(u)' /\ Graph[Cur(u)'] = "plain" => <<Cur(u)', "part", u>> \in done'
         /\ PastInput(u)' => <<node_n'[u], "input", u>> \in done'
  <2> SUFFICES ASSUME NEW u \in Members
               PROVE  /\ PastNode(u)' /\ Graph[Cur(u)'] = "plain" => <<Cur(u)', "part", u>> \in done'
                      /\ PastInput(u)' => <<node_n'[u], "input", u>> \in done'
    BY <1>2
  <2>1. CASE u = t
    BY <1>2, <1>6, <1>7, <2>1
  <2>2. CASE u # t
    <3>1. Same(u)
      BY <1>2, <2>2
    <3>2. /\ PastNode(u) /\ Graph[Cur(u)] = "plain" => <<Cur(u), "part", u>> \in done
          /\ PastInput(u) => <<node_n[u], "input", u>> \in done
      BY <1>2 DEF DoneInv
    <3> QED BY <1>6, <3>1, <3>2 DEF Same
  <2> QED BY <2>1, <2>2
<1>13. DoneInv'
  BY <1>9, <1>10, <1>11, <1>12 DEF DoneInv
<1>14. ChunkInv'
  <2>1. PastInput(0)' => current_chunk' = N'
    BY <1>1, <1>2 DEF ChunkInv, Same
  <2>2. \A u \in Members' : PastInput(u)' => chunk'[u] = u
    BY <1>1, <1>2 DEF ChunkInv, Same
  <2>3. \A q \in done' : q[2] = "chunk" => q[1] \notin Todo(0)'
    BY <1>2, <1>3, <1>6 DEF ChunkInv
  <2> QED BY <1>2, <1>3, <2>1, <2>2, <2>3 DEF ChunkInv
<1> QED BY <1>2, <1>6, <1>8, <1>13, <1>14

\* A chunk is handed out only once: thread t computes what it holds.
LEMMA ChunkDone ==
    ASSUME Shape, NodeInv, MemberInv, BarrierInv, StageInv, DoneType, DoneInv, ChunkInv, NEW t \in Thread, Chunk(t)
    PROVE  /\ DoneType' /\ DoneInv' /\ ChunkInv' /\ UNCHANGED redone
           /\ Todo(0) = Rest(node_n[t]) /\ ChunksOf(node_n[t])
           /\ \/ UNCHANGED done
              \/ /\ chunk[t] < NChunk(N) /\ <<node_n[t], "chunk", chunk[t]>> \notin done
                 /\ done' = done \cup {<<node_n[t], "chunk", chunk[t]>>}
<1> DEFINE n == node_n[t]
           p == <<n, "chunk", chunk[t]>>
<1>1. /\ pc[t] = "chunk" /\ pc'[t] \in {"computed", "grab"}
      /\ UNCHANGED <<current_chunk, n_barrier_passed>>
  BY ChunkStep DEF Shape, Becomes, shared
<1>2. /\ In(t) /\ Open /\ Open' /\ N' = N /\ Members' = Members /\ Members \subseteq Thread
      /\ t \in Members /\ 0 \in Members /\ nth[t] = N /\ N \in 1..NThread /\ NChunk(N)' = NChunk(N)
      /\ Todo(0) = Rest(n) /\ Todo(0)' = Todo(0) /\ (Late(0)' <=> Late(0))
      /\ Todo(0) \subseteq Real /\ n \in Real /\ n \in Todo(0)
      /\ \A i \in Todo(0) : Todo(0) = Rest(i) => i = n
      /\ \A u \in Thread \ {t} : Same(u)
      /\ UNCHANGED n_graph /\ node_n'[t] = n /\ ~PastNode(t)
  BY ComputeFrame
<1>3. Late(0)
  <2>1. Stage(t) = <<Rest(n), "chunks">> /\ Stage(0) = Stage(t)
    BY <1>1, StagePlace, ComputeFrame
  <2> QED BY <2>1 DEF Late
<1>4. HeldInv /\ ChunksOf(n)
  BY <1>2, <1>3 DEF ChunkInv
<1>5. Hold(t) /\ ~PastInput(t)
  BY <1>1, <1>2 DEF Hold, PastInput, Stopped
<1>6. /\ ~Hold(t)' /\ ~PastInput(t)'
      /\ PastNode(t)' => pc'[t] = "computed" /\ Cur(t)' = n
  BY <1>1, <1>2 DEF PastNode, PastInput, Hold, LetGo, Stopped, Cur
<1>7. chunk[t] \in Nat /\ chunk[t] < current_chunk /\ current_chunk \in Nat /\ NChunk(N) \in Nat
  BY <1>2, <1>4, <1>5, ChunkCount DEF HeldInv, Shape, LocalType
<1>8. /\ UNCHANGED redone
      /\ \/ ~(chunk[t] < NChunk(N)) /\ UNCHANGED done /\ pc'[t] = "computed"
         \/ /\ chunk[t] < NChunk(N) /\ done' = done \cup {p} /\ p \notin done
            /\ pc'[t] = "computed" => N >= NChunk(N)
  <2>1. p \notin done
    BY <1>2, <1>4, <1>5, <1>7 DEF ChunksOf
  <2>2. CASE chunk[t] < NChunk(N) /\ ComputePart(p) /\ pc'[t] = IF N >= NChunk(N) THEN "computed" ELSE "grab"
    BY <2>1, <2>2 DEF ComputePart, Shape
  <2>3. CASE ~(chunk[t] < NChunk(N)) /\ UNCHANGED ghost /\ pc'[t] = "computed"
    BY <2>3 DEF ghost
  <2> QED BY <1>2, <2>2, <2>3, ChunkStep DEF Shape, Becomes
<1>9. done \subseteq done' /\ done' \subseteq done \cup {p}
  BY <1>8
<1>10. DoneType'
  BY <1>2, <1>7, <1>9 DEF DoneType
<1>11. \A i \in Real \ Todo(0)' : Finished(i)'
  BY <1>2, <1>9, StaysFinished DEF DoneInv
<1>12. \A q \in done' : \A i \in Todo(0)' : q[1] <= i
  BY <1>2, <1>9, RealNodes DEF DoneInv, Rest
<1>13. \A u \in Members', i \in Todo(0)' :
         /\ <<i, "part", u>> \in done' => PastNode(u)'
         /\ <<i, "input", u>> \in done' => Late(0)' \/ PastInput(u)'
  <2> SUFFICES ASSUME NEW u \in Members, NEW i \in Todo(0), <<i, "part", u>> \in done'
               PROVE  PastNode(u)'
    BY <1>2, <1>3
  <2>1. <<i, "part", u>> \in done /\ PastNode(u)
    BY <1>2, <1>9 DEF DoneInv
  <2> QED BY <1>2, <2>1 DEF Same
<1>14. \A u \in Members' :
         /\ PastNode(u)' /\ Graph[Cur(u)'] = "plain" => <<Cur(u)', "part", u>> \in done'
         /\ PastInput(u)' => <<node_n'[u], "input", u>> \in done'
  <2> SUFFICES ASSUME NEW u \in Members
               PROVE  /\ PastNode(u)' /\ Graph[Cur(u)'] = "plain" => <<Cur(u)', "part", u>> \in done'
                      /\ PastInput(u)' => <<node_n'[u], "input", u>> \in done'
    BY <1>2
  <2>1. CASE u = t
    <3>1. Graph[n] = "mat"
      BY <1>1 DEF NodeInv, IsMat
    <3> QED BY <1>6, <2>1, <3>1
  <2>2. CASE u # t
    <3>1. Same(u)
      BY <1>2, <2>2
    <3>2. /\ PastNode(u) /\ Graph[Cur(u)] = "plain" => <<Cur(u), "part", u>> \in done
          /\ PastInput(u) => <<node_n[u], "input", u>> \in done
      BY <1>2 DEF DoneInv
    <3> QED BY <1>9, <3>1, <3>2 DEF Same
  <2> QED BY <2>1, <2>2
<1>15. DoneInv'
  BY <1>11, <1>12, <1>13, <1>14 DEF DoneInv
<1>16. \A u \in Members \ {t} : (Hold(u)' <=> Hold(u)) /\ (Hold(u) => chunk'[u] = chunk[u])
                                /\ (PastNode(u)' <=> PastNode(u)) /\ (PastInput(u)' <=> PastInput(u))
                                /\ (PastInput(u) => chunk'[u] = chunk[u])
  BY <1>2 DEF Same
<1>17. HeldInv'
  <2>1. PastNode(t)' => current_chunk' >= NChunk(N)'
    <3>1. PastNode(t)' => N >= NChunk(N) \/ chunk[t] >= NChunk(N)
      BY <1>6, <1>7, <1>8
    <3>2. N \in Nat /\ current_chunk >= N
      BY <1>2, <1>4 DEF HeldInv
    <3> QED BY <1>1, <1>2, <1>7, <3>1, <3>2
  <2> QED BY <1>1, <1>2, <1>4, <1>6, <1>16, <2>1 DEF HeldInv
<1>18. ChunksOf(n)'
  <2>1. \A u \in Members' : <<n', "input", u>> \in done'
    BY <1>2, <1>4, <1>9 DEF ChunksOf
  <2>2. ASSUME NEW c \in Nat, <<n, "chunk", c>> \in done'
        PROVE  c < current_chunk' /\ \A u \in Members' : Hold(u)' => chunk'[u] # c
    <3>1. CASE <<n, "chunk", c>> \in done
      BY <1>1, <1>2, <1>4, <1>6, <1>16, <3>1 DEF ChunksOf
    <3>2. CASE c = chunk[t]
      BY <1>1, <1>2, <1>4, <1>5, <1>6, <1>7, <1>16, <3>2 DEF HeldInv
    <3> QED BY <1>9, <2>2, <3>1, <3>2
  <2>3. ASSUME NEW c \in 0..(NChunk(N) - 1), c < current_chunk
        PROVE  <<n, "chunk", c>> \in done' \/ \E u \in Members' : Hold(u)' /\ chunk'[u] = c
    <3>1. CASE <<n, "chunk", c>> \in done
      BY <1>9, <3>1
    <3>2. ASSUME NEW u \in Members, Hold(u), chunk[u] = c
          PROVE  <<n, "chunk", c>> \in done' \/ \E v \in Members' : Hold(v)' /\ chunk'[v] = c
      <4>1. CASE u = t
        <5>1. chunk[t] < NChunk(N)
          BY <1>7, <3>2, <4>1
        <5> QED BY <1>8, <3>2, <4>1, <5>1
      <4>2. CASE u # t
        BY <1>2, <1>16, <3>2, <4>2
      <4> QED BY <4>1, <4>2
    <3> QED BY <1>4, <2>3, <3>1, <3>2 DEF ChunksOf
  <2> QED BY <1>1, <1>2, <2>1, <2>2, <2>3 DEF ChunksOf
<1>19. ChunkInv'
  <2>1. PastInput(0)' => current_chunk' = N'
    BY <1>1, <1>2, <1>6, <1>16 DEF ChunkInv
  <2>2. \A u \in Members' : PastInput(u)' => chunk'[u] = u
    BY <1>2, <1>6, <1>16 DEF ChunkInv
  <2>3. \A i \in Todo(0)' : Todo(0)' = Rest(i) => ChunksOf(i)'
    <3>1. \A i \in Todo(0)' : Todo(0)' = Rest(i) => i = n
      BY <1>2
    <3>2. ASSUME NEW i \in Todo(0)', i = n PROVE ChunksOf(i)'
      BY <1>2, <1>18, <3>2 DEF ChunksOf
    <3> QED BY <3>1, <3>2
  <2> QED BY <1>2, <1>3, <1>17, <2>1, <2>2, <2>3 DEF ChunkInv, Rest
<1> QED BY <1>2, <1>4, <1>8, <1>10, <1>15, <1>19

\* A chunk is taken from the counter: it is nobody else's, and it has not been computed.
LEMMA GrabHolds ==
    ASSUME Shape, NodeInv, MemberInv, BarrierInv, StageInv, DoneInv, ChunkInv, NEW t \in Thread, Grab(t)
    PROVE  DoneInv' /\ ChunkInv' /\ UNCHANGED <<done, redone>>
<1> DEFINE n == node_n[t]
<1>1. /\ pc[t] = "grab" /\ pc'[t] = "chunk" /\ chunk'[t] = current_chunk /\ current_chunk' = current_chunk + 1
      /\ UNCHANGED <<n_barrier_passed, done, redone>> /\ current_chunk \in Nat
  BY GrabStep DEF Shape, Becomes, ghost
<1>2. /\ In(t) /\ Open /\ Open' /\ N' = N /\ Members' = Members /\ Members \subseteq Thread
      /\ t \in Members /\ 0 \in Members /\ N \in 1..NThread /\ NChunk(N)' = NChunk(N)
      /\ Todo(0) = Rest(n) /\ Todo(0)' = Todo(0) /\ (Late(0)' <=> Late(0))
      /\ Todo(0) \subseteq Real /\ n \in Real /\ n \in Todo(0)
      /\ \A i \in Todo(0) : Todo(0) = Rest(i) => i = n
      /\ \A u \in Thread \ {t} : Same(u)
      /\ UNCHANGED n_graph /\ node_n'[t] = n /\ ~PastNode(t)
  BY ComputeFrame
<1>3. Late(0)
  <2>1. Stage(t) = <<Rest(n), "chunks">> /\ Stage(0) = Stage(t)
    BY <1>1, StagePlace, ComputeFrame
  <2> QED BY <2>1 DEF Late
<1>4. HeldInv /\ ChunksOf(n)
  BY <1>2, <1>3 DEF ChunkInv
<1>5. ~Hold(t) /\ ~PastInput(t)
  BY <1>1 DEF Hold, PastInput, Stopped, LetGo
<1>6. Hold(t)' /\ ~PastInput(t)' /\ ~PastNode(t)'
  BY <1>1 DEF PastNode, PastInput, Hold, LetGo, Stopped, In, Left, Places
<1>7. \A i \in Real : Finished(i)' <=> Finished(i)
  BY <1>1, <1>2 DEF Finished
<1>8. \A u \in Members \ {t} : (Hold(u)' <=> Hold(u)) /\ (Hold(u) => chunk'[u] = chunk[u])
                               /\ (PastNode(u)' <=> PastNode(u)) /\ (PastInput(u)' <=> PastInput(u))
                               /\ (PastInput(u) => chunk'[u] = chunk[u] /\ node_n'[u] = node_n[u])
                               /\ (PastNode(u) => Cur(u)' = Cur(u))
  BY <1>2 DEF Same
<1>9. DoneInv'
  <2>1. \A q \in done' : \A i \in Todo(0)' : q[1] <= i
    BY <1>1, <1>2 DEF DoneInv
  <2>2. \A i \in Real \ Todo(0)' : Finished(i)'
    BY <1>2, <1>7 DEF DoneInv
  <2>3. \A u \in Members', i \in Todo(0)' :
          /\ <<i, "part", u>> \in done' => PastNode(u)'
          /\ <<i, "input", u>> \in done' => Late(0)' \/ PastInput(u)'
    BY <1>1, <1>2, <1>3, <1>8 DEF DoneInv
  <2>4. \A u \in Members' :
          /\ PastNode(u)' /\ Graph[Cur(u)'] = "plain" => <<Cur(u)', "part", u>> \in done'
          /\ PastInput(u)' => <<node_n'[u], "input", u>> \in done'
    BY <1>1, <1>2, <1>6, <1>8 DEF DoneInv
  <2> QED BY <2>1, <2>2, <2>3, <2>4 DEF DoneInv
<1>10. /\ current_chunk >= N /\ N \in Nat /\ NChunk(N) \in Nat
       /\ \A u \in Members : Hold(u) => chunk[u] \in Nat /\ chunk[u] < current_chunk
  BY <1>2, <1>4, ChunkCount DEF HeldInv, Shape, LocalType
<1>11. HeldInv'
  <2>1. current_chunk' >= N'
    BY <1>1, <1>2, <1>10
  <2>2. \A u \in Members' : /\ PastNode(u)' => current_chunk' >= NChunk(N)'
                            /\ Hold(u)' => chunk'[u] < current_chunk'
    BY <1>1, <1>2, <1>4, <1>6, <1>8, <1>10 DEF HeldInv
  <2>3. \A u, v \in Members' : Hold(u)' /\ Hold(v)' /\ u # v => chunk'[u] # chunk'[v]
    BY <1>1, <1>2, <1>4, <1>8, <1>10 DEF HeldInv
  <2> QED BY <2>1, <2>2, <2>3 DEF HeldInv
<1>12. ChunksOf(n)'
  <2>1. \A u \in Members' : <<n', "input", u>> \in done'
    BY <1>1, <1>2, <1>4 DEF ChunksOf
  <2>2. ASSUME NEW c \in Nat, <<n, "chunk", c>> \in done'
        PROVE  c < current_chunk' /\ \A u \in Members' : Hold(u)' => chunk'[u] # c
    <3>1. c < current_chunk /\ \A u \in Members : Hold(u) => chunk[u] # c
      BY <1>1, <1>4, <2>2 DEF ChunksOf
    <3> QED BY <1>1, <1>2, <1>8, <3>1
  <2>3. ASSUME NEW c \in 0..(NChunk(N) - 1), c < current_chunk'
        PROVE  <<n, "chunk", c>> \in done' \/ \E u \in Members' : Hold(u)' /\ chunk'[u] = c
    <3>1. CASE c = current_chunk
      BY <1>1, <1>2, <1>6, <3>1
    <3>2. CASE c < current_chunk
      <4>1. <<n, "chunk", c>> \in done \/ \E u \in Members : Hold(u) /\ chunk[u] = c
        BY <1>4, <3>2 DEF ChunksOf
      <4> QED BY <1>1, <1>2, <1>5, <1>8, <4>1
    <3> QED BY <1>1, <1>10, <2>3, <3>1, <3>2
  <2> QED BY <1>2, <2>1, <2>2, <2>3 DEF ChunksOf
<1>13. ChunkInv'
  <2>1. PastInput(0)' => current_chunk' = N'
    <3>1. ~PastInput(0)
      BY <1>2, <1>3, StagePlace, Sizes DEF Late
    <3> QED BY <1>2, <1>6, <1>8, <3>1
  <2>2. \A u \in Members' : PastInput(u)' => chunk'[u] = u
    BY <1>2, <1>6, <1>8 DEF ChunkInv
  <2>3. \A i \in Todo(0)' : Todo(0)' = Rest(i) => ChunksOf(i)'
    <3>1. \A i \in Todo(0)' : Todo(0)' = Rest(i) => i = n
      BY <1>2
    <3>2. ASSUME NEW i \in Todo(0)', i = n PROVE ChunksOf(i)'
      BY <1>2, <1>12, <3>2 DEF ChunksOf
    <3> QED BY <3>1, <3>2
  <2> QED BY <1>2, <1>3, <1>11, <2>1, <2>2, <2>3 DEF ChunkInv, Rest
<1> QED BY <1>1, <1>9, <1>13

-----------------------------------------------------------------------------
(* The barrier lets everybody go *)

\* The node that all threads are through with is finished.
LEMMA PastAll ==
    ASSUME Shape, Open, N \in 1..NThread, DoneInv, ChunkInv, NEW k \in Real, Stage(0) = <<Rest(k), Phase(k)>>,
           \A u \in Members : PastNode(u) /\ Cur(u) = k
    PROVE  Finished(k)
<1>1. Todo(0) = Rest(k) /\ k \in Todo(0) /\ N > 0 /\ N \in Nat /\ 0 \in Members
  BY MembersAre, RealNodes, Sizes DEF Todo
<1>2. Graph[k] \in {"plain", "mat"}
  BY Sizes DEF Real
<1>3. CASE Graph[k] = "plain"
  <2>1. Parts(k, N) = {<<k, "part", u>> : u \in Members}
    BY <1>3 DEF Parts, Members
  <2>2. \A u \in Members : <<k, "part", u>> \in done
    BY <1>3 DEF DoneInv
  <2> QED BY <1>1, <2>1, <2>2 DEF Finished, N
<1>4. CASE Graph[k] = "mat"
  <2>1. Late(0)
    BY <1>4 DEF Late, Phase, IsMat
  <2>2. HeldInv /\ ChunksOf(k)
    BY <1>1, <2>1 DEF ChunkInv
  <2>3. \A u \in Members : ~Hold(u)
    BY DEF PastNode, Hold, LetGo, Stopped
  <2>4. current_chunk >= NChunk(N) /\ current_chunk \in Nat /\ NChunk(N) \in Nat
    BY <1>1, <2>2, ChunkCount DEF HeldInv, Shape
  <2>5. \A c \in 0..(NChunk(N) - 1) : <<k, "chunk", c>> \in done
    BY <2>2, <2>3, <2>4 DEF ChunksOf
  <2>6. \A u \in Members : <<k, "input", u>> \in done
    BY <2>2 DEF ChunksOf
  <2>7. Parts(k, N) = {<<k, "input", u>> : u \in Members} \cup {<<k, "chunk", c>> : c \in 0..(NChunk(N) - 1)}
    BY <1>4 DEF Parts, Members
  <2> QED BY <1>1, <2>5, <2>6, <2>7 DEF Finished, N
<1> QED BY <1>2, <1>3, <1>4

\* All stand at the barrier, to go on at b from node m
AllStopped(b, m) == \A u \in Members : In(u) /\ Stopped(u) /\ back[u] = b /\ node_n[u] = m

\* The barrier has let them go
Onward(b) ==
    /\ Open' <=> b # "end"
    /\ b # "end" => \A u \in Members :
         /\ In(u)' /\ ~Stopped(u)'
         /\ (LetGo(u)' /\ pc'[u] = "spin") \/ (~LetGo(u)' /\ pc'[u] = b)
    /\ UNCHANGED <<n_graph, node_n, chunk, back, current_chunk, abort, ec, done, redone>>

LEMMA OnwardDone ==
    ASSUME Shape, NodeInv, Open, N \in 1..NThread, DoneInv, ChunkInv,
           NEW b \in {"node", "chunk", "end"}, NEW m, AllStopped(b, m), Onward(b)
    PROVE  DoneInv' /\ ChunkInv'
<1>1. /\ N' = N /\ Members' = Members /\ N \in Nat /\ N >= 1 /\ 0 \in Members /\ Members \subseteq Thread
      /\ \A i \in Real : Finished(i)' <=> Finished(i)
      /\ NChunk(N)' = NChunk(N)
      /\ \A u \in Members : u \in Nat /\ u < N
  BY MembersAre, Sizes DEF Onward, N, Members, Finished, NChunk
<1>2. CASE b = "end"
  BY <1>2 DEF Onward, DoneInv, ChunkInv
<1>3. ASSUME b # "end"
      PROVE  \A u \in Members : ~PastNode(u)' <=> ~(pc'[u] = "node" /\ m = Len(Graph) + 1 /\ Len(Graph) \in Real)
  BY <1>3 DEF Onward, AllStopped, PastNode
<1>4. ASSUME b # "end" PROVE \A u \in Members : ~PastInput(u)' /\ pc[u] \in Barriers /\ ~LetGo(u)
  BY <1>4 DEF Onward, AllStopped, PastInput, Stopped, Barriers, LetGo
<1>5. CASE b = "chunk"
  <2>1. \A u \in Members : PastInput(u) /\ ~PastNode(u)
    BY <1>5 DEF AllStopped, PastInput, PastNode, Stopped
  <2>2. m \in Real /\ Stage(0) = <<Rest(m), "input">>
    <3>1. pc[0] \in Barriers /\ back[0] = "chunk" /\ node_n[0] = m /\ ~LetGo(0) /\ In(0)
      BY <1>1, <1>4, <1>5 DEF AllStopped
    <3>2. m \in Real
      BY <1>1, <3>1, Sizes DEF NodeInv, IsMat, Real
    <3> QED BY <3>1, <3>2 DEF Stage, Barriers
  <2>3. Todo(0) = Rest(m) /\ ~Late(0) /\ m \in Todo(0)
    BY <2>2, RealNodes DEF Todo, Late
  <2>4. \A u \in Members : ~PastNode(u)' /\ Hold(u)' /\ chunk'[u] = u
    <3>1. \A u \in Members : ~PastNode(u)'
      BY <1>3, <1>5 DEF Onward
    <3>2. \A u \in Members : Hold(u)'
      BY <1>5 DEF Onward, AllStopped, Hold
    <3>3. \A u \in Members : chunk'[u] = u
      BY <2>1 DEF ChunkInv, Onward
    <3> QED BY <3>1, <3>2, <3>3
  <2>5. Stage(0)' = <<Rest(m), "chunks">>
    BY <1>1, <1>5, <2>4 DEF Stage, Onward, AllStopped
  <2>6. Todo(0)' = Todo(0) /\ Late(0)'
    BY <2>3, <2>5 DEF Todo, Late
  <2>7. UNCHANGED <<done, current_chunk>>
    BY DEF Onward
  <2>8. DoneInv'
    <3>1. \A q \in done' : \A i \in Todo(0)' : q[1] <= i
      BY <2>6, <2>7 DEF DoneInv
    <3>2. \A i \in Real \ Todo(0)' : Finished(i)'
      BY <1>1, <2>6 DEF DoneInv
    <3>3. \A u \in Members', i \in Todo(0)' : <<i, "part", u>> \in done' => PastNode(u)'
      BY <1>1, <2>1, <2>6, <2>7 DEF DoneInv
    <3> QED BY <1>1, <1>4, <1>5, <2>4, <2>6, <3>1, <3>2, <3>3 DEF DoneInv
  <2>9. current_chunk = N
    BY <1>1, <2>1 DEF ChunkInv
  <2>10. HeldInv'
    BY <1>1, <2>4, <2>7, <2>9 DEF HeldInv
  <2>11. ChunksOf(m)'
    <3>1. \A u \in Members' : <<m', "input", u>> \in done'
      BY <1>1, <1>5, <2>1, <2>2, <2>7 DEF DoneInv, AllStopped
    <3>2. \A c \in Nat : <<m, "chunk", c>> \notin done'
      BY <2>3, <2>7 DEF ChunkInv
    <3>3. \A c \in 0..(NChunk(N) - 1) : c < current_chunk' => Hold(c)' /\ chunk'[c] = c /\ c \in Members
      BY <2>4, <2>7, <2>9, <1>1 DEF Members
    <3> QED BY <1>1, <3>1, <3>2, <3>3 DEF ChunksOf
  <2>12. \A i \in Todo(0)' : Todo(0)' = Rest(i) => i = m
    BY <1>1, <2>2, <2>3, <2>6, RestReal, StagePlace, Sizes
  <2>13. \A i \in Todo(0)' : Todo(0)' = Rest(i) => ChunksOf(i)'
    BY <2>11, <2>12
  <2> QED BY <1>1, <1>4, <1>5, <2>6, <2>8, <2>10, <2>13 DEF ChunkInv, Rest
<1>6. CASE b = "node"
  <2> DEFINE k == m - 1
  <2>1. pc[0] \in Barriers /\ back[0] = "node" /\ node_n[0] = m /\ ~LetGo(0) /\ In(0)
    BY <1>1, <1>4, <1>6 DEF AllStopped
  <2>2. m \in Node /\ k \in Real /\ m \in Nat /\ m <= Len(Graph) /\ k \in Nat
    BY <1>1, <2>1, Sizes, RealNodes DEF NodeInv, Node
  <2>3. Stage(0) = <<Rest(k), Phase(k)>>
    BY <2>1 DEF Stage, Barriers
  <2>4. \A u \in Members : PastNode(u) /\ Cur(u) = k /\ ~PastInput(u)
    BY <1>4, <1>6 DEF AllStopped, PastNode, Cur, PastInput, Barriers
  <2>5. Finished(k)
    BY <2>2, <2>3, <2>4, PastAll
  <2>6. Todo(0) = Rest(k) /\ k \in Todo(0)
    BY <2>2, <2>3, RealNodes DEF Todo
  <2>7. Stage(0)' = <<Rest(m), "input">>
    <3>1. Stage(0)' = Ahead(m)
      BY <1>1, <1>6, <2>1 DEF Stage, Onward
    <3> QED BY <2>2, <3>1 DEF Ahead
  <2>8. Todo(0)' = Rest(m) /\ ~Late(0)'
    BY <2>7 DEF Todo, Late
  <2>9. \A i \in Real : i \in Rest(k) <=> i \in Rest(m) \/ i = k
    BY <2>2, RealNodes DEF Rest
  <2>10. \A u \in Members : ~PastNode(u)' /\ ~PastInput(u)'
    BY <1>3, <1>4, <1>6, <2>2, Sizes
  <2>11. UNCHANGED done /\ \A q \in done : q[1] <= k
    BY <2>6 DEF Onward, DoneInv
  <2>12. \A i \in Rest(m) : i \in Rest(k) /\ i \in Nat /\ i > k
    BY <2>2, RealNodes DEF Rest
  <2>13. \A q \in done : q[1] \notin Rest(m)
    <3> SUFFICES ASSUME NEW q \in done, q[1] \in Rest(m) PROVE FALSE
      OBVIOUS
    <3>1. q[1] \in Nat /\ q[1] > k /\ q[1] <= k
      BY <2>11, <2>12
    <3> QED BY <2>2, <3>1
  <2>14. DoneInv'
    <3>1. \A q \in done' : \A i \in Todo(0)' : q[1] <= i
      BY <2>6, <2>8, <2>11, <2>12 DEF DoneInv
    <3>2. \A i \in Real \ Todo(0)' : Finished(i)'
      BY <1>1, <2>5, <2>6, <2>8, <2>9 DEF DoneInv
    <3>3. \A u \in Members', i \in Todo(0)' : <<i, "part", u>> \notin done' /\ <<i, "input", u>> \notin done'
      BY <1>1, <2>8, <2>11, <2>13
    <3> QED BY <1>1, <2>10, <3>1, <3>2, <3>3 DEF DoneInv
  <2>15. ChunkInv'
    BY <1>1, <2>8, <2>10, <2>11, <2>13 DEF ChunkInv
  <2> QED BY <2>14, <2>15
<1> QED BY <1>2, <1>5, <1>6

-----------------------------------------------------------------------------
(* What has been computed when the graph is over *)

\* All of the graph, or all in front of the node where everyone was to stop
Complete == \A i \in Real : abort = 0 \/ i < abort => Finished(i)

\* Thread 0 leaves last, or is let go and does not know it yet
ResultInv == Left(0) => Complete

LEMMA EndResult ==
    ASSUME Shape, NodeInv, Open, N \in 1..NThread, EndInv, AbortInv, DoneInv, ChunkInv,
           NEW m, AllStopped("end", m)
    PROVE  Complete
<1> DEFINE L == Len(Graph)
<1>1. 0 \in Members /\ Members \subseteq Thread /\ L \in Nat
  BY MembersAre, Sizes
<1>2. In(0) /\ Stopped(0) /\ back[0] = "end" /\ node_n[0] = m /\ ~LetGo(0) /\ pc[0] \in Barriers
  BY <1>1 DEF AllStopped, Stopped, LetGo, Barriers
<1>3. m \in 1..(L + 1) /\ m \in Nat
  BY <1>1, <1>2, Sizes DEF Shape, LocalType
<1>4. m = L + 1 \/ m = abort
  BY <1>1, <1>2 DEF EndInv
<1>5. abort # 0 => m = abort /\ m - 1 \in Real
  BY <1>2 DEF AbortInv, NearAbort
<1>6. Stage(0) = Ahead(m)
  BY <1>2 DEF Stage, Barriers
<1>7. CASE m <= L
  <2>1. Todo(0) = Rest(m)
    BY <1>6, <1>7 DEF Ahead, Todo
  <2>2. abort = m
    BY <1>1, <1>3, <1>4, <1>7
  <2>3. \A i \in Real : i < abort => i \notin Rest(m)
    BY <1>3, <2>2, RealNodes DEF Rest
  <2> QED BY <1>3, <2>1, <2>2, <2>3 DEF DoneInv, Complete
<1>8. CASE m = L + 1 /\ L \in Real
  <2>1. Stage(0) = <<Rest(L), Phase(L)>> /\ Todo(0) = Rest(L)
    BY <1>1, <1>6, <1>8 DEF Ahead, Todo
  <2>2. \A u \in Members : PastNode(u) /\ Cur(u) = L
    BY <1>1, <1>8 DEF AllStopped, PastNode, Cur, Stopped
  <2>3. Finished(L)
    BY <1>8, <2>1, <2>2, PastAll
  <2>4. \A i \in Real : i = L \/ i \notin Rest(L)
    BY <1>1, RealNodes DEF Rest
  <2> QED BY <2>1, <2>3, <2>4 DEF DoneInv, Complete
<1>9. CASE m = L + 1 /\ L \notin Real
  <2>1. Todo(0) = {}
    BY <1>1, <1>6, <1>9 DEF Ahead, Todo
  <2> QED BY <2>1 DEF DoneInv, Complete
<1> QED BY <1>1, <1>3, <1>7, <1>8, <1>9

-----------------------------------------------------------------------------
(* Nothing is computed too early *)

LEMMA InputsKept ==
    ASSUME InputsComputed, pc[0] = "kickoff" => done = {}, UNCHANGED <<done, n_graph>>
    PROVE  InputsComputed'
<1>1. \A i : Finished(i)' <=> Finished(i)
  BY DEF Finished, Parts, NChunk
<1> QED BY <1>1 DEF InputsComputed

LEMMA InputsGrow ==
    ASSUME InputsComputed, pc[0] # "kickoff", UNCHANGED n_graph, NEW p, done' = done \cup {p},
           \A i \in 1..(p[1] - 1) : Finished(i),
           p[2] = "chunk" => \A t \in 0..(n_graph.n - 1) : <<p[1], "input", t>> \in done
    PROVE  InputsComputed'
<1>1. \A i : Finished(i) => Finished(i)'
  BY StaysFinished
<1> QED BY <1>1 DEF InputsComputed

OrderInv ==
    /\ DoneType /\ DoneInv /\ ChunkInv
    /\ pc[0] = "kickoff" => done = {}
    /\ ~redone /\ InputsComputed /\ ResultInv

\* A step that is not the barrier's release nor the caller's outside a graph.
LEMMA QuietOrder ==
    ASSUME Inv, OrderInv, \A u \in Thread : Same(u), Open' <=> Open, Stage(0)' = Stage(0),
           UNCHANGED <<n_graph, done, redone, current_chunk, abort>> \/ (UNCHANGED <<n_graph, done, redone, current_chunk>> /\ Open),
           pc'[0] = "kickoff" => pc[0] = "kickoff",
           Left(0)' => Left(0)
    PROVE  OrderInv'
<1>1. DoneInv' /\ ChunkInv'
  BY SameKeeps DEF Inv, OrderInv
<1>2. InputsComputed'
  BY InputsKept DEF OrderInv
<1>3. Left(0) => ~Open
  BY DEF Left, LetGo, Open, In
<1>4. ResultInv'
  <2> SUFFICES ASSUME Left(0)' PROVE Complete'
    BY DEF ResultInv
  <2>1. UNCHANGED <<n_graph, done, abort>> /\ Complete
    BY <1>3 DEF OrderInv, ResultInv
  <2>2. \A i : Finished(i)' <=> Finished(i)
    BY <2>1 DEF Finished, Parts, NChunk
  <2> QED BY <2>1, <2>2 DEF Complete
<1> QED BY <1>1, <1>2, <1>4 DEF OrderInv, DoneType

LEMMA InsideOrder ==
    ASSUME Inv, OrderInv, NEW t \in Thread, StepsInside(t)
    PROVE  OrderInv'
<1> USE DEF Inv
<1>0. InGraph(t) /\ 0 \in Thread
  BY Sizes DEF StepsInside, InGraph
<1>1. /\ \A u \in Thread \ {t} : Kept(u)
      /\ UNCHANGED n_graph
      /\ pc[t] \in Places /\ (pc'[t] \in Places \/ pc'[t] \in {"call", "pause"})
  BY <1>0, InGraphStep DEF Shape
<1>2. UNCHANGED n_barrier_passed /\ (In(t)' <=> In(t)) /\ Stage(t)' = Stage(t)
  BY OwnStage
<1>3. \A u \in Thread \ {t} : /\ In(u)' <=> In(u)
                              /\ LetGo(u)' <=> LetGo(u)
                              /\ Stage(u)' = Stage(u)
                              /\ pc'[u] = pc[u] /\ back'[u] = back[u]
  BY <1>1, <1>2, OthersKeep DEF Kept
<1>4. (Open' <=> Open) /\ Stage(0)' = Stage(0)
  <2>1. pc'[0] = "wake" <=> pc[0] = "wake"
    BY <1>0, <1>1, <1>3 DEF Places
  <2> QED BY <1>0, <1>2, <1>3, <2>1 DEF Open
<1>5. pc'[0] = "kickoff" => pc[0] = "kickoff"
  BY <1>0, <1>1, <1>3 DEF Places
<1>6. In(t) => Open /\ t \in Members /\ N \in 1..NThread /\ pc[0] # "kickoff"
  <2>1. Open => pc[0] # "kickoff"
    BY DEF Open, In, Places
  <2> QED BY <2>1, OneStage
<1>7. Open' => ~Left(0)'
  BY DEF Left, LetGo, Open, In
<1>8. CASE Start(t) \/ NextNode(t) \/ Computed(t) \/ (AtBarrier(t) /\ N # 1) \/ Arrive(t) \/ Reset(t) \/ Spin(t)
  <2>1. \A u \in Thread : Same(u)
    BY <1>1, <1>2, <1>8, OwnSame, OthersSame
  <2>2. UNCHANGED <<done, redone, current_chunk>>
    BY <1>8, OwnSame
  <2>3. UNCHANGED abort \/ Open
    <3>1. CASE ~Spin(t)
      <4>1. In(t)
        BY <1>8, <3>1 DEF Start, NextNode, Computed, AtBarrier, Arrive, Reset, In, Left, LetGo, Places
      <4> QED BY <1>6, <4>1
    <3>2. CASE Spin(t)
      BY <3>2 DEF Spin, shared
    <3> QED BY <3>1, <3>2
  <2>4. Left(0)' => Left(0)
    <3>1. CASE t # 0
      BY <1>0, <1>3, <3>1 DEF Left
    <3>2. CASE t = 0
      BY <1>0, <1>1, <1>2, <3>2 DEF Left, LetGo, In, Places
    <3> QED BY <3>1, <3>2
  <2> QED BY <1>1, <1>4, <1>5, <2>1, <2>2, <2>3, <2>4, QuietOrder
<1>9. ASSUME Plain(t) \/ MatInput(t) \/ Chunk(t) \/ Grab(t)
      PROVE  /\ Open /\ N \in 1..NThread /\ pc[0] # "kickoff" /\ ResultInv' /\ pc'[0] # "kickoff"
             /\ node_n[t] \in Nat /\ node_n[t] \in Node
             /\ N = n_graph.n /\ Members = 0..(n_graph.n - 1)
  <2>1. In(t) /\ node_n[t] \in Real /\ Open'
    BY <1>9, ComputeFrame
  <2> QED BY <1>5, <1>6, <1>7, <2>1, RealNodes DEF ResultInv, N, Members
<1>10. CASE Plain(t)
  <2>1. /\ DoneType' /\ DoneInv' /\ ChunkInv' /\ UNCHANGED redone
        /\ done' = done \cup {<<node_n[t], "part", t>>} /\ Todo(0) = Rest(node_n[t])
    BY <1>10, PlainDone DEF OrderInv
  <2>2. \A i \in 1..(node_n[t] - 1) : Finished(i)
    BY <1>9, <1>10, <2>1, InFront DEF OrderInv
  <2>3. InputsComputed'
    BY <1>1, <1>9, <1>10, <2>1, <2>2, InputsGrow DEF OrderInv
  <2> QED BY <1>9, <1>10, <2>1, <2>3 DEF OrderInv
<1>11. CASE MatInput(t)
  <2>1. /\ DoneType' /\ DoneInv' /\ ChunkInv' /\ UNCHANGED redone
        /\ done' = done \cup {<<node_n[t], "input", t>>} /\ Todo(0) = Rest(node_n[t])
    BY <1>11, MatInputDone DEF OrderInv
  <2>2. \A i \in 1..(node_n[t] - 1) : Finished(i)
    BY <1>9, <1>11, <2>1, InFront DEF OrderInv
  <2>3. InputsComputed'
    BY <1>1, <1>9, <1>11, <2>1, <2>2, InputsGrow DEF OrderInv
  <2> QED BY <1>9, <1>11, <2>1, <2>3 DEF OrderInv
<1>12. CASE Chunk(t)
  <2>1. /\ DoneType' /\ DoneInv' /\ ChunkInv' /\ UNCHANGED redone
        /\ Todo(0) = Rest(node_n[t]) /\ ChunksOf(node_n[t])
        /\ \/ UNCHANGED done
           \/ done' = done \cup {<<node_n[t], "chunk", chunk[t]>>}
    BY <1>12, ChunkDone DEF OrderInv
  <2>2. \A i \in 1..(node_n[t] - 1) : Finished(i)
    BY <1>9, <1>12, <2>1, InFront DEF OrderInv
  <2>3. \A u \in 0..(n_graph.n - 1) : <<node_n[t], "input", u>> \in done
    BY <1>9, <1>12, <2>1 DEF ChunksOf
  <2>4. InputsComputed'
    <3>1. CASE UNCHANGED done
      BY <1>1, <3>1, InputsKept DEF OrderInv
    <3>2. CASE done' = done \cup {<<node_n[t], "chunk", chunk[t]>>}
      BY <1>1, <1>9, <1>12, <2>2, <2>3, <3>2, InputsGrow DEF OrderInv
    <3> QED BY <2>1, <3>1, <3>2
  <2> QED BY <1>9, <1>12, <2>1, <2>4 DEF OrderInv
<1>13. CASE Grab(t)
  <2>1. DoneInv' /\ ChunkInv' /\ UNCHANGED <<done, redone>>
    BY <1>13, GrabHolds DEF OrderInv
  <2>2. InputsComputed'
    BY <1>1, <2>1, InputsKept DEF OrderInv
  <2> QED BY <1>9, <1>13, <2>1, <2>2 DEF OrderInv, DoneType
<1> QED BY <1>8, <1>10, <1>11, <1>12, <1>13 DEF StepsInside

\* The barrier's release, by the last of several threads or by one alone, lets all go on.
LEMMA ReleaseOnward ==
    ASSUME Inv, NEW t \in Thread, Release(t) \/ (AtBarrier(t) /\ N = 1)
    PROVE  /\ Open /\ N \in 1..NThread /\ t \in Members /\ pc'[0] # "kickoff"
           /\ \E m : AllStopped(back[t], m)
           /\ back[t] \in {"node", "chunk", "end"} /\ Onward(back[t])
<1> USE DEF Inv
<1>1. CASE Release(t)
  <2>0. Together
    BY AllTogether
  <2>1. /\ pc[t] = "release" /\ n_barrier_passed' = n_barrier_passed + 1
        /\ pc'[t] = BackTo(t) /\ UNCHANGED <<n_graph, last_graph, nth, node_n, chunk, n_passed, back>>
        /\ UNCHANGED <<current_chunk, abort, ec, done, redone>>
        /\ In(t) /\ Open /\ t \in Members /\ Members \subseteq Thread /\ 0 \in Members /\ N \in 1..NThread
    BY <1>1, <2>0, ReleaseLets
  <2>2. /\ \A u \in Members \ {t} : pc[u] = "spin" /\ n_passed[u] = n_barrier_passed
        /\ \A u \in Thread : n_passed[u] # n_barrier_passed'
        /\ back[t] \in {"node", "chunk", "end"}
        /\ \A u \in Members : back[u] = back[t] /\ node_n[u] = node_n[t]
        /\ \A u \in Thread \ {t} : pc'[u] = pc[u]
    BY <1>1, <2>0, ReleaseLets
  <2>3. /\ \A u \in Thread : In(u) <=> u \in Members
        /\ \A u \in Thread : In(u)' <=> u \in Members /\ back[t] # "end"
        /\ Open' <=> back[t] # "end"
    BY <1>1, <2>0, ReleaseLets
  <2>4. AllStopped(back[t], node_n[t])
    BY <2>1, <2>2, <2>3 DEF AllStopped, Stopped
  <2>5. ASSUME back[t] # "end", NEW u \in Members
        PROVE  /\ In(u)' /\ ~Stopped(u)'
               /\ (LetGo(u)' /\ pc'[u] = "spin") \/ (~LetGo(u)' /\ pc'[u] = back[t])
    <3>1. In(u)'
      BY <2>1, <2>3, <2>5
    <3>2. CASE u = t
      BY <2>1, <2>2, <2>5, <3>1, <3>2 DEF BackTo, Stopped, LetGo
    <3>3. CASE u # t
      BY <2>1, <2>2, <2>5, <3>1, <3>3 DEF Stopped, LetGo
    <3> QED BY <3>2, <3>3
  <2>6. Onward(back[t])
    BY <2>1, <2>3, <2>5 DEF Onward
  <2>7. pc'[0] # "kickoff"
    <3>1. pc'[t] \in {"node", "chunk", "call", "pause"}
      BY <2>1, <2>2 DEF BackTo
    <3> QED BY <2>1, <2>2, <3>1
  <2> QED BY <2>1, <2>2, <2>4, <2>6, <2>7
<1>2. CASE AtBarrier(t) /\ N = 1
  <2>1. /\ t = 0 /\ Open /\ Members = {0} /\ pc[0] = "barrier" /\ pc'[0] = BackTo(0) /\ back[0] \in {"node", "chunk", "end"}
        /\ UNCHANGED <<n_graph, node_n, nth, chunk, n_passed, back, shared, ghost>>
        /\ \A u \in Thread : In(u)' <=> u = 0 /\ back[0] # "end"
        /\ Open' <=> back[0] # "end"
    BY <1>2, AlonePasses
  <2>2. In(0) /\ Stopped(0)
    BY <2>1 DEF In, Left, LetGo, Stopped, Places
  <2>3. AllStopped(back[0], node_n[0])
    BY <2>1, <2>2 DEF AllStopped
  <2>4. back[0] # "end" => In(0)' /\ pc'[0] = back[0] /\ ~Stopped(0)' /\ ~LetGo(0)'
    BY <2>1, Sizes DEF BackTo, Stopped, LetGo
  <2>5. Onward(back[0])
    BY <2>1, <2>4 DEF Onward, shared, ghost
  <2>6. pc'[0] # "kickoff" /\ N \in 1..NThread
    BY <1>2, <2>1, Sizes DEF BackTo
  <2> QED BY <2>1, <2>3, <2>5, <2>6
<1> QED BY <1>1, <1>2

LEMMA ReleaseOrder ==
    ASSUME Inv, OrderInv, NEW t \in Thread, Release(t) \/ (AtBarrier(t) /\ N = 1)
    PROVE  OrderInv' /\ (back[t] = "end" => Complete /\ Complete')
<1> USE DEF Inv, OrderInv
<1>1. /\ Open /\ N \in 1..NThread /\ t \in Members /\ pc'[0] # "kickoff"
      /\ \E m : AllStopped(back[t], m)
      /\ back[t] \in {"node", "chunk", "end"} /\ Onward(back[t])
  BY ReleaseOnward
<1>2. PICK m : AllStopped(back[t], m)
  BY <1>1
<1>3. DoneInv' /\ ChunkInv'
  BY <1>1, <1>2, OnwardDone
<1>4. UNCHANGED <<n_graph, done, redone, abort>>
  BY <1>1 DEF Onward
<1>5. InputsComputed'
  BY <1>4, InputsKept
<1>6. ASSUME back[t] = "end" PROVE Complete /\ Complete'
  <2>1. Complete
    BY <1>1, <1>2, <1>6, EndResult
  <2>2. \A i : Finished(i)' <=> Finished(i)
    BY <1>4 DEF Finished, Parts, NChunk
  <2> QED BY <1>4, <2>1, <2>2 DEF Complete
<1>7. ResultInv'
  <2>1. back[t] # "end" => ~Left(0)'
    BY <1>1 DEF Onward, Open, Left, LetGo, In
  <2> QED BY <1>6, <2>1 DEF ResultInv
<1> QED BY <1>1, <1>3, <1>4, <1>5, <1>6, <1>7 DEF DoneType

LEMMA CallerOrder ==
    ASSUME Inv, OrderInv, Compute \/ PauseResume \/ Free \/ Unpause \/ Join \/ Kickoff \/ Wake
    PROVE  OrderInv'
<1> USE DEF Inv
<1>1. CASE PauseResume \/ Free \/ Unpause \/ Join
  <2>1. /\ pc[0] \notin Places \cup {"kickoff", "wake"} /\ pc'[0] \notin Places \cup {"kickoff", "wake"}
        /\ UNCHANGED <<n_graph, done, redone>>
    BY <1>1, CallerSteps DEF Calls, Places, Shape, signal
  <2>2. ~Open' /\ ~Left(0)'
    BY <2>1 DEF Open, In, Left, LetGo, Places
  <2>3. InputsComputed'
    BY <2>1, InputsKept DEF OrderInv
  <2> QED BY <2>1, <2>2, <2>3 DEF OrderInv, DoneInv, ChunkInv, ResultInv, DoneType
<1>2. CASE Compute
  <2>1. pc'[0] = "kickoff" /\ done' = {} /\ UNCHANGED redone
    BY <1>2, CallerSteps DEF Calls, Shape
  <2>2. ~Open' /\ ~Left(0)'
    BY <2>1 DEF Open, In, Left, LetGo, Places
  <2> QED BY <2>1, <2>2 DEF OrderInv, DoneInv, ChunkInv, ResultInv, DoneType, InputsComputed
<1>3. CASE Kickoff
  <2>1. /\ pc[0] = "kickoff" /\ pc'[0] = "wake" /\ \A u \in Thread \ {0} : pc'[u] = pc[u]
        /\ UNCHANGED <<local, n_barrier_passed, done, redone>>
        /\ \E n \in 1..NThread : n_graph' = [count |-> n_graph.count + 1, n |-> n]
    BY <1>3, CallerSteps DEF Calls, shared, Shape
  <2>2. done' = {}
    BY <2>1 DEF OrderInv
  <2>3. \A u \in Thread : ~In(u)'
    <3>1. ~Open
      BY <2>1 DEF Open, In, Places
    <3>2. \A u \in Thread : ~In(u)
      BY <3>1 DEF MemberInv
    <3> QED BY <2>1, <3>2 DEF In, Left, LetGo, local, Places
  <2>4. Members' \subseteq Thread /\ 0 \in Thread
    BY <2>1, Sizes DEF Members, N, Thread
  <2>5. \A u \in Members' : ~PastNode(u)' /\ ~PastInput(u)' /\ ~Hold(u)'
    BY <2>3, <2>4 DEF PastNode, PastInput, Hold
  <2>6. Stage(0)' = Ahead(1)
    BY <2>3, <2>4 DEF Stage
  <2>7. ~Late(0)' /\ Real \subseteq Todo(0)'
    <3>1. CASE 1 <= Len(Graph)
      BY <2>6, <3>1, RealNodes DEF Ahead, Late, Todo, Rest
    <3>2. CASE ~(1 <= Len(Graph))
      BY <2>6, <3>2, RealNodes, Sizes DEF Ahead, Late, Todo
    <3> QED BY <3>1, <3>2
  <2>8. DoneInv'
    <3>1. \A i \in Real \ Todo(0)' : Finished(i)'
      BY <2>7
    <3> QED BY <2>2, <2>5, <3>1 DEF DoneInv
  <2>10. ChunkInv'
    <3>1. PastInput(0)' => FALSE
      BY <2>3, <2>4 DEF PastInput
    <3> QED BY <2>2, <2>5, <2>7, <3>1 DEF ChunkInv
  <2>9. ~Left(0)'
    BY <2>1 DEF Left, LetGo
  <2> QED BY <2>1, <2>2, <2>8, <2>9, <2>10 DEF OrderInv, DoneType, InputsComputed, ResultInv
<1>4. CASE Wake
  <2>1. /\ pc[0] = "wake" /\ pc'[0] = "start" /\ \A u \in Thread \ {0} : pc'[u] = pc[u]
        /\ UNCHANGED <<local, n_graph, n_barrier_passed, abort, current_chunk, done, redone>>
    BY <1>4, CallerSteps DEF Calls, shared, Shape
  <2>2. \A u \in Thread \ {0} : Same(u)
    BY <2>1, OthersSame DEF Kept, local
  <2>3. Same(0)
    BY <2>1 DEF Same, PastNode, PastInput, Hold, Stopped, LetGo
  <2>4. Stage(0) = Ahead(1) /\ Stage(0)' = Ahead(1) /\ Open /\ Open' /\ ~Left(0)'
    BY <2>1 DEF Stage, In, Places, Open, Left, LetGo
  <2>5. \A u \in Thread : Same(u)
    BY <2>2, <2>3
  <2> QED BY <2>1, <2>4, <2>5, QuietOrder
<1> QED BY <1>1, <1>2, <1>3, <1>4

LEMMA WorkerOrder ==
    ASSUME Inv, OrderInv, (\E w \in Worker : BetweenGraphs(w) \/ SpuriousWakeup(w)) \/ UNCHANGED vars
    PROVE  OrderInv'
<1> USE DEF Inv
<1>1. ASSUME NEW w \in Worker, BetweenGraphs(w) PROVE OrderInv'
  <2>1. PICK l \in WorkerPlaces, g \in {last_graph[w], n_graph} :
          Turns(w, l, g) /\ pc[w] \notin Places /\ (l \in Places => l = "start")
    <3>1. WorkerStep(w)
      BY <1>1, BetweenGraphsStep DEF Shape
    <3> QED BY <3>1 DEF WorkerStep, WorkerPlaces, Places
  <2>2. /\ pc'[w] = l /\ \A u \in Thread \ {w} : pc'[u] = pc[u]
        /\ UNCHANGED <<n_graph, n_barrier_passed, abort, current_chunk, done, redone, local>>
    BY <2>1 DEF Turns, shared, ghost
  <2>3. \A u \in Thread \ {w} : Same(u) /\ (In(u)' <=> In(u)) /\ Stage(u)' = Stage(u) /\ (LetGo(u)' <=> LetGo(u))
    BY <2>2, OthersSame, OthersKeep DEF Kept, local
  <2>4. Same(w)
    <3>1. ~PastNode(w) /\ ~PastInput(w) /\ ~Hold(w)
      BY <2>1 DEF PastNode, PastInput, Hold, In
    <3>2. ~PastNode(w)' /\ ~PastInput(w)' /\ ~Hold(w)'
      BY <2>1, <2>2 DEF PastNode, PastInput, Hold, In, Stopped, LetGo, Places
    <3> QED BY <3>1, <3>2 DEF Same
  <2>5. \A u \in Thread : Same(u)
    BY <2>3, <2>4
  <2>6. 0 # w /\ 0 \in Thread
    BY Sizes
  <2>7. /\ Open' <=> Open
        /\ Stage(0)' = Stage(0) /\ pc'[0] = pc[0]
        /\ Left(0)' <=> Left(0)
    BY <2>2, <2>3, <2>6 DEF Open, Left, local
  <2> QED BY <2>2, <2>5, <2>7, QuietOrder
<1>2. CASE (\E w \in Worker : SpuriousWakeup(w)) \/ UNCHANGED vars
  <2>1. UNCHANGED <<pc, n_graph, n_barrier_passed, abort, current_chunk, done, redone, local>>
    BY <1>2 DEF SpuriousWakeup, vars, signal, shared, ghost
  <2>2. \A u \in Thread : Same(u) /\ (In(u)' <=> In(u)) /\ Stage(u)' = Stage(u) /\ (LetGo(u)' <=> LetGo(u))
    BY <2>1, OthersSame, OthersKeep DEF Kept, local
  <2>3. /\ Open' <=> Open
        /\ Stage(0)' = Stage(0) /\ pc'[0] = pc[0]
        /\ Left(0)' <=> Left(0)
    BY <2>1, <2>2, Sizes DEF Open, Left, local
  <2> QED BY <2>1, <2>2, <2>3, QuietOrder
<1> QED BY <1>1, <1>2

LEMMA OrderStep == Inv /\ OrderInv /\ [Next]_vars => OrderInv'
<1> SUFFICES ASSUME Inv, OrderInv, [Next]_vars PROVE OrderInv'
  OBVIOUS
<1>1. CASE Compute \/ PauseResume \/ Free \/ Unpause \/ Join \/ Kickoff \/ Wake
  BY <1>1, CallerOrder
<1>2. ASSUME NEW t \in Thread, InGraph(t) PROVE OrderInv'
  <2>1. CASE Release(t) \/ (AtBarrier(t) /\ N = 1)
    BY <2>1, ReleaseOrder
  <2>2. CASE StepsInside(t)
    BY <2>2, InsideOrder
  <2> QED BY <1>2, <2>1, <2>2 DEF InGraph, StepsInside
<1>3. CASE (\E w \in Worker : BetweenGraphs(w) \/ SpuriousWakeup(w)) \/ UNCHANGED vars
  BY <1>3, WorkerOrder
<1> QED BY Steps, <1>1, <1>2, <1>3

LEMMA OrderInit == Init => OrderInv
<1> SUFFICES ASSUME Init PROVE OrderInv
  OBVIOUS
<1>1. pc[0] = "call" /\ done = {} /\ redone = FALSE
  BY Sizes DEF Init
<1>2. ~Open /\ ~Left(0)
  BY <1>1 DEF Open, In, Left, LetGo, Places
<1> QED BY <1>1, <1>2 DEF OrderInv, DoneType, DoneInv, ChunkInv, InputsComputed, ResultInv

\* The inductive invariant of the order of computation, on top of the pool's: what is done is of
\* nodes in front of the stage's or by threads that are through with the stage's, and a chunk below
\* the counter has been computed or is held by one thread.
THEOREM OrderInvariant == Spec => [](Inv /\ OrderInv)
<1>1. Init => Inv /\ OrderInv
  BY ShapeInit, MemberInit, StageInit, OrderInit DEF Inv
<1>2. Inv /\ OrderInv /\ [Next]_vars => Inv' /\ OrderInv'
  BY InvStep, OrderStep
<1> QED BY <1>1, <1>2, PTL DEF Spec

\* However many threads share a graph and whatever the order in which they take chunks from the
\* counter, no part of a node is computed by two of them, nor twice by one.
THEOREM PartsOnce == Spec => []EachPartOnce
<1>1. OrderInv => EachPartOnce
  BY DEF OrderInv, EachPartOnce
<1> QED BY <1>1, OrderInvariant, PTL

\* However slow some threads are, none computes anything of a node before all of the nodes in front
\* are computed, nor a chunk of a matrix product before all of its input is prepared.
THEOREM NodesInOrder == Spec => []InputsComputed
<1>1. OrderInv => InputsComputed
  BY DEF OrderInv
<1> QED BY <1>1, OrderInvariant, PTL

-----------------------------------------------------------------------------
(* Node after node *)

\* The nodes computed, those in front of all that are not
Front == {i \in Real : pc[0] # "kickoff" /\ \A j \in Real : j <= i => Finished(j)}

\* What a step is to the caller of ggml_graph_compute, for the nodes computed so far.
LEMMA CallerSees ==
    /\ Abstract!Call <=> ~Running /\ Running' = TRUE /\ Cardinality(Front') = 0 /\ (IF Running' THEN "none" ELSE ec') = "none"
    /\ Abstract!ComputeNode <=> /\ Running /\ Cardinality(Front) < Cardinality(Real)
                                /\ Cardinality(Front') = Cardinality(Front) + 1
                                /\ Running' = Running
                                /\ (IF Running' THEN "none" ELSE ec') = IF Running THEN "none" ELSE ec
    /\ Abstract!Return <=> /\ Running /\ Running' = FALSE
                           /\ \/ Cardinality(Front) = Cardinality(Real) /\ (IF Running' THEN "none" ELSE ec') = "success"
                              \/ Cardinality(Front) > 0 /\ (IF Running' THEN "none" ELSE ec') = "aborted"
                           /\ Cardinality(Front') = Cardinality(Front)
BY DEF Abstract!Call, Abstract!ComputeNode, Abstract!Return, Front

AbstractVars == <<Running, Cardinality(Front), IF Running THEN "none" ELSE ec>>

LEMMA FrontFinite ==
    /\ IsFiniteSet(Real) /\ IsFiniteSet(Front) /\ Front \subseteq Real
    /\ Cardinality(Real) \in Nat /\ Cardinality(Front) \in Nat
<1>1. IsFiniteSet(Node)
  BY Sizes, FS_Interval DEF Node
<1>2. Real \in SUBSET Node /\ Front \in SUBSET Real
  BY DEF Real, Front
<1>3. IsFiniteSet(Real)
  BY <1>1, <1>2, FS_Subset
<1>4. IsFiniteSet(Front)
  BY <1>2, <1>3, FS_Subset
<1> QED BY <1>2, <1>3, <1>4, FS_CardinalityType

\* A node that computes something has parts, all of them its own.
LEMMA PartsReal ==
    ASSUME NEW i \in Real, NEW n \in 1..NThread
    PROVE  Parts(i, n) # {} /\ \A p \in Parts(i, n) : p[1] = i
<1>1. Graph[i] \in {"plain", "mat"} /\ 0 \in 0..(n - 1)
  BY Sizes DEF Real
<1>2. CASE Graph[i] = "plain"
  <2>1. Parts(i, n) = {<<i, "part", t>> : t \in 0..(n - 1)}
    BY <1>2 DEF Parts
  <2>2. <<i, "part", 0>> \in Parts(i, n)
    BY <1>1, <2>1
  <2>3. \A p \in Parts(i, n) : p[1] = i
    BY <2>1
  <2> QED BY <2>2, <2>3
<1>3. CASE Graph[i] = "mat"
  <2>1. Parts(i, n) = {<<i, "input", t>> : t \in 0..(n - 1)} \cup {<<i, "chunk", c>> : c \in 0..(NChunk(n) - 1)}
    BY <1>3 DEF Parts
  <2>2. <<i, "input", 0>> \in Parts(i, n)
    BY <1>1, <2>1
  <2>3. \A p \in Parts(i, n) : p[1] = i
    BY <2>1
  <2> QED BY <2>2, <2>3
<1> QED BY <1>1, <1>2, <1>3

LEMMA NothingDone ==
    /\ Shape /\ done = {} => Front = {}
    /\ Shape' /\ done' = {} => Front' = {}
<1>1. ASSUME Shape, done = {}, NEW i \in Real, Finished(i) PROVE FALSE
  <2>1. n_graph.n \in 1..NThread /\ Parts(i, n_graph.n) \subseteq done
    BY <1>1, Sizes DEF Finished, Shape
  <2> QED BY <1>1, <2>1, PartsReal
<1>2. ASSUME Shape', done' = {}, NEW i \in Real, Finished(i)' PROVE FALSE
  <2>1. n_graph'.n > 0 /\ Parts(i, n_graph'.n) \subseteq done'
    BY <1>2 DEF Finished
  <2>2. n_graph'.n \in 0..NThread
    BY <1>2 DEF Shape
  <2>3. n_graph'.n \in 1..NThread
    BY <2>1, <2>2, Sizes
  <2> QED BY <1>2, <2>1, <2>3, PartsReal
<1> QED BY <1>1, <1>2, RealNodes DEF Front

LEMMA FrontKept ==
    ASSUME UNCHANGED <<n_graph, done>>, pc[0] # "kickoff", pc'[0] # "kickoff" PROVE Front' = Front
<1>1. \A i : Finished(i)' <=> Finished(i)
  BY DEF Finished, Parts, NChunk
<1> QED BY <1>1 DEF Front

\* A step that goes on with the call, or happens outside of one, and computes nothing is not seen.
LEMMA NotSeen ==
    ASSUME Front' = Front, Running' = Running, Running \/ ec' = ec
    PROVE  UNCHANGED AbstractVars
BY DEF AbstractVars

LEMMA RunningPlaces ==
    /\ Running <=> pc[0] \in Places \cup {"kickoff", "wake"}
    /\ Running \in BOOLEAN
BY DEF Running

\* A thread's step in a graph may finish the node it is at, which is the next.
LEMMA ComputeSeen ==
    ASSUME Inv, OrderInv, NEW t \in Thread, Plain(t) \/ MatInput(t) \/ Chunk(t) \/ Grab(t)
    PROVE  Abstract!ComputeNode \/ UNCHANGED AbstractVars
<1> DEFINE n == node_n[t]
<1>1. /\ Open /\ Open' /\ N \in 1..NThread /\ Todo(0) = Rest(n) /\ n \in Real /\ UNCHANGED n_graph
      /\ n \in Todo(0)
  BY ComputeFrame DEF Inv
<1>2. Running /\ Running' /\ pc[0] # "kickoff" /\ pc'[0] # "kickoff"
  BY <1>1 DEF Running, Open, In, Places
<1>3. done \subseteq done' /\ \A p \in done' : p \in done \/ p[1] = n
  <2>1. CASE Plain(t)
    BY <2>1, PlainDone DEF Inv, OrderInv
  <2>2. CASE MatInput(t)
    BY <2>2, MatInputDone DEF Inv, OrderInv
  <2>3. CASE Chunk(t)
    <3>1. UNCHANGED done \/ done' = done \cup {<<n, "chunk", chunk[t]>>}
      BY <2>3, ChunkDone DEF Inv, OrderInv
    <3> QED BY <3>1
  <2>4. CASE Grab(t)
    BY <2>4, GrabHolds DEF Inv, OrderInv
  <2> QED BY <2>1, <2>2, <2>3, <2>4
<1>4. \A i : Finished(i) => Finished(i)'
  BY <1>1, <1>3, StaysFinished
<1>5. \A i \in Real \ {n} : Finished(i)' => Finished(i)
  <2> SUFFICES ASSUME NEW i \in Real \ {n}, Finished(i)' PROVE Finished(i)
    OBVIOUS
  <2>1. Parts(i, N)' = Parts(i, N) /\ N' = N
    BY <1>1 DEF Parts, NChunk, N
  <2>2. Parts(i, N) \subseteq done'
    BY <2>1 DEF Finished, N
  <2>3. \A p \in Parts(i, N) : p[1] = i
    BY <1>1, PartsReal
  <2>4. Parts(i, N) \subseteq done
    BY <1>3, <2>2, <2>3
  <2> QED BY <1>1, <2>4 DEF Finished, N
<1>6. \A i \in Real : i > n => ~Finished(i)
  <2> SUFFICES ASSUME NEW i \in Real, i > n, Finished(i) PROVE FALSE
    OBVIOUS
  <2>1. PICK p \in Parts(i, N) : p \in done /\ p[1] = i
    BY <1>1, PartsReal DEF Finished, N
  <2>2. p[1] <= n
    BY <1>1, <2>1 DEF OrderInv, DoneInv
  <2> QED BY <1>1, <2>1, <2>2, RealNodes
<1>7. Front \subseteq Front' /\ Front' \subseteq Front \cup {n}
  <2>1. Front \subseteq Front'
    BY <1>2, <1>4 DEF Front
  <2>2. ASSUME NEW i \in Front', i # n PROVE i \in Front
    <3>1. i \in Real /\ \A j \in Real : j <= i => Finished(j)'
      BY DEF Front
    <3>2. Finished(i)
      BY <1>5, <2>2, <3>1, RealNodes
    <3>3. i < n
      BY <1>1, <1>6, <2>2, <3>1, <3>2, RealNodes
    <3>4. \A j \in Real : j <= i => j # n
      BY <1>1, <3>1, <3>3, RealNodes
    <3> QED BY <1>2, <1>5, <3>1, <3>4 DEF Front
  <2> QED BY <2>1, <2>2
<1>8. CASE Front' = Front
  BY <1>2, <1>8, NotSeen, RunningPlaces
<1>9. CASE Front' = Front \cup {n} /\ n \notin Front
  <2>1. Cardinality(Front') = Cardinality(Front) + 1
    BY <1>9, FrontFinite, FS_AddElement
  <2>2. Front' \in SUBSET Real
    BY <1>1, <1>9, FrontFinite
  <2>3. Cardinality(Front') <= Cardinality(Real)
    BY <2>2, FrontFinite, FS_Subset
  <2>4. Cardinality(Front) < Cardinality(Real)
    BY <2>1, <2>3, FrontFinite
  <2> QED BY <1>2, <2>1, <2>4, CallerSees, RunningPlaces
<1> QED BY <1>7, <1>8, <1>9

\* The call returns with all of the graph computed or, aborted, a part from the front.
LEMMA ReturnSeen ==
    ASSUME Inv, Complete, pc[0] \in Places, pc'[0] = "call", UNCHANGED <<n_graph, done, ec>>
    PROVE  Abstract!Return
<1>1. Running /\ Running' = FALSE
  BY RunningPlaces DEF Running, Places
<1>2. Front' = Front
  BY FrontKept DEF Places
<1>3. pc[0] # "kickoff" /\ (ec = IF abort = 0 THEN "success" ELSE "aborted") /\ abort \in Nat
  BY Sizes DEF Places, Inv, AbortInv, Shape
<1>4. CASE abort = 0
  <2>1. Front = Real
    BY <1>3, <1>4 DEF Complete, Front
  <2> QED BY <1>1, <1>2, <1>3, <1>4, <2>1, CallerSees
<1>5. CASE abort # 0
  <2>1. abort - 1 \in Real
    BY <1>5 DEF Inv, AbortInv
  <2>2. \A j \in Real : j <= abort - 1 => j < abort
    BY <1>3, RealNodes
  <2>3. abort - 1 \in Front
    BY <1>3, <2>1, <2>2 DEF Complete, Front
  <2>4. Cardinality(Front) > 0
    BY <2>3, FrontFinite, FS_EmptySet
  <2> QED BY <1>1, <1>2, <1>3, <1>5, <2>4, CallerSees
<1> QED BY <1>4, <1>5

LEMMA InGraphSeen ==
    ASSUME Inv, OrderInv, NEW t \in Thread, InGraph(t)
    PROVE  Abstract!Next \/ UNCHANGED AbstractVars
<1>1. CASE Plain(t) \/ MatInput(t) \/ Chunk(t) \/ Grab(t)
  BY <1>1, ComputeSeen DEF Abstract!Next
<1>2. CASE ~(Plain(t) \/ MatInput(t) \/ Chunk(t) \/ Grab(t))
  <2>1. /\ UNCHANGED n_graph /\ pc[t] \in Places
        /\ pc'[t] \in Places \/ pc'[t] = IF t = 0 THEN "call" ELSE "pause"
        /\ \A u \in Thread \ {t} : pc'[u] = pc[u]
    BY InGraphStep DEF Inv, Shape, Kept
  <2>2. UNCHANGED done
    BY <1>2 DEF InGraph, Start, NextNode, Computed, AtBarrier, Arrive, Reset, Release, Spin, ghost
  <2>3. CASE t = 0 /\ pc'[0] = "call"
    <3>1. Complete /\ UNCHANGED ec
      <4>1. CASE Release(t) \/ (AtBarrier(t) /\ N = 1)
        <5>1. Onward(back[t]) /\ back[t] \in {"node", "chunk", "end"} /\ t \in Members
          BY <4>1, ReleaseOnward
        <5>2. back[t] = "end"
          BY <2>3, <5>1 DEF Onward
        <5> QED BY <4>1, <5>1, <5>2, ReleaseOrder DEF Onward
      <4>2. CASE Spin(t)
        <5>1. pc[t] = "spin" /\ n_passed[t] # n_barrier_passed /\ UNCHANGED shared /\ pc'[t] = BackTo(t)
          BY <4>2, SpinStep DEF Inv, Shape, Becomes
        <5>2. back[t] = "end"
          BY <2>3, <5>1 DEF BackTo, Inv, Shape, LocalType
        <5>3. Left(0)
          BY <2>3, <5>1, <5>2 DEF Left, LetGo
        <5> QED BY <5>1, <5>3 DEF OrderInv, ResultInv, shared
      <4>3. CASE Start(t) \/ NextNode(t) \/ Computed(t) \/ (AtBarrier(t) /\ N # 1) \/ Arrive(t) \/ Reset(t)
        <5>1. In(t)' <=> In(t)
          BY <4>3, OwnStage DEF Inv, StepsInside
        <5>2. In(t)
          BY <4>3 DEF Start, NextNode, Computed, AtBarrier, Arrive, Reset, In, Left, LetGo, Places
        <5> QED BY <2>3, <5>1, <5>2 DEF In, Places
      <4> QED BY <1>2, <4>1, <4>2, <4>3 DEF InGraph
    <3>2. Abstract!Return
      BY <2>1, <2>2, <2>3, <3>1, ReturnSeen
    <3> QED BY <3>2 DEF Abstract!Next
  <2>4. CASE ~(t = 0 /\ pc'[0] = "call")
    <3>1. pc'[0] = pc[0] \/ (pc[0] \in Places /\ pc'[0] \in Places)
      BY <2>1, <2>4, Sizes
    <3>2. Running' = Running /\ (pc[0] = "kickoff" <=> pc'[0] = "kickoff")
      BY <3>1 DEF Running, Places
    <3>3. Running \/ UNCHANGED ec
      <4>1. CASE Open
        BY <4>1 DEF Running, Open, In
      <4>2. CASE ~Open
        <5>1. ~In(t)
          BY <4>2 DEF Inv, MemberInv
        <5>2. Spin(t)
          BY <2>1, <1>2, <5>1 DEF InGraph, Start, NextNode, Computed, AtBarrier, Arrive, Reset, Release,
             In, Left, LetGo, Places
        <5> QED BY <5>2 DEF Spin, shared
      <4> QED BY <4>1, <4>2
    <3>4. Front' = Front
      <4>1. \A i : Finished(i)' <=> Finished(i)
        BY <2>1, <2>2 DEF Finished, Parts, NChunk
      <4> QED BY <3>2, <4>1 DEF Front
    <3> QED BY <3>2, <3>3, <3>4, NotSeen
  <2> QED BY <2>3, <2>4
<1> QED BY <1>1, <1>2

LEMMA StepSeen == Inv /\ OrderInv /\ [Next]_vars => Abstract!Next \/ UNCHANGED AbstractVars
<1> SUFFICES ASSUME Inv, OrderInv, [Next]_vars PROVE Abstract!Next \/ UNCHANGED AbstractVars
  OBVIOUS
<1>1. CASE Compute
  <2>1. pc[0] = "call" /\ pc'[0] = "kickoff"
    BY <1>1, CallerSteps DEF Calls, Inv, Shape
  <2>2. Front' = {}
    BY <2>1 DEF Front
  <2>3. ~Running /\ Running' = TRUE
    BY <2>1 DEF Running, Places
  <2> QED BY <2>2, <2>3, CallerSees, FS_EmptySet DEF Abstract!Next
<1>2. CASE PauseResume \/ Free \/ Unpause \/ Join
  <2>1. /\ pc[0] \notin Places \cup {"kickoff", "wake"} /\ pc'[0] \notin Places \cup {"kickoff", "wake"}
        /\ UNCHANGED <<n_graph, done, ec>>
    BY <1>2, CallerSteps DEF Calls, Places, Inv, Shape, shared, signal
  <2>2. Front' = Front /\ Running' = Running
    BY <2>1, FrontKept DEF Running
  <2> QED BY <2>1, <2>2, NotSeen
<1>3. CASE Kickoff
  <2>1. pc[0] = "kickoff" /\ pc'[0] = "wake" /\ UNCHANGED done /\ done = {}
    BY <1>3, CallerSteps DEF Calls, Inv, Shape, OrderInv
  <2>2. Front = {} /\ Front' = {}
    <3>1. Shape' /\ done' = {}
      BY <2>1, ShapeStep DEF Inv
    <3>2. Front = {}
      BY <2>1, NothingDone DEF Inv
    <3>3. Front' = {}
      BY <3>1, NothingDone
    <3> QED BY <3>2, <3>3
  <2>3. Running /\ Running' = Running
    BY <2>1 DEF Running
  <2> QED BY <2>2, <2>3, NotSeen
<1>4. CASE Wake
  <2>1. pc[0] = "wake" /\ pc'[0] = "start" /\ UNCHANGED <<n_graph, done, ec>>
    BY <1>4, CallerSteps DEF Calls, Inv, Shape, shared
  <2>2. Front' = Front /\ Running /\ Running' = Running
    BY <2>1, FrontKept DEF Running, Places
  <2> QED BY <2>2, NotSeen
<1>5. ASSUME NEW t \in Thread, InGraph(t) PROVE Abstract!Next \/ UNCHANGED AbstractVars
  BY <1>5, InGraphSeen
<1>6. ASSUME UNCHANGED <<n_graph, done, ec>>, pc'[0] = pc[0] PROVE UNCHANGED AbstractVars
  <2>1. \A i : Finished(i)' <=> Finished(i)
    BY <1>6 DEF Finished, Parts, NChunk
  <2>2. Front' = Front /\ Running' = Running
    BY <1>6, <2>1 DEF Front, Running
  <2> QED BY <1>6, <2>2, NotSeen
<1>7. ASSUME NEW w \in Worker, BetweenGraphs(w) PROVE UNCHANGED AbstractVars
  <2>1. UNCHANGED <<n_graph, done, ec>> /\ w # 0
    BY <1>7, Sizes DEF BetweenGraphs, LookAtPause, Paused, Resumed, LookAtStop, PollFlags, PollGraph, Check, Sleep,
       Idle, shared, ghost
  <2>2. pc'[0] = pc[0]
    <3>1. WorkerStep(w)
      BY <1>7, BetweenGraphsStep DEF Inv, Shape
    <3> QED BY <2>1, <3>1, Sizes DEF WorkerStep, Turns
  <2> QED BY <1>6, <2>1, <2>2
<1>8. CASE (\E w \in Worker : SpuriousWakeup(w)) \/ UNCHANGED vars
  BY <1>6, <1>8 DEF SpuriousWakeup, vars, signal, shared, ghost
<1> QED BY Steps, <1>1, <1>2, <1>3, <1>4, <1>5, <1>7, <1>8

\* The pool implements OrderedCompute for any number of threads: to its caller, ggml_graph_compute
\* computes the nodes one after the other, returns GGML_STATUS_SUCCESS only with all of them computed
\* and GGML_STATUS_ABORTED only with a part from the front, and computes nothing between calls.
THEOREM Refinement == Spec => ComputesInOrder
<1>1. Init => Abstract!Init
  <2> SUFFICES ASSUME Init PROVE Abstract!Init
    OBVIOUS
  <2>1. pc[0] = "call" /\ done = {} /\ ec = "success" /\ Shape
    BY ShapeInit, Sizes DEF Init
  <2>2. Front = {} /\ ~Running
    BY <2>1, NothingDone DEF Running, Places
  <2> QED BY <2>1, <2>2, FS_EmptySet, RunningPlaces DEF Abstract!Init, Front
<1>2. Inv /\ OrderInv /\ [Next]_vars =>
        [Abstract!Next]_<<Running,
            Cardinality({i \in Real : pc[0] # "kickoff" /\ \A j \in Real : j <= i => Finished(j)}),
            IF Running THEN "none" ELSE ec>>
  BY StepSeen DEF AbstractVars, Front
<1> QED BY <1>1, <1>2, OrderInvariant, PTL DEF Spec, ComputesInOrder, Abstract!Spec

================================================================================
