--------------------------- MODULE EvalSched_proofs ---------------------------
(***************************************************************************)
(* Proofs about EvalSched, for every graph, every way of splitting it and  *)
(* every user callback.                                                    *)
(***************************************************************************)
EXTENDS EvalSched, TLAPS

Running == pc \in {"ask", "compute", "pass", "tell"}

-----------------------------------------------------------------------------
(* Types *)

\* A node's split ends in the graph and not before the node, and the nodes from
\* there to its end are in the same split.
LEMMA SplitOfNode ==
    ASSUME splits \in Splittings, NEW n \in Node
    PROVE  /\ splits[n] \in Node /\ n <= splits[n]
           /\ \A m \in Node : n <= m /\ m <= splits[n] => splits[m] = splits[n]
<1>1. splits \in [Node -> Node] /\ n <= splits[n]
  BY GraphAssumption
<1>2. ASSUME NEW m \in Node, n <= m, m <= splits[n]
      PROVE  splits[m] = splits[n]
  <2>1. m \in n..splits[n]
    BY <1>1, <1>2, GraphAssumption DEF Node
  <2> QED BY <2>1, GraphAssumption
<1> QED BY <1>1, <1>2

\* Where the loop goes on after the last node it has dealt with.
LEMMA GoOnType ==
    ASSUME TypeOK, splits' = splits, NEW n \in Node, GoOnAfter(n)
    PROVE  /\ pc' \in {"idle", "ask"}
           /\ j0' \in Node /\ j1' \in Node /\ j0' <= j1' /\ j1' <= splits'[j0']
<1>1. CASE n = NNode
  BY <1>1 DEF GoOnAfter, TypeOK
<1>2. CASE n # NNode
  <2>1. n + 1 \in Node
    BY <1>2, GraphAssumption DEF Node
  <2>2. n + 1 <= splits[n + 1]
    BY <2>1, SplitOfNode DEF TypeOK
  <2> QED BY <1>2, <2>1, <2>2, GraphAssumption DEF GoOnAfter, Node
<1> QED BY <1>1, <1>2

\* Asking about one node more keeps the range in its split.
LEMMA WidenType ==
    ASSUME TypeOK, splits' = splits, j0' = j0, Widen
    PROVE  /\ pc' \in {"ask", "compute"}
           /\ j0' \in Node /\ j1' \in Node /\ j0' <= j1' /\ j1' <= splits'[j0']
<1>1. splits[j0] \in Node /\ splits[j1] = splits[j0]
  BY SplitOfNode DEF TypeOK
<1>2. CASE ~need' /\ j1 < splits[j1]
  BY <1>1, <1>2, GraphAssumption DEF Widen, TypeOK, Node
<1>3. CASE ~(~need' /\ j1 < splits[j1])
  BY <1>3 DEF Widen, TypeOK
<1> QED BY <1>2, <1>3

LEMMA TypeInit == Init => TypeOK
<1> SUFFICES ASSUME Init PROVE TypeOK
  OBVIOUS
<1>1. 1 \in Node /\ 1 <= splits[1]
  BY GraphAssumption, SplitOfNode DEF Init, Node
<1>2. /\ stash \in [Layer -> {"none", "old", "this"}]
      /\ corr \in [Layer -> {"old", "this"}]
      /\ used \in [Layer -> {"none", "old", "this"}]
  BY DEF Init
<1>3. pc = "idle" /\ splits \in Splittings /\ j0 = 1 /\ j1 = 1 /\ need = FALSE /\ broken = FALSE
  BY DEF Init
<1>4. computed = {} /\ asked = {} /\ wants = {} /\ needed = {} /\ told = {} /\ cancelled = {}
  BY DEF Init
<1>5. j0 \in Node /\ j1 \in Node /\ j0 <= j1 /\ j1 <= splits[j0]
  BY <1>1, <1>3
<1> QED BY <1>2, <1>3, <1>4, <1>5 DEF TypeOK

LEMMA TypeStep == TypeOK /\ [Next]_vars => TypeOK'
<1> SUFFICES ASSUME TypeOK, [Next]_vars PROVE TypeOK'
  OBVIOUS
<1>1. CASE Start
  <2>1. 1 \in Node
    BY GraphAssumption DEF Node
  <2>2. splits' \in Splittings /\ 1 <= splits'[1]
    BY <1>1, <2>1, GraphAssumption DEF Start
  <2>3. /\ stash' \in [Layer -> {"none", "old", "this"}]
        /\ corr' \in [Layer -> {"old", "this"}]
        /\ used' \in [Layer -> {"none", "old", "this"}]
    BY <1>1 DEF Start, TypeOK
  <2>4. pc' = "ask" /\ j0' = 1 /\ j1' = 1
    BY <1>1 DEF Start
  <2>5. need' \in BOOLEAN /\ broken' \in BOOLEAN
    BY <1>1 DEF Start, TypeOK
  <2>6. /\ computed' = {} /\ asked' = {} /\ wants' = {}
        /\ needed' = {} /\ told' = {} /\ cancelled' = {}
    BY <1>1 DEF Start
  <2>7. j0' \in Node /\ j1' \in Node /\ j0' <= j1' /\ j1' <= splits'[j0']
    BY <2>1, <2>2, <2>4
  <2> QED BY <2>2, <2>3, <2>4, <2>6, <2>7, <2>5 DEF TypeOK
<1>2. CASE AskMoeIn
  <2>1. /\ pc' \in {"ask", "compute"}
        /\ j0' \in Node /\ j1' \in Node /\ j0' <= j1' /\ j1' <= splits'[j0']
    BY <1>2, WidenType DEF AskMoeIn
  <2> QED BY <1>2, <2>1 DEF AskMoeIn, TypeOK, userVars
<1>3. CASE Ask
  <2>1. /\ pc' \in {"ask", "compute"}
        /\ j0' \in Node /\ j1' \in Node /\ j0' <= j1' /\ j1' <= splits'[j0']
    BY <1>3, WidenType DEF Ask
  <2>2. need' \in BOOLEAN
    BY <1>3 DEF Ask, StopsHere, IsStop, Active
  <2>3. asked' \subseteq Node /\ wants' \subseteq Node /\ needed' \subseteq Node
    BY <1>3 DEF Ask, TypeOK
  <2> QED BY <1>3, <2>1, <2>2, <2>3 DEF Ask, TypeOK
<1>4. CASE RunNode
  <2>1. PICK n \in (j0..j1) \ computed :
              /\ computed' = computed \cup {n}
              /\ used' = IF Kind[n] = "add" THEN [used EXCEPT ![LayerOf[n]] = corr[LayerOf[n]]]
                                            ELSE used
    BY <1>4 DEF RunNode
  <2>2. n \in Node
    BY <2>1, GraphAssumption DEF TypeOK, Node
  <2>3. LayerOf[n] \in Layer
    BY <2>2 DEF Layer
  <2>4. used' \in [Layer -> {"none", "old", "this"}]
    BY <2>1, <2>3 DEF TypeOK
  <2> QED BY <1>4, <2>1, <2>2, <2>4 DEF RunNode, TypeOK, hostVars, userVars
<1>5. CASE ComputeFails
  BY <1>5 DEF ComputeFails, TypeOK, hostVars, userVars
<1>6. CASE Synchronize
  <2>1. CASE need
    BY <1>6, <2>1 DEF Synchronize, TypeOK, userVars
  <2>2. CASE ~need
    <3>1. /\ pc' \in {"idle", "ask"}
          /\ j0' \in Node /\ j1' \in Node /\ j0' <= j1' /\ j1' <= splits'[j0']
      BY <1>6, <2>2, GoOnType DEF Synchronize, TypeOK
    <3> QED BY <1>6, <3>1 DEF Synchronize, TypeOK, userVars
  <2> QED BY <2>1, <2>2
<1>7. CASE MissPass
  <2>1. LayerOf[j1] \in Layer
    BY DEF TypeOK, Layer
  <2> QED BY <1>7, <2>1 DEF MissPass, TypeOK, hostVars, userVars
<1>8. CASE Tell
  <2>1. /\ pc' \in {"idle", "ask"}
        /\ j0' \in Node /\ j1' \in Node /\ j0' <= j1' /\ j1' <= splits'[j0']
    BY <1>8, GoOnType DEF Tell, TypeOK
  <2> QED BY <1>8, <2>1 DEF Tell, TypeOK, userVars
<1>9. CASE Cancel
  <2>1. splits[j1] \in Node
    BY SplitOfNode DEF TypeOK
  <2>2. /\ pc' \in {"idle", "ask"}
        /\ j0' \in Node /\ j1' \in Node /\ j0' <= j1' /\ j1' <= splits'[j0']
    BY <1>9, <2>1, GoOnType DEF Cancel
  <2> QED BY <1>9, <2>2 DEF Cancel, TypeOK, userVars
<1>10. CASE UNCHANGED vars
  BY <1>10 DEF vars, TypeOK
<1> QED
  BY <1>1, <1>2, <1>3, <1>4, <1>5, <1>6, <1>7, <1>8, <1>9, <1>10 DEF Next, Evaluate

\* In every evaluation the variables keep their types and the loop's cursors stay
\* inside one split of the graph.
THEOREM TypeCorrect == Spec => []TypeOK
  BY TypeInit, TypeStep, PTL DEF Spec

-----------------------------------------------------------------------------
(* What has been computed, also with a callback that cancels *)

\* The range before the cursor, what the backend has done of the current range, and
\* the splits that were left early.
RangeInv ==
    /\ pc = "ask" => computed \subseteq 1..(j0 - 1)
    /\ pc = "compute" =>
         /\ computed \subseteq 1..j1
         /\ \A n \in (j0..j1) \cap computed : j0..n \subseteq computed
    /\ pc \in {"pass", "tell"} => j0..j1 \subseteq computed /\ computed \subseteq 1..j1
    /\ Running => \A c \in cancelled : splits[c] < j0
    /\ CancelDropsSplit

\* Going on after node n keeps what is known of the nodes up to n.
LEMMA GoOnRange ==
    ASSUME TypeOK, RangeInv, NEW n \in Node, GoOnAfter(n), splits' = splits,
           computed' = computed, computed \subseteq 1..n,
           cancelled' \subseteq Node, \A c \in cancelled' : splits[c] <= n,
           CancelDropsSplit'
    PROVE  RangeInv'
<1>1. CASE n = NNode
  BY <1>1 DEF GoOnAfter, RangeInv, Running
<1>2. CASE n # NNode
  <2>1. pc' = "ask" /\ j0' = n + 1 /\ n \in Nat
    BY <1>2 DEF GoOnAfter, Node
  <2>2. computed' \subseteq 1..(j0' - 1)
    BY <2>1
  <2>3. \A c \in cancelled' : splits'[c] < j0'
    <3>1. ASSUME NEW c \in cancelled' PROVE splits'[c] < j0'
      <4>1. splits[c] <= n
        BY <3>1
      <4>2. splits[c] \in Nat
        BY <3>1, SplitOfNode DEF TypeOK, Node
      <4> QED BY <4>1, <4>2, <2>1
    <3> QED BY <3>1
  <2> QED BY <2>1, <2>2, <2>3 DEF RangeInv, Running
<1> QED BY <1>1, <1>2

LEMMA RangeInit == Init => RangeInv
  BY DEF Init, RangeInv, Running, CancelDropsSplit

LEMMA RangeStep == TypeOK /\ RangeInv /\ [Next]_vars => RangeInv'
<1> SUFFICES ASSUME TypeOK, RangeInv, [Next]_vars PROVE RangeInv'
  OBVIOUS
<1>0. j0 \in Nat /\ j1 \in Nat /\ j0 <= j1 /\ j1 \in Node /\ 1 <= j0
  BY DEF TypeOK, Node
<1>1. CASE Start
  BY <1>1 DEF Start, RangeInv, Running, CancelDropsSplit
<1>2. CASE AskMoeIn \/ Ask
  <2>1. pc = "ask" /\ UNCHANGED <<splits, j0, computed, cancelled>> /\ Widen
    BY <1>2 DEF AskMoeIn, Ask
  <2>2. pc' \in {"ask", "compute"} /\ j1' \in {j1, j1 + 1}
    BY <2>1 DEF Widen
  <2>3. computed \subseteq 1..(j0 - 1)
    BY <2>1 DEF RangeInv
  <2>4. computed' \subseteq 1..j1' /\ (j0'..j1') \cap computed' = {}
    BY <1>0, <2>1, <2>2, <2>3
  <2>5. \A c \in cancelled' : splits'[c] < j0'
    BY <2>1 DEF RangeInv, Running
  <2>6. CancelDropsSplit'
    BY <2>1 DEF RangeInv, CancelDropsSplit
  <2> QED BY <2>1, <2>2, <2>3, <2>4, <2>5, <2>6 DEF RangeInv
<1>3. CASE RunNode
  <2>1. PICK n \in (j0..j1) \ computed : j0..(n - 1) \subseteq computed /\ computed' = computed \cup {n}
    BY <1>3 DEF RunNode
  <2>2. pc = "compute" /\ pc' = "compute" /\ UNCHANGED <<splits, j0, j1, cancelled>>
    BY <1>3 DEF RunNode, hostVars
  <2>3. computed' \subseteq 1..j1'
    BY <1>0, <2>1, <2>2 DEF RangeInv
  <2>4. ASSUME NEW m \in (j0'..j1') \cap computed'
        PROVE  j0'..m \subseteq computed'
    <3>1. CASE m = n
      BY <1>0, <2>1, <2>2, <3>1
    <3>2. CASE m # n
      BY <2>1, <2>2, <2>4, <3>2 DEF RangeInv
    <3> QED BY <3>1, <3>2
  <2>5. \A c \in cancelled' : splits'[c] < j0'
    BY <2>2 DEF RangeInv, Running
  <2>6. ASSUME NEW c \in cancelled'
        PROVE  computed' \cap ((c + 1)..splits'[c]) = {}
    <3>1. computed \cap ((c + 1)..splits[c]) = {}
      BY <2>2, <2>6 DEF RangeInv, CancelDropsSplit
    <3>2. splits[c] \in Nat /\ splits[c] < n /\ c \in Nat
      BY <1>0, <2>1, <2>2, <2>5, <2>6, SplitOfNode DEF TypeOK, Node
    <3> QED BY <2>1, <2>2, <3>1, <3>2
  <2> QED BY <2>2, <2>3, <2>4, <2>5, <2>6 DEF RangeInv, CancelDropsSplit
<1>4. CASE ComputeFails
  BY <1>4 DEF ComputeFails, RangeInv, Running, CancelDropsSplit, hostVars
<1>5. CASE Synchronize
  <2>1. /\ pc = "compute" /\ j0..j1 \subseteq computed /\ computed \subseteq 1..j1
        /\ UNCHANGED <<splits, computed, cancelled>>
    BY <1>5 DEF Synchronize, RangeInv
  <2>2. \A c \in cancelled : splits[c] < j0
    BY <2>1 DEF RangeInv, Running
  <2>3. CancelDropsSplit'
    BY <2>1 DEF RangeInv, CancelDropsSplit
  <2>4. CASE need
    <3>1. pc' \in {"pass", "tell"} /\ UNCHANGED <<j0, j1>>
      BY <1>5, <2>4 DEF Synchronize
    <3> QED BY <2>1, <2>2, <2>3, <3>1 DEF RangeInv
  <2>5. CASE ~need
    <3>1. GoOnAfter(j1)
      BY <1>5, <2>5 DEF Synchronize
    <3>2. cancelled' \subseteq Node
      BY <2>1 DEF TypeOK
    <3>3. \A c \in cancelled' : splits[c] <= j1
      BY <1>0, <2>1, <2>2, SplitOfNode DEF TypeOK, Node
    <3> QED BY <1>0, <2>1, <2>3, <3>1, <3>2, <3>3, GoOnRange
  <2> QED BY <2>4, <2>5
<1>6. CASE MissPass
  BY <1>6 DEF MissPass, RangeInv, Running, CancelDropsSplit, hostVars
<1>7. CASE Tell
  <2>1. /\ pc = "tell" /\ computed \subseteq 1..j1 /\ UNCHANGED <<splits, computed, cancelled>>
        /\ GoOnAfter(j1)
    BY <1>7 DEF Tell, RangeInv
  <2>2. CancelDropsSplit'
    BY <2>1 DEF RangeInv, CancelDropsSplit
  <2>3. cancelled' \subseteq Node
    BY <2>1 DEF TypeOK
  <2>4. \A c \in cancelled' : splits[c] <= j1
    BY <1>0, <2>1, SplitOfNode DEF TypeOK, Node, RangeInv, Running
  <2> QED BY <1>0, <2>1, <2>2, <2>3, <2>4, GoOnRange
<1>8. CASE Cancel
  <2>1. /\ pc = "tell" /\ computed \subseteq 1..j1 /\ UNCHANGED <<splits, computed>>
        /\ cancelled' = cancelled \cup {j1} /\ GoOnAfter(splits[j1])
    BY <1>8 DEF Cancel, RangeInv
  <2>2. splits[j1] \in Node /\ j1 <= splits[j1]
    BY <1>0, SplitOfNode DEF TypeOK
  <2>3. computed \subseteq 1..splits[j1]
    BY <1>0, <2>1, <2>2 DEF Node
  <2>4. cancelled' \subseteq Node
    BY <1>0, <2>1 DEF TypeOK
  <2>5. \A c \in cancelled' : splits[c] <= splits[j1]
    BY <1>0, <2>1, <2>2, SplitOfNode DEF TypeOK, Node, RangeInv, Running
  <2>6. CancelDropsSplit'
    <3>1. computed \cap ((j1 + 1)..splits[j1]) = {}
      BY <1>0, <2>1, <2>2 DEF Node
    <3> QED BY <2>1, <3>1 DEF RangeInv, CancelDropsSplit
  <2> QED BY <2>1, <2>2, <2>3, <2>4, <2>5, <2>6, GoOnRange
<1>9. CASE UNCHANGED vars
  BY <1>9 DEF vars, RangeInv, Running, CancelDropsSplit
<1> QED
  BY <1>1, <1>2, <1>3, <1>4, <1>5, <1>6, <1>7, <1>8, <1>9 DEF Next, Evaluate

LEMMA RangeInvariant == Spec => [](TypeOK /\ RangeInv)
  BY TypeInit, TypeStep, RangeInit, RangeStep, PTL DEF Spec

\* A node is only handed over when its whole range has been computed and nothing
\* after it: the wrapper and the user never read data in flight.
THEOREM HandedOver == Spec => []HandedOverSynced
<1>1. RangeInv => HandedOverSynced
  BY DEF RangeInv, HandedOverSynced
<1> QED BY <1>1, RangeInvariant, PTL

\* What a false answer does achieve: the rest of that split stays uncomputed.
THEOREM CancelledSplit == Spec => []CancelDropsSplit
<1>1. RangeInv => CancelDropsSplit
  BY DEF RangeInv
<1> QED BY <1>1, RangeInvariant, PTL

-----------------------------------------------------------------------------
(* The promise to a callback that never cancels *)

\* Everything before the range has been computed, and handed over if it was needed;
\* in the range at most the last node is.
OrderInv ==
    /\ Running => /\ 1..(j0 - 1) \subseteq computed
                  /\ told \subseteq 1..(j0 - 1)
                  /\ needed \cap (1..(j0 - 1)) \subseteq told
    /\ pc = "ask" => needed \subseteq 1..(j0 - 1)
    /\ pc \in {"compute", "pass", "tell"} =>
         /\ needed \subseteq 1..(j0 - 1) \cup {j1}
         /\ j1 \in needed <=> need
    /\ pc \in {"pass", "tell"} => need

LEMMA OrderInit == Init => OrderInv
  BY DEF Init, OrderInv, Running

\* Going on after a node up to which everything is in order.
LEMMA GoOnOrder ==
    ASSUME j1 \in Node, GoOnAfter(j1), 1..j1 \subseteq computed', told' \subseteq 1..j1,
           needed' \subseteq 1..j1, needed' \subseteq told'
    PROVE  OrderInv'
<1>1. CASE j1 = NNode
  BY <1>1 DEF GoOnAfter, OrderInv, Running
<1>2. CASE j1 # NNode
  <2>1. pc' = "ask" /\ j0' = j1 + 1 /\ j1 \in Nat
    BY <1>2 DEF GoOnAfter, Node
  <2>2. j0' - 1 = j1
    BY <2>1
  <2> QED BY <2>1, <2>2 DEF OrderInv, Running
<1> QED BY <1>1, <1>2

\* The node the backend computes next is the first one not computed yet, and what
\* was needed before it has been handed over.
LEMMA NextNode ==
    ASSUME TypeOK, RangeInv, OrderInv, pc = "compute",
           NEW n \in (j0..j1) \ computed, j0..(n - 1) \subseteq computed
    PROVE  n \in Node /\ computed = 1..(n - 1) /\ needed \cap computed \subseteq told
<1>1. j0 \in Nat /\ j1 \in Nat /\ n \in Nat /\ 1 <= j0 /\ j0 <= n /\ n <= j1 /\ n \in Node
  BY GraphAssumption DEF TypeOK, Node
<1>2. 1..(n - 1) \subseteq computed
  BY <1>1 DEF OrderInv, Running
<1>3. ASSUME NEW m \in computed, m \notin 1..(n - 1)
      PROVE  FALSE
  <2>1. m \in 1..j1
    BY <1>3 DEF RangeInv
  <2>2. m \in (j0..j1) \cap computed /\ n \in j0..m
    BY <1>1, <1>3, <2>1
  <2>3. n \in computed
    BY <2>2 DEF RangeInv
  <2> QED BY <2>3
<1>4. computed = 1..(n - 1)
  BY <1>2, <1>3
<1>5. j1 \notin computed
  BY <1>1, <1>4
<1> QED
  BY <1>1, <1>4, <1>5 DEF OrderInv, Running

LEMMA OrderStep ==
    ASSUME ~UserCancels
    PROVE  TypeOK /\ RangeInv /\ OrderInv /\ [Next]_vars => OrderInv'
<1> SUFFICES ASSUME TypeOK, RangeInv, OrderInv, [Next]_vars PROVE OrderInv'
  OBVIOUS
<1>0. j0 \in Nat /\ j1 \in Nat /\ j0 <= j1 /\ j1 \in Node /\ 1 <= j0
  BY DEF TypeOK, Node
<1>1. CASE Start
  BY <1>1 DEF Start, OrderInv, Running
<1>2. CASE AskMoeIn \/ Ask
  <2>1. pc = "ask" /\ UNCHANGED <<j0, computed, told>> /\ Widen
    BY <1>2 DEF AskMoeIn, Ask
  <2>2. needed' = (IF need' THEN needed \cup {j1} ELSE needed) /\ need' \in BOOLEAN
    <3>1. CASE AskMoeIn
      BY <3>1 DEF AskMoeIn, userVars
    <3>2. CASE Ask
      BY <3>2 DEF Ask, StopsHere, IsStop, Active
    <3> QED BY <1>2, <3>1, <3>2
  <2>3. needed \subseteq 1..(j0 - 1) /\ j1 \notin 1..(j0 - 1)
    BY <1>0, <2>1 DEF OrderInv
  <2>4. /\ 1..(j0' - 1) \subseteq computed' /\ told' \subseteq 1..(j0' - 1)
        /\ needed' \cap (1..(j0' - 1)) \subseteq told'
    BY <2>1, <2>2, <2>3 DEF OrderInv, Running
  <2>5. CASE ~need' /\ j1 < splits[j1]
    <3>1. pc' = "ask" /\ needed' = needed
      BY <2>1, <2>2, <2>5 DEF Widen
    <3> QED BY <2>1, <2>3, <2>4, <3>1 DEF OrderInv
  <2>6. CASE ~(~need' /\ j1 < splits[j1])
    <3>1. pc' = "compute" /\ j1' = j1
      BY <2>1, <2>6 DEF Widen
    <3>2. needed' \subseteq 1..(j0' - 1) \cup {j1'}
      BY <2>1, <2>2, <2>3, <3>1
    <3>3. j1' \in needed' <=> need'
      BY <2>2, <2>3, <3>1
    <3> QED BY <2>4, <3>1, <3>2, <3>3 DEF OrderInv
  <2> QED BY <2>5, <2>6
<1>3. CASE RunNode
  BY <1>3 DEF RunNode, OrderInv, Running, hostVars, userVars
<1>4. CASE ComputeFails
  BY <1>4 DEF ComputeFails, OrderInv, Running
<1>5. CASE Synchronize
  <2>1. pc = "compute" /\ j0..j1 \subseteq computed /\ UNCHANGED <<need, computed, needed, told>>
    BY <1>5 DEF Synchronize, userVars
  <2>2. CASE need
    <3>1. pc' \in {"pass", "tell"} /\ UNCHANGED <<j0, j1>>
      BY <1>5, <2>2 DEF Synchronize
    <3> QED BY <2>1, <2>2, <3>1 DEF OrderInv, Running
  <2>3. CASE ~need
    <3>1. GoOnAfter(j1)
      BY <1>5, <2>3 DEF Synchronize
    <3>2. 1..j1 \subseteq computed'
      BY <1>0, <2>1 DEF OrderInv, Running
    <3>3. told' \subseteq 1..j1
      BY <1>0, <2>1 DEF OrderInv, Running
    <3>4. needed' \subseteq 1..(j0 - 1) /\ needed' \subseteq told'
      BY <2>1, <2>3 DEF OrderInv, Running
    <3>5. needed' \subseteq 1..j1
      BY <1>0, <3>4
    <3> QED BY <1>0, <3>1, <3>2, <3>3, <3>4, <3>5, GoOnOrder
  <2> QED BY <2>2, <2>3
<1>6. CASE MissPass
  BY <1>6 DEF MissPass, OrderInv, Running, hostVars, userVars
<1>7. CASE Tell
  <2>1. /\ pc = "tell" /\ told' = told \cup {j1} /\ GoOnAfter(j1)
        /\ UNCHANGED <<computed, needed>>
    BY <1>7 DEF Tell, userVars
  <2>2. 1..j1 \subseteq computed'
    BY <1>0, <2>1 DEF OrderInv, RangeInv, Running
  <2>3. told' \subseteq 1..j1
    BY <1>0, <2>1 DEF OrderInv, Running
  <2>4. needed' \subseteq told' /\ needed' \subseteq 1..j1
    BY <1>0, <2>1 DEF OrderInv, Running
  <2> QED BY <1>0, <2>1, <2>2, <2>3, <2>4, GoOnOrder
<1>8. CASE Cancel
  BY <1>8 DEF Cancel
<1>9. CASE UNCHANGED vars
  BY <1>9 DEF vars, OrderInv, Running
<1> QED
  BY <1>1, <1>2, <1>3, <1>4, <1>5, <1>6, <1>7, <1>8, <1>9 DEF Next, Evaluate

\* Every step of the scheduler is a step of the abstract evaluation, or none.
LEMMA ObservedStep ==
    ASSUME ~UserCancels
    PROVE  TypeOK /\ RangeInv /\ OrderInv /\ [Next]_vars => [Observed!Next]_(Observed!vars)
<1> SUFFICES ASSUME TypeOK, RangeInv, OrderInv, [Next]_vars
             PROVE  [Observed!Next]_(Observed!vars)
  OBVIOUS
<1>0. j0 \in Nat /\ j1 \in Nat /\ j0 <= j1 /\ j1 \in Node /\ 1 <= j0
  BY DEF TypeOK, Node
<1> USE DEF Observed!Next, Observed!vars, Observed!Node
<1>1. CASE Start
  BY <1>1 DEF Start, Observed!Begin
<1>2. CASE AskMoeIn
  BY <1>2 DEF AskMoeIn, userVars
<1>3. CASE Ask
  <2>1. pc = "ask" /\ UNCHANGED <<computed, told>> /\ j1 \notin computed
    BY <1>0, <1>3 DEF Ask, RangeInv
  <2>2. needed' = needed \cup {j1} \/ needed' = needed
    BY <1>3 DEF Ask
  <2>3. CASE needed' = needed \cup {j1}
    <3>1. Observed!Request(j1)
      BY <2>1, <2>3 DEF Observed!Request
    <3> QED BY <1>0, <3>1 DEF Node
  <2>4. CASE needed' = needed
    BY <2>1, <2>4
  <2> QED BY <2>2, <2>3, <2>4
<1>4. CASE RunNode
  <2>1. PICK n \in (j0..j1) \ computed : j0..(n - 1) \subseteq computed /\ computed' = computed \cup {n}
    BY <1>4 DEF RunNode
  <2>2. pc = "compute" /\ UNCHANGED <<needed, told>>
    BY <1>4 DEF RunNode, userVars
  <2>3. n \in Node /\ computed = 1..(n - 1) /\ needed \cap computed \subseteq told
    BY <2>1, <2>2, NextNode
  <2>4. Observed!Evaluate(n)
    BY <2>1, <2>2, <2>3 DEF Observed!Evaluate
  <2> QED BY <2>3, <2>4 DEF Node
<1>5. CASE ComputeFails
  BY <1>5 DEF ComputeFails, userVars
<1>6. CASE Synchronize
  BY <1>6 DEF Synchronize, userVars
<1>7. CASE MissPass
  BY <1>7 DEF MissPass, userVars
<1>8. CASE Tell
  <2>1. pc = "tell" /\ told' = told \cup {j1} /\ UNCHANGED <<computed, needed>>
    BY <1>8 DEF Tell, userVars
  <2>2. j1 \in needed
    BY <2>1 DEF OrderInv
  <2>3. j1 \notin told
    BY <1>0, <2>1 DEF OrderInv, Running
  <2>4. computed = 1..j1
    <3>1. /\ 1..(j0 - 1) \subseteq computed
          /\ j0..j1 \subseteq computed /\ computed \subseteq 1..j1
      BY <2>1 DEF OrderInv, RangeInv, Running
    <3>2. 1..j1 \subseteq (1..(j0 - 1)) \cup (j0..j1)
      BY <1>0
    <3> QED BY <3>1, <3>2
  <2>5. Observed!Observe(j1)
    BY <2>1, <2>2, <2>3, <2>4 DEF Observed!Observe
  <2> QED BY <1>0, <2>5 DEF Node
<1>9. CASE Cancel
  BY <1>9 DEF Cancel
<1>10. CASE UNCHANGED vars
  BY <1>10 DEF vars
<1> QED
  BY <1>1, <1>2, <1>3, <1>4, <1>5, <1>6, <1>7, <1>8, <1>9, <1>10 DEF Next, Evaluate

LEMMA OrderInvariant ==
    ASSUME ~UserCancels
    PROVE  Spec => [](TypeOK /\ RangeInv /\ OrderInv)
  BY TypeInit, TypeStep, RangeInit, RangeStep, OrderInit, OrderStep, PTL DEF Spec

\* With a callback that never cancels, the scheduler's split loop, ranges, wrapper
\* and failures implement evaluation in graph order with a stop at every needed node.
THEOREM ImplementsObserved ==
    ASSUME ~UserCancels
    PROVE  Spec => ObservedOrder
<1>1. Init => Observed!Init
  BY DEF Init, Observed!Init
<1>2. TypeOK /\ RangeInv /\ OrderInv /\ [Next]_vars => [Observed!Next]_(Observed!vars)
  BY ObservedStep
<1>3. Spec => [](TypeOK /\ RangeInv /\ OrderInv)
  BY OrderInvariant
<1> QED
  BY <1>1, <1>2, <1>3, PTL DEF Spec, ObservedOrder, Observed!Spec

-----------------------------------------------------------------------------
(* Router, miss pass, add *)

\* Nodes the callback has been asked about in this graph
AskedTo == IF pc = "ask" THEN j1 - 1 ELSE j1

\* While the executor is active: activations asked about are stashed, no top-k node
\* hides inside a range, and the layers behind the range have their correction.
LayerInv ==
    /\ Active /\ Running =>
         /\ \A n \in 1..AskedTo : Kind[n] = "moe_in" => stash[LayerOf[n]] = "this"
         /\ \A n \in j0..(j1 - 1) : Kind[n] # "topk"
         /\ pc # "ask" /\ Kind[j1] = "topk" => need
         /\ \A n \in 1..(j0 - 1) : Kind[n] = "topk" => corr[LayerOf[n]] = "this"
         /\ pc = "tell" /\ Kind[j1] = "topk" => corr[LayerOf[j1]] = "this"
    /\ pc = "pass" => Active /\ Kind[j1] = "topk"
    /\ AddFollowsPass

LEMMA LayerInit == Init => LayerInv
  BY DEF Init, LayerInv, Running, AddFollowsPass

\* Going on after a node up to which the layers are in order.
LEMMA GoOnLayers ==
    ASSUME j1 \in Node, GoOnAfter(j1), AddFollowsPass',
           Active' => /\ \A n \in 1..j1 : Kind[n] = "moe_in" => stash'[LayerOf[n]] = "this"
                      /\ \A n \in 1..j1 : Kind[n] = "topk" => corr'[LayerOf[n]] = "this"
    PROVE  LayerInv'
<1>1. CASE j1 = NNode
  BY <1>1 DEF GoOnAfter, LayerInv, Running
<1>2. CASE j1 # NNode
  <2>1. pc' = "ask" /\ j0' = j1 + 1 /\ j1' = j1 + 1 /\ j1 \in Nat
    BY <1>2 DEF GoOnAfter, Node
  <2>2. AskedTo' = j1 /\ j0' - 1 = j1 /\ j0'..(j1' - 1) = {}
    BY <2>1 DEF AskedTo
  <2> QED BY <2>1, <2>2 DEF LayerInv, Running
<1> QED BY <1>1, <1>2

LEMMA LayerStep ==
    ASSUME ~UserCancels
    PROVE  TypeOK /\ LayerInv /\ [Next]_vars => LayerInv'
<1> SUFFICES ASSUME TypeOK, LayerInv, [Next]_vars PROVE LayerInv'
  OBVIOUS
<1>0. j0 \in Nat /\ j1 \in Nat /\ j0 <= j1 /\ j1 \in Node /\ 1 <= j0
  BY DEF TypeOK, Node
<1>1. CASE Start
  <2>1. /\ pc' = "ask" /\ j0' = 1 /\ j1' = 1 /\ used' = [l \in Layer |-> "none"]
    BY <1>1 DEF Start
  <2> QED BY <2>1 DEF LayerInv, Running, AskedTo, AddFollowsPass
<1>2. CASE AskMoeIn \/ Ask
  <2>1. pc = "ask" /\ UNCHANGED <<j0, corr, used, broken>> /\ Widen
    BY <1>2 DEF AskMoeIn, Ask
  <2>2. /\ Active => /\ Kind[j1] = "moe_in" => stash'[LayerOf[j1]] = "this"
                     /\ Kind[j1] = "topk" => need'
        /\ \A l \in Layer : stash[l] = "this" => stash'[l] = "this"
    <3>1. LayerOf[j1] \in Layer
      BY <1>0 DEF Layer
    <3>2. CASE AskMoeIn
      BY <3>1, <3>2 DEF AskMoeIn, TypeOK
    <3>3. CASE Ask
      BY <3>3 DEF Ask, StopsHere, IsStop
    <3> QED BY <1>2, <3>2, <3>3
  <2>3. AddFollowsPass'
    BY <2>1 DEF LayerInv, AddFollowsPass
  <2>4. ASSUME Active'
        PROVE  /\ \A n \in 1..j1 : Kind[n] = "moe_in" => stash'[LayerOf[n]] = "this"
               /\ \A n \in 1..(j0' - 1) : Kind[n] = "topk" => corr'[LayerOf[n]] = "this"
    <3>1. Active /\ Running /\ AskedTo = j1 - 1
      BY <2>1, <2>4 DEF Active, Running, AskedTo
    <3>2. ASSUME NEW n \in 1..j1, Kind[n] = "moe_in"
          PROVE  stash'[LayerOf[n]] = "this"
      <4>1. n \in Node /\ LayerOf[n] \in Layer
        BY <1>0, <3>2, GraphAssumption DEF Node, Layer
      <4>2. CASE n = j1
        BY <2>2, <3>1, <3>2, <4>2
      <4>3. CASE n # j1
        <5>1. n \in 1..(j1 - 1)
          BY <1>0, <4>3
        <5> QED BY <2>2, <3>1, <3>2, <4>1, <5>1 DEF LayerInv
      <4> QED BY <4>2, <4>3
    <3> QED BY <2>1, <3>1, <3>2 DEF LayerInv
  <2>5. CASE ~need' /\ j1 < splits[j1]
    <3>1. pc' = "ask" /\ j1' = j1 + 1 /\ AskedTo' = j1
      BY <1>0, <2>1, <2>5 DEF Widen, AskedTo
    <3>2. ASSUME Active', NEW n \in j0'..(j1' - 1)
          PROVE  Kind[n] # "topk"
      <4>1. Active /\ Running
        BY <2>1, <3>2 DEF Active, Running
      <4>2. CASE n = j1
        BY <2>2, <2>5, <4>1, <4>2
      <4>3. CASE n # j1
        <5>1. n \in j0..(j1 - 1)
          BY <1>0, <2>1, <3>1, <4>3
        <5> QED BY <4>1, <5>1 DEF LayerInv
      <4> QED BY <4>2, <4>3
    <3> QED BY <2>3, <2>4, <3>1, <3>2 DEF LayerInv
  <2>6. CASE ~(~need' /\ j1 < splits[j1])
    <3>1. pc' = "compute" /\ j1' = j1 /\ AskedTo' = j1
      BY <2>1, <2>6 DEF Widen, AskedTo
    <3>2. Active' => \A n \in j0'..(j1' - 1) : Kind[n] # "topk"
      BY <2>1, <3>1 DEF LayerInv, Active, Running
    <3>3. Active' /\ Kind[j1'] = "topk" => need'
      BY <2>1, <2>2, <3>1 DEF Active
    <3> QED BY <2>3, <2>4, <3>1, <3>2, <3>3 DEF LayerInv
  <2> QED BY <2>5, <2>6
<1>3. CASE RunNode
  <2>1. PICK n \in (j0..j1) \ computed :
              used' = IF Kind[n] = "add" THEN [used EXCEPT ![LayerOf[n]] = corr[LayerOf[n]]]
                                         ELSE used
    BY <1>3 DEF RunNode
  <2>2. pc = "compute" /\ UNCHANGED <<pc, j0, j1, need, stash, corr, broken>>
    BY <1>3 DEF RunNode, hostVars
  <2>3. AddFollowsPass'
    <3>1. CASE ~Active
      BY <2>2, <3>1 DEF Active, AddFollowsPass
    <3>2. CASE Kind[n] # "add"
      BY <2>1, <2>2, <3>2 DEF LayerInv, AddFollowsPass
    <3>3. CASE Active /\ Kind[n] = "add"
      <4>1. n \in Node
        BY <1>0, GraphAssumption DEF Node
      <4>2. PICK m \in 1..(n - 1) : Kind[m] = "topk" /\ LayerOf[m] = LayerOf[n]
        BY <3>3, <4>1, LayerAssumption
      <4>3. m \in j0..(j1 - 1) \/ m \in 1..(j0 - 1)
        BY <1>0, <4>1 DEF Node
      <4>4. corr[LayerOf[n]] = "this"
        BY <2>2, <3>3, <4>2, <4>3 DEF LayerInv, Running
      <4> QED BY <2>1, <2>2, <3>3, <4>4 DEF LayerInv, AddFollowsPass, TypeOK
    <3> QED BY <3>1, <3>2, <3>3
  <2> QED BY <2>2, <2>3 DEF LayerInv, Active, Running, AskedTo
<1>4. CASE ComputeFails
  BY <1>4 DEF ComputeFails, LayerInv, Running, AddFollowsPass
<1>5. CASE Synchronize
  <2>1. pc = "compute" /\ UNCHANGED <<need, stash, corr, used, broken>> /\ AskedTo = j1
    BY <1>5 DEF Synchronize, AskedTo
  <2>2. AddFollowsPass'
    BY <2>1 DEF LayerInv, AddFollowsPass
  <2>3. CASE need
    <3>1. pc' = (IF IsStop(j1) THEN "pass" ELSE "tell") /\ UNCHANGED <<j0, j1>>
      BY <1>5, <2>3 DEF Synchronize
    <3>2. AskedTo' = j1
      BY <3>1 DEF AskedTo
    <3> QED BY <2>1, <2>2, <2>3, <3>1, <3>2 DEF LayerInv, Active, Running, IsStop
  <2>4. CASE ~need
    <3>1. GoOnAfter(j1)
      BY <1>5, <2>4 DEF Synchronize
    <3>2. ASSUME Active', NEW n \in 1..j1, Kind[n] = "topk"
          PROVE  corr'[LayerOf[n]] = "this"
      <4>1. Active /\ Running
        BY <2>1, <3>2 DEF Active, Running
      <4>2. n # j1 /\ n \notin j0..(j1 - 1)
        BY <2>1, <2>4, <3>2, <4>1 DEF LayerInv
      <4>3. n \in 1..(j0 - 1)
        BY <1>0, <4>2
      <4> QED BY <2>1, <3>2, <4>1, <4>3 DEF LayerInv
    <3>3. Active' => \A n \in 1..j1 : Kind[n] = "moe_in" => stash'[LayerOf[n]] = "this"
      BY <2>1 DEF LayerInv, Active, Running
    <3> QED BY <1>0, <2>2, <3>1, <3>2, <3>3, GoOnLayers
  <2> QED BY <2>3, <2>4
<1>6. CASE MissPass
  <2>1. pc = "pass" /\ pc' = "tell" /\ UNCHANGED <<j0, j1, need, stash, used>>
    BY <1>6 DEF MissPass, hostVars
  <2>2. CASE broken'
    BY <2>1, <2>2 DEF LayerInv, Active, AddFollowsPass
  <2>3. CASE ~broken'
    <3>1. corr' = [corr EXCEPT ![LayerOf[j1]] = "this"] /\ UNCHANGED broken
      BY <1>6, <2>3 DEF MissPass
    <3>2. LayerOf[j1] \in Layer
      BY <1>0 DEF Layer
    <3>3. corr'[LayerOf[j1]] = "this" /\ \A l \in Layer : corr[l] = "this" => corr'[l] = "this"
      BY <3>1, <3>2 DEF TypeOK
    <3>4. AddFollowsPass'
      BY <2>1, <3>1 DEF LayerInv, AddFollowsPass
    <3>5. Active /\ Running /\ AskedTo = j1 /\ AskedTo' = j1
      BY <2>1, <2>3, <3>1 DEF Active, Running, AskedTo
    <3>6. \A n \in 1..(j0' - 1) : Kind[n] = "topk" => corr'[LayerOf[n]] = "this"
      <4>1. ASSUME NEW n \in 1..(j0 - 1), Kind[n] = "topk"
            PROVE  corr'[LayerOf[n]] = "this"
        <5>1. n \in Node /\ LayerOf[n] \in Layer
          BY <1>0, GraphAssumption DEF Node, Layer
        <5> QED BY <3>3, <3>5, <4>1, <5>1 DEF LayerInv
      <4> QED BY <2>1, <4>1
    <3> QED BY <2>1, <3>1, <3>3, <3>4, <3>5, <3>6 DEF LayerInv
  <2> QED BY <2>2, <2>3
<1>7. CASE Tell
  <2>1. /\ pc = "tell" /\ UNCHANGED <<stash, corr, used, broken>> /\ AskedTo = j1
        /\ GoOnAfter(j1)
    BY <1>7 DEF Tell, AskedTo
  <2>2. AddFollowsPass'
    BY <2>1 DEF LayerInv, AddFollowsPass
  <2>3. ASSUME Active', NEW n \in 1..j1, Kind[n] = "topk"
        PROVE  corr'[LayerOf[n]] = "this"
    <3>1. Active /\ Running
      BY <2>1, <2>3 DEF Active, Running
    <3>2. n = j1 \/ n \in 1..(j0 - 1)
      <4>1. n \notin j0..(j1 - 1)
        BY <2>3, <3>1 DEF LayerInv
      <4> QED BY <1>0, <4>1
    <3> QED BY <2>1, <2>3, <3>1, <3>2 DEF LayerInv
  <2>4. Active' => \A n \in 1..j1 : Kind[n] = "moe_in" => stash'[LayerOf[n]] = "this"
    BY <2>1 DEF LayerInv, Active, Running
  <2> QED BY <1>0, <2>1, <2>2, <2>3, <2>4, GoOnLayers
<1>8. CASE Cancel
  BY <1>8 DEF Cancel
<1>9. CASE UNCHANGED vars
  BY <1>9 DEF vars, LayerInv, Running, Active, AskedTo, AddFollowsPass
<1> QED
  BY <1>1, <1>2, <1>3, <1>4, <1>5, <1>6, <1>7, <1>8, <1>9 DEF Next, Evaluate

\* What the miss pass finds.
LEMMA PassFinds == TypeOK /\ RangeInv /\ OrderInv /\ LayerInv => PassInputsReady
<1> SUFFICES ASSUME TypeOK, RangeInv, OrderInv, LayerInv, pc = "pass"
             PROVE  computed = 1..j1 /\ stash[LayerOf[j1]] = "this"
  BY DEF PassInputsReady
<1>0. j0 \in Nat /\ j1 \in Nat /\ j0 <= j1 /\ j1 \in Node /\ 1 <= j0
  BY DEF TypeOK, Node
<1>1. computed = 1..j1
  <2>1. 1..(j0 - 1) \subseteq computed /\ j0..j1 \subseteq computed /\ computed \subseteq 1..j1
    BY DEF OrderInv, RangeInv, Running
  <2>2. 1..j1 \subseteq (1..(j0 - 1)) \cup (j0..j1)
    BY <1>0
  <2> QED BY <2>1, <2>2
<1>2. Active /\ Kind[j1] = "topk" /\ Running /\ AskedTo = j1
  BY DEF LayerInv, Running, AskedTo
<1>3. PICK m \in 1..(j1 - 1) : Kind[m] = "moe_in" /\ LayerOf[m] = LayerOf[j1]
  BY <1>0, <1>2, LayerAssumption
<1>4. m \in 1..j1
  BY <1>0
<1> QED BY <1>1, <1>2, <1>3, <1>4 DEF LayerInv

LEMMA LayerInvariant ==
    ASSUME ~UserCancels
    PROVE  Spec => [](TypeOK /\ LayerInv)
  BY TypeInit, TypeStep, LayerInit, LayerStep, PTL DEF Spec

\* Whenever a miss pass runs, its ids, probabilities and activation have been computed
\* in this graph and nothing behind the router has.
THEOREM PassIsReady ==
    ASSUME ~UserCancels
    PROVE  Spec => []PassInputsReady
<1>1. Spec => [](TypeOK /\ RangeInv /\ OrderInv)
  BY OrderInvariant
<1>2. Spec => [](TypeOK /\ LayerInv)
  BY LayerInvariant
<1> QED
  BY <1>1, <1>2, PassFinds, PTL

\* As long as the executor has not given up, no add reads a correction of another
\* graph: the router's stop comes first, wherever the splits are.
THEOREM AddReadsThisPass ==
    ASSUME ~UserCancels
    PROVE  Spec => []AddFollowsPass
<1>1. Spec => [](TypeOK /\ LayerInv)
  BY LayerInvariant
<1>2. LayerInv => AddFollowsPass
  BY DEF LayerInv
<1> QED
  BY <1>1, <1>2, PTL
-----------------------------------------------------------------------------
(* What the user's callback gets *)

\* Wishes are passed on, and at the end of a graph they have been granted.
EndInv ==
    /\ wants \subseteq needed
    /\ pc = "idle" => needed \subseteq told /\ computed \in {{}, Node}

LEMMA EndInit == Init => EndInv
  BY DEF Init, EndInv

\* The graph may end after a node up to which everything has been done.
LEMMA GoOnEnd ==
    ASSUME GoOnAfter(j1), wants' \subseteq needed', needed' \subseteq told',
           1..j1 \subseteq computed', computed' \subseteq Node
    PROVE  EndInv'
<1>1. CASE j1 = NNode
  BY <1>1 DEF EndInv, Node
<1>2. CASE j1 # NNode
  BY <1>2 DEF GoOnAfter, EndInv
<1> QED BY <1>1, <1>2

LEMMA EndStep ==
    ASSUME ~UserCancels
    PROVE  TypeOK /\ RangeInv /\ OrderInv /\ EndInv /\ [Next]_vars => EndInv'
<1> SUFFICES ASSUME TypeOK, RangeInv, OrderInv, EndInv, [Next]_vars PROVE EndInv'
  OBVIOUS
<1>0. j0 \in Nat /\ j1 \in Nat /\ j0 <= j1 /\ j1 \in Node /\ 1 <= j0 /\ computed \subseteq Node
  BY DEF TypeOK, Node
<1>1. CASE Start
  BY <1>1 DEF Start, EndInv
<1>2. CASE AskMoeIn
  BY <1>2 DEF AskMoeIn, Widen, EndInv, userVars
<1>3. CASE Ask
  <2>1. PICK userNeed \in BOOLEAN :
              /\ wants' = IF userNeed THEN wants \cup {j1} ELSE wants
              /\ need' = StopsHere(j1, userNeed)
    BY <1>3 DEF Ask
  <2>2. needed' = IF need' THEN needed \cup {j1} ELSE needed
    BY <1>3 DEF Ask
  <2>3. wants' \subseteq needed'
    BY <2>1, <2>2 DEF StopsHere, EndInv
  <2>4. pc' # "idle"
    BY <1>3 DEF Ask, Widen
  <2> QED BY <2>3, <2>4 DEF EndInv
<1>4. CASE RunNode
  BY <1>4 DEF RunNode, EndInv, userVars
<1>5. CASE ComputeFails
  BY <1>5 DEF ComputeFails, EndInv, userVars
<1>6. CASE Synchronize
  <2>1. pc = "compute" /\ j0..j1 \subseteq computed /\ UNCHANGED <<computed, wants, needed, told>>
    BY <1>6 DEF Synchronize, userVars
  <2>2. CASE need
    BY <1>6, <2>1, <2>2 DEF Synchronize, EndInv
  <2>3. CASE ~need
    <3>1. GoOnAfter(j1)
      BY <1>6, <2>3 DEF Synchronize
    <3>2. 1..j1 \subseteq computed'
      BY <1>0, <2>1 DEF OrderInv, Running
    <3>3. needed' \subseteq told'
      BY <2>1, <2>3 DEF OrderInv, Running
    <3> QED BY <1>0, <2>1, <3>1, <3>2, <3>3, GoOnEnd DEF EndInv
  <2> QED BY <2>2, <2>3
<1>7. CASE MissPass
  BY <1>7 DEF MissPass, EndInv, userVars
<1>8. CASE Tell
  <2>1. /\ pc = "tell" /\ told' = told \cup {j1} /\ GoOnAfter(j1)
        /\ UNCHANGED <<computed, wants, needed>>
    BY <1>8 DEF Tell, userVars
  <2>2. 1..j1 \subseteq computed'
    BY <1>0, <2>1 DEF OrderInv, RangeInv, Running
  <2>3. needed' \subseteq told'
    BY <1>0, <2>1 DEF OrderInv, Running
  <2> QED BY <1>0, <2>1, <2>2, <2>3, GoOnEnd DEF EndInv
<1>9. CASE Cancel
  BY <1>9 DEF Cancel
<1>10. CASE UNCHANGED vars
  BY <1>10 DEF vars, EndInv
<1> QED
  BY <1>1, <1>2, <1>3, <1>4, <1>5, <1>6, <1>7, <1>8, <1>9, <1>10 DEF Next, Evaluate

\* When a graph has been evaluated to its end, all of it has been computed and the user's
\* callback was given every node it wanted.
THEOREM WishesGranted ==
    ASSUME ~UserCancels
    PROVE  Spec => []TellsWhatWasWanted
<1>1. Spec => [](TypeOK /\ RangeInv /\ OrderInv)
  BY OrderInvariant
<1>2. EndInv => TellsWhatWasWanted
  BY DEF EndInv, TellsWhatWasWanted
<1> QED
  BY <1>1, <1>2, EndInit, EndStep, PTL DEF Spec

\* What has been asked in the range, and why its last node was needed.
ChainInv ==
    /\ ChainedButOwnNodes
    /\ Running => \A n \in j0..AskedTo : n \in asked \/ Kind[n] = "moe_in"
    /\ pc \in {"compute", "pass", "tell"} /\ need => j1 \in wants \/ Kind[j1] = "topk"
    /\ pc \in {"pass", "tell"} => need

LEMMA ChainInit == Init => ChainInv
  BY DEF Init, ChainInv, ChainedButOwnNodes, Running

\* Going on after any node keeps ChainInv: the new range has not been asked about.
LEMMA GoOnChain ==
    ASSUME NEW n \in Node, GoOnAfter(n), ChainedButOwnNodes'
    PROVE  ChainInv'
<1>1. CASE n = NNode
  BY <1>1 DEF GoOnAfter, ChainInv, Running
<1>2. CASE n # NNode
  <2>1. pc' = "ask" /\ j0' = n + 1 /\ j1' = n + 1 /\ n \in Nat
    BY <1>2 DEF GoOnAfter, Node
  <2>2. j0'..AskedTo' = {}
    BY <2>1 DEF AskedTo
  <2> QED BY <2>1, <2>2 DEF ChainInv
<1> QED BY <1>1, <1>2

LEMMA ChainStep == TypeOK /\ ChainInv /\ [Next]_vars => ChainInv'
<1> SUFFICES ASSUME TypeOK, ChainInv, [Next]_vars PROVE ChainInv'
  OBVIOUS
<1>0. j0 \in Nat /\ j1 \in Nat /\ j0 <= j1 /\ j1 \in Node
  BY DEF TypeOK, Node
<1>1. CASE Start
  <2>1. pc' = "ask" /\ j0' = 1 /\ j1' = 1 /\ computed' = {} /\ told' = {}
    BY <1>1 DEF Start
  <2> QED BY <2>1 DEF ChainInv, ChainedButOwnNodes, AskedTo
<1>2. CASE AskMoeIn \/ Ask
  <2>1. pc = "ask" /\ UNCHANGED <<j0, computed, told>> /\ Widen
    BY <1>2 DEF AskMoeIn, Ask
  <2>2. /\ asked \subseteq asked' /\ (j1 \in asked' \/ Kind[j1] = "moe_in")
        /\ wants \subseteq wants' /\ (need' => j1 \in wants' \/ Kind[j1] = "topk")
    BY <1>2 DEF AskMoeIn, Ask, StopsHere, IsStop, userVars
  <2>3. ChainedButOwnNodes'
    BY <2>1, <2>2 DEF ChainInv, ChainedButOwnNodes
  <2>4. \A n \in j0..j1 : n \in asked' \/ Kind[n] = "moe_in"
    <3>1. ASSUME NEW n \in j0..j1
          PROVE  n = j1 \/ n \in j0..(j1 - 1)
      BY <1>0
    <3> QED BY <2>1, <2>2, <3>1 DEF ChainInv, Running, AskedTo
  <2>5. AskedTo' = j1
    BY <1>0, <2>1 DEF Widen, AskedTo
  <2>6. pc' \in {"ask", "compute"} /\ (pc' = "compute" => j1' = j1)
    BY <2>1 DEF Widen
  <2> QED BY <2>1, <2>2, <2>3, <2>4, <2>5, <2>6 DEF ChainInv
<1>3. CASE RunNode
  <2>1. /\ pc = "compute" /\ UNCHANGED <<pc, j0, j1, need, asked, wants, told>>
        /\ \E n \in j0..j1 : computed' = computed \cup {n}
    BY <1>3 DEF RunNode, hostVars, userVars
  <2>2. AskedTo' = AskedTo /\ AskedTo = j1
    BY <2>1 DEF AskedTo
  <2>3. ChainedButOwnNodes'
    BY <2>1, <2>2 DEF ChainInv, ChainedButOwnNodes, Running
  <2> QED BY <2>1, <2>2, <2>3 DEF ChainInv, Running
<1>4. CASE ComputeFails
  BY <1>4 DEF ComputeFails, ChainInv, ChainedButOwnNodes, Running, userVars
<1>5. CASE Synchronize
  <2>1. pc = "compute" /\ UNCHANGED <<need, computed, asked, wants, told>>
    BY <1>5 DEF Synchronize, userVars
  <2>2. ChainedButOwnNodes'
    BY <2>1 DEF ChainInv, ChainedButOwnNodes
  <2>3. CASE need
    <3>1. pc' \in {"pass", "tell"} /\ UNCHANGED <<j0, j1>>
      BY <1>5, <2>3 DEF Synchronize
    <3>2. AskedTo' = AskedTo
      BY <2>1, <3>1 DEF AskedTo
    <3> QED BY <2>1, <2>2, <2>3, <3>1, <3>2 DEF ChainInv, Running
  <2>4. CASE ~need
    BY <1>0, <1>5, <2>2, <2>4, GoOnChain DEF Synchronize
  <2> QED BY <2>3, <2>4
<1>6. CASE MissPass
  <2>1. pc = "pass" /\ pc' = "tell" /\ UNCHANGED <<j0, j1, need, computed, asked, wants, told>>
    BY <1>6 DEF MissPass, hostVars, userVars
  <2>2. AskedTo' = AskedTo
    BY <2>1 DEF AskedTo
  <2> QED BY <2>1, <2>2 DEF ChainInv, ChainedButOwnNodes, Running
<1>7. CASE Tell \/ Cancel
  <2>1. pc = "tell" /\ told' = told \cup {j1} /\ UNCHANGED <<computed, asked, wants>>
    BY <1>7 DEF Tell, Cancel, userVars
  <2>2. ChainedButOwnNodes'
    BY <2>1 DEF ChainInv, ChainedButOwnNodes
  <2>3. splits[j1] \in Node
    BY <1>0, GraphAssumption DEF TypeOK
  <2>4. GoOnAfter(j1) \/ GoOnAfter(splits[j1])
    BY <1>7 DEF Tell, Cancel
  <2> QED BY <1>0, <2>2, <2>3, <2>4, GoOnChain
<1>8. CASE UNCHANGED vars
  BY <1>8 DEF vars, ChainInv, ChainedButOwnNodes, Running, AskedTo
<1> QED
  BY <1>1, <1>2, <1>3, <1>4, <1>5, <1>6, <1>7, <1>8 DEF Next, Evaluate

\* Whatever the user's callback answers, cancelling included: it is asked about every node
\* but the activations before it is computed, and given nothing but what it wanted and
\* the routers' choices.
THEOREM Chained == Spec => []ChainedButOwnNodes
<1>1. ChainInv => ChainedButOwnNodes
  BY DEF ChainInv
<1> QED
  BY <1>1, TypeInit, TypeStep, ChainInit, ChainStep, PTL DEF Spec
=============================================================================
