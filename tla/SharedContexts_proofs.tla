------------------------ MODULE SharedContexts_proofs ------------------------
(***************************************************************************)
(* Proofs about SharedContexts, for any number of contexts and layers.     *)
(***************************************************************************)
EXTENDS SharedContexts, TLAPS

\* What each step of a context comes to, for the proofs' case splits.
LEMMA Steps ==
    ASSUME [Next]_vars
    PROVE  \/ UNCHANGED vars
           \/ \E c \in Ctx : Decode(c) \/ Recreate(c)
BY DEF Next

-----------------------------------------------------------------------------
(* Types *)

LEMMA RowTypes ==
    /\ ZeroRow \in CorrRow
    /\ \A c \in Ctx, a \in Ctx \cup {Nobody} : MissesOf(c, a) \in CorrRow
    /\ \A r \in CorrRow : \A c \in Ctx : Aged(r, c) \in CorrRow
BY DEF ZeroRow, MissesOf, CorrRow, Aged

LEMMA TypeInit == Init => TypeOK
<1> SUFFICES ASSUME Init
             PROVE  TypeOK
  OBVIOUS
<1> USE ContextAssumption DEF Init, Layer
<1>1. /\ il \in [Ctx -> Layer]
      /\ told \in [Ctx -> Ctx \cup {Nobody}]
      /\ read \in [Ctx -> CorrRow]
      /\ corr \in [Layer -> CorrRow]
  BY RowTypes DEF CallbackOf
<1>2. /\ pc \in [Ctx -> {"idle", "route", "topk", "add", "added"}]
      /\ graph \in [Ctx -> {"none", "hybrid", "plain"}]
      /\ drew \in [Ctx -> {"hits", "misses"}]
      /\ corr_dirty \in [Layer -> BOOLEAN]
      /\ moe_in_stash \in [Layer -> Ctx \cup {Nobody}]
      /\ user_cb \in Ctx \cup {Nobody}
      /\ newer \in [Ctx -> SUBSET Ctx]
      /\ broken \in BOOLEAN
      /\ \A c \in Ctx : pc[c] = "idle"
  OBVIOUS
<1> QED
  BY <1>1, <1>2 DEF TypeOK

\* What g is told of the user's callback, of any context's, is one of theirs or none.
LEMMA CallbackTypes ==
    ASSUME TypeOK, NEW c \in Ctx, InstallCallback(c) \/ UNCHANGED callbackVars
    PROVE  user_cb' \in Ctx \cup {Nobody} /\ newer' \in [Ctx -> SUBSET Ctx]
<1>1. CASE InstallCallback(c)
  <2>1. CASE Active
    <3>1. user_cb' = CallbackOf(c) /\ newer' = [d \in Ctx |-> IF d = c THEN {} ELSE newer[d] \cup {c}]
      BY <1>1, <2>1 DEF InstallCallback, Outdate
    <3> QED
      BY <3>1 DEF CallbackOf, TypeOK
  <2>2. CASE ~Active
    BY <1>1, <2>2 DEF InstallCallback, callbackVars, TypeOK
  <2> QED
    BY <2>1, <2>2
<1>2. CASE UNCHANGED callbackVars
  BY <1>2 DEF callbackVars, TypeOK
<1> QED
  BY <1>1, <1>2

LEMMA TypeStep ==
    ASSUME TypeOK, [Next]_vars
    PROVE  TypeOK'
<1> USE ContextAssumption DEF TypeOK, Layer, callbackVars
<1>1. CASE UNCHANGED vars
  BY <1>1 DEF vars
<1>2. ASSUME NEW c \in Ctx, ProcessUbatch(c)
      PROVE  TypeOK'
  <2>1. corr' \in [Layer -> CorrRow]
    BY <1>2, RowTypes DEF ProcessUbatch
  <2>2. /\ graph' \in [Ctx -> {"none", "hybrid", "plain"}]
        /\ moe_in_stash' \in [Layer -> Ctx \cup {Nobody}]
    BY ZenonT(40), <1>2 DEF ProcessUbatch, ReuseGraph, BuildGraph, ForgetTensors
  <2>5. user_cb' \in Ctx \cup {Nobody} /\ newer' \in [Ctx -> SUBSET Ctx]
    <3>1. InstallCallback(c) \/ UNCHANGED callbackVars
      BY <1>2 DEF ProcessUbatch, ReuseGraph, BuildGraph
    <3> QED
      BY <3>1, CallbackTypes
  <2>3. /\ pc' \in [Ctx -> {"idle", "route", "topk", "add", "added"}]
        /\ il' \in [Ctx -> Layer]
        /\ UNCHANGED <<drew, read, told, corr_dirty, broken>>
    BY <1>2 DEF ProcessUbatch
  <2>4. Serialized => \A a, b \in Ctx : pc'[a] # "idle" /\ pc'[b] # "idle" => a = b
    BY <1>2 DEF ProcessUbatch, MayDecode
  <2> QED
    BY <2>1, <2>2, <2>3, <2>4, <2>5
<1>3. ASSUME NEW c \in Ctx, BuildFails(c) \/ Recreate(c)
      PROVE  TypeOK'
  <2>1. InstallCallback(c) \/ UNCHANGED callbackVars
    BY <1>3 DEF BuildFails, Recreate
  <2>2. user_cb' \in Ctx \cup {Nobody} /\ newer' \in [Ctx -> SUBSET Ctx]
    BY <2>1, CallbackTypes
  <2>3. /\ graph' \in [Ctx -> {"none", "hybrid", "plain"}]
        /\ moe_in_stash' \in [Layer -> Ctx \cup {Nobody}]
        /\ UNCHANGED <<pc, il, drew, read, told, corr, corr_dirty, broken>>
    BY ZenonT(40), <1>3 DEF BuildFails, Recreate, ForgetTensors
  <2> QED
    BY <2>2, <2>3
<1>4. ASSUME NEW c \in Ctx, Route(c)
      PROVE  TypeOK'
  BY <1>4 DEF Route
<1>5. ASSUME NEW c \in Ctx, Tell(c), pc[c] = "topk"
      PROVE  /\ told' \in [Ctx -> Ctx \cup {Nobody}]
             /\ pc' \in [Ctx -> {"idle", "route", "topk", "add", "added"}]
             /\ Serialized => \A a, b \in Ctx : pc'[a] # "idle" /\ pc'[b] # "idle" => a = b
  BY <1>5 DEF Tell, CallbackOf
<1>6. ASSUME NEW c \in Ctx, MissPass(c)
      PROVE  TypeOK'
  <2>1. il[c] \in Layer /\ moe_in_stash[il[c]] \in Ctx \cup {Nobody}
    OBVIOUS
  <2>2. corr' \in [Layer -> CorrRow] /\ corr_dirty' \in [Layer -> BOOLEAN]
    <3>1. MissesOf(c, moe_in_stash[il[c]]) \in CorrRow /\ ZeroRow \in CorrRow
      BY <2>1, RowTypes
    <3>2. CASE drew[c] = "misses"
      <4>1. /\ corr' = [corr EXCEPT ![il[c]] = MissesOf(c, moe_in_stash[il[c]])]
            /\ corr_dirty' = [corr_dirty EXCEPT ![il[c]] = TRUE]
        BY <1>6, <3>2 DEF MissPass
      <4> QED
        BY <2>1, <3>1, <4>1
    <3>3. CASE drew[c] # "misses"
      BY ZenonT(40), <1>6, <3>1, <3>3 DEF MissPass
    <3> QED
      BY <3>2, <3>3
  <2> QED
    BY <1>5, <1>6, <2>2 DEF MissPass
<1>7. ASSUME NEW c \in Ctx, MissPassRefused(c) \/ NoPass(c)
      PROVE  TypeOK'
  BY <1>5, <1>7 DEF MissPassRefused, NoPass
<1>8. ASSUME NEW c \in Ctx, Add(c)
      PROVE  TypeOK'
  BY <1>8, RowTypes DEF Add
<1>9. ASSUME NEW c \in Ctx, NextLayer(c)
      PROVE  TypeOK'
  <2>1. pc' \in [Ctx -> {"idle", "route", "topk", "add", "added"}]
    <3>1. \E l \in {"route", "idle"} : pc' = [pc EXCEPT ![c] = l]
      BY <1>9 DEF NextLayer
    <3> QED
      BY <3>1
  <2>4. il' \in [Ctx -> Layer]
    <3>1. il[c] \in 1..NLayer /\ NLayer \in Nat /\ 1 \in 1..NLayer
      OBVIOUS
    <3>2. PICK l \in 1..NLayer : il' = [il EXCEPT ![c] = l]
      <4>1. il[c] < NLayer => il[c] + 1 \in 1..NLayer
        BY <3>1
      <4>2. \/ il[c] < NLayer /\ il' = [il EXCEPT ![c] = il[c] + 1]
            \/ il' = [il EXCEPT ![c] = 1]
        BY <1>9 DEF NextLayer
      <4> QED
        BY <3>1, <4>1, <4>2
    <3> QED
      BY <3>2
  <2>2. LeaveLayer(c)
    BY <1>9 DEF NextLayer
  <2>5. /\ read' \in [Ctx -> CorrRow]
        /\ drew' \in [Ctx -> {"hits", "misses"}]
        /\ told' \in [Ctx -> Ctx \cup {Nobody}]
    BY <2>2, RowTypes DEF LeaveLayer
  <2>3. Serialized => \A a, b \in Ctx : pc'[a] # "idle" /\ pc'[b] # "idle" => a = b
    <3>1. pc[c] # "idle" /\ \A a \in Ctx \ {c} : pc'[a] = pc[a]
      BY <1>9 DEF NextLayer
    <3> QED
      BY <3>1
  <2> QED
    BY <1>9, <2>1, <2>3, <2>4, <2>5 DEF NextLayer
<1>10. ASSUME NEW c \in Ctx, ComputeFails(c)
       PROVE  TypeOK'
  BY <1>10, RowTypes DEF ComputeFails, LeaveLayer
<1> QED
  BY <1>1, <1>2, <1>3, <1>4, <1>6, <1>7, <1>8, <1>9, <1>10, Steps DEF Decode

\* Types, and one decode at a time where the program sees to it, for any contexts and layers.
THEOREM TypeCorrect == Spec => []TypeOK
BY TypeInit, TypeStep, PTL DEF Spec

-----------------------------------------------------------------------------
(* Taking turns *)

\* Under way is one context at most, so what a context left in g at one of its nodes is there
\* at the next: its stash at the top-k node, its pass' result at the add.  A layer whose flag is
\* down has an empty row.
Busy(c) == pc[c] # "idle"

TurnInv ==
    /\ \A l \in Layer : ~corr_dirty[l] => corr[l] = ZeroRow
    /\ Active => \A c \in Ctx :
         /\ pc[c] = "topk" /\ graph[c] = "hybrid" => moe_in_stash[il[c]] = c
         /\ pc[c] = "add" /\ graph[c] = "hybrid" => corr[il[c]] = Expected(c)
         /\ pc[c] = "added" => read[c] = Expected(c)

LEMMA TurnInit == Init => TurnInv
BY DEF Init, TurnInv, Active

\* While one context is under way no other is, and none can start.
LEMMA OneAtATime ==
    ASSUME Serialized, TypeOK, NEW c \in Ctx, Busy(c)
    PROVE  \A d \in Ctx : d # c => ~Busy(d) /\ ~MayDecode(d)
BY DEF TypeOK, Busy, MayDecode

\* A step that starts a context, ends one or frees one leaves everybody idle or at "route".
LEMMA TurnBetween ==
    ASSUME Serialized, TypeOK, TurnInv, NEW c \in Ctx,
           ProcessUbatch(c) \/ BuildFails(c) \/ Recreate(c)
    PROVE  TurnInv'
<1>1. \A d \in Ctx : pc'[d] \in {"idle", "route"}
  <2>1. \A d \in Ctx : pc[d] = "idle"
    BY DEF ProcessUbatch, BuildFails, Recreate, MayDecode
  <2> QED
    BY <2>1 DEF ProcessUbatch, BuildFails, Recreate, TypeOK
<1>2. \A l \in Layer : ~corr_dirty'[l] => corr'[l] = ZeroRow
  <2>1. ZeroRow = Aged(ZeroRow, c)
    BY ContextAssumption DEF ZeroRow, Aged
  <2> QED
    BY <2>1 DEF TurnInv, ProcessUbatch, BuildFails, Recreate
<1> QED
  BY <1>1, <1>2 DEF TurnInv

LEMMA TurnStep ==
    ASSUME Serialized, TypeOK, TypeOK', TurnInv, [Next]_vars
    PROVE  TurnInv'
<1>1. CASE UNCHANGED vars
  BY <1>1 DEF vars, TurnInv, Active, Expected
<1>2. ASSUME NEW c \in Ctx, Busy(c), NEW d \in Ctx, d # c, UNCHANGED pc \/ \E p : pc' = [pc EXCEPT ![c] = p]
      PROVE  pc'[d] = "idle"
  BY <1>2, OneAtATime DEF TypeOK, Busy
<1>3. ASSUME NEW c \in Ctx, Route(c)
      PROVE  TurnInv'
  <2>1. /\ Busy(c) /\ pc' = [pc EXCEPT ![c] = "topk"]
        /\ UNCHANGED <<il, graph, corr, corr_dirty, broken>>
    BY <1>3 DEF Route, Busy
  <2>2. Active /\ graph[c] = "hybrid" => moe_in_stash'[il[c]] = c
    <3>1. il[c] \in Layer
      BY DEF TypeOK
    <3> QED
      BY <1>3, <3>1 DEF Route, TypeOK
  <2>3. pc'[c] = "topk" /\ \A d \in Ctx : d # c => pc'[d] = "idle"
    BY <1>2, <2>1 DEF TypeOK
  <2> QED
    BY <2>1, <2>2, <2>3 DEF TurnInv, Active
<1>4. ASSUME NEW c \in Ctx, MissPass(c)
      PROVE  TurnInv'
  <2> DEFINE l == il[c]
  <2>1. /\ Busy(c) /\ pc' = [pc EXCEPT ![c] = "add"]
        /\ UNCHANGED <<il, graph, drew, broken>>
        /\ graph[c] = "hybrid" /\ Active /\ pc[c] = "topk" /\ l \in Layer
    BY <1>4 DEF MissPass, Tell, Busy, TypeOK
  <2>2. pc'[c] = "add" /\ \A d \in Ctx : d # c => pc'[d] = "idle"
    BY <1>2, <2>1 DEF TypeOK
  <2>3. CASE drew[c] = "misses"
    <3>1. /\ corr' = [corr EXCEPT ![l] = MissesOf(c, moe_in_stash[l])]
          /\ corr_dirty' = [corr_dirty EXCEPT ![l] = TRUE]
      BY <1>4, <2>3 DEF MissPass
    <3>2. moe_in_stash[l] = c
      BY <2>1 DEF TurnInv
    <3>3. corr'[l] = Expected(c)'
      BY <2>1, <2>3, <3>1, <3>2 DEF Expected, TypeOK
    <3>4. \A k \in Layer : ~corr_dirty'[k] => corr'[k] = ZeroRow
      BY <2>1, <3>1 DEF TurnInv, TypeOK
    <3> QED
      BY <2>1, <2>2, <3>3, <3>4 DEF TurnInv, Active
  <2>4. CASE drew[c] # "misses"
    <3>1. /\ corr' = IF corr_dirty[l] THEN [corr EXCEPT ![l] = ZeroRow] ELSE corr
          /\ corr_dirty' = [corr_dirty EXCEPT ![l] = FALSE]
      BY <1>4, <2>4 DEF MissPass
    <3>2. corr'[l] = ZeroRow
      BY <2>1, <3>1 DEF TurnInv, TypeOK
    <3>3. Expected(c)' = ZeroRow
      BY <2>1, <2>4 DEF Expected, ZeroRow
    <3>4. \A k \in Layer : ~corr_dirty'[k] => corr'[k] = ZeroRow
      BY <2>1, <3>1, <3>2 DEF TurnInv, TypeOK
    <3> QED
      BY <2>1, <2>2, <3>2, <3>3, <3>4 DEF TurnInv, Active
  <2> QED
    BY <2>3, <2>4
<1>5. ASSUME NEW c \in Ctx, MissPassRefused(c)
      PROVE  TurnInv'
  BY <1>5 DEF MissPassRefused, TurnInv, Active
<1>6. ASSUME NEW c \in Ctx, NoPass(c)
      PROVE  TurnInv'
  <2>1. /\ Busy(c) /\ pc' = [pc EXCEPT ![c] = "add"]
        /\ UNCHANGED <<il, graph, drew, corr, corr_dirty, broken>>
        /\ graph[c] = "plain" \/ broken
    BY <1>6 DEF NoPass, Tell, Busy
  <2>2. pc'[c] = "add" /\ \A d \in Ctx : d # c => pc'[d] = "idle"
    BY <1>2, <2>1 DEF TypeOK
  <2> QED
    BY <2>1, <2>2 DEF TurnInv, Active
<1>7. ASSUME NEW c \in Ctx, Add(c)
      PROVE  TurnInv'
  <2>1. /\ Busy(c) /\ pc' = [pc EXCEPT ![c] = "added"] /\ pc[c] = "add"
        /\ UNCHANGED <<il, graph, drew, corr, corr_dirty, broken>>
        /\ read'[c] = IF graph[c] = "hybrid" THEN corr[il[c]] ELSE ZeroRow
    BY <1>7 DEF Add, Busy, TypeOK
  <2>2. pc'[c] = "added" /\ \A d \in Ctx : d # c => pc'[d] = "idle"
    BY <1>2, <2>1 DEF TypeOK
  <2>3. Expected(c)' = Expected(c)
    BY <2>1 DEF Expected
  <2>4. Active => read'[c] = Expected(c)
    BY <2>1 DEF TurnInv, Expected
  <2> QED
    BY <2>1, <2>2, <2>3, <2>4 DEF TurnInv, Active
<1>8. ASSUME NEW c \in Ctx, NextLayer(c) \/ ComputeFails(c)
      PROVE  TurnInv'
  <2>1. /\ Busy(c) /\ \E p \in {"route", "idle"} : pc' = [pc EXCEPT ![c] = p]
        /\ UNCHANGED <<corr, corr_dirty, broken>>
    BY <1>8 DEF NextLayer, ComputeFails, Busy
  <2>2. pc'[c] \in {"route", "idle"} /\ \A d \in Ctx : d # c => pc'[d] = "idle"
    BY <1>2, <2>1 DEF TypeOK
  <2> QED
    BY <2>1, <2>2 DEF TurnInv, Active
<1> QED
  BY <1>1, <1>3, <1>4, <1>5, <1>6, <1>7, <1>8, TurnBetween, Steps DEF Decode

\* The header's promise for several contexts that take turns, with or without graph reuse: each
\* adds its own misses of this micro-batch, whatever the others left behind.
THEOREM OwnMisses ==
    ASSUME Serialized
    PROVE  Spec => []OwnCorrection
<1>1. TypeOK /\ TypeOK' /\ TurnInv /\ [Next]_vars => TurnInv'
  BY TurnStep
<1>2. TurnInv => OwnCorrection
  BY DEF TurnInv, OwnCorrection, ExactFor
<1> QED
  BY <1>1, <1>2, TurnInit, TypeCorrect, PTL DEF Spec

\* Contexts that take turns, any number of them, with or without graph reuse, rebuilt or freed
\* between their micro-batches: a pass never reads an activation through a pointer that some
\* other graph left in g.
THEOREM OwnStash ==
    ASSUME Serialized
    PROVE  Spec => []OwnActivation
<1>1. TypeOK /\ TypeOK' /\ TurnInv /\ [Next]_vars => TurnInv'
  BY TurnStep
<1>2. TurnInv => OwnActivation
  BY DEF TurnInv, OwnActivation
<1> QED
  BY <1>1, <1>2, TurnInit, TypeCorrect, PTL DEF Spec

-----------------------------------------------------------------------------
(* The chained callback *)

\* The callbacks that are not older than context c's graph
Current(c) == {CallbackOf(d) : d \in {c} \cup newer[c]}

\* The callback in g is not older than any hybrid graph, run or kept.
CallbackInv ==
    /\ \A c \in Ctx : graph[c] = "hybrid" => user_cb \in Current(c)
    /\ \A c \in Ctx : pc[c] = "add" => told[c] \in Current(c)

\* A build, of a graph or of one that is not kept, ages the graphs of the other contexts.
LEMMA CallbackBuild ==
    ASSUME TypeOK, CallbackInv, NEW c \in Ctx, InstallCallback(c),
           \E h \in {"none", IF Active THEN "hybrid" ELSE "plain"} : graph' = [graph EXCEPT ![c] = h],
           pc'[c] # "add", \A d \in Ctx \ {c} : pc'[d] = pc[d], told' = told
    PROVE  CallbackInv'
<1>1. CASE Active
  <2>1. user_cb' = CallbackOf(c) /\ newer' = [d \in Ctx |-> IF d = c THEN {} ELSE newer[d] \cup {c}]
    BY <1>1 DEF InstallCallback, Outdate
  <2>2. CallbackOf(c) \in Current(c)'
    BY DEF Current
  <2>3. ASSUME NEW d \in Ctx, d # c
        PROVE  CallbackOf(c) \in Current(d)' /\ Current(d) \subseteq Current(d)'
    <3>1. newer'[d] = newer[d] \cup {c}
      BY <2>1, <2>3
    <3> QED
      BY <3>1 DEF Current
  <2> QED
    BY <2>1, <2>2, <2>3 DEF CallbackInv
<1>2. CASE ~Active
  <2>1. user_cb' = user_cb /\ newer' = newer
    BY <1>2 DEF InstallCallback, callbackVars
  <2>2. \A d \in Ctx : Current(d)' = Current(d)
    BY <2>1 DEF Current
  <2>3. graph'[c] # "hybrid" /\ \A d \in Ctx \ {c} : graph'[d] = graph[d]
    BY <1>2 DEF TypeOK
  <2> QED
    BY <2>1, <2>2, <2>3 DEF CallbackInv
<1> QED
  BY <1>1, <1>2

\* A step that hands over no node and installs no callback keeps who may hear what.
LEMMA CallbackKept ==
    ASSUME CallbackInv, UNCHANGED callbackVars,
           \A d \in Ctx : graph'[d] = "hybrid" => graph[d] = "hybrid",
           \A d \in Ctx : pc'[d] = "add" => pc[d] = "add" /\ told'[d] = told[d]
    PROVE  CallbackInv'
<1>1. \A d \in Ctx : Current(d)' = Current(d)
  BY DEF Current, callbackVars
<1> QED
  BY <1>1 DEF CallbackInv, callbackVars

LEMMA CallbackStep ==
    ASSUME TypeOK, CallbackInv, [Next]_vars
    PROVE  CallbackInv'
<1>1. CASE UNCHANGED vars
  BY <1>1, CallbackKept DEF vars
<1>2. ASSUME NEW c \in Ctx, ProcessUbatch(c)
      PROVE  CallbackInv'
  <2>1. pc' = [pc EXCEPT ![c] = "route"] /\ told' = told
    BY <1>2 DEF ProcessUbatch
  <2>2. CASE ReuseGraph(c)
    <3>1. UNCHANGED <<graph, callbackVars>> /\ \A d \in Ctx : pc'[d] = "add" => pc[d] = "add"
      BY <2>1, <2>2 DEF ReuseGraph, TypeOK
    <3> QED
      BY <2>1, <3>1, CallbackKept
  <2>3. CASE BuildGraph(c)
    <3>1. InstallCallback(c) /\ graph' = [graph EXCEPT ![c] = IF Active THEN "hybrid" ELSE "plain"]
      BY <2>3 DEF BuildGraph
    <3>2. pc'[c] # "add" /\ \A d \in Ctx \ {c} : pc'[d] = pc[d]
      BY <2>1 DEF TypeOK
    <3> QED
      BY <2>1, <3>1, <3>2, CallbackBuild
  <2> QED
    BY <1>2, <2>2, <2>3 DEF ProcessUbatch
<1>3. ASSUME NEW c \in Ctx, BuildFails(c)
      PROVE  CallbackInv'
  <2>1. /\ InstallCallback(c) /\ graph' = [graph EXCEPT ![c] = "none"]
        /\ pc' = pc /\ told' = told /\ pc[c] = "idle"
    BY <1>3 DEF BuildFails, MayDecode
  <2> QED
    BY <2>1, CallbackBuild
<1>4. ASSUME NEW c \in Ctx, Recreate(c)
      PROVE  CallbackInv'
  <2>1. UNCHANGED <<pc, told, callbackVars>> /\ graph' = [graph EXCEPT ![c] = "none"]
    BY <1>4 DEF Recreate
  <2>2. \A d \in Ctx : graph'[d] = "hybrid" => graph[d] = "hybrid"
    BY <2>1 DEF TypeOK
  <2> QED
    BY <2>1, <2>2, CallbackKept
<1>5. ASSUME NEW c \in Ctx, MissPass(c) \/ MissPassRefused(c) \/ NoPass(c)
      PROVE  CallbackInv'
  <2>1. /\ UNCHANGED <<graph, user_cb, newer>>
        /\ told' = [told EXCEPT ![c] = IF graph[c] = "hybrid" THEN user_cb ELSE CallbackOf(c)]
        /\ pc' = [pc EXCEPT ![c] = "add"]
    BY <1>5 DEF MissPass, MissPassRefused, NoPass, Tell, callbackVars
  <2>2. \A d \in Ctx : Current(d)' = Current(d)
    BY <2>1 DEF Current
  <2>3. CallbackOf(c) \in Current(c)
    BY DEF Current
  <2>4. told'[c] \in Current(c)
    BY <2>1, <2>3 DEF CallbackInv, TypeOK
  <2>5. \A d \in Ctx \ {c} : pc'[d] = pc[d] /\ told'[d] = told[d]
    BY <2>1 DEF TypeOK
  <2> QED
    BY <2>1, <2>2, <2>4, <2>5 DEF CallbackInv
<1>6. ASSUME NEW c \in Ctx, Route(c) \/ Add(c) \/ NextLayer(c) \/ ComputeFails(c)
      PROVE  CallbackInv'
  <2>1. UNCHANGED <<graph, callbackVars>>
    BY <1>6 DEF Route, Add, NextLayer, ComputeFails
  <2>2. \A d \in Ctx \ {c} : pc'[d] = pc[d] /\ told'[d] = told[d]
    BY <1>6 DEF Route, Add, NextLayer, ComputeFails, LeaveLayer, TypeOK
  <2>3. pc'[c] # "add"
    BY <1>6 DEF Route, Add, NextLayer, ComputeFails, TypeOK
  <2> QED
    BY <2>1, <2>2, <2>3, CallbackKept
<1> QED
  BY <1>1, <1>2, <1>3, <1>4, <1>5, <1>6, Steps DEF Decode

\* What "the user's callback is chained" comes to for any number of contexts, serialised or not,
\* with or without reuse: the nodes of a context's graph never go to a callback that was
\* handed to g before that graph was built.
THEOREM NoOlderCallback == Spec => []OwnOrNewerCallback
<1>1. Init => CallbackInv
  BY DEF Init, CallbackInv
<1>2. CallbackInv => OwnOrNewerCallback
  BY DEF CallbackInv, OwnOrNewerCallback, Current
<1> QED
  BY <1>1, <1>2, CallbackStep, TypeCorrect, PTL DEF Spec
=============================================================================
