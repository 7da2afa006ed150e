--------------------------- MODULE HybridMoE_proofs ---------------------------
(***************************************************************************)
(* Proofs about HybridMoE, for every number of layers, experts and draws,  *)
(* every pin table, and every correction size.                             *)
(***************************************************************************)
EXTENDS HybridMoE, TLAPS

\* The first row's ids are read right: the copy starts where the view starts, so
\* its first n_used ids are the first row's draws.
LEMMA FirstRowRead ==
    ASSUME rank \in [1..CurRows -> Ranking], CurRows \in Nat, CurRows >= 1
    PROVE  ReadIds(1) = TopK(1)
<1>1. ASSUME NEW k \in Lane
      PROVE  Column((1 - 1) * NUsed + (k - 1)) = rank[1][k]
  <2>1. NExpert \in Nat /\ NUsed \in Nat /\ k \in Nat /\ 1 <= k /\ k <= NExpert
    BY SizeAssumption DEF Lane
  <2>2. (1 - 1) * NUsed + (k - 1) = k - 1
    BY <2>1
  <2>3. (k - 1) \div NExpert = 0 /\ (k - 1) % NExpert = k - 1
    BY <2>1
  <2> QED
    BY <2>1, <2>2, <2>3 DEF Column
<1> QED
  BY <1>1 DEF ReadIds, TopK

\* What the two arms of a row must hold for the row to be exact: the pool the
\* pinned lanes, the CPU the others, normalised over the row's own draws.
LEMMA LanesMakeRowExact ==
    ASSUME rank \in [1..CurRows -> Ranking], CurRows \in Nat,
           NEW t \in 1..CurRows,
           NEW P \in SUBSET Lane,
           out[t].gpu = [k \in Lane \ P |-> TopK(t)[k]],
           out[t].cpu.lanes = [k \in P |-> TopK(t)[k]],
           out[t].cpu.act \in {"zero", "now"},
           out[t].cpu.act = "now" => out[t].cpu.over = TopK(t)
    PROVE  ExactRow(t)
<1> DEFINE draws == TopK(t)
<1>1. \A j, k \in Lane : draws[j] = draws[k] => j = k
  BY SizeAssumption DEF TopK, Ranking, Lane
<1>2. ASSUME NEW e \in Expert, e \in Drawn(t)
      PROVE  \E c \in Computed(out[t], e) : Computed(out[t], e) = {c}
  <2>1. PICK k \in Lane : draws[k] = e
    BY <1>2 DEF Drawn
  <2>2. CASE k \in P
    <3>1. Computed(out[t], e) = {<<"cpu", k>>}
      BY <2>1, <2>2, <1>1 DEF Computed
    <3> QED BY <3>1
  <2>3. CASE k \notin P
    <3>1. Computed(out[t], e) = {<<"gpu", k>>}
      BY <2>1, <2>3, <1>1 DEF Computed
    <3> QED BY <3>1
  <2> QED BY <2>2, <2>3
<1>3. ASSUME NEW e \in Expert, e \notin Drawn(t)
      PROVE  Computed(out[t], e) = {}
  BY <1>3 DEF Computed, Drawn
<1> QED
  BY <1>2, <1>3 DEF ExactRow

-----------------------------------------------------------------------------
(* Types *)

\* A graph's hybrid layers have pins and rows that fit in the correction tensor.
GraphInv == \A l \in hybrid : l \in HasPins \cap Eligible /\ Rows(l, shape) <= MaxT

TypeInv == TypeOK /\ GraphInv

LEMMA RowsType ==
    ASSUME shape \in Shapes \cup {NoShape}
    PROVE  \A l \in Layer : Rows(l, shape) \in Nat
BY ShapeAssumption DEF Rows, NoShape

LEMMA LanesType ==
    ASSUME NEW S \in SUBSET Lane, NEW f, \A k \in S : f[k] \in Expert
    PROVE  [k \in S |-> f[k]] \in Lanes
<1>1. [k \in S |-> f[k]] \in [S -> Expert]
  OBVIOUS
<1> QED
  BY <1>1 DEF Lanes

LEMMA ZeroRowType == ZeroRow \in CorrRow /\ UninitRow \in CorrRow
<1>1. NoLanes \in [{} -> Expert]
  BY DEF NoLanes
<1>2. NoLanes \in Lanes
  BY <1>1 DEF Lanes
<1> QED
  BY <1>2 DEF ZeroRow, UninitRow, CorrRow

LEMMA AgedType ==
    ASSUME NEW r \in CorrRow
    PROVE  Aged(r) \in CorrRow
BY DEF Aged, CorrRow

\* A row the miss pass is at was ranked, and what the pass reads for it are experts.
LEMMA ReadType ==
    ASSUME rank \in [1..CurRows -> Ranking], CurRows \in Nat, NEW t \in 1..CurRows
    PROVE  ReadIds(t) \in [Lane -> Expert] /\ TopK(t) \in [Lane -> Expert]
<1>1. ASSUME NEW k \in Lane
      PROVE  Column((t - 1) * NUsed + (k - 1)) \in Expert
  <2> DEFINE p == (t - 1) * NUsed + (k - 1)
  <2>1. NExpert \in Nat \ {0} /\ NUsed \in Nat /\ k \in Nat /\ 1 <= k /\ k <= NUsed /\ NUsed <= NExpert
    BY SizeAssumption DEF Lane
  <2>2. t \in Nat /\ 1 <= t /\ t <= CurRows
    OBVIOUS
  <2>3. p \in Nat /\ p < t * NExpert
    <3>1. (t - 1) * NUsed \in Nat /\ (t - 1) * NUsed <= (t - 1) * NExpert
      BY <2>1, <2>2
    <3>2. (t - 1) * NExpert + NExpert = t * NExpert
      BY <2>1, <2>2
    <3>3. k - 1 < NExpert /\ k - 1 \in Nat
      BY <2>1
    <3>4. (t - 1) * NExpert \in Nat /\ t * NExpert \in Nat
      BY <2>1, <2>2
    <3> QED
      BY <2>1, <3>1, <3>2, <3>3, <3>4
  <2> HIDE DEF p
  <2>4. (p \div NExpert) \in Nat /\ (p \div NExpert) < t
    BY <2>1, <2>2, <2>3
  <2>5. (p % NExpert) \in Nat /\ (p % NExpert) < NExpert
    BY <2>1, <2>3
  <2>6. (p \div NExpert) + 1 \in 1..CurRows /\ (p % NExpert) + 1 \in 1..NExpert
    BY <2>1, <2>2, <2>4, <2>5
  <2>7. Column(p) \in Expert
    BY <2>6 DEF Column, Ranking
  <2> QED
    BY <2>7 DEF p
<1>2. ASSUME NEW k \in Lane
      PROVE  rank[t][k] \in Expert
  BY SizeAssumption DEF Lane, Ranking
<1> QED
  BY <1>1, <1>2 DEF ReadIds, TopK

LEMMA CorrectionType ==
    ASSUME NEW l \in HasPins, NEW draws \in [Lane -> Expert]
    PROVE  Correction(l, draws) \in CorrRow
<1>1. [k \in MissLanes(l, draws) |-> draws[k]] \in Lanes
  BY LanesType DEF MissLanes
<1>2. draws \in Lanes
  BY DEF Lanes
<1> QED
  BY <1>1, <1>2 DEF Correction, CorrRow

LEMMA TypeInit == Init => TypeInv
<1> SUFFICES ASSUME Init PROVE TypeInv
  OBVIOUS
<1>1. il \in Layer /\ row \in Nat
  BY SizeAssumption DEF Init, Layer
<1>2. corr \in [HasPins -> [1..MaxT -> CorrRow]]
  BY ZeroRowType DEF Init
<1>3. shape \in Shapes \cup {NoShape} /\ hybrid \subseteq Layer /\ pc = "idle"
  BY DEF Init
<1>4. /\ corr_dirty \in [HasPins -> BOOLEAN]
      /\ moe_in_stash \in [Layer -> SUBSET Nat]
      /\ broken \in BOOLEAN
  BY DEF Init, NoStash
<1>5. GraphInv
  BY DEF Init, GraphInv
<1> QED
  BY <1>1, <1>2, <1>3, <1>4, <1>5 DEF TypeInv, TypeOK

\* A step that keeps the layer, the graph, the ranking and the tensors keeps their types.
LEMMA TypeStep == TypeInv /\ [Next]_vars => TypeInv'
<1> SUFFICES ASSUME TypeInv, [Next]_vars PROVE TypeInv'
  OBVIOUS
<1> USE DEF TypeInv
<1>0. \A l \in Layer : Rows(l, shape) \in Nat
  BY RowsType DEF TypeOK
<1>00. CurRows \in Nat
  BY <1>0 DEF CurRows, TypeOK
<1>1. ASSUME NEW s \in Shapes, ProcessUbatch(s) PROVE TypeInv'
  <2>1. hybrid' \subseteq Layer /\ shape' \in Shapes
    BY <1>1 DEF ProcessUbatch, TypeOK, graphVars
  <2>2. GraphInv'
    BY <1>1 DEF ProcessUbatch, GraphInv, BuildsHybrid, graphVars, Rows
  <2>3. corr' \in [HasPins -> [1..MaxT -> CorrRow]]
    <3>1. corr \in [HasPins -> [1..MaxT -> CorrRow]]
      BY DEF TypeOK
    <3>2. \A l \in HasPins : \A t \in 1..MaxT : Aged(corr[l][t]) \in CorrRow
      BY <3>1, AgedType
    <3> QED
      BY <1>1, <3>2 DEF ProcessUbatch
  <2>4. il' \in Layer
    BY <1>1, SizeAssumption DEF ProcessUbatch, Layer
  <2>5. pc' = "route" /\ UNCHANGED <<rank, row, out, corr_dirty, moe_in_stash, broken>>
    BY <1>1 DEF ProcessUbatch
  <2> QED
    BY <2>1, <2>2, <2>3, <2>4, <2>5 DEF TypeOK
<1>2. CASE BuildFails
  BY <1>2 DEF BuildFails, TypeOK, GraphInv, corrVars
<1>3. CASE RouterTopK
  <2>1. CurRows' = CurRows
    BY <1>3 DEF RouterTopK, CurRows, graphVars
  <2>2. rank' \in [1..CurRows -> Ranking] /\ row' = 1 /\ pc' \in {"miss", "sum"}
    BY <1>3 DEF RouterTopK
  <2>3. pc' = "miss" => il \in HasPins /\ CurRows <= MaxT /\ row' \in 1..(CurRows + 1)
    BY <1>00, <1>3 DEF RouterTopK, Intercepts
  <2>4. moe_in_stash' \in [Layer -> SUBSET Nat]
    BY <1>00, <1>3 DEF RouterTopK, TypeOK
  <2>5. shape \in Shapes
    BY <1>3 DEF RouterTopK, TypeOK
  <2>6. GraphInv'
    BY <1>3 DEF RouterTopK, GraphInv, graphVars, Rows
  <2> QED
    BY <1>3, <2>1, <2>2, <2>3, <2>4, <2>5, <2>6 DEF RouterTopK, TypeOK, graphVars, corrVars
<1>4. CASE MissPassRefused
  <2>1. CurRows' = CurRows /\ GraphInv'
    BY <1>4 DEF MissPassRefused, CurRows, graphVars, GraphInv, Rows
  <2> QED
    BY <1>4, <2>1 DEF MissPassRefused, TypeOK, graphVars, corrVars
<1>5. CASE MissRow
  <2>1. CurRows' = CurRows /\ GraphInv'
    BY <1>5 DEF MissRow, CurRows, graphVars, GraphInv, Rows
  <2>2. row \in 1..CurRows /\ row' \in 1..(CurRows + 1)
    BY <1>00, <1>5 DEF MissRow, TypeOK
  <2>3. Correction(il, ReadIds(row)) \in CorrRow
    BY <1>00, <1>5, <2>2, ReadType, CorrectionType DEF MissRow, TypeOK
  <2>4. corr' \in [HasPins -> [1..MaxT -> CorrRow]]
    BY <1>5, <2>3 DEF MissRow, TypeOK
  <2> QED
    BY <1>5, <2>1, <2>2, <2>4 DEF MissRow, TypeOK, graphVars
<1>6. CASE HitRow
  <2>1. CurRows' = CurRows /\ GraphInv'
    BY <1>6 DEF HitRow, CurRows, graphVars, GraphInv, Rows
  <2>2. row' \in 1..(CurRows + 1)
    BY <1>00, <1>6 DEF HitRow, TypeOK
  <2>3. corr' \in [HasPins -> [1..MaxT -> CorrRow]]
    BY <1>6, ZeroRowType DEF HitRow, TypeOK
  <2> QED
    BY <1>6, <2>1, <2>2, <2>3 DEF HitRow, TypeOK, graphVars
<1>7. CASE MissPassDone
  <2>1. CurRows' = CurRows /\ GraphInv'
    BY <1>7 DEF MissPassDone, CurRows, graphVars, GraphInv, Rows
  <2> QED
    BY <1>7, <2>1 DEF MissPassDone, TypeOK, graphVars, corrVars
<1>8. CASE SumExperts
  <2>1. CurRows' = CurRows /\ GraphInv'
    BY <1>8 DEF SumExperts, CurRows, graphVars, GraphInv, Rows
  <2>2. rank \in [1..CurRows -> Ranking]
    BY <1>8 DEF SumExperts, TypeOK
  <2>3. ASSUME NEW t \in 1..CurRows PROVE Mixture(t) \in [gpu : Lanes, cpu : CorrRow]
    <3>1. TopK(t) \in [Lane -> Expert]
      BY <1>00, <2>2, ReadType
    <3>2. TopK(t) \in Lanes
      BY <3>1 DEF Lanes
    <3>3. [k \in HitLanes(il, TopK(t)) |-> TopK(t)[k]] \in Lanes
      BY <3>1, LanesType DEF HitLanes
    <3>4. il \in hybrid => corr[il][t] \in CorrRow
      <4> SUFFICES ASSUME il \in hybrid PROVE corr[il][t] \in CorrRow
        OBVIOUS
      <4>1. il \in HasPins /\ CurRows <= MaxT
        BY DEF GraphInv, CurRows
      <4>2. t \in 1..MaxT
        BY <1>00, <4>1, SizeAssumption
      <4>3. corr \in [HasPins -> [1..MaxT -> CorrRow]]
        BY DEF TypeOK
      <4> QED
        BY <4>1, <4>2, <4>3
    <3> QED
      BY <3>2, <3>3, <3>4, ZeroRowType DEF Mixture
  <2>4. out' \in [1..CurRows -> [gpu : Lanes, cpu : CorrRow]]
    BY <1>8, <2>3 DEF SumExperts
  <2> QED
    BY <1>8, <2>1, <2>4 DEF SumExperts, TypeOK, graphVars, corrVars
<1>9. CASE NextLayer
  <2>1. il' \in Layer /\ pc' \in {"route", "idle"}
    BY <1>9, SizeAssumption DEF NextLayer, Layer, TypeOK
  <2>2. GraphInv'
    BY <1>9 DEF NextLayer, graphVars, GraphInv, Rows
  <2> QED
    BY <1>9, <2>1, <2>2 DEF NextLayer, TypeOK, graphVars, corrVars
<1>10. CASE ComputeFails
  <2>1. il' \in Layer
    BY <1>10, SizeAssumption DEF ComputeFails, Layer
  <2>2. GraphInv'
    BY <1>10 DEF ComputeFails, graphVars, GraphInv, Rows
  <2> QED
    BY <1>10, <2>1, <2>2 DEF ComputeFails, TypeOK, graphVars, corrVars
<1>11. CASE UNCHANGED vars
  BY <1>11 DEF vars, TypeOK, GraphInv, CurRows, Rows
<1> QED
  BY <1>1, <1>2, <1>3, <1>4, <1>5, <1>6, <1>7, <1>8, <1>9, <1>10, <1>11 DEF Next

LEMMA TypeInvariant == Spec => []TypeInv
  BY TypeInit, TypeStep, PTL DEF Spec

\* Every reachable state of the executor is typed, whatever the model, the pin
\* table and the micro-batches: the miss pass never runs past the rows of a
\* correction tensor, nor in a layer that has none.
THEOREM TypeCorrect == Spec => []TypeOK
<1>1. TypeInv => TypeOK
  BY DEF TypeInv
<1> QED
  BY <1>1, TypeInvariant, PTL

-----------------------------------------------------------------------------
(* The first row *)

FirstRowWritten ==
    MissLanes(il, TopK(1)) # {} => corr[il][1] = Correction(il, TopK(1))

\* Past its first row, the pass has written that row if it had a miss; the result
\* is still the mixture of what the tensors hold.
PassInv ==
    /\ pc = "miss" /\ row > 1 => FirstRowWritten
    /\ pc \in {"sum", "done"} /\ il \in hybrid /\ Active /\ CurRows > 0 => FirstRowWritten
    /\ pc = "done" => out = [t \in 1..CurRows |-> Mixture(t)]

LEMMA PassStep == TypeInv /\ PassInv /\ [Next]_vars => PassInv'
<1> SUFFICES ASSUME TypeInv, PassInv, [Next]_vars PROVE PassInv'
  OBVIOUS
<1>0. /\ CurRows \in Nat /\ row \in Nat
      /\ corr \in [HasPins -> [1..MaxT -> CorrRow]]
      /\ pc \in {"miss", "sum", "done"} => rank \in [1..CurRows -> Ranking]
  BY RowsType DEF TypeInv, TypeOK, CurRows
<1>1. CASE pc' \in {"idle", "route"}
  BY <1>1 DEF PassInv
<1>2. CASE RouterTopK
  <2>1. il' = il /\ hybrid' = hybrid /\ broken' = broken /\ CurRows' = CurRows /\ row' = 1
    BY <1>2 DEF RouterTopK, graphVars, CurRows
  <2>2. il \in hybrid /\ Active => Intercepts
    BY DEF TypeInv, GraphInv, Intercepts, CurRows
  <2>3. pc' = IF Intercepts THEN "miss" ELSE "sum"
    BY <1>2 DEF RouterTopK
  <2> QED
    BY <2>1, <2>2, <2>3 DEF PassInv, Active
<1>3. CASE MissPassRefused
  BY <1>3 DEF MissPassRefused, PassInv, Active
<1>4. CASE MissRow
  <2>1. /\ il' = il /\ rank' = rank /\ row' = row + 1 /\ pc' = "miss" /\ pc = "miss"
        /\ \A k : MissLanes(il, k)' = MissLanes(il, k)
        /\ TopK(1)' = TopK(1)
    BY <1>4 DEF MissRow, MissLanes, TopK
  <2>2. il \in HasPins /\ row >= 1 /\ CurRows >= 1 /\ 1 \in 1..MaxT /\ row \in 1..MaxT
    BY <1>0, <1>4, SizeAssumption DEF MissRow, TypeInv, TypeOK
  <2>3. CASE row = 1
    <3>1. ReadIds(1) = TopK(1)
      BY <1>0, <2>1, <2>2, FirstRowRead
    <3>2. corr'[il][1] = Correction(il, TopK(1))
      BY <1>0, <1>4, <2>2, <2>3, <3>1 DEF MissRow
    <3> QED
      BY <2>1, <3>2 DEF PassInv, FirstRowWritten, Correction, MissLanes, TopK
  <2>4. CASE row > 1
    <3>1. corr'[il][1] = corr[il][1]
      BY <1>0, <1>4, <2>2, <2>4 DEF MissRow
    <3>2. FirstRowWritten
      BY <2>1, <2>4 DEF PassInv
    <3> QED
      BY <2>1, <3>1, <3>2 DEF PassInv, FirstRowWritten, Correction, MissLanes, TopK
  <2> QED
    BY <1>0, <2>2, <2>3, <2>4
<1>5. CASE HitRow
  <2>1. /\ il' = il /\ rank' = rank /\ row' = row + 1 /\ pc' = "miss" /\ pc = "miss"
        /\ TopK(1)' = TopK(1)
    BY <1>5 DEF HitRow, TopK
  <2>2. il \in HasPins /\ row >= 1 /\ CurRows >= 1 /\ 1 \in 1..MaxT /\ row \in 1..MaxT
    BY <1>0, <1>5, SizeAssumption DEF HitRow, TypeInv, TypeOK
  <2>3. CASE row = 1
    <3>1. ReadIds(1) = TopK(1)
      BY <1>0, <2>1, <2>2, FirstRowRead
    <3>2. MissLanes(il, TopK(1)) = {}
      BY <1>5, <2>3, <3>1 DEF HitRow
    <3> QED
      BY <2>1, <3>2 DEF PassInv, FirstRowWritten, MissLanes, TopK
  <2>4. CASE row > 1
    <3>1. corr'[il][1] = corr[il][1]
      BY <1>0, <1>5, <2>2, <2>4 DEF HitRow
    <3>2. FirstRowWritten
      BY <2>1, <2>4 DEF PassInv
    <3> QED
      BY <2>1, <3>1, <3>2 DEF PassInv, FirstRowWritten, Correction, MissLanes, TopK
  <2> QED
    BY <1>0, <2>2, <2>3, <2>4
<1>6. CASE MissPassDone
  <2>1. CurRows > 0 => row > 1
    BY <1>0, <1>6 DEF MissPassDone
  <2>2. CurRows > 0 => FirstRowWritten
    BY <1>6, <2>1 DEF PassInv, MissPassDone
  <2> QED
    BY <1>6, <2>2 DEF MissPassDone, PassInv, FirstRowWritten, graphVars, corrVars,
                      CurRows, TopK, MissLanes, Correction
<1>7. CASE SumExperts
  <2>1. CurRows' = CurRows /\ \A t : Mixture(t)' = Mixture(t)
    BY <1>7 DEF SumExperts, CurRows, Mixture, graphVars, corrVars, HitLanes, MissLanes, TopK
  <2>2. out' = [t \in 1..CurRows |-> Mixture(t)]
    BY <1>7 DEF SumExperts
  <2>3. FirstRowWritten' = FirstRowWritten /\ Active' = Active
    BY <1>7 DEF SumExperts, FirstRowWritten, corrVars, TopK, MissLanes, Correction, Active
  <2> QED
    BY <1>7, <2>1, <2>2, <2>3 DEF SumExperts, PassInv, graphVars
<1>8. CASE UNCHANGED vars
  BY <1>8 DEF vars, PassInv, FirstRowWritten, Active, CurRows, TopK, MissLanes,
              HitLanes, Correction, Mixture
<1>9. CASE BuildFails
  BY <1>1, <1>9 DEF BuildFails
<1> QED
  BY <1>1, <1>2, <1>3, <1>4, <1>5, <1>6, <1>7, <1>8, <1>9
  DEF Next, ProcessUbatch, NextLayer, ComputeFails

\* In any micro-batch, of any size, the first row is exact if it drew an expert
\* that is not pinned: reading its ids needs no stride, and its row is written.
THEOREM FirstRow == Spec => []FirstRowExactOnMiss
<1>1. Init => PassInv
  BY DEF Init, PassInv
<1>2. TypeInv /\ PassInv => FirstRowExactOnMiss
  <2> SUFFICES ASSUME TypeInv, PassInv, pc = "done", il \in hybrid, Active, CurRows > 0,
                      MissLanes(il, TopK(1)) # {}
               PROVE  ExactRow(1)
    BY DEF FirstRowExactOnMiss
  <2>1. CurRows \in Nat /\ rank \in [1..CurRows -> Ranking] /\ 1 \in 1..CurRows
    BY RowsType DEF TypeInv, TypeOK, CurRows
  <2>2. corr[il][1] = Correction(il, TopK(1))
    BY DEF PassInv, FirstRowWritten
  <2>3. /\ out[1].gpu = [k \in Lane \ MissLanes(il, TopK(1)) |-> TopK(1)[k]]
        /\ out[1].cpu = corr[il][1]
    <3>1. out = [t \in 1..CurRows |-> Mixture(t)]
      BY DEF PassInv
    <3>2. out[1] = Mixture(1)
      BY <2>1, <3>1
    <3> QED
      BY <3>2 DEF Mixture, HitLanes
  <2>4. /\ out[1].cpu.lanes = [k \in MissLanes(il, TopK(1)) |-> TopK(1)[k]]
        /\ out[1].cpu.act = "now" /\ out[1].cpu.over = TopK(1)
    BY <2>2, <2>3 DEF Correction
  <2>5. MissLanes(il, TopK(1)) \in SUBSET Lane
    BY DEF MissLanes
  <2> QED
    BY <2>1, <2>3, <2>4, <2>5, LanesMakeRowExact
<1> QED
  BY <1>1, <1>2, TypeInvariant, PassStep, PTL DEF Spec

-----------------------------------------------------------------------------
(* One-row use *)

\* A pass past its only row has left that row zero if it had no miss.
FirstRowCleared == MissLanes(il, TopK(1)) = {} => corr[il][1] = ZeroRow

\* In one-row use the executor never gives up, so the graph is always the one its
\* parameters describe, and a layer's flag tells whether its row is zero.
OneRowInv ==
    /\ Active
    /\ shape \in Shapes => hybrid = {l \in Layer : BuildsHybrid(l, shape)}
    /\ pc = "miss" => moe_in_stash[il] = {CurRows}
    /\ CleanMeansZero
    /\ pc = "miss" /\ row > 1 => FirstRowCleared
    /\ pc \in {"sum", "done"} /\ il \in hybrid /\ CurRows > 0 => FirstRowCleared

LEMMA OneRowInit == OneRowUse /\ Init => OneRowInv
<1> SUFFICES ASSUME OneRowUse, Init PROVE OneRowInv
  OBVIOUS
<1>1. NoShape \notin Shapes
  BY ShapeAssumption DEF NoShape
<1>2. CleanMeansZero
  <2>1. 1 \in 1..MaxT /\ 1 <= ZeroedRows
    BY SizeAssumption DEF OneRowUse
  <2> QED
    BY <2>1 DEF Init, CleanMeansZero
<1> QED
  BY <1>1, <1>2 DEF Init, OneRowInv, Active

\* In one-row use every pass is ready, and it is at the only row or past it.
LEMMA OneRowPass ==
    ASSUME OneRowUse, TypeInv, OneRowInv, pc = "miss"
    PROVE  /\ PassReady
           /\ il \in HasPins /\ CurRows \in 0..1 /\ row \in 1..(CurRows + 1)
           /\ row <= CurRows => row = 1 /\ ReadIds(1) = TopK(1)
<1>1. CurRows \in Nat /\ CurRows <= MaxT /\ il \in HasPins /\ shape \in Shapes
  BY RowsType DEF TypeInv, TypeOK, CurRows
<1>2. CurRows <= 1 /\ il \in Walkable
  BY <1>1 DEF OneRowUse, CurRows
<1>3. PassReady
  BY <1>2 DEF PassReady, OneRowInv
<1>4. row \in 1..(CurRows + 1) /\ rank \in [1..CurRows -> Ranking]
  BY DEF TypeInv, TypeOK
<1>5. CurRows >= 1 => ReadIds(1) = TopK(1)
  BY <1>1, <1>4, FirstRowRead
<1> QED
  BY <1>1, <1>2, <1>3, <1>4, <1>5

LEMMA OneRowStep ==
    OneRowUse /\ TypeInv /\ OneRowInv /\ [Next]_vars => OneRowInv'
<1> SUFFICES ASSUME OneRowUse, TypeInv, OneRowInv, [Next]_vars PROVE OneRowInv'
  OBVIOUS
<1>0. /\ CurRows \in Nat /\ 1 \in 1..MaxT /\ Active
      /\ corr \in [HasPins -> [1..MaxT -> CorrRow]]
      /\ corr_dirty \in [HasPins -> BOOLEAN]
  BY RowsType, SizeAssumption DEF TypeInv, TypeOK, CurRows, OneRowInv
<1>1. ASSUME NEW s \in Shapes, ProcessUbatch(s) PROVE OneRowInv'
  <2>1. /\ pc' = "route" /\ UNCHANGED <<broken, corr_dirty>>
        /\ corr' = [l \in HasPins |-> [t \in 1..MaxT |-> Aged(corr[l][t])]]
    BY <1>1 DEF ProcessUbatch
  <2>2. shape' \in Shapes /\ hybrid' = {l \in Layer : BuildsHybrid(l, shape')}
    BY <1>1 DEF ProcessUbatch, OneRowInv, graphVars
  <2>3. Aged(ZeroRow) = ZeroRow
    BY DEF Aged, ZeroRow
  <2>4. CleanMeansZero'
    BY <1>0, <2>1, <2>3 DEF OneRowInv, CleanMeansZero
  <2>5. \A l, s1 : BuildsHybrid(l, s1)' = BuildsHybrid(l, s1)
    BY <2>1 DEF BuildsHybrid, Active, Rows
  <2> QED
    BY <2>1, <2>2, <2>4, <2>5 DEF OneRowInv, Active, BuildsHybrid
<1>2. CASE BuildFails
  <2>1. NoShape \notin Shapes
    BY ShapeAssumption DEF NoShape
  <2> QED
    BY <1>2, <2>1 DEF BuildFails, OneRowInv, Active, CleanMeansZero, corrVars
<1>3. CASE RouterTopK
  <2>1. /\ il' = il /\ shape' = shape /\ hybrid' = hybrid /\ broken' = broken /\ row' = 1
        /\ CurRows' = CurRows /\ UNCHANGED corrVars
        /\ pc' = IF Intercepts THEN "miss" ELSE "sum"
    BY <1>3 DEF RouterTopK, graphVars, CurRows
  <2>2. shape \in Shapes /\ il \in Layer
    BY <1>3 DEF RouterTopK, TypeInv, TypeOK
  <2>3. Intercepts <=> il \in hybrid
    BY <2>2 DEF Intercepts, OneRowInv, BuildsHybrid, OneRowUse, CurRows
  <2>4. pc' = "miss" => moe_in_stash'[il] = {CurRows}
    BY <1>0, <1>3, <2>1, <2>2, <2>3 DEF RouterTopK, TypeInv, TypeOK
  <2> QED
    BY <2>1, <2>3, <2>4 DEF OneRowInv, Active, BuildsHybrid, CleanMeansZero, corrVars
<1>4. CASE MissPassRefused
  BY <1>4, OneRowPass DEF MissPassRefused
<1>5. CASE MissRow
  <2>1. /\ pc = "miss" /\ pc' = "miss" /\ row <= CurRows
        /\ UNCHANGED <<il, rank, shape, hybrid, broken, moe_in_stash>> /\ row' = row + 1
    BY <1>5 DEF MissRow, graphVars
  <2>2. row = 1 /\ ReadIds(1) = TopK(1) /\ il \in HasPins
    BY <2>1, OneRowPass
  <2>3. MissLanes(il, TopK(1)) # {}
    BY <1>5, <2>2 DEF MissRow
  <2>4. CleanMeansZero'
    BY <1>0, <1>5, <2>2 DEF MissRow, OneRowInv, CleanMeansZero
  <2> QED
    BY <2>1, <2>3, <2>4 DEF OneRowInv, Active, BuildsHybrid, FirstRowCleared, CurRows, TopK, MissLanes
<1>6. CASE HitRow
  <2>1. /\ pc = "miss" /\ pc' = "miss" /\ row <= CurRows
        /\ UNCHANGED <<il, rank, shape, hybrid, broken, moe_in_stash>> /\ row' = row + 1
    BY <1>6 DEF HitRow, graphVars
  <2>2. row = 1 /\ il \in HasPins
    BY <2>1, OneRowPass
  <2>3. corr'[il][1] = ZeroRow
    BY <1>0, <1>6, <2>2 DEF HitRow, OneRowInv, CleanMeansZero
  <2>4. CleanMeansZero'
    BY <1>0, <1>6, <2>2, <2>3 DEF HitRow, OneRowInv, CleanMeansZero
  <2> QED
    BY <2>1, <2>3, <2>4 DEF OneRowInv, Active, BuildsHybrid, FirstRowCleared, CurRows
<1>7. CASE MissPassDone
  <2>1. CurRows > 0 => FirstRowCleared
    BY <1>7, OneRowPass DEF MissPassDone, OneRowInv
  <2> QED
    BY <1>7, <2>1 DEF MissPassDone, OneRowInv, Active, BuildsHybrid, CleanMeansZero,
                      FirstRowCleared, graphVars, corrVars, CurRows, TopK, MissLanes
<1>8. CASE SumExperts
  BY <1>8 DEF SumExperts, OneRowInv, Active, BuildsHybrid, CleanMeansZero,
              FirstRowCleared, graphVars, corrVars, CurRows, TopK, MissLanes
<1>9. CASE NextLayer
  BY <1>9 DEF NextLayer, OneRowInv, Active, BuildsHybrid, CleanMeansZero, graphVars, corrVars
<1>10. CASE ComputeFails
  BY <1>10 DEF ComputeFails, OneRowInv, Active, BuildsHybrid, CleanMeansZero, graphVars, corrVars
<1>11. CASE UNCHANGED vars
  BY <1>11 DEF vars, OneRowInv, Active, BuildsHybrid, CleanMeansZero, FirstRowCleared,
               CurRows, TopK, MissLanes
<1> QED
  BY <1>1, <1>2, <1>3, <1>4, <1>5, <1>6, <1>7, <1>8, <1>9, <1>10, <1>11 DEF Next

\* Results follow from the invariants: the row's lanes are split between the arms.
LEMMA OneRowExact ==
    OneRowUse /\ TypeInv /\ PassInv /\ OneRowInv => Exact
<1> SUFFICES ASSUME OneRowUse, TypeInv, PassInv, OneRowInv, pc = "done", NEW t \in 1..CurRows
             PROVE  ExactRow(t)
  BY DEF Exact
<1>1. /\ CurRows \in Nat /\ rank \in [1..CurRows -> Ranking]
      /\ out[t] = Mixture(t) /\ TopK(t) \in [Lane -> Expert]
  BY RowsType, ReadType DEF TypeInv, TypeOK, CurRows, PassInv
<1>2. CASE il \in hybrid
  <2>1. il \in HasPins /\ CurRows <= MaxT /\ shape \in Shapes
    BY <1>2 DEF TypeInv, TypeOK, GraphInv, CurRows
  <2>2. t = 1 /\ CurRows > 0
    BY <1>1, <2>1 DEF OneRowUse, CurRows
  <2> DEFINE P == MissLanes(il, TopK(1))
  <2>3. corr[il][1] = IF P = {} THEN ZeroRow ELSE Correction(il, TopK(1))
    BY <1>2, <2>2 DEF PassInv, OneRowInv, FirstRowWritten, FirstRowCleared
  <2>4. /\ out[1].gpu = [k \in Lane \ P |-> TopK(1)[k]]
        /\ out[1].cpu = corr[il][1]
    BY <1>1, <1>2, <2>2 DEF Mixture, HitLanes
  <2>5. P \in SUBSET Lane
    BY DEF MissLanes
  <2>6. /\ out[1].cpu.lanes = [k \in P |-> TopK(1)[k]]
        /\ out[1].cpu.act \in {"zero", "now"}
        /\ out[1].cpu.act = "now" => out[1].cpu.over = TopK(1)
    <3>1. CASE P = {}
      <4>1. out[1].cpu.lanes = NoLanes /\ out[1].cpu.act = "zero"
        BY <2>3, <2>4, <3>1 DEF ZeroRow
      <4>2. NoLanes = [k \in P |-> TopK(1)[k]]
        BY <3>1 DEF NoLanes
      <4> QED
        BY <4>1, <4>2
    <3>2. CASE P # {}
      BY <2>3, <2>4, <3>2 DEF Correction
    <3> QED
      BY <3>1, <3>2
  <2> QED
    BY <1>1, <2>2, <2>4, <2>5, <2>6, LanesMakeRowExact
<1>3. CASE il \notin hybrid
  <2>1. /\ out[t].gpu = [k \in Lane \ {} |-> TopK(t)[k]]
        /\ out[t].cpu.lanes = [k \in {} |-> TopK(t)[k]]
        /\ out[t].cpu.act = "zero"
    BY <1>1, <1>3 DEF Mixture, ZeroRow, NoLanes, TopK
  <2> QED
    BY <1>1, <2>1, LanesMakeRowExact
<1> QED
  BY <1>2, <1>3

\* The header's promise, for every model, pin table and correction size, as long
\* as hybrid micro-batches have at most one row and every pinned layer is one the
\* executor accepts: each draw is computed once, in this micro-batch, by one arm.
THEOREM ExactInOneRowUse ==
    ASSUME OneRowUse
    PROVE  Spec => []Exact
<1>1. Init => PassInv /\ OneRowInv
  BY OneRowInit DEF Init, PassInv
<1>2. TypeInv /\ OneRowInv /\ [Next]_vars => OneRowInv'
  BY OneRowStep
<1>3. TypeInv /\ PassInv /\ OneRowInv => Exact
  BY OneRowExact
<1> QED
  BY <1>1, <1>2, <1>3, TypeInvariant, PassStep, PTL DEF Spec

\* In one-row use a layer's flag is down only when the row it adds is zero, also
\* after a graph that failed between the miss pass and the add.
THEOREM CleanInOneRowUse ==
    ASSUME OneRowUse
    PROVE  Spec => []CleanMeansZero
<1>1. Init => OneRowInv
  BY OneRowInit
<1>2. TypeInv /\ OneRowInv /\ [Next]_vars => OneRowInv'
  BY OneRowStep
<1>3. OneRowInv => CleanMeansZero
  BY DEF OneRowInv
<1> QED
  BY <1>1, <1>2, <1>3, TypeInvariant, PTL DEF Spec

-----------------------------------------------------------------------------
(* The other rows *)

\* The slot of row t holds what the ids read for that row and the one before it ask for.
SlotRight(t) ==
    IF MissLanes(il, ReadIds(t)) # {}
    THEN corr[il][t] = Correction(il, ReadIds(t))
    ELSE t > 1 /\ MissLanes(il, ReadIds(t - 1)) # {} => corr[il][t] = ZeroRow

\* The pass has left every row behind it right, and a missing row right behind it
\* has raised the flag without which the next all-hit row would not be cleared.
RowsInv ==
    /\ pc = "miss" => \A t \in 1..CurRows : t < row => SlotRight(t)
    /\ pc = "miss" => \A t \in 1..CurRows :
                         row = t + 1 /\ MissLanes(il, ReadIds(t)) # {} => corr_dirty[il]
    /\ pc \in {"sum", "done"} /\ il \in hybrid /\ Active => \A t \in 1..CurRows : SlotRight(t)

\* One row of the pass: it leaves the slots before it alone, and its own right.
LEMMA PassRow ==
    ASSUME TypeInv, RowsInv, MissRow \/ HitRow
    PROVE  RowsInv'
<1>0. /\ CurRows \in Nat /\ row \in Nat /\ row >= 1 /\ row <= CurRows /\ CurRows <= MaxT
      /\ il \in HasPins /\ pc = "miss" /\ pc' = "miss" /\ row' = row + 1
      /\ il' = il /\ rank' = rank /\ CurRows' = CurRows
  BY RowsType DEF TypeInv, TypeOK, CurRows, MissRow, HitRow, graphVars
<1>1. /\ corr \in [HasPins -> [1..MaxT -> CorrRow]]
      /\ corr_dirty \in [HasPins -> BOOLEAN]
      /\ row \in 1..MaxT
  BY <1>0, SizeAssumption DEF TypeInv, TypeOK
<1>2. ASSUME NEW t PROVE ReadIds(t)' = ReadIds(t)
  BY <1>0 DEF ReadIds, Column
<1>3. ASSUME NEW t \in 1..CurRows, t < row PROVE SlotRight(t)'
  <2>1. SlotRight(t) /\ t \in Nat /\ t # row /\ t \in 1..MaxT
    BY <1>0, <1>3, SizeAssumption DEF RowsInv
  <2>2. corr'[il][t] = corr[il][t]
    <3>1. CASE MissRow
      BY <1>0, <1>1, <2>1, <3>1 DEF MissRow
    <3>2. CASE HitRow
      BY <1>0, <1>1, <2>1, <3>2 DEF HitRow
    <3> QED
      BY <3>1, <3>2
  <2>3. ReadIds(t)' = ReadIds(t) /\ ReadIds(t - 1)' = ReadIds(t - 1)
    BY <1>2
  <2> QED
    BY <1>0, <2>1, <2>2, <2>3 DEF SlotRight, Correction, MissLanes
<1>4. ASSUME NEW t \in 1..CurRows, t = row PROVE SlotRight(t)'
  <2>1. ReadIds(t)' = ReadIds(t) /\ ReadIds(t - 1)' = ReadIds(t - 1)
    BY <1>2
  <2>2. CASE MissRow
    <3>1. MissLanes(il, ReadIds(t)) # {} /\ corr'[il][t] = Correction(il, ReadIds(t))
      BY <1>0, <1>1, <1>4, <2>2 DEF MissRow
    <3> QED
      BY <1>0, <2>1, <3>1 DEF SlotRight, Correction, MissLanes
  <2>3. CASE HitRow
    <3>1. MissLanes(il, ReadIds(t)) = {}
      BY <1>4, <2>3 DEF HitRow
    <3>2. ASSUME t > 1, MissLanes(il, ReadIds(t - 1)) # {} PROVE corr'[il][t] = ZeroRow
      <4>1. t - 1 \in 1..CurRows /\ row = (t - 1) + 1
        BY <1>0, <1>4, <3>2
      <4>2. corr_dirty[il]
        BY <1>0, <3>2, <4>1 DEF RowsInv
      <4> QED
        BY <1>0, <1>1, <1>4, <2>3, <4>2 DEF HitRow
    <3> QED
      BY <1>0, <2>1, <3>1, <3>2 DEF SlotRight, MissLanes
  <2> QED
    BY <2>2, <2>3
<1>5. ASSUME NEW t \in 1..CurRows, row' = t + 1, (MissLanes(il, ReadIds(t)) # {})'
      PROVE  corr_dirty'[il]
  <2>1. t = row /\ ReadIds(t)' = ReadIds(t)
    BY <1>0, <1>2, <1>5
  <2>2. MissLanes(il, ReadIds(row)) # {}
    BY <1>0, <1>5, <2>1 DEF MissLanes
  <2>3. MissRow
    BY <2>2 DEF HitRow
  <2> QED
    BY <1>0, <1>1, <2>3 DEF MissRow
<1>6. \A t \in 1..CurRows' : t < row' => SlotRight(t)'
  BY <1>0, <1>3, <1>4
<1> QED
  BY <1>0, <1>5, <1>6 DEF RowsInv

LEMMA RowsStep == TypeInv /\ RowsInv /\ [Next]_vars => RowsInv'
<1> SUFFICES ASSUME TypeInv, RowsInv, [Next]_vars PROVE RowsInv'
  OBVIOUS
<1>1. CASE pc' \in {"idle", "route"}
  BY <1>1 DEF RowsInv
<1>2. CASE RouterTopK
  <2>1. /\ il' = il /\ hybrid' = hybrid /\ broken' = broken /\ row' = 1 /\ CurRows' = CurRows
        /\ pc' = IF Intercepts THEN "miss" ELSE "sum"
    BY <1>2 DEF RouterTopK, graphVars, CurRows
  <2>2. il \in hybrid /\ Active => Intercepts
    BY DEF TypeInv, GraphInv, Intercepts, CurRows
  <2>3. CurRows \in Nat
    BY RowsType DEF TypeInv, TypeOK, CurRows
  <2>4. \A t \in 1..CurRows : ~(t < row') /\ row' # t + 1
    BY <2>1, <2>3
  <2> QED
    BY <2>1, <2>2, <2>4 DEF RowsInv, Active
<1>3. CASE MissPassRefused
  BY <1>3 DEF MissPassRefused, RowsInv, Active
<1>4. CASE MissRow \/ HitRow
  BY <1>4, PassRow
<1>5. CASE MissPassDone \/ SumExperts \/ UNCHANGED vars
  <2>1. /\ UNCHANGED <<il, rank, row, corr, corr_dirty, hybrid, broken>> /\ CurRows' = CurRows
    BY <1>5 DEF MissPassDone, SumExperts, vars, graphVars, corrVars, CurRows
  <2>2. ASSUME NEW t PROVE ReadIds(t)' = ReadIds(t)
    BY <2>1 DEF ReadIds, Column
  <2>3. ASSUME NEW t PROVE SlotRight(t)' = SlotRight(t)
    <3>1. ReadIds(t)' = ReadIds(t) /\ ReadIds(t - 1)' = ReadIds(t - 1)
      BY <2>2
    <3> QED
      BY <2>1, <3>1 DEF SlotRight, Correction, MissLanes
  <2>4. CASE MissPassDone
    <3>1. CurRows \in Nat /\ row \in Nat /\ row > CurRows /\ pc = "miss" /\ pc' = "sum"
      BY <2>4, RowsType DEF MissPassDone, TypeInv, TypeOK, CurRows
    <3>2. \A t \in 1..CurRows : SlotRight(t)
      BY <3>1 DEF RowsInv
    <3> QED
      BY <2>1, <2>3, <3>1, <3>2 DEF RowsInv
  <2>5. CASE SumExperts
    <3>1. pc = "sum" /\ pc' = "done" /\ Active' = Active
      BY <2>1, <2>5 DEF SumExperts, Active
    <3> QED
      BY <2>1, <2>3, <3>1 DEF RowsInv
  <2>6. CASE UNCHANGED vars
    <3>1. pc' = pc /\ Active' = Active
      BY <2>6 DEF vars, Active
    <3>2. ASSUME NEW t PROVE (MissLanes(il, ReadIds(t)) # {})' = (MissLanes(il, ReadIds(t)) # {})
      BY <2>1, <2>2 DEF MissLanes
    <3> QED
      BY <2>1, <2>3, <3>1, <3>2 DEF RowsInv
  <2> QED
    BY <1>5, <2>4, <2>5, <2>6
<1>6. CASE BuildFails
  <2>1. pc' = "idle"
    BY <1>6 DEF BuildFails
  <2> QED
    BY <1>1, <2>1
<1>7. CASE (\E s \in Shapes : ProcessUbatch(s)) \/ NextLayer \/ ComputeFails
  <2>1. pc' \in {"idle", "route"}
    BY <1>7 DEF ProcessUbatch, NextLayer, ComputeFails
  <2> QED
    BY <1>1, <2>1
<1> QED
  BY <1>2, <1>3, <1>4, <1>5, <1>6, <1>7 DEF Next

\* For every pin table and batch size, over any sequence of micro-batches, failed
\* ones included: a row of a hybrid layer that is read as missing is added what
\* this micro-batch computed for the ids read, and an all-hit row behind a missing
\* one is added nothing of what its slot held before.
THEOREM RowsWritten == Spec => []RowsAsRead
<1>1. Init => PassInv /\ RowsInv
  BY DEF Init, PassInv, RowsInv
<1>2. TypeInv /\ PassInv /\ RowsInv => RowsAsRead
  <2> SUFFICES ASSUME TypeInv, PassInv, RowsInv, pc = "done", il \in hybrid, Active,
                      NEW t \in 1..CurRows
               PROVE  RowAsRead(t)
    BY DEF RowsAsRead
  <2>1. SlotRight(t)
    BY DEF RowsInv
  <2>2. out[t] = Mixture(t)
    BY DEF PassInv
  <2>3. out[t].cpu = corr[il][t]
    BY <2>2 DEF Mixture
  <2> QED
    BY <2>1, <2>3 DEF SlotRight, RowAsRead
<1> QED
  BY <1>1, <1>2, TypeInvariant, PassStep, RowsStep, PTL DEF Spec

-----------------------------------------------------------------------------
(* The builder and the callback *)

\* While the executor is active the graph is the one its parameters describe, however
\* often it was reused, and only the layers that can be hybrid ever have a stash, so
\* that a pass that is ready is in a hybrid layer.
DecideInv ==
    /\ Active /\ shape \in Shapes => hybrid = {l \in Layer : BuildsHybrid(l, shape)}
    /\ \A l \in Layer \ Eligible : moe_in_stash[l] = NoStash
    /\ pc = "miss" => Active
    /\ PassIffHybrid

LEMMA DecideInit == Init => DecideInv
<1> SUFFICES ASSUME Init PROVE DecideInv
  OBVIOUS
<1>1. NoShape \notin Shapes
  BY ShapeAssumption DEF NoShape
<1> QED
  BY <1>1 DEF Init, DecideInv, PassIffHybrid

\* What the graph's layers are is not touched by a step within a micro-batch.
LEMMA SameGraph ==
    ASSUME DecideInv, UNCHANGED graphVars, broken' = broken
    PROVE  Active' /\ shape' \in Shapes => hybrid' = {l \in Layer : BuildsHybrid(l, shape)'}
BY DEF DecideInv, graphVars, Active, BuildsHybrid, Rows

LEMMA DecideStep == TypeInv /\ DecideInv /\ [Next]_vars => DecideInv'
<1> SUFFICES ASSUME TypeInv, DecideInv, [Next]_vars PROVE DecideInv'
  OBVIOUS
<1>1. ASSUME NEW s \in Shapes, ProcessUbatch(s) PROVE DecideInv'
  <2>1. /\ pc' = "route" /\ broken' = broken /\ moe_in_stash' = moe_in_stash
        /\ \/ UNCHANGED graphVars
           \/ shape' = s /\ hybrid' = {l \in Layer : BuildsHybrid(l, s)}
    BY <1>1 DEF ProcessUbatch
  <2>2. ASSUME Active', shape' \in Shapes
        PROVE  hybrid' = {l \in Layer : BuildsHybrid(l, shape)'}
    <3>1. CASE UNCHANGED graphVars
      BY <2>1, <2>2, <3>1, SameGraph
    <3>2. CASE shape' = s /\ hybrid' = {l \in Layer : BuildsHybrid(l, s)}
      BY <2>1, <3>2 DEF BuildsHybrid, Active, Rows
    <3> QED
      BY <2>1, <3>1, <3>2
  <2> QED
    BY <2>1, <2>2 DEF DecideInv, PassIffHybrid
<1>2. CASE BuildFails
  <2>1. NoShape \notin Shapes
    BY ShapeAssumption DEF NoShape
  <2> QED
    BY <1>2, <2>1 DEF BuildFails, DecideInv, PassIffHybrid, Active
<1>3. CASE RouterTopK
  <2>1. /\ il' = il /\ UNCHANGED graphVars /\ broken' = broken /\ row' = 1
        /\ pc' = IF Intercepts THEN "miss" ELSE "sum"
    BY <1>3 DEF RouterTopK
  <2>2. il \in hybrid => il \in HasPins /\ il \in Eligible /\ CurRows <= MaxT
    BY DEF TypeInv, GraphInv, CurRows
  <2>3. \A l \in Layer \ Eligible : moe_in_stash'[l] = NoStash
    BY <1>3, <2>2 DEF RouterTopK, DecideInv, TypeInv, TypeOK
  <2>4. PassIffHybrid'
    BY <2>1, <2>2 DEF PassIffHybrid, Intercepts, Active, graphVars
  <2>5. pc' = "miss" => Active'
    BY <2>1 DEF Intercepts, Active
  <2> QED
    BY <2>1, <2>3, <2>4, <2>5, SameGraph DEF DecideInv
<1>4. CASE MissPassRefused
  BY <1>4 DEF MissPassRefused, DecideInv, PassIffHybrid, Active
<1>5. CASE MissRow \/ HitRow
  <2>1. UNCHANGED <<graphVars, broken, moe_in_stash>> /\ pc = "miss" /\ pc' = "miss"
    BY <1>5 DEF MissRow, HitRow
  <2> QED
    BY <2>1, SameGraph DEF DecideInv, PassIffHybrid, Active
<1>6. CASE MissPassDone
  <2>1. /\ UNCHANGED <<graphVars, broken, moe_in_stash, il, row>> /\ pc = "miss" /\ pc' = "sum"
        /\ PassReady /\ row > CurRows /\ CurRows' = CurRows
    BY <1>6 DEF MissPassDone, CurRows, graphVars
  <2>2. /\ CurRows \in Nat /\ row \in 1..(CurRows + 1) /\ il \in HasPins /\ CurRows <= MaxT
        /\ shape \in Shapes /\ il \in Layer
    BY <2>1, RowsType DEF TypeInv, TypeOK, CurRows
  <2>3. row = CurRows + 1
    BY <2>1, <2>2
  <2>4. il \in Eligible
    <3>1. CurRows \in moe_in_stash[il]
      BY <2>1 DEF PassReady
    <3> QED
      BY <2>2, <3>1 DEF DecideInv, NoStash
  <2>5. il \in hybrid
    BY <2>1, <2>2, <2>4 DEF DecideInv, BuildsHybrid, CurRows
  <2>6. PassIffHybrid'
    BY <2>1, <2>3, <2>5 DEF PassIffHybrid, graphVars
  <2> QED
    BY <2>1, <2>6, SameGraph DEF DecideInv
<1>7. CASE SumExperts
  <2>1. /\ UNCHANGED <<graphVars, broken, moe_in_stash, il, row>> /\ pc = "sum" /\ pc' = "done"
        /\ CurRows' = CurRows
    BY <1>7 DEF SumExperts, CurRows, graphVars
  <2>2. PassIffHybrid'
    BY <2>1 DEF DecideInv, PassIffHybrid, Active, graphVars
  <2> QED
    BY <2>1, <2>2, SameGraph DEF DecideInv
<1>8. CASE NextLayer \/ ComputeFails
  <2>1. UNCHANGED <<graphVars, broken, moe_in_stash>> /\ pc' \in {"idle", "route"}
    BY <1>8 DEF NextLayer, ComputeFails
  <2> QED
    BY <2>1, SameGraph DEF DecideInv, PassIffHybrid
<1>9. CASE UNCHANGED vars
  <2>1. UNCHANGED <<graphVars, broken, moe_in_stash, il, row, pc>> /\ CurRows' = CurRows
    BY <1>9 DEF vars, graphVars, CurRows
  <2>2. PassIffHybrid' /\ (pc' = "miss" => Active')
    BY <2>1 DEF DecideInv, PassIffHybrid, Active, graphVars
  <2> QED
    BY <2>1, <2>2, SameGraph DEF DecideInv
<1> QED
  BY <1>1, <1>2, <1>3, <1>4, <1>5, <1>6, <1>7, <1>8, <1>9 DEF Next

\* The graph's builder and the callback never disagree while the executor is active,
\* whatever the layers, the batches, the failures and the graphs that are reused: no
\* pool sum goes without its miss pass, and no pass is run for an ordinary layer.
THEOREM DecidersAgree == Spec => []PassIffHybrid
<1>1. DecideInv => PassIffHybrid
  BY DEF DecideInv
<1> QED
  BY <1>1, TypeInvariant, DecideInit, DecideStep, PTL DEF Spec
=============================================================================
