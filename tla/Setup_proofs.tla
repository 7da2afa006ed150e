----------------------------- MODULE Setup_proofs -----------------------------
(***************************************************************************)
(* Proofs about Setup, for every pins file, every BLOBPAGER_MAXT and any   *)
(* models.                                                                 *)
(***************************************************************************)
EXTENDS Setup, TLAPS, WellFoundedInduction

\* A set of numbers up to n that is not empty has a largest element.
LEMMA Largest ==
    ASSUME NEW n \in Nat, NEW S \in SUBSET (1..n), S # {}
    PROVE  \E s \in S : \A t \in S : t <= s
<1> DEFINE R == {ss \in Nat \X Nat : ss[1] < ss[2]}
           T == {k \in Nat : \E s \in S : k = n - s}
<1>1. IsWellFoundedOn(R, Nat)
  BY NatLessThanWellFounded DEF OpToRel
<1>2. T # {}
  <2>1. PICK s \in S : TRUE
    OBVIOUS
  <2>2. n - s \in Nat
    BY <2>1
  <2> QED
    BY <2>1, <2>2
<1>3. PICK x \in T : \A y \in T : ~(<<y, x>> \in R)
  <2> T \subseteq Nat
    OBVIOUS
  <2> HIDE DEF R, T
  <2> QED
    BY <1>1, <1>2, WFMin
<1>4. PICK s \in S : x = n - s
  OBVIOUS
<1>5. ASSUME NEW t \in S
      PROVE  t <= s
  <2>1. n - t \in T
    OBVIOUS
  <2>2. ~(n - t < x)
    BY <1>3, <2>1
  <2> QED
    BY <1>4, <2>2
<1> QED
  BY <1>5

\* What the loop over a layer's pins leaves in slot_of: the slot of every expert that was pinned.
RightSlots(sl, ps) ==
    \A e \in Expert :
        /\ sl[e] > 0 <=> \E s \in DOMAIN ps : ps[s] = e
        /\ sl[e] > 0 => sl[e] \in DOMAIN ps /\ ps[sl[e]] = e

LEMMA SlotOfRight ==
    ASSUME NEW n \in Nat, NEW ps, DOMAIN ps \subseteq 1..n
    PROVE  SlotOf(ps) \in [Expert -> Nat] /\ RightSlots(SlotOf(ps), ps)
<1> DEFINE At(e) == {s \in DOMAIN ps : ps[s] = e}
<1>1. ASSUME NEW e \in Expert, At(e) # {}
      PROVE  SlotOf(ps)[e] \in At(e)
  <2>1. \E s \in At(e) : \A t \in At(e) : t <= s
    BY <1>1, Largest
  <2>2. \E s \in DOMAIN ps : ps[s] = e /\ \A t \in DOMAIN ps : ps[t] = e => t <= s
    BY <2>1
  <2> QED
    BY <2>2, <1>1 DEF SlotOf
<1>2. ASSUME NEW e \in Expert, At(e) = {}
      PROVE  SlotOf(ps)[e] = 0
  BY <1>2 DEF SlotOf
<1>3. \A e \in Expert : SlotOf(ps)[e] \in Nat
  <2> SUFFICES ASSUME NEW e \in Expert
               PROVE  SlotOf(ps)[e] \in Nat
    OBVIOUS
  <2>1. CASE At(e) = {}
    BY <1>2, <2>1
  <2>2. CASE At(e) # {}
    <3>1. SlotOf(ps)[e] \in 1..n
      BY <1>1, <2>2
    <3> QED
      BY <3>1
  <2> QED
    BY <2>1, <2>2
<1>4. SlotOf(ps) \in [Expert -> Nat]
  <2>1. SlotOf(ps) = [e \in Expert |-> SlotOf(ps)[e]]
    BY DEF SlotOf
  <2> QED
    BY <1>3, <2>1
<1>5. ASSUME NEW e \in Expert
      PROVE  /\ SlotOf(ps)[e] > 0 <=> At(e) # {}
             /\ SlotOf(ps)[e] > 0 => SlotOf(ps)[e] \in At(e)
  <2>1. \A k \in 1..n : k > 0
    OBVIOUS
  <2> QED
    BY <1>1, <1>2, <2>1
<1> QED
  BY <1>4, <1>5 DEF RightSlots

-----------------------------------------------------------------------------
(* Types *)

\* With what the setup keeps for TypeOK: the pins of a layer that got through are experts, and
\* their slots are theirs.
BookedRight ==
    pc # "ready" \/ active =>
        \A l \in has_pins : pins[l] \in Seq(Expert) /\ RightSlots(slot_of[l], pins[l])

\* What the flags say of each other.
FlagInv ==
    /\ ~attempted => pc = "ready" /\ has_pins = {} /\ n_serving = 0 /\ ~active
    /\ n_serving > 0 => has_pins # {}
    /\ active => pc \in {"ready", "armed"}
    /\ pc = "armed" => active
    /\ active /\ pc = "ready" => cpu_backend
    /\ pc # "crashed" => (buffer <=> pc \in {"fill", "armed"} \/ active)
    /\ pc # "ready" \/ active => file.kind = "ok"
    /\ pc \in {"tensors", "alloc", "fill", "armed"} \/ active => has_pins # {}

TypeInv == TypeOK /\ FlagInv /\ BookedRight

LEMMA TypeInit == Init => TypeInv
<1> SUFFICES ASSUME Init
             PROVE  TypeInv
  OBVIOUS
<1>1. /\ pins \in [Layer -> Seq(Int)]
      /\ pool \in [Layer -> Seq(Expert \cup {Zero, Stray})]
  BY DEF Init
<1>2. /\ slot_of \in [Layer -> [Expert -> Nat]]
      /\ slots \in [Layer -> [Expert -> Nat]]
      /\ cpu \in [Layer -> SUBSET Tensor]
      /\ zeroed \in [Layer -> Nat]
  BY DEF Init, NoSlots
<1>3. TypeOK
  <2>1. at \in Nat \ {0} /\ n_serving \in Nat /\ maxt \in Nat \ {0}
    BY DEF Init
  <2>2. /\ model \in SUBSET Model /\ loaded \in SUBSET Model /\ has_pins \in SUBSET Layer
        /\ file \in PinsFiles
    BY DEF Init
  <2>3. attempted \in BOOLEAN /\ active \in BOOLEAN /\ buffer \in BOOLEAN /\ cpu_backend \in BOOLEAN
    BY DEF Init
  <2> QED
    BY <1>1, <1>2, <2>1, <2>2, <2>3 DEF Init, TypeOK
<1>4. FlagInv /\ BookedRight
  BY DEF Init, FlagInv, BookedRight
<1> QED
  BY <1>3, <1>4 DEF TypeInv

LEMMA ElementOfSeq ==
    ASSUME NEW S, NEW s \in Seq(S), NEW i \in 1..Len(s)
    PROVE  s[i] \in S
OBVIOUS

LEMMA EntryType ==
    ASSUME TypeOK, at <= Len(file.entries)
    PROVE  file.entries[at].layer \in Int /\ file.entries[at].pins \in Seq(Int)
<1>1. file.entries \in Seq([layer : Int, pins : Seq(Int)])
  BY FileAssumption DEF TypeOK
<1>2. at \in 1..Len(file.entries)
  BY <1>1 DEF TypeOK
<1>3. file.entries[at] \in [layer : Int, pins : Seq(Int)]
  BY <1>1, <1>2, ElementOfSeq
<1> QED
  BY <1>3

LEMMA BookStep ==
    ASSUME TypeInv, BookEntry
    PROVE  TypeInv'
<1> USE DEF TypeInv
<1> DEFINE bp == file.entries[at]
           ok == Valid(bp.pins)
           taken == [s \in ok |-> bp.pins[s]]
<1>1. bp.layer \in Int /\ bp.pins \in Seq(Int)
  BY EntryType DEF BookEntry
<1>2. pc = "book" /\ ~active /\ attempted /\ file.kind = "ok" /\ ~buffer
  BY DEF BookEntry, FlagInv
<1>3. /\ at' = at + 1
      /\ UNCHANGED <<model, loaded, file, attempted, active, maxt, cpu, device, buffer, cpu_backend>>
  BY DEF BookEntry
<1>4. CASE bp.layer \notin Layer
  <2>1. pc' = pc /\ UNCHANGED book
    BY <1>4 DEF BookEntry
  <2>2. TypeOK'
    BY <1>2, <1>3, <2>1 DEF TypeOK, book, device
  <2>3. FlagInv' /\ BookedRight'
    BY <1>2, <1>3, <2>1 DEF FlagInv, BookedRight, book
  <2> QED
    BY <2>2, <2>3
<1>5. CASE bp.layer \in Layer
  <2> DEFINE l == bp.layer
  <2>1. /\ has_pins' = has_pins \cup {l}
        /\ pins' = [pins EXCEPT ![l] = bp.pins]
        /\ slot_of' = [slot_of EXCEPT ![l] = SlotOf(taken)]
        /\ IF ok = DOMAIN bp.pins
           THEN n_serving' = n_serving + 1 /\ pc' = pc
           ELSE n_serving' = n_serving /\ pc' = "ready"
    BY <1>5 DEF BookEntry
  <2>2. SlotOf(taken) \in [Expert -> Nat] /\ RightSlots(SlotOf(taken), taken)
    <3>1. DOMAIN taken \subseteq 1..Len(bp.pins) /\ Len(bp.pins) \in Nat
      BY <1>1 DEF Valid
    <3> HIDE DEF taken
    <3> QED
      BY <3>1, SlotOfRight
  <2>3. TypeOK'
    <3>1. pins' \in [Layer -> Seq(Int)]
      BY <1>1, <1>5, <2>1 DEF TypeOK
    <3>2. slot_of' \in [Layer -> [Expert -> Nat]]
      <4> HIDE DEF taken, l
      <4> QED
        BY <2>1, <2>2 DEF TypeOK
    <3>3. has_pins' \in SUBSET Layer /\ pc' \in {"book", "ready"} /\ n_serving' \in Nat
      BY <1>2, <1>5, <2>1 DEF TypeOK
    <3>4. at' \in Nat \ {0}
      BY <1>3 DEF TypeOK
    <3> QED
      BY <1>3, <3>1, <3>2, <3>3, <3>4 DEF TypeOK, device
  <2>4. FlagInv'
    BY <1>2, <1>3, <2>1 DEF FlagInv
  <2>5. ASSUME ok = DOMAIN bp.pins
        PROVE  bp.pins \in Seq(Expert) /\ taken = bp.pins
    <3>1. \A s \in DOMAIN bp.pins : bp.pins[s] \in Expert
      <4> SUFFICES ASSUME NEW s \in DOMAIN bp.pins
                   PROVE  bp.pins[s] \in Expert
        OBVIOUS
      <4>1. s \in 1..s
        BY <1>1
      <4> QED
        BY <2>5, <4>1 DEF Valid
    <3>2. taken = bp.pins
      BY <1>1, <2>5
    <3> QED
      BY <1>1, <3>1, <3>2
  <2>6. BookedRight'
    <3>1. CASE ok = DOMAIN bp.pins
      <4>1. pins'[l] = bp.pins /\ slot_of'[l] = SlotOf(taken)
        BY <1>5, <2>1 DEF TypeOK
      <4>2. pins'[l] \in Seq(Expert) /\ RightSlots(slot_of'[l], pins'[l])
        BY <2>2, <2>5, <3>1, <4>1
      <4>3. \A k \in has_pins : k # l => pins'[k] = pins[k] /\ slot_of'[k] = slot_of[k]
        BY <2>1 DEF TypeOK
      <4> HIDE DEF taken, l
      <4> QED
        BY <1>2, <2>1, <4>2, <4>3 DEF BookedRight
    <3>2. CASE ok # DOMAIN bp.pins
      BY <1>2, <1>3, <2>1, <3>2 DEF BookedRight
    <3> QED
      BY <3>1, <3>2
  <2> QED
    BY <2>3, <2>4, <2>6
<1> QED
  BY <1>4, <1>5

\* A slot table entry is a slot of the pool, also for an expert without one.
LEMMA TableType ==
    ASSUME TypeOK, NEW l \in Layer
    PROVE  SlotTable(l) \in [Expert -> Nat]
<1>1. slot_of[l] \in [Expert -> Nat] /\ Len(pins[l]) + 1 \in Nat
  BY DEF TypeOK
<1> QED
  BY <1>1 DEF SlotTable

LEMMA FillType ==
    ASSUME TypeInv, FillLayer
    PROVE  TypeInv'
<1> USE DEF TypeInv
<1>1. pc = "fill" /\ UNCHANGED <<pc, model, loaded, file, attempted, active, maxt, book, cpu, buffer, cpu_backend>>
  BY DEF FillLayer
<1>2. /\ pool' \in [Layer -> Seq(Expert \cup {Zero, Stray})]
      /\ slots' \in [Layer -> [Expert -> Nat]]
      /\ zeroed' \in [Layer -> Nat]
  <2>1. CASE at \notin has_pins
    BY <2>1 DEF FillLayer, TypeOK, device
  <2>2. CASE at \in has_pins
    <3>1. at \in Layer /\ pins[at] \in Seq(Expert)
      BY <1>1, <2>2 DEF TypeOK, BookedRight
    <3>2. PoolOf(at) \in Seq(Expert \cup {Zero, Stray})
      <4>1. Len(pins[at]) \in Nat /\ pins[at] \in Seq(Expert \cup {Zero, Stray})
        BY <3>1
      <4>2. [s \in 1..Len(pins[at]) |-> Stray] \in Seq(Expert \cup {Zero, Stray})
        BY <4>1
      <4> QED
        BY <4>1, <4>2 DEF PoolOf
    <3>3. SlotTable(at) \in [Expert -> Nat]
      BY <3>1, TableType
    <3>4. (IF maxt < ExpertRows THEN maxt ELSE ExpertRows) \in Nat
      BY SizeAssumption DEF TypeOK
    <3>5. \E p \in Seq(Expert \cup {Zero, Stray}) : pool' = [pool EXCEPT ![at] = p]
      BY <2>2, <3>2 DEF FillLayer
    <3>6. \E t \in [Expert -> Nat] : slots' = [slots EXCEPT ![at] = t]
      BY <2>2, <3>3 DEF FillLayer
    <3>7. \E z \in Nat : zeroed' = [zeroed EXCEPT ![at] = z]
      BY <2>2, <3>4 DEF FillLayer
    <3>8. pool' \in [Layer -> Seq(Expert \cup {Zero, Stray})]
      BY <3>5 DEF TypeOK
    <3>9. slots' \in [Layer -> [Expert -> Nat]]
      BY <3>6 DEF TypeOK
    <3> QED
      BY <3>7, <3>8, <3>9 DEF TypeOK
  <2> QED
    BY <2>1, <2>2
<1>3. TypeOK'
  <2>1. at' \in Nat \ {0}
    BY DEF FillLayer, TypeOK
  <2> QED
    BY <1>1, <1>2, <2>1 DEF TypeOK, book
<1>4. FlagInv' /\ BookedRight'
  BY <1>1 DEF FlagInv, BookedRight, book
<1> QED
  BY <1>3, <1>4

LEMMA TypeStep ==
    ASSUME TypeInv, [Next]_vars
    PROVE  TypeInv'
<1> USE DEF TypeInv
<1>1. CASE UNCHANGED vars
  BY <1>1 DEF vars, g, book, device, TypeOK, FlagInv, BookedRight
<1>2. ASSUME NEW m \in Model, LoadFirst(m)
      PROVE  TypeInv'
  <2>1. ~attempted /\ has_pins = {} /\ n_serving = 0 /\ ~active /\ ~buffer
    BY <1>2 DEF LoadFirst, FlagInv
  <2>2. maxt' \in Nat \ {0}
    <3>1. 1 \in Nat \ {0} /\ (~(MaxT < 1) => MaxT \in Nat \ {0})
      BY SizeAssumption
    <3> QED
      BY <1>2, <3>1 DEF LoadFirst, TypeOK
  <2>3. TypeOK'
    BY <1>2, <2>2 DEF LoadFirst, TypeOK, book, device
  <2>4. FlagInv' /\ BookedRight'
    BY <1>2, <2>1 DEF LoadFirst, FlagInv, BookedRight, book
  <2> QED
    BY <2>3, <2>4
<1>3. ASSUME NEW m \in Model, LoadLater(m) \/ FreeModel(m)
      PROVE  TypeInv'
  BY <1>3 DEF LoadLater, FreeModel, g, book, device, TypeOK, FlagInv, BookedRight
<1>4. CASE BookDone \/ TensorsDone \/ AllocPools \/ AllocFails \/ Arm \/ BackendReady \/ BackendFails
  <2>1. TypeOK'
    <3>1. CASE BookDone \/ TensorsDone \/ AllocPools
      <4>1. at' \in Nat \ {0} /\ pc' \in {"ready", "book", "tensors", "alloc", "fill", "armed"}
        BY <3>1 DEF BookDone, TensorsDone, AllocPools, TypeOK
      <4>2. UNCHANGED <<model, loaded, file, attempted, active, maxt, book, cpu, device, cpu_backend>> /\ buffer' \in BOOLEAN
        BY <3>1 DEF BookDone, TensorsDone, AllocPools, TypeOK, g, book, device
      <4> QED
        BY <4>1, <4>2 DEF book, device, TypeOK
    <3>2. CASE AllocFails \/ Arm
      BY <3>2 DEF AllocFails, Arm, g, book, device, TypeOK
    <3>3. CASE BackendReady \/ BackendFails
      BY <3>3 DEF BackendReady, BackendFails, book, device, TypeOK
    <3> QED
      BY <1>4, <3>1, <3>2, <3>3
  <2>2. FlagInv'
    BY <1>4 DEF BookDone, TensorsDone, AllocPools, AllocFails, Arm, BackendReady, BackendFails,
                g, book, FlagInv, TypeOK
  <2>3. BookedRight'
    BY <1>4 DEF BookDone, TensorsDone, AllocPools, AllocFails, Arm, BackendReady, BackendFails,
                g, book, FlagInv, BookedRight
  <2> QED
    BY <2>1, <2>2, <2>3
<1>5. CASE TakeTensors
  <2>1. /\ pc = "tensors" /\ pc' \in {"tensors", "ready"} /\ at' = at + 1
        /\ UNCHANGED <<model, loaded, file, attempted, active, maxt, book, device, buffer, cpu_backend>>
    BY <1>5 DEF TakeTensors
  <2>2. cpu' \in [Layer -> SUBSET Tensor]
    <3>1. cpu \in [Layer -> SUBSET Tensor]
      BY DEF TypeOK
    <3>2. TakenTensors(at) \subseteq SUBSET Tensor
      BY DEF TakenTensors, Tensor
    <3>3. CASE at \in has_pins
      <4>1. PICK kept \in TakenTensors(at) : cpu' = [cpu EXCEPT ![at] = kept]
        BY <1>5, <3>3 DEF TakeTensors
      <4> QED
        BY <3>1, <3>2, <4>1
    <3>4. CASE at \notin has_pins
      BY <1>5, <3>1, <3>4 DEF TakeTensors
    <3> QED
      BY <3>3, <3>4
  <2>3. TypeOK'
    BY <2>1, <2>2 DEF TypeOK, book, device
  <2>4. FlagInv' /\ BookedRight'
    BY <2>1 DEF FlagInv, BookedRight, book
  <2> QED
    BY <2>3, <2>4
<1>6. CASE Crash
  <2>1. pc \in {"tensors", "alloc", "fill"} /\ pc' = "crashed" /\ ~active
        /\ UNCHANGED <<at, model, loaded, file, g>>
    BY <1>6 DEF Crash, FlagInv
  <2>2. TypeOK'
    BY <2>1 DEF TypeOK, g, book, device
  <2>3. FlagInv' /\ BookedRight'
    BY <2>1 DEF FlagInv, BookedRight, g, book
  <2> QED
    BY <2>2, <2>3
<1> QED
  BY <1>1, <1>2, <1>3, <1>4, <1>5, <1>6, BookStep, FillType DEF Next

LEMMA TypeInvariant == Spec => []TypeInv
BY TypeInit, TypeStep, PTL DEF Spec

\* Types, for every pins file, well formed or not, and every BLOBPAGER_MAXT: what reaches a pool is
\* an expert of the model, or of a layer that the model does not have.
THEOREM TypeCorrect == Spec => []TypeOK
<1>1. TypeInv => TypeOK
  BY DEF TypeInv
<1> QED
  BY <1>1, TypeInvariant, PTL

\* However far a setup got before it failed, it keeps no device memory.
THEOREM NothingHeld == Spec => []FailedHoldsNothing
<1>1. TypeInv => FailedHoldsNothing
  BY DEF TypeInv, FlagInv, FailedHoldsNothing
<1> QED
  BY <1>1, TypeInvariant, PTL

-----------------------------------------------------------------------------
(* An active executor is ready *)

\* A layer's device side, once it is filled.
Filled(l) ==
    /\ pool[l] = Append(pins[l], Zero)
    /\ slots[l] = SlotTable(l)
    /\ ExpertRows > 0 => zeroed[l] > 0

\* How far the two loops got over the layers that the model has.
StageInv ==
    /\ pc = "tensors" => \A l \in has_pins \cap Own : l < at => cpu[l] = Tensor
    /\ pc = "alloc" => at = 1
    /\ pc \in {"alloc", "fill", "armed"} \/ active => \A l \in has_pins \cap Own : cpu[l] = Tensor
    /\ pc = "fill" => \A l \in has_pins \cap Own : l < at => Filled(l)
    /\ pc = "armed" \/ active => \A l \in has_pins \cap Own : Filled(l)

\* Layers are numbered up to NLayer, so a loop that is past NLayer has seen all of them.
LEMMA PastLast ==
    ASSUME TypeOK, at > NLayer
    PROVE  \A l \in has_pins : l < at
<1> SUFFICES ASSUME NEW l \in has_pins
             PROVE  l < at
  OBVIOUS
<1>1. l \in 1..NLayer /\ NLayer \in Nat /\ at \in Nat
  BY SizeAssumption DEF TypeOK, Layer
<1> QED
  BY <1>1

LEMMA TensorsStage ==
    ASSUME TypeInv, StageInv, TakeTensors
    PROVE  StageInv'
<1>1. /\ pc = "tensors" /\ pc' \in {"tensors", "ready"} /\ ~active' /\ at' = at + 1
      /\ UNCHANGED has_pins /\ Own' = Own
  BY DEF TakeTensors, TypeInv, FlagInv, book, Own
<1>2. ASSUME pc' = "tensors", NEW l \in has_pins \cap Own, l < at'
      PROVE  cpu'[l] = Tensor
  <2>0. l \in Layer /\ cpu \in [Layer -> SUBSET Tensor]
    BY DEF TypeInv, TypeOK
  <2>1. CASE l = at
    BY <1>2, <2>0, <2>1 DEF TakeTensors
  <2>2. CASE l # at
    <3>1. l < at
      <4>1. l \in Nat /\ at \in Nat
        BY DEF TypeInv, TypeOK, Layer
      <4> QED
        BY <1>1, <1>2, <2>2, <4>1
    <3>2. cpu[l] = Tensor
      BY <1>1, <3>1 DEF StageInv
    <3> QED
      BY <2>0, <2>2, <3>2 DEF TakeTensors
  <2> QED
    BY <2>1, <2>2
<1> QED
  BY <1>1, <1>2 DEF StageInv

LEMMA FillStage ==
    ASSUME TypeInv, StageInv, FillLayer
    PROVE  StageInv'
<1>1. /\ pc = "fill" /\ pc' = "fill" /\ ~active' /\ at' = at + 1
      /\ UNCHANGED <<has_pins, pins, slot_of, cpu>> /\ Own' = Own
  BY DEF FillLayer, TypeInv, FlagInv, book, Own
<1>2. ASSUME NEW l \in has_pins \cap Own, l < at'
      PROVE  Filled(l)'
  <2>1. l \in Layer
    BY DEF TypeInv, TypeOK
  <2>2. CASE l = at
    <3>1. /\ pool'[l] = PoolOf(l)
          /\ slots'[l] = SlotTable(l)
          /\ zeroed'[l] = IF maxt < ExpertRows THEN maxt ELSE ExpertRows
      BY <2>1, <2>2 DEF FillLayer, TypeInv, TypeOK
    <3>4. PoolOf(l) = Append(pins[l], Zero)
      BY DEF PoolOf
    <3>2. ExpertRows > 0 => zeroed'[l] > 0
      BY <3>1, SizeAssumption DEF TypeInv, TypeOK
    <3>3. SlotTable(l)' = SlotTable(l)
      BY <1>1 DEF SlotTable
    <3> QED
      BY <1>1, <3>1, <3>2, <3>3, <3>4 DEF Filled
  <2>3. CASE l # at
    <3>1. l < at
      <4>1. l \in Nat /\ at \in Nat
        BY <2>1 DEF TypeInv, TypeOK, Layer
      <4> QED
        BY <1>1, <1>2, <2>3, <4>1
    <3>2. Filled(l)
      BY <1>1, <3>1 DEF StageInv
    <3>3. pool'[l] = pool[l] /\ slots'[l] = slots[l] /\ zeroed'[l] = zeroed[l]
      BY <2>1, <2>3 DEF FillLayer, TypeInv, TypeOK, device
    <3>4. SlotTable(l)' = SlotTable(l)
      BY <1>1 DEF SlotTable
    <3> QED
      BY <1>1, <3>2, <3>3, <3>4 DEF Filled
  <2> QED
    BY <2>2, <2>3
<1> QED
  BY <1>1, <1>2 DEF StageInv

\* Steps that leave the layers' data alone.
LEMMA OtherStage ==
    ASSUME TypeInv, StageInv, UNCHANGED <<has_pins, pins, slot_of, cpu, device>>,
           Own' = Own \/ ~active',
           \/ pc' \in {"ready", "book", "crashed"} /\ (active' => active)
           \/ BookDone \/ TensorsDone \/ AllocPools \/ Arm
    PROVE  StageInv'
<1>1. \A l : Filled(l)' = Filled(l)
  BY DEF Filled, SlotTable, device
<1>2. CASE pc' \in {"ready", "book", "crashed"} /\ (active' => active)
  BY <1>1, <1>2 DEF StageInv
<1>3. CASE BookDone
  <2>1. pc' \in {"ready", "tensors"} /\ at' = 1 /\ ~active'
    BY <1>3 DEF BookDone, TypeInv, FlagInv, g
  <2>2. \A l \in has_pins : ~(l < 1)
    BY SizeAssumption DEF TypeInv, TypeOK, Layer
  <2> QED
    BY <2>1, <2>2 DEF StageInv
<1>4. CASE TensorsDone
  <2>1. pc = "tensors" /\ pc' = "alloc" /\ at' = 1 /\ ~active' /\ Own' = Own
        /\ \A l \in has_pins : l < at
    BY <1>4, PastLast DEF TensorsDone, TypeInv, FlagInv, g, Own
  <2> QED
    BY <2>1 DEF StageInv
<1>5. CASE AllocPools
  <2>1. pc = "alloc" /\ pc' = "fill" /\ at' = 1 /\ ~active' /\ Own' = Own
    BY <1>5 DEF AllocPools, TypeInv, FlagInv, StageInv, Own
  <2>2. \A l \in has_pins : ~(l < 1)
    BY SizeAssumption DEF TypeInv, TypeOK, Layer
  <2> QED
    BY <2>1, <2>2 DEF StageInv
<1>6. CASE Arm
  <2>1. pc = "fill" /\ pc' = "armed" /\ Own' = Own /\ \A l \in has_pins : l < at
    BY <1>6, PastLast DEF Arm, TypeInv, Own
  <2> QED
    BY <1>1, <2>1 DEF StageInv
<1> QED
  BY <1>2, <1>3, <1>4, <1>5, <1>6

LEMMA StageStep ==
    ASSUME TypeInv, StageInv, [Next]_vars
    PROVE  StageInv'
<1>1. CASE UNCHANGED vars
  BY <1>1 DEF vars, g, book, device, StageInv, Filled, SlotTable, Own
<1>2. ASSUME NEW m \in Model, LoadFirst(m)
      PROVE  StageInv'
  <2>1. pc' \in {"ready", "book"} /\ UNCHANGED <<has_pins, pins, slot_of, cpu, device, active>>
        /\ ~active'
    BY <1>2 DEF LoadFirst, book, TypeInv, FlagInv
  <2> QED
    BY <2>1, OtherStage
<1>3. ASSUME NEW m \in Model, LoadLater(m) \/ FreeModel(m)
      PROVE  StageInv'
  <2>1. pc' = "ready" /\ UNCHANGED <<has_pins, pins, slot_of, cpu, device, active>> /\ Own' = Own
    BY <1>3 DEF LoadLater, FreeModel, g, book, Own
  <2> QED
    BY <2>1, OtherStage
<1>4. CASE BookEntry
  <2>1. pc' \in {"ready", "book"} /\ ~active'
    BY <1>4 DEF BookEntry, TypeInv, FlagInv
  <2> QED
    BY <2>1 DEF StageInv
<1>5. CASE AllocFails \/ BackendReady \/ BackendFails \/ Crash
  <2>1. /\ pc' \in {"ready", "crashed"} /\ (active' => active) /\ Own' = Own
        /\ UNCHANGED <<has_pins, pins, slot_of, cpu, device>>
    BY <1>5 DEF AllocFails, BackendReady, BackendFails, Crash, g, book, Own
  <2> QED
    BY <2>1, OtherStage
<1>6. CASE BookDone \/ TensorsDone \/ AllocPools \/ Arm
  <2>1. UNCHANGED <<has_pins, pins, slot_of, cpu, device>> /\ Own' = Own
    BY <1>6 DEF BookDone, TensorsDone, AllocPools, Arm, g, book, Own
  <2> QED
    BY <1>6, <2>1, OtherStage
<1> QED
  BY <1>1, <1>2, <1>3, <1>4, <1>5, <1>6, TensorsStage, FillStage DEF Next

\* What the table says of an expert is where its bytes are in the pool.
LEMMA FilledReady ==
    ASSUME TypeInv, NEW l \in has_pins, Filled(l), cpu[l] = Tensor,
           pins[l] \in Seq(Expert), RightSlots(slot_of[l], pins[l])
    PROVE  LayerReady(l)
<1>1. ASSUME NEW e \in Expert
      PROVE  /\ slot_of[l][e] > 0 <=> e \in Pinned(l)
             /\ slots[l][e] \in DOMAIN pool[l]
             /\ pool[l][slots[l][e]] = IF e \in Pinned(l) THEN e ELSE Zero
  <2> DEFINE n == Len(pins[l])
  <2>1. slot_of[l][e] > 0 <=> e \in Pinned(l)
    BY DEF RightSlots, Pinned
  <2>2. /\ DOMAIN pool[l] = 1..(n + 1) /\ pool[l][n + 1] = Zero
        /\ \A i \in 1..n : pool[l][i] = pins[l][i]
    BY DEF Filled
  <2>3. n \in Nat /\ DOMAIN pins[l] = 1..n
    OBVIOUS
  <2>4. slots[l][e] = IF slot_of[l][e] > 0 THEN slot_of[l][e] ELSE n + 1
    BY DEF Filled, SlotTable
  <2>5. CASE slot_of[l][e] > 0
    <3>1. slots[l][e] \in 1..n /\ pins[l][slots[l][e]] = e
      BY <2>3, <2>4, <2>5 DEF RightSlots
    <3> HIDE DEF n
    <3>2. slots[l][e] \in 1..(n + 1)
      BY <2>3, <3>1
    <3> QED
      BY <2>1, <2>2, <2>5, <3>1, <3>2
  <2>6. CASE ~(slot_of[l][e] > 0)
    <3> HIDE DEF n
    <3>1. n + 1 \in 1..(n + 1)
      BY <2>3
    <3> QED
      BY <2>1, <2>2, <2>4, <2>6, <3>1
  <2> QED
    BY <2>1, <2>5, <2>6
<1> QED
  BY <1>1 DEF LayerReady, Filled

\* With an active executor every pinned layer of the model has its slots, pools, tables and matrices
\* in agreement, which is what HybridMoE and the graph take for granted: for every pins file, also
\* one with layers that the model does not have, whatever was read in their place.
THEOREM Ready == Spec => []ActiveMeansReady
<1>1. Init => StageInv
  BY DEF Init, StageInv
<1>2. TypeInv /\ StageInv /\ [Next]_vars => StageInv'
  BY StageStep
<1>3. TypeInv /\ StageInv => ActiveMeansReady
  <2> SUFFICES ASSUME TypeInv, StageInv, active, pc = "ready"
               PROVE  /\ file.kind = "ok" /\ has_pins # {}
                      /\ buffer /\ cpu_backend
                      /\ \A l \in has_pins \cap Own : LayerReady(l)
    BY DEF ActiveMeansReady
  <2>1. file.kind = "ok" /\ has_pins # {} /\ buffer /\ cpu_backend
    BY DEF TypeInv, FlagInv
  <2>2. \A l \in has_pins \cap Own :
                           /\ Filled(l) /\ cpu[l] = Tensor
                           /\ pins[l] \in Seq(Expert) /\ RightSlots(slot_of[l], pins[l])
    BY DEF StageInv, TypeInv, BookedRight
  <2> QED
    BY <2>1, <2>2, FilledReady
<1> QED
  BY <1>1, <1>2, <1>3, TypeInvariant, PTL DEF Spec
=============================================================================
