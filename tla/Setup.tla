-------------------------------- MODULE Setup --------------------------------
(***************************************************************************)
(* llama_blobpager_setup, called whenever a model of the process has been  *)
(* loaded: the pins file becomes per-layer bookkeeping, pools and slot     *)
(* tables, or the setup stops at one of its early returns and the          *)
(* executor stays off.  Everything HybridMoE takes for granted about its   *)
(* pools is established here.                                              *)
(*                                                                         *)
(* Slots are counted from 1; where the code has -1 for "no slot" the model *)
(* has 0.  The bytes of an expert are its id, those of the dummy slot an   *)
(* id no expert has, and those of a matrix the model does not have another.*)
(***************************************************************************)
EXTENDS Integers, Sequences

CONSTANTS
    Model,       \* the models the process may load
    NLayer,      \* LLAMA_MAX_LAYERS
    NExpert,     \* experts per layer
    Gpu,         \* models with a GPU device
    NLayerAll,   \* model -> the length of its vector of layers, n_layer_all
    Host,        \* model -> layer -> its expert tensors (of Tensor) in host memory
    PinsFiles,   \* what BLOBPAGER_PINS may name
    MaxT,        \* BLOBPAGER_MAXT, as given
    ExpertRows   \* correction rows that the bytes of the largest expert matrix cover

Layer  == 1..NLayer
Expert == 0..(NExpert - 1)
Tensor == 1..3      \* up, gate, down
Zero   == NExpert
Stray  == NExpert + 1

Unset   == [kind |-> "unset", entries |-> <<>>]
Garbled == [kind |-> "garbled", entries |-> <<>>]

ASSUME SizeAssumption ==
    /\ NLayer \in Nat \ {0} /\ NExpert \in Nat \ {0} /\ ExpertRows \in Nat
    /\ MaxT \in Int

ASSUME ModelAssumption ==
    /\ Gpu \subseteq Model
    /\ NLayerAll \in [Model -> Layer]
    /\ DOMAIN Host = Model
    /\ \A m \in Model : Host[m] \in [1..NLayerAll[m] -> SUBSET Tensor]

ASSUME FileAssumption ==
    PinsFiles \subseteq
        [kind : {"ok", "unset", "garbled"}, entries : Seq([layer : Int, pins : Seq(Int)])]

VARIABLES
    pc,           \* "ready" | "book" | "tensors" | "alloc" | "fill" | "armed" | "crashed"
    at,           \* the entry of the file, or the layer, that the setup is at
    model,        \* the model it was called for: a set, empty before the first call
    loaded,       \* models in memory
    file,         \* the file BLOBPAGER_PINS names
    attempted, active, n_serving, maxt,
    has_pins,     \* layers with an entry
    pins,         \* layer -> slot -> expert
    slot_of,      \* layer -> expert -> slot, or 0
    cpu,          \* layer -> the tensors whose addresses were kept
    pool,         \* layer -> slot -> whose bytes it holds
    slots,        \* layer -> the slot table on the device
    zeroed,       \* layer -> rows of the correction set to zero at least: a stray matrix may
                  \* be larger than the model's, and more are
    buffer,       \* the device buffer of the pools is allocated
    cpu_backend   \* the backend of the miss passes exists

book   == <<n_serving, has_pins, pins, slot_of>>
device == <<pool, slots, zeroed>>
g      == <<attempted, active, maxt, book, cpu, device, buffer, cpu_backend>>
vars   == <<pc, at, model, loaded, file, g>>

-----------------------------------------------------------------------------

NoSlots == [e \in Expert |-> 0]

\* The slot of each expert after the loop over a layer's pins: a later pin of the same expert wins
SlotOf(ps) ==
    [e \in Expert |->
        IF \E s \in DOMAIN ps : ps[s] = e
        THEN CHOOSE s \in DOMAIN ps : ps[s] = e /\ \A t \in DOMAIN ps : ps[t] = e => t <= s
        ELSE 0]

\* The pins before the first that is no expert of the model
Valid(ps) == {s \in DOMAIN ps : \A t \in 1..s : ps[t] \in Expert}

\* (mutant: slot numbers are compared as if 0 were "no slot", which loses the first slot)
SlotTable_LosesFirst(l) ==
    [e \in Expert |-> IF slot_of[l][e] > 1 THEN slot_of[l][e] ELSE Len(pins[l]) + 1]
\* expert -> slot, miss -> the dummy slot behind the pins
SlotTable(l) ==
    [e \in Expert |-> IF slot_of[l][e] > 0 THEN slot_of[l][e] ELSE Len(pins[l]) + 1]

\* The layers of the model; one that the file lists and Layer bounds may lie behind them
Own == UNION {1..NLayerAll[m] : m \in model}

\* What the walk over a layer's three tensors can keep: those before the first that is missing
\* or not in host memory.  Behind the vector of layers it reads whatever is there.
TakenTensors(l) ==
    IF l \in Own THEN {{t \in Tensor : \E m \in model : 1..t \subseteq Host[m][l]}}
                 ELSE {1..n : n \in 0..3}

\* The bytes in a layer's pools, the dummy slot last
PoolOf(l) ==
    Append(IF l \in Own THEN pins[l] ELSE [s \in 1..Len(pins[l]) |-> Stray], Zero)

Init ==
    /\ pc = "ready" /\ at = 1 /\ model = {} /\ loaded = {}
    /\ file \in PinsFiles
    /\ attempted = FALSE /\ active = FALSE /\ n_serving = 0 /\ maxt = 8
    /\ has_pins = {}
    /\ pins = [l \in Layer |-> <<>>]
    /\ slot_of = [l \in Layer |-> NoSlots]
    /\ cpu = [l \in Layer |-> {}]
    /\ pool = [l \in Layer |-> <<>>]
    /\ slots = [l \in Layer |-> NoSlots]
    /\ zeroed = [l \in Layer |-> 0]
    /\ buffer = FALSE /\ cpu_backend = FALSE

\* The first model is loaded: read the environment and the file, look for a device
LoadFirst(m) ==
    /\ pc = "ready" /\ m \notin loaded
    /\ ~attempted
    /\ attempted' = TRUE
    /\ loaded' = loaded \cup {m} /\ model' = {m}
    /\ maxt' = IF file.kind = "unset" THEN maxt ELSE IF MaxT < 1 THEN 1 ELSE MaxT
    /\ pc' = IF file.kind = "ok" /\ file.entries # <<>> /\ m \in Gpu THEN "book" ELSE "ready"
    /\ at' = 1
    /\ UNCHANGED <<file, active, book, cpu, device, buffer, cpu_backend>>

\* Any later load finds that setup has been attempted
LoadLater(m) ==
    /\ pc = "ready" /\ m \notin loaded
    /\ attempted
    /\ loaded' = loaded \cup {m}
    /\ UNCHANGED <<pc, at, model, file, g>>

\* A model is freed; nothing in g is told
FreeModel(m) ==
    /\ pc = "ready" /\ m \in loaded
    /\ loaded' = loaded \ {m}
    /\ UNCHANGED <<pc, at, model, file, g>>

\* (mutant: a pin is not checked against the number of experts)
BookEntry_AnyPin ==
    /\ pc = "book" /\ at <= Len(file.entries)
    /\ LET bp == file.entries[at] IN
         IF bp.layer \in Layer
         THEN /\ has_pins' = has_pins \cup {bp.layer}
              /\ pins' = [pins EXCEPT ![bp.layer] = bp.pins]
              /\ slot_of' = [slot_of EXCEPT ![bp.layer] = SlotOf(bp.pins)]
              /\ n_serving' = n_serving + 1
         ELSE UNCHANGED book
    /\ pc' = pc /\ at' = at + 1
    /\ UNCHANGED <<model, loaded, file, attempted, active, maxt, cpu, device, buffer, cpu_backend>>
\* One entry of the file: skipped if there is no such layer; a pin that is no expert ends the setup
BookEntry ==
    /\ pc = "book" /\ at <= Len(file.entries)
    /\ LET bp == file.entries[at]
           ok == Valid(bp.pins)
       IN  IF bp.layer \in Layer
           THEN /\ has_pins' = has_pins \cup {bp.layer}
                /\ pins' = [pins EXCEPT ![bp.layer] = bp.pins]
                /\ slot_of' = [slot_of EXCEPT ![bp.layer] = SlotOf([s \in ok |-> bp.pins[s]])]
                /\ IF ok = DOMAIN bp.pins
                   THEN n_serving' = n_serving + 1 /\ pc' = pc
                   ELSE n_serving' = n_serving /\ pc' = "ready"
           ELSE pc' = pc /\ UNCHANGED book
    /\ at' = at + 1
    /\ UNCHANGED <<model, loaded, file, attempted, active, maxt, cpu, device, buffer, cpu_backend>>

BookDone ==
    /\ pc = "book" /\ at > Len(file.entries)
    /\ pc' = IF n_serving = 0 THEN "ready" ELSE "tensors"
    /\ at' = 1
    /\ UNCHANGED <<model, loaded, file, g>>

\* The expert tensors of one layer; one that cannot be used ends the setup
TakeTensors ==
    /\ pc = "tensors" /\ at <= NLayer
    /\ IF at \in has_pins
       THEN \E kept \in TakenTensors(at) :
              /\ cpu' = [cpu EXCEPT ![at] = kept]
              /\ pc' = IF kept = Tensor THEN pc ELSE "ready"
       ELSE UNCHANGED <<cpu, pc>>
    /\ at' = at + 1
    /\ UNCHANGED <<model, loaded, file, attempted, active, maxt, book, device, buffer, cpu_backend>>

\* What was read behind the vector of layers is dereferenced, there and in the loops that follow
Crash ==
    /\ \/ pc = "tensors" /\ at \in has_pins \ Own
       \/ pc \in {"alloc", "fill"} /\ has_pins \ Own # {}
    /\ pc' = "crashed"
    /\ UNCHANGED <<at, model, loaded, file, g>>

TensorsDone ==
    /\ pc = "tensors" /\ at > NLayer
    /\ pc' = "alloc" /\ at' = 1
    /\ UNCHANGED <<model, loaded, file, g>>

\* One buffer for all pools, tables and corrections, or none
AllocPools ==
    /\ pc = "alloc"
    /\ pc' = "fill" /\ buffer' = TRUE
    /\ UNCHANGED <<at, model, loaded, file, attempted, active, maxt, book, cpu, device, cpu_backend>>

AllocFails ==
    /\ pc = "alloc"
    /\ pc' = "ready"
    /\ UNCHANGED <<at, model, loaded, file, g>>

\* Pools, table and correction of one layer; the correction gets one write of at most the
\* bytes of the largest expert matrix
FillLayer ==
    /\ pc = "fill" /\ at <= NLayer
    /\ IF at \in has_pins
       THEN /\ pool' = [pool EXCEPT ![at] = PoolOf(at)]
            /\ slots' = [slots EXCEPT ![at] = SlotTable(at)]
            /\ zeroed' = [zeroed EXCEPT ![at] = IF maxt < ExpertRows THEN maxt ELSE ExpertRows]
       ELSE UNCHANGED device
    /\ at' = at + 1
    /\ UNCHANGED <<pc, model, loaded, file, attempted, active, maxt, book, cpu, buffer, cpu_backend>>

\* The pools are read back and compared, which decides nothing; the executor is armed
Arm ==
    /\ pc = "fill" /\ at > NLayer
    /\ active' = TRUE
    /\ pc' = "armed"
    /\ UNCHANGED <<at, model, loaded, file, attempted, maxt, book, cpu, device, buffer, cpu_backend>>

BackendReady ==
    /\ pc = "armed"
    /\ cpu_backend' = TRUE
    /\ pc' = "ready"
    /\ UNCHANGED <<at, model, loaded, file, attempted, active, maxt, book, cpu, device, buffer>>

\* (mutant: the buffer is not freed)
BackendFails_KeepsBuffer ==
    /\ pc = "armed"
    /\ active' = FALSE
    /\ pc' = "ready"
    /\ UNCHANGED <<at, model, loaded, file, attempted, maxt, book, cpu, device, buffer, cpu_backend>>
\* No CPU backend: the executor is disarmed and its buffer freed
BackendFails ==
    /\ pc = "armed"
    /\ active' = FALSE /\ buffer' = FALSE
    /\ pc' = "ready"
    /\ UNCHANGED <<at, model, loaded, file, attempted, maxt, book, cpu, device, cpu_backend>>

Next ==
    \/ \E m \in Model : LoadFirst(m) \/ LoadLater(m) \/ FreeModel(m)
    \/ BookEntry \/ BookDone \/ TakeTensors \/ TensorsDone \/ Crash
    \/ AllocPools \/ AllocFails \/ FillLayer \/ Arm \/ BackendReady \/ BackendFails

Spec == Init /\ [][Next]_vars

-----------------------------------------------------------------------------
(* Properties *)

\* Types; what a pool holds is an expert of the model, zeros, or what was read as a matrix
\* the model does not have.
TypeOK ==
    /\ pc \in {"ready", "book", "tensors", "alloc", "fill", "armed", "crashed"}
    /\ at \in Nat \ {0} /\ model \in SUBSET Model /\ loaded \in SUBSET Model
    /\ file \in PinsFiles
    /\ attempted \in BOOLEAN /\ active \in BOOLEAN /\ buffer \in BOOLEAN /\ cpu_backend \in BOOLEAN
    /\ n_serving \in Nat /\ maxt \in Nat \ {0}
    /\ has_pins \in SUBSET Layer
    /\ pins \in [Layer -> Seq(Int)]
    /\ slot_of \in [Layer -> [Expert -> Nat]]
    /\ cpu \in [Layer -> SUBSET Tensor]
    /\ pool \in [Layer -> Seq(Expert \cup {Zero, Stray})]
    /\ slots \in [Layer -> [Expert -> Nat]]
    /\ zeroed \in [Layer -> Nat]

Pinned(l) == {pins[l][s] : s \in DOMAIN pins[l]}

\* A layer is ready when the miss pass, which asks slot_of, and the graph, which goes through
\* the slot table into the pool, divide the experts the same way: a pinned expert finds its own
\* bytes, any other the zero slot, and its matrices are at hand for the pass.
LayerReady(l) ==
    /\ \A e \in Expert :
         /\ slot_of[l][e] > 0 <=> e \in Pinned(l)
         /\ slots[l][e] \in DOMAIN pool[l]
         /\ pool[l][slots[l][e]] = IF e \in Pinned(l) THEN e ELSE Zero
    /\ cpu[l] = Tensor
    /\ ExpertRows > 0 => zeroed[l] > 0

\* llama-blobpager.h:30, "true once setup succeeded (BLOBPAGER_PINS set, pools allocated and
\* filled)": with an active executor every layer of the model that the file lists is ready,
\* whatever else it lists -- layers or pins twice, layers beyond LLAMA_MAX_LAYERS, and layers
\* below it that the model does not have, if reading those did not end the program.
ActiveMeansReady ==
    active /\ pc = "ready" =>
        /\ file.kind = "ok" /\ has_pins # {}
        /\ buffer /\ cpu_backend
        /\ \A l \in has_pins \cap Own : LayerReady(l)

\* A setup that failed at any step, however much of its bookkeeping it leaves behind,
\* holds no device memory.
FailedHoldsNothing == pc = "ready" /\ ~active => ~buffer
=============================================================================
