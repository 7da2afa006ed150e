----------------------------- MODULE RoutingTrace -----------------------------
(***************************************************************************)
(* From prompts to pins: the tracer runs a corpus through the model and    *)
(* writes down, from an evaluation callback, the experts each layer drew   *)
(* for each token; blobpack_manifest.py ranks a layer's experts by how     *)
(* often they were drawn, and emit_pins.py makes the pins file of it that  *)
(* llama_blobpager_setup reads.                                            *)
(*                                                                         *)
(* Layers and ranks count from 1, positions from 0.  A router's output for *)
(* a token is a ranking of all experts, of which the first NUsed are drawn.*)
(***************************************************************************)
EXTENDS Integers, Sequences, FiniteSets, TLC

CONSTANTS
    NLayer,    \* layers with experts
    NExpert,   \* experts per layer
    NUsed,     \* experts drawn per token
    Rankings,  \* orders a router may put the experts in
    Corpora,   \* what the corpus may be: the token counts of its lines
    NCtx,      \* -c
    NBatch,    \* -b
    NUbatch,   \* -ub
    PinLen,    \* --pins of blobpack_manifest.py
    EmitLen    \* the list emit_pins.py looks for, pins_top96

Layer  == 1..NLayer
Expert == 0..(NExpert - 1)

ASSUME SizeAssumption ==
    /\ NLayer \in Nat \ {0} /\ NExpert \in Nat \ {0}
    /\ NUsed \in 1..NExpert
    /\ NCtx \in Nat \ {0} /\ NBatch \in Nat \ {0} /\ NUbatch \in 1..NBatch
    /\ PinLen \in Nat \ {0} /\ EmitLen \in Nat \ {0}

ASSUME InputAssumption ==
    /\ Corpora \subseteq Seq(Nat)
    /\ \A r \in Rankings : /\ r \in [1..NExpert -> Expert]
                           /\ \A i, j \in 1..NExpert : r[i] = r[j] => i = j

VARIABLES
    pc,         \* "line" | "ubatch" | "layer" | "traced" | "failed" | "ranked" | "emitted" | "asserted"
    corpus,     \* token counts of the corpus' lines
    at_line,    \* lines read
    req_idx,    \* request in flight, or next
    req_len,    \* its tokens
    start,      \* where its current micro-batch starts
    at_layer,   \* the layer the graph is at
    trace,      \* the records written, in order
    n_records, n_skip, n_aux,
    manifest,   \* layer -> its pin list; empty: none
    file,       \* the pins file: its entries, in order
    drawn       \* (what the routers really drew: layer -> expert -> how often)

counters == <<n_records, n_skip, n_aux>>
vars == <<pc, corpus, at_line, req_idx, req_len, start, at_layer, trace, counters,
          manifest, file, drawn>>

-----------------------------------------------------------------------------

AtMost(n, bound) == IF n < bound THEN n ELSE bound

Init ==
    /\ pc = "line"
    /\ corpus \in Corpora
    /\ at_line = 0 /\ req_idx = 0 /\ req_len = 0 /\ start = 0 /\ at_layer = 1
    /\ trace = <<>>
    /\ n_records = 0 /\ n_skip = 0 /\ n_aux = 0
    /\ manifest = [l \in Layer |-> <<>>]
    /\ file = <<>>
    /\ drawn = [l \in Layer |-> [e \in Expert |-> 0]]

\* (mutant: a request longer than a batch is not cut)
Tokens_Uncut(n) == AtMost(n, NCtx)
\* What is left of a line's tokens
Tokens(n) == AtMost(AtMost(n, NCtx), NBatch)

\* A line without tokens is passed over
EmptyLine ==
    /\ pc = "line" /\ at_line < Len(corpus)
    /\ corpus[at_line + 1] = 0
    /\ at_line' = at_line + 1
    /\ UNCHANGED <<pc, corpus, req_idx, req_len, start, at_layer, trace, counters,
                   manifest, file, drawn>>

\* Any other line is a request: the KV cache is cleared and one batch decoded
Request ==
    /\ pc = "line" /\ at_line < Len(corpus)
    /\ corpus[at_line + 1] > 0
    /\ at_line' = at_line + 1
    /\ req_len' = Tokens(corpus[at_line + 1])
    /\ start' = 0
    /\ pc' = "ubatch"
    /\ UNCHANGED <<corpus, req_idx, at_layer, trace, counters, manifest, file, drawn>>

UbatchTokens == AtMost(req_len - start, NUbatch)
IsLastUbatch == start + UbatchTokens = req_len

Ubatch ==
    /\ pc = "ubatch"
    /\ pc' = "layer" /\ at_layer' = 1
    /\ UNCHANGED <<corpus, at_line, req_idx, req_len, start, trace, counters,
                   manifest, file, drawn>>

\* The rows of a layer's routing: in the last layer only the batch's last token, which
\* is the only one whose output is wanted
Rows ==
    IF at_layer < NLayer THEN UbatchTokens
    ELSE IF IsLastUbatch THEN 1 ELSE 0

\* (mutant: a pointer that starts one id late)
Ids_OneLate(r, j) == [k \in 1..NUsed |-> r[((j * NUsed + k) \div NExpert) + 1][((j * NUsed + k) % NExpert) + 1]]
\* The ids written for position j: elements j*NUsed.. of the memory where row after row of
\* NExpert ids begins
Ids(r, j) ==
    [k \in 1..NUsed |->
        LET i == j * NUsed + k - 1 IN r[(i \div NExpert) + 1][(i % NExpert) + 1]]

Record(j, exp) == [req |-> req_idx, pos |-> j, layer |-> at_layer, exp |-> exp]

\* (mutant: whatever has one row is written down)
TraceCb_OneRowToo(n, r) ==
    IF n # req_len /\ n # 1
    THEN /\ n_skip' = n_skip + 1
         /\ UNCHANGED <<n_aux, trace, n_records>>
    ELSE /\ trace' = trace \o [j \in 1..n |-> Record(j - 1, Ids(r, j - 1))]
         /\ n_records' = n_records + n
         /\ UNCHANGED <<n_skip, n_aux>>
\* trace_cb for n rows r
TraceCb(n, r) ==
    IF n # req_len
    THEN /\ IF n = 1 /\ req_len > 1
            THEN n_aux' = n_aux + 1 /\ n_skip' = n_skip
            ELSE n_skip' = n_skip + 1 /\ n_aux' = n_aux
         /\ UNCHANGED <<trace, n_records>>
    ELSE /\ trace' = trace \o [j \in 1..n |-> Record(j - 1, Ids(r, j - 1))]
         /\ n_records' = n_records + n
         /\ UNCHANGED <<n_skip, n_aux>>

Drew(r, n, e) == Cardinality({j \in 1..n : \E k \in 1..NUsed : r[j][k] = e})

\* The graph reaches a layer's top-k node and hands it to the callback
Route ==
    /\ pc = "layer" /\ at_layer <= NLayer
    /\ \E r \in [1..Rows -> Rankings] :
         /\ TraceCb(Rows, r)
         /\ drawn' = [drawn EXCEPT ![at_layer] = [e \in Expert |-> @[e] + Drew(r, Rows, e)]]
    /\ at_layer' = at_layer + 1
    /\ UNCHANGED <<pc, corpus, at_line, req_idx, req_len, start, manifest, file>>

UbatchDone ==
    /\ pc = "layer" /\ at_layer > NLayer
    /\ start' = start + UbatchTokens
    /\ IF IsLastUbatch THEN pc' = "line" /\ req_idx' = req_idx + 1
                       ELSE pc' = "ubatch" /\ req_idx' = req_idx
    /\ at_layer' = 1
    /\ UNCHANGED <<corpus, at_line, req_len, trace, counters, manifest, file, drawn>>

\* The decode fails, and with it the tracer; what was written stays
DecodeFails ==
    /\ pc \in {"ubatch", "layer"}
    /\ pc' = "failed"
    /\ UNCHANGED <<corpus, at_line, req_idx, req_len, start, at_layer, trace, counters,
                   manifest, file, drawn>>

TraceDone ==
    /\ pc = "line" /\ at_line = Len(corpus)
    /\ pc' = "traced"
    /\ UNCHANGED <<corpus, at_line, req_idx, req_len, start, at_layer, trace, counters,
                   manifest, file, drawn>>

-----------------------------------------------------------------------------
(* The Python tools. *)

\* Where an expert occurs in a layer's stream of draws: (record, rank)
Occurs(l, e) ==
    {o \in (DOMAIN trace) \X (1..NUsed) : trace[o[1]].layer = l /\ trace[o[1]].exp[o[2]] = e}

Count(l, e) == Cardinality(Occurs(l, e))

SeenBefore(l, e, f) ==
    \E o \in Occurs(l, e) : \A p \in Occurs(l, f) :
        o[1] < p[1] \/ (o[1] = p[1] /\ o[2] < p[2])

\* A set's elements, each before those that follow
InOrder(S, before) ==
    CHOOSE s \in [1..Cardinality(S) -> S] : \A i, j \in DOMAIN s : i < j => <<s[i], s[j]>> \in before

Ascending(S) == InOrder(S, {p \in S \X S : p[1] < p[2]})

\* Counter.most_common: by count, then by first occurrence
Ranked(l) ==
    LET seen == {e \in Expert : Count(l, e) > 0}
        ahead == {p \in seen \X seen : \/ Count(l, p[1]) > Count(l, p[2])
                                       \/ Count(l, p[1]) = Count(l, p[2]) /\ SeenBefore(l, p[1], p[2])}
    IN  InOrder(seen, ahead)

\* trace_pins: the first PinLen
TracePins(l) == SubSeq(Ranked(l), 1, AtMost(Len(Ranked(l)), PinLen))

\* blobpack_manifest.py; a trace cut short is ranked like a whole one
Rank ==
    /\ pc \in {"traced", "failed"}
    /\ manifest' = [l \in Layer |-> TracePins(l)]
    /\ pc' = "ranked"
    /\ UNCHANGED <<corpus, at_line, req_idx, req_len, start, at_layer, trace, counters, file, drawn>>

\* Layers with a list under the key that emit_pins.py looks for
Listed == {l \in Layer : PinLen = EmitLen /\ manifest[l] # <<>>}

Entries ==
    LET layers == Ascending(Listed)
    IN  [i \in 1..Cardinality(Listed) |-> [layer |-> layers[i], pins |-> manifest[layers[i]]]]

\* (mutant: the lengths are not compared)
EmitPins_AnyLength ==
    /\ pc = "ranked"
    /\ file' = Entries
    /\ pc' = "emitted"
    /\ UNCHANGED <<corpus, at_line, req_idx, req_len, start, at_layer, trace, counters, manifest, drawn>>
\* emit_pins.py: layers in order, those without a list left out
EmitPins ==
    /\ pc = "ranked"
    /\ \A l \in Listed : Len(manifest[l]) = PinLen
    /\ file' = Entries
    /\ pc' = "emitted"
    /\ UNCHANGED <<corpus, at_line, req_idx, req_len, start, at_layer, trace, counters, manifest, drawn>>

\* Fewer distinct experts were traced than pins are asked for: the assertion
EmitAsserts ==
    /\ pc = "ranked"
    /\ \E l \in Listed : Len(manifest[l]) # PinLen
    /\ pc' = "asserted"
    /\ UNCHANGED <<corpus, at_line, req_idx, req_len, start, at_layer, trace, counters,
                   manifest, file, drawn>>

Next ==
    \/ EmptyLine \/ Request \/ Ubatch \/ Route \/ UbatchDone \/ DecodeFails \/ TraceDone
    \/ Rank \/ EmitPins \/ EmitAsserts

Spec == Init /\ [][Next]_vars

-----------------------------------------------------------------------------
(* Properties *)

RecordType ==
    [req : Nat, pos : Nat, layer : Layer, exp : [1..NUsed -> Expert]]

\* Types; the tracer never counts a request that it has not finished.
TypeOK ==
    /\ pc \in {"line", "ubatch", "layer", "traced", "ranked", "emitted", "asserted", "failed"}
    /\ corpus \in Corpora
    /\ at_line \in 0..Len(corpus) /\ req_idx \in 0..at_line
    /\ req_len \in 0..NBatch /\ start \in 0..req_len
    /\ at_layer \in 1..(NLayer + 1)
    /\ \A i \in DOMAIN trace : trace[i] \in RecordType
    /\ n_records \in Nat /\ n_skip \in Nat /\ n_aux \in Nat
    /\ \A l \in Layer : manifest[l] \in Seq(Expert)
    /\ \A i \in DOMAIN file : file[i].layer \in Layer

\* The line that request q is made of
LineOf(q) == CHOOSE k \in DOMAIN corpus :
                 corpus[k] > 0 /\ Cardinality({j \in 1..(k - 1) : corpus[j] > 0}) = q

\* The tokens of the requests finished, by index
Lengths == [q \in 0..(req_idx - 1) |-> Tokens(corpus[LineOf(q)])]

RecordsOf(q, l) == {i \in DOMAIN trace : trace[i].req = q /\ trace[i].layer = l}
PositionsOf(q, l) == {trace[i].pos : i \in RecordsOf(q, l)}

\* blobpager-trace.cpp:10 and 17-19: of a finished request that fits in one micro-batch, every
\* layer but the last has one record for each position, and of any other request none has any;
\* the last layer has records of requests of one token only. A request that does not fit
\* leaves mismatches in the count that is logged, though a last piece of one token passes for
\* an auxiliary head by itself; as long as requests fit, what is put down to an auxiliary head
\* are the last layer's observations and no others.
WholeRequests ==
    /\ \A q \in DOMAIN Lengths, l \in Layer :
         LET n == Lengths[q]
             whole == n <= NUbatch /\ (l < NLayer \/ n = 1)
         IN  /\ Cardinality(RecordsOf(q, l)) = IF whole THEN n ELSE 0
             /\ PositionsOf(q, l) = IF whole THEN 0..(n - 1) ELSE {}
    /\ (\E q \in DOMAIN Lengths : Lengths[q] > NUbatch) /\ NLayer > 1 /\ NUbatch > 1 => n_skip > 0
    /\ (\A i \in DOMAIN corpus : Tokens(corpus[i]) <= NUbatch) /\ pc \in {"line", "traced"} =>
         /\ n_skip = 0
         /\ n_aux = Cardinality({q \in DOMAIN Lengths : Lengths[q] > 1})

\* What the ids are read from: if NUsed divides NExpert, then the records of a request and layer go
\* through the rankings of its first tokens, each NExpert \div NUsed of them naming every expert once.
EachBlockNamesAll ==
    LET block == NExpert \div NUsed IN
    NExpert % NUsed = 0 =>
        \A q \in DOMAIN Lengths, l \in Layer, b \in 0..(NCtx \div block) :
            LET in == {i \in RecordsOf(q, l) : trace[i].pos \div block = b} IN
            Cardinality(in) = block =>
                UNION {{trace[i].exp[k] : k \in 1..NUsed} : i \in in} = Expert

\* What llama_blobpager_setup is given: no layer twice, and in each layer the same number of
\* experts, none twice; whatever the corpus, and also if the tracer failed.
FileWellFormed ==
    pc = "emitted" =>
        /\ \A i, j \in DOMAIN file : i < j => file[i].layer < file[j].layer
        /\ \A i \in DOMAIN file :
             /\ Len(file[i].pins) = EmitLen
             /\ Cardinality({file[i].pins[s] : s \in 1..EmitLen}) = EmitLen

\* emit_pins.py:11-12, layers without pins "never route in serving": every layer that drew
\* experts for a traced request has pins.
EveryRoutedLayerPinned ==
    pc = "emitted" /\ PinLen = EmitLen =>
        \A l \in Layer : (\E e \in Expert : drawn[l][e] > 0) => l \in Listed

\* blobpack_manifest.py:62, "expert ids ranked by draw frequency": where there are pins, no expert
\* left out was drawn more often than one pinned.
PinnedAreMostDrawn ==
    pc \in {"ranked", "emitted"} =>
        \A l \in Layer : manifest[l] # <<>> =>
            LET pinned == {manifest[l][s] : s \in DOMAIN manifest[l]} IN
            \A e \in pinned, f \in Expert \ pinned : drawn[l][e] >= drawn[l][f]
=============================================================================
