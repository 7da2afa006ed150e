----------------------------- MODULE PagerHarness -----------------------------
(***************************************************************************)
(* llama-blobpager-pager: fill a device pool once, for its time; then run  *)
(* a corpus through the model -- some lines prefilled in chunks, some also *)
(* continued greedily -- and count from an evaluation callback which draws *)
(* the pins would have served.  What the callback knows of a node it takes *)
(* from pager_state, which the main loop sets before each llama_decode.    *)
(*                                                                         *)
(* Layers and ranks count from 1, positions from 0.                        *)
(***************************************************************************)
EXTENDS Integers, Sequences, FiniteSets, SequencesExt

CONSTANTS
    NLayer, NExpert, NUsed,
    Rankings,    \* orders a router may put the experts in
    PinTables,   \* what the pins file may be: layers with pins -> pins
    Corpora,     \* what the corpus may be: token counts of its lines
    NPrefill,    \* --n-prefill
    NGenLines,   \* --n-gen-lines
    NGen,        \* --n-gen
    NCtx, NBatch, NUbatch,
    NPin,        \* --n-pin
    Fallbacks,   \* the other pin counts that are tried, 88, 80, ...
    Capacities   \* pins per layer that the device and the model file may allow; -1: no device

Layer  == 1..NLayer
Expert == 0..(NExpert - 1)
Phase  == {"prefill", "decode"}

ASSUME SizeAssumption ==
    /\ NLayer \in Nat \ {0} /\ NExpert \in Nat \ {0} /\ NUsed \in 1..NExpert
    /\ NPrefill \in Nat /\ NGenLines \in Nat /\ NGen \in Nat
    /\ NCtx \in Nat \ {0} /\ NBatch \in Nat \ {0} /\ NUbatch \in 1..NBatch
    /\ NPin \in Int /\ Fallbacks \in Seq(Nat \ {0})
    /\ \A i, j \in DOMAIN Fallbacks : i < j => Fallbacks[i] > Fallbacks[j]

ASSUME InputAssumption ==
    /\ Corpora \subseteq Seq(Nat) /\ Capacities \subseteq Int
    /\ \A p \in PinTables : /\ DOMAIN p \subseteq Layer /\ DOMAIN p # {}
                            /\ \A l \in DOMAIN p : p[l] \subseteq Expert
    /\ \A r \in Rankings : /\ r \in [1..NExpert -> Expert]
                           /\ \A i, j \in 1..NExpert : r[i] = r[j] => i = j

VARIABLES
    pc,          \* "fill" | "line" | "chunk" | "layer" | "sample" | "done" | "failed"
    lines, pinned, capacity,
    ci,          \* the candidate looked at next: 0 is --n-pin, the others are the fallbacks
    tried,       \* pin counts the fill was tried with
    pool,        \* pins per layer of the fill that succeeded; -1: none
    at_line,     \* lines taken
    req_idx,     \* of the request in flight
    gen_idx,     \* what the next request to be continued is called
    req_len, chunk_pos, expected_tok, decode_idx, in_decode,
    at_layer,
    stats,       \* phase -> phase_stats
    out, n_out,  \* the detail records, and how many were written
    fed,         \* (phase -> tokens decoded in micro-batches that ended)
    true_hits,   \* (phase -> hits among what the routers really drew for observed rows)
    finished     \* (requests finished: index, length, tokens generated)

fill  == <<ci, tried, pool>>
input == <<lines, pinned, capacity>>
req   == <<req_idx, gen_idx, req_len, chunk_pos, expected_tok, decode_idx, in_decode>>
acct  == <<stats, out, n_out, true_hits>>
vars  == <<pc, input, fill, at_line, req, at_layer, acct, fed, finished>>

-----------------------------------------------------------------------------

AtMost(n, bound) == IF n < bound THEN n ELSE bound

NoStats ==
    [draws |-> 0, hits |-> 0, obs |-> 0, aux_skipped |-> 0, mismatched |-> 0,
     layers |-> [l \in Layer |-> 0],
     miss_union_sum |-> 0, hit_union_sum |-> 0, ub_miss |-> 0, ub_hit |-> 0,
     ub_miss_hist |-> <<>>, ub_hit_hist |-> <<>>]

\* How many lines are prefilled only, and how many continued
PrefillLines == AtMost(NPrefill, Len(lines))
GenLines     == AtMost(NGenLines, Len(lines) - PrefillLines)

Init ==
    /\ pc = "fill"
    /\ lines \in Corpora /\ pinned \in PinTables /\ capacity \in Capacities
    /\ ci = 0 /\ tried = <<>> /\ pool = -1
    /\ at_line = 0
    /\ req_idx = -1 /\ req_len = 0 /\ chunk_pos = 0 /\ expected_tok = 0 /\ decode_idx = 0
    /\ gen_idx = PrefillLines
    /\ in_decode = FALSE
    /\ at_layer = 1
    /\ stats = [ph \in Phase |-> NoStats]
    /\ out = {} /\ n_out = 0
    /\ fed = [ph \in Phase |-> 0] /\ true_hits = [ph \in Phase |-> 0]
    /\ finished = {}

-----------------------------------------------------------------------------
(* The pool fill. *)

Longest == CHOOSE n \in 0..NExpert :
             /\ \E l \in DOMAIN pinned : Cardinality(pinned[l]) = n
             /\ \A l \in DOMAIN pinned : Cardinality(pinned[l]) <= n

\* Pins per layer when np are asked for: a limit that is not positive is none
Limited(np) == IF np > 0 THEN AtMost(Longest, np) ELSE Longest

\* candidates[i]
Candidate(i) == IF i = 0 THEN NPin ELSE Fallbacks[i]

\* (mutant: larger fallbacks are not left out)
Skipped_None(i) == FALSE
\* A fallback that asks for no less than --n-pin is passed over
Skipped(i) == i > 0 /\ Candidate(i) >= NPin

SkipCandidate ==
    /\ pc = "fill" /\ pool = -1 /\ ci <= Len(Fallbacks)
    /\ Skipped(ci)
    /\ ci' = ci + 1
    /\ UNCHANGED <<pc, input, tried, pool, at_line, req, at_layer, acct, fed, finished>>

\* An attempt ends with the pool in place, timed and freed, or with the next candidate
TryFill ==
    /\ pc = "fill" /\ pool = -1 /\ ci <= Len(Fallbacks)
    /\ ~Skipped(ci)
    /\ LET np == Candidate(ci) IN
         /\ tried' = Append(tried, np)
         /\ pool' = IF Limited(np) <= capacity THEN Limited(np) ELSE -1
    /\ ci' = ci + 1
    /\ UNCHANGED <<pc, input, at_line, req, at_layer, acct, fed, finished>>

\* The fill is over, or was switched off; whatever came of it, the corpus is run
RunCorpus ==
    /\ pc = "fill"
    /\ ci = 0 \/ pool # -1 \/ ci > Len(Fallbacks)
    /\ pc' = "line"
    /\ UNCHANGED <<input, fill, at_line, req, at_layer, acct, fed, finished>>

-----------------------------------------------------------------------------
(* The corpus. *)

Continued == at_line > PrefillLines    \* the line in flight is one of the second pass

EmptyLine ==
    /\ pc = "line" /\ at_line < PrefillLines + GenLines
    /\ lines[at_line + 1] = 0
    /\ at_line' = at_line + 1
    /\ UNCHANGED <<pc, input, fill, req, at_layer, acct, fed, finished>>

\* (mutant: only the context is a limit)
PromptTokens_CtxOnly(n) == AtMost(n, NCtx)
PromptTokens(n) == AtMost(n, AtMost(NCtx, NBatch))

\* run_prefill starts: named by its line in the first pass, by a count in the second
Request ==
    /\ pc = "line" /\ at_line < PrefillLines + GenLines
    /\ lines[at_line + 1] > 0
    /\ at_line' = at_line + 1
    /\ req_idx' = IF at_line < PrefillLines THEN at_line ELSE gen_idx
    /\ req_len' = PromptTokens(lines[at_line + 1])
    /\ chunk_pos' = 0 /\ decode_idx' = 0 /\ in_decode' = FALSE
    /\ pc' = "chunk"
    /\ UNCHANGED <<input, fill, gen_idx, expected_tok, at_layer, acct, fed, finished>>

\* One chunk of the prompt, an output wanted for its last token, goes to llama_decode
Chunk ==
    /\ pc = "chunk"
    /\ expected_tok' = AtMost(NUbatch, req_len - chunk_pos)
    /\ pc' = "layer" /\ at_layer' = 1
    /\ UNCHANGED <<input, fill, at_line, req_idx, gen_idx, req_len, chunk_pos, decode_idx,
                   in_decode, acct, fed, finished>>

-----------------------------------------------------------------------------
(* The callback. *)

Cur == IF in_decode THEN "decode" ELSE "prefill"

UbatchTokens == IF in_decode THEN 1 ELSE expected_tok

\* The last layer has a row for the chunk's last token only
Rows == IF at_layer < NLayer THEN UbatchTokens ELSE 1

\* (mutant: the copy starts one id late)
IdAt_OneLate(r, i) == r[((i + 1) \div NExpert) + 1][((i + 1) % NExpert) + 1]
\* The i-th of the ids copied: the memory has NExpert per row, in order
IdAt(r, i) == r[(i \div NExpert) + 1][(i % NExpert) + 1]
Ids(r, n)  == [i \in 0..(n * NUsed - 1) |-> IdAt(r, i)]

Hits(ids)      == Cardinality({i \in DOMAIN ids : ids[i] \in pinned[at_layer]})
HitUnion(ids)  == Cardinality({ids[i] : i \in DOMAIN ids} \cap pinned[at_layer])
MissUnion(ids) == Cardinality({ids[i] : i \in DOMAIN ids} \ pinned[at_layer])

TrueHits(r, n) ==
    Cardinality({jk \in (1..n) \X (1..NUsed) : r[jk[1]][jk[2]] \in pinned[at_layer]})

\* (mutant: the chunk the row is in is left out)
Position_InChunk(j) == IF in_decode THEN req_len + decode_idx ELSE j
Position(j) == IF in_decode THEN req_len + decode_idx ELSE chunk_pos + j

\* The sums of a phase once n rows with these ids are added
Counted(s, n, ids) ==
    [s EXCEPT !.draws = @ + n * NUsed, !.hits = @ + Hits(ids), !.obs = @ + 1,
              !.layers[at_layer] = @ + n * NUsed,
              !.miss_union_sum = @ + MissUnion(ids), !.hit_union_sum = @ + HitUnion(ids),
              !.ub_miss = @ + MissUnion(ids), !.ub_hit = @ + HitUnion(ids)]

Count(r, n) ==
    /\ stats' = [stats EXCEPT ![Cur] = Counted(@, n, Ids(r, n))]
    /\ out' = out \cup {[ph |-> Cur, req |-> req_idx, pos |-> Position(j), layer |-> at_layer] :
                            j \in 0..(n - 1)}
    /\ n_out' = n_out + n
    /\ true_hits' = [true_hits EXCEPT ![Cur] = @ + TrueHits(r, n)]

\* (mutant: rows are not compared)
PagerCb_AnyRows(r, n) ==
    IF at_layer \notin DOMAIN pinned
    THEN /\ stats' = [stats EXCEPT ![Cur].aux_skipped = @ + 1]
         /\ UNCHANGED <<out, n_out, true_hits>>
    ELSE Count(r, n)
\* pager_cb for n rows r of a layer's top-k
PagerCb(r, n) ==
    IF at_layer \notin DOMAIN pinned
    THEN /\ stats' = [stats EXCEPT ![Cur].aux_skipped = @ + 1]
         /\ UNCHANGED <<out, n_out, true_hits>>
    ELSE IF ~in_decode /\ n # expected_tok
    THEN /\ stats' = [stats EXCEPT !["prefill"].mismatched = @ + 1]
         /\ UNCHANGED <<out, n_out, true_hits>>
    ELSE Count(r, n)

Route ==
    /\ pc = "layer" /\ at_layer <= NLayer
    /\ \E r \in [1..Rows -> Rankings] : PagerCb(r, Rows)
    /\ at_layer' = at_layer + 1
    /\ UNCHANGED <<pc, input, fill, at_line, req, fed, finished>>

\* (mutant: a chunk's sums are not reset)
Flushed_Kept(s) ==
    [s EXCEPT !.ub_miss_hist = Append(@, s.ub_miss), !.ub_hit_hist = Append(@, s.ub_hit)]
\* flush_ub
Flushed(s) ==
    [s EXCEPT !.ub_miss_hist = Append(@, s.ub_miss), !.ub_hit_hist = Append(@, s.ub_hit),
              !.ub_miss = 0, !.ub_hit = 0]

\* llama_decode returns: the micro-batch is flushed, and the request goes on to its next chunk,
\* to sampling, or, in the first pass, ends
DecodeReturns ==
    /\ pc = "layer" /\ at_layer > NLayer
    /\ stats' = [stats EXCEPT ![Cur] = Flushed(@)]
    /\ fed' = [fed EXCEPT ![Cur] = @ + UbatchTokens]
    /\ IF ~in_decode /\ chunk_pos + expected_tok < req_len
       THEN /\ chunk_pos' = chunk_pos + NUbatch
            /\ pc' = "chunk"
            /\ UNCHANGED finished
       ELSE /\ pc' = IF Continued THEN "sample" ELSE "line"
            /\ finished' = IF Continued THEN finished
                           ELSE finished \cup {[req |-> req_idx, len |-> req_len, gen |-> 0]}
            /\ UNCHANGED chunk_pos
    /\ UNCHANGED <<input, fill, at_line, req_idx, gen_idx, req_len, expected_tok, decode_idx,
                   in_decode, at_layer, out, n_out, true_hits>>

\* llama_decode fails, as it must when the context is full: the harness ends, without a summary
DecodeFails ==
    /\ pc = "layer"
    /\ pc' = "failed"
    /\ UNCHANGED <<input, fill, at_line, req, at_layer, acct, fed, finished>>

\* Tokens generated so far when one is sampled
Produced == IF in_decode THEN decode_idx + 1 ELSE 0

\* The best token is fed back; past the end of the context, llama_decode finds no slot
Generate ==
    /\ pc = "sample"
    /\ Produced < NGen
    /\ in_decode' = TRUE
    /\ decode_idx' = Produced
    /\ IF req_len + Produced < NCtx THEN pc' = "layer" /\ at_layer' = 1
                                    ELSE pc' = "failed" /\ at_layer' = at_layer
    /\ UNCHANGED <<input, fill, at_line, req_idx, gen_idx, req_len, chunk_pos, expected_tok,
                   acct, fed, finished>>

\* The end of the text, or of the tokens asked for
EndOfText ==
    /\ pc = "sample"
    /\ in_decode' = FALSE
    /\ gen_idx' = gen_idx + 1
    /\ finished' = finished \cup {[req |-> req_idx, len |-> req_len, gen |-> Produced]}
    /\ pc' = "line"
    /\ UNCHANGED <<input, fill, at_line, req_idx, req_len, chunk_pos, expected_tok, decode_idx,
                   at_layer, acct, fed>>

Summary ==
    /\ pc = "line" /\ at_line = PrefillLines + GenLines
    /\ pc' = "done"
    /\ UNCHANGED <<input, fill, at_line, req, at_layer, acct, fed, finished>>

Next ==
    \/ SkipCandidate \/ TryFill \/ RunCorpus \/ EmptyLine \/ Request \/ Chunk \/ Route \/ DecodeReturns
    \/ DecodeFails \/ Generate \/ EndOfText \/ Summary

Spec == Init /\ [][Next]_vars

-----------------------------------------------------------------------------
(* Properties *)

StatsOK(s) ==
    /\ \A n \in {s.draws, s.hits, s.obs, s.aux_skipped, s.mismatched, s.miss_union_sum,
                 s.hit_union_sum, s.ub_miss, s.ub_hit} : n \in Nat
    /\ s.layers \in [Layer -> Nat]
    /\ s.ub_miss_hist \in Seq(Nat) /\ s.ub_hit_hist \in Seq(Nat)

\* Types; a request's chunks stay inside its prompt, and what is generated inside the context.
TypeOK ==
    /\ pc \in {"fill", "line", "chunk", "layer", "sample", "done", "failed"}
    /\ lines \in Corpora /\ pinned \in PinTables /\ capacity \in Capacities
    /\ ci \in 0..(Len(Fallbacks) + 1) /\ tried \in Seq(Int) /\ pool \in -1..NExpert
    /\ at_line \in 0..Len(lines)
    /\ req_idx \in -1..Len(lines) /\ gen_idx \in 0..Len(lines)
    /\ req_len \in 0..AtMost(NCtx, NBatch)
    /\ pc \in {"chunk", "layer"} => chunk_pos < req_len
    /\ pc = "layer" => /\ in_decode => req_len + decode_idx < NCtx
                       /\ expected_tok \in 1..NUbatch
    /\ in_decode \in BOOLEAN
    /\ at_layer \in 1..(NLayer + 1)
    /\ \A ph \in Phase : StatsOK(stats[ph])

Served == DOMAIN pinned

Records(ph, q, l) == {rec \in out : rec.ph = ph /\ rec.req = q /\ rec.layer = l}

\* blobpager-pager.cpp:22-23, per-(req,pos,layer) detail with a phase tag: of a finished request
\* every served layer but the last has one record for each prompt position in the prefill phase
\* and one for each position generated in the decode phase; no record is written twice, so two
\* requests never share an index, whatever lines are empty.
RecordedOnce ==
    /\ n_out = Cardinality(out)
    /\ \A f \in finished, l \in Served \ {NLayer} :
         /\ {rec.pos : rec \in Records("prefill", f.req, l)} = 0..(f.len - 1)
         /\ {rec.pos : rec \in Records("decode", f.req, l)} = f.len..(f.len + f.gen - 1)

TotalsAddUp(s) ==
    /\ s.draws = FoldLeft(+, 0, [l \in 1..NLayer |-> s.layers[l]])
    /\ FoldLeft(+, s.ub_miss, s.ub_miss_hist) = s.miss_union_sum
    /\ FoldLeft(+, s.ub_hit, s.ub_hit_hist) = s.hit_union_sum

NothingLeftOver(ph) ==
    /\ stats[ph].ub_miss = 0 /\ stats[ph].ub_hit = 0
    /\ \A l \in Served \ {NLayer} : stats[ph].layers[l] = NUsed * fed[ph]

\* Whatever is counted is counted in the phase its tokens were decoded in: between micro-batches
\* no draw of a served layer before the last is missing from either phase, the totals kept per
\* micro-batch add up to the sums kept per observation, and nothing is left over for the next
\* micro-batch, of whichever phase.
CountedInPhase ==
    \A ph \in Phase :
        /\ TotalsAddUp(stats[ph])
        /\ pc \in {"line", "chunk", "sample", "done"} => NothingLeftOver(ph)

\* What the harness leaves out is the last layer's prefill and nothing else: with a pins file that
\* has no last layer nothing is mismatched; with one that has, its prefill records are those of
\* chunks of one token, whose only row is wanted. In the decode phase all of its draws are there.
OnlyLastLayerDropped ==
    /\ stats["decode"].mismatched = 0
    /\ NLayer \notin Served => stats["prefill"].mismatched = 0
    /\ NLayer \in Served =>
         /\ \A f \in finished :
              {rec.pos : rec \in Records("prefill", f.req, NLayer)} =
                  {p \in 0..(f.len - 1) : p % NUbatch = 0 /\ (NUbatch = 1 \/ p = f.len - 1)}
         /\ pc \in {"line", "chunk", "sample", "done"} =>
              stats["decode"].layers[NLayer] = NUsed * fed["decode"]

\* blobpager-pager.cpp:15-18, "partitioning each top-8 draw into hits (expert is pinned) vs
\* misses", where it holds: the hits of the decode phase are those of the experts really drawn.
DecodeHitsTrue == stats["decode"].hits = true_hits["decode"]

\* blobpager-pager.cpp:536, "degrading pin count if VRAM refuses": attempts ask for ever fewer pins,
\* and the fill that succeeds is of the largest count asked for that fits.
FillsLargest ==
    /\ \A i, j \in DOMAIN tried : i < j => tried[i] > tried[j]
    /\ pool # -1 => /\ pool <= capacity
                    /\ \A np \in {NPin} \cup {Fallbacks[i] : i \in DOMAIN Fallbacks} :
                         np <= NPin /\ Limited(np) <= capacity => Limited(np) <= pool
=============================================================================
