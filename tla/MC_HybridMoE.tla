---------------------------- MODULE MC_HybridMoE ----------------------------
(* Values of HybridMoE's constants that a .cfg cannot write. *)
EXTENDS HybridMoE, TLC

Batch(n, o) == [n_tokens |-> n, n_outputs |-> o]

\* Two pinned layers with different pools
TwoPools == (1 :> {0, 1}) @@ (2 :> {2})
\* The same with the large pool last
LargeLast == (1 :> {2}) @@ (2 :> {0, 1})
\* One pinned layer, whose pool leaves two experts out
OnePool == 1 :> {0}

\* Decode of one sequence: one token per micro-batch, its output wanted or not,
\* and prefill chunks longer than MaxT, of which at most the last wants an output
OneRow == {Batch(1, 0), Batch(1, 1), Batch(3, 0), Batch(3, 1)}
\* Several sequences, or a prompt no longer than MaxT
FewRows == {Batch(1, 1), Batch(2, 1), Batch(2, 2)}
\* Chunks longer than MaxT, whose last layer alone has few rows, and one that is not
MixedRows == {Batch(2, 1), Batch(3, 1), Batch(3, 2)}
=============================================================================
