----------------------------- MODULE MC_EvalSched -----------------------------
(* Values of EvalSched's constants that a .cfg cannot write. *)
EXTENDS EvalSched, FiniteSetsExt

\* Two layers the pools serve: activation, router's top-k, pool products, add
TwoLayers == <<"moe_in", "topk", "plain", "add", "moe_in", "topk", "plain", "add">>
TheirLayers == <<1, 1, 1, 1, 2, 2, 2, 2>>

\* One split, or two or three, cut anywhere
FewSplits ==
    LET EndsAfter(cuts) == [n \in 1..NNode |-> Min({e \in cuts \cup {NNode} : e >= n})]
    IN  {EndsAfter(cuts) : cuts \in UNION {kSubset(k, 1..(NNode - 1)) : k \in 0..2}}
=============================================================================
