------------------------------- MODULE MC_Setup -------------------------------
(* Values of Setup's constants that a .cfg cannot write. *)
EXTENDS Setup, SequencesExt

\* Pins of up to three slots, the same expert twice and ids that are no expert included
FewPins == BoundedSeq(-1..NExpert, 2) \cup {<<0, 1, 0>>, <<2, 1, 2>>}

Entry(l, ps) == [layer |-> l, pins |-> ps]

\* Every file of one entry and many of two: other layers, the same layer twice, a layer
\* the models do not have, one beyond NLayer
FewFiles ==
    {Unset, Garbled, [kind |-> "ok", entries |-> <<>>]} \cup
    {[kind |-> "ok", entries |-> es] :
        es \in {<<Entry(l, ps)>> : l \in 0..(NLayer + 1), ps \in FewPins} \cup
               {<<Entry(1, <<1, 0>>), Entry(l, ps)>> : l \in 0..(NLayer + 1), ps \in FewPins}}

TwoLayers == [m \in Model |-> 2]

\* One model fit for the pools, one with layer 2's gate on the GPU, one without a GPU
Hosts ==
    [m \in Model |-> [l \in 1..2 |-> IF m = "partial" /\ l = 2 THEN {1, 3} ELSE Tensor]]
=============================================================================
