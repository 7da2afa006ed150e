---------------------------- MODULE MC_PagerHarness ----------------------------
(* Values of PagerHarness's constants that a .cfg cannot write. *)
EXTENDS PagerHarness, TLC

\* Two routers' opinions that share no drawn expert
TwoRankings == {<<0, 1, 2, 3>>, <<3, 0, 2, 1>>}

\* The pins file as emitted, without the last layer, and one that has it
FewTables == {1 :> {0, 1}, (1 :> {0, 1}) @@ (2 :> {3})}

\* A prompt of several chunks, the last of one token or more; lines without tokens
Lines == {<<3, 1>>, <<2, 0, 2>>, <<0, 5>>, <<1, 4>>, <<1, 0, 1>>}

Counts == <<4, 2, 1>>

\* No device; room for one pin per layer
FewCapacities == {-1, 1}
=============================================================================
