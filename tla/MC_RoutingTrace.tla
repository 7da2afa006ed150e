---------------------------- MODULE MC_RoutingTrace ----------------------------
(* Values of RoutingTrace's constants that a .cfg cannot write. *)
EXTENDS RoutingTrace

\* Two routers' opinions that share no drawn expert
TwoRankings == {<<0, 1, 2, 3>>, <<3, 2, 1, 0>>}

\* One request that fits
OneRequest == {<<3>>}
=============================================================================
