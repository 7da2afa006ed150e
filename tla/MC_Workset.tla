----------------------------- MODULE MC_Workset -----------------------------
(* Values of the constants of RoutingTrace and Workset that a .cfg cannot write. *)
EXTENDS Workset

\* Two opinions of a router, of which one draws again what the other did not draw last
TwoRankings == {<<0, 1, 2, 3>>, <<3, 1, 2, 0>>}

\* Requests of one token, of as many as a micro-batch takes, of more than that, than a batch
\* and than the context; lines without tokens among them; three requests, so that one of them
\* is for calibration
Lines == {<<>>, <<1>>, <<0, 2>>, <<1, 2>>, <<3>>, <<6>>, <<3, 0, 1>>,
          <<1, 1, 1>>, <<2, 1, 1>>}
=============================================================================
