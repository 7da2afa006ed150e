---------------------------- MODULE MC_Threadpool ----------------------------
(* Values of Threadpool's constants that a .cfg cannot write. *)
EXTENDS Threadpool

MatNopPlain == <<"mat", "nop", "plain">>
=============================================================================
